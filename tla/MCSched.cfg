SPECIFICATION Spec
CONSTANTS
  Kern = Kern  Idle = Idle  Comp = Comp  About = About  NoOwner = NoOwner
  u1 = u1  u2 = u2
  UserTasks <- Users
  NTest = 2
  MaxSleep = 1
  Commands <- EveryCommand
INVARIANT TypeOK
INVARIANT CpuOwnership
INVARIANT ListIsLiveTasks
INVARIANT SleepersArmed
INVARIANT NoBklDeadlock
INVARIANT ExecWaitSafe
PROPERTY DeadIsFinal
