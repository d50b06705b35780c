SPECIFICATION FairSpec
CONSTANTS
  Kern = Kern  Idle = Idle  Comp = Comp  About = About  NoOwner = NoOwner
  u1 = u1  u2 = u2
  UserTasks <- Users
  NTest = 2
  MaxSleep = 1
  Commands <- LiveCommands
PROPERTY NoStarvation
PROPERTY SleeperRuns
PROPERTY CommandReturns
