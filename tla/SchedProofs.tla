---------------------------- MODULE SchedProofs ----------------------------
(***************************************************************************)
(* Proofs about Sched, for any set of user tasks, any set of shell         *)
(* commands and any sleep bound.                                           *)
(*                                                                         *)
(* CpuOwnership, ListIsLiveTasks, SleepersArmed and NoBklDeadlock are not  *)
(* inductive one by one.  Inv adds what their proofs need of the program   *)
(* counters: who may hold the lock, what a task's state can be at each     *)
(* place in sleep_ms and task_exit, that the idle task never sleeps and    *)
(* that the compositor never ends.                                         *)
(***************************************************************************)
EXTENDS Sched, SequenceTheorems, TLAPS

(* The Big Kernel Lock is held only by the running task, inside its        *)
(* locked section.                                                         *)
LockInv == bkl # NoOwner => bkl = current /\ pc[current] = "locked"

(* The running task exists; between the arming of a sleep and the switch   *)
(* its wake-up time is set; a task that does not sleep is never blocked.   *)
PcInv ==
  /\ state[current] \in {"RUNNING", "BLOCKED", "DEAD"}
  /\ pc[Idle] \in {"run", "halt"}
  /\ state[Comp] \notin {"NONE", "DEAD"}
  /\ sleeper \subseteq AllTasks \ {Idle, Comp, About}
  /\ \A t \in AllTasks :
       /\ pc[t] = "armed" => wake[t] # NoWake /\ state[t] \in {"READY", "RUNNING"}
       /\ t \notin sleeper \cup {Comp} =>
            state[t] # "BLOCKED" /\ pc[t] \notin {"armed", "asleep"}

Inv == TypeOK /\ CpuOwnership /\ ListIsLiveTasks /\ SleepersArmed /\ NoBklDeadlock
         /\ LockInv /\ PcInv

-----------------------------------------------------------------------------
(* Removing an element of a sequence without repetitions: what Remove     *)
(* returns (task_list_remove).                                             *)
LEMMA RemoveProperties ==
  ASSUME NEW S, NEW s \in Seq(S), NEW k \in 1..Len(s)
  PROVE  /\ Remove(s, k) \in Seq(S)
         /\ Len(Remove(s, k)) = Len(s) - 1
         /\ \A i \in 1..(Len(s) - 1) : Remove(s, k)[i] = IF i < k THEN s[i] ELSE s[i + 1]
<1>1. Len(s) \in Nat /\ \A i \in 1..Len(s) : s[i] \in S
  BY LenProperties, ElementOfSeq
<1>2. Len(s) - 1 \in Nat
  BY <1>1
<1>3. Remove(s, k) \in [1..(Len(s) - 1) -> S]
  BY <1>1 DEF Remove
<1>4. Remove(s, k) \in Seq(S)
  BY <1>2, <1>3, SeqDef
<1>5. Len(Remove(s, k)) = Len(s) - 1
  BY <1>2, <1>3, <1>4, LenProperties
<1>. QED
  BY <1>4, <1>5 DEF Remove

(* What one call of sched_schedule does to the states of the tasks: it     *)
(* leaves exactly the new current_task RUNNING, never brings a task to     *)
(* life or kills one, and never blocks one.                                *)
LEMMA ScheduleFacts ==
  ASSUME Inv, bkl = NoOwner, sched_schedule
  PROVE  /\ hung' = FALSE /\ iflag' = TRUE
         /\ current' \in AllTasks
         /\ state' \in [AllTasks -> States]
         /\ wake' \in [AllTasks -> NoWake..MaxSleep]
         /\ state'[current'] = "RUNNING"
         /\ \A t \in AllTasks : state'[t] = "RUNNING" => t = current'
         /\ current' # Idle => state'[Idle] = "READY"
         /\ \A t \in AllTasks :
              /\ state'[t] = "NONE" <=> state[t] = "NONE"
              /\ state'[t] = "DEAD" <=> state[t] = "DEAD"
              /\ state'[t] = "BLOCKED" => state[t] = "BLOCKED" /\ wake'[t] = wake[t]
              /\ state[t] # "BLOCKED" => wake'[t] = wake[t]
<1>1. /\ hung' = FALSE /\ iflag' = TRUE /\ wake' = WakeUpdated
      /\ \E c \in Chosen(StateUpdated) : SwitchTo(c)
  BY DEF sched_schedule
<1>2. PICK c \in Chosen(StateUpdated) : SwitchTo(c)
  BY <1>1
<1>3. Idle \in AllTasks /\ current \in AllTasks /\ InList(Idle) /\ InList(current)
  BY DEF Inv, TypeOK, CpuOwnership, ListIsLiveTasks, PcInv, AllTasks, Protected
<1>4. /\ StateUpdated \in [AllTasks -> States]
      /\ \A t \in AllTasks :
           /\ StateUpdated[t] = "RUNNING" <=> state[t] = "RUNNING"
           /\ StateUpdated[t] = "NONE" <=> state[t] = "NONE"
           /\ StateUpdated[t] = "DEAD" <=> state[t] = "DEAD"
           /\ StateUpdated[t] = "BLOCKED" => state[t] = "BLOCKED" /\ ~Due(t)
           /\ state[t] = "READY" => StateUpdated[t] = "READY"
  BY DEF StateUpdated, Due, Inv, TypeOK, States
<1>5. /\ WakeUpdated \in [AllTasks -> NoWake..MaxSleep]
      /\ \A t \in AllTasks : (~Due(t) \/ state[t] # "BLOCKED") => WakeUpdated[t] = wake[t]
  BY BoundsAssumption DEF WakeUpdated, Due, Inv, TypeOK, NoWake
<1>6. c \in Candidates(StateUpdated) => c \in AllTasks /\ c # Idle /\ c # current
                                          /\ StateUpdated[c] = "READY"
  <2>. HAVE c \in Candidates(StateUpdated)
  <2>1. c \in AllTasks /\ c # Idle /\ InList(c) /\ StateUpdated[c] = "READY"
        /\ (c # Start \/ Len(tasks) = 1)
    BY DEF Candidates
  <2>2. Start = current
    BY <1>3 DEF Start
  <2>3. PICK i \in 1..Len(tasks) : tasks[i] = c
    BY <2>1 DEF InList
  <2>4. PICK j \in 1..Len(tasks) : tasks[j] = Idle
    BY <1>3 DEF InList
  <2>5. Len(tasks) \in Nat
    BY LenProperties DEF Inv, TypeOK
  <2>6. Len(tasks) # 1
    BY <2>1, <2>3, <2>4, <2>5
  <2>. QED
    BY <2>1, <2>2, <2>6
<1>7. c \notin Candidates(StateUpdated) =>
        \/ c = Idle /\ current # Idle /\ StateUpdated[Idle] = "READY"
        \/ c = current /\ current = Idle /\ state[current] = "RUNNING"
  <2>1. Candidates(StateUpdated) # {} => c \in Candidates(StateUpdated)
    BY <1>2 DEF Chosen
  <2>2. Candidates(StateUpdated) = {} =>
          c \in (IF StateUpdated[Idle] = "READY" \/ StateUpdated[current] # "RUNNING"
                 THEN {Idle} ELSE {current})
    BY <1>2 DEF Chosen
  <2>3. current # Idle => StateUpdated[Idle] = "READY"
    BY <1>3, <1>4 DEF Inv, CpuOwnership
  <2>4. current = Idle => state[Idle] = "RUNNING"
    BY DEF Inv, CpuOwnership, PcInv
  <2>. QED
    BY <2>1, <2>2, <2>3, <2>4, <1>3, <1>4
<1>8. CASE c = current
  <2>1. current' = current /\ state' = StateUpdated /\ current = Idle /\ state[current] = "RUNNING"
    BY <1>2, <1>6, <1>7, <1>8 DEF SwitchTo
  <2>. QED
    BY <1>1, <1>3, <1>4, <1>5, <2>1 DEF Inv, CpuOwnership, TypeOK
<1>9. CASE c # current
  <2>1. c \in AllTasks /\ StateUpdated[c] = "READY"
    BY <1>3, <1>6, <1>7, <1>9
  <2>2. /\ current' = c
        /\ state' = [t \in AllTasks |->
                      IF t = c THEN "RUNNING"
                      ELSE IF t = current /\ StateUpdated[t] = "RUNNING" THEN "READY"
                      ELSE StateUpdated[t]]
    BY <1>2, <1>9 DEF SwitchTo
  <2>3. state' \in [AllTasks -> States] /\ state'[current'] = "RUNNING"
    BY <1>4, <2>1, <2>2 DEF States
  <2>4. \A t \in AllTasks : state'[t] = "RUNNING" => t = current'
    BY <1>4, <2>2 DEF Inv, CpuOwnership
  <2>5. current' # Idle => state'[Idle] = "READY"
    BY <1>3, <1>4, <2>2 DEF Inv, CpuOwnership, PcInv
  <2>6. \A t \in AllTasks :
              /\ state'[t] = "NONE" <=> state[t] = "NONE"
              /\ state'[t] = "DEAD" <=> state[t] = "DEAD"
              /\ state'[t] = "BLOCKED" => state[t] = "BLOCKED" /\ ~Due(t)
    BY <1>4, <2>1, <2>2 DEF States
  <2>. QED
    BY <1>1, <1>5, <2>1, <2>2, <2>3, <2>4, <2>5, <2>6
<1>. QED
  BY <1>8, <1>9

(* The steps that reach sched_schedule, with the new program counters: the *)
(* caller is outside its locked section, so the lock is free.              *)
LEMMA ScheduleKeepsInv ==
  ASSUME Inv, bkl = NoOwner, sched_schedule,
         UNCHANGED <<tasks, bkl, sleeper, shell, aboutRunning>>,
         \/ UNCHANGED pc
         \/ At(Idle, "halt") /\ Goto(Idle, "run")
         \/ \E t \in AllTasks : At(t, "asleep") /\ Goto(t, "run")
  PROVE  Inv'
<1>0. /\ hung' = FALSE /\ iflag' = TRUE
      /\ current' \in AllTasks
      /\ state' \in [AllTasks -> States]
      /\ wake' \in [AllTasks -> NoWake..MaxSleep]
      /\ state'[current'] = "RUNNING"
      /\ \A t \in AllTasks : state'[t] = "RUNNING" => t = current'
      /\ current' # Idle => state'[Idle] = "READY"
      /\ \A t \in AllTasks :
           /\ state'[t] = "NONE" <=> state[t] = "NONE"
           /\ state'[t] = "DEAD" <=> state[t] = "DEAD"
           /\ state'[t] = "BLOCKED" => state[t] = "BLOCKED" /\ wake'[t] = wake[t]
           /\ state[t] # "BLOCKED" => wake'[t] = wake[t]
  BY ScheduleFacts
<1>1. /\ pc' \in [AllTasks -> PCs]
      /\ \A t \in AllTasks : pc'[t] = pc[t] \/ pc'[t] = "run"
  BY DEF Goto, At, Inv, TypeOK, PCs
<1>2. Idle \in AllTasks /\ Comp \in AllTasks
  BY DEF AllTasks, Protected
<1>3. TypeOK'
  BY <1>0, <1>1 DEF Inv, TypeOK
<1>4. CpuOwnership' /\ NoBklDeadlock'
  BY <1>0 DEF CpuOwnership, NoBklDeadlock
<1>5. ListIsLiveTasks'
  BY <1>0 DEF Inv, ListIsLiveTasks, InList
<1>6. SleepersArmed'
  BY <1>0 DEF Inv, SleepersArmed
<1>7. LockInv'
  BY DEF LockInv
<1>8. PcInv'
  <2>1. \A t \in AllTasks : pc'[t] = "armed" =>
            wake'[t] # NoWake /\ state'[t] \in {"READY", "RUNNING"}
    BY <1>0, <1>1 DEF Inv, PcInv, States
  <2>. QED
    BY <2>1, <1>0, <1>1, <1>2 DEF Inv, PcInv
<1>. QED
  BY <1>3, <1>4, <1>5, <1>6, <1>7, <1>8 DEF Inv

(* The state kmain leaves when sched_init has run satisfies the inductive  *)
(* invariant.                                                              *)
LEMMA InitInv == Init => Inv
<1>. SUFFICES ASSUME Init PROVE Inv
  OBVIOUS
<1>1. {Kern, Idle, Comp, About} \subseteq AllTasks
  BY DEF AllTasks, Protected
<1>2. TypeOK
  <2>1. tasks \in Seq(AllTasks)
    BY <1>1 DEF Init
  <2>2. NoShell \in ShellType
    BY BoundsAssumption DEF NoShell, ShellType
  <2>3. wake \in [AllTasks -> NoWake..MaxSleep]
    BY BoundsAssumption DEF Init, NoWake
  <2>. QED
    BY <1>1, <2>1, <2>2, <2>3 DEF Init, TypeOK, States, PCs
<1>3. Len(tasks) = 3 /\ tasks[1] = Kern /\ tasks[2] = Idle /\ tasks[3] = Comp
  BY DEF Init
<1>4. ListIsLiveTasks
  BY <1>1, <1>3, TasksAssumption DEF Init, ListIsLiveTasks, InList
<1>5. CpuOwnership /\ SleepersArmed /\ NoBklDeadlock
  BY <1>1, TasksAssumption DEF Init, CpuOwnership, SleepersArmed, NoBklDeadlock
<1>6. LockInv /\ PcInv
  BY <1>1, TasksAssumption DEF Init, LockInv, PcInv
<1>. QED
  BY <1>2, <1>4, <1>5, <1>6 DEF Inv

(* Every step of the scheduler, its callers and the timer interrupt        *)
(* preserves the inductive invariant.                                      *)
LEMMA NextInv == Inv /\ [Next]_vars => Inv'
<1>. SUFFICES ASSUME Inv, [Next]_vars PROVE Inv'
  OBVIOUS
<1>0. /\ {Kern, Idle, Comp, About} \subseteq AllTasks
      /\ UserTasks \subseteq AllTasks
      /\ Kern # Idle /\ Kern # Comp /\ Idle # Comp /\ About \notin {Kern, Idle, Comp}
      /\ NoOwner \notin AllTasks
      /\ \A t \in UserTasks : t \notin {Kern, Idle, Comp, About}
  BY TasksAssumption DEF AllTasks, Protected
<1>1. CASE TimePasses
  <2>1. wake' \in [AllTasks -> NoWake..MaxSleep]
        /\ \A t \in AllTasks : wake'[t] = NoWake <=> wake[t] = NoWake
    BY <1>1, BoundsAssumption DEF TimePasses, Inv, TypeOK, NoWake
  <2>. QED
    BY <1>1, <2>1 DEF TimePasses, Inv, TypeOK, CpuOwnership, ListIsLiveTasks,
       SleepersArmed, NoBklDeadlock, LockInv, PcInv, InList
<1>2. CASE timer_isr
  BY <1>2, ScheduleKeepsInv DEF timer_isr
<1>3. ASSUME NEW t \in AllTasks, sched_yield(t) PROVE Inv'
  <2>1. bkl = NoOwner
    BY <1>3 DEF sched_yield, At, Inv, LockInv
  <2>. QED
    BY <1>3, <2>1, ScheduleKeepsInv DEF sched_yield
<1>4. ASSUME NEW t \in AllTasks, NEW ms \in 0..MaxSleep, sleep_arm(t, ms) PROVE Inv'
  <2>1. state[t] = "RUNNING" /\ current = t /\ pc[t] # "locked" /\ t # Idle
    BY <1>4, <1>0 DEF sleep_arm, At, Inv, CpuOwnership, PcInv
  <2>2. wake' \in [AllTasks -> NoWake..MaxSleep] /\ ms # NoWake
        /\ \A u \in AllTasks : wake'[u] = NoWake => wake[u] = NoWake
    BY <1>4, BoundsAssumption DEF sleep_arm, Inv, TypeOK, NoWake
  <2>3. t \in sleeper \cup {Comp}
    BY <1>4 DEF sleep_arm
  <2>4. pc' = [pc EXCEPT ![t] = "armed"] /\ wake'[t] # NoWake
        /\ UNCHANGED <<tasks, state, current, bkl, hung, iflag, sleeper, shell, aboutRunning>>
    BY <1>4, <2>2 DEF sleep_arm, Goto, Inv, TypeOK
  <2>5. TypeOK' /\ CpuOwnership' /\ ListIsLiveTasks' /\ NoBklDeadlock' /\ LockInv'
    BY <1>0, <2>1, <2>2, <2>4 DEF Inv, TypeOK, CpuOwnership, ListIsLiveTasks, NoBklDeadlock,
       LockInv, PCs, InList
  <2>6. SleepersArmed'
    BY <2>2, <2>4 DEF Inv, SleepersArmed
  <2>7. \A u \in AllTasks : pc'[u] = "armed" =>
          wake'[u] # NoWake /\ state'[u] \in {"READY", "RUNNING"}
    BY <2>1, <2>2, <2>4 DEF Inv, TypeOK, PcInv
  <2>8. PcInv'
    BY <1>0, <2>1, <2>3, <2>4, <2>7 DEF Inv, TypeOK, PcInv
  <2>. QED
    BY <2>5, <2>6, <2>8 DEF Inv
<1>5. ASSUME NEW t \in AllTasks, sleep_block(t) PROVE Inv'
  BY <1>5, <1>0 DEF sleep_block, At, Goto, Inv, TypeOK, CpuOwnership, ListIsLiveTasks,
       SleepersArmed, NoBklDeadlock, LockInv, PcInv, States, PCs, InList
<1>6. ASSUME NEW t \in AllTasks, sleep_yield(t) PROVE Inv'
  <2>1. bkl = NoOwner
    BY <1>6 DEF sleep_yield, At, Inv, LockInv
  <2>. QED
    BY <1>6, <2>1, ScheduleKeepsInv DEF sleep_yield
<1>7. ASSUME NEW t \in AllTasks, task_exit(t) PROVE Inv'
  BY <1>7, <1>0 DEF task_exit, At, Goto, Inv, TypeOK, CpuOwnership, ListIsLiveTasks,
       SleepersArmed, NoBklDeadlock, LockInv, PcInv, States, PCs, InList
<1>8. ASSUME NEW t \in AllTasks, exit_yield(t) PROVE Inv'
  <2>1. bkl = NoOwner
    BY <1>8 DEF exit_yield, At, Inv, LockInv
  <2>. QED
    BY <1>8, <2>1, ScheduleKeepsInv DEF exit_yield
<1>9. ASSUME NEW t \in AllTasks, bkl_want(t) PROVE Inv'
  BY <1>9, <1>0 DEF bkl_want, At, Goto, Inv, TypeOK, CpuOwnership, ListIsLiveTasks,
       SleepersArmed, NoBklDeadlock, LockInv, PcInv, PCs, InList
<1>10. ASSUME NEW t \in AllTasks, bkl_acquire(t) PROVE Inv'
  <2>1. /\ current = t /\ pc[t] = "spin" /\ bkl = NoOwner /\ bkl' = t /\ hung' = FALSE
        /\ pc' = [pc EXCEPT ![t] = "locked"]
        /\ UNCHANGED <<tasks, state, wake, current, iflag, sleeper, shell, aboutRunning>>
    BY <1>10 DEF bkl_acquire, At, Goto, Inv, LockInv
  <2>2. TypeOK' /\ ListIsLiveTasks' /\ SleepersArmed' /\ NoBklDeadlock'
    BY <2>1 DEF Inv, TypeOK, ListIsLiveTasks, SleepersArmed, NoBklDeadlock, PCs, InList
  <2>3. CpuOwnership' /\ LockInv'
    BY <2>1 DEF Inv, TypeOK, CpuOwnership, LockInv
  <2>4. PcInv'
    BY <1>0, <2>1 DEF Inv, TypeOK, PcInv
  <2>. QED
    BY <2>2, <2>3, <2>4 DEF Inv
<1>11. ASSUME NEW t \in AllTasks, bkl_release(t) PROVE Inv'
  BY <1>11, <1>0 DEF bkl_release, At, Goto, Inv, TypeOK, CpuOwnership, ListIsLiveTasks,
       SleepersArmed, NoBklDeadlock, LockInv, PcInv, PCs, InList
<1>12. ASSUME NEW t \in AllTasks, task_reaper(t) PROVE Inv'
  <2>1. PICK k \in FirstDead :
          /\ tasks' = Remove(tasks, k)
          /\ state' = [state EXCEPT ![tasks[k]] = "NONE"]
          /\ wake' = [wake EXCEPT ![tasks[k]] = NoWake]
          /\ pc' = [pc EXCEPT ![tasks[k]] = "run"]
          /\ sleeper' = sleeper \ {tasks[k]}
    BY <1>12 DEF task_reaper
  <2>2. UNCHANGED <<current, bkl, hung, iflag, shell, aboutRunning>>
    BY <1>12 DEF task_reaper
  <2>3. k \in 1..Len(tasks) /\ state[tasks[k]] = "DEAD" /\ tasks[k] # current
    BY <2>1 DEF FirstDead
  <2>. DEFINE d == tasks[k]
  <2>4. d \in AllTasks /\ Len(tasks) \in Nat
    BY <2>3, ElementOfSeq, LenProperties DEF Inv, TypeOK
  <2>5. d # Idle
    BY <2>3 DEF Inv, CpuOwnership
  <2>6. /\ tasks' \in Seq(AllTasks)
        /\ Len(tasks') = Len(tasks) - 1
        /\ \A i \in 1..(Len(tasks) - 1) : tasks'[i] = IF i < k THEN tasks[i] ELSE tasks[i + 1]
    <3>1. tasks \in Seq(AllTasks)
      BY DEF Inv, TypeOK
    <3>. QED
      BY <2>1, <2>3, <3>1, RemoveProperties
  <2>7. ListIsLiveTasks'
    <3>1. \A i, j \in 1..Len(tasks') : i # j => tasks'[i] # tasks'[j]
      BY <2>3, <2>4, <2>6 DEF Inv, ListIsLiveTasks
    <3>2. \A i \in 1..Len(tasks') : tasks'[i] # d
      BY <2>3, <2>4, <2>6 DEF Inv, ListIsLiveTasks
    <3>3. ASSUME NEW u \in AllTasks, u # d, NEW i \in 1..Len(tasks), tasks[i] = u
          PROVE  \E j \in 1..Len(tasks') : tasks'[j] = u
      <4>1. CASE i < k
        BY <4>1, <3>3, <2>3, <2>4, <2>6
      <4>2. CASE i > k
        <5>1. i - 1 \in 1..Len(tasks') /\ tasks'[i - 1] = tasks[i]
          BY <4>2, <2>3, <2>4, <2>6
        <5>. QED
          BY <5>1, <3>3
      <4>. QED
        BY <4>1, <4>2, <3>3, <2>3, <2>4
    <3>4. ASSUME NEW u \in AllTasks, NEW j \in 1..Len(tasks'), tasks'[j] = u
          PROVE  \E i \in 1..Len(tasks) : tasks[i] = u
      BY <3>4, <2>3, <2>4, <2>6
    <3>5. \A u \in AllTasks : state'[u] # "NONE" <=> (state[u] # "NONE" /\ u # d)
      BY <2>1, <2>4 DEF Inv, TypeOK
    <3>6. \A u \in AllTasks : InList(u)' <=> state'[u] # "NONE"
      BY <3>2, <3>3, <3>4, <3>5 DEF Inv, ListIsLiveTasks, InList
    <3>. QED
      BY <3>1, <3>6 DEF ListIsLiveTasks
  <2>8. TypeOK'
    BY <2>1, <2>2, <2>4, <2>6, BoundsAssumption DEF Inv, TypeOK, States, PCs, NoWake
  <2>9. CpuOwnership' /\ SleepersArmed' /\ NoBklDeadlock' /\ LockInv' /\ PcInv'
    BY <1>0, <2>1, <2>2, <2>3, <2>4, <2>5 DEF Inv, TypeOK, CpuOwnership, SleepersArmed,
       NoBklDeadlock, LockInv, PcInv, Reaping
  <2>. QED
    BY <2>7, <2>8, <2>9 DEF Inv
<1>13. ASSUME NEW t \in AllTasks, reaper_done(t) PROVE Inv'
  <2>1. /\ current = t /\ pc[t] \in {"run", "reap"} /\ t \in {Idle, Kern}
        /\ pc' = [pc EXCEPT ![t] = IF t = Idle THEN "halt" ELSE "run"]
        /\ UNCHANGED <<tasks, state, wake, current, bkl, hung, iflag, sleeper, shell, aboutRunning>>
    BY <1>13 DEF reaper_done, Reaping, At, Goto
  <2>2. TypeOK' /\ ListIsLiveTasks' /\ SleepersArmed' /\ NoBklDeadlock'
    BY <2>1 DEF Inv, TypeOK, ListIsLiveTasks, SleepersArmed, NoBklDeadlock, PCs, InList
  <2>3. CpuOwnership' /\ LockInv'
    BY <2>1 DEF Inv, TypeOK, CpuOwnership, LockInv
  <2>4. PcInv'
    BY <1>0, <2>1 DEF Inv, TypeOK, PcInv
  <2>. QED
    BY <2>2, <2>3, <2>4 DEF Inv
<1>14. ASSUME NEW t \in AllTasks, task_create(t) PROVE Inv'
  <2>1. /\ state[t] = "NONE" /\ current = Kern /\ pc[Kern] = "launch"
        /\ tasks' = Append(tasks, t)
        /\ state' = [state EXCEPT ![t] = "READY"]
        /\ sleeper' = IF shell.cmd \in {"schedtest", "about"} THEN sleeper
                      ELSE sleeper \cup {t}
        /\ shell' = [shell EXCEPT !.todo = @ - 1, !.made = @ \cup {t}]
        /\ shell.todo > 0
        /\ (t = About) <=> (shell.cmd = "about")
        /\ UNCHANGED <<wake, pc, current, bkl, hung, iflag, aboutRunning>>
    BY <1>14 DEF task_create, At
  <2>2. t # Idle /\ t # Kern
    BY <2>1 DEF Inv, CpuOwnership, PcInv
  <2>3. /\ tasks' \in Seq(AllTasks)
        /\ Len(tasks) \in Nat /\ Len(tasks') = Len(tasks) + 1
        /\ tasks'[Len(tasks) + 1] = t
        /\ \A i \in 1..Len(tasks) : tasks'[i] = tasks[i]
    BY <2>1 DEF Inv, TypeOK
  <2>4. ListIsLiveTasks'
    <3>1. \A i \in 1..Len(tasks) : tasks[i] # t
      BY <2>1 DEF Inv, ListIsLiveTasks, InList
    <3>2. \A i, j \in 1..Len(tasks') : i # j => tasks'[i] # tasks'[j]
      BY <2>3, <3>1 DEF Inv, ListIsLiveTasks
    <3>3. \A u \in AllTasks : InList(u)' <=> (InList(u) \/ u = t)
      BY <2>3 DEF InList
    <3>4. \A u \in AllTasks : state'[u] # "NONE" <=> (state[u] # "NONE" \/ u = t)
      BY <2>1 DEF Inv, TypeOK
    <3>. QED
      BY <3>2, <3>3, <3>4 DEF Inv, ListIsLiveTasks
  <2>5. TypeOK'
    <3>1. shell' \in ShellType
      <4>1. shell \in ShellType
        BY DEF Inv, TypeOK
      <4>2. shell.todo - 1 \in 0..NTest /\ shell.made \cup {t} \in SUBSET AllTasks
        BY <2>1, <4>1, BoundsAssumption DEF ShellType
      <4>. QED
        BY <2>1, <4>1, <4>2 DEF ShellType
    <3>. QED
      BY <2>1, <2>3, <3>1 DEF Inv, TypeOK, States
  <2>6. CpuOwnership' /\ SleepersArmed' /\ NoBklDeadlock' /\ LockInv'
    BY <2>1, <2>2, <1>0 DEF Inv, TypeOK, CpuOwnership, SleepersArmed, NoBklDeadlock, LockInv
  <2>7. t \notin sleeper => pc[t] \notin {"armed", "asleep"} \/ t = Comp
    BY DEF Inv, PcInv
  <2>8. pc[t] # "armed"
    BY <2>1 DEF Inv, PcInv
  <2>9. t # Comp
    BY <2>1 DEF Inv, PcInv
  <2>10. PcInv'
    BY <2>1, <2>2, <2>7, <2>8, <2>9, <1>0 DEF Inv, TypeOK, PcInv
  <2>. QED
    BY <2>4, <2>5, <2>6, <2>10 DEF Inv
<1>15. CASE idle_yield
  <2>1. bkl = NoOwner
    BY <1>15 DEF idle_yield, At, Inv, LockInv
  <2>. QED
    BY <1>15, <2>1, <1>0, ScheduleKeepsInv DEF idle_yield
<1>16. ASSUME NEW c \in Commands, launch(c) PROVE Inv'
  BY <1>16, <1>0, BoundsAssumption DEF launch, At, Goto, TasksOf, ShellType, Inv, TypeOK, CpuOwnership, ListIsLiveTasks,
       SleepersArmed, NoBklDeadlock, LockInv, PcInv, PCs, InList, AllCommands
<1>17. CASE task_create_fails
  <2>1. shell' \in ShellType
    <3>1. shell \in ShellType
      BY DEF Inv, TypeOK
    <3>2. shell.todo - 1 \in 0..NTest /\ 0 \in 0..NTest
      BY <1>17, <3>1, BoundsAssumption DEF task_create_fails, ShellType
    <3>3. \E n \in 0..NTest : shell' = [shell EXCEPT !.todo = n, !.failed = TRUE]
      BY <1>17, <3>2 DEF task_create_fails
    <3>. QED
      BY <3>1, <3>3 DEF ShellType
  <2>2. UNCHANGED <<tasks, state, wake, pc, current, bkl, hung, iflag, sleeper, aboutRunning>>
    BY <1>17 DEF task_create_fails
  <2>. QED
    BY <2>1, <2>2 DEF Inv, TypeOK, CpuOwnership, ListIsLiveTasks,
       SleepersArmed, NoBklDeadlock, LockInv, PcInv, InList
<1>18. CASE launched
  BY <1>18, <1>0, BoundsAssumption DEF launched, At, Goto, NoShell, ShellType, Inv, TypeOK, CpuOwnership, ListIsLiveTasks,
       SleepersArmed, NoBklDeadlock, LockInv, PcInv, PCs, InList
<1>19. CASE launch_failed
  <2>1. shell' \in ShellType
    BY <1>19, BoundsAssumption DEF launch_failed, NoShell, ShellType
  <2>2. /\ UNCHANGED <<tasks, wake, current, bkl, hung, iflag, sleeper, aboutRunning>>
        /\ current = Kern /\ pc[Kern] = "launch" /\ state[Kern] = "RUNNING"
    BY <1>19 DEF launch_failed, At, Inv, CpuOwnership
  <2>3. \/ state' = [state EXCEPT ![Kern] = "DEAD"] /\ pc' = [pc EXCEPT ![Kern] = "exiting"]
        \/ state' = state /\ pc' = [pc EXCEPT ![Kern] = "run"]
    BY <1>19 DEF launch_failed, Goto
  <2>4. TypeOK' /\ ListIsLiveTasks'
    <3>1. state' \in [AllTasks -> States] /\ pc' \in [AllTasks -> PCs]
      BY <1>0, <2>3 DEF Inv, TypeOK, States, PCs
    <3>2. \A u \in AllTasks : state'[u] = "NONE" <=> state[u] = "NONE"
      BY <1>0, <2>2, <2>3 DEF Inv, TypeOK
    <3>. QED
      BY <2>1, <2>2, <3>1, <3>2 DEF Inv, TypeOK, ListIsLiveTasks, InList
  <2>5. CpuOwnership' /\ SleepersArmed' /\ NoBklDeadlock' /\ LockInv'
    BY <1>0, <2>2, <2>3 DEF Inv, TypeOK, CpuOwnership, SleepersArmed, NoBklDeadlock, LockInv
  <2>6. PcInv'
    BY <1>0, <2>2, <2>3 DEF Inv, TypeOK, PcInv
  <2>. QED
    BY <2>4, <2>5, <2>6 DEF Inv
<1>20. CASE wait_again
  <2>1. bkl = NoOwner
    BY <1>20 DEF wait_again, At, Inv, LockInv
  <2>. QED
    BY <1>20, <2>1, ScheduleKeepsInv DEF wait_again
<1>21. CASE wait_over
  BY <1>21, <1>0, BoundsAssumption DEF wait_over, At, Goto, NoShell, ShellType, Inv, TypeOK, CpuOwnership, ListIsLiveTasks,
       SleepersArmed, NoBklDeadlock, LockInv, PcInv, PCs, InList
<1>22. CASE drain_over
  BY <1>22, <1>0 DEF drain_over, At, Goto, Inv, TypeOK, CpuOwnership, ListIsLiveTasks,
       SleepersArmed, NoBklDeadlock, LockInv, PcInv, PCs, InList
<1>23. CASE UNCHANGED vars
  BY <1>23 DEF vars, Inv, TypeOK, CpuOwnership, ListIsLiveTasks,
       SleepersArmed, NoBklDeadlock, LockInv, PcInv, InList
<1>. QED
  BY <1>1, <1>2, <1>3, <1>4, <1>5, <1>6, <1>7, <1>8, <1>9, <1>10, <1>11, <1>12, <1>13,
     <1>14, <1>15, <1>16, <1>17, <1>18, <1>19, <1>20, <1>21, <1>22, <1>23 DEF Next

(* The type invariant and the four safety invariants of the scheduler hold *)
(* in every reachable state, for any number of user tasks, any commands    *)
(* and any sleep times: exclusive use of the CPU, an exact task list, no   *)
(* lost sleep, no deadlock on the Big Kernel Lock.                         *)
THEOREM SchedSafety ==
  Spec => [](TypeOK /\ CpuOwnership /\ ListIsLiveTasks /\ SleepersArmed /\ NoBklDeadlock)
<1>1. Inv => TypeOK /\ CpuOwnership /\ ListIsLiveTasks /\ SleepersArmed /\ NoBklDeadlock
  BY DEF Inv
<1>. QED
  BY InitInv, NextInv, <1>1, PTL DEF Spec

(* The types of the scheduler's state, the program counters included. *)
THEOREM SchedTypeOK == Spec => []TypeOK
BY SchedSafety, PTL

(* One task has the CPU: current_task, the only RUNNING task unless it is  *)
(* just going to sleep or exiting, through every switch of timer_isr and   *)
(* sched_schedule.                                                         *)
THEOREM OneTaskRuns == Spec => []CpuOwnership
BY SchedSafety, PTL

(* The circular list that sched_schedule walks has every task that is not  *)
(* freed, once, through task_create, task_exit and task_reaper.            *)
THEOREM TaskListIsExact == Spec => []ListIsLiveTasks
BY SchedSafety, PTL

(* A task that sleep_ms has blocked has a wake time, wherever it was       *)
(* preempted between the assignments.                                      *)
THEOREM NoSleeperIsLost == Spec => []SleepersArmed
BY SchedSafety, PTL

(* task_exit is final, whatever wakes up, is preempted or is created       *)
(* afterwards: no DEAD task is revived and none is freed while it is the   *)
(* running task.                                                           *)
THEOREM ExitIsFinal == Spec => DeadIsFinal
<1>. DEFINE Final == \A t \in AllTasks :
                       state[t] = "DEAD" => /\ state'[t] \in {"DEAD", "NONE"}
                                            /\ current' = t => current = t /\ state'[t] = "DEAD"
<1>1. ASSUME Inv, Inv', [Next]_vars PROVE Final
  <2>1. sched_schedule /\ bkl = NoOwner => Final
    <3>1. ASSUME sched_schedule, bkl = NoOwner
          PROVE  /\ state'[current'] = "RUNNING"
                 /\ \A t \in AllTasks : state'[t] = "DEAD" <=> state[t] = "DEAD"
      BY <1>1, <3>1, ScheduleFacts
    <3>. QED
      BY <3>1
  <2>2. bkl # NoOwner => pc[current] = "locked"
    BY <1>1 DEF Inv, LockInv
  <2>3. ASSUME current' = current, \A t \in AllTasks : state[t] = "DEAD" /\ state'[t] # "DEAD" =>
                                     state'[t] = "NONE" /\ t # current
        PROVE Final
    BY <2>3
  <2>4. state[current] = "DEAD" => pc[current] \in {"asleep", "exiting"}
    BY <1>1 DEF Inv, CpuOwnership
  <2>5. CASE TimePasses
    BY <2>3, <2>5 DEF TimePasses
  <2>6. CASE timer_isr
    BY <2>1, <2>6 DEF timer_isr
  <2>7. ASSUME NEW t \in AllTasks, sched_yield(t) \/ exit_yield(t) \/ sleep_yield(t) PROVE Final
    BY <2>1, <2>2, <2>7 DEF sched_yield, exit_yield, sleep_yield, At
  <2>8. ASSUME NEW t \in AllTasks, NEW ms \in 0..MaxSleep, sleep_arm(t, ms) PROVE Final
    BY <2>3, <2>8 DEF sleep_arm
  <2>9. ASSUME NEW t \in AllTasks, sleep_block(t) PROVE Final
    BY <1>1, <2>3, <2>4, <2>9 DEF sleep_block, At, Inv, TypeOK
  <2>10. ASSUME NEW t \in AllTasks, task_exit(t) PROVE Final
    BY <1>1, <2>3, <2>10 DEF task_exit, At, Inv, TypeOK
  <2>11. ASSUME NEW t \in AllTasks,
                bkl_want(t) \/ bkl_acquire(t) \/ bkl_release(t) \/ reaper_done(t) PROVE Final
    BY <2>3, <2>11 DEF bkl_want, bkl_acquire, bkl_release, reaper_done
  <2>12. ASSUME NEW t \in AllTasks, task_reaper(t) PROVE Final
    <3>1. PICK k \in FirstDead : state' = [state EXCEPT ![tasks[k]] = "NONE"]
      BY <2>12 DEF task_reaper
    <3>2. current' = current /\ tasks[k] # current
      BY <2>12, <3>1 DEF task_reaper, FirstDead
    <3>. QED
      BY <1>1, <2>3, <3>1, <3>2 DEF Inv, TypeOK
  <2>13. ASSUME NEW t \in AllTasks, task_create(t) PROVE Final
    BY <1>1, <2>3, <2>13 DEF task_create, At, Inv, TypeOK
  <2>14. CASE idle_yield \/ wait_again
    BY <2>1, <2>2, <2>14 DEF idle_yield, wait_again, At
  <2>15. ASSUME NEW c \in Commands, launch(c) PROVE Final
    BY <2>3, <2>15 DEF launch
  <2>16. CASE launch_failed
    BY <1>1, <2>3, <2>16 DEF launch_failed, At, Inv, TypeOK
  <2>17. CASE task_create_fails \/ launched \/ wait_over \/ drain_over
    BY <2>3, <2>17 DEF task_create_fails, launched, wait_over, drain_over
  <2>18. CASE UNCHANGED vars
    BY <2>3, <2>18 DEF vars
  <2>. QED
    BY <1>1, <2>5, <2>6, <2>7, <2>8, <2>9, <2>10, <2>11, <2>12, <2>13, <2>14, <2>15, <2>16,
       <2>17, <2>18 DEF Next
<1>2. Inv /\ Inv' /\ [Next]_vars => [Final]_vars
  BY <1>1
<1>. QED
  BY InitInv, NextInv, <1>2, PTL DEF Spec, DeadIsFinal

-----------------------------------------------------------------------------
(***************************************************************************)
(* The wait loops of the shell.  What makes `t->state` safe to read is     *)
(* that the idle task, which runs the reaper, is only chosen when nobody   *)
(* else is READY, and the waiting shell always is; and that, when the      *)
(* shell itself yields in the loop, some task it waits for is READY or it  *)
(* waits for a single task which is not DEAD.                              *)
(***************************************************************************)
WaitInv ==
  /\ \A t \in sleeper : state[t] # "NONE"
  /\ shell.made \cap {Kern, Idle, Comp} = {}
  /\ shell.cmd = "schedtest" => shell.made \cap sleeper = {}
  /\ shell.cmd = "exec" => shell.todo <= 1 /\ (shell.todo = 1 => shell.made = {})
                             /\ \A a, b \in shell.made : a = b
  /\ pc[Kern] = "launch" => /\ current = Kern /\ shell.cmd # "none"
                            /\ \A t \in shell.made : state[t] \notin {"NONE", "DEAD"}
  /\ pc[Kern] = "wait" => state[Kern] \in {"READY", "RUNNING"}
  /\ pc[Kern] = "wait" /\ shell.cmd \in {"exec", "schedtest"} =>
       /\ \A t \in shell.made : state[t] # "NONE"
       /\ (\E t \in shell.made : state[t] = "DEAD") => current # Idle

(* The idle task is not chosen while another task is READY. *)
LEMMA IdleIsLast ==
  ASSUME Inv, bkl = NoOwner, sched_schedule,
         NEW u \in AllTasks, u # Idle, u # current, state[u] = "READY"
  PROVE  current' # Idle
<1>1. PICK c \in Chosen(StateUpdated) : SwitchTo(c)
  BY DEF sched_schedule
<1>2. InList(u) /\ InList(current)
  BY DEF Inv, TypeOK, ListIsLiveTasks, PcInv
<1>3. Start = current /\ StateUpdated[u] = "READY"
  BY <1>2 DEF Start, StateUpdated, Due
<1>4. u \in Candidates(StateUpdated)
  BY <1>2, <1>3 DEF Candidates
<1>5. c \in Candidates(StateUpdated)
  BY <1>1, <1>4 DEF Chosen
<1>6. c # Idle
  BY <1>5 DEF Candidates
<1>. QED
  BY <1>1, <1>6 DEF SwitchTo

(* A switch preserves WaitInv; the shell, if it is the one that yields in  *)
(* its wait loop, has seen a task that is not DEAD.                        *)
LEMMA ScheduleKeepsWaitInv ==
  ASSUME Inv, WaitInv, bkl = NoOwner, sched_schedule, UNCHANGED <<sleeper, shell>>,
         pc[Kern] # "launch",
         pc'[Kern] = pc[Kern] \/ pc'[Kern] = "run",
         current = Kern /\ pc[Kern] = "wait" => \E t \in shell.made : state[t] # "DEAD"
  PROVE  WaitInv'
<1>0. Kern \in AllTasks /\ Idle \in AllTasks /\ Kern # Idle
      /\ shell.made \subseteq AllTasks /\ sleeper \subseteq AllTasks /\ state \in [AllTasks -> States]
  BY TasksAssumption DEF AllTasks, Protected, Inv, TypeOK, ShellType
<1>1. /\ state'[current'] = "RUNNING"
      /\ state' \in [AllTasks -> States]
      /\ \A t \in AllTasks : state'[t] = "RUNNING" => t = current'
      /\ \A t \in AllTasks :
           /\ state'[t] = "NONE" <=> state[t] = "NONE"
           /\ state'[t] = "DEAD" <=> state[t] = "DEAD"
           /\ state'[t] = "BLOCKED" => state[t] = "BLOCKED"
  BY ScheduleFacts
<1>2. ASSUME pc'[Kern] = "wait", shell.cmd \in {"exec", "schedtest"},
             NEW d \in shell.made, state[d] = "DEAD"
      PROVE  current' # Idle
  <2>1. pc[Kern] = "wait" /\ state[Kern] \in {"READY", "RUNNING"}
        /\ \A t \in shell.made : state[t] # "NONE"
    BY <1>2 DEF WaitInv
  <2>2. CASE current # Kern
    <3>1. state[Kern] = "READY"
      BY <1>0, <2>1, <2>2 DEF Inv, CpuOwnership
    <3>. QED
      BY <1>0, <2>2, <3>1, IdleIsLast
  <2>3. CASE current = Kern
    <3>1. PICK u \in shell.made : state[u] # "DEAD"
      BY <2>1, <2>3
    <3>2. shell.cmd = "schedtest"
      BY <1>2, <2>1, <3>1 DEF WaitInv
    <3>3. u \notin sleeper \cup {Kern, Idle, Comp} /\ u \in AllTasks
      BY <1>0, <3>1, <3>2 DEF WaitInv
    <3>4. state[u] \notin {"BLOCKED", "NONE", "RUNNING"}
      BY <2>1, <2>3, <3>3 DEF Inv, PcInv, CpuOwnership
    <3>5. state[u] = "READY"
      BY <1>0, <3>1, <3>3, <3>4 DEF States
    <3>. QED
      BY <2>3, <3>3, <3>5, IdleIsLast
  <2>. QED
    BY <2>2, <2>3
<1>. QED
  BY <1>0, <1>1, <1>2 DEF WaitInv, States

(* Every step preserves WaitInv: while the shell waits in exec or          *)
(* schedtest for a DEAD task, the idle task (hence the reaper) does not    *)
(* run.                                                                    *)
LEMMA NextWaitInv ==
  ASSUME Inv, WaitInv, [Next]_vars
  PROVE  WaitInv'
<1>0. /\ {Kern, Idle, Comp, About} \subseteq AllTasks
      /\ UserTasks \subseteq AllTasks
      /\ Kern # Idle /\ Kern # Comp /\ Idle # Comp /\ About \notin {Kern, Idle, Comp}
      /\ \A t \in UserTasks : t \notin {Kern, Idle, Comp, About}
      /\ shell.made \subseteq AllTasks /\ sleeper \subseteq AllTasks
      /\ state \in [AllTasks -> States] /\ pc \in [AllTasks -> PCs]
  BY TasksAssumption DEF AllTasks, Protected, Inv, TypeOK, ShellType
<1>1. CASE TimePasses
  BY <1>1 DEF TimePasses, WaitInv
<1>2. CASE timer_isr
  <2>1. current # Kern /\ pc[Kern] # "launch"
    BY <1>2 DEF timer_isr, Protected, WaitInv
  <2>. QED
    BY <1>2, <2>1, ScheduleKeepsWaitInv DEF timer_isr
<1>3. ASSUME NEW t \in AllTasks, sched_yield(t) \/ exit_yield(t) \/ sleep_yield(t) PROVE WaitInv'
  <2>1. /\ current = t /\ bkl = NoOwner /\ sched_schedule /\ UNCHANGED <<sleeper, shell>>
        /\ pc[t] \notin {"launch", "wait"}
        /\ pc' = pc \/ pc' = [pc EXCEPT ![t] = "run"]
    BY <1>3 DEF sched_yield, exit_yield, sleep_yield, At, Goto, Inv, LockInv
  <2>2. pc[Kern] # "launch" /\ (pc'[Kern] = pc[Kern] \/ pc'[Kern] = "run")
    BY <1>0, <2>1 DEF WaitInv
  <2>. QED
    BY <2>1, <2>2, ScheduleKeepsWaitInv
<1>4. ASSUME NEW t \in AllTasks, NEW ms \in 0..MaxSleep, sleep_arm(t, ms) PROVE WaitInv'
  BY <1>0, <1>4 DEF sleep_arm, At, Goto, WaitInv
<1>5. ASSUME NEW t \in AllTasks, sleep_block(t) PROVE WaitInv'
  BY <1>0, <1>5 DEF sleep_block, At, Goto, WaitInv
<1>6. ASSUME NEW t \in AllTasks, task_exit(t) PROVE WaitInv'
  BY <1>0, <1>6 DEF task_exit, At, Goto, WaitInv
<1>7. ASSUME NEW t \in AllTasks, bkl_want(t) \/ bkl_acquire(t) \/ bkl_release(t) PROVE WaitInv'
  BY <1>0, <1>7 DEF bkl_want, bkl_acquire, bkl_release, At, Goto, WaitInv
<1>8. ASSUME NEW t \in AllTasks, task_reaper(t) PROVE WaitInv'
  <2>1. PICK k \in FirstDead :
          /\ state' = [state EXCEPT ![tasks[k]] = "NONE"]
          /\ pc' = [pc EXCEPT ![tasks[k]] = "run"]
          /\ sleeper' = sleeper \ {tasks[k]}
    BY <1>8 DEF task_reaper
  <2>2. state[tasks[k]] = "DEAD" /\ UNCHANGED <<current, shell>>
    BY <1>8, <2>1 DEF task_reaper, FirstDead
  <2>3. current = Idle \/ (current = Kern /\ pc[Kern] = "reap")
    BY <1>8 DEF task_reaper, Reaping, At
  <2>4. pc[Kern] # "launch"
    BY <1>0, <2>3 DEF WaitInv
  <2>5. pc[Kern] = "wait" => /\ tasks[k] # Kern
                             /\ shell.cmd \in {"exec", "schedtest"} => tasks[k] \notin shell.made
    BY <2>2, <2>3 DEF WaitInv
  <2>6. pc'[Kern] = pc[Kern] \/ pc'[Kern] = "run"
    BY <1>0, <2>1
  <2>. QED
    BY <1>0, <2>1, <2>2, <2>4, <2>5, <2>6 DEF WaitInv
<1>9. ASSUME NEW t \in AllTasks, reaper_done(t) PROVE WaitInv'
  BY <1>0, <1>9 DEF reaper_done, Reaping, At, Goto, WaitInv
<1>10. ASSUME NEW t \in AllTasks, task_create(t) PROVE WaitInv'
  <2>1. /\ current = Kern /\ pc[Kern] = "launch" /\ state[t] = "NONE" /\ shell.todo > 0
        /\ state' = [state EXCEPT ![t] = "READY"]
        /\ sleeper' = IF shell.cmd \in {"schedtest", "about"} THEN sleeper
                      ELSE sleeper \cup {t}
        /\ shell' = [shell EXCEPT !.todo = @ - 1, !.made = @ \cup {t}]
        /\ UNCHANGED <<current, pc>>
    BY <1>10 DEF task_create, At
  <2>2. t \notin {Kern, Idle, Comp} /\ t \notin sleeper
    BY <2>1 DEF Inv, CpuOwnership, PcInv, WaitInv
  <2>3. /\ shell'.cmd = shell.cmd /\ shell'.todo = shell.todo - 1
        /\ shell'.made = shell.made \cup {t} /\ shell.todo \in Nat
    BY <2>1 DEF Inv, TypeOK, ShellType
  <2>4. shell.cmd = "exec" => shell.made = {} /\ shell.todo = 1
    BY <2>1, <2>3 DEF WaitInv
  <2>. QED
    BY <1>0, <2>1, <2>2, <2>3, <2>4 DEF WaitInv
<1>11. CASE idle_yield
  <2>1. current = Idle /\ bkl = NoOwner /\ pc' = [pc EXCEPT ![Idle] = "run"]
    BY <1>11 DEF idle_yield, At, Goto, Inv, LockInv
  <2>2. pc[Kern] # "launch" /\ pc'[Kern] = pc[Kern]
    BY <1>0, <2>1 DEF WaitInv
  <2>. QED
    BY <1>0, <1>11, <2>1, <2>2, ScheduleKeepsWaitInv DEF idle_yield
<1>12. ASSUME NEW c \in Commands, launch(c) PROVE WaitInv'
  <2>1. /\ current = Kern /\ pc' = [pc EXCEPT ![Kern] = "launch"]
        /\ shell' = [cmd |-> c, todo |-> TasksOf(c), failed |-> FALSE, made |-> {}]
        /\ UNCHANGED <<state, current, sleeper>>
    BY <1>12 DEF launch, At, Goto
  <2>2. (c = "exec" => shell'.todo = 1) /\ c # "none"
    BY <1>12, <2>1, BoundsAssumption DEF TasksOf, AllCommands
  <2>. QED
    BY <1>0, <1>12, <2>1, <2>2 DEF WaitInv
<1>13. CASE task_create_fails
  <2>1. /\ \E n \in {0, shell.todo - 1} : shell' = [shell EXCEPT !.todo = n, !.failed = TRUE]
        /\ shell.todo > 0 /\ UNCHANGED <<state, pc, current, sleeper>>
    BY <1>13 DEF task_create_fails
  <2>2. /\ shell'.cmd = shell.cmd /\ shell'.made = shell.made
        /\ shell.todo \in Nat /\ shell'.todo \in {0, shell.todo - 1}
    BY <2>1 DEF Inv, TypeOK, ShellType
  <2>. QED
    BY <2>1, <2>2 DEF WaitInv
<1>14. CASE launched
  <2>1. /\ current = Kern /\ pc[Kern] = "launch" /\ UNCHANGED <<state, current, sleeper>>
        /\ pc' = [pc EXCEPT ![Kern] = IF shell.cmd = "about" THEN "run" ELSE "wait"]
        /\ shell' = IF shell.cmd = "about" THEN NoShell ELSE shell
    BY <1>14 DEF launched, At, Goto
  <2>2. state[Kern] = "RUNNING"
    BY <2>1 DEF Inv, CpuOwnership
  <2>3. shell.cmd # "none"
    BY <2>1 DEF WaitInv
  <2>. QED
    BY <1>0, <2>1, <2>2, <2>3 DEF WaitInv, NoShell
<1>15. CASE launch_failed
  <2>1. /\ shell' = NoShell /\ UNCHANGED <<current, sleeper>>
        /\ current = Kern /\ pc[Kern] = "launch"
        /\ UNCHANGED state \/ state' = [state EXCEPT ![Kern] = "DEAD"]
        /\ pc' = [pc EXCEPT ![Kern] = "run"] \/ pc' = [pc EXCEPT ![Kern] = "exiting"]
    BY <1>15 DEF launch_failed, At, Goto
  <2>. QED
    BY <1>0, <2>1 DEF WaitInv, NoShell
<1>16. CASE wait_again
  <2>1. /\ current = Kern /\ pc[Kern] = "wait" /\ bkl = NoOwner /\ sched_schedule
        /\ UNCHANGED <<sleeper, shell, pc>>
    BY <1>16 DEF wait_again, At, Inv, LockInv
  <2>2. PICK t \in shell.made : FALSE \in ReadsDead(t)
    BY <1>16 DEF wait_again
  <2>4. state[t] # "DEAD"
    BY <2>2 DEF ReadsDead
  <2>. QED
    BY <2>1, <2>4, ScheduleKeepsWaitInv
<1>17. CASE wait_over
  <2>1. /\ shell' = NoShell /\ UNCHANGED <<state, current, sleeper>>
        /\ pc' = [pc EXCEPT ![Kern] = CASE shell.cmd = "schedtest" -> "drain"
                                        [] shell.cmd = "fpu"       -> "reap"
                                        [] OTHER                   -> "run"]
    BY <1>17 DEF wait_over, At, Goto
  <2>2. pc'[Kern] \in {"drain", "reap", "run"}
    BY <1>0, <2>1
  <2>. QED
    BY <1>0, <2>1, <2>2 DEF WaitInv, NoShell
<1>18. CASE drain_over
  BY <1>0, <1>18 DEF drain_over, At, Goto, WaitInv
<1>19. CASE UNCHANGED vars
  BY <1>19 DEF vars, WaitInv
<1>. QED
  BY <1>1, <1>2, <1>3, <1>4, <1>5, <1>6, <1>7, <1>8, <1>9, <1>10, <1>11, <1>12, <1>13,
     <1>14, <1>15, <1>16, <1>17, <1>18, <1>19 DEF Next

(* exec, usertest and schedtest never read the state of a task_t that the  *)
(* reaper has freed, however many tasks there are, however they are        *)
(* preempted, and whatever sleeping tasks other commands have left behind. *)
THEOREM ExecWaitIsSafe == Spec => []ExecWaitSafe
<1>1. Init => WaitInv
  BY TasksAssumption DEF Init, WaitInv, NoShell, AllTasks, Protected
<1>2. Inv /\ WaitInv /\ [Next]_vars => WaitInv'
  BY NextWaitInv
<1>3. WaitInv => ExecWaitSafe
  BY DEF WaitInv, ExecWaitSafe, WaitedTaskExists
<1>. QED
  BY InitInv, NextInv, <1>1, <1>2, <1>3, PTL DEF Spec
=============================================================================
