------------------------------- MODULE Sched -------------------------------
(***************************************************************************)
(* The scheduler of KiNBOL (kernel/sched.c) on its single core, with the   *)
(* code that calls it: sleep_ms (kernel/pit.c), the timer interrupt and    *)
(* the compositor loop (main.c), the Big Kernel Lock (kernel/lock.h,       *)
(* graphics/terminal.c), and the shell commands that create tasks and wait *)
(* for them (shell/commands/sys.c, about.c).                               *)
(*                                                                         *)
(* A step of the model is a piece of code that nothing can interrupt, or   *)
(* whose interruption nobody can see: sched_schedule runs with interrupts  *)
(* off and the BKL held, and a task whose name begins with '[' loses the   *)
(* CPU only where it gives it up.  sleep_ms and task_exit are split where  *)
(* a timer interrupt can fall between their assignments.                   *)
(*                                                                         *)
(* Absolute time is left out: wake[t] is what is left of t's sleep, i.e.   *)
(* max(0, wake_time_ms - uptime_ms()), and NoWake stands for the value 0   *)
(* of wake_time_ms.                                                        *)
(***************************************************************************)
EXTENDS Integers, Sequences, FiniteSets

CONSTANTS
  Kern, Idle, Comp,  \* the tasks "[kernel]" (the shell), "[idle]", "[compositor]"
  About,             \* the task_t of the "[about]" window task
  UserTasks,         \* the task_t's of tasks whose name does not begin with '['
  Commands,          \* the shell commands in use, a subset of AllCommands
  NTest,             \* how many tasks a test command creates (5, 5 and 2 in the code)
  MaxSleep,          \* bound: the longest sleep, in time steps
  NoOwner            \* the value of bkl when nobody holds it

AllCommands == {"exec", "schedtest", "sleeptest", "fpu", "about"}
Protected   == {Kern, Idle, Comp, About}    \* task->name[0] = '['
AllTasks    == Protected \cup UserTasks

ASSUME TasksAssumption ==
  /\ Protected \cap UserTasks = {}
  /\ Kern # Idle /\ Kern # Comp /\ Idle # Comp
  /\ About \notin {Kern, Idle, Comp}
  /\ NoOwner \notin AllTasks
  /\ IsFiniteSet(UserTasks)

ASSUME BoundsAssumption ==
  /\ Commands \subseteq AllCommands
  /\ NTest \in Nat \ {0}
  /\ MaxSleep \in Nat

VARIABLES
  tasks,    \* the circular list, read from head_task
  state,    \* task->state; "NONE": the task_t is not allocated
  wake,     \* time left until task->wake_time_ms
  pc,       \* where the task's own code is
  current,  \* current_task
  bkl,      \* the task that holds the Big Kernel Lock
  hung,     \* the CPU spins for ever on a lock that is held
  iflag,    \* RFLAGS.IF of the CPU
  sleeper,  \* the tasks whose program may call sleep_ms
  shell,    \* the shell command in progress
  aboutRunning \* about_running of shell/commands/about.c

vars == <<tasks, state, wake, pc, current, bkl, hung, iflag, sleeper, shell, aboutRunning>>

NoWake   == -1
NoShell  == [cmd |-> "none", todo |-> 0, failed |-> FALSE, made |-> {}]
ShellType == [cmd : AllCommands \cup {"none"}, todo : 0..NTest, failed : BOOLEAN,
              made : SUBSET AllTasks]
States   == {"READY", "RUNNING", "BLOCKED", "DEAD", "NONE"}
PCs      == {"run", "armed", "asleep", "exiting", "spin", "locked", "present", "halt",
             "launch", "wait", "drain", "reap"}

(***************************************************************************)
(* The task list.  task_list_insert appends before the head, that is, at   *)
(* the end; task_list_remove unlinks one task.                             *)
(***************************************************************************)
InList(t)   == \E i \in 1..Len(tasks) : tasks[i] = t
Pos(t)      == CHOOSE i \in 1..Len(tasks) : tasks[i] = t
Remove_NextToo(s, k) == [i \in 1..(Len(s) - 1) |-> IF i <= k THEN s[i] ELSE s[i + 1]]  \* mutant

Remove(s, k) == [i \in 1..(Len(s) - 1) |-> IF i < k THEN s[i] ELSE s[i + 1]]

(***************************************************************************)
(* sched_update_blocked_tasks: the sleepers whose time has come.           *)
(***************************************************************************)
Due(t) == InList(t) /\ state[t] = "BLOCKED" /\ wake[t] = 0

StateUpdated == [t \in AllTasks |-> IF Due(t) THEN "READY" ELSE state[t]]
WakeUpdated_AnyState == [t \in AllTasks |-> IF InList(t) /\ wake[t] = 0 THEN NoWake ELSE wake[t]]  \* mutant

WakeUpdated  == [t \in AllTasks |-> IF Due(t) THEN NoWake ELSE wake[t]]

(***************************************************************************)
(* The scan of sched_schedule: from the successor of start round the ring, *)
(* never looking at start itself unless it is alone, never taking the idle *)
(* task.                                                                   *)
(***************************************************************************)
Start_AtHead == tasks[1]  \* mutant

Start == IF InList(current) THEN current ELSE tasks[1]

Distance(t) == LET d == Pos(t) - Pos(Start) IN IF d > 0 THEN d ELSE d + Len(tasks)

Candidates_WithIdle(st) ==  \* mutant: the idle task takes its turn like the others
  {t \in AllTasks : InList(t) /\ st[t] = "READY" /\ (t # Start \/ Len(tasks) = 1)}

Candidates(st) ==
  {t \in AllTasks \ {Idle} : /\ InList(t)
                             /\ st[t] = "READY"
                             /\ t # Start \/ Len(tasks) = 1}

Chosen(st) ==
  IF Candidates(st) # {}
  THEN {t \in Candidates(st) : \A u \in Candidates(st) : Distance(t) <= Distance(u)}
  ELSE IF st[Idle] = "READY" \/ st[current] # "RUNNING" THEN {Idle} ELSE {current}

(***************************************************************************)
(* sched_schedule: cli, bkl_acquire, wake the sleepers, switch.  With the  *)
(* lock held and interrupts off nobody can ever release it: the CPU hangs. *)
(* context_switch, and every early return, ends with sti.                  *)
(***************************************************************************)
SwitchTo_KeepsOld(c) ==  \* mutant: the old task is not marked READY
  /\ current' = c
  /\ state' = [StateUpdated EXCEPT ![c] = "RUNNING"]

SwitchTo_RevivesOld(c) ==  \* mutant: the old task is marked READY whatever its state
  /\ current' = c
  /\ state' = [StateUpdated EXCEPT ![current] = "READY", ![c] = "RUNNING"]

SwitchTo(c) ==
  /\ current' = c
  /\ state' = IF c = current THEN StateUpdated
              ELSE [t \in AllTasks |->
                      IF t = c THEN "RUNNING"
                      ELSE IF t = current /\ StateUpdated[t] = "RUNNING" THEN "READY"
                      ELSE StateUpdated[t]]

sched_schedule ==
  /\ hung' = (bkl # NoOwner)
  /\ IF bkl # NoOwner
     THEN iflag' = FALSE /\ UNCHANGED <<wake, current, state>>
     ELSE /\ iflag' = TRUE
          /\ wake' = WakeUpdated
          /\ \E c \in Chosen(StateUpdated) : SwitchTo(c)

Goto(t, l) == pc' = [pc EXCEPT ![t] = l]
At(t, l)   == ~hung /\ current = t /\ pc[t] = l

-----------------------------------------------------------------------------
(* Time and the timer interrupt (main.c). *)

TimePasses_Underflow ==  \* mutant
  /\ \E t \in AllTasks : wake[t] > 0
  /\ wake' = [t \in AllTasks |-> wake[t] - 1]
  /\ UNCHANGED <<tasks, state, pc, current, bkl, hung, iflag, sleeper, shell, aboutRunning>>

TimePasses ==
  /\ \E t \in AllTasks : wake[t] > 0
  /\ wake' = [t \in AllTasks |-> IF wake[t] > 0 THEN wake[t] - 1 ELSE wake[t]]
  /\ UNCHANGED <<tasks, state, pc, current, bkl, hung, iflag, sleeper, shell, aboutRunning>>

timer_isr ==
  /\ iflag /\ ~hung
  /\ bkl = NoOwner
  /\ current \notin Protected
  /\ sched_schedule
  /\ UNCHANGED <<tasks, pc, bkl, sleeper, shell, aboutRunning>>

-----------------------------------------------------------------------------
(* sched_yield, sleep_ms and task_exit, called by the running task. *)

sched_yield(t) ==
  /\ t # Idle /\ t # Comp
  /\ At(t, "run") \/ (t = Kern /\ At(t, "drain"))
  /\ sched_schedule
  /\ UNCHANGED <<tasks, pc, bkl, sleeper, shell, aboutRunning>>

sleep_arm(t, ms) ==
  /\ \/ t = Comp /\ At(t, "present") /\ ms = MaxSleep
     \/ t \in sleeper /\ At(t, "run")
  /\ wake' = [wake EXCEPT ![t] = ms]
  /\ Goto(t, "armed")
  /\ UNCHANGED <<tasks, state, current, bkl, hung, iflag, sleeper, shell, aboutRunning>>

sleep_block_NotArmed(t) ==  \* mutant: the wake-up time is lost
  /\ At(t, "armed")
  /\ state' = [state EXCEPT ![t] = "BLOCKED"]
  /\ wake' = [wake EXCEPT ![t] = NoWake]
  /\ Goto(t, "asleep")
  /\ UNCHANGED <<tasks, current, bkl, hung, iflag, sleeper, shell, aboutRunning>>

sleep_block(t) ==
  /\ At(t, "armed")
  /\ state' = [state EXCEPT ![t] = "BLOCKED"]
  /\ Goto(t, "asleep")
  /\ UNCHANGED <<tasks, wake, current, bkl, hung, iflag, sleeper, shell, aboutRunning>>

sleep_yield(t) ==
  /\ At(t, "asleep")
  /\ sched_schedule
  /\ Goto(t, "run")
  /\ UNCHANGED <<tasks, bkl, sleeper, shell, aboutRunning>>

(* A task's entry function returns, a program calls SYS_EXIT, or a ring-3  *)
(* fault ends it; about_task clears about_running before it returns.       *)
task_exit(t) ==
  /\ t \in UserTasks \cup {About}
  /\ At(t, "run")
  /\ state' = [state EXCEPT ![t] = "DEAD"]
  /\ iflag' = TRUE
  /\ aboutRunning' = (aboutRunning /\ t # About)
  /\ Goto(t, "exiting")
  /\ UNCHANGED <<tasks, wake, current, bkl, hung, sleeper, shell>>

exit_yield(t) ==
  /\ At(t, "exiting")
  /\ sched_schedule
  /\ UNCHANGED <<tasks, pc, bkl, sleeper, shell, aboutRunning>>

-----------------------------------------------------------------------------
(* The Big Kernel Lock.  terminal_lock disables interrupts first; the      *)
(* compositor and the window task take the lock with interrupts on.        *)

bkl_want_Nested(t) ==  \* mutant: a self-locking call inside a locked section
  /\ t # Idle
  /\ At(t, "run") \/ At(t, "locked")
  /\ iflag' = (t \in {Comp, About} /\ iflag)
  /\ Goto(t, "spin")
  /\ UNCHANGED <<tasks, state, wake, current, bkl, hung, sleeper, shell, aboutRunning>>

bkl_want(t) ==
  /\ t # Idle
  /\ At(t, "run")
  /\ iflag' = (t \in {Comp, About} /\ iflag)
  /\ Goto(t, "spin")
  /\ UNCHANGED <<tasks, state, wake, current, bkl, hung, sleeper, shell, aboutRunning>>

bkl_acquire(t) ==
  /\ At(t, "spin")
  /\ hung' = (bkl # NoOwner)
  /\ IF bkl # NoOwner
     THEN UNCHANGED <<bkl, pc>>
     ELSE bkl' = t /\ Goto(t, "locked")
  /\ UNCHANGED <<tasks, state, wake, current, iflag, sleeper, shell, aboutRunning>>

bkl_release(t) ==
  /\ At(t, "locked")
  /\ bkl' = NoOwner
  /\ iflag' = TRUE
  /\ Goto(t, IF t = Comp THEN "present" ELSE "run")
  /\ UNCHANGED <<tasks, state, wake, current, hung, sleeper, shell, aboutRunning>>

-----------------------------------------------------------------------------
(* The idle task: task_reaper until no dead task is left, hlt, yield.      *)
(* task_reaper is called by the shell as well (fpu, schedtest).            *)

FirstDead ==
  {i \in 1..Len(tasks) : /\ state[tasks[i]] = "DEAD" /\ tasks[i] # current
                         /\ \A j \in 1..(i - 1) :
                              state[tasks[j]] # "DEAD" \/ tasks[j] = current}

Reaping(t) == (t = Idle /\ At(t, "run")) \/ (t = Kern /\ At(t, "reap"))

task_reaper(t) ==
  /\ Reaping(t)
  /\ \E i \in FirstDead :
       /\ tasks' = Remove(tasks, i)
       /\ state' = [state EXCEPT ![tasks[i]] = "NONE"]
       /\ wake' = [wake EXCEPT ![tasks[i]] = NoWake]
       /\ pc' = [pc EXCEPT ![tasks[i]] = "run"]
       /\ sleeper' = sleeper \ {tasks[i]}
  /\ UNCHANGED <<current, bkl, hung, iflag, shell, aboutRunning>>

reaper_done(t) ==
  /\ Reaping(t)
  /\ FirstDead = {}
  /\ Goto(t, IF t = Idle THEN "halt" ELSE "run")
  /\ UNCHANGED <<tasks, state, wake, current, bkl, hung, iflag, sleeper, shell, aboutRunning>>

idle_yield ==
  /\ At(Idle, "halt")
  /\ sched_schedule
  /\ Goto(Idle, "run")
  /\ UNCHANGED <<tasks, bkl, sleeper, shell, aboutRunning>>

-----------------------------------------------------------------------------
(* The shell commands that create tasks. *)

TasksOf(c) == IF c \in {"exec", "about"} THEN 1 ELSE NTest

(* cmd_exec, cmd_usertest, cmd_schedtest, cmd_sleeptest, cmd_fpu, cmd_about *)
launch(c) ==
  /\ At(Kern, "run")
  /\ c = "about" => ~aboutRunning
  /\ aboutRunning' = (aboutRunning \/ c = "about")
  /\ shell' = [cmd |-> c, todo |-> TasksOf(c), failed |-> FALSE, made |-> {}]
  /\ Goto(Kern, "launch")
  /\ UNCHANGED <<tasks, state, wake, current, bkl, hung, iflag, sleeper>>

(* task_create / task_create_user: the new task goes to the end of the     *)
(* list.  The code leaves wake_time_ms uninitialised: it is only read while *)
(* the task is BLOCKED, and sleep_ms has set it by then.                   *)
task_create(t) ==
  /\ At(Kern, "launch") /\ shell.todo > 0
  /\ state[t] = "NONE"
  /\ (t = About) <=> (shell.cmd = "about")
  /\ tasks' = Append(tasks, t)
  /\ state' = [state EXCEPT ![t] = "READY"]
  /\ sleeper' = IF shell.cmd \in {"schedtest", "about"} THEN sleeper ELSE sleeper \cup {t}
  /\ shell' = [shell EXCEPT !.todo = @ - 1, !.made = @ \cup {t}]
  /\ UNCHANGED <<wake, pc, current, bkl, hung, iflag, aboutRunning>>

(* No memory for the task_t, its stack or its pagemap.  schedtest gives up *)
(* at the first failure, the others try the rest before they look.         *)
task_create_fails ==
  /\ At(Kern, "launch") /\ shell.todo > 0
  /\ shell' = [shell EXCEPT !.todo = IF shell.cmd = "schedtest" THEN 0 ELSE @ - 1,
                            !.failed = TRUE]
  /\ UNCHANGED <<tasks, state, wake, pc, current, bkl, hung, iflag, sleeper, aboutRunning>>

(* All tasks are there: wait for them (the about window is not waited for) *)
launched ==
  /\ At(Kern, "launch") /\ shell.todo = 0 /\ ~shell.failed
  /\ Goto(Kern, IF shell.cmd = "about" THEN "run" ELSE "wait")
  /\ shell' = IF shell.cmd = "about" THEN NoShell ELSE shell
  /\ UNCHANGED <<tasks, state, wake, current, bkl, hung, iflag, sleeper, aboutRunning>>

(* A task is missing: the commands return, and the tasks that were created *)
(* run on; cmd_fpu calls task_exit, on the shell itself, if it has one.    *)
launch_failed ==
  /\ At(Kern, "launch") /\ shell.todo = 0 /\ shell.failed
  /\ shell' = NoShell
  /\ IF shell.cmd = "fpu" /\ shell.made # {}
     THEN /\ state' = [state EXCEPT ![Kern] = "DEAD"]
          /\ Goto(Kern, "exiting")
     ELSE UNCHANGED state /\ Goto(Kern, "run")
  /\ UNCHANGED <<tasks, wake, current, bkl, hung, iflag, sleeper, aboutRunning>>

(* What `t->state != TASK_DEAD` may read: for a task_t that was freed, and *)
(* perhaps reused by another allocation, anything.                         *)
ReadsDead(t) == IF state[t] = "NONE" THEN BOOLEAN ELSE {state[t] = "DEAD"}

wait_again ==
  /\ At(Kern, "wait")
  /\ \E t \in shell.made : FALSE \in ReadsDead(t)
  /\ sched_schedule
  /\ UNCHANGED <<tasks, pc, bkl, sleeper, shell, aboutRunning>>

wait_over_Never ==  \* mutant: the loop tests for a state no task is ever in
  /\ At(Kern, "wait")
  /\ \A t \in shell.made : state[t] = "EXITED"
  /\ UNCHANGED vars

wait_over ==
  /\ At(Kern, "wait")
  /\ \A t \in shell.made : TRUE \in ReadsDead(t)
  /\ Goto(Kern, CASE shell.cmd = "schedtest" -> "drain"
                  [] shell.cmd = "fpu"       -> "reap"
                  [] OTHER                   -> "run")
  /\ shell' = NoShell
  /\ UNCHANGED <<tasks, state, wake, current, bkl, hung, iflag, sleeper, aboutRunning>>

(* After some yields (20 in the code) cmd_schedtest calls the reaper.      *)
drain_over ==
  /\ At(Kern, "drain")
  /\ Goto(Kern, "reap")
  /\ UNCHANGED <<tasks, state, wake, current, bkl, hung, iflag, sleeper, shell, aboutRunning>>

-----------------------------------------------------------------------------
(* kmain after sched_init and the creation of the compositor. *)
Init ==
  /\ tasks = <<Kern, Idle, Comp>>
  /\ state = [t \in AllTasks |-> IF t = Kern THEN "RUNNING"
                                 ELSE IF t \in {Idle, Comp} THEN "READY" ELSE "NONE"]
  /\ wake = [t \in AllTasks |-> NoWake]
  /\ pc = [t \in AllTasks |-> "run"]
  /\ current = Kern
  /\ bkl = NoOwner
  /\ hung = FALSE
  /\ iflag = TRUE
  /\ sleeper = {Kern}        \* the commands sleep and top
  /\ shell = NoShell
  /\ aboutRunning = FALSE

Next ==
  \/ TimePasses
  \/ timer_isr
  \/ \E t \in AllTasks :
       \/ sched_yield(t)
       \/ \E ms \in 0..MaxSleep : sleep_arm(t, ms)
       \/ sleep_block(t)
       \/ sleep_yield(t)
       \/ task_exit(t)
       \/ exit_yield(t)
       \/ bkl_want(t)
       \/ bkl_acquire(t)
       \/ bkl_release(t)
       \/ task_reaper(t)
       \/ reaper_done(t)
       \/ task_create(t)
  \/ idle_yield
  \/ \E c \in Commands : launch(c)
  \/ task_create_fails
  \/ launched
  \/ launch_failed
  \/ wait_again
  \/ wait_over
  \/ drain_over

Spec == Init /\ [][Next]_vars

(***************************************************************************)
(* Fairness.  TSC time passes.  A pending LAPIC timer interrupt is latched *)
(* and delivered when IF is set again.  A task that is given the CPU       *)
(* executes at least an instruction of kernel code before it loses it, so  *)
(* kernel code that is entered is finished.  The shell comes back to       *)
(* keyboard_readline, which yields whenever the key ring is empty, and the *)
(* window task yields in every round of its loop.  No fairness for the     *)
(* programs of user tasks: they may spin.                                  *)
(***************************************************************************)
KernelCode(t) ==
  \/ sleep_block(t) \/ sleep_yield(t) \/ exit_yield(t)
  \/ bkl_acquire(t) \/ bkl_release(t)
  \/ t = Comp /\ (bkl_want(t) \/ sleep_arm(t, MaxSleep))
  \/ task_reaper(t) \/ reaper_done(t)
  \/ t = Idle /\ idle_yield
  \/ t = Kern /\ ((\E u \in AllTasks : task_create(u)) \/ task_create_fails \/ launched
                    \/ launch_failed \/ wait_again \/ wait_over \/ drain_over)

Fairness ==
  /\ WF_vars(TimePasses)
  /\ SF_vars(timer_isr)
  /\ \A t \in AllTasks : SF_vars(KernelCode(t))
  /\ \A t \in {Kern, About} : SF_vars(sched_yield(t))

FairSpec == Spec /\ Fairness

-----------------------------------------------------------------------------
(* Every variable has the type its C declaration and its use give it. *)
TypeOK ==
  /\ tasks \in Seq(AllTasks)
  /\ state \in [AllTasks -> States]
  /\ wake \in [AllTasks -> NoWake..MaxSleep]
  /\ pc \in [AllTasks -> PCs]
  /\ current \in AllTasks
  /\ bkl \in AllTasks \cup {NoOwner}
  /\ hung \in BOOLEAN
  /\ iflag \in BOOLEAN
  /\ sleeper \subseteq AllTasks
  /\ shell \in ShellType
  /\ aboutRunning \in BOOLEAN

(* sched_schedule hands the CPU over exactly: no task but current_task is  *)
(* RUNNING, current_task is RUNNING except between the assignment of its   *)
(* new state and the yield in sleep_ms and task_exit, and the idle task,   *)
(* the fallback of every switch, is READY whenever it does not run.        *)
CpuOwnership ==
  /\ \A t \in AllTasks : state[t] = "RUNNING" => t = current
  /\ state[current] # "RUNNING" => pc[current] \in {"asleep", "exiting"}
  /\ current # Idle => state[Idle] = "READY"

(* task_list_insert and task_list_remove: the list holds every task_t that *)
(* exists, once, so the scheduler can reach it and the reaper can free it. *)
ListIsLiveTasks ==
  /\ \A i, j \in 1..Len(tasks) : i # j => tasks[i] # tasks[j]
  /\ \A t \in AllTasks : InList(t) <=> state[t] # "NONE"

(* No sleep is lost: a task that sleep_ms has blocked has a wake-up time   *)
(* that sched_update_blocked_tasks will see, wherever the timer interrupt  *)
(* fell between the two assignments of sleep_ms.                           *)
SleepersArmed == \A t \in AllTasks : state[t] = "BLOCKED" => wake[t] # NoWake

(* The Big Kernel Lock cannot deadlock the single core: neither            *)
(* terminal_lock nor sched_schedule ever finds it held, by the same task   *)
(* or by one that lost the CPU inside its locked section.                  *)
NoBklDeadlock == ~hung

(* A shell command that waits for tasks reads t->state of a task_t that    *)
(* still exists.                                                           *)
WaitedTaskExists ==
  pc[Kern] = "wait" => \A t \in shell.made : state[t] # "NONE"

(* So do the commands that wait for one program (exec, usertest) or for    *)
(* tasks that never sleep (schedtest): the idle task does not get to run   *)
(* task_reaper between the death of the task and the shell's next look at  *)
(* it, whatever else sleeps or runs.                                       *)
ExecWaitSafe == shell.cmd \in {"exec", "schedtest"} => WaitedTaskExists

(* task_exit is final: a DEAD task is never made ready, run or blocked     *)
(* again, and its task_t is freed only when it is not the running task.    *)
DeadIsFinal ==
  [][\A t \in AllTasks :
       state[t] = "DEAD" => /\ state'[t] \in {"DEAD", "NONE"}
                            /\ current' = t => current = t /\ state'[t] = "DEAD"]_vars

(* Round robin with preemption starves nobody: a task that is READY gets   *)
(* the CPU, even while user tasks spin without ever yielding.              *)
NoStarvation ==
  \A t \in AllTasks \ {Idle} : state[t] = "READY" ~> (current = t \/ state[t] = "NONE")

(* Every sleep ends: a task blocked by sleep_ms runs again. *)
SleeperRuns == \A t \in AllTasks : state[t] = "BLOCKED" ~> current = t /\ state[t] = "RUNNING"

(* If the programs come to an end, exec and schedtest give the prompt back. *)
CommandReturns ==
  (\A t \in UserTasks : state[t] # "NONE" ~> state[t] \in {"DEAD", "NONE"})
    => (pc[Kern] = "wait" ~> pc[Kern] # "wait")
=============================================================================
