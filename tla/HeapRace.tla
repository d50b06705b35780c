------------------------------ MODULE HeapRace ------------------------------
(***************************************************************************)
(* The heap when one of its callers is preempted inside kmalloc: an exec   *)
(* task reads its program from disk (fat32_file_read allocates a cluster   *)
(* buffer) in kernel mode with interrupts on and no lock held, and loses   *)
(* the CPU between the search of the list and the change of the block it   *)
(* has found; the [about] window task, never preempted itself, opens or    *)
(* closes its window (wm_create_static, wm_destroy) meanwhile.             *)
(***************************************************************************)
EXTENDS Heap

VARIABLES
  curr,   \* kmalloc's local curr in the exec task: the header it has found
  want,   \* ... and its argument
  win     \* the wm_window_t of the [about] task

raceVars == <<heap, ptrs, stacks, curr, want, win>>

NoBlock == Block(NULL, 0, FALSE)

RaceInit == Init /\ curr = NoBlock /\ want = 0 /\ win = NULL

(* The exec task walks the list; the walk finds a free block that fits. *)
exec_kmalloc_finds(n) ==
  /\ curr = NoBlock
  /\ Fits(heap.list, n) # {}
  /\ curr' = heap.list[Min(Fits(heap.list, n))]
  /\ want' = n
  /\ UNCHANGED <<heap, ptrs, stacks, win>>

(* No block fits: the rest of the call, without a preemption. *)
exec_kmalloc_grows(n) ==
  /\ curr = NoBlock
  /\ Fits(heap.list, n) = {}
  /\ kmalloc(n)
  /\ UNCHANGED <<curr, want, win>>

(* The exec task goes on: heap_split, used = true, return.  A block that   *)
(* is no longer in the list is changed in place (and so, in the code, may  *)
(* be the prev pointer of a neighbour, which is left out).                 *)
exec_kmalloc_takes ==
  /\ curr # NoBlock
  /\ LET at == {k \in 1..Len(heap.list) : heap.list[k].addr = curr.addr}
         now == IF at = {} THEN curr ELSE heap.list[Min(at)]
     IN heap' = [heap EXCEPT !.list = IF at = {} THEN @ ELSE heap_split(@, Min(at), want),
                             !.g_used_bytes = @ + Split(now, want)[1].size,
                             !.g_used_blocks = @ + 1]
  /\ ptrs' = [a \in DOMAIN ptrs \cup {curr.addr} |->
                IF a \in DOMAIN ptrs THEN ptrs[a] ELSE want]
  /\ curr' = NoBlock
  /\ UNCHANGED <<want, stacks, win>>

exec_kfree(a) == curr = NoBlock /\ a # win /\ kfree(a) /\ UNCHANGED <<curr, want, win>>

(* wm_create_static and wm_destroy in the [about] task *)
wm_create_static(n) ==
  /\ win = NULL
  /\ kmalloc(n)
  /\ win' = Kmalloc(heap, n).addr
  /\ UNCHANGED <<curr, want>>

wm_destroy ==
  /\ win # NULL
  /\ kfree(win)
  /\ win' = NULL
  /\ UNCHANGED <<curr, want>>

RaceNext ==
  \/ \E n \in Sizes : exec_kmalloc_finds(n) \/ exec_kmalloc_grows(n) \/ wm_create_static(n)
  \/ exec_kmalloc_takes
  \/ \E a \in DOMAIN ptrs : exec_kfree(a)
  \/ wm_destroy

RaceSpec == RaceInit /\ [][RaceNext]_raceVars
=============================================================================
