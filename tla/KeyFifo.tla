------------------------------ MODULE KeyFifo ------------------------------
(***************************************************************************)
(* What the keyboard driver promises its reader: the scancodes arrive in   *)
(* the order they were typed, each at most once; no more than Capacity of  *)
(* them wait, and what comes when they do is dropped.                      *)
(***************************************************************************)
EXTENDS Naturals, Sequences

CONSTANTS Scancodes, Capacity, NoKey

VARIABLES queue, got

KeyFifoInit == queue = <<>> /\ got = NoKey

Typed(sc) ==
  /\ queue' = IF Len(queue) < Capacity THEN Append(queue, sc) ELSE queue
  /\ UNCHANGED got

Delivered ==
  /\ queue # <<>>
  /\ got' = Head(queue)
  /\ queue' = Tail(queue)

KeyFifoNext == (\E sc \in Scancodes : Typed(sc)) \/ Delivered

KeyFifoSpec == KeyFifoInit /\ [][KeyFifoNext]_<<queue, got>>
=============================================================================
