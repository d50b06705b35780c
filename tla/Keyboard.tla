------------------------------ MODULE Keyboard ------------------------------
(***************************************************************************)
(* The scancode ring of drivers/keyboard.c: keyboard_isr (IRQ 1) fills it, *)
(* kb_ring_pop empties it, called by the task that reads the keyboard.     *)
(* The interrupt may fall between any two accesses of kb_ring_pop; nothing *)
(* interrupts the interrupt handler.                                       *)
(***************************************************************************)
EXTENDS Integers, Sequences

CONSTANTS
  Keys,        \* the keys of the keyboard, by their make code
  RingSize,    \* KB_RING_SIZE
  NoKey        \* the value 0 of a slot that was never written

(* A key sends a make code when it goes down and a break code (bit 7 set)  *)
(* when it goes up.                                                        *)
Scancodes == [key : Keys, down : BOOLEAN]

ASSUME KeyboardAssumption == RingSize \in Nat /\ RingSize > 1 /\ NoKey \notin Scancodes

VARIABLES
  key_state,                   \* the keys whose entry is 1
  kb_ring, kb_head, kb_tail,
  pc,    \* the reader: "idle", or the next access of kb_ring_pop
  out,   \* *out of kb_ring_pop
  got    \* the last scancode kb_ring_pop returned

vars == <<key_state, kb_ring, kb_head, kb_tail, pc, out, got>>

Slots == 0..(RingSize - 1)

Init ==
  /\ key_state = {}
  /\ kb_ring = [i \in Slots |-> NoKey]
  /\ kb_head = 0 /\ kb_tail = 0
  /\ pc = "idle" /\ out = NoKey /\ got = NoKey

IsFull_Never == FALSE  \* mutant

IsFull_Early == (kb_head + 2) % RingSize = kb_tail  \* mutant: a slot too soon

IsFull == (kb_head + 1) % RingSize = kb_tail

kb_track_scancode(sc) ==
  key_state' = IF sc.down THEN key_state \cup {sc.key} ELSE key_state \ {sc.key}

keyboard_isr(sc) ==
  /\ kb_track_scancode(sc)
  /\ IF IsFull
     THEN UNCHANGED <<kb_ring, kb_head>>
     ELSE /\ kb_ring' = [kb_ring EXCEPT ![kb_head] = sc]
          /\ kb_head' = (kb_head + 1) % RingSize
  /\ UNCHANGED <<kb_tail, pc, out, got>>

(* kb_ring_pop, one access of the shared variables at a time; it returns 0 *)
(* when the ring is empty.                                                 *)
pop_tests ==
  /\ pc = "idle"
  /\ kb_tail # kb_head
  /\ pc' = "read"
  /\ UNCHANGED <<key_state, kb_ring, kb_head, kb_tail, out, got>>

pop_reads ==
  /\ pc = "read"
  /\ out' = kb_ring[kb_tail]
  /\ pc' = "advance"
  /\ UNCHANGED <<key_state, kb_ring, kb_head, kb_tail, got>>

pop_advances ==
  /\ pc = "advance"
  /\ kb_tail' = (kb_tail + 1) % RingSize
  /\ got' = out
  /\ pc' = "idle"
  /\ UNCHANGED <<key_state, kb_ring, kb_head, out>>

Next ==
  \/ \E sc \in Scancodes : keyboard_isr(sc)
  \/ pop_tests \/ pop_reads \/ pop_advances

Spec == Init /\ [][Next]_vars

-----------------------------------------------------------------------------
(* The indices stay in the ring. *)
TypeOK ==
  /\ key_state \subseteq Keys
  /\ kb_ring \in [Slots -> Scancodes \cup {NoKey}]
  /\ kb_head \in Slots /\ kb_tail \in Slots
  /\ pc \in {"idle", "read", "advance"}
  /\ out \in Scancodes \cup {NoKey} /\ got \in Scancodes \cup {NoKey}

Waiting == (kb_head - kb_tail + RingSize) % RingSize

Queue == [k \in 1..Waiting |-> kb_ring[(kb_tail + k - 1) % RingSize]]

Fifo == INSTANCE KeyFifo WITH Capacity <- RingSize - 1, queue <- Queue

(* keyboard_isr and kb_ring_pop together are a bounded FIFO, wherever the  *)
(* interrupt falls: no scancode is duplicated, reordered, or overwritten   *)
(* before it is read.                                                      *)
ImplementsFifo == Fifo!KeyFifoSpec

(* A scancode is dropped only when RingSize - 1 are waiting.  (The FIFO    *)
(* above cannot say so: a dropped scancode is a stuttering step of it.)    *)
DropsOnlyWhenFull ==
  [][\A sc \in Scancodes :
       keyboard_isr(sc) /\ Len(Queue) < RingSize - 1 => Queue' = Append(Queue, sc)]_vars
=============================================================================
