--------------------------- MODULE ConsoleProofs ---------------------------
(***************************************************************************)
(* Proofs about drivers/keyboard.c.  For every ring size and every set of  *)
(* keys the scancode ring implements the FIFO of KeyFifo.  For every size  *)
(* of the line and of the history and any number of lines,                 *)
(* keyboard_readline and hist_add keep the line inside its buffer and      *)
(* recall what was entered.                                                *)
(***************************************************************************)
EXTENDS Console, SequenceTheorems, TLAPS

Wrap(i) == IF i < RingSize THEN i ELSE i - RingSize

Used(h, t) == Wrap(h - t + RingSize)

(* What KeyFifo is told about the reader between its accesses. *)
ReaderInv ==
  /\ TypeOK
  /\ pc # "idle" => kb_head # kb_tail
  /\ pc = "advance" => out = kb_ring[kb_tail]

(* The remainder by RingSize of a number below 2 * RingSize. *)
LEMMA ModIsWrap ==
  ASSUME NEW i \in 0..(2 * RingSize - 1)
  PROVE  i % RingSize = Wrap(i)
<1>. USE KeyboardAssumption
<1>1. CASE i < RingSize
  BY <1>1 DEF Wrap
<1>2. CASE i >= RingSize
  BY <1>2 DEF Wrap
<1>. QED BY <1>1, <1>2

(* The slots in use, without remainders. *)
LEMMA QueueShape ==
  ASSUME TypeOK
  PROVE  /\ Waiting = Used(kb_head, kb_tail)
         /\ Waiting \in 0..(RingSize - 1)
         /\ \A k \in 1..RingSize : (kb_tail + k - 1) % RingSize = Wrap(kb_tail + k - 1)
         /\ Queue = [k \in 1..Waiting |-> kb_ring[Wrap(kb_tail + k - 1)]]
<1>. USE KeyboardAssumption
<1>1. kb_head \in 0..(RingSize - 1) /\ kb_tail \in 0..(RingSize - 1)
  BY DEF TypeOK, Slots
<1>2. kb_head - kb_tail + RingSize \in 0..(2 * RingSize - 1)
  BY <1>1
<1>3. Waiting = Used(kb_head, kb_tail)
  BY <1>2, ModIsWrap DEF Waiting, Used
<1>4. Waiting \in 0..(RingSize - 1)
  BY <1>1, <1>3 DEF Used, Wrap
<1>5. ASSUME NEW k \in 1..RingSize
      PROVE  (kb_tail + k - 1) % RingSize = Wrap(kb_tail + k - 1)
  <2>1. kb_tail + k - 1 \in 0..(2 * RingSize - 1)
    BY <1>1
  <2>. QED BY <2>1, ModIsWrap
<1>6. Queue = [k \in 1..Waiting |-> kb_ring[Wrap(kb_tail + k - 1)]]
  <2>1. \A k \in 1..Waiting : k \in 1..RingSize
    BY <1>4
  <2>. QED BY <1>5, <2>1 DEF Queue
<1>. QED BY <1>3, <1>4, <1>5, <1>6

(* How to recognise the result of Append and of Tail, element by element. *)
LEMMA IsAppend ==
  ASSUME NEW S, NEW q \in Seq(S), NEW e \in S, NEW r \in Seq(S), Len(r) = Len(q) + 1,
         \A k \in 1..Len(q) : r[k] = q[k], r[Len(q) + 1] = e
  PROVE  r = Append(q, e)
<1>1. Append(q, e) \in Seq(S) /\ Len(Append(q, e)) = Len(r)
  BY AppendProperties
<1>2. ASSUME NEW k \in 1..Len(r) PROVE r[k] = Append(q, e)[k]
  <2>1. k \in 1..Len(q) \/ k = Len(q) + 1
    OBVIOUS
  <2>. QED BY <2>1, AppendProperties
<1>. QED BY <1>1, <1>2, SeqEqual

(* The same for Tail. *)
LEMMA IsTail ==
  ASSUME NEW S, NEW q \in Seq(S), q # <<>>, NEW r \in Seq(S), Len(r) = Len(q) - 1,
         \A k \in 1..Len(r) : r[k] = q[k + 1]
  PROVE  r = Tail(q)
<1>1. Tail(q) \in Seq(S) /\ Len(Tail(q)) = Len(r)
  BY HeadTailProperties
<1>2. \A k \in 1..Len(r) : r[k] = Tail(q)[k]
  BY <1>1, HeadTailProperties
<1>. QED BY <1>1, <1>2, SeqEqual

(* The inductive invariant of the reader and the interrupt handler. *)
THEOREM KeyboardTypeOK == Spec => []ReaderInv
<1>. USE KeyboardAssumption
<1>1. Init => ReaderInv
  BY DEF Init, ReaderInv, TypeOK, Slots
<1>2. ReaderInv /\ [Next]_vars => ReaderInv'
  <2>. SUFFICES ASSUME ReaderInv, [Next]_vars PROVE ReaderInv'
    OBVIOUS
  <2>0. kb_head \in Slots /\ kb_tail \in Slots /\ TypeOK
    BY DEF ReaderInv, TypeOK
  <2>1. (kb_head + 1) % RingSize \in Slots /\ (kb_tail + 1) % RingSize \in Slots
    BY <2>0 DEF Slots
  <2>2. ASSUME NEW sc \in Scancodes, keyboard_isr(sc) PROVE ReaderInv'
    <3>1. CASE IsFull
      BY <2>2, <3>1 DEF ReaderInv, TypeOK, keyboard_isr, kb_track_scancode, Scancodes
    <3>2. CASE ~IsFull
      <4>1. kb_ring' \in [Slots -> Scancodes \cup {NoKey}] /\ kb_head' \in Slots
        BY <2>0, <2>1, <2>2, <3>2 DEF keyboard_isr, TypeOK
      <4>2. key_state' \subseteq Keys
        BY <2>2, <2>0 DEF keyboard_isr, kb_track_scancode, TypeOK, Scancodes
      <4>3. kb_head' # kb_tail'
        BY <2>2, <3>2 DEF keyboard_isr, IsFull
      <4>4. pc' # "idle" => kb_ring'[kb_tail'] = kb_ring[kb_tail]
        BY <2>0, <2>2, <3>2 DEF keyboard_isr, ReaderInv, TypeOK
      <4>. QED BY <2>2, <3>2, <4>1, <4>2, <4>3, <4>4
               DEF ReaderInv, TypeOK, keyboard_isr
    <3>. QED BY <3>1, <3>2
  <2>3. CASE pop_tests
    BY <2>3 DEF ReaderInv, TypeOK, pop_tests
  <2>4. CASE pop_reads
    BY <2>0, <2>4 DEF ReaderInv, TypeOK, pop_reads
  <2>5. CASE pop_advances
    BY <2>1, <2>5 DEF ReaderInv, TypeOK, pop_advances
  <2>6. CASE UNCHANGED vars
    BY <2>6 DEF ReaderInv, TypeOK, vars
  <2>. QED BY <2>2, <2>3, <2>4, <2>5, <2>6 DEF Next
<1>. QED BY <1>1, <1>2, PTL DEF Spec

(* keyboard_isr on a ring that is not full appends to the queue. *)
LEMMA IsrAppends ==
  ASSUME TypeOK, TypeOK', NEW sc \in Scancodes, keyboard_isr(sc), ~IsFull
  PROVE  Queue' = Append(Queue, sc) /\ Len(Queue) < RingSize - 1
<1>. USE KeyboardAssumption
<1>. DEFINE W == Used(kb_head, kb_tail)
            q == [k \in 1..W |-> kb_ring[Wrap(kb_tail + k - 1)]]
            r == [k \in 1..(W + 1) |-> kb_ring'[Wrap(kb_tail + k - 1)]]
<1>1. kb_head \in 0..(RingSize - 1) /\ kb_tail \in 0..(RingSize - 1)
  BY DEF TypeOK, Slots
<1>2. kb_head + 1 \in 0..(2 * RingSize - 1)
  BY <1>1
<1>3. Wrap(kb_head + 1) # kb_tail /\ kb_head' = Wrap(kb_head + 1) /\ kb_tail' = kb_tail
  BY <1>2, ModIsWrap DEF IsFull, keyboard_isr
<1>4. W \in 0..(RingSize - 2) /\ Used(kb_head', kb_tail') = W + 1
  BY <1>1, <1>3 DEF Used, Wrap
<1>5. Queue = q
  BY QueueShape
<1>6. Queue' = r
  <2>1. Queue' = [k \in 1..Waiting' |-> kb_ring'[(kb_tail' + k - 1) % RingSize]]
    BY DEF Queue
  <2>2. Waiting' = W + 1
    <3>1. kb_head' - kb_tail' + RingSize \in 0..(2 * RingSize - 1)
      BY <1>1, <1>3 DEF Wrap
    <3>2. Waiting' = Used(kb_head', kb_tail')
      BY <3>1, ModIsWrap DEF Waiting, Used
    <3>. QED BY <3>2, <1>4
  <2>3. \A k \in 1..(W + 1) : k \in 1..RingSize
    BY <1>4
  <2>4. \A k \in 1..RingSize : (kb_tail + k - 1) % RingSize = Wrap(kb_tail + k - 1)
    BY QueueShape
  <2>. QED BY <2>1, <2>2, <2>3, <2>4, <1>3
<1>7. r[W + 1] = sc
  <2>1. Wrap(kb_tail + W) = kb_head
    BY <1>1 DEF Used, Wrap
  <2>2. kb_ring'[kb_head] = sc
    BY <1>1 DEF keyboard_isr, TypeOK, Slots
  <2>3. W + 1 \in 1..(W + 1) /\ kb_tail + (W + 1) - 1 = kb_tail + W
    BY <1>1, <1>4
  <2>4. r[W + 1] = kb_ring'[Wrap(kb_tail + (W + 1) - 1)]
    BY <2>3
  <2>. QED BY <2>1, <2>2, <2>3, <2>4
<1>8. ASSUME NEW k \in 1..W PROVE r[k] = q[k]
  <2>1. Wrap(kb_tail + k - 1) \in 0..(RingSize - 1) /\ Wrap(kb_tail + k - 1) # kb_head
    BY <1>1, <1>4 DEF Used, Wrap
  <2>2. kb_ring'[Wrap(kb_tail + k - 1)] = kb_ring[Wrap(kb_tail + k - 1)]
    BY <2>1 DEF keyboard_isr, TypeOK, Slots
  <2>3. k \in 1..(W + 1)
    BY <1>4
  <2>. QED BY <2>2, <2>3
<1>9. q \in Seq(Scancodes \cup {NoKey}) /\ Len(q) = W
  <2>1. \A k \in 1..W : kb_ring[Wrap(kb_tail + k - 1)] \in Scancodes \cup {NoKey}
    BY <1>1, <1>4 DEF TypeOK, Slots, Wrap
  <2>. QED BY <2>1, <1>4
<1>10. r \in Seq(Scancodes \cup {NoKey}) /\ Len(r) = W + 1
  <2>1. \A k \in 1..(W + 1) : kb_ring'[Wrap(kb_tail + k - 1)] \in Scancodes \cup {NoKey}
    BY <1>1, <1>4 DEF TypeOK, Slots, Wrap
  <2>. QED BY <2>1, <1>4
<1>11. r = Append(q, sc)
  <2>. HIDE DEF q, W, r
  <2>. QED BY <1>7, <1>8, <1>9, <1>10, IsAppend
<1>. QED
  <2>. HIDE DEF q, W, r
  <2>. QED BY <1>4, <1>5, <1>6, <1>9, <1>11

(* Moving kb_tail past a scancode that waits removes the queue's head. *)
LEMMA AdvanceTails ==
  ASSUME TypeOK, TypeOK', kb_head # kb_tail, pop_advances
  PROVE  Queue # <<>> /\ Head(Queue) = kb_ring[kb_tail] /\ Queue' = Tail(Queue)
<1>. USE KeyboardAssumption
<1>. DEFINE W == Used(kb_head, kb_tail)
            q == [k \in 1..W |-> kb_ring[Wrap(kb_tail + k - 1)]]
            r == [k \in 1..(W - 1) |-> kb_ring[Wrap(kb_tail + k)]]
<1>1. kb_head \in 0..(RingSize - 1) /\ kb_tail \in 0..(RingSize - 1)
  BY DEF TypeOK, Slots
<1>2. kb_tail + 1 \in 0..(2 * RingSize - 1)
  BY <1>1
<1>3. kb_tail' = Wrap(kb_tail + 1) /\ kb_head' = kb_head /\ kb_ring' = kb_ring
  BY <1>2, ModIsWrap DEF pop_advances
<1>4. W \in 1..(RingSize - 1) /\ Used(kb_head', kb_tail') = W - 1
  BY <1>1, <1>3 DEF Used, Wrap
<1>5. Queue = q
  BY QueueShape
<1>6. Queue' = r
  <2>1. Queue' = [k \in 1..Waiting' |-> kb_ring[(kb_tail' + k - 1) % RingSize]]
    BY <1>3 DEF Queue
  <2>2. Waiting' = W - 1
    <3>1. kb_head' - kb_tail' + RingSize \in 0..(2 * RingSize - 1)
      BY <1>1, <1>3 DEF Wrap
    <3>2. Waiting' = Used(kb_head', kb_tail')
      BY <3>1, ModIsWrap DEF Waiting, Used
    <3>. QED BY <3>2, <1>4
  <2>3. ASSUME NEW k \in 1..(W - 1)
        PROVE  (kb_tail' + k - 1) % RingSize = Wrap(kb_tail + k)
    <3>1. kb_tail' + k - 1 \in 0..(2 * RingSize - 1)
      BY <1>1, <1>3, <1>4 DEF Wrap
    <3>2. (kb_tail' + k - 1) % RingSize = Wrap(kb_tail' + k - 1)
      BY <3>1, ModIsWrap
    <3>3. Wrap(kb_tail' + k - 1) = Wrap(kb_tail + k)
      BY <1>1, <1>3, <1>4 DEF Wrap
    <3>. QED BY <3>2, <3>3
  <2>. HIDE DEF W
  <2>. QED BY <2>1, <2>2, <2>3
<1>7. q \in Seq(Scancodes \cup {NoKey}) /\ Len(q) = W
  <2>1. \A k \in 1..W : kb_ring[Wrap(kb_tail + k - 1)] \in Scancodes \cup {NoKey}
    BY <1>1, <1>4 DEF TypeOK, Slots, Wrap
  <2>. QED BY <2>1, <1>4
<1>8. q # <<>> /\ Head(q) = kb_ring[kb_tail]
  <2>1. q[1] = kb_ring[Wrap(kb_tail + 1 - 1)]
    BY <1>4
  <2>2. Wrap(kb_tail + 1 - 1) = kb_tail
    BY <1>1 DEF Wrap
  <2>. HIDE DEF q, W
  <2>. QED BY <1>4, <1>7, <2>1, <2>2
<1>9. r \in Seq(Scancodes \cup {NoKey}) /\ Len(r) = W - 1
  <2>1. \A k \in 1..(W - 1) : kb_ring[Wrap(kb_tail + k)] \in Scancodes \cup {NoKey}
    BY <1>1, <1>4 DEF TypeOK, Slots, Wrap
  <2>. QED BY <2>1, <1>4
<1>10. r = Tail(q)
  <2>1. \A k \in 1..(W - 1) : q[k + 1] = kb_ring[Wrap(kb_tail + k)]
    <3>1. ASSUME NEW k \in 1..(W - 1) PROVE q[k + 1] = kb_ring[Wrap(kb_tail + k)]
      <4>1. k + 1 \in 1..W /\ kb_tail + (k + 1) - 1 = kb_tail + k
        BY <1>1, <1>4
      <4>2. q[k + 1] = kb_ring[Wrap(kb_tail + (k + 1) - 1)]
        BY <4>1
      <4>. QED BY <4>1, <4>2
    <3>. QED BY <3>1
  <2>2. \A k \in 1..(W - 1) : r[k] = q[k + 1]
    BY <2>1
  <2>. HIDE DEF q, W, r
  <2>. QED BY <2>2, <1>7, <1>8, <1>9, IsTail
<1>. QED
  <2>. HIDE DEF q, W, r
  <2>. QED BY <1>5, <1>6, <1>8, <1>10

(* Wherever the interrupt falls in kb_ring_pop, the ring is a FIFO: what   *)
(* keyboard_isr stores, kb_ring_pop returns once, in order, unchanged.     *)
THEOREM RingIsFifo == Spec => ImplementsFifo
<1>. USE KeyboardAssumption
<1>1. Init => Fifo!KeyFifoInit
  <2>. SUFFICES ASSUME Init PROVE Fifo!KeyFifoInit
    OBVIOUS
  <2>1. Waiting = 0
    BY DEF Init, Waiting
  <2>2. Queue = <<>>
    BY <2>1 DEF Queue
  <2>. QED BY <2>2 DEF Init, Fifo!KeyFifoInit
<1>2. ReaderInv /\ ReaderInv' /\ [Next]_vars => [Fifo!KeyFifoNext]_<<Queue, got>>
  <2>. SUFFICES ASSUME ReaderInv, ReaderInv', [Next]_vars
                PROVE  [Fifo!KeyFifoNext]_<<Queue, got>>
    OBVIOUS
  <2>0. TypeOK /\ TypeOK'
    BY DEF ReaderInv
  <2>1. ASSUME kb_ring' = kb_ring, kb_head' = kb_head, kb_tail' = kb_tail
        PROVE  Queue' = Queue
    BY <2>1 DEF Queue, Waiting
  <2>2. ASSUME NEW sc \in Scancodes, keyboard_isr(sc)
        PROVE  [Fifo!KeyFifoNext]_<<Queue, got>>
    <3>1. CASE IsFull
      BY <2>1, <2>2, <3>1 DEF keyboard_isr
    <3>2. CASE ~IsFull
      <4>1. Queue' = Append(Queue, sc) /\ Len(Queue) < RingSize - 1
        BY <2>0, <2>2, <3>2, IsrAppends
      <4>2. got' = got
        BY <2>2 DEF keyboard_isr
      <4>3. Fifo!Typed(sc)
        BY <4>1, <4>2 DEF Fifo!Typed
      <4>. QED BY <4>3 DEF Fifo!KeyFifoNext
    <3>. QED BY <3>1, <3>2
  <2>3. CASE pop_tests
    BY <2>1, <2>3 DEF pop_tests
  <2>4. CASE pop_reads
    BY <2>1, <2>4 DEF pop_reads
  <2>5. CASE pop_advances
    <3>1. kb_head # kb_tail /\ out = kb_ring[kb_tail] /\ got' = out
      BY <2>5 DEF ReaderInv, pop_advances
    <3>2. Queue # <<>> /\ Head(Queue) = kb_ring[kb_tail] /\ Queue' = Tail(Queue)
      BY <2>0, <2>5, <3>1, AdvanceTails
    <3>3. Fifo!Delivered
      BY <3>1, <3>2 DEF Fifo!Delivered
    <3>. QED BY <3>3 DEF Fifo!KeyFifoNext
  <2>6. CASE UNCHANGED vars
    BY <2>1, <2>6 DEF vars
  <2>. QED BY <2>2, <2>3, <2>4, <2>5, <2>6 DEF Next
<1>. QED BY <1>1, <1>2, KeyboardTypeOK, PTL DEF Spec, ImplementsFifo, Fifo!KeyFifoSpec

(* A scancode is lost only while RingSize - 1 others wait to be read. *)
THEOREM DropsOnlyWhenFullHolds == Spec => DropsOnlyWhenFull
<1>. USE KeyboardAssumption
<1>. DEFINE NotDropped == \A sc \in Scancodes :
              keyboard_isr(sc) /\ Len(Queue) < RingSize - 1 => Queue' = Append(Queue, sc)
<1>1. ReaderInv /\ ReaderInv' => NotDropped
  <2>. SUFFICES ASSUME ReaderInv, ReaderInv', NEW sc \in Scancodes, keyboard_isr(sc),
                       Len(Queue) < RingSize - 1
                PROVE  Queue' = Append(Queue, sc)
    OBVIOUS
  <2>0. TypeOK /\ TypeOK'
    BY DEF ReaderInv
  <2>1. ~IsFull
    <3>. SUFFICES ASSUME IsFull PROVE FALSE
      OBVIOUS
    <3>1. kb_head \in 0..(RingSize - 1) /\ kb_tail \in 0..(RingSize - 1)
      BY <2>0 DEF TypeOK, Slots
    <3>2. kb_head + 1 \in 0..(2 * RingSize - 1)
      BY <3>1
    <3>3. Wrap(kb_head + 1) = kb_tail
      BY <3>2, ModIsWrap DEF IsFull
    <3>4. Used(kb_head, kb_tail) = RingSize - 1
      BY <3>1, <3>3 DEF Wrap, Used
    <3>5. Len(Queue) = RingSize - 1
      BY <2>0, <3>4, QueueShape
    <3>. QED BY <3>5
  <2>. QED BY <2>0, <2>1, IsrAppends
<1>. QED BY <1>1, KeyboardTypeOK, PTL DEF DropsOnlyWhenFull

-----------------------------------------------------------------------------
(* HistoryExact speaks of lines; this is what relates them to the statics. *)
EditTypes ==
  /\ history \in [0..(HIST_MAX - 1) -> Seq(Chars)]
  /\ lines \in Seq(Seq(Chars))
  /\ hist_head = Len(lines)

EditInv == EditTypes /\ LineFits /\ HistoryExact

(* Slots that are less than HIST_MAX lines apart are different slots. *)
LEMMA SlotsDiffer ==
  ASSUME NEW a \in Nat, NEW d \in 1..(HIST_MAX - 1), a - d \in Nat
  PROVE  (a - d) % HIST_MAX # a % HIST_MAX
<1>. USE ReadlineAssumption
<1>. DEFINE p == a \div HIST_MAX
            q == (a - d) \div HIST_MAX
            r == a % HIST_MAX
<1>1. /\ p \in Int /\ q \in Int
      /\ a = HIST_MAX * p + r
      /\ a - d = HIST_MAX * q + ((a - d) % HIST_MAX)
  OBVIOUS
<1>. SUFFICES ASSUME (a - d) % HIST_MAX = r PROVE FALSE
  OBVIOUS
<1>2. r \in Int
  OBVIOUS
<1>. HIDE DEF p, q, r
<1>3. d = HIST_MAX * (p - q)
  BY <1>1, <1>2
<1>4. CASE p - q <= 0
  BY <1>1, <1>3, <1>4
<1>5. CASE p - q >= 1
  BY <1>1, <1>3, <1>5
<1>. QED BY <1>1, <1>4, <1>5

LEMMA SlotInRange ==
  ASSUME NEW a \in Int
  PROVE  a % HIST_MAX \in 0..(HIST_MAX - 1)
BY ReadlineAssumption

(* hist_add: a new line in the history, and the lines before it that are   *)
(* still there.                                                            *)
LEMMA ReturnKeepsInv ==
  ASSUME EditInv, NEW line \in Seq(Chars), Len(line) <= MaxInput, Return(line)
  PROVE  EditInv'
<1>. USE ReadlineAssumption
<1>0. /\ history \in [0..(HIST_MAX - 1) -> Seq(Chars)] /\ lines \in Seq(Seq(Chars))
      /\ \A s \in 0..(HIST_MAX - 1) : Len(history[s]) <= MaxInput
      /\ \A k \in 1..hist_count : Line(hist_head - k) = lines[Len(lines) - k + 1]
  BY DEF EditInv, EditTypes, LineFits, HistoryExact
<1>n. /\ hist_head = Len(lines) /\ hist_count \in 0..HIST_MAX /\ hist_head \in Nat
      /\ hist_count = IF Len(lines) < HIST_MAX THEN Len(lines) ELSE HIST_MAX
  BY DEF EditInv, EditTypes, LineFits, HistoryExact
<1>1. buf' = <<>> /\ hist_pos' = hist_head'
  BY DEF Return
<1>2. CASE line = <<>>
  <2>1. UNCHANGED statics
    BY <1>2 DEF Return, hist_add
  <2>. QED
    BY <1>0, <1>n, <1>1, <2>1 DEF EditInv, EditTypes, LineFits, HistoryExact, Line, statics
<1>3. CASE line # <<>>
  <2>. DEFINE top == hist_head % HIST_MAX
  <2>0. top \in 0..(HIST_MAX - 1)
    BY <1>n, SlotInRange
  <2>. HIDE DEF top
  <2>1. /\ history' = [history EXCEPT ![top] = line]
        /\ lines' = Append(lines, line)
    BY <1>3 DEF Return, hist_add, top
  <2>n. /\ hist_head' = hist_head + 1
        /\ hist_count' = IF hist_count < HIST_MAX THEN hist_count + 1 ELSE hist_count
    BY <1>3 DEF Return, hist_add
  <2>2. /\ lines' \in Seq(Seq(Chars)) /\ Len(lines') = Len(lines) + 1
        /\ lines'[Len(lines) + 1] = line
        /\ \A i \in 1..Len(lines) : lines'[i] = lines[i]
    BY <1>0, <2>1, AppendProperties
  <2>3. EditTypes'
    BY <1>0, <1>n, <2>0, <2>1, <2>n, <2>2 DEF EditTypes
  <2>4. LineFits'
    <3>1. \A s \in DOMAIN history' : Len(history'[s]) <= MaxInput
      BY <1>0, <2>0, <2>1
    <3>2. hist_count' \in 0..HIST_MAX /\ hist_head' \in Nat
      BY <1>n, <2>n
    <3>4. hist_head' \in (hist_head' - hist_count')..hist_head'
      <4>1. \A x, y \in Nat : x \in (x - y)..x
        OBVIOUS
      <4>2. hist_head' \in Nat /\ hist_count' \in Nat
        BY <3>2
      <4>. QED BY <4>1, <4>2, Zenon
    <3>3. <<>> \in Seq(Chars) /\ Len(<<>>) < MaxInput
      OBVIOUS
    <3>. QED BY <1>1, <3>1, <3>2, <3>3, <3>4 DEF LineFits, Chars
  <2>5. hist_count' = IF Len(lines') < HIST_MAX THEN Len(lines') ELSE HIST_MAX
    BY <1>n, <2>n, <2>2
  <2>6. ASSUME NEW k \in 1..hist_count'
        PROVE  history'[(hist_head' - k) % HIST_MAX] = lines'[Len(lines') - k + 1]
    <3>1. CASE k = 1
      BY <1>0, <1>n, <2>0, <2>1, <2>n, <2>2, <3>1 DEF top
    <3>2. CASE k # 1
      <4>0. /\ hist_count \in Nat /\ hist_head \in Nat /\ Len(lines) = hist_head
            /\ hist_count <= hist_head /\ hist_count <= HIST_MAX
            /\ hist_count' <= hist_count + 1 /\ hist_count' <= HIST_MAX
            /\ hist_head' = hist_head + 1 /\ Len(lines') = Len(lines) + 1
            /\ hist_count' \in Nat
        BY <1>n, <2>n, <2>2
      <4>1. /\ k - 1 \in 1..hist_count /\ k - 1 \in 1..(HIST_MAX - 1)
            /\ hist_head - (k - 1) \in Nat /\ hist_head' - k = hist_head - (k - 1)
            /\ Len(lines') - k + 1 = Len(lines) - (k - 1) + 1
            /\ Len(lines) - (k - 1) + 1 \in 1..Len(lines)
        BY <4>0, <3>2
      <4>2. (hist_head - (k - 1)) % HIST_MAX # top
        BY <4>0, <4>1, SlotsDiffer DEF top
      <4>3. history'[(hist_head - (k - 1)) % HIST_MAX] = history[(hist_head - (k - 1)) % HIST_MAX]
        <5>1. hist_head - (k - 1) \in Int
          BY <4>1
        <5>2. (hist_head - (k - 1)) % HIST_MAX \in 0..(HIST_MAX - 1)
          BY <5>1, SlotInRange, Zenon
        <5>. QED BY <1>0, <2>1, <4>2, <5>2
      <4>4. Line(hist_head - (k - 1)) = lines[Len(lines) - (k - 1) + 1]
        BY <1>0, <4>1
      <4>. QED BY <2>2, <4>1, <4>3, <4>4 DEF Line
    <3>. QED BY <3>1, <3>2
  <2>7. HistoryExact'
    BY <2>5, <2>6 DEF HistoryExact, Line
  <2>. QED BY <2>3, <2>4, <2>7 DEF EditInv
<1>. QED BY <1>2, <1>3

(* A line that is edited or recalled, and returned when it fills the       *)
(* buffer.                                                                 *)
LEMMA ContinueKeepsInv ==
  ASSUME EditInv, NEW line \in Seq(Chars), Len(line) <= MaxInput,
         NEW pos \in (hist_head - hist_count)..hist_head, Continue(line, pos)
  PROVE  EditInv'
<1>1. CASE Len(line) >= MaxInput
  BY <1>1, ReturnKeepsInv DEF Continue
<1>2. CASE Len(line) < MaxInput
  <2>1. buf' = line /\ hist_pos' = pos /\ UNCHANGED statics
    BY <1>2, ReadlineAssumption DEF Continue
  <2>. QED
    BY <1>2, <2>1 DEF EditInv, EditTypes, LineFits, HistoryExact, Line, statics
<1>. QED BY <1>1, <1>2, ReadlineAssumption

(* Nothing that the invariant speaks of has changed. *)
LEMMA FrameKeepsInv ==
  ASSUME EditInv, UNCHANGED <<statics, buf, hist_pos>>
  PROVE  EditInv'
BY DEF EditInv, EditTypes, LineFits, HistoryExact, Line, statics

(* The line that Up or Down recalls is the one that was entered. *)
LEMMA RecalledLine ==
  ASSUME EditInv, NEW pos \in (hist_head - hist_count)..(hist_head - 1)
  PROVE  /\ Line(pos) \in Seq(Chars) /\ Len(Line(pos)) <= MaxInput
         /\ pos \in 0..(Len(lines) - 1) /\ Line(pos) = lines[pos + 1]
<1>1. /\ hist_count \in 0..HIST_MAX /\ hist_head \in Nat /\ hist_head = Len(lines)
      /\ hist_count <= Len(lines)
  BY ReadlineAssumption DEF EditInv, EditTypes, LineFits, HistoryExact
<1>2. pos % HIST_MAX \in 0..(HIST_MAX - 1)
  <2>1. pos \in Int
    BY <1>1
  <2>. QED BY <2>1, SlotInRange, Zenon
<1>3. Line(pos) \in Seq(Chars) /\ Len(Line(pos)) <= MaxInput
  BY <1>2 DEF Line, EditInv, EditTypes, LineFits
<1>4. hist_head - pos \in 1..hist_count /\ hist_head - (hist_head - pos) = pos
  BY <1>1
<1>5. Line(hist_head - (hist_head - pos)) = lines[Len(lines) - (hist_head - pos) + 1]
  BY <1>4 DEF EditInv, HistoryExact
<1>. QED BY <1>1, <1>3, <1>4, <1>5

LEMMA EditInvStep ==
  ASSUME EditInv, keyboard_readline
  PROVE  EditInv'
<1>. USE ReadlineAssumption
<1>1. /\ hist_count \in 0..HIST_MAX /\ hist_head \in Nat /\ buf \in Seq(Chars)
      /\ Len(buf) < MaxInput /\ hist_pos \in (hist_head - hist_count)..hist_head
  BY DEF EditInv, LineFits
<1>2. ASSUME prefix \/ extended_other PROVE EditInv'
  BY <1>2, FrameKeepsInv DEF prefix, extended_other
<1>3. ASSUME arrow_up PROVE EditInv'
  <2>1. CASE hist_pos - 1 < Oldest
    BY <1>3, <2>1, FrameKeepsInv DEF arrow_up
  <2>2. CASE hist_pos - 1 >= Oldest
    <3>1. hist_pos - 1 \in (hist_head - hist_count)..(hist_head - 1)
      BY <1>1, <2>2 DEF Oldest
    <3>2. hist_pos - 1 \in (hist_head - hist_count)..hist_head
      BY <1>1, <3>1
    <3>3. Continue(Line(hist_pos - 1), hist_pos - 1)
      BY <1>1, <1>3, <2>2 DEF arrow_up, Oldest
    <3>. QED BY <3>1, <3>2, <3>3, RecalledLine, ContinueKeepsInv
  <2>. QED BY <1>1, <2>1, <2>2 DEF Oldest
<1>4. ASSUME arrow_down PROVE EditInv'
  <2>1. CASE hist_pos + 1 > hist_head
    BY <1>4, <2>1, FrameKeepsInv DEF arrow_down
  <2>2. CASE hist_pos + 1 = hist_head
    <3>1. Continue(<<>>, hist_pos + 1)
      BY <1>1, <1>4, <2>2 DEF arrow_down
    <3>2. <<>> \in Seq(Chars) /\ Len(<<>>) <= MaxInput
      OBVIOUS
    <3>3. hist_pos + 1 \in (hist_head - hist_count)..hist_head
      BY <1>1, <2>2
    <3>. QED BY <3>1, <3>2, <3>3, ContinueKeepsInv
  <2>3. CASE hist_pos + 1 < hist_head
    <3>1. hist_pos + 1 \in (hist_head - hist_count)..(hist_head - 1)
      BY <1>1, <2>3
    <3>2. hist_pos + 1 \in (hist_head - hist_count)..hist_head
      BY <1>1, <3>1
    <3>3. Continue(Line(hist_pos + 1), hist_pos + 1)
      BY <1>1, <1>4, <2>3 DEF arrow_down
    <3>. QED BY <3>1, <3>2, <3>3, RecalledLine, ContinueKeepsInv
  <2>. QED BY <1>1, <2>1, <2>2, <2>3
<1>5. ASSUME NEW sc, modifier(sc) PROVE EditInv'
  BY <1>5, FrameKeepsInv DEF modifier
<1>6. ASSUME NEW c, Entered(c) PROVE EditInv'
  <2>1. CASE c = "none" /\ UNCHANGED lineVars
    BY <2>1, FrameKeepsInv DEF lineVars
  <2>2. CASE c = "enter" /\ Return(buf)
    BY <1>1, <2>2, ReturnKeepsInv
  <2>3. CASE c = "back" /\ Continue(IF buf = <<>> THEN buf ELSE Front(buf), hist_pos)
    <3>1. CASE buf = <<>>
      <4>1. Len(buf) <= MaxInput /\ Continue(buf, hist_pos)
        BY <1>1, <2>3, <3>1
      <4>. QED BY <1>1, <4>1, ContinueKeepsInv
    <3>2. CASE buf # <<>>
      <4>1. Front(buf) \in Seq(Chars) /\ Len(Front(buf)) <= MaxInput
        BY <1>1, <3>2 DEF Front
      <4>. QED BY <1>1, <2>3, <3>2, <4>1, ContinueKeepsInv
    <3>. QED BY <3>1, <3>2
  <2>4. CASE c \in Chars /\ Continue(Append(buf, c), hist_pos)
    <3>1. Append(buf, c) \in Seq(Chars) /\ Len(Append(buf, c)) <= MaxInput
      BY <1>1, <2>4
    <3>. QED BY <1>1, <2>4, <3>1, ContinueKeepsInv
  <2>. QED BY <1>6, <2>1, <2>2, <2>3, <2>4 DEF Entered
<1>. QED
  BY <1>2, <1>3, <1>4, <1>5, <1>6 DEF keyboard_readline, typed, past_table

LEMMA EditInvAlways == ConsoleSpec => []EditInv
<1>1. ConsoleInit => EditInv
  BY ReadlineAssumption DEF ConsoleInit, readlineInit, EditInv, EditTypes, LineFits, HistoryExact
<1>2. EditInv /\ [RingStep \/ EditorStep]_consoleVars => EditInv'
  <2>1. ASSUME EditInv, RingStep PROVE EditInv'
    BY <2>1, FrameKeepsInv DEF RingStep, lineVars
  <2>2. ASSUME EditInv, EditorStep PROVE EditInv'
    BY <2>2, EditInvStep DEF EditorStep
  <2>3. ASSUME EditInv, UNCHANGED consoleVars PROVE EditInv'
    BY <2>3, FrameKeepsInv DEF consoleVars, lineVars
  <2>. QED BY <2>1, <2>2, <2>3
<1>. QED BY <1>1, <1>2, PTL DEF ConsoleSpec

(* keyboard_readline never writes past the caller's buffer, typed, recalled *)
(* or read from beyond the tables, and the index it walks the history with  *)
(* stays between the oldest line kept and the newest.                       *)
THEOREM LineAlwaysFits == ConsoleSpec => []LineFits
<1>1. EditInv => LineFits
  BY DEF EditInv
<1>. QED BY EditInvAlways, <1>1, PTL

(* For every HIST_MAX and however many lines were entered: the slots that  *)
(* hist_add reuses in turn hold the last HIST_MAX lines.                   *)
THEOREM HistoryIsExact == ConsoleSpec => []HistoryExact
<1>1. EditInv => HistoryExact
  BY DEF EditInv
<1>. QED BY EditInvAlways, <1>1, PTL

(* Up and Down show the lines in order, each as it was entered, for every  *)
(* HIST_MAX: a slot that hist_add has reused is never shown in the place   *)
(* of the line it held before.                                             *)
THEOREM RecallIsInOrder == ConsoleSpec => RecallInOrder
<1>. DEFINE Shown == lines' = lines /\ hist_pos' # hist_pos =>
              /\ hist_pos' \in {hist_pos - 1, hist_pos + 1, Len(lines)}
              /\ hist_pos' \in 0..Len(lines)
              /\ buf' = IF hist_pos' = Len(lines) THEN <<>> ELSE lines[hist_pos' + 1]
<1>1. ASSUME EditInv, keyboard_readline PROVE Shown
  <2>. USE ReadlineAssumption
  <2>1. /\ hist_count \in 0..HIST_MAX /\ hist_head \in Nat /\ hist_head = Len(lines)
        /\ hist_pos \in (hist_head - hist_count)..hist_head /\ lines \in Seq(Seq(Chars))
        /\ hist_count <= hist_head
    BY <1>1 DEF EditInv, EditTypes, LineFits, HistoryExact
  <2>2. ASSUME NEW line, Return(line) PROVE Shown
    <3>1. buf' = <<>> /\ hist_pos' = hist_head'
      BY <2>2 DEF Return
    <3>2. CASE line = <<>>
      BY <2>1, <2>2, <3>1, <3>2 DEF Return, hist_add, statics
    <3>3. CASE line # <<>>
      <4>1. lines' = Append(lines, line)
        BY <2>2, <3>3 DEF Return, hist_add
      <4>2. lines' # lines
        BY <2>1, <4>1
      <4>. QED BY <4>2
    <3>. QED BY <3>2, <3>3
  <2>3. ASSUME NEW line, NEW pos, Continue(line, pos),
               pos # hist_pos => /\ pos \in {hist_pos - 1, hist_pos + 1} /\ pos \in 0..Len(lines)
                                 /\ line = IF pos = Len(lines) THEN <<>> ELSE lines[pos + 1]
        PROVE  Shown
    <3>1. CASE Return(line)
      BY <2>2, <3>1
    <3>2. CASE buf' = line /\ hist_pos' = pos
      BY <2>3, <3>2
    <3>. QED BY <2>3, <3>1, <3>2 DEF Continue
  <2>4. ASSUME UNCHANGED hist_pos PROVE Shown
    BY <2>4
  <2>5. CASE arrow_up
    <3>1. CASE hist_pos - 1 < Oldest
      BY <2>4, <2>5, <3>1 DEF arrow_up
    <3>2. CASE hist_pos - 1 >= Oldest
      <4>1. hist_pos - 1 \in (hist_head - hist_count)..(hist_head - 1)
        BY <2>1, <3>2 DEF Oldest
      <4>2. /\ hist_pos - 1 \in 0..(Len(lines) - 1)
            /\ Line(hist_pos - 1) = lines[hist_pos - 1 + 1]
        BY <1>1, <4>1, RecalledLine
      <4>3. Continue(Line(hist_pos - 1), hist_pos - 1)
        BY <2>1, <2>5, <3>2 DEF arrow_up, Oldest
      <4>4. hist_pos - 1 \in 0..Len(lines) /\ hist_pos - 1 # Len(lines)
        BY <2>1, <4>2
      <4>. QED BY <2>3, <4>2, <4>3, <4>4
    <3>. QED BY <2>1, <3>1, <3>2 DEF Oldest
  <2>6. CASE arrow_down
    <3>1. CASE hist_pos + 1 > hist_head
      BY <2>4, <2>6, <3>1 DEF arrow_down
    <3>2. CASE hist_pos + 1 = hist_head
      <4>1. Continue(<<>>, hist_pos + 1)
        BY <2>1, <2>6, <3>2 DEF arrow_down
      <4>. QED BY <2>1, <2>3, <3>2, <4>1
    <3>3. CASE hist_pos + 1 < hist_head
      <4>1. hist_pos + 1 \in (hist_head - hist_count)..(hist_head - 1)
        BY <2>1, <3>3
      <4>2. /\ hist_pos + 1 \in 0..(Len(lines) - 1)
            /\ Line(hist_pos + 1) = lines[hist_pos + 1 + 1]
        BY <1>1, <4>1, RecalledLine
      <4>3. Continue(Line(hist_pos + 1), hist_pos + 1)
        BY <2>1, <2>6, <3>3 DEF arrow_down
      <4>4. hist_pos + 1 \in 0..Len(lines) /\ hist_pos + 1 # Len(lines)
        BY <2>1, <4>2
      <4>. QED BY <2>3, <4>2, <4>3, <4>4
    <3>. QED BY <2>1, <3>1, <3>2, <3>3
  <2>7. CASE prefix \/ extended_other
    BY <2>4, <2>7 DEF prefix, extended_other
  <2>8. ASSUME NEW sc, modifier(sc) PROVE Shown
    BY <2>4, <2>8 DEF modifier
  <2>9. ASSUME NEW c, Entered(c) PROVE Shown
    <3>1. CASE UNCHANGED lineVars
      BY <2>4, <3>1 DEF lineVars
    <3>2. CASE Return(buf)
      BY <2>2, <3>2
    <3>3. ASSUME NEW line, Continue(line, hist_pos) PROVE Shown
      BY <2>3, <3>3
    <3>. QED BY <2>9, <3>1, <3>2, <3>3 DEF Entered
  <2>. QED
    BY <1>1, <2>5, <2>6, <2>7, <2>8, <2>9 DEF keyboard_readline, typed, past_table
<1>2. EditInv /\ [RingStep \/ EditorStep]_consoleVars => [Shown]_lineVars
  <2>1. ASSUME EditInv, EditorStep PROVE Shown
    BY <1>1, <2>1 DEF EditorStep
  <2>. QED BY <2>1 DEF RingStep, consoleVars
<1>. QED BY EditInvAlways, <1>2, PTL DEF ConsoleSpec, RecallInOrder
=============================================================================
