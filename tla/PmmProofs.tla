----------------------------- MODULE PmmProofs -----------------------------
(***************************************************************************)
(* What the page allocator does, for every number of pages and every       *)
(* memory map, and the induction over the turns of a loop that its users   *)
(* need.  A set of turns stands in place of a predicate.                   *)
(***************************************************************************)
EXTENDS Pmm, FiniteSetTheorems, TLAPS

(* A set of natural numbers has a least element, and a greatest one when   *)
(* it is bounded.                                                          *)
LEMMA LeastExists ==
  ASSUME NEW S \in SUBSET Nat, S # {}
  PROVE  \E x \in S : \A y \in S : x <= y
<1>1. PICK x \in S : \A y \in S : ~(<<y, x>> \in OpToRel(<, Nat))
  BY NatLessThanWellFounded, WFMin
<1>2. ASSUME NEW y \in S PROVE x <= y
  <2>1. \A p \in Nat \X Nat : p \in OpToRel(<, Nat) <=> p[1] < p[2]
    BY DEF OpToRel
  <2>2. <<y, x>> \in Nat \X Nat /\ ~(<<y, x>> \in OpToRel(<, Nat))
    BY <1>1
  <2>3. <<y, x>>[1] = y /\ <<y, x>>[2] = x /\ x \in Nat /\ y \in Nat
    OBVIOUS
  <2>4. ~(y < x)
    BY <2>1, <2>2, <2>3, Zenon
  <2>. QED BY <2>3, <2>4
<1>. QED BY <1>2

LEMMA GreatestExists ==
  ASSUME NEW S \in SUBSET Nat, S # {}, NEW n \in Nat, \A y \in S : y <= n
  PROVE  \E x \in S : \A y \in S : x >= y
<1>. DEFINE T == {i \in 0..n : n - i \in S}
<1>1. T \in SUBSET Nat /\ T # {}
  <2>1. PICK y \in S : TRUE
    OBVIOUS
  <2>2. y \in Nat /\ n - y \in 0..n /\ n - (n - y) = y
    OBVIOUS
  <2>3. n - y \in T
    BY <2>1, <2>2
  <2>4. 0..n \subseteq Nat
    OBVIOUS
  <2>5. T \subseteq 0..n
    OBVIOUS
  <2>. HIDE DEF T
  <2>. QED BY <2>3, <2>4, <2>5
<1>2. PICK t \in T : \A u \in T : t <= u
  BY <1>1, LeastExists
<1>3. ASSUME NEW y \in S PROVE n - t >= y
  <2>1. y \in Nat /\ n - y \in 0..n /\ n - (n - y) = y
    OBVIOUS
  <2>2. n - y \in T
    BY <2>1
  <2>. QED BY <1>2, <2>1, <2>2
<1>. QED BY <1>2, <1>3

(* Induction over the turns 0..n of a loop. *)
LEMMA TurnByTurn ==
  ASSUME NEW n \in Nat, NEW T, 0 \in T, \A i \in 1..n : i - 1 \in T => i \in T
  PROVE  0..n \subseteq T
<1>. SUFFICES ASSUME ~(0..n \subseteq T) PROVE FALSE
  OBVIOUS
<1>. DEFINE B == {i \in 0..n : i \notin T}
<1>1. B \in SUBSET Nat /\ B # {}
  OBVIOUS
<1>2. PICK x \in B : \A y \in B : ~(<<y, x>> \in OpToRel(<, Nat))
  BY <1>1, NatLessThanWellFounded, WFMin
<1>3. x \in 1..n /\ x - 1 \in 0..n /\ x \notin T
  OBVIOUS
<1>4. x - 1 \in B
  BY <1>3
<1>5. \A p \in Nat \X Nat : p \in OpToRel(<, Nat) <=> p[1] < p[2]
  BY DEF OpToRel
<1>6. <<x - 1, x>> \in Nat \X Nat
  BY <1>3
<1>7. <<x - 1, x>>[1] < <<x - 1, x>>[2]
  BY <1>3
<1>8. <<x - 1, x>> \in OpToRel(<, Nat)
  BY <1>5, <1>6, <1>7, Zenon
<1>. QED BY <1>2, <1>4, <1>8, Zenon

(* The states after each of n turns, and that there are such states: a     *)
(* loop that takes a state of S to a state of S in each turn is well       *)
(* defined as a recursive function of the number of turns.                 *)
Runs(g, n, S, s, turn) ==
  /\ g \in [0..n -> S] /\ g[0] = s
  /\ \A i \in 1..n : g[i] = turn[i][g[i - 1]]

LEMMA LoopExists ==
  ASSUME NEW n \in Nat, NEW S, NEW s \in S, NEW turn \in [1..n -> [S -> S]]
  PROVE  \E g : Runs(g, n, S, s, turn)
<1>. DEFINE Upto(k, g) == g[0] = s /\ \A i \in 1..k : g[i] = turn[i][g[i - 1]]
            T == {k \in 0..n : \E g \in [0..k -> S] : Upto(k, g)}
<1>1. 0 \in T
  <2>. DEFINE g == [i \in 0..0 |-> s]
  <2>1. g \in [0..0 -> S] /\ Upto(0, g)
    OBVIOUS
  <2>2. 0 \in 0..n
    OBVIOUS
  <2>. HIDE DEF g, Upto
  <2>. QED BY <2>1, <2>2
<1>2. ASSUME NEW k \in 1..n, k - 1 \in T PROVE k \in T
  <2>1. PICK g \in [0..(k - 1) -> S] : Upto(k - 1, g)
    BY <1>2
  <2>. DEFINE h == [i \in 0..k |-> IF i = k THEN turn[k][g[k - 1]] ELSE g[i]]
  <2>2. k - 1 \in 0..(k - 1) /\ g[k - 1] \in S
    OBVIOUS
  <2>3. turn[k][g[k - 1]] \in S
    BY <2>2
  <2>4. h \in [0..k -> S] /\ h[k] = turn[k][g[k - 1]] /\ \A i \in 0..(k - 1) : h[i] = g[i]
    BY <2>3
  <2>. HIDE DEF h
  <2>5. ASSUME NEW i \in 1..k PROVE h[i] = turn[i][h[i - 1]]
    <3>1. i - 1 \in 0..(k - 1) /\ h[i - 1] = g[i - 1]
      BY <2>4
    <3>2. CASE i = k
      BY <2>4, <3>1, <3>2
    <3>3. CASE i # k
      <4>1. i \in 1..(k - 1) /\ i \in 0..(k - 1)
        BY <3>3
      <4>. QED BY <2>1, <2>4, <3>1, <4>1
    <3>. QED BY <3>2, <3>3
  <2>6. Upto(k, h)
    BY <2>1, <2>4, <2>5
  <2>. QED BY <2>4, <2>6
<1>. HIDE DEF T
<1>3. 0..n \subseteq T
  BY <1>1, <1>2, TurnByTurn
<1>4. n \in T
  BY <1>3
<1>. QED BY <1>4 DEF T, Runs

-----------------------------------------------------------------------------
Mems == [bitmap : SUBSET Pages, free_pages : Int]

LEMMA PagesAreFinite ==
  ASSUME NEW P \in SUBSET Pages
  PROVE  IsFiniteSet(P) /\ Cardinality(P) \in Nat
<1>1. IsFiniteSet(Pages)
  BY FS_Interval, PmmAssumption DEF Pages
<1>. QED BY <1>1, FS_Subset, FS_CardinalityType

(* The run that is found is free, on the machine and above FirstPage.      *)
LEMMA FreeRunFound ==
  ASSUME NEW m, NEW count \in Nat \ {0}, FirstFreeRun(m, count) # NULL
  PROVE  /\ FirstFreeRun(m, count) \in FirstPage..(TotalPages - count)
         /\ RunAt(FirstFreeRun(m, count), count) \subseteq Pages
         /\ RunAt(FirstFreeRun(m, count), count) \cap m.bitmap = {}
<1>. DEFINE runs == {i \in FirstPage..(TotalPages - count) : IsFreeRun(m, i, count)}
            f == FirstFreeRun(m, count)
<1>0. FirstPage \in Nat /\ TotalPages \in Nat
  BY PmmAssumption
<1>1. runs # {} /\ f = CHOOSE i \in runs : \A j \in runs : i <= j
  BY DEF FirstFreeRun
<1>2. runs \in SUBSET Nat
  BY <1>0
<1>3. \E i \in runs : \A j \in runs : i <= j
  <2>. HIDE DEF runs
  <2>. QED BY <1>1, <1>2, LeastExists
<1>4. f \in runs
  <2>. HIDE DEF runs, f
  <2>. QED BY <1>1, <1>3
<1>. HIDE DEF f
<1>5. f \in FirstPage..(TotalPages - count) /\ IsFreeRun(m, f, count)
  BY <1>4
<1>6. RunAt(f, count) \subseteq Pages
  BY <1>0, <1>5 DEF RunAt, Pages
<1>. QED BY <1>5, <1>6 DEF IsFreeRun, f

(* pmm_alloc_pages_contiguous takes the run, and counts its pages.         *)
LEMMA PagesTaken ==
  ASSUME NEW m \in Mems, NEW count \in Nat \ {0}, FirstFreeRun(m, count) # NULL
  PROVE  LET f == FirstFreeRun(m, count)
             r == pmm_alloc_pages_contiguous(m, count)
         IN /\ r \in Mems /\ r.bitmap = m.bitmap \cup RunAt(f, count)
            /\ m.free_pages = Cardinality(Pages \ m.bitmap) =>
                 r.free_pages = Cardinality(Pages \ r.bitmap)
<1>. DEFINE f == FirstFreeRun(m, count)
            r == pmm_alloc_pages_contiguous(m, count)
            run == RunAt(f, count)
            rest == Pages \ m.bitmap
<1>1. f \in Int /\ run \subseteq Pages /\ run \cap m.bitmap = {}
  BY FreeRunFound, PmmAssumption
<1>2. r = [bitmap |-> m.bitmap \cup run, free_pages |-> m.free_pages - count]
  BY DEF pmm_alloc_pages_contiguous
<1>c. Cardinality(run) = count
  <2>. HIDE DEF f
  <2>1. f + count - 1 \in Int /\ ~(f > f + count - 1) /\ (f + count - 1) - f + 1 = count
    BY <1>1
  <2>2. Cardinality(f..(f + count - 1)) = (f + count - 1) - f + 1
    BY <1>1, <2>1, FS_Interval
  <2>. QED BY <2>1, <2>2 DEF RunAt
<1>. HIDE DEF f, r, run
<1>3. r \in Mems /\ r.bitmap = m.bitmap \cup run /\ r.free_pages = m.free_pages - count
  BY <1>1, <1>2 DEF Mems
<1>4. Cardinality(rest \ run) = Cardinality(rest) - Cardinality(rest \cap run)
  <2>1. IsFiniteSet(rest)
    BY PagesAreFinite
  <2>. HIDE DEF rest
  <2>. QED BY <2>1, FS_Difference
<1>5. rest \cap run = run /\ rest \ run = Pages \ r.bitmap
  BY <1>1, <1>3
<1>6. m.free_pages = Cardinality(rest) => r.free_pages = Cardinality(Pages \ r.bitmap)
  BY <1>3, <1>4, <1>5, <1>c
<1>. QED BY <1>3, <1>6 DEF f, r, run

(* pmm_free_pages gives back what it is told to, of the pages there are.   *)
LEMMA PagesFreed ==
  ASSUME NEW m \in Mems, NEW freed
  PROVE  LET r == pmm_free_pages(m, freed)
         IN /\ r \in Mems /\ r.bitmap = m.bitmap \ freed
            /\ m.free_pages = Cardinality(Pages \ m.bitmap) =>
                 r.free_pages = Cardinality(Pages \ r.bitmap)
<1>. DEFINE done == freed \cap Pages \cap m.bitmap
            rest == Pages \ m.bitmap
            r == pmm_free_pages(m, freed)
<1>0. m.bitmap \in SUBSET Pages /\ m.free_pages \in Int
  BY DEF Mems
<1>1. /\ IsFiniteSet(done) /\ Cardinality(done) \in Nat
      /\ IsFiniteSet(rest) /\ Cardinality(rest) \in Nat
  BY PagesAreFinite
<1>2. m.bitmap \ done = m.bitmap \ freed
  BY <1>0
<1>3. r = [bitmap |-> m.bitmap \ done, free_pages |-> m.free_pages + Cardinality(done)]
  BY DEF pmm_free_pages
<1>4. rest \cap done = {} /\ rest \cup done = Pages \ (m.bitmap \ done)
  BY <1>0
<1>. HIDE DEF done, r, rest
<1>5. /\ r \in Mems /\ r.bitmap = m.bitmap \ freed
      /\ r.free_pages = m.free_pages + Cardinality(done)
  BY <1>0, <1>1, <1>2, <1>3 DEF Mems
<1>6. Cardinality(rest \cup done) = Cardinality(rest) + Cardinality(done)
  BY <1>1, <1>4, FS_Union, FS_EmptySet
<1>7. rest \cup done = Pages \ r.bitmap
  BY <1>2, <1>4, <1>5
<1>. QED BY <1>1, <1>5, <1>6, <1>7 DEF rest, r

LEMMA PmmInitTyped ==
  /\ pmm_init \in Mems
  /\ pmm_init.free_pages = Cardinality(Pages \ pmm_init.bitmap)
<1>1. Usable \in SUBSET Pages /\ BitmapPages \in SUBSET Pages /\ BitmapPages \subseteq Usable
  BY PmmAssumption
<1>2. /\ IsFiniteSet(Usable) /\ Cardinality(Usable) \in Nat
      /\ Cardinality(BitmapPages) \in Nat
  BY <1>1, PagesAreFinite
<1>3. Cardinality(Usable \ BitmapPages) = Cardinality(Usable) - Cardinality(BitmapPages)
  <2>1. Usable \cap BitmapPages = BitmapPages
    BY <1>1
  <2>. QED BY <1>2, <2>1, FS_Difference
<1>4. Pages \ ((Pages \ Usable) \cup BitmapPages) = Usable \ BitmapPages
  BY <1>1
<1>. QED BY <1>1, <1>2, <1>3, <1>4 DEF pmm_init, Mems
=============================================================================
