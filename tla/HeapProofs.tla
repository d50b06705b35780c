----------------------------- MODULE HeapProofs -----------------------------
(***************************************************************************)
(* Proofs about the kernel heap, for every number of pages, every memory   *)
(* map, every size of page, header and group table, and any requests.      *)
(*                                                                         *)
(* The block list is looked at through the units its blocks span: what a   *)
(* call does is to replace the blocks lo..hi of the list by others that    *)
(* span the same units (Relink).                                           *)
(***************************************************************************)
EXTENDS Heap, PmmProofs, SequenceTheorems

Blocks == [addr : Nat, size : Nat, used : BOOLEAN]
Groups == [page : Nat, npages : Nat \ {0}]

BlocksOf(l)  == {l[k] : k \in 1..Len(l)}
UsedOf(l)    == {b \in BlocksOf(l) : b.used}
UnitsIn(l)   == UNION {UnitsOf(b) : b \in BlocksOf(l)}
PayloadIn(l) == UNION {Payload(b) : b \in UsedOf(l)}

Apart(l) == \A i, j \in 1..Len(l) : i # j => UnitsOf(l[i]) \cap UnitsOf(l[j]) = {}

(* The pages of the heap: in use, and not of a stack. *)
Stacked(S)   == UNION {RunAt(p, StackPages) : p \in S}
HeapOf(m, S) == m.bitmap \ (pmm_init.bitmap \cup Stacked(S))

MemInv(m, S) ==
  /\ m \in Mems /\ m.free_pages = Cardinality(Pages \ m.bitmap)
  /\ pmm_init.bitmap \subseteq m.bitmap
  /\ S \subseteq Nat
  /\ \A p \in S : RunAt(p, StackPages) \subseteq m.bitmap \ pmm_init.bitmap
  /\ \A p, q \in S : p # q => RunAt(p, StackPages) \cap RunAt(q, StackPages) = {}

(* The groups are pages of the heap, each in one group. *)
InUse(g)      == {i \in 1..MaxGroups : g[i] # NoGroup}
GroupRun(g)   == RunAt(g.page, g.npages)
GroupInv(g, P) ==
  /\ g \in [1..MaxGroups -> Groups \cup {NoGroup}]
  /\ \A i \in InUse(g) : GroupRun(g[i]) \subseteq P
  /\ \A i, j \in InUse(g) : i # j => GroupRun(g[i]) \cap GroupRun(g[j]) = {}

Heaps == [list : Seq(Blocks), groups : [1..MaxGroups -> Groups \cup {NoGroup}],
          g_pages : Int, g_used_bytes : Int, g_used_blocks : Int, pmm : Mems]

UsedInv(l, bytes, blocks) ==
  /\ IsFiniteSet(UsedOf(l)) /\ blocks = Cardinality(UsedOf(l))
  /\ IsFiniteSet(PayloadIn(l)) /\ bytes = Cardinality(PayloadIn(l))

(* What every call keeps of the heap h beside the stacks S. *)
Sound(h, S) ==
  /\ h \in Heaps
  /\ Apart(h.list)
  /\ MemInv(h.pmm, S)
  /\ UnitsIn(h.list) = PagesUnits(HeapOf(h.pmm, S))
  /\ GroupInv(h.groups, HeapOf(h.pmm, S))
  /\ h.g_pages = Cardinality(HeapOf(h.pmm, S))
  /\ UsedInv(h.list, h.g_used_bytes, h.g_used_blocks)

PointerInv(l, P) ==
  /\ {b.addr : b \in UsedOf(l)} = DOMAIN P
  /\ \A b \in UsedOf(l) : b.size >= P[b.addr]

StartOf(g)  == g.page * PageUnits
StopOf(g)   == (g.page + g.npages) * PageUnits

-----------------------------------------------------------------------------
(* Pages and units. *)
LEMMA Positive == PageUnits \in Nat \ {0} /\ Header \in Nat \ {0} /\ StackPages \in Nat \ {0}
BY HeapAssumption

LEMMA Multiples ==
  ASSUME NEW m \in Int, NEW n \in Int
  PROVE  /\ m * PageUnits \in Int
         /\ m <= n => m * PageUnits <= n * PageUnits
         /\ m < n => m * PageUnits + PageUnits <= n * PageUnits
<1>. DEFINE U == PageUnits
<1>0. U \in Nat \ {0}
  BY Positive
<1>. HIDE DEF U
<1>1. (n - m) * U = n * U - m * U /\ m * U \in Int /\ n * U \in Int
  BY <1>0
<1>2. n - m >= 0 => (n - m) * U >= 0
  BY <1>0
<1>3. n - m - 1 >= 0 => (n - m - 1) * U >= 0
  BY <1>0
<1>4. (n - m - 1) * U = (n - m) * U - U
  BY <1>0
<1>. QED BY <1>0, <1>1, <1>2, <1>3, <1>4 DEF U

LEMMA PageOfUnit ==
  ASSUME NEW u \in Int
  PROVE  /\ u \div PageUnits \in Int
         /\ (u \div PageUnits) * PageUnits <= u
         /\ u < (u \div PageUnits) * PageUnits + PageUnits
BY Positive

LEMMA UnitOfPage ==
  ASSUME NEW u \in Int, NEW p \in Int
  PROVE  u \in (p * PageUnits)..((p + 1) * PageUnits - 1) <=> u \div PageUnits = p
<1>. DEFINE q == u \div PageUnits
            qU == q * PageUnits
            pU == p * PageUnits
            e == (p + 1) * PageUnits
<1>1. q \in Int /\ qU \in Int /\ pU \in Int /\ PageUnits \in Nat \ {0}
  BY PageOfUnit, Multiples, Positive
<1>2. qU <= u /\ u < qU + PageUnits
  BY PageOfUnit
<1>3. e = pU + PageUnits
  BY <1>1
<1>4. (p < q => pU + PageUnits <= qU) /\ (q < p => qU + PageUnits <= pU)
  BY <1>1, Multiples
<1>5. q = p => qU = pU
  OBVIOUS
<1>. HIDE DEF q, qU, pU, e
<1>6. u \in pU..(pU + PageUnits - 1) <=> q = p
  BY <1>1, <1>2, <1>4, <1>5
<1>7. u \in pU..(e - 1) <=> q = p
  BY <1>1, <1>3, <1>6
<1>. QED BY <1>7 DEF q, pU, e

(* A unit is in the units of a set of pages when its page is in the set. *)
LEMMA UnitsOfPages ==
  ASSUME NEW P \in SUBSET Int, NEW u
  PROVE  u \in PagesUnits(P) <=> u \in Int /\ u \div PageUnits \in P
<1>1. ASSUME NEW p \in P, u \in (p * PageUnits)..((p + 1) * PageUnits - 1)
      PROVE  u \in Int /\ u \div PageUnits \in P
  <2>1. u \in Int
    BY <1>1
  <2>. QED BY <1>1, <2>1, UnitOfPage
<1>2. ASSUME u \in Int, u \div PageUnits \in P
      PROVE  \E p \in P : u \in (p * PageUnits)..((p + 1) * PageUnits - 1)
  BY <1>2, UnitOfPage
<1>. QED BY <1>1, <1>2 DEF PagesUnits

(* The units of a run of pages are an interval. *)
LEMMA UnitsOfRun ==
  ASSUME NEW p \in Nat, NEW n \in Nat \ {0}
  PROVE  /\ PagesUnits(RunAt(p, n)) = (p * PageUnits)..((p + n) * PageUnits - 1)
         /\ p * PageUnits \in Nat /\ (p + n) * PageUnits = p * PageUnits + n * PageUnits
         /\ n * PageUnits \in Nat \ {0} /\ n * PageUnits >= PageUnits
<1>0. PageUnits \in Nat \ {0}
  BY Positive
<1>1. /\ p * PageUnits \in Nat /\ (p + n) * PageUnits = p * PageUnits + n * PageUnits
      /\ n * PageUnits \in Int
  BY <1>0
<1>2. n * PageUnits >= PageUnits
  <2>1. 0 * PageUnits = 0
    BY <1>0
  <2>2. 0 * PageUnits + PageUnits <= n * PageUnits
    BY Multiples
  <2>. QED BY <2>1, <2>2, <1>0
<1>3. ASSUME NEW u \in Int
      PROVE  u \div PageUnits \in p..(p + n - 1)
               <=> u \in (p * PageUnits)..((p + n) * PageUnits - 1)
  <2>. DEFINE q == u \div PageUnits
              qU == q * PageUnits
              a == p * PageUnits
              b == (p + n) * PageUnits
  <2>1. q \in Int /\ qU \in Int /\ a \in Int /\ b \in Int /\ p + n \in Int
    BY PageOfUnit, Multiples
  <2>2. qU <= u /\ u < qU + PageUnits
    BY PageOfUnit
  <2>3. /\ p <= q => a <= qU
        /\ q < p => qU + PageUnits <= a
        /\ q < p + n => qU + PageUnits <= b
        /\ p + n <= q => b <= qU
    BY <2>1, Multiples
  <2>. HIDE DEF q, qU, a, b
  <2>4. q \in p..(p + n - 1) <=> u \in a..(b - 1)
    BY <1>0, <2>1, <2>2, <2>3
  <2>. QED BY <2>4 DEF q, a, b
<1>4. RunAt(p, n) \in SUBSET Int
  BY DEF RunAt
<1>. DEFINE I == (p * PageUnits)..((p + n) * PageUnits - 1)
<1>5. I \subseteq Int
  OBVIOUS
<1>6. \A u : u \in PagesUnits(RunAt(p, n)) <=> u \in Int /\ u \div PageUnits \in p..(p + n - 1)
  BY <1>4, UnitsOfPages DEF RunAt
<1>. HIDE DEF I
<1>7. PagesUnits(RunAt(p, n)) = I
  BY <1>3, <1>5, <1>6 DEF I
<1>. QED BY <1>0, <1>1, <1>2, <1>7 DEF I

LEMMA PagesUnitsOps ==
  ASSUME NEW P \in SUBSET Int, NEW Q \in SUBSET Int
  PROVE  /\ PagesUnits(P \cup Q) = PagesUnits(P) \cup PagesUnits(Q)
         /\ PagesUnits(P \ Q) = PagesUnits(P) \ PagesUnits(Q)
         /\ P \cap Q = {} => PagesUnits(P) \cap PagesUnits(Q) = {}
         /\ P \subseteq Q => PagesUnits(P) \subseteq PagesUnits(Q)
<1>1. P \cup Q \in SUBSET Int /\ P \ Q \in SUBSET Int
  OBVIOUS
<1>2. \A u : /\ u \in PagesUnits(P) <=> u \in Int /\ u \div PageUnits \in P
             /\ u \in PagesUnits(Q) <=> u \in Int /\ u \div PageUnits \in Q
             /\ u \in PagesUnits(P \cup Q) <=> u \in Int /\ u \div PageUnits \in P \cup Q
             /\ u \in PagesUnits(P \ Q) <=> u \in Int /\ u \div PageUnits \in P \ Q
  BY <1>1, UnitsOfPages
<1>. QED BY <1>2

(* The units of pages of the machine are finitely many. *)
LEMMA UnitsAreFinite ==
  ASSUME NEW P \in SUBSET Pages, NEW T \in SUBSET PagesUnits(P)
  PROVE  IsFiniteSet(T) /\ Cardinality(T) \in Nat
<1>0. TotalPages \in Nat
  BY PmmAssumption
<1>1. CASE TotalPages = 0
  <2>1. P = {}
    BY <1>1 DEF Pages
  <2>2. T = {}
    BY <2>1 DEF PagesUnits
  <2>. QED BY <2>2, FS_EmptySet
<1>2. CASE TotalPages # 0
  <2>1. Pages = RunAt(0, TotalPages) /\ Pages \in SUBSET Int /\ P \in SUBSET Int
    BY <1>0 DEF Pages, RunAt
  <2>2. PagesUnits(P) \subseteq PagesUnits(Pages)
    BY <2>1, PagesUnitsOps
  <2>3. IsFiniteSet(PagesUnits(Pages))
    <3>1. TotalPages \in Nat \ {0}
      BY <1>0, <1>2
    <3>. DEFINE a == 0 * PageUnits
                b == (0 + TotalPages) * PageUnits - 1
    <3>2. a \in Int /\ b \in Int
      BY <3>1, Positive
    <3>3. PagesUnits(RunAt(0, TotalPages)) = a..b
      BY <3>1, UnitsOfRun
    <3>. HIDE DEF a, b
    <3>. QED BY <2>1, <3>2, <3>3, FS_Interval
  <2>. QED BY <2>2, <2>3, FS_Subset, FS_CardinalityType
<1>. QED BY <1>1, <1>2

-----------------------------------------------------------------------------
(* Blocks. *)
LEMMA BlockFields ==
  ASSUME NEW a \in Nat, NEW s \in Nat, NEW u \in BOOLEAN
  PROVE  /\ Block(a, s, u) \in Blocks /\ Block(a, s, u).addr = a
         /\ Block(a, s, u).size = s /\ Block(a, s, u).used = u
BY DEF Block, Blocks

LEMMA BlockUnits ==
  ASSUME NEW b \in Blocks
  PROVE  /\ b.addr \in Nat /\ b.size \in Nat /\ b.used \in BOOLEAN
         /\ EndOf(b) \in Nat /\ EndOf(b) = b.addr + Header + b.size
         /\ b.addr \in UnitsOf(b) /\ EndOf(b) - 1 \in UnitsOf(b)
         /\ b.addr < EndOf(b)
         /\ UnitsOf(b) \subseteq Nat
         /\ Payload(b) \subseteq UnitsOf(b)
         /\ IsFiniteSet(Payload(b)) /\ Cardinality(Payload(b)) = b.size
<1>1. b.addr \in Nat /\ b.size \in Nat /\ b.used \in BOOLEAN
  BY DEF Blocks
<1>2. Header \in Nat \ {0}
  BY Positive
<1>. DEFINE a == b.addr
            n == b.size
<1>. HIDE DEF a, n
<1>4. a \in Nat /\ n \in Nat
  BY <1>1 DEF a, n
<1>7. b.addr = a /\ b.size = n
  BY DEF a, n
<1>3. EndOf(b) = a + Header + n /\ UnitsOf(b) = a..(a + Header + n - 1)
      /\ Payload(b) = (a + Header)..(a + Header + n - 1)
  BY <1>1, <1>2, <1>4, <1>7 DEF EndOf, UnitsOf, Payload
<1>5. /\ IsFiniteSet((a + Header)..(a + Header + n - 1))
      /\ Cardinality((a + Header)..(a + Header + n - 1)) = n
  <2>1. a + Header \in Int /\ a + Header + n - 1 \in Int
    BY <1>2, <1>4
  <2>. DEFINE x == a + Header
              y == a + Header + n - 1
  <2>2. (IF x > y THEN 0 ELSE y - x + 1) = n
    BY <1>2, <1>4
  <2>. HIDE DEF x, y
  <2>3. IsFiniteSet(x..y) /\ Cardinality(x..y) = (IF x > y THEN 0 ELSE y - x + 1)
    BY <2>1, FS_Interval DEF x, y
  <2>. QED BY <2>2, <2>3 DEF x, y
<1>6. /\ a + Header + n \in Nat
      /\ a \in a..(a + Header + n - 1) /\ a + Header + n - 1 \in a..(a + Header + n - 1)
      /\ a < a + Header + n /\ a..(a + Header + n - 1) \subseteq Nat
      /\ (a + Header)..(a + Header + n - 1) \subseteq a..(a + Header + n - 1)
  BY <1>2, <1>4
<1>8. EndOf(b) = b.addr + Header + b.size
  BY <1>1, <1>2 DEF EndOf
<1>9. IsFiniteSet(Payload(b)) /\ Cardinality(Payload(b)) = b.size
  BY <1>3, <1>5, <1>7
<1>10. /\ EndOf(b) \in Nat /\ b.addr \in UnitsOf(b) /\ EndOf(b) - 1 \in UnitsOf(b)
       /\ b.addr < EndOf(b) /\ UnitsOf(b) \subseteq Nat /\ Payload(b) \subseteq UnitsOf(b)
  BY <1>2, <1>4, <1>3, <1>6, <1>7
<1>. QED BY <1>1, <1>8, <1>9, <1>10

(* A list whose blocks lie apart has each block once. *)
LEMMA ApartDiffer ==
  ASSUME NEW l \in Seq(Blocks), Apart(l), NEW i \in 1..Len(l), NEW j \in 1..Len(l),
         l[i] = l[j]
  PROVE  i = j
<1>1. l[i] \in Blocks
  BY ElementOfSeq
<1>2. l[i].addr \in UnitsOf(l[i])
  BY <1>1, BlockUnits
<1>. QED BY <1>2 DEF Apart

-----------------------------------------------------------------------------
(* Relink. *)
SpanOf(l, lo, hi) == UNION {UnitsOf(l[k]) : k \in lo..hi}

LEMMA Relinked ==
  ASSUME NEW l \in Seq(Blocks), NEW lo \in 1..Len(l), NEW hi \in lo..Len(l), NEW mid \in Seq(Blocks)
  PROVE  LET r == Relink(l, lo, hi, mid)
             d == lo - 1 + Len(mid) - hi
         IN /\ r \in Seq(Blocks)
            /\ Len(r) = Len(l) + d
            /\ \A i \in 1..(lo - 1) : r[i] = l[i]
            /\ \A i \in 1..Len(mid) : r[lo - 1 + i] = mid[i]
            /\ \A i \in (hi + 1)..Len(l) : r[i + d] = l[i]
<1>. DEFINE s1 == SubSeq(l, 1, lo - 1)
            s2 == SubSeq(l, hi + 1, Len(l))
            t == s1 \o mid
            r == t \o s2
            N == Len(l)
            M == Len(mid)
<1>0. N \in Nat /\ M \in Nat /\ lo \in Nat /\ hi \in Nat /\ lo >= 1 /\ lo <= hi /\ hi <= N
  BY LenProperties
<1>1. /\ s1 \in Seq(Blocks) /\ Len(s1) = lo - 1
      /\ \A i \in 1..(lo - 1) : s1[i] = l[i]
  <2>1. \A i \in 1..(lo - 1) : l[i] \in Blocks
    BY <1>0, ElementOfSeq
  <2>2. /\ s1 \in Seq(Blocks) /\ Len(s1) = IF 1 <= lo - 1 THEN lo - 1 - 1 + 1 ELSE 0
        /\ \A i \in 1..(lo - 1 - 1 + 1) : s1[i] = l[1 + i - 1]
    BY <1>0, <2>1, SubSeqProperties
  <2>. HIDE DEF s1
  <2>. QED BY <1>0, <2>2
<1>2. /\ s2 \in Seq(Blocks) /\ Len(s2) = N - hi
      /\ \A i \in 1..(N - hi) : s2[i] = l[hi + i]
  <2>1. \A i \in (hi + 1)..N : l[i] \in Blocks
    BY <1>0, ElementOfSeq
  <2>2. /\ s2 \in Seq(Blocks) /\ Len(s2) = IF hi + 1 <= N THEN N - (hi + 1) + 1 ELSE 0
        /\ \A i \in 1..(N - (hi + 1) + 1) : s2[i] = l[hi + 1 + i - 1]
    BY <1>0, <2>1, SubSeqProperties
  <2>. HIDE DEF s2, N
  <2>3. ASSUME NEW i \in 1..(N - hi) PROVE hi + 1 + i - 1 = hi + i /\ i \in 1..(N - (hi + 1) + 1)
    BY <1>0
  <2>. QED BY <1>0, <2>2, <2>3
<1>. HIDE DEF s1, s2
<1>3. /\ t \in Seq(Blocks) /\ Len(t) = Len(s1) + M
      /\ \A i \in 1..(Len(s1) + M) : t[i] = IF i <= Len(s1) THEN s1[i] ELSE mid[i - Len(s1)]
  BY <1>1, ConcatProperties
<1>. HIDE DEF t
<1>t. t \in Seq(Blocks) /\ s2 \in Seq(Blocks)
  BY <1>2, <1>3
<1>4. /\ r \in Seq(Blocks) /\ Len(r) = Len(t) + Len(s2)
      /\ \A i \in 1..(Len(t) + Len(s2)) : r[i] = IF i <= Len(t) THEN t[i] ELSE s2[i - Len(t)]
  BY <1>t, ConcatProperties
<1>5. r = Relink(l, lo, hi, mid)
  BY DEF Relink, t, s1, s2
<1>. HIDE DEF r, N, M
<1>. DEFINE d == lo - 1 + M - hi
<1>6. Len(r) = N + d
  BY <1>0, <1>1, <1>2, <1>3, <1>4
<1>7. ASSUME NEW i \in 1..(lo - 1) PROVE r[i] = l[i]
  <2>1. i \in 1..(Len(s1) + M) /\ i <= Len(s1) /\ i \in 1..(Len(t) + Len(s2)) /\ i <= Len(t)
    BY <1>0, <1>1, <1>2, <1>3
  <2>. QED BY <1>1, <1>3, <1>4, <2>1
<1>8. ASSUME NEW i \in 1..M PROVE r[lo - 1 + i] = mid[i]
  <2>. DEFINE x == lo - 1 + i
  <2>1. /\ x \in 1..(Len(s1) + M) /\ ~(x <= Len(s1)) /\ x \in 1..(Len(t) + Len(s2)) /\ x <= Len(t)
        /\ x - Len(s1) = i
    BY <1>0, <1>1, <1>2, <1>3
  <2>. HIDE DEF x
  <2>2. r[x] = t[x] /\ t[x] = mid[x - Len(s1)]
    BY <1>3, <1>4, <2>1
  <2>. QED BY <2>1, <2>2 DEF x
<1>9. ASSUME NEW i \in (hi + 1)..N PROVE r[i + d] = l[i]
  <2>. DEFINE x == i + d
              y == i - hi
  <2>1. /\ x \in 1..(Len(t) + Len(s2)) /\ ~(x <= Len(t)) /\ x - Len(t) = y
        /\ y \in 1..(N - hi) /\ hi + y = i
    BY <1>0, <1>1, <1>2, <1>3
  <2>. HIDE DEF x, y
  <2>2. r[x] = s2[x - Len(t)] /\ s2[y] = l[hi + y]
    BY <1>2, <1>4, <2>1
  <2>. QED BY <2>1, <2>2 DEF x
<1>10. r \in Seq(Blocks)
  BY <1>4
<1>. HIDE DEF d
<1>. QED BY <1>5, <1>6, <1>7, <1>8, <1>9, <1>10 DEF d, N, M

(* Where the blocks of a relinked list come from. *)
Kept(l, lo, hi) == {l[k] : k \in (1..Len(l)) \ (lo..hi)}

LEMMA RelinkKeeps ==
  ASSUME NEW l \in Seq(Blocks), Apart(l), NEW lo \in 1..Len(l), NEW hi \in lo..Len(l),
         NEW mid \in Seq(Blocks), Apart(mid), UnitsIn(mid) \subseteq SpanOf(l, lo, hi)
  PROVE  LET r == Relink(l, lo, hi, mid)
         IN /\ Apart(r)
            /\ BlocksOf(r) = Kept(l, lo, hi) \cup BlocksOf(mid)
            /\ UnitsIn(r) = (UnitsIn(l) \ SpanOf(l, lo, hi)) \cup UnitsIn(mid)
<1>. DEFINE r == Relink(l, lo, hi, mid)
            N == Len(l)
            M == Len(mid)
            d == lo - 1 + M - hi
<1>0. N \in Nat /\ M \in Nat /\ lo \in Nat /\ hi \in Nat /\ lo >= 1 /\ lo <= hi /\ hi <= N /\ d \in Int
  BY LenProperties
<1>1. /\ r \in Seq(Blocks) /\ Len(r) = N + d
      /\ \A i \in 1..(lo - 1) : r[i] = l[i]
      /\ \A i \in 1..M : r[lo - 1 + i] = mid[i]
      /\ \A i \in (hi + 1)..N : r[i + d] = l[i]
  BY Relinked
<1>. DEFINE X(i) == IF i < lo THEN i ELSE i - d
            Old(i) == X(i) \in (1..N) \ (lo..hi) /\ (i < lo \/ X(i) > hi) /\ r[i] = l[X(i)]
            New(i) == i - lo + 1 \in 1..M /\ r[i] = mid[i - lo + 1]
<1>. HIDE DEF r
<1>2. ASSUME NEW i \in 1..Len(r) PROVE Old(i) \/ New(i)
  <2>1. CASE i < lo
    <3>1. i \in 1..(lo - 1) /\ i \in (1..N) \ (lo..hi)
      BY <1>0, <2>1
    <3>. QED BY <1>1, <2>1, <3>1
  <2>2. CASE i >= lo /\ i <= lo - 1 + M
    <3>1. i - lo + 1 \in 1..M /\ lo - 1 + (i - lo + 1) = i
      BY <1>0, <2>2
    <3>2. r[lo - 1 + (i - lo + 1)] = mid[i - lo + 1]
      BY <1>1, <3>1
    <3>. QED BY <3>1, <3>2
  <2>3. CASE i > lo - 1 + M
    <3>. DEFINE x == i - d
    <3>0. i \in Int /\ i <= N + d
      BY <1>0, <1>1
    <3>1. ~(i < lo) /\ x \in (hi + 1)..N /\ x \in (1..N) \ (lo..hi) /\ x > hi /\ x + d = i
      <4>. HIDE DEF N, M
      <4>. QED BY <1>0, <2>3, <3>0
    <3>2. r[x + d] = l[x]
      <4>. HIDE DEF x
      <4>. QED BY <1>1, <3>1
    <3>. QED BY <3>1, <3>2
  <2>. QED BY <1>0, <2>1, <2>2, <2>3
<1>3. ASSUME NEW x \in (1..N) \ (lo..hi) PROVE \E i \in 1..Len(r) : r[i] = l[x]
  <2>1. CASE x < lo
    <3>1. x \in 1..(lo - 1) /\ x \in 1..Len(r)
      BY <1>0, <1>1, <2>1
    <3>. QED BY <1>1, <3>1
  <2>2. CASE x > hi
    <3>1. x \in (hi + 1)..N /\ x + d \in 1..Len(r)
      BY <1>0, <1>1, <2>2
    <3>. QED BY <1>1, <3>1
  <2>. QED BY <1>0, <2>1, <2>2
<1>4. ASSUME NEW y \in 1..M PROVE \E i \in 1..Len(r) : r[i] = mid[y]
  <2>1. lo - 1 + y \in 1..Len(r)
    BY <1>0, <1>1
  <2>. QED BY <1>1, <2>1
<1>5. BlocksOf(r) = Kept(l, lo, hi) \cup BlocksOf(mid)
  <2>. HIDE DEF d
  <2>1. ASSUME NEW b \in BlocksOf(r) PROVE b \in Kept(l, lo, hi) \cup BlocksOf(mid)
    <3>1. PICK i \in 1..Len(r) : b = r[i]
      BY DEF BlocksOf
    <3>2. CASE Old(i)
      BY <3>1, <3>2 DEF Kept
    <3>3. CASE New(i)
      <4>. DEFINE y == i - lo + 1
      <4>1. y \in 1..M /\ r[i] = mid[y]
        BY <3>3
      <4>. HIDE DEF y
      <4>. QED BY <3>1, <4>1 DEF BlocksOf
    <3>. QED BY <1>2, <3>2, <3>3
  <2>2. ASSUME NEW b \in Kept(l, lo, hi) PROVE b \in BlocksOf(r)
    BY <1>3 DEF Kept, BlocksOf
  <2>3. ASSUME NEW b \in BlocksOf(mid) PROVE b \in BlocksOf(r)
    BY <1>4 DEF BlocksOf
  <2>. QED BY <2>1, <2>2, <2>3
<1>6. ASSUME NEW x \in (1..N) \ (lo..hi) PROVE UnitsOf(l[x]) \cap SpanOf(l, lo, hi) = {}
  <2>1. ASSUME NEW k \in lo..hi PROVE UnitsOf(l[x]) \cap UnitsOf(l[k]) = {}
    <3>1. k \in 1..N /\ x # k
      BY <1>0
    <3>. QED BY <3>1 DEF Apart
  <2>. QED BY <2>1 DEF SpanOf
<1>7. Apart(r)
  <2>. SUFFICES ASSUME NEW i \in 1..Len(r), NEW j \in 1..Len(r), i # j
                PROVE  UnitsOf(r[i]) \cap UnitsOf(r[j]) = {}
    BY DEF Apart
  <2>m. \A y \in 1..M : UnitsOf(mid[y]) \subseteq SpanOf(l, lo, hi)
    BY DEF UnitsIn, BlocksOf
  <2>1. CASE Old(i) /\ Old(j)
    <3>1. X(i) # X(j)
      <4>1. /\ i \in Int /\ j \in Int /\ i # j
            /\ i < lo \/ X(i) > hi
            /\ j < lo \/ X(j) > hi
        BY <1>0, <1>1, <2>1
      <4>. HIDE DEF d
      <4>. QED BY <1>0, <4>1
    <3>. DEFINE x == X(i)
                y == X(j)
    <3>2. x \in 1..N /\ y \in 1..N /\ x # y /\ r[i] = l[x] /\ r[j] = l[y]
      BY <2>1, <3>1
    <3>. HIDE DEF x, y
    <3>. QED BY <3>2 DEF Apart
  <2>2. CASE Old(i) /\ New(j)
    <3>. DEFINE x == X(i)
                y == j - lo + 1
    <3>1. x \in (1..N) \ (lo..hi) /\ r[i] = l[x] /\ y \in 1..M /\ r[j] = mid[y]
      BY <2>2
    <3>. HIDE DEF x, y
    <3>. QED BY <1>6, <2>m, <3>1
  <2>3. CASE New(i) /\ Old(j)
    <3>. DEFINE x == X(j)
                y == i - lo + 1
    <3>1. x \in (1..N) \ (lo..hi) /\ r[j] = l[x] /\ y \in 1..M /\ r[i] = mid[y]
      BY <2>3
    <3>. HIDE DEF x, y
    <3>. QED BY <1>6, <2>m, <3>1
  <2>4. CASE New(i) /\ New(j)
    <3>. DEFINE x == i - lo + 1
                y == j - lo + 1
    <3>1. x \in 1..M /\ y \in 1..M /\ x # y /\ r[i] = mid[x] /\ r[j] = mid[y]
      BY <1>0, <2>4
    <3>. HIDE DEF x, y
    <3>. QED BY <3>1 DEF Apart
  <2>. HIDE DEF Old, New
  <2>. QED BY <1>2, <2>1, <2>2, <2>3, <2>4
<1>8. UnitsIn(r) = (UnitsIn(l) \ SpanOf(l, lo, hi)) \cup UnitsIn(mid)
  <2>1. \A u : (\E b \in Kept(l, lo, hi) : u \in UnitsOf(b)) <=> u \in UnitsIn(l) \ SpanOf(l, lo, hi)
    <3>1. ASSUME NEW u, NEW b \in Kept(l, lo, hi), u \in UnitsOf(b)
          PROVE  u \in UnitsIn(l) \ SpanOf(l, lo, hi)
      <4>1. PICK k \in (1..N) \ (lo..hi) : b = l[k]
        BY DEF Kept
      <4>2. b \in BlocksOf(l)
        BY <4>1 DEF BlocksOf
      <4>. QED BY <1>6, <3>1, <4>1, <4>2 DEF UnitsIn
    <3>2. ASSUME NEW u \in UnitsIn(l) \ SpanOf(l, lo, hi)
          PROVE  \E b \in Kept(l, lo, hi) : u \in UnitsOf(b)
      <4>1. PICK k \in 1..N : u \in UnitsOf(l[k])
        BY DEF UnitsIn, BlocksOf
      <4>2. k \notin lo..hi
        BY <3>2, <4>1 DEF SpanOf
      <4>. QED BY <4>1, <4>2 DEF Kept
    <3>. QED BY <3>1, <3>2
  <2>2. \A u : /\ u \in UnitsIn(r) <=> \E b \in BlocksOf(r) : u \in UnitsOf(b)
               /\ u \in UnitsIn(mid) <=> \E b \in BlocksOf(mid) : u \in UnitsOf(b)
    BY DEF UnitsIn
  <2>. QED BY <1>5, <2>1, <2>2
<1>. QED BY <1>5, <1>7, <1>8 DEF r

-----------------------------------------------------------------------------
(* heap_coalesce. *)
Chained(l, lo, hi) == \A k \in lo..(hi - 1) : EndOf(l[k]) = l[k + 1].addr

(* Blocks that follow each other in memory span an interval. *)
LEMMA ChainIsInterval ==
  ASSUME NEW l \in Seq(Blocks), NEW lo \in 1..Len(l), NEW hi \in lo..Len(l), Chained(l, lo, hi)
  PROVE  /\ SpanOf(l, lo, hi) = l[lo].addr..(EndOf(l[hi]) - 1)
         /\ \A k \in lo..hi : l[lo].addr <= l[k].addr /\ EndOf(l[k]) <= EndOf(l[hi])
<1>. DEFINE n == hi - lo
            A == l[lo].addr
            E(i) == EndOf(l[lo + i])
            Good(i) == /\ SpanOf(l, lo, lo + i) = A..(E(i) - 1)
                       /\ A < E(i)
                       /\ \A k \in lo..(lo + i) : A <= l[k].addr /\ EndOf(l[k]) <= E(i)
            T == {i \in 0..n : Good(i)}
<1>0. lo \in Nat /\ hi \in Nat /\ lo >= 1 /\ lo <= hi /\ Len(l) \in Nat /\ n \in Nat
  BY LenProperties
<1>b. \A k \in lo..hi : l[k] \in Blocks
  BY <1>0, ElementOfSeq
<1>1. 0 \in T
  <2>1. lo + 0 = lo /\ lo..(lo + 0) = {lo} /\ l[lo] \in Blocks
    BY <1>0, <1>b
  <2>2. SpanOf(l, lo, lo + 0) = UnitsOf(l[lo])
    BY <2>1 DEF SpanOf
  <2>3. UnitsOf(l[lo]) = A..(EndOf(l[lo]) - 1) /\ A < EndOf(l[lo]) /\ EndOf(l[lo]) \in Nat /\ A \in Nat
    BY <2>1, BlockUnits DEF UnitsOf
  <2>4. Good(0)
    BY <2>1, <2>2, <2>3
  <2>. QED BY <1>0, <2>4
<1>2. ASSUME NEW i \in 1..n, i - 1 \in T PROVE i \in T
  <2>. DEFINE x == lo + i
              e == E(i - 1)
  <2>1. x \in lo..hi /\ x - 1 \in lo..(hi - 1) /\ lo + (i - 1) = x - 1 /\ x - 1 + 1 = x /\ x - 1 \in lo..hi
    BY <1>0
  <2>2. /\ l[x] \in Blocks /\ l[x - 1] \in Blocks /\ l[lo] \in Blocks
    BY <1>0, <1>b, <2>1
  <2>3. /\ SpanOf(l, lo, x - 1) = A..(e - 1) /\ A < e
        /\ \A k \in lo..(x - 1) : A <= l[k].addr /\ EndOf(l[k]) <= e
    BY <1>2, <2>1
  <2>4. e = EndOf(l[x - 1]) /\ e = l[x].addr
    BY <2>1 DEF Chained
  <2>5. /\ A \in Nat /\ e \in Nat /\ E(i) \in Nat /\ e < E(i) /\ UnitsOf(l[x]) = e..(E(i) - 1)
    BY <2>2, <2>4, BlockUnits DEF UnitsOf
  <2>6. \A k : k \in lo..x <=> k \in lo..(x - 1) \/ k = x
    BY <1>0, <2>1
  <2>. HIDE DEF e, x
  <2>7. SpanOf(l, lo, x) = SpanOf(l, lo, x - 1) \cup UnitsOf(l[x])
    BY <2>6 DEF SpanOf
  <2>. DEFINE f == E(i)
  <2>8. E(i) = EndOf(l[x])
    BY DEF x
  <2>t. \A k \in lo..x : l[k].addr \in Nat /\ EndOf(l[k]) \in Nat
    <3>1. \A k \in lo..x : l[k] \in Blocks
      BY <1>0, <1>b, <2>1
    <3>. QED BY <3>1, BlockUnits
  <2>. HIDE DEF f, A, E
  <2>9. SpanOf(l, lo, x) = A..(f - 1) /\ A < f
    BY <2>3, <2>5, <2>7 DEF f
  <2>10. ASSUME NEW k \in lo..x PROVE A <= l[k].addr /\ EndOf(l[k]) <= f
    <3>1. l[k].addr \in Nat /\ EndOf(l[k]) \in Nat
      BY <2>t
    <3>2. CASE k = x
      BY <2>3, <2>4, <2>5, <2>8, <3>2 DEF f
    <3>3. CASE k \in lo..(x - 1)
      <4>1. A <= l[k].addr /\ EndOf(l[k]) <= e
        BY <2>3, <3>3
      <4>. QED BY <2>5, <3>1, <4>1 DEF f
    <3>. QED BY <2>6, <3>2, <3>3
  <2>11. Good(i)
    BY <2>9, <2>10 DEF x, f
  <2>. QED BY <1>0, <2>11
<1>. HIDE DEF T
<1>3. 0..n \subseteq T
  BY <1>0, <1>1, <1>2, TurnByTurn
<1>4. n \in T /\ lo + n = hi
  BY <1>0, <1>3
<1>5. Good(n)
  BY <1>4 DEF T
<1>. QED BY <1>4, <1>5

(* The blocks that heap_coalesce joins, and that it leaves out none. *)
LEMMA CoalesceBounds ==
  ASSUME NEW l \in Seq(Blocks), NEW k \in 1..Len(l), ~l[k].used
  PROVE  LET lo == CoalesceStart(l, k)
             hi == CoalesceEnd(l, k)
         IN /\ lo \in 1..k /\ hi \in k..Len(l) /\ Chained(l, lo, hi)
            /\ \A i \in lo..hi : ~l[i].used
            /\ lo > 1 => l[lo - 1].used \/ EndOf(l[lo - 1]) # l[lo].addr
            /\ hi < Len(l) => l[hi + 1].used \/ EndOf(l[hi]) # l[hi + 1].addr
<1>. DEFINE Down(j) == \A i \in j..(k - 1) : ~l[i].used /\ heap_addr_adjacent(l[i], l[i + 1])
            Up(j) == \A i \in k..(j - 1) : ~l[i + 1].used /\ heap_addr_adjacent(l[i], l[i + 1])
            S == {j \in 1..k : Down(j)}
            R == {j \in k..Len(l) : Up(j)}
            lo == CoalesceStart(l, k)
            hi == CoalesceEnd(l, k)
<1>0. k \in Nat /\ Len(l) \in Nat /\ 1 <= k /\ k <= Len(l)
  BY LenProperties
<1>1. k \in S /\ S \in SUBSET Nat
  BY <1>0
<1>2. k \in R /\ R \in SUBSET Nat /\ \A y \in R : y <= Len(l)
  BY <1>0
<1>3. lo = Min(S) /\ hi = Max(R)
  BY DEF CoalesceStart, CoalesceEnd
<1>. HIDE DEF S, R, lo, hi
<1>4. lo \in S /\ \A y \in S : lo <= y
  <2>1. \E x \in S : \A y \in S : x <= y
    BY <1>1, LeastExists
  <2>. QED BY <1>3, <2>1 DEF Min
<1>5. hi \in R /\ \A y \in R : hi >= y
  <2>1. \E x \in R : \A y \in R : x >= y
    BY <1>0, <1>2, GreatestExists
  <2>. QED BY <1>3, <2>1 DEF Max
<1>6. lo \in 1..k /\ Down(lo)
  BY <1>4 DEF S
<1>7. hi \in k..Len(l) /\ Up(hi)
  BY <1>5 DEF R
<1>8. Chained(l, lo, hi)
  <2>. SUFFICES ASSUME NEW i \in lo..(hi - 1) PROVE EndOf(l[i]) = l[i + 1].addr
    BY DEF Chained
  <2>1. CASE i \in lo..(k - 1)
    BY <1>6, <2>1 DEF heap_addr_adjacent
  <2>2. CASE i \in k..(hi - 1)
    BY <1>7, <2>2 DEF heap_addr_adjacent
  <2>. QED BY <1>0, <1>6, <1>7, <2>1, <2>2
<1>9. ASSUME NEW i \in lo..hi PROVE ~l[i].used
  <2>1. CASE i < k
    <3>1. i \in lo..(k - 1)
      BY <1>0, <1>6, <1>7, <2>1
    <3>. QED BY <1>6, <3>1
  <2>2. CASE i = k
    BY <2>2
  <2>3. CASE i > k
    <3>1. i - 1 \in k..(hi - 1) /\ i - 1 + 1 = i
      BY <1>0, <1>6, <1>7, <2>3
    <3>2. ~l[i - 1 + 1].used
      BY <1>7, <3>1
    <3>. QED BY <3>1, <3>2
  <2>. QED BY <1>0, <1>6, <1>7, <2>1, <2>2, <2>3
<1>10. ASSUME lo > 1, ~l[lo - 1].used, EndOf(l[lo - 1]) = l[lo].addr PROVE FALSE
  <2>1. lo - 1 \in 1..k /\ lo - 1 + 1 = lo /\ lo - 1 < lo
    BY <1>0, <1>6, <1>10
  <2>2. heap_addr_adjacent(l[lo - 1], l[lo - 1 + 1])
    BY <1>10, <2>1 DEF heap_addr_adjacent
  <2>3. \A i \in (lo - 1)..(k - 1) : i = lo - 1 \/ i \in lo..(k - 1)
    BY <1>0, <1>6
  <2>4. Down(lo - 1)
    BY <1>6, <1>10, <2>2, <2>3
  <2>5. lo - 1 \in S
    BY <2>1, <2>4 DEF S
  <2>. QED BY <1>4, <1>6, <2>1, <2>5
<1>11. ASSUME hi < Len(l), ~l[hi + 1].used, EndOf(l[hi]) = l[hi + 1].addr PROVE FALSE
  <2>1. hi + 1 \in k..Len(l)
    BY <1>0, <1>7, <1>11
  <2>2. heap_addr_adjacent(l[hi], l[hi + 1])
    BY <1>11 DEF heap_addr_adjacent
  <2>3. \A i \in k..(hi + 1 - 1) : i = hi \/ i \in k..(hi - 1)
    BY <1>0, <1>7
  <2>4. Up(hi + 1)
    <3>. DEFINE j == hi + 1
    <3>j. j - 1 = hi + 1 - 1
      BY <1>0, <1>7
    <3>. HIDE DEF j
    <3>. SUFFICES ASSUME NEW i \in k..(j - 1)
                  PROVE  ~l[i + 1].used /\ heap_addr_adjacent(l[i], l[i + 1])
      BY Zenon DEF j
    <3>1. CASE i = hi
      BY <1>11, <2>2, <3>1, Zenon
    <3>2. CASE i \in k..(hi - 1)
      BY <1>7, <3>2
    <3>. QED BY <2>3, <3>1, <3>2, <3>j
  <2>5. hi + 1 \in R
    BY <2>1, <2>4 DEF R
  <2>. QED BY <1>5, <1>7, <2>1, <2>5
<1>. HIDE DEF Down, Up
<1>. QED BY <1>6, <1>7, <1>8, <1>9, <1>10, <1>11 DEF lo, hi

(* The joined block spans the blocks it replaces, and what is used stays.  *)
LEMMA Coalesced ==
  ASSUME NEW l \in Seq(Blocks), Apart(l), NEW k \in 1..Len(l), ~l[k].used
  PROVE  LET lo == CoalesceStart(l, k)
             hi == CoalesceEnd(l, k)
             r  == heap_coalesce(l, k)
         IN /\ r \in Seq(Blocks) /\ Apart(r)
            /\ UnitsIn(r) = UnitsIn(l) /\ UsedOf(r) = UsedOf(l)
            /\ lo \in 1..Len(r) /\ ~r[lo].used
            /\ r[lo].addr = l[lo].addr /\ EndOf(r[lo]) = EndOf(l[hi])
            /\ r[lo].size >= l[k].size /\ UnitsOf(r[lo]) = SpanOf(l, lo, hi)
            /\ r = Relink(l, lo, hi, <<r[lo]>>)
<1>. DEFINE lo == CoalesceStart(l, k)
            hi == CoalesceEnd(l, k)
            r  == heap_coalesce(l, k)
            A  == l[lo].addr
            E  == EndOf(l[hi])
            b  == Block(A, E - A - Header, FALSE)
            mid == <<b>>
<1>1. /\ lo \in 1..k /\ hi \in k..Len(l) /\ Chained(l, lo, hi)
      /\ \A i \in lo..hi : ~l[i].used
  BY CoalesceBounds
<1>. HIDE DEF lo, hi
<1>0. Len(l) \in Nat /\ lo \in 1..Len(l) /\ hi \in lo..Len(l) /\ k \in lo..hi
  BY <1>1, LenProperties
<1>2. /\ SpanOf(l, lo, hi) = A..(E - 1)
      /\ A <= l[k].addr /\ EndOf(l[k]) <= E
  BY <1>0, <1>1, ChainIsInterval
<1>3. l[lo] \in Blocks /\ l[hi] \in Blocks /\ l[k] \in Blocks
  BY <1>0, ElementOfSeq
<1>4. /\ A \in Nat /\ E \in Nat /\ Header \in Nat \ {0}
      /\ E - A - Header \in Nat /\ E - A - Header >= l[k].size
  <2>1. /\ A \in Nat /\ E \in Nat /\ Header \in Nat \ {0}
        /\ l[k].addr \in Nat /\ l[k].size \in Nat /\ EndOf(l[k]) = l[k].addr + Header + l[k].size
    BY <1>3, BlockUnits, Positive
  <2>. DEFINE a == l[k].addr
              n == l[k].size
              e == EndOf(l[k])
  <2>2. A <= a /\ e <= E /\ e = a + Header + n /\ a \in Nat /\ n \in Nat
    BY <1>2, <2>1
  <2>. HIDE DEF a, n, e, A, E
  <2>3. E - A - Header \in Nat /\ E - A - Header >= n
    BY <2>1, <2>2
  <2>. QED BY <2>1, <2>3 DEF n
<1>5. r = Relink(l, lo, hi, mid)
  BY DEF heap_coalesce, lo, hi
<1>. HIDE DEF r, A, E
<1>6. b \in Blocks /\ b.addr = A /\ b.size = E - A - Header /\ b.used = FALSE
  BY <1>4, BlockFields
<1>7. EndOf(b) = E /\ UnitsOf(b) = A..(E - 1)
  <2>1. EndOf(b) = b.addr + Header + b.size
    BY <1>6, BlockUnits
  <2>2. EndOf(b) = E
    <3>1. A + Header + (E - A - Header) = E
      BY <1>4
    <3>. QED BY <1>6, <2>1, <3>1
  <2>. QED BY <1>4, <1>6, <2>2 DEF UnitsOf
<1>. HIDE DEF b
<1>8. mid \in Seq(Blocks) /\ Len(mid) = 1 /\ mid[1] = b /\ 1..Len(mid) = {1}
  BY <1>6
<1>9. Apart(mid) /\ BlocksOf(mid) = {b} /\ UnitsIn(mid) = UnitsOf(b)
  BY <1>8 DEF Apart, BlocksOf, UnitsIn
<1>. HIDE DEF mid
<1>10. /\ Apart(r)
       /\ BlocksOf(r) = Kept(l, lo, hi) \cup {b}
       /\ UnitsIn(r) = (UnitsIn(l) \ SpanOf(l, lo, hi)) \cup SpanOf(l, lo, hi)
  <2>1. UnitsIn(mid) = SpanOf(l, lo, hi)
    BY <1>2, <1>7, <1>9
  <2>2. UnitsIn(mid) \subseteq SpanOf(l, lo, hi) /\ mid \in Seq(Blocks) /\ Apart(mid)
    BY <1>8, <1>9, <2>1
  <2>3. /\ Apart(r)
        /\ BlocksOf(r) = Kept(l, lo, hi) \cup BlocksOf(mid)
        /\ UnitsIn(r) = (UnitsIn(l) \ SpanOf(l, lo, hi)) \cup UnitsIn(mid)
    BY <1>0, <1>5, <2>2, RelinkKeeps
  <2>. QED BY <1>9, <2>1, <2>3
<1>11. UnitsIn(r) = UnitsIn(l)
  <2>1. SpanOf(l, lo, hi) \subseteq UnitsIn(l)
    BY <1>0 DEF SpanOf, UnitsIn, BlocksOf
  <2>. QED BY <1>10, <2>1
<1>12. UsedOf(r) = UsedOf(l)
  <2>1. ASSUME NEW x \in BlocksOf(l), x.used PROVE x \in Kept(l, lo, hi)
    <3>1. PICK i \in 1..Len(l) : x = l[i]
      BY DEF BlocksOf
    <3>2. i \notin lo..hi
      BY <1>1, <2>1, <3>1
    <3>. QED BY <3>1, <3>2 DEF Kept
  <2>2. Kept(l, lo, hi) \subseteq BlocksOf(l)
    BY DEF Kept, BlocksOf
  <2>. QED BY <1>6, <1>10, <2>1, <2>2 DEF UsedOf
<1>13. r \in Seq(Blocks) /\ Len(r) = Len(l) + lo - hi /\ r[lo] = b
  <2>1. /\ r \in Seq(Blocks) /\ Len(r) = Len(l) + (lo - 1 + Len(mid) - hi)
        /\ \A i \in 1..Len(mid) : r[lo - 1 + i] = mid[i]
    <3>1. mid \in Seq(Blocks)
      BY <1>8
    <3>. QED BY <1>0, <1>5, <3>1, Relinked
  <2>2. r[lo - 1 + 1] = b /\ lo - 1 + 1 = lo
    BY <1>0, <1>8, <2>1
  <2>. QED BY <1>0, <1>8, <2>1, <2>2
<1>14. lo \in 1..Len(r)
  BY <1>0, <1>13
<1>15. r = Relink(l, lo, hi, <<r[lo]>>)
  BY <1>5, <1>13 DEF mid
<1>. QED
  BY <1>2, <1>4, <1>6, <1>7, <1>10, <1>11, <1>12, <1>13, <1>14, <1>15 DEF lo, hi, r, A, E

-----------------------------------------------------------------------------
(* heap_split. *)
LEMMA SplitInTwo ==
  ASSUME NEW b \in Blocks, NEW n \in Nat, b.size >= n
  PROVE  LET s == Split(b, n)
         IN /\ s \in Seq(Blocks) /\ Apart(s) /\ UnitsIn(s) = UnitsOf(b)
            /\ s[1] \in Blocks /\ s[1].used = TRUE /\ s[1].addr = b.addr /\ s[1].size >= n
            /\ \/ Len(s) = 1 /\ EndOf(s[1]) = EndOf(b)
               \/ /\ Len(s) = 2 /\ s[2] \in Blocks /\ s[2].used = FALSE
                  /\ s[2].addr = EndOf(s[1]) /\ EndOf(s[2]) = EndOf(b)
<1>. DEFINE s == Split(b, n)
            c == Block(b.addr, b.size, TRUE)
            d == Block(b.addr, n, TRUE)
            e == Block(b.addr + Header + n, b.size - n - Header, FALSE)
<1>1. /\ b.addr \in Nat /\ b.size \in Nat /\ Header \in Nat \ {0}
      /\ EndOf(b) = b.addr + Header + b.size
      /\ UnitsOf(b) = b.addr..(EndOf(b) - 1)
  BY BlockUnits, Positive DEF UnitsOf
<1>2. s = IF b.size < n + Header + 1 THEN <<c>> ELSE <<d, e>>
  BY DEF Split
<1>3. CASE b.size < n + Header + 1
  <2>1. s = <<c>>
    BY <1>2, <1>3
  <2>2. c \in Blocks /\ c.addr = b.addr /\ c.size = b.size /\ c.used = TRUE
    BY <1>1, BlockFields
  <2>3. EndOf(c) = EndOf(b) /\ UnitsOf(c) = UnitsOf(b)
    BY <2>2 DEF EndOf, UnitsOf
  <2>. HIDE DEF c, s
  <2>4. s \in Seq(Blocks) /\ Len(s) = 1 /\ s[1] = c /\ 1..Len(s) = {1}
    BY <2>1, <2>2
  <2>5. Apart(s) /\ BlocksOf(s) = {c} /\ UnitsIn(s) = UnitsOf(c)
    BY <2>4 DEF Apart, BlocksOf, UnitsIn
  <2>. QED BY <2>2, <2>3, <2>4, <2>5 DEF s
<1>4. CASE ~(b.size < n + Header + 1)
  <2>1. s = <<d, e>>
    BY <1>2, <1>4
  <2>2. /\ b.addr + Header + n \in Nat /\ b.size - n - Header \in Nat
        /\ b.addr + Header + n + Header + (b.size - n - Header) = b.addr + Header + b.size
    BY <1>1, <1>4
  <2>3. /\ d \in Blocks /\ d.addr = b.addr /\ d.size = n /\ d.used = TRUE
        /\ e \in Blocks /\ e.addr = b.addr + Header + n /\ e.size = b.size - n - Header /\ e.used = FALSE
    <3>1. d \in Blocks /\ d.addr = b.addr /\ d.size = n /\ d.used = TRUE
      BY <1>1, BlockFields
    <3>. DEFINE x == b.addr + Header + n
                y == b.size - n - Header
    <3>2. x \in Nat /\ y \in Nat
      BY <2>2
    <3>. HIDE DEF x, y
    <3>3. /\ Block(x, y, FALSE) \in Blocks /\ Block(x, y, FALSE).addr = x
          /\ Block(x, y, FALSE).size = y /\ Block(x, y, FALSE).used = FALSE
      BY <3>2, BlockFields
    <3>. QED BY <3>1, <3>3 DEF x, y
  <2>. HIDE DEF d, e, s
  <2>4. /\ EndOf(d) = e.addr /\ EndOf(e) = EndOf(b)
        /\ EndOf(d) = d.addr + Header + n /\ EndOf(e) = e.addr + Header + e.size
    BY <1>1, <2>2, <2>3, BlockUnits
  <2>5. /\ UnitsOf(d) = d.addr..(e.addr - 1) /\ UnitsOf(e) = e.addr..(EndOf(b) - 1)
    BY <2>4 DEF UnitsOf
  <2>6. /\ d.addr = b.addr /\ d.addr \in Nat /\ e.addr \in Nat /\ EndOf(b) \in Nat
        /\ d.addr < e.addr /\ e.addr < EndOf(b)
    BY <1>1, <2>3, <2>4, BlockUnits
  <2>7. UnitsOf(d) \cap UnitsOf(e) = {} /\ UnitsOf(d) \cup UnitsOf(e) = UnitsOf(b)
    <3>. DEFINE x == d.addr
                y == e.addr
                z == EndOf(b)
    <3>1. x \in Nat /\ y \in Nat /\ z \in Nat /\ x < y /\ y < z
      BY <2>6
    <3>2. UnitsOf(d) = x..(y - 1) /\ UnitsOf(e) = y..(z - 1) /\ UnitsOf(b) = x..(z - 1)
      BY <1>1, <2>5, <2>6
    <3>. HIDE DEF x, y, z
    <3>3. (x..(y - 1)) \cap (y..(z - 1)) = {} /\ (x..(y - 1)) \cup (y..(z - 1)) = x..(z - 1)
      BY <3>1
    <3>. QED BY <3>2, <3>3
  <2>8. s \in Seq(Blocks) /\ Len(s) = 2 /\ s[1] = d /\ s[2] = e /\ 1..Len(s) = {1, 2}
    BY <2>1, <2>3
  <2>9. Apart(s)
    BY <2>7, <2>8 DEF Apart
  <2>10. BlocksOf(s) = {d, e}
    BY <2>8 DEF BlocksOf
  <2>11. UnitsIn(s) = UnitsOf(b)
    BY <2>7, <2>10 DEF UnitsIn
  <2>12. s[1].size >= n
    BY <2>3, <2>8
  <2>. QED BY <2>3, <2>4, <2>8, <2>9, <2>11, <2>12 DEF s
<1>. QED BY <1>3, <1>4

(* Block k is taken: the used blocks are those from before and this one.   *)
LEMMA BlockTaken ==
  ASSUME NEW l \in Seq(Blocks), Apart(l), NEW k \in 1..Len(l), ~l[k].used,
         NEW n \in Nat, l[k].size >= n
  PROVE  LET r == heap_split(l, k, n)
         IN /\ r \in Seq(Blocks) /\ Apart(r) /\ UnitsIn(r) = UnitsIn(l)
            /\ k \in 1..Len(r) /\ r[k].addr = l[k].addr /\ r[k].size >= n /\ r[k].used
            /\ UsedOf(r) = UsedOf(l) \cup {r[k]} /\ r[k] \notin UsedOf(l)
<1>. DEFINE r == heap_split(l, k, n)
            mid == Split(l[k], n)
            a == mid[1]
<1>0. Len(l) \in Nat /\ l[k] \in Blocks /\ k \in k..Len(l)
  BY LenProperties, ElementOfSeq
<1>1. /\ mid \in Seq(Blocks) /\ Apart(mid) /\ UnitsIn(mid) = UnitsOf(l[k])
      /\ a \in Blocks /\ a.used = TRUE /\ a.addr = l[k].addr /\ a.size >= n
      /\ Len(mid) = 1 \/ (Len(mid) = 2 /\ mid[2].used = FALSE)
  BY <1>0, SplitInTwo
<1>2. r = Relink(l, k, k, mid)
  BY DEF heap_split
<1>. HIDE DEF r, mid
<1>3. SpanOf(l, k, k) = UnitsOf(l[k])
  <2>1. k..k = {k}
    OBVIOUS
  <2>. QED BY <2>1 DEF SpanOf
<1>4. /\ Apart(r)
      /\ BlocksOf(r) = Kept(l, k, k) \cup BlocksOf(mid)
      /\ UnitsIn(r) = (UnitsIn(l) \ SpanOf(l, k, k)) \cup UnitsIn(mid)
  <2>1. UnitsIn(mid) \subseteq SpanOf(l, k, k) /\ mid \in Seq(Blocks) /\ Apart(mid)
    BY <1>1, <1>3
  <2>. QED BY <1>0, <1>2, <2>1, RelinkKeeps
<1>5. /\ r \in Seq(Blocks) /\ Len(r) = Len(l) + (k - 1 + Len(mid) - k)
      /\ \A i \in 1..Len(mid) : r[k - 1 + i] = mid[i]
  <2>1. mid \in Seq(Blocks)
    BY <1>1
  <2>. QED BY <1>0, <1>2, <2>1, Relinked
<1>6. k \in 1..Len(r) /\ r[k] = a
  <2>0. 1 \in 1..Len(mid) /\ k - 1 + 1 = k
    BY <1>0, <1>1
  <2>1. r[k - 1 + 1] = mid[1]
    BY <1>5, <2>0
  <2>2. k \in 1..Len(r)
    BY <1>0, <1>1, <1>5
  <2>. QED BY <2>0, <2>1, <2>2
<1>7. UnitsIn(r) = UnitsIn(l)
  <2>1. UnitsOf(l[k]) \subseteq UnitsIn(l)
    BY DEF UnitsIn, BlocksOf
  <2>. QED BY <1>1, <1>3, <1>4, <2>1
<1>8. UsedOf(mid) = {a}
  <2>1. CASE Len(mid) = 1
    <3>1. BlocksOf(mid) = {a}
      <4>1. 1..Len(mid) = {1}
        BY <2>1
      <4>. QED BY <4>1 DEF BlocksOf
    <3>. QED BY <1>1, <3>1 DEF UsedOf
  <2>2. CASE Len(mid) = 2 /\ mid[2].used = FALSE
    <3>1. BlocksOf(mid) = {a, mid[2]}
      <4>1. 1..Len(mid) = {1, 2}
        BY <2>2
      <4>. QED BY <4>1 DEF BlocksOf
    <3>. HIDE DEF a
    <3>. QED BY <1>1, <2>2, <3>1 DEF UsedOf
  <2>. QED BY <1>1, <2>1, <2>2
<1>9. {b \in Kept(l, k, k) : b.used} = UsedOf(l)
  <2>1. ASSUME NEW x \in BlocksOf(l), x.used PROVE x \in Kept(l, k, k)
    <3>1. PICK i \in 1..Len(l) : x = l[i]
      BY DEF BlocksOf
    <3>2. i \notin k..k
      BY <2>1, <3>1
    <3>. QED BY <3>1, <3>2 DEF Kept
  <2>2. Kept(l, k, k) \subseteq BlocksOf(l)
    BY DEF Kept, BlocksOf
  <2>. QED BY <2>1, <2>2 DEF UsedOf
<1>10. UsedOf(r) = UsedOf(l) \cup {a}
  <2>1. UsedOf(r) = {b \in Kept(l, k, k) : b.used} \cup UsedOf(mid)
    BY <1>4 DEF UsedOf
  <2>. QED BY <1>8, <1>9, <2>1
<1>11. a \notin UsedOf(l)
  <2>. SUFFICES ASSUME a \in UsedOf(l) PROVE FALSE
    OBVIOUS
  <2>1. PICK i \in 1..Len(l) : a = l[i] /\ l[i].used
    BY DEF UsedOf, BlocksOf
  <2>2. i # k
    BY <2>1
  <2>3. a.addr \in UnitsOf(a) /\ l[k].addr \in UnitsOf(l[k])
    BY <1>0, <1>1, BlockUnits
  <2>. QED BY <1>1, <2>1, <2>2, <2>3 DEF Apart
<1>12. r[k].used
  BY <1>1, <1>6
<1>. QED BY <1>1, <1>4, <1>5, <1>6, <1>7, <1>10, <1>11, <1>12 DEF r

-----------------------------------------------------------------------------
(* The counters of the used blocks. *)
LEMMA PayloadsApart ==
  ASSUME NEW l \in Seq(Blocks), Apart(l), NEW b \in BlocksOf(l), NEW c \in BlocksOf(l), b # c
  PROVE  UnitsOf(b) \cap UnitsOf(c) = {} /\ Payload(b) \cap Payload(c) = {}
<1>1. PICK i \in 1..Len(l) : b = l[i]
  BY DEF BlocksOf
<1>2. PICK j \in 1..Len(l) : c = l[j]
  BY DEF BlocksOf
<1>3. b \in Blocks /\ c \in Blocks
  BY <1>1, <1>2, ElementOfSeq
<1>4. Payload(b) \subseteq UnitsOf(b) /\ Payload(c) \subseteq UnitsOf(c)
  BY <1>3, BlockUnits
<1>5. UnitsOf(b) \cap UnitsOf(c) = {}
  BY <1>1, <1>2 DEF Apart
<1>. QED BY <1>4, <1>5

LEMMA UsedAdded ==
  ASSUME NEW l \in Seq(Blocks), NEW r \in Seq(Blocks), Apart(r), NEW b \in UsedOf(r),
         UsedOf(r) = UsedOf(l) \cup {b}, b \notin UsedOf(l),
         NEW bytes \in Int, NEW blocks \in Int, UsedInv(l, bytes, blocks)
  PROVE  UsedInv(r, bytes + b.size, blocks + 1)
<1>1. IsFiniteSet(UsedOf(r)) /\ Cardinality(UsedOf(r)) = blocks + 1
  BY FS_AddElement DEF UsedInv
<1>2. b \in Blocks /\ b \in BlocksOf(r)
  BY ElementOfSeq DEF UsedOf, BlocksOf
<1>3. IsFiniteSet(Payload(b)) /\ Cardinality(Payload(b)) = b.size /\ b.size \in Nat
  BY <1>2, BlockUnits
<1>4. PayloadIn(r) = PayloadIn(l) \cup Payload(b)
  <2>1. \A u : /\ u \in PayloadIn(r) <=> \E c \in UsedOf(r) : u \in Payload(c)
               /\ u \in PayloadIn(l) <=> \E c \in UsedOf(l) : u \in Payload(c)
    BY DEF PayloadIn
  <2>. QED BY <2>1
<1>5. PayloadIn(l) \cap Payload(b) = {}
  <2>1. ASSUME NEW c \in UsedOf(l) PROVE Payload(c) \cap Payload(b) = {}
    <3>1. c \in BlocksOf(r) /\ c # b
      BY DEF UsedOf
    <3>. QED BY <1>2, <3>1, PayloadsApart
  <2>. QED BY <2>1 DEF PayloadIn
<1>6. IsFiniteSet(PayloadIn(l)) /\ Cardinality(PayloadIn(l)) = bytes
  BY DEF UsedInv
<1>7. IsFiniteSet(PayloadIn(r)) /\ Cardinality(PayloadIn(r)) = bytes + b.size
  <2>. DEFINE L == PayloadIn(l)
              Q == Payload(b)
  <2>. HIDE DEF L, Q
  <2>1. IsFiniteSet(L) /\ IsFiniteSet(Q)
    BY <1>3, <1>6 DEF L, Q
  <2>2. /\ IsFiniteSet(L \cup Q)
        /\ Cardinality(L \cup Q) = Cardinality(L) + Cardinality(Q) - Cardinality(L \cap Q)
    BY <2>1, FS_Union
  <2>3. Cardinality(L \cap Q) = 0
    BY <1>5, FS_EmptySet DEF L, Q
  <2>4. PayloadIn(r) = L \cup Q /\ Cardinality(L) = bytes /\ Cardinality(Q) = b.size
    BY <1>3, <1>4, <1>6 DEF L, Q
  <2>. QED BY <1>3, <2>2, <2>3, <2>4
<1>. QED BY <1>1, <1>7 DEF UsedInv

LEMMA UsedRemoved ==
  ASSUME NEW l \in Seq(Blocks), Apart(l), NEW r \in Seq(Blocks), NEW b \in UsedOf(l),
         UsedOf(r) = UsedOf(l) \ {b},
         NEW bytes \in Int, NEW blocks \in Int, UsedInv(l, bytes, blocks)
  PROVE  UsedInv(r, bytes - b.size, blocks - 1)
<1>1. IsFiniteSet(UsedOf(r)) /\ Cardinality(UsedOf(r)) = blocks - 1
  BY FS_RemoveElement DEF UsedInv
<1>2. b \in Blocks /\ b \in BlocksOf(l)
  BY ElementOfSeq DEF UsedOf, BlocksOf
<1>3. IsFiniteSet(Payload(b)) /\ Cardinality(Payload(b)) = b.size /\ b.size \in Nat
  BY <1>2, BlockUnits
<1>m. \A u : /\ u \in PayloadIn(r) <=> \E c \in UsedOf(r) : u \in Payload(c)
             /\ u \in PayloadIn(l) <=> \E c \in UsedOf(l) : u \in Payload(c)
  BY DEF PayloadIn
<1>4. \A c \in UsedOf(r) : Payload(c) \cap Payload(b) = {}
  <2>. SUFFICES ASSUME NEW c \in UsedOf(r) PROVE Payload(c) \cap Payload(b) = {}
    OBVIOUS
  <2>1. c \in BlocksOf(l) /\ c # b
    BY DEF UsedOf
  <2>. QED BY <1>2, <2>1, PayloadsApart
<1>5. PayloadIn(r) = PayloadIn(l) \ Payload(b) /\ Payload(b) \subseteq PayloadIn(l)
  BY <1>m, <1>4
<1>6. IsFiniteSet(PayloadIn(l)) /\ Cardinality(PayloadIn(l)) = bytes
  BY DEF UsedInv
<1>7. IsFiniteSet(PayloadIn(r)) /\ Cardinality(PayloadIn(r)) = bytes - b.size
  <2>. DEFINE L == PayloadIn(l)
              Q == Payload(b)
  <2>. HIDE DEF L, Q
  <2>1. IsFiniteSet(L) /\ L \cap Q = Q
    BY <1>5, <1>6 DEF L, Q
  <2>2. IsFiniteSet(L \ Q) /\ Cardinality(L \ Q) = Cardinality(L) - Cardinality(L \cap Q)
    BY <2>1, FS_Difference
  <2>3. PayloadIn(r) = L \ Q /\ Cardinality(L) = bytes /\ Cardinality(Q) = b.size
    BY <1>3, <1>5, <1>6 DEF L, Q
  <2>. QED BY <1>3, <2>1, <2>2, <2>3
<1>. QED BY <1>1, <1>7 DEF UsedInv

-----------------------------------------------------------------------------
(* heap_new_block. *)
LEMMA PagesForFits ==
  ASSUME NEW n \in Nat
  PROVE  /\ PagesFor(n) \in Nat \ {0} /\ PagesFor(n) * PageUnits \in Nat
         /\ PagesFor(n) * PageUnits >= n + Header
<1>. DEFINE u == n + Header + PageUnits - 1
            q == u \div PageUnits
            qU == q * PageUnits
<1>0. PageUnits \in Nat \ {0} /\ Header \in Nat \ {0} /\ u \in Int
  BY Positive
<1>1. q \in Int /\ qU <= u /\ u < qU + PageUnits /\ qU \in Int
  <2>. HIDE DEF u
  <2>. QED BY <1>0, PageOfUnit, Multiples
<1>2. q <= 0 => qU <= 0
  <2>1. 0 * PageUnits = 0
    BY <1>0
  <2>. HIDE DEF q
  <2>2. q <= 0 => q * PageUnits <= 0 * PageUnits
    BY <1>1, Multiples
  <2>. QED BY <2>1, <2>2
<1>3. PagesFor(n) = q
  BY DEF PagesFor
<1>. HIDE DEF q, qU
<1>4. q \in Nat \ {0} /\ qU \in Nat /\ qU >= n + Header
  BY <1>0, <1>1, <1>2
<1>. QED BY <1>3, <1>4 DEF qU

LEMMA StackedInUse ==
  ASSUME NEW m, NEW S, MemInv(m, S)
  PROVE  /\ Stacked(S) \subseteq m.bitmap \ pmm_init.bitmap
         /\ m.bitmap \in SUBSET Pages /\ HeapOf(m, S) \in SUBSET Pages
         /\ HeapOf(m, S) \subseteq m.bitmap /\ Pages \in SUBSET Int
BY PmmAssumption DEF MemInv, Stacked, HeapOf, Mems, Pages

LEMMA HeapPagesTaken ==
  ASSUME NEW m, NEW S, MemInv(m, S), NEW count \in Nat \ {0}, FirstFreeRun(m, count) # NULL
  PROVE  LET r   == pmm_alloc_pages_contiguous(m, count)
             run == RunAt(FirstFreeRun(m, count), count)
         IN /\ MemInv(r, S)
            /\ FirstFreeRun(m, count) \in Nat /\ run \in SUBSET Pages
            /\ HeapOf(r, S) = HeapOf(m, S) \cup run /\ HeapOf(m, S) \cap run = {}
            /\ Cardinality(HeapOf(r, S)) = Cardinality(HeapOf(m, S)) + count
<1>. DEFINE f == FirstFreeRun(m, count)
            r == pmm_alloc_pages_contiguous(m, count)
            run == RunAt(f, count)
            P == HeapOf(m, S)
<1>0. m \in Mems /\ m.free_pages = Cardinality(Pages \ m.bitmap)
  BY DEF MemInv
<1>1. f \in Nat /\ run \in SUBSET Pages /\ run \cap m.bitmap = {}
  BY FreeRunFound, PmmAssumption
<1>2. r \in Mems /\ r.bitmap = m.bitmap \cup run /\ r.free_pages = Cardinality(Pages \ r.bitmap)
  BY <1>0, PagesTaken
<1>3. Stacked(S) \subseteq m.bitmap /\ pmm_init.bitmap \subseteq m.bitmap /\ P \subseteq m.bitmap
      /\ P \in SUBSET Pages
  BY StackedInUse DEF MemInv
<1>c. IsFiniteSet(run) /\ Cardinality(run) = count
  <2>. HIDE DEF f
  <2>1. f + count - 1 \in Int /\ ~(f > f + count - 1) /\ (f + count - 1) - f + 1 = count
    BY <1>1
  <2>2. IsFiniteSet(f..(f + count - 1)) /\ Cardinality(f..(f + count - 1)) = (f + count - 1) - f + 1
    BY <1>1, <2>1, FS_Interval
  <2>. QED BY <2>1, <2>2 DEF RunAt
<1>. HIDE DEF f, r, run
<1>4. HeapOf(r, S) = P \cup run /\ P \cap run = {}
  BY <1>1, <1>2, <1>3 DEF HeapOf
<1>5. MemInv(r, S)
  BY <1>2 DEF MemInv
<1>. HIDE DEF P
<1>6. IsFiniteSet(P) /\ Cardinality(P) \in Nat
  BY <1>3, PagesAreFinite
<1>7. Cardinality(P \cup run) = Cardinality(P) + Cardinality(run) - Cardinality(P \cap run)
  BY <1>6, <1>c, FS_Union
<1>8. Cardinality(P \cap run) = 0
  BY <1>4, FS_EmptySet
<1>9. Cardinality(HeapOf(r, S)) = Cardinality(P) + count
  BY <1>4, <1>6, <1>7, <1>8, <1>c
<1>. QED BY <1>1, <1>4, <1>5, <1>9 DEF f, r, run, P

GroupOf(p, n) == [page |-> p, npages |-> n]

(* The groups of r are those of g and at most one more. *)
Registered(r, g, new) == \A i \in InUse(r) : (i \in InUse(g) /\ r[i] = g[i]) \/ r[i] = new

LEMMA GroupRegistered ==
  ASSUME NEW g, NEW P, GroupInv(g, P), NEW p \in Nat, NEW n \in Nat \ {0}, P \cap RunAt(p, n) = {}
  PROVE  LET r == heap_register_group(g, p, n)
         IN GroupInv(r, P \cup RunAt(p, n)) /\ Registered(r, g, GroupOf(p, n))
<1>. DEFINE r == heap_register_group(g, p, n)
            new == GroupOf(p, n)
            Q == P \cup RunAt(p, n)
<1>0. g \in [1..MaxGroups -> Groups \cup {NoGroup}] /\ MaxGroups \in Nat
  BY HeapAssumption DEF GroupInv
<1>1. CASE FreeSlots(g) = {}
  <2>1. r = g
    BY <1>1 DEF heap_register_group
  <2>. QED BY <2>1 DEF GroupInv, Registered
<1>2. CASE FreeSlots(g) # {}
  <2>. DEFINE x == Min(FreeSlots(g))
  <2>1. x \in FreeSlots(g)
    <3>1. FreeSlots(g) \in SUBSET Nat
      BY DEF FreeSlots
    <3>2. \E y \in FreeSlots(g) : \A z \in FreeSlots(g) : y <= z
      BY <1>2, <3>1, LeastExists
    <3>. QED BY <3>2 DEF Min
  <2>2. r = [g EXCEPT ![x] = new]
    BY <1>2 DEF heap_register_group, GroupOf
  <2>. HIDE DEF x, r
  <2>3. x \in 1..MaxGroups /\ g[x] = NoGroup /\ x \notin InUse(g)
    BY <2>1 DEF FreeSlots, InUse
  <2>4. new \in Groups /\ new # NoGroup /\ GroupRun(new) = RunAt(p, n)
    BY DEF Groups, NoGroup, NULL, GroupRun, GroupOf
  <2>. HIDE DEF new
  <2>5. /\ r \in [1..MaxGroups -> Groups \cup {NoGroup}]
        /\ r[x] = new /\ \A i \in 1..MaxGroups : i # x => r[i] = g[i]
    BY <1>0, <2>2, <2>3, <2>4
  <2>6. InUse(r) = InUse(g) \cup {x} /\ \A i \in InUse(g) : r[i] = g[i] /\ i # x
    BY <2>3, <2>4, <2>5 DEF InUse
  <2>7. \A i \in InUse(g) : GroupRun(r[i]) \subseteq P
    BY <2>6 DEF GroupInv
  <2>8. GroupInv(r, Q)
    <3>1. \A i \in InUse(r) : GroupRun(r[i]) \subseteq Q
      BY <2>4, <2>5, <2>6, <2>7
    <3>2. ASSUME NEW i \in InUse(r), NEW j \in InUse(r), i # j
          PROVE  GroupRun(r[i]) \cap GroupRun(r[j]) = {}
      <4>1. CASE i # x /\ j # x
        <5>1. i \in InUse(g) /\ j \in InUse(g) /\ r[i] = g[i] /\ r[j] = g[j]
          BY <2>6, <4>1
        <5>. QED BY <3>2, <5>1 DEF GroupInv
      <4>2. CASE i = x
        <5>1. j \in InUse(g) /\ r[i] = new
          BY <2>5, <2>6, <3>2, <4>2
        <5>. QED BY <2>4, <2>7, <5>1
      <4>3. CASE j = x
        <5>1. i \in InUse(g) /\ r[j] = new
          BY <2>5, <2>6, <3>2, <4>3
        <5>. QED BY <2>4, <2>7, <5>1
      <4>. QED BY <4>1, <4>2, <4>3
    <3>. QED BY <2>5, <3>1, <3>2 DEF GroupInv
  <2>9. \A i \in InUse(r) : (i \in InUse(g) /\ r[i] = g[i]) \/ r[i] = new
    BY <2>5, <2>6
  <2>. QED BY <2>8, <2>9 DEF Registered, r, new
<1>. QED BY <1>1, <1>2

(* A block of fresh units is put at the end of the list. *)
LEMMA Appended ==
  ASSUME NEW l \in Seq(Blocks), Apart(l), NEW b \in Blocks, ~b.used,
         UnitsOf(b) \cap UnitsIn(l) = {}
  PROVE  LET r == Append(l, b)
         IN /\ r \in Seq(Blocks) /\ Len(r) = Len(l) + 1 /\ r[Len(l) + 1] = b
            /\ \A i \in 1..Len(l) : r[i] = l[i]
            /\ Apart(r) /\ UnitsIn(r) = UnitsIn(l) \cup UnitsOf(b) /\ UsedOf(r) = UsedOf(l)
<1>. DEFINE r == Append(l, b)
            N == Len(l)
<1>1. N \in Nat /\ r \in Seq(Blocks) /\ Len(r) = N + 1 /\ r[N + 1] = b /\ \A i \in 1..N : r[i] = l[i]
  BY AppendProperties, LenProperties
<1>. HIDE DEF r
<1>2. \A i \in 1..N : UnitsOf(l[i]) \cap UnitsOf(b) = {}
  BY DEF UnitsIn, BlocksOf
<1>3. Apart(r)
  <2>. SUFFICES ASSUME NEW i \in 1..Len(r), NEW j \in 1..Len(r), i # j
                PROVE  UnitsOf(r[i]) \cap UnitsOf(r[j]) = {}
    BY DEF Apart
  <2>1. CASE i \in 1..N /\ j \in 1..N
    BY <1>1, <2>1 DEF Apart
  <2>2. CASE i = N + 1
    <3>1. j \in 1..N
      BY <1>1, <2>2
    <3>. QED BY <1>1, <1>2, <2>2, <3>1
  <2>3. CASE j = N + 1
    <3>1. i \in 1..N
      BY <1>1, <2>3
    <3>. QED BY <1>1, <1>2, <2>3, <3>1
  <2>. QED BY <1>1, <2>1, <2>2, <2>3
<1>4. BlocksOf(r) = BlocksOf(l) \cup {b}
  <2>1. 1..Len(r) = (1..N) \cup {N + 1}
    BY <1>1
  <2>. QED BY <1>1, <2>1 DEF BlocksOf
<1>5. UnitsIn(r) = UnitsIn(l) \cup UnitsOf(b)
  BY <1>4 DEF UnitsIn
<1>6. UsedOf(r) = UsedOf(l)
  BY <1>4 DEF UsedOf
<1>. QED BY <1>1, <1>3, <1>5, <1>6 DEF r

LEMMA HeapFields ==
  ASSUME NEW h \in Heaps
  PROVE  /\ h.list \in Seq(Blocks) /\ h.groups \in [1..MaxGroups -> Groups \cup {NoGroup}]
         /\ h.g_pages \in Int /\ h.g_used_bytes \in Int /\ h.g_used_blocks \in Int
         /\ h.pmm \in Mems
BY DEF Heaps

(* kmalloc takes the first block that fits. *)
LEMMA FirstFit ==
  ASSUME NEW l \in Seq(Blocks), NEW n \in Nat, Fits(l, n) # {}
  PROVE  /\ Min(Fits(l, n)) \in 1..Len(l)
         /\ ~l[Min(Fits(l, n))].used /\ l[Min(Fits(l, n))].size >= n
<1>1. Fits(l, n) \in SUBSET Nat
  BY LenProperties DEF Fits
<1>2. \E y \in Fits(l, n) : \A z \in Fits(l, n) : y <= z
  BY <1>1, LeastExists
<1>3. Min(Fits(l, n)) \in Fits(l, n)
  BY <1>2 DEF Min
<1>. QED BY <1>3 DEF Fits

LEMMA HeapTaken ==
  ASSUME NEW h, NEW S, Sound(h, S), NEW n \in Nat, Fits(h.list, n) # {}
  PROVE  LET t == Taken(h, n)
             k == Min(Fits(h.list, n))
         IN /\ Sound(t, S)
            /\ t.list = heap_split(h.list, k, n) /\ t.groups = h.groups /\ t.pmm = h.pmm
            /\ k \in 1..Len(h.list) /\ k \in 1..Len(t.list) /\ t.list[k].addr = h.list[k].addr
            /\ t.list[k].size >= n /\ t.list[k].used /\ t.list[k] \in Blocks
            /\ UsedOf(t.list) = UsedOf(h.list) \cup {t.list[k]}
            /\ t.list[k] \notin UsedOf(h.list)
<1>. DEFINE t == Taken(h, n)
            l == h.list
            k == Min(Fits(l, n))
            r == heap_split(l, k, n)
            b == r[k]
<1>0. h \in Heaps /\ l \in Seq(Blocks) /\ Apart(l) /\ h.g_used_bytes \in Int /\ h.g_used_blocks \in Int
  BY HeapFields DEF Sound
<1>1. k \in 1..Len(l) /\ ~l[k].used /\ l[k].size >= n
  <2>. HIDE DEF l
  <2>. QED BY <1>0, FirstFit DEF l
<1>2. t = [h EXCEPT !.list = r, !.g_used_bytes = @ + b.size, !.g_used_blocks = @ + 1]
  BY DEF Taken
<1>. HIDE DEF k, l, t
<1>3. /\ r \in Seq(Blocks) /\ Apart(r) /\ UnitsIn(r) = UnitsIn(l)
      /\ k \in 1..Len(r) /\ b.addr = l[k].addr /\ b.size >= n /\ b.used
      /\ UsedOf(r) = UsedOf(l) \cup {b} /\ b \notin UsedOf(l)
  BY <1>0, <1>1, BlockTaken
<1>. HIDE DEF r
<1>4. b \in Blocks /\ b.size \in Nat
  BY <1>3, ElementOfSeq, BlockUnits
<1>. HIDE DEF b
<1>5. UsedInv(r, h.g_used_bytes + b.size, h.g_used_blocks + 1)
  <2>. DEFINE x == h.g_used_bytes
              y == h.g_used_blocks
  <2>1. UsedInv(l, x, y) /\ x \in Int /\ y \in Int
    BY <1>0 DEF Sound, l
  <2>2. b \in UsedOf(r)
    BY <1>3
  <2>. HIDE DEF x, y
  <2>3. UsedInv(r, x + b.size, y + 1)
    BY <1>0, <1>3, <2>1, <2>2, UsedAdded
  <2>. QED BY <2>3 DEF x, y
<1>6. /\ t \in Heaps /\ t.list = r /\ t.groups = h.groups /\ t.pmm = h.pmm /\ t.g_pages = h.g_pages
      /\ t.g_used_bytes = h.g_used_bytes + b.size /\ t.g_used_blocks = h.g_used_blocks + 1
  <2>. DEFINE x == h.g_used_bytes + b.size
              y == h.g_used_blocks + 1
  <2>1. x \in Int /\ y \in Int
    BY <1>0, <1>4
  <2>2. t = [h EXCEPT !.list = r, !.g_used_bytes = x, !.g_used_blocks = y]
    BY <1>0, <1>2 DEF Heaps, b
  <2>3. r \in Seq(Blocks)
    BY <1>3
  <2>. HIDE DEF x, y
  <2>. QED BY <1>0, <2>1, <2>2, <2>3 DEF Heaps, x, y
<1>7. Sound(t, S)
  BY <1>3, <1>5, <1>6 DEF Sound, l
<1>. QED BY <1>1, <1>3, <1>4, <1>6, <1>7 DEF t, l, k, r, b

(* The block of fresh pages: its units are those of the pages. *)
FreshBlock(h, n) ==
  Block(FirstFreeRun(h.pmm, PagesFor(n)) * PageUnits, PagesFor(n) * PageUnits - Header, FALSE)

LEMMA Fresh ==
  ASSUME NEW h, NEW n \in Nat, FirstFreeRun(h.pmm, PagesFor(n)) \in Nat
  PROVE  LET f == FirstFreeRun(h.pmm, PagesFor(n))
             b == FreshBlock(h, n)
         IN /\ b \in Blocks /\ ~b.used /\ b.size >= n /\ b.addr = f * PageUnits
            /\ EndOf(b) = (f + PagesFor(n)) * PageUnits
            /\ UnitsOf(b) = PagesUnits(RunAt(f, PagesFor(n)))
<1>. DEFINE f == FirstFreeRun(h.pmm, PagesFor(n))
            c == PagesFor(n)
            x == f * PageUnits
            y == c * PageUnits
            z == (f + c) * PageUnits
            b == Block(x, y - Header, FALSE)
<1>1. c \in Nat \ {0} /\ y \in Nat /\ y >= n + Header /\ Header \in Nat \ {0}
  BY PagesForFits, Positive
<1>. HIDE DEF c, f
<1>2. PagesUnits(RunAt(f, c)) = x..(z - 1) /\ x \in Nat /\ z = x + y
  <2>1. f \in Nat
    BY DEF f, c
  <2>. QED BY <1>1, <2>1, UnitsOfRun
<1>. HIDE DEF x, y, z
<1>3. y - Header \in Nat /\ y - Header >= n
  BY <1>1
<1>4. b \in Blocks /\ b.addr = x /\ b.size = y - Header /\ b.used = FALSE
  <2>. DEFINE w == y - Header
  <2>. HIDE DEF w
  <2>1. w \in Nat
    BY <1>3 DEF w
  <2>2. /\ Block(x, w, FALSE) \in Blocks /\ Block(x, w, FALSE).addr = x
        /\ Block(x, w, FALSE).size = w /\ Block(x, w, FALSE).used = FALSE
    BY <1>2, <2>1, BlockFields
  <2>. QED BY <2>2 DEF w
<1>5. b = FreshBlock(h, n)
  BY DEF FreshBlock, x, y, c, f
<1>. HIDE DEF b
<1>6. EndOf(b) = z
  BY <1>1, <1>2, <1>4, BlockUnits
<1>7. UnitsOf(b) = x..(z - 1)
  BY <1>4, <1>6 DEF UnitsOf
<1>. QED BY <1>2, <1>3, <1>4, <1>5, <1>6, <1>7 DEF x, z, f, c

LEMMA HeapGrown ==
  ASSUME NEW h, NEW S, Sound(h, S), NEW n \in Nat, FirstFreeRun(h.pmm, PagesFor(n)) # NULL
  PROVE  LET t == heap_new_block(h, n)
             f == FirstFreeRun(h.pmm, PagesFor(n))
             b == FreshBlock(h, n)
         IN /\ Sound(t, S) /\ UsedOf(t.list) = UsedOf(h.list) /\ Fits(t.list, n) # {}
            /\ f \in Nat /\ UnitsOf(b) \cap UnitsIn(h.list) = {}
            /\ t.list = heap_coalesce(Append(h.list, b), Len(h.list) + 1)
            /\ t.groups = heap_register_group(h.groups, f, PagesFor(n))
            /\ HeapOf(h.pmm, S) \cap RunAt(f, PagesFor(n)) = {}
<1>. DEFINE t == heap_new_block(h, n)
            f == FirstFreeRun(h.pmm, PagesFor(n))
            b == FreshBlock(h, n)
            c == PagesFor(n)
            l == h.list
            N == Len(l)
            m == pmm_alloc_pages_contiguous(h.pmm, c)
            a == Append(l, b)
            r == heap_coalesce(a, N + 1)
            g == heap_register_group(h.groups, f, c)
            P == HeapOf(h.pmm, S)
            run == RunAt(f, c)
<1>0. /\ h \in Heaps /\ l \in Seq(Blocks) /\ Apart(l) /\ MemInv(h.pmm, S)
      /\ GroupInv(h.groups, P) /\ UnitsIn(l) = PagesUnits(P) /\ h.g_pages \in Int
      /\ h.g_pages = Cardinality(P)
  BY HeapFields DEF Sound
<1>1. c \in Nat \ {0}
  BY PagesForFits
<1>2. t = [h EXCEPT !.list = r, !.groups = g, !.g_pages = @ + c, !.pmm = m]
  BY DEF heap_new_block, FreshBlock
<1>3. /\ MemInv(m, S) /\ f \in Nat /\ run \in SUBSET Pages
      /\ HeapOf(m, S) = P \cup run /\ P \cap run = {}
      /\ Cardinality(HeapOf(m, S)) = Cardinality(P) + c
  <2>. HIDE DEF c
  <2>. QED BY <1>0, <1>1, HeapPagesTaken DEF c
<1>4. b \in Blocks /\ ~b.used /\ b.size >= n /\ UnitsOf(b) = PagesUnits(run)
  BY <1>3, Fresh
<1>. HIDE DEF t, f, b, c, P, l
<1>i. P \in SUBSET Int /\ run \in SUBSET Int
  <2>1. P \in SUBSET Pages /\ Pages \in SUBSET Int
    BY <1>0, StackedInUse DEF P
  <2>. QED BY <1>3, <2>1
<1>. HIDE DEF run, m
<1>5. UnitsOf(b) \cap UnitsIn(l) = {}
  <2>1. P \cap run = {}
    BY <1>3
  <2>2. PagesUnits(P) \cap PagesUnits(run) = {}
    BY <1>i, <2>1, PagesUnitsOps
  <2>. QED BY <1>0, <1>4, <2>2
<1>6. /\ a \in Seq(Blocks) /\ Len(a) = N + 1 /\ a[N + 1] = b
      /\ Apart(a) /\ UnitsIn(a) = UnitsIn(l) \cup UnitsOf(b) /\ UsedOf(a) = UsedOf(l)
  BY <1>0, <1>4, <1>5, Appended
<1>. HIDE DEF a
<1>7. /\ r \in Seq(Blocks) /\ Apart(r) /\ UnitsIn(r) = UnitsIn(a) /\ UsedOf(r) = UsedOf(a)
      /\ \E k \in 1..Len(r) : ~r[k].used /\ r[k].size >= b.size
  <2>. DEFINE e == N + 1
  <2>1. e \in 1..Len(a) /\ a[e] = b
    BY <1>0, <1>6, LenProperties
  <2>. HIDE DEF e
  <2>2. /\ heap_coalesce(a, e) \in Seq(Blocks) /\ Apart(heap_coalesce(a, e))
        /\ UnitsIn(heap_coalesce(a, e)) = UnitsIn(a) /\ UsedOf(heap_coalesce(a, e)) = UsedOf(a)
        /\ CoalesceStart(a, e) \in 1..Len(heap_coalesce(a, e))
        /\ ~heap_coalesce(a, e)[CoalesceStart(a, e)].used
        /\ heap_coalesce(a, e)[CoalesceStart(a, e)].size >= a[e].size
    BY <1>4, <1>6, <2>1, Coalesced
  <2>. QED BY <2>1, <2>2 DEF e
<1>. HIDE DEF r
<1>8. Fits(r, n) # {}
  <2>1. PICK k \in 1..Len(r) : ~r[k].used /\ r[k].size >= b.size
    BY <1>7
  <2>2. r[k] \in Blocks
    BY <1>7, ElementOfSeq
  <2>3. r[k].size \in Nat /\ b.size \in Nat
    BY <1>4, <2>2, BlockUnits
  <2>4. r[k].size >= n
    BY <1>4, <2>1, <2>3
  <2>5. k \in Fits(r, n)
    BY <2>1, <2>4 DEF Fits
  <2>. QED BY <2>5
<1>9. GroupInv(g, P \cup run)
  BY <1>0, <1>1, <1>3, GroupRegistered DEF run
<1>10. g \in [1..MaxGroups -> Groups \cup {NoGroup}] /\ m \in Mems
  BY <1>3, <1>9 DEF GroupInv, MemInv
<1>. HIDE DEF g
<1>11. /\ t \in Heaps /\ t.list = r /\ t.groups = g /\ t.pmm = m /\ t.g_pages = h.g_pages + c
       /\ t.g_used_bytes = h.g_used_bytes /\ t.g_used_blocks = h.g_used_blocks
  <2>. DEFINE x == h.g_pages + c
  <2>1. x \in Int
    BY <1>0, <1>1
  <2>2. t = [h EXCEPT !.list = r, !.groups = g, !.g_pages = x, !.pmm = m]
    BY <1>0, <1>2 DEF Heaps
  <2>3. r \in Seq(Blocks)
    BY <1>7
  <2>. HIDE DEF x
  <2>. QED BY <1>0, <1>10, <2>1, <2>2, <2>3 DEF Heaps, x
<1>12. UnitsIn(r) = PagesUnits(HeapOf(m, S))
  <2>1. PagesUnits(P \cup run) = PagesUnits(P) \cup PagesUnits(run)
    BY <1>i, PagesUnitsOps
  <2>. QED BY <1>0, <1>3, <1>4, <1>6, <1>7, <2>1
<1>13. UsedInv(r, h.g_used_bytes, h.g_used_blocks)
  <2>1. UsedOf(r) = UsedOf(l) /\ PayloadIn(r) = PayloadIn(l)
    BY <1>6, <1>7 DEF PayloadIn
  <2>2. UsedInv(l, h.g_used_bytes, h.g_used_blocks)
    BY DEF Sound, l
  <2>. QED BY <2>1, <2>2 DEF UsedInv
<1>14. Sound(t, S)
  <2>1. t.g_pages = Cardinality(HeapOf(m, S))
    BY <1>0, <1>3, <1>11
  <2>. QED BY <1>3, <1>7, <1>9, <1>11, <1>12, <1>13, <2>1 DEF Sound
<1>. QED BY <1>3, <1>5, <1>6, <1>7, <1>8, <1>11, <1>14 DEF t, f, b, c, l, P, a, r, g, run

(* kmalloc: a new used block of at least n units, beside those there were. *)
LEMMA Allocated ==
  ASSUME NEW h, NEW S, Sound(h, S), NEW n \in Nat, CanAllocate(h, n)
  PROVE  LET t == Kmalloc(h, n).heap
             a == Kmalloc(h, n).addr
         IN /\ Sound(t, S)
            /\ \E b \in UsedOf(t.list) :
                 /\ b \notin UsedOf(h.list) /\ UsedOf(t.list) = UsedOf(h.list) \cup {b}
                 /\ b.addr = a /\ b.size >= n
<1>. DEFINE g == Grown(h, n)
            k == Min(Fits(g.list, n))
            t == Taken(g, n)
            b == t.list[k]
<1>1. Kmalloc(h, n).heap = t /\ Kmalloc(h, n).addr = g.list[k].addr
  BY DEF Kmalloc
<1>2. Sound(g, S) /\ UsedOf(g.list) = UsedOf(h.list) /\ Fits(g.list, n) # {}
  <2>1. CASE Fits(h.list, n) # {}
    BY <2>1 DEF Grown
  <2>2. CASE Fits(h.list, n) = {}
    <3>1. FirstFreeRun(h.pmm, PagesFor(n)) # NULL /\ g = heap_new_block(h, n)
      BY <2>2 DEF CanAllocate, Grown
    <3>. QED BY <3>1, HeapGrown
  <2>. QED BY <2>1, <2>2
<1>. HIDE DEF g
<1>3. /\ Sound(t, S) /\ k \in 1..Len(t.list) /\ b.addr = g.list[k].addr /\ b.size >= n /\ b.used
      /\ UsedOf(t.list) = UsedOf(g.list) \cup {b} /\ b \notin UsedOf(g.list)
  BY <1>2, HeapTaken
<1>. HIDE DEF t, b
<1>4. b \in UsedOf(t.list)
  BY <1>3
<1>. QED BY <1>1, <1>2, <1>3, <1>4

-----------------------------------------------------------------------------
(* heap_try_reclaim: the groups inside a block. *)
LEMMA ApartCounted ==
  ASSUME NEW A, NEW B, IsFiniteSet(A), IsFiniteSet(B), A \cap B = {}
  PROVE  IsFiniteSet(A \cup B) /\ Cardinality(A \cup B) = Cardinality(A) + Cardinality(B)
<1>1. /\ IsFiniteSet(A \cup B)
      /\ Cardinality(A \cup B) = Cardinality(A) + Cardinality(B) - Cardinality(A \cap B)
  BY FS_Union
<1>2. Cardinality(A \cap B) = 0 /\ Cardinality(A) \in Nat /\ Cardinality(B) \in Nat
  BY FS_EmptySet, FS_CardinalityType
<1>. QED BY <1>1, <1>2

LEMMA RunCounted ==
  ASSUME NEW p \in Nat, NEW n \in Nat \ {0}
  PROVE  /\ IsFiniteSet(RunAt(p, n)) /\ Cardinality(RunAt(p, n)) = n
         /\ IsFiniteSet(PagesUnits(RunAt(p, n)))
         /\ Cardinality(PagesUnits(RunAt(p, n))) = n * PageUnits
<1>1. p + n - 1 \in Int /\ ~(p > p + n - 1) /\ (p + n - 1) - p + 1 = n
  OBVIOUS
<1>2. IsFiniteSet(p..(p + n - 1)) /\ Cardinality(p..(p + n - 1)) = (p + n - 1) - p + 1
  BY <1>1, FS_Interval
<1>. DEFINE x == p * PageUnits
            y == n * PageUnits
            z == (p + n) * PageUnits
<1>3. /\ PagesUnits(RunAt(p, n)) = x..(z - 1) /\ x \in Nat /\ z = x + y /\ y \in Nat \ {0}
  BY UnitsOfRun
<1>. HIDE DEF x, y, z
<1>4. z - 1 \in Int /\ ~(x > z - 1) /\ (z - 1) - x + 1 = y
  BY <1>3
<1>5. IsFiniteSet(x..(z - 1)) /\ Cardinality(x..(z - 1)) = (z - 1) - x + 1
  BY <1>3, <1>4, FS_Interval
<1>6. Cardinality(PagesUnits(RunAt(p, n))) = y /\ IsFiniteSet(PagesUnits(RunAt(p, n)))
  BY <1>3, <1>4, <1>5
<1>. QED BY <1>1, <1>2, <1>6 DEF RunAt, y

PagesIn(g, I) == UNION {GroupRun(g[i]) : i \in I}

(* The loop over the groups adds up the pages of those inside the block.   *)
LEMMA CoveredCounted ==
  ASSUME NEW h \in Heaps, NEW P \in SUBSET Pages, GroupInv(h.groups, P), NEW b
  PROVE  LET C == PagesIn(h.groups, Covered(h, b))
         IN /\ IsFiniteSet(C) /\ CoveredPages(h, b) = Cardinality(C)
            /\ CoveredPages(h, b) \in Nat
            /\ IsFiniteSet(PagesUnits(C))
            /\ CoveredPages(h, b) * PageUnits = Cardinality(PagesUnits(C))
<1>. DEFINE g == h.groups
            V == Covered(h, b)
            n == MaxGroups
            Add(i) == IF i \in V THEN g[i].npages ELSE 0
            F(c) == [i \in 0..n |-> IF i = 0 THEN 0 ELSE c[i - 1] + Add(i)]
            covered == CHOOSE c : c = F(c)
            turn == [i \in 1..n |-> [x \in Nat |-> x + Add(i)]]
<1>0. /\ n \in Nat /\ g \in [1..n -> Groups \cup {NoGroup}] /\ V \subseteq InUse(g)
      /\ InUse(g) \subseteq 1..n
  BY HeapAssumption DEF Covered, Inside, InUse, GroupInv
<1>g. \A i \in V : g[i] \in Groups /\ g[i].page \in Nat /\ g[i].npages \in Nat \ {0}
  BY <1>0 DEF InUse, Groups
<1>1. \A i \in 1..n : Add(i) \in Nat
  BY <1>g
<1>6. CoveredPages(h, b) = covered[n]
  BY DEF CoveredPages
<1>. HIDE DEF Add, V, g, n
<1>2. turn \in [1..n -> [Nat -> Nat]]
  BY <1>1
<1>r. \E c : Runs(c, n, Nat, 0, turn)
  <2>. HIDE DEF turn
  <2>. QED BY <1>0, <1>2, LoopExists
<1>3. PICK c : c \in [0..n -> Nat] /\ c[0] = 0 /\ \A i \in 1..n : c[i] = turn[i][c[i - 1]]
  BY <1>r DEF Runs
<1>4. c = F(c)
  <2>1. ASSUME NEW i \in 1..n PROVE c[i] = c[i - 1] + Add(i)
    <3>1. c[i - 1] \in Nat
      BY <1>0, <1>3
    <3>. QED BY <1>3, <3>1
  <2>. QED BY <1>0, <1>3, <2>1
<1>5. covered = F(covered)
  BY <1>4, Zenon
<1>. HIDE DEF covered
<1>7. covered[0] = 0 /\ \A i \in 1..n : covered[i] = covered[i - 1] + Add(i)
  BY <1>0, <1>5
<1>. DEFINE W(i) == PagesIn(g, V \cap (1..i))
            Good(i) == /\ IsFiniteSet(W(i)) /\ covered[i] = Cardinality(W(i)) /\ W(i) \in SUBSET Int
                       /\ covered[i] \in Nat /\ IsFiniteSet(PagesUnits(W(i)))
                       /\ covered[i] * PageUnits = Cardinality(PagesUnits(W(i)))
            T == {i \in 0..n : Good(i)}
<1>8. 0 \in T
  <2>1. W(0) = {} /\ PagesUnits({}) = {}
    BY DEF PagesIn, PagesUnits
  <2>2. IsFiniteSet({}) /\ Cardinality({}) = 0 /\ 0 * PageUnits = 0
    BY FS_EmptySet, Positive
  <2>3. 0 \in 0..n
    BY <1>0
  <2>. HIDE DEF W
  <2>4. Good(0)
    <3>1. IsFiniteSet(W(0)) /\ Cardinality(W(0)) = 0 /\ W(0) \in SUBSET Int
      BY <2>1, <2>2
    <3>2. IsFiniteSet(PagesUnits(W(0))) /\ Cardinality(PagesUnits(W(0))) = 0
      BY <2>1, <2>2
    <3>3. covered[0] = 0 /\ covered[0] * PageUnits = 0
      BY <1>7, <2>2
    <3>. QED BY <3>1, <3>2, <3>3
  <2>. HIDE DEF Good
  <2>. QED BY <2>3, <2>4
<1>9. ASSUME NEW i \in 1..n, i - 1 \in T PROVE i \in T
  <2>0. i \in 0..n /\ Good(i - 1) /\ covered[i] = covered[i - 1] + Add(i)
    <3>. HIDE DEF Good
    <3>1. Good(i - 1)
      BY <1>9
    <3>. QED BY <1>0, <1>7, <3>1
  <2>1. CASE i \notin V
    <3>1. V \cap (1..i) = V \cap (1..(i - 1))
      BY <1>0, <2>1
    <3>2. W(i) = W(i - 1)
      BY <3>1
    <3>3. covered[i - 1] \in Nat /\ Add(i) = 0
      BY <2>0, <2>1 DEF Add
    <3>4. covered[i] = covered[i - 1]
      BY <2>0, <3>3
    <3>. HIDE DEF W
    <3>. QED BY <2>0, <3>2, <3>4
  <2>2. CASE i \in V
    <3>. DEFINE X == W(i - 1)
                Y == GroupRun(g[i])
                x == covered[i - 1]
                y == g[i].npages
                p == g[i].page
    <3>1. p \in Nat /\ y \in Nat \ {0} /\ Add(i) = y /\ Y = RunAt(p, y)
      BY <1>g, <2>2 DEF Add, GroupRun
    <3>2. W(i) = X \cup Y
      <4>1. V \cap (1..i) = (V \cap (1..(i - 1))) \cup {i}
        BY <1>0, <2>2
      <4>. QED BY <4>1 DEF PagesIn
    <3>3. X \cap Y = {}
      <4>1. ASSUME NEW j \in V \cap (1..(i - 1)) PROVE GroupRun(g[j]) \cap GroupRun(g[i]) = {}
        <5>1. j # i /\ j \in InUse(g) /\ i \in InUse(g)
          BY <1>0, <2>2
        <5>. QED BY <5>1 DEF GroupInv, g
      <4>. QED BY <4>1 DEF PagesIn
    <3>4. /\ IsFiniteSet(X) /\ x = Cardinality(X) /\ x \in Nat /\ IsFiniteSet(PagesUnits(X))
          /\ x * PageUnits = Cardinality(PagesUnits(X)) /\ covered[i] = x + y /\ X \in SUBSET Int
      BY <2>0, <3>1
    <3>. HIDE DEF W, X, Y, x, y, p
    <3>5. /\ IsFiniteSet(Y) /\ Cardinality(Y) = y /\ IsFiniteSet(PagesUnits(Y))
          /\ Cardinality(PagesUnits(Y)) = y * PageUnits
      BY <3>1, RunCounted
    <3>6. Y \in SUBSET Int
      BY <3>1 DEF RunAt
    <3>7. /\ PagesUnits(X \cup Y) = PagesUnits(X) \cup PagesUnits(Y)
          /\ PagesUnits(X) \cap PagesUnits(Y) = {}
      <4>1. X \in SUBSET Int
        BY <3>4
      <4>. QED BY <3>3, <3>6, <4>1, PagesUnitsOps
    <3>8. IsFiniteSet(X \cup Y) /\ Cardinality(X \cup Y) = x + y
      BY <3>3, <3>4, <3>5, ApartCounted
    <3>9. /\ IsFiniteSet(PagesUnits(X \cup Y))
          /\ Cardinality(PagesUnits(X \cup Y)) = x * PageUnits + y * PageUnits
      <4>. DEFINE A == PagesUnits(X)
                  B == PagesUnits(Y)
      <4>. HIDE DEF A, B
      <4>1. IsFiniteSet(A) /\ IsFiniteSet(B) /\ A \cap B = {}
        BY <3>4, <3>5, <3>7 DEF A, B
      <4>2. IsFiniteSet(A \cup B) /\ Cardinality(A \cup B) = Cardinality(A) + Cardinality(B)
        BY <4>1, ApartCounted
      <4>. QED BY <3>4, <3>5, <3>7, <4>2 DEF A, B
    <3>10. (x + y) * PageUnits = x * PageUnits + y * PageUnits /\ x + y \in Nat
      BY <3>1, <3>4, Positive
    <3>11. Good(i)
      BY <3>2, <3>4, <3>6, <3>8, <3>9, <3>10
    <3>. HIDE DEF Good
    <3>. QED BY <2>0, <3>11
  <2>. QED BY <2>1, <2>2
<1>. HIDE DEF T
<1>10. 0..n \subseteq T
  BY <1>0, <1>8, <1>9, TurnByTurn
<1>11. Good(n)
  BY <1>0, <1>10 DEF T
<1>12. V \cap (1..n) = V
  BY <1>0
<1>. QED BY <1>6, <1>11, <1>12 DEF V, g

LEMMA GroupUnits ==
  ASSUME NEW g \in Groups
  PROVE  /\ PagesUnits(GroupRun(g)) = StartOf(g)..(StopOf(g) - 1)
         /\ StartOf(g) \in Nat /\ StopOf(g) \in Nat /\ StartOf(g) < StopOf(g)
         /\ GroupRun(g) \in SUBSET Int
<1>. DEFINE p == g.page
            n == g.npages
            x == p * PageUnits
            y == n * PageUnits
            z == (p + n) * PageUnits
<1>1. p \in Nat /\ n \in Nat \ {0}
  BY DEF Groups
<1>. HIDE DEF p, n
<1>2. PagesUnits(RunAt(p, n)) = x..(z - 1) /\ x \in Nat /\ z = x + y /\ y \in Nat \ {0}
  BY <1>1, UnitsOfRun
<1>3. RunAt(p, n) \in SUBSET Int
  BY <1>1 DEF RunAt
<1>4. RunAt(p, n) = GroupRun(g) /\ x = StartOf(g) /\ z = StopOf(g)
  BY DEF GroupRun, StartOf, StopOf, p, n
<1>. HIDE DEF x, y, z
<1>5. z \in Nat /\ x < z
  BY <1>2
<1>. QED BY <1>2, <1>3, <1>4, <1>5

LEMMA CoveredUnits ==
  ASSUME NEW h \in Heaps, NEW b \in Blocks
  PROVE  /\ PagesUnits(PagesIn(h.groups, Covered(h, b))) \subseteq UnitsOf(b)
         /\ Covered(h, b) \subseteq InUse(h.groups)
         /\ \A i \in InUse(h.groups) : h.groups[i] \in Groups
<1>. DEFINE g == h.groups
            V == Covered(h, b)
<1>0. g \in [1..MaxGroups -> Groups \cup {NoGroup}]
  BY HeapFields
<1>1. V \subseteq InUse(g) /\ \A i \in InUse(g) : g[i] \in Groups
  BY <1>0 DEF Covered, Inside, InUse
<1>2. \A i \in V : StartOf(g[i]) >= b.addr /\ StopOf(g[i]) <= EndOf(b)
  BY DEF Covered, Inside, StartOf, StopOf
<1>. HIDE DEF g, V
<1>3. ASSUME NEW u \in PagesUnits(PagesIn(g, V)) PROVE u \in UnitsOf(b)
  <2>1. PICK q \in PagesIn(g, V) : u \in (q * PageUnits)..((q + 1) * PageUnits - 1)
    BY DEF PagesUnits
  <2>2. PICK i \in V : q \in GroupRun(g[i])
    BY DEF PagesIn
  <2>3. u \in PagesUnits(GroupRun(g[i]))
    BY <2>1, <2>2 DEF PagesUnits
  <2>4. u \in StartOf(g[i])..(StopOf(g[i]) - 1) /\ StartOf(g[i]) \in Nat /\ StopOf(g[i]) \in Nat
    BY <1>1, <2>3, GroupUnits
  <2>5. b.addr \in Nat /\ EndOf(b) \in Nat
    BY BlockUnits
  <2>6. u \in b.addr..(EndOf(b) - 1)
    BY <1>2, <2>4, <2>5
  <2>. QED BY <2>6 DEF UnitsOf
<1>. QED BY <1>1, <1>3 DEF g, V

LEMMA BlockCounted ==
  ASSUME NEW b \in Blocks
  PROVE  IsFiniteSet(UnitsOf(b)) /\ Cardinality(UnitsOf(b)) = EndOf(b) - b.addr
<1>. DEFINE x == b.addr
            z == EndOf(b)
<1>1. x \in Nat /\ z \in Nat /\ x < z
  BY BlockUnits
<1>. HIDE DEF x, z
<1>2. z - 1 \in Int /\ ~(x > z - 1) /\ (z - 1) - x + 1 = z - x
  BY <1>1
<1>3. IsFiniteSet(x..(z - 1)) /\ Cardinality(x..(z - 1)) = (z - 1) - x + 1
  BY <1>1, <1>2, FS_Interval
<1>. QED BY <1>2, <1>3 DEF UnitsOf, x, z

(* A block that is as large as the groups inside it consists of them. *)
LEMMA ReclaimableIsGroups ==
  ASSUME NEW h \in Heaps, NEW P \in SUBSET Pages, GroupInv(h.groups, P), NEW b \in Blocks,
         Reclaimable(h, b)
  PROVE  UnitsOf(b) = PagesUnits(PagesIn(h.groups, Covered(h, b)))
<1>. DEFINE C == PagesUnits(PagesIn(h.groups, Covered(h, b)))
            U == UnitsOf(b)
<1>1. IsFiniteSet(C) /\ CoveredPages(h, b) * PageUnits = Cardinality(C)
  BY CoveredCounted
<1>2. C \subseteq U
  BY CoveredUnits
<1>3. IsFiniteSet(U) /\ Cardinality(U) = EndOf(b) - b.addr
  BY BlockCounted
<1>4. Cardinality(U) = Cardinality(C)
  BY <1>1, <1>3 DEF Reclaimable
<1>. HIDE DEF C, U
<1>5. C = U
  BY <1>1, <1>2, <1>3, <1>4, FS_Subset
<1>. QED BY <1>5 DEF C, U

LEMMA GroupsForgotten ==
  ASSUME NEW h, NEW b, NEW P, GroupInv(h.groups, P)
  PROVE  LET g == ReclaimedGroups(h, b)
         IN /\ GroupInv(g, P \ PagesIn(h.groups, Covered(h, b)))
            /\ InUse(g) = InUse(h.groups) \ Covered(h, b)
            /\ \A i \in InUse(g) : g[i] = h.groups[i]
<1>. DEFINE g == ReclaimedGroups(h, b)
            f == h.groups
            V == Covered(h, b)
<1>1. f \in [1..MaxGroups -> Groups \cup {NoGroup}]
  BY DEF GroupInv
<1>2. /\ g = [i \in 1..MaxGroups |-> IF i \in V THEN NoGroup ELSE f[i]]
      /\ V \subseteq InUse(f)
  BY DEF ReclaimedGroups, Covered, Inside, InUse
<1>. HIDE DEF g, V
<1>3. g \in [1..MaxGroups -> Groups \cup {NoGroup}]
  BY <1>1, <1>2
<1>4. InUse(g) = InUse(f) \ V /\ \A i \in InUse(g) : g[i] = f[i]
  BY <1>2 DEF InUse
<1>5. \A i \in InUse(g) : GroupRun(g[i]) \subseteq P \ PagesIn(f, V)
  <2>. SUFFICES ASSUME NEW i \in InUse(g) PROVE GroupRun(f[i]) \subseteq P \ PagesIn(f, V)
    BY <1>4
  <2>1. GroupRun(f[i]) \subseteq P
    BY <1>4 DEF GroupInv
  <2>2. \A j \in V : GroupRun(f[i]) \cap GroupRun(f[j]) = {}
    BY <1>2, <1>4 DEF GroupInv
  <2>. QED BY <2>1, <2>2 DEF PagesIn
<1>6. \A i, j \in InUse(g) : i # j => GroupRun(g[i]) \cap GroupRun(g[j]) = {}
  BY <1>4 DEF GroupInv
<1>7. GroupInv(g, P \ PagesIn(f, V))
  BY <1>3, <1>5, <1>6 DEF GroupInv
<1>. QED BY <1>4, <1>7 DEF g, V

(* A free block is unlinked: the units that the list spans lose its own.   *)
LEMMA Unlinked ==
  ASSUME NEW l \in Seq(Blocks), Apart(l), NEW k \in 1..Len(l), ~l[k].used
  PROVE  LET r == Relink(l, k, k, <<>>)
         IN /\ r \in Seq(Blocks) /\ Apart(r) /\ UsedOf(r) = UsedOf(l)
            /\ UnitsIn(r) = UnitsIn(l) \ UnitsOf(l[k])
<1>. DEFINE mid == <<>>
            r == Relink(l, k, k, mid)
<1>0. k \in k..Len(l) /\ Len(l) \in Nat
  BY LenProperties
<1>1. mid \in Seq(Blocks) /\ Len(mid) = 0
  OBVIOUS
<1>. HIDE DEF mid
<1>2. BlocksOf(mid) = {} /\ UnitsIn(mid) = {} /\ Apart(mid)
  <2>1. 1..Len(mid) = {}
    BY <1>1
  <2>. QED BY <2>1 DEF BlocksOf, UnitsIn, Apart
<1>3. SpanOf(l, k, k) = UnitsOf(l[k])
  <2>1. k..k = {k}
    OBVIOUS
  <2>. QED BY <2>1 DEF SpanOf
<1>4. /\ Apart(r) /\ BlocksOf(r) = Kept(l, k, k) \cup BlocksOf(mid)
      /\ UnitsIn(r) = (UnitsIn(l) \ SpanOf(l, k, k)) \cup UnitsIn(mid)
  <2>1. UnitsIn(mid) \subseteq SpanOf(l, k, k)
    BY <1>2
  <2>2. mid \in Seq(Blocks) /\ Apart(mid)
    BY <1>1, <1>2
  <2>. QED BY <1>0, <2>1, <2>2, RelinkKeeps
<1>5. r \in Seq(Blocks)
  BY <1>0, <1>1, Relinked
<1>6. UsedOf(r) = UsedOf(l)
  <2>1. ASSUME NEW x \in BlocksOf(l), x.used PROVE x \in Kept(l, k, k)
    <3>1. PICK i \in 1..Len(l) : x = l[i]
      BY DEF BlocksOf
    <3>2. i \notin k..k
      BY <2>1, <3>1
    <3>. QED BY <3>1, <3>2 DEF Kept
  <2>2. Kept(l, k, k) \subseteq BlocksOf(l)
    BY DEF Kept, BlocksOf
  <2>. QED BY <1>2, <1>4, <2>1, <2>2 DEF UsedOf
<1>7. UnitsIn(r) = UnitsIn(l) \ UnitsOf(l[k])
  BY <1>2, <1>3, <1>4
<1>. QED BY <1>4, <1>5, <1>6, <1>7 DEF mid

LEMMA HeapPagesFreed ==
  ASSUME NEW m, NEW S, MemInv(m, S), NEW C \in SUBSET HeapOf(m, S)
  PROVE  LET r == pmm_free_pages(m, C)
         IN /\ MemInv(r, S) /\ HeapOf(r, S) = HeapOf(m, S) \ C
            /\ Cardinality(HeapOf(r, S)) = Cardinality(HeapOf(m, S)) - Cardinality(C)
<1>. DEFINE r == pmm_free_pages(m, C)
            P == HeapOf(m, S)
<1>0. m \in Mems /\ m.free_pages = Cardinality(Pages \ m.bitmap)
  BY DEF MemInv
<1>1. r \in Mems /\ r.bitmap = m.bitmap \ C /\ r.free_pages = Cardinality(Pages \ r.bitmap)
  BY <1>0, PagesFreed
<1>. HIDE DEF r
<1>2. C \cap pmm_init.bitmap = {} /\ \A p \in S : C \cap RunAt(p, StackPages) = {}
  BY DEF HeapOf, Stacked
<1>3. MemInv(r, S)
  BY <1>1, <1>2 DEF MemInv
<1>4. HeapOf(r, S) = P \ C
  BY <1>1 DEF HeapOf
<1>5. IsFiniteSet(P)
  BY StackedInUse, PagesAreFinite
<1>. HIDE DEF P
<1>6. Cardinality(P \ C) = Cardinality(P) - Cardinality(P \cap C)
  BY <1>5, FS_Difference
<1>7. P \cap C = C
  BY DEF P
<1>. QED BY <1>3, <1>4, <1>6, <1>7 DEF r, P

LEMMA Reclaimed ==
  ASSUME NEW h, NEW S, Sound(h, S), NEW k \in 1..Len(h.list), ~h.list[k].used
  PROVE  LET t == heap_try_reclaim(h, k)
         IN Sound(t, S) /\ UsedOf(t.list) = UsedOf(h.list)
<1>. DEFINE t == heap_try_reclaim(h, k)
            b == h.list[k]
            P == HeapOf(h.pmm, S)
            C == PagesIn(h.groups, Covered(h, b))
            g == ReclaimedGroups(h, b)
            m == pmm_free_pages(h.pmm, C)
            r == Relink(h.list, k, k, <<>>)
<1>0. /\ h \in Heaps /\ h.list \in Seq(Blocks) /\ Apart(h.list) /\ MemInv(h.pmm, S)
      /\ GroupInv(h.groups, P) /\ UnitsIn(h.list) = PagesUnits(P) /\ h.g_pages \in Int
      /\ h.g_pages = Cardinality(P) /\ b \in Blocks
  BY HeapFields, ElementOfSeq DEF Sound
<1>1. CASE ~Reclaimable(h, b)
  <2>1. t = h
    BY <1>1 DEF heap_try_reclaim
  <2>. QED BY <2>1
<1>2. CASE Reclaimable(h, b)
  <2>1. t = [h EXCEPT !.list = r, !.groups = g, !.g_pages = @ - CoveredPages(h, b), !.pmm = m]
    BY <1>2 DEF heap_try_reclaim, PagesIn, GroupRun
  <2>2. /\ P \in SUBSET Pages /\ P \in SUBSET Int
    BY <1>0, StackedInUse
  <2>3. UnitsOf(b) = PagesUnits(C)
    BY <1>0, <1>2, <2>2, ReclaimableIsGroups
  <2>4. CoveredPages(h, b) = Cardinality(C) /\ CoveredPages(h, b) \in Nat
    BY <1>0, <2>2, CoveredCounted
  <2>5. C \subseteq P
    <3>1. Covered(h, b) \subseteq InUse(h.groups)
      BY <1>0, CoveredUnits
    <3>2. \A i \in InUse(h.groups) : GroupRun(h.groups[i]) \subseteq P
      BY <1>0 DEF GroupInv
    <3>. QED BY <3>1, <3>2 DEF PagesIn
  <2>6. GroupInv(g, P \ C)
    BY <1>0, GroupsForgotten
  <2>7. /\ r \in Seq(Blocks) /\ Apart(r) /\ UsedOf(r) = UsedOf(h.list)
        /\ UnitsIn(r) = UnitsIn(h.list) \ UnitsOf(b)
    <3>. DEFINE l == h.list
    <3>1. l \in Seq(Blocks) /\ Apart(l) /\ k \in 1..Len(l) /\ ~l[k].used
      BY <1>0
    <3>. HIDE DEF l
    <3>2. /\ Relink(l, k, k, <<>>) \in Seq(Blocks) /\ Apart(Relink(l, k, k, <<>>))
          /\ UsedOf(Relink(l, k, k, <<>>)) = UsedOf(l)
          /\ UnitsIn(Relink(l, k, k, <<>>)) = UnitsIn(l) \ UnitsOf(l[k])
      BY <3>1, Unlinked
    <3>. QED BY <3>2 DEF l
  <2>. HIDE DEF P, C, g, r, t, b
  <2>8. /\ MemInv(m, S) /\ HeapOf(m, S) = P \ C
        /\ Cardinality(HeapOf(m, S)) = Cardinality(P) - Cardinality(C)
    BY <1>0, <2>5, HeapPagesFreed DEF P
  <2>9. UnitsIn(r) = PagesUnits(P \ C)
    <3>1. C \in SUBSET Int
      BY <2>2, <2>5
    <3>2. PagesUnits(P \ C) = PagesUnits(P) \ PagesUnits(C)
      BY <2>2, <3>1, PagesUnitsOps
    <3>. QED BY <1>0, <2>3, <2>7, <3>2
  <2>. HIDE DEF m
  <2>10. g \in [1..MaxGroups -> Groups \cup {NoGroup}] /\ m \in Mems
    BY <2>6, <2>8 DEF GroupInv, MemInv
  <2>11. /\ t \in Heaps /\ t.list = r /\ t.groups = g /\ t.pmm = m
         /\ t.g_pages = h.g_pages - Cardinality(C)
         /\ t.g_used_bytes = h.g_used_bytes /\ t.g_used_blocks = h.g_used_blocks
    <3>. DEFINE x == h.g_pages - Cardinality(C)
    <3>1. x \in Int
      BY <1>0, <2>4
    <3>2. t = [h EXCEPT !.list = r, !.groups = g, !.g_pages = x, !.pmm = m]
      BY <1>0, <2>1, <2>4 DEF Heaps
    <3>3. r \in Seq(Blocks)
      BY <2>7
    <3>. HIDE DEF x
    <3>. QED BY <1>0, <2>10, <3>1, <3>2, <3>3 DEF Heaps, x
  <2>12. UsedInv(r, h.g_used_bytes, h.g_used_blocks)
    <3>1. PayloadIn(r) = PayloadIn(h.list)
      BY <2>7 DEF PayloadIn
    <3>2. UsedInv(h.list, h.g_used_bytes, h.g_used_blocks)
      BY DEF Sound
    <3>. QED BY <2>7, <3>1, <3>2 DEF UsedInv
  <2>13. t.g_pages = Cardinality(HeapOf(m, S))
    BY <1>0, <2>8, <2>11
  <2>14. Sound(t, S)
    BY <2>6, <2>7, <2>8, <2>9, <2>11, <2>12, <2>13 DEF Sound
  <2>. QED BY <2>7, <2>11, <2>14 DEF t
<1>. QED BY <1>1, <1>2

-----------------------------------------------------------------------------
(* kfree. *)
Marked(l, k) == [l EXCEPT ![k].used = FALSE]

LEMMA MarkedFree ==
  ASSUME NEW l \in Seq(Blocks), Apart(l), NEW k \in 1..Len(l), l[k].used
  PROVE  LET f == Marked(l, k)
         IN /\ f \in Seq(Blocks) /\ Len(f) = Len(l) /\ \A i \in 1..Len(l) : i # k => f[i] = l[i]
            /\ ~f[k].used /\ f[k].addr = l[k].addr /\ f[k].size = l[k].size /\ f[k] \in Blocks
            /\ \A i \in 1..Len(l) : /\ f[i].addr = l[i].addr /\ EndOf(f[i]) = EndOf(l[i])
                                    /\ UnitsOf(f[i]) = UnitsOf(l[i])
            /\ Apart(f) /\ UnitsIn(f) = UnitsIn(l) /\ UsedOf(f) = UsedOf(l) \ {l[k]}
<1>. DEFINE f == Marked(l, k)
            c == [l[k] EXCEPT !.used = FALSE]
            N == Len(l)
<1>0. N \in Nat /\ l \in [1..N -> Blocks] /\ l[k] \in Blocks
  BY LenProperties, ElementOfSeq
<1>1. f = [l EXCEPT ![k] = c]
  BY <1>0 DEF Marked
<1>2. c \in Blocks /\ c.addr = l[k].addr /\ c.size = l[k].size /\ c.used = FALSE
  BY <1>0, Zenon DEF Blocks
<1>. HIDE DEF f, c
<1>3. f \in [1..N -> Blocks] /\ f[k] = c /\ \A i \in 1..N : i # k => f[i] = l[i]
  BY <1>0, <1>1, <1>2
<1>4. f \in Seq(Blocks) /\ Len(f) = N
  <2>1. f \in Seq(Blocks)
    BY <1>0, <1>3, IsASeq
  <2>2. DOMAIN f = 1..N
    BY <1>3
  <2>. QED BY <1>0, <2>1, <2>2, LenProperties
<1>5. EndOf(c) = EndOf(l[k]) /\ UnitsOf(c) = UnitsOf(l[k])
  BY <1>2 DEF EndOf, UnitsOf
<1>6. \A i \in 1..N : /\ f[i].addr = l[i].addr /\ EndOf(f[i]) = EndOf(l[i])
                      /\ UnitsOf(f[i]) = UnitsOf(l[i])
  BY <1>2, <1>3, <1>5
<1>7. Apart(f)
  BY <1>4, <1>6 DEF Apart
<1>8. UnitsIn(f) = UnitsIn(l)
  <2>1. \A u : /\ u \in UnitsIn(f) <=> \E i \in 1..N : u \in UnitsOf(f[i])
               /\ u \in UnitsIn(l) <=> \E i \in 1..N : u \in UnitsOf(l[i])
    BY <1>4 DEF UnitsIn, BlocksOf
  <2>. QED BY <1>6, <2>1
<1>9. UsedOf(f) = UsedOf(l) \ {l[k]}
  <2>1. ASSUME NEW x \in UsedOf(f) PROVE x \in UsedOf(l) \ {l[k]}
    <3>1. PICK i \in 1..N : x = f[i] /\ x.used
      BY <1>4 DEF UsedOf, BlocksOf
    <3>2. i # k
      BY <1>2, <1>3, <3>1
    <3>3. x = l[i] /\ l[i] # l[k]
      BY <1>3, <3>1, <3>2, ApartDiffer
    <3>. QED BY <3>1, <3>3 DEF UsedOf, BlocksOf
  <2>2. ASSUME NEW x \in UsedOf(l) \ {l[k]} PROVE x \in UsedOf(f)
    <3>1. PICK i \in 1..N : x = l[i] /\ x.used
      BY DEF UsedOf, BlocksOf
    <3>2. x = f[i]
      BY <1>3, <3>1
    <3>. QED BY <1>4, <3>1, <3>2 DEF UsedOf, BlocksOf
  <2>. QED BY <2>1, <2>2
<1>10. ~f[k].used /\ f[k].addr = l[k].addr /\ f[k].size = l[k].size /\ f[k] \in Blocks
  BY <1>2, <1>3
<1>. QED BY <1>3, <1>4, <1>6, <1>7, <1>8, <1>9, <1>10 DEF f

(* The block of an address is found. *)
LEMMA FoundByAddress ==
  ASSUME NEW l \in Seq(Blocks), Apart(l), NEW b \in BlocksOf(l)
  PROVE  IndexOf(l, b.addr) \in 1..Len(l) /\ l[IndexOf(l, b.addr)] = b
<1>. DEFINE k == IndexOf(l, b.addr)
<1>1. PICK i \in 1..Len(l) : l[i] = b
  BY DEF BlocksOf
<1>2. k \in 1..Len(l) /\ l[k].addr = b.addr
  BY <1>1 DEF IndexOf
<1>. HIDE DEF k
<1>3. l[k].addr \in UnitsOf(l[k]) /\ l[i].addr \in UnitsOf(l[i])
  BY <1>2, ElementOfSeq, BlockUnits
<1>4. k = i
  BY <1>1, <1>2, <1>3 DEF Apart
<1>. QED BY <1>1, <1>4 DEF k

(* The heap between the coalescing and heap_try_reclaim. *)
Merged(h, k) ==
  [h EXCEPT !.list = heap_coalesce(Marked(h.list, k), k),
            !.g_used_bytes = @ - h.list[k].size, !.g_used_blocks = @ - 1]

LEMMA Freed ==
  ASSUME NEW h, NEW S, Sound(h, S), NEW b \in UsedOf(h.list)
  PROVE  LET t == Kfree(h, b.addr)
             k == IndexOf(h.list, b.addr)
         IN /\ Sound(t, S) /\ UsedOf(t.list) = UsedOf(h.list) \ {b}
            /\ k \in 1..Len(h.list) /\ h.list[k] = b /\ Sound(Merged(h, k), S)
            /\ Merged(h, k).list = heap_coalesce(Marked(h.list, k), k)
            /\ Merged(h, k).groups = h.groups
            /\ t = heap_try_reclaim(Merged(h, k), CoalesceStart(Marked(h.list, k), k))
<1>. DEFINE t == Kfree(h, b.addr)
            l == h.list
            k == IndexOf(l, b.addr)
            f == Marked(l, k)
            lo == CoalesceStart(f, k)
            r == heap_coalesce(f, k)
            h1 == Merged(h, k)
<1>0. /\ h \in Heaps /\ l \in Seq(Blocks) /\ Apart(l) /\ h.g_used_bytes \in Int
      /\ h.g_used_blocks \in Int /\ b \in BlocksOf(l) /\ b.used
  BY HeapFields DEF Sound, UsedOf
<1>1. k \in 1..Len(l) /\ l[k] = b
  BY <1>0, FoundByAddress
<1>2. t = heap_try_reclaim([h EXCEPT !.list = r, !.g_used_bytes = @ - f[k].size,
                                     !.g_used_blocks = @ - 1], lo)
  BY DEF Kfree, Marked
<1>. HIDE DEF t, k
<1>3. /\ f \in Seq(Blocks) /\ Len(f) = Len(l) /\ ~f[k].used /\ f[k].size = l[k].size
      /\ Apart(f) /\ UnitsIn(f) = UnitsIn(l) /\ UsedOf(f) = UsedOf(l) \ {b}
  BY <1>0, <1>1, MarkedFree
<1>4. t = heap_try_reclaim(h1, lo)
  BY <1>2, <1>3 DEF Merged
<1>. HIDE DEF f, l
<1>5. /\ r \in Seq(Blocks) /\ Apart(r) /\ UnitsIn(r) = UnitsIn(f) /\ UsedOf(r) = UsedOf(f)
      /\ lo \in 1..Len(r) /\ ~r[lo].used
  <2>1. k \in 1..Len(f)
    BY <1>1, <1>3
  <2>. QED BY <1>3, <2>1, Coalesced
<1>. HIDE DEF r, lo
<1>6. b.size \in Nat
  <2>1. b \in Blocks
    BY <1>0, <1>1, ElementOfSeq
  <2>. QED BY <2>1, BlockUnits
<1>7. /\ h1 \in Heaps /\ h1.list = r /\ h1.groups = h.groups /\ h1.pmm = h.pmm
      /\ h1.g_pages = h.g_pages /\ h1.g_used_bytes = h.g_used_bytes - b.size
      /\ h1.g_used_blocks = h.g_used_blocks - 1
  <2>. DEFINE x == h.g_used_bytes - b.size
              y == h.g_used_blocks - 1
  <2>1. x \in Int /\ y \in Int
    BY <1>0, <1>6
  <2>2. h1 = [h EXCEPT !.list = r, !.g_used_bytes = x, !.g_used_blocks = y]
    BY <1>0, <1>1 DEF Heaps, Merged, r, f, l
  <2>3. r \in Seq(Blocks)
    BY <1>5
  <2>. HIDE DEF x, y, h1
  <2>. QED BY <1>0, <2>1, <2>2, <2>3 DEF Heaps, x, y
<1>8. UsedInv(r, h.g_used_bytes - b.size, h.g_used_blocks - 1)
  <2>. DEFINE x == h.g_used_bytes
              y == h.g_used_blocks
  <2>1. UsedInv(l, x, y) /\ x \in Int /\ y \in Int
    BY <1>0 DEF Sound, l
  <2>2. UsedOf(r) = UsedOf(l) \ {b} /\ b \in UsedOf(l)
    BY <1>3, <1>5 DEF l
  <2>. HIDE DEF x, y
  <2>3. UsedInv(r, x - b.size, y - 1)
    BY <1>0, <1>5, <2>1, <2>2, UsedRemoved
  <2>. QED BY <2>3 DEF x, y
<1>. HIDE DEF h1
<1>9. Sound(h1, S)
  BY <1>3, <1>5, <1>7, <1>8 DEF Sound, l
<1>10. Sound(t, S) /\ UsedOf(t.list) = UsedOf(h1.list)
  BY <1>4, <1>5, <1>7, <1>9, Reclaimed
<1>11. h1.list = heap_coalesce(Marked(l, k), k) /\ lo = CoalesceStart(Marked(l, k), k)
  BY <1>7 DEF r, lo, f
<1>. QED BY <1>1, <1>3, <1>4, <1>5, <1>7, <1>9, <1>10, <1>11 DEF t, h1, l, k

-----------------------------------------------------------------------------
(* The kernel stacks take their pages beside the heap. *)
LEMMA OtherPages ==
  ASSUME NEW h, NEW S, Sound(h, S), NEW m, NEW R, MemInv(m, R), HeapOf(m, R) = HeapOf(h.pmm, S)
  PROVE  LET t == [h EXCEPT !.pmm = m]
         IN Sound(t, R) /\ t.list = h.list /\ t.groups = h.groups
<1>. DEFINE t == [h EXCEPT !.pmm = m]
<1>0. h \in Heaps /\ m \in Mems
  BY DEF Sound, MemInv
<1>1. /\ t \in Heaps /\ t.list = h.list /\ t.groups = h.groups /\ t.pmm = m
      /\ t.g_pages = h.g_pages /\ t.g_used_bytes = h.g_used_bytes
      /\ t.g_used_blocks = h.g_used_blocks
  BY <1>0 DEF Heaps
<1>. HIDE DEF t
<1>2. Sound(t, R)
  BY <1>1 DEF Sound
<1>. QED BY <1>1, <1>2 DEF t

LEMMA StackTaken ==
  ASSUME NEW m, NEW S, MemInv(m, S), FirstFreeRun(m, StackPages) # NULL
  PROVE  LET r == pmm_alloc_pages_contiguous(m, StackPages)
             R == S \cup {FirstFreeRun(m, StackPages)}
         IN MemInv(r, R) /\ HeapOf(r, R) = HeapOf(m, S)
<1>. DEFINE p == FirstFreeRun(m, StackPages)
            r == pmm_alloc_pages_contiguous(m, StackPages)
            R == S \cup {p}
            run == RunAt(p, StackPages)
<1>0. m \in Mems /\ m.free_pages = Cardinality(Pages \ m.bitmap) /\ StackPages \in Nat \ {0}
  BY Positive DEF MemInv
<1>1. p \in Nat /\ run \subseteq Pages /\ run \cap m.bitmap = {}
  BY <1>0, FreeRunFound, PmmAssumption
<1>2. r \in Mems /\ r.bitmap = m.bitmap \cup run /\ r.free_pages = Cardinality(Pages \ r.bitmap)
  BY <1>0, PagesTaken
<1>. HIDE DEF p, r
<1>3. /\ pmm_init.bitmap \subseteq m.bitmap /\ S \subseteq Nat
      /\ \A q \in S : RunAt(q, StackPages) \subseteq m.bitmap \ pmm_init.bitmap
  BY DEF MemInv
<1>4. \A q \in R : RunAt(q, StackPages) \subseteq r.bitmap \ pmm_init.bitmap
  BY <1>1, <1>2, <1>3
<1>5. ASSUME NEW q \in R, NEW s \in R, q # s
      PROVE  RunAt(q, StackPages) \cap RunAt(s, StackPages) = {}
  <2>1. CASE q \in S /\ s \in S
    BY <1>5, <2>1 DEF MemInv
  <2>2. CASE q = p /\ s \in S
    BY <1>1, <1>3, <2>2
  <2>3. CASE s = p /\ q \in S
    BY <1>1, <1>3, <2>3
  <2>. QED BY <1>5, <2>1, <2>2, <2>3
<1>6. MemInv(r, R)
  BY <1>1, <1>2, <1>3, <1>4, <1>5 DEF MemInv
<1>7. HeapOf(r, R) = HeapOf(m, S)
  <2>1. Stacked(R) = Stacked(S) \cup run
    BY DEF Stacked
  <2>. QED BY <1>1, <1>2, <2>1 DEF HeapOf
<1>. QED BY <1>6, <1>7 DEF r, p

LEMMA StackFreed ==
  ASSUME NEW m, NEW S, MemInv(m, S), NEW p \in S
  PROVE  LET r == pmm_free_pages(m, RunAt(p, StackPages))
             R == S \ {p}
         IN MemInv(r, R) /\ HeapOf(r, R) = HeapOf(m, S)
<1>. DEFINE run == RunAt(p, StackPages)
            r == pmm_free_pages(m, run)
            R == S \ {p}
<1>0. m \in Mems /\ m.free_pages = Cardinality(Pages \ m.bitmap)
  BY DEF MemInv
<1>1. r \in Mems /\ r.bitmap = m.bitmap \ run /\ r.free_pages = Cardinality(Pages \ r.bitmap)
  BY <1>0, PagesFreed
<1>. HIDE DEF r
<1>2. /\ pmm_init.bitmap \subseteq m.bitmap /\ S \subseteq Nat
      /\ \A q \in S : RunAt(q, StackPages) \subseteq m.bitmap \ pmm_init.bitmap
      /\ \A q, s \in S : q # s => RunAt(q, StackPages) \cap RunAt(s, StackPages) = {}
  BY DEF MemInv
<1>3. pmm_init.bitmap \subseteq r.bitmap
  BY <1>1, <1>2
<1>4. \A q \in R : RunAt(q, StackPages) \cap run = {}
  BY <1>2
<1>5. \A q \in R : RunAt(q, StackPages) \subseteq r.bitmap \ pmm_init.bitmap
  BY <1>1, <1>2, <1>4
<1>6. MemInv(r, R)
  BY <1>1, <1>2, <1>3, <1>5 DEF MemInv
<1>7. HeapOf(r, R) = HeapOf(m, S)
  <2>1. Stacked(S) = Stacked(R) \cup run
    BY DEF Stacked
  <2>. QED BY <1>1, <2>1 DEF HeapOf
<1>. QED BY <1>6, <1>7 DEF r

-----------------------------------------------------------------------------
(* The callers' pointers. *)
LEMMA OneBlockAnAddress ==
  ASSUME NEW h, NEW S, Sound(h, S), NEW b \in UsedOf(h.list), NEW c \in UsedOf(h.list),
         b.addr = c.addr
  PROVE  b = c
<1>1. h.list \in Seq(Blocks) /\ Apart(h.list) /\ b \in BlocksOf(h.list) /\ c \in BlocksOf(h.list)
  BY HeapFields DEF Sound, UsedOf
<1>2. IndexOf(h.list, b.addr) \in 1..Len(h.list) /\ h.list[IndexOf(h.list, b.addr)] = b
  <2>. DEFINE l == h.list
  <2>. HIDE DEF l
  <2>1. l \in Seq(Blocks) /\ Apart(l) /\ b \in BlocksOf(l)
    BY <1>1 DEF l
  <2>2. l[IndexOf(l, b.addr)] = b /\ IndexOf(l, b.addr) \in 1..Len(l)
    BY <2>1, FoundByAddress
  <2>. QED BY <2>2 DEF l
<1>3. h.list[IndexOf(h.list, c.addr)] = c
  <2>. DEFINE l == h.list
  <2>. HIDE DEF l
  <2>1. l \in Seq(Blocks) /\ Apart(l) /\ c \in BlocksOf(l)
    BY <1>1 DEF l
  <2>2. l[IndexOf(l, c.addr)] = c
    BY <2>1, FoundByAddress
  <2>. QED BY <2>2 DEF l
<1>. QED BY <1>2, <1>3

(* A pointer is handed out. *)
LEMMA PointerAdded ==
  ASSUME NEW h, NEW S, Sound(h, S), NEW l, NEW P, PointerInv(l, P), NEW b \in UsedOf(h.list),
         UsedOf(h.list) = UsedOf(l) \cup {b}, b \notin UsedOf(l), NEW n, b.size >= n
  PROVE  LET Q == [a \in DOMAIN P \cup {b.addr} |-> IF a \in DOMAIN P THEN P[a] ELSE n]
         IN PointerInv(h.list, Q) /\ b.addr \notin DOMAIN P
<1>. DEFINE Q == [a \in DOMAIN P \cup {b.addr} |-> IF a \in DOMAIN P THEN P[a] ELSE n]
<1>1. b.addr \notin DOMAIN P
  <2>. SUFFICES ASSUME b.addr \in DOMAIN P PROVE FALSE
    OBVIOUS
  <2>1. PICK c \in UsedOf(l) : c.addr = b.addr
    BY DEF PointerInv
  <2>2. c \in UsedOf(h.list)
    OBVIOUS
  <2>. QED BY <2>1, <2>2, OneBlockAnAddress
<1>2. \A c \in UsedOf(l) : c.addr \in DOMAIN P /\ c.size >= P[c.addr]
  BY DEF PointerInv
<1>3. {c.addr : c \in UsedOf(h.list)} = DOMAIN Q
  BY DEF PointerInv
<1>4. ASSUME NEW c \in UsedOf(h.list) PROVE c.size >= Q[c.addr]
  <2>1. CASE c = b
    BY <1>1, <2>1
  <2>2. CASE c \in UsedOf(l)
    BY <1>2, <2>2
  <2>. QED BY <2>1, <2>2
<1>. HIDE DEF Q
<1>5. PointerInv(h.list, Q)
  BY <1>3, <1>4 DEF PointerInv
<1>. QED BY <1>1, <1>5 DEF Q

(* A pointer is taken back. *)
LEMMA PointerRemoved ==
  ASSUME NEW h, NEW S, Sound(h, S), NEW l, NEW P, PointerInv(h.list, P), NEW b \in UsedOf(h.list),
         UsedOf(l) = UsedOf(h.list) \ {b}, NEW Q, DOMAIN Q = DOMAIN P \ {b.addr},
         \A a \in DOMAIN Q : Q[a] = P[a]
  PROVE  PointerInv(l, Q)
<1>1. \A c \in UsedOf(h.list) : c.addr \in DOMAIN P /\ c.size >= P[c.addr]
  BY DEF PointerInv
<1>2. \A c \in UsedOf(l) : c.addr # b.addr
  BY OneBlockAnAddress
<1>3. \A c \in UsedOf(l) : c.addr \in DOMAIN Q /\ c.size >= Q[c.addr]
  BY <1>1, <1>2
<1>4. ASSUME NEW a \in DOMAIN Q PROVE \E c \in UsedOf(l) : a = c.addr
  <2>1. PICK c \in UsedOf(h.list) : a = c.addr
    BY DEF PointerInv
  <2>. QED BY <2>1
<1>. QED BY <1>3, <1>4 DEF PointerInv

-----------------------------------------------------------------------------
(* The inductive invariant of the theorems on blocks, pointers, counters.  *)
HeapSafe == Sound(heap, stacks) /\ PointerInv(heap.list, ptrs)

LiveStay ==
  \A b \in UsedOf(heap.list) :
    b.addr \in DOMAIN ptrs' /\ ptrs'[b.addr] = ptrs[b.addr] => b \in UsedOf(heap'.list)

LEMMA HeapInitSafe == Init => HeapSafe
<1>. SUFFICES ASSUME Init PROVE HeapSafe
  OBVIOUS
<1>1. /\ heap = [list |-> <<>>, groups |-> [i \in 1..MaxGroups |-> NoGroup], g_pages |-> 0,
                 g_used_bytes |-> 0, g_used_blocks |-> 0, pmm |-> pmm_init]
      /\ ptrs = << >> /\ stacks = {}
  BY DEF Init
<1>2. /\ heap \in Heaps /\ heap.list = <<>> /\ heap.pmm = pmm_init /\ heap.g_pages = 0
      /\ heap.groups = [i \in 1..MaxGroups |-> NoGroup]
      /\ heap.g_used_bytes = 0 /\ heap.g_used_blocks = 0
  <2>. DEFINE E == <<>>
              g == [i \in 1..MaxGroups |-> NoGroup]
  <2>1. E \in Seq(Blocks) /\ g \in [1..MaxGroups -> Groups \cup {NoGroup}] /\ pmm_init \in Mems
    BY PmmInitTyped
  <2>2. heap = [list |-> E, groups |-> g, g_pages |-> 0,
                g_used_bytes |-> 0, g_used_blocks |-> 0, pmm |-> pmm_init]
    BY <1>1
  <2>. HIDE DEF E, g
  <2>3. /\ heap \in Heaps /\ heap.list = E /\ heap.pmm = pmm_init /\ heap.g_pages = 0
        /\ heap.groups = g /\ heap.g_used_bytes = 0 /\ heap.g_used_blocks = 0
    BY <2>1, <2>2 DEF Heaps
  <2>. QED BY <2>3 DEF E, g
<1>3. /\ BlocksOf(heap.list) = {} /\ UsedOf(heap.list) = {} /\ UnitsIn(heap.list) = {}
      /\ PayloadIn(heap.list) = {} /\ Apart(heap.list)
  <2>1. 1..Len(heap.list) = {}
    BY <1>2
  <2>. QED BY <2>1 DEF BlocksOf, UsedOf, UnitsIn, PayloadIn, Apart
<1>4. HeapOf(heap.pmm, stacks) = {}
  BY <1>2 DEF HeapOf
<1>5. MemInv(heap.pmm, stacks)
  BY <1>1, <1>2, PmmInitTyped DEF MemInv
<1>6. GroupInv(heap.groups, {})
  BY <1>2 DEF GroupInv, InUse
<1>7. IsFiniteSet({}) /\ Cardinality({}) = 0 /\ PagesUnits({}) = {}
  BY FS_EmptySet DEF PagesUnits
<1>8. UsedInv(heap.list, heap.g_used_bytes, heap.g_used_blocks)
  BY <1>2, <1>3, <1>7 DEF UsedInv
<1>9. Sound(heap, stacks)
  BY <1>2, <1>3, <1>4, <1>5, <1>6, <1>7, <1>8 DEF Sound
<1>10. PointerInv(heap.list, ptrs)
  <2>1. DOMAIN ptrs = {}
    BY <1>1
  <2>. QED BY <1>3, <2>1 DEF PointerInv
<1>. QED BY <1>9, <1>10 DEF HeapSafe

LEMMA KmallocSafe ==
  ASSUME HeapSafe, NEW n \in Nat, kmalloc(n)
  PROVE  HeapSafe' /\ LiveStay
<1>. DEFINE t == Kmalloc(heap, n).heap
            a == Kmalloc(heap, n).addr
<1>0. Sound(heap, stacks) /\ PointerInv(heap.list, ptrs) /\ CanAllocate(heap, n)
  BY DEF HeapSafe, kmalloc
<1>1. /\ heap' = t /\ stacks' = stacks
      /\ ptrs' = [x \in DOMAIN ptrs \cup {a} |-> IF x \in DOMAIN ptrs THEN ptrs[x] ELSE n]
  BY DEF kmalloc
<1>2. /\ Sound(t, stacks)
      /\ \E b \in UsedOf(t.list) :
           /\ b \notin UsedOf(heap.list) /\ UsedOf(t.list) = UsedOf(heap.list) \cup {b}
           /\ b.addr = a /\ b.size >= n
  BY <1>0, Allocated
<1>. HIDE DEF t, a
<1>3. PICK b \in UsedOf(t.list) :
        /\ b \notin UsedOf(heap.list) /\ UsedOf(t.list) = UsedOf(heap.list) \cup {b}
        /\ b.addr = a /\ b.size >= n
  BY <1>2
<1>4. PointerInv(t.list, ptrs')
  BY <1>0, <1>1, <1>2, <1>3, PointerAdded
<1>. QED BY <1>1, <1>2, <1>3, <1>4 DEF HeapSafe, LiveStay

LEMMA PointerBlock ==
  ASSUME HeapSafe, NEW a \in DOMAIN ptrs
  PROVE  \E b \in UsedOf(heap.list) : b.addr = a
BY DEF HeapSafe, PointerInv

LEMMA KfreeSafe ==
  ASSUME HeapSafe, NEW a \in DOMAIN ptrs, kfree(a)
  PROVE  HeapSafe' /\ LiveStay
<1>0. Sound(heap, stacks) /\ PointerInv(heap.list, ptrs)
  BY DEF HeapSafe
<1>1. PICK b \in UsedOf(heap.list) : b.addr = a
  BY PointerBlock
<1>. DEFINE t == Kfree(heap, b.addr)
<1>2. heap' = t /\ stacks' = stacks /\ ptrs' = [x \in DOMAIN ptrs \ {a} |-> ptrs[x]]
  BY <1>1 DEF kfree
<1>3. Sound(t, stacks) /\ UsedOf(t.list) = UsedOf(heap.list) \ {b}
  BY <1>0, Freed
<1>. HIDE DEF t
<1>4. DOMAIN ptrs' = DOMAIN ptrs \ {b.addr} /\ \A x \in DOMAIN ptrs' : ptrs'[x] = ptrs[x]
  BY <1>1, <1>2
<1>5. PointerInv(t.list, ptrs')
  BY <1>0, <1>3, <1>4, PointerRemoved
<1>6. LiveStay
  BY <1>2, <1>3, <1>4 DEF LiveStay
<1>. QED BY <1>2, <1>3, <1>5, <1>6 DEF HeapSafe

LEMMA KreallocSafe ==
  ASSUME HeapSafe, NEW a \in DOMAIN ptrs, NEW n \in Nat, krealloc(a, n)
  PROVE  HeapSafe' /\ LiveStay
<1>0. Sound(heap, stacks) /\ PointerInv(heap.list, ptrs) /\ CanAllocate(heap, n)
  BY DEF HeapSafe, krealloc
<1>1. PICK b \in UsedOf(heap.list) : b.addr = a
  BY PointerBlock
<1>. DEFINE t == Kmalloc(heap, n).heap
            e == Kmalloc(heap, n).addr
            r == Kfree(t, b.addr)
            D == DOMAIN ptrs
            Q == [x \in D \cup {e} |-> IF x \in D THEN ptrs[x] ELSE n]
<1>2. /\ heap' = r /\ stacks' = stacks
      /\ ptrs' = [x \in (D \ {a}) \cup {e} |-> IF x \in D \ {a} THEN ptrs[x] ELSE n]
  BY <1>1 DEF krealloc
<1>3. /\ Sound(t, stacks)
      /\ \E c \in UsedOf(t.list) :
           /\ c \notin UsedOf(heap.list) /\ UsedOf(t.list) = UsedOf(heap.list) \cup {c}
           /\ c.addr = e /\ c.size >= n
  BY <1>0, Allocated
<1>. HIDE DEF t, e
<1>4. PICK c \in UsedOf(t.list) :
        /\ c \notin UsedOf(heap.list) /\ UsedOf(t.list) = UsedOf(heap.list) \cup {c}
        /\ c.addr = e /\ c.size >= n
  BY <1>3
<1>5. PointerInv(t.list, Q) /\ e \notin D
  BY <1>0, <1>3, <1>4, PointerAdded
<1>6. b \in UsedOf(t.list)
  BY <1>4
<1>7. Sound(r, stacks) /\ UsedOf(r.list) = UsedOf(t.list) \ {b}
  BY <1>3, <1>6, Freed
<1>8. DOMAIN ptrs' = DOMAIN Q \ {b.addr} /\ \A x \in DOMAIN ptrs' : ptrs'[x] = Q[x]
  BY <1>1, <1>2, <1>5
<1>. HIDE DEF r, Q
<1>9. PointerInv(r.list, ptrs')
  <2>. DEFINE L == r.list
  <2>1. Sound(t, stacks) /\ PointerInv(t.list, Q) /\ UsedOf(L) = UsedOf(t.list) \ {b}
    BY <1>3, <1>5, <1>7
  <2>. HIDE DEF L
  <2>2. PointerInv(L, ptrs')
    BY <1>6, <1>8, <2>1, PointerRemoved
  <2>. QED BY <2>2 DEF L
<1>10. LiveStay
  BY <1>2, <1>4, <1>7, <1>8 DEF LiveStay
<1>. QED BY <1>2, <1>7, <1>9, <1>10 DEF HeapSafe

LEMMA StackAllocSafe ==
  ASSUME HeapSafe, stack_alloc
  PROVE  HeapSafe' /\ LiveStay /\ heap'.list = heap.list /\ heap'.groups = heap.groups
<1>. DEFINE p == FirstFreeRun(heap.pmm, StackPages)
            m == pmm_alloc_pages_contiguous(heap.pmm, StackPages)
            R == stacks \cup {p}
<1>0. Sound(heap, stacks) /\ PointerInv(heap.list, ptrs) /\ MemInv(heap.pmm, stacks)
  BY DEF HeapSafe, Sound
<1>1. /\ p # NULL /\ stacks' = R /\ ptrs' = ptrs
      /\ heap' = [heap EXCEPT !.pmm = m]
  BY DEF stack_alloc
<1>2. MemInv(m, R) /\ HeapOf(m, R) = HeapOf(heap.pmm, stacks)
  BY <1>0, <1>1, StackTaken
<1>. HIDE DEF m, R
<1>3. Sound(heap', R) /\ heap'.list = heap.list /\ heap'.groups = heap.groups
  BY <1>0, <1>1, <1>2, OtherPages
<1>. QED BY <1>0, <1>1, <1>3 DEF HeapSafe, LiveStay

LEMMA StackFreeSafe ==
  ASSUME HeapSafe, NEW p \in stacks, stack_free(p)
  PROVE  HeapSafe' /\ LiveStay /\ heap'.list = heap.list /\ heap'.groups = heap.groups
<1>. DEFINE m == pmm_free_pages(heap.pmm, RunAt(p, StackPages))
            R == stacks \ {p}
<1>0. Sound(heap, stacks) /\ PointerInv(heap.list, ptrs) /\ MemInv(heap.pmm, stacks)
  BY DEF HeapSafe, Sound
<1>1. stacks' = R /\ ptrs' = ptrs /\ heap' = [heap EXCEPT !.pmm = m]
  BY DEF stack_free
<1>2. MemInv(m, R) /\ HeapOf(m, R) = HeapOf(heap.pmm, stacks)
  BY <1>0, StackFreed
<1>. HIDE DEF m, R
<1>3. Sound(heap', R) /\ heap'.list = heap.list /\ heap'.groups = heap.groups
  BY <1>0, <1>1, <1>2, OtherPages
<1>. QED BY <1>0, <1>1, <1>3 DEF HeapSafe, LiveStay

LEMMA HeapStepSafe == HeapSafe /\ [Next]_vars => HeapSafe' /\ [LiveStay]_vars
<1>. SUFFICES ASSUME HeapSafe, [Next]_vars PROVE HeapSafe' /\ [LiveStay]_vars
  OBVIOUS
<1>0. Sizes \subseteq Nat
  BY HeapAssumption
<1>1. CASE UNCHANGED vars
  BY <1>1 DEF HeapSafe, vars
<1>2. ASSUME NEW n \in Sizes, kmalloc(n) PROVE HeapSafe' /\ LiveStay
  BY <1>0, <1>2, KmallocSafe
<1>3. ASSUME NEW a \in DOMAIN ptrs, kfree(a) PROVE HeapSafe' /\ LiveStay
  BY <1>3, KfreeSafe
<1>4. ASSUME NEW a \in DOMAIN ptrs, NEW n \in Sizes, krealloc(a, n) PROVE HeapSafe' /\ LiveStay
  BY <1>0, <1>4, KreallocSafe
<1>5. CASE stack_alloc
  BY <1>5, StackAllocSafe
<1>6. ASSUME NEW p \in stacks, stack_free(p) PROVE HeapSafe' /\ LiveStay
  BY <1>6, StackFreeSafe
<1>. QED BY <1>1, <1>2, <1>3, <1>4, <1>5, <1>6 DEF Next

LEMMA HeapIsSafe == Spec => []HeapSafe
BY HeapInitSafe, HeapStepSafe, PTL DEF Spec

-----------------------------------------------------------------------------
LEMMA OwnNames ==
  /\ UsedBlocks = UsedOf(heap.list) /\ ListOf = BlocksOf(heap.list)
  /\ HeapPages = HeapOf(heap.pmm, stacks)
<1>1. ListOf = BlocksOf(heap.list)
  BY DEF ListOf, BlocksOf
<1>2. pmm_init.bitmap = (Pages \ Usable) \cup BitmapPages
  BY DEF pmm_init
<1>. QED BY <1>1, <1>2 DEF UsedBlocks, UsedOf, HeapPages, HeapOf, Stacked

(* No two blocks of the kernel heap overlap, and together they are, to the *)
(* unit, the pages that heap_new_block took from the page allocator and    *)
(* heap_try_reclaim has not returned.                                      *)
THEOREM BlocksTileTheHeap == Spec => []HeapTiling
<1>1. HeapSafe => HeapTiling
  BY OwnNames DEF HeapSafe, Sound, Apart, UnitsIn, HeapTiling
<1>. QED BY <1>1, HeapIsSafe, PTL

(* The used blocks of the list are exactly those whose pointers kmalloc    *)
(* and krealloc returned and kfree has not been given, each at least as    *)
(* large as asked for.                                                     *)
THEOREM PointersAreBlocks == Spec => []PointersAreUsedBlocks
<1>1. HeapSafe => PointersAreUsedBlocks
  BY OwnNames DEF HeapSafe, PointerInv, PointersAreUsedBlocks
<1>. QED BY <1>1, HeapIsSafe, PTL

(* The figures of meminfo are exact: g_used_bytes, g_used_blocks and       *)
(* g_pages of the heap and free_pages of the page allocator.               *)
THEOREM CountersAreExact == Spec => []CountersExact
<1>1. HeapSafe => CountersExact
  BY OwnNames DEF HeapSafe, Sound, UsedInv, MemInv, PayloadIn, CountersExact
<1>. QED BY <1>1, HeapIsSafe, PTL

(* kmalloc, kfree and krealloc leave every block they are not called for   *)
(* where it is, with its size: splitting, coalescing and reclaiming touch  *)
(* free blocks only.                                                       *)
THEOREM LiveBlocksAreKept == Spec => LiveBlocksStay
<1>1. HeapSafe /\ [Next]_vars =>
        [\A b \in UsedBlocks :
           b.addr \in DOMAIN ptrs' /\ ptrs'[b.addr] = ptrs[b.addr] => b \in UsedBlocks']_vars
  <2>1. UsedBlocks = UsedOf(heap.list) /\ UsedBlocks' = UsedOf(heap'.list)
    BY DEF UsedBlocks, ListOf, UsedOf, BlocksOf
  <2>. QED BY <2>1, HeapStepSafe DEF LiveStay
<1>. QED BY <1>1, HeapIsSafe, PTL DEF Spec, LiveBlocksStay

-----------------------------------------------------------------------------
(* HeapDrains.  The list is broken after block k when the next block does  *)
(* not begin where block k ends.  No group is broken in its middle, and    *)
(* every stretch of the list between two breaks has an anchor: a block     *)
(* that is used or has units in a forgotten group.                         *)
Grouped(g) == PagesUnits(PagesIn(g, InUse(g)))

Broken(l, k) == k = 0 \/ k = Len(l) \/ EndOf(l[k]) # l[k + 1].addr

Joined(l, g) ==
  \A k \in 1..Len(l) : Broken(l, k) =>
    \A i \in InUse(g) : ~(StartOf(g[i]) < EndOf(l[k]) /\ EndOf(l[k]) < StopOf(g[i]))

Anchors(l, g) == {k \in 1..Len(l) : l[k].used \/ ~(UnitsOf(l[k]) \subseteq Grouped(g))}

Anchored(l, A) ==
  \A x, y \in 1..Len(l) : x <= y /\ Broken(l, x - 1) /\ Broken(l, y) =>
    \E j \in A : x <= j /\ j <= y

Chain(mid, l, lo, hi) ==
  /\ Len(mid) # 0 /\ Chained(mid, 1, Len(mid))
  /\ mid[1].addr = l[lo].addr /\ EndOf(mid[Len(mid)]) = EndOf(l[hi])

(* Replacing a chain of blocks by a chain between the same ends adds no    *)
(* break, and moves those that there are with their blocks.                *)
LEMMA Breaks ==
  ASSUME NEW l \in Seq(Blocks), NEW lo \in 1..Len(l), NEW hi \in lo..Len(l),
         NEW mid \in Seq(Blocks), Chain(mid, l, lo, hi)
  PROVE  LET r == Relink(l, lo, hi, mid)
             d == lo - 1 + Len(mid) - hi
         IN \A k \in 0..Len(r) : Broken(r, k) =>
              \/ k < lo /\ Broken(l, k) /\ (k # 0 => EndOf(r[k]) = EndOf(l[k]))
              \/ /\ k >= lo - 1 + Len(mid) /\ k - d \in hi..Len(l) /\ Broken(l, k - d)
                 /\ EndOf(r[k]) = EndOf(l[k - d])
<1>. DEFINE r == Relink(l, lo, hi, mid)
            m == Len(mid)
            d == lo - 1 + m - hi
            N == Len(l)
<1>0. /\ N \in Nat /\ lo \in Nat /\ hi \in Nat /\ 1 <= lo /\ lo <= hi /\ hi <= N
      /\ m \in Nat \ {0}
  BY LenProperties DEF Chain
<1>1. /\ Len(r) = N + d
      /\ \A i \in 1..(lo - 1) : r[i] = l[i]
      /\ \A i \in 1..m : r[lo - 1 + i] = mid[i]
      /\ \A i \in (hi + 1)..N : r[i + d] = l[i]
  BY Relinked
<1>c. m # 0 /\ Chained(mid, 1, m) /\ mid[1].addr = l[lo].addr /\ EndOf(mid[m]) = EndOf(l[hi])
  BY DEF Chain
<1>. HIDE DEF r, N, m
<1>l. Len(r) = N + d
  BY <1>1
<1>2. d \in Int
  BY <1>0
<1>. SUFFICES ASSUME NEW k \in 0..Len(r), Broken(r, k)
              PROVE  \/ k < lo /\ Broken(l, k) /\ (k # 0 => EndOf(r[k]) = EndOf(l[k]))
                     \/ /\ k >= lo - 1 + m /\ k - d \in hi..N /\ Broken(l, k - d)
                        /\ EndOf(r[k]) = EndOf(l[k - d])
  BY DEF r, N, m
<1>3. CASE k = 0
  BY <1>0, <1>3 DEF Broken
<1>4. CASE k # 0 /\ k < lo
  <2>1. k \in 1..(lo - 1) /\ r[k] = l[k] /\ k # Len(r)
    BY <1>0, <1>1, <1>l, <1>4
  <2>2. EndOf(l[k]) # r[k + 1].addr
    BY <1>4, <2>1 DEF Broken
  <2>3. r[k + 1].addr = l[k + 1].addr
    <3>1. CASE k + 1 < lo
      <4>1. k + 1 \in 1..(lo - 1)
        BY <1>0, <2>1, <3>1
      <4>. QED BY <1>1, <4>1
    <3>2. CASE ~(k + 1 < lo)
      <4>1. k + 1 = lo /\ lo - 1 + 1 = lo /\ 1 \in 1..m
        BY <1>0, <2>1, <3>2
      <4>2. r[lo - 1 + 1] = mid[1]
        BY <1>1, <4>1
      <4>. QED BY <1>c, <4>1, <4>2
    <3>. QED BY <3>1, <3>2
  <2>. QED BY <1>4, <2>1, <2>2, <2>3 DEF Broken
<1>5. CASE k >= lo /\ k < lo - 1 + m
  <2>. DEFINE i == k - (lo - 1)
  <2>1. i \in 1..m /\ i + 1 \in 1..m /\ lo - 1 + i = k /\ lo - 1 + (i + 1) = k + 1 /\ i \in 1..(m - 1)
    BY <1>0, <1>5
  <2>2. k # 0 /\ k # Len(r)
    BY <1>0, <1>l, <1>5
  <2>. HIDE DEF i
  <2>3. r[k] = mid[i] /\ r[k + 1] = mid[i + 1]
    <3>1. r[lo - 1 + i] = mid[i] /\ r[lo - 1 + (i + 1)] = mid[i + 1]
      BY <1>1, <2>1
    <3>. QED BY <2>1, <3>1
  <2>4. EndOf(mid[i]) = mid[i + 1].addr
    BY <1>c, <2>1 DEF Chained
  <2>. QED BY <2>2, <2>3, <2>4 DEF Broken
<1>6. CASE k >= lo - 1 + m
  <2>. DEFINE e == k - d
  <2>1. e \in hi..N /\ e + d = k /\ k # 0 /\ e # 0
    BY <1>0, <1>l, <1>2, <1>6
  <2>2. EndOf(r[k]) = EndOf(l[e])
    <3>1. CASE e = hi
      <4>1. lo - 1 + m = k /\ m \in 1..m
        BY <1>0, <2>1, <3>1
      <4>2. r[lo - 1 + m] = mid[m]
        BY <1>1, <4>1
      <4>. HIDE DEF e
      <4>. QED BY <1>c, <3>1, <4>1, <4>2
    <3>2. CASE e # hi
      <4>1. e \in (hi + 1)..N
        BY <1>0, <2>1, <3>2
      <4>2. r[e + d] = l[e]
        BY <1>1, <4>1
      <4>. QED BY <2>1, <4>2
    <3>. QED BY <3>1, <3>2
  <2>3. Broken(l, e)
    <3>1. CASE e = N
      BY <3>1 DEF Broken, N
    <3>2. CASE e # N
      <4>1. e + 1 \in (hi + 1)..N /\ k # Len(r) /\ e + 1 + d = k + 1
        BY <1>0, <1>l, <1>2, <2>1, <3>2
      <4>2. r[e + 1 + d] = l[e + 1]
        BY <1>1, <4>1
      <4>3. EndOf(r[k]) # r[k + 1].addr
        BY <2>1, <4>1 DEF Broken
      <4>. QED BY <2>2, <4>1, <4>2, <4>3 DEF Broken
    <3>. QED BY <3>1, <3>2
  <2>. QED BY <1>6, <2>1, <2>2, <2>3
<1>. QED BY <1>0, <1>3, <1>4, <1>5, <1>6

LEMMA RelinkJoined ==
  ASSUME NEW l \in Seq(Blocks), NEW lo \in 1..Len(l), NEW hi \in lo..Len(l),
         NEW mid \in Seq(Blocks), Chain(mid, l, lo, hi), NEW g, Joined(l, g)
  PROVE  Joined(Relink(l, lo, hi, mid), g)
<1>. DEFINE r == Relink(l, lo, hi, mid)
            m == Len(mid)
            d == lo - 1 + m - hi
<1>0. Len(l) \in Nat /\ lo \in Nat /\ hi \in Nat /\ 1 <= lo /\ lo <= hi /\ hi <= Len(l)
  BY LenProperties
<1>1. \A k \in 0..Len(r) : Broken(r, k) =>
        \/ k < lo /\ Broken(l, k) /\ (k # 0 => EndOf(r[k]) = EndOf(l[k]))
        \/ /\ k >= lo - 1 + m /\ k - d \in hi..Len(l) /\ Broken(l, k - d)
           /\ EndOf(r[k]) = EndOf(l[k - d])
  BY Breaks
<1>. HIDE DEF r, d, m
<1>2. ASSUME NEW k \in 1..Len(r), Broken(r, k)
      PROVE  \E e \in 1..Len(l) : Broken(l, e) /\ EndOf(r[k]) = EndOf(l[e])
  <2>0. k \in 0..Len(r) /\ k # 0
    OBVIOUS
  <2>1. CASE k < lo /\ Broken(l, k) /\ EndOf(r[k]) = EndOf(l[k])
    <3>1. k \in 1..Len(l)
      BY <1>0, <2>1
    <3>. QED BY <2>1, <3>1
  <2>2. CASE k - d \in hi..Len(l) /\ Broken(l, k - d) /\ EndOf(r[k]) = EndOf(l[k - d])
    <3>. DEFINE e == k - d
    <3>1. e \in hi..Len(l) /\ Broken(l, e) /\ EndOf(r[k]) = EndOf(l[e])
      BY <2>2
    <3>. HIDE DEF e
    <3>2. e \in 1..Len(l)
      BY <1>0, <3>1
    <3>. QED BY <3>1, <3>2
  <2>. QED BY <1>1, <1>2, <2>0, <2>1, <2>2
<1>. QED BY <1>2 DEF Joined, r

(* What is an anchor beside the replaced blocks stays one, and one of the  *)
(* new blocks is.                                                          *)
Carried(A, B, lo, hi, m) ==
  /\ \A j \in A : (j < lo => j \in B) /\ (j > hi => j + (lo - 1 + m - hi) \in B)
  /\ \E j \in B : lo <= j /\ j <= lo - 1 + m

LEMMA RelinkAnchored ==
  ASSUME NEW l \in Seq(Blocks), NEW lo \in 1..Len(l), NEW hi \in lo..Len(l),
         NEW mid \in Seq(Blocks), Chain(mid, l, lo, hi),
         NEW A \in SUBSET Int, NEW B \in SUBSET Int, Anchored(l, A), Carried(A, B, lo, hi, Len(mid))
  PROVE  Anchored(Relink(l, lo, hi, mid), B)
<1>. DEFINE r == Relink(l, lo, hi, mid)
            m == Len(mid)
            d == lo - 1 + m - hi
            N == Len(l)
<1>0. /\ N \in Nat /\ lo \in Nat /\ hi \in Nat /\ 1 <= lo /\ lo <= hi /\ hi <= N
      /\ m \in Nat /\ d \in Int
  BY LenProperties
<1>1. \A k \in 0..Len(r) : Broken(r, k) =>
        \/ k < lo /\ Broken(l, k)
        \/ k >= lo - 1 + m /\ k - d \in hi..Len(l) /\ Broken(l, k - d)
  BY Breaks
<1>2. r \in Seq(Blocks) /\ Len(r) = N + d
  BY Relinked
<1>3. /\ \A j \in A : (j < lo => j \in B) /\ (j > hi => j + d \in B)
      /\ \E j \in B : lo <= j /\ j <= lo - 1 + m
  BY DEF Carried
<1>. HIDE DEF r, N, m
<1>. SUFFICES ASSUME NEW x \in 1..Len(r), NEW y \in 1..Len(r), x <= y, Broken(r, x - 1), Broken(r, y)
              PROVE  \E j \in B : x <= j /\ j <= y
  BY DEF Anchored, r
<1>4. x \in Nat /\ y \in Nat /\ x - 1 \in 0..Len(r) /\ y \in 0..Len(r) /\ Len(r) \in Nat
  BY <1>2, LenProperties
<1>5. \/ y < lo /\ Broken(l, y)
      \/ y >= lo - 1 + m /\ y - d \in hi..N /\ Broken(l, y - d)
  BY <1>1, <1>4 DEF N
<1>6. \/ x - 1 < lo /\ Broken(l, x - 1)
      \/ x - 1 >= lo - 1 + m /\ x - 1 - d \in hi..N /\ Broken(l, x - 1 - d)
  BY <1>1, <1>4 DEF N
<1>7. CASE y < lo /\ Broken(l, y)
  <2>1. x \in 1..N /\ y \in 1..N /\ x - 1 < lo - 1
    BY <1>0, <1>4, <1>7
  <2>2. Broken(l, x - 1)
    <3>1. ~(x - 1 >= lo - 1 + m)
      BY <1>0, <1>4, <2>1
    <3>. QED BY <1>6, <3>1
  <2>3. PICK j \in A : x <= j /\ j <= y
    BY <1>7, <2>1, <2>2 DEF Anchored, N
  <2>4. j < lo
    BY <1>0, <1>4, <1>7, <2>3
  <2>. QED BY <1>3, <2>3, <2>4
<1>8. CASE y >= lo - 1 + m /\ x - 1 < lo
  <2>1. PICK j \in B : lo <= j /\ j <= lo - 1 + m
    BY <1>3
  <2>2. x <= j /\ j <= y
    BY <1>0, <1>4, <1>8, <2>1
  <2>. QED BY <2>2
<1>9. CASE /\ y >= lo - 1 + m /\ y - d \in hi..N /\ Broken(l, y - d)
           /\ x - 1 >= lo - 1 + m /\ x - 1 - d \in hi..N /\ Broken(l, x - 1 - d)
  <2>. DEFINE u == x - d
              v == y - d
  <2>1. /\ u \in 1..N /\ v \in 1..N /\ u <= v /\ u - 1 = x - 1 - d /\ u > hi
        /\ u + d = x /\ v + d = y
    BY <1>0, <1>2, <1>4, <1>9
  <2>2. Broken(l, u - 1) /\ Broken(l, v)
    BY <1>9, <2>1
  <2>. HIDE DEF u, v, d
  <2>3. PICK j \in A : u <= j /\ j <= v
    BY <2>1, <2>2 DEF Anchored, N
  <2>4. j \in Int /\ u \in Int /\ v \in Int /\ d \in Int /\ hi \in Int
    BY <1>0, <2>1
  <2>5. j > hi /\ x <= j + d /\ j + d <= y
    BY <2>1, <2>3, <2>4
  <2>6. j + d \in B
    BY <1>3, <2>3, <2>5
  <2>. QED BY <2>5, <2>6
<1>. QED BY <1>5, <1>6, <1>7, <1>8, <1>9

LEMMA CoalesceLinked ==
  ASSUME NEW l \in Seq(Blocks), Apart(l), NEW k \in 1..Len(l), ~l[k].used, NEW g, Joined(l, g),
         NEW A \in SUBSET Int, NEW B \in SUBSET Int, Anchored(l, A),
         Carried(A, B, CoalesceStart(l, k), CoalesceEnd(l, k), 1)
  PROVE  Joined(heap_coalesce(l, k), g) /\ Anchored(heap_coalesce(l, k), B)
<1>. DEFINE lo == CoalesceStart(l, k)
            hi == CoalesceEnd(l, k)
            r == heap_coalesce(l, k)
            c == r[lo]
            mid == <<c>>
<1>1. lo \in 1..k /\ hi \in k..Len(l)
  BY CoalesceBounds
<1>2. /\ r \in Seq(Blocks) /\ lo \in 1..Len(r) /\ c.addr = l[lo].addr /\ EndOf(c) = EndOf(l[hi])
      /\ r = Relink(l, lo, hi, mid)
  BY Coalesced
<1>3. Carried(A, B, lo, hi, 1)
  OBVIOUS
<1>. HIDE DEF lo, hi, r
<1>4. c \in Blocks
  BY <1>2, ElementOfSeq
<1>. HIDE DEF c
<1>5. mid \in Seq(Blocks) /\ Len(mid) = 1 /\ mid[1] = c
  BY <1>4
<1>. HIDE DEF mid
<1>6. lo \in 1..Len(l) /\ hi \in lo..Len(l)
  BY <1>1, LenProperties
<1>7. Chain(mid, l, lo, hi)
  BY <1>2, <1>5 DEF Chain, Chained
<1>8. Joined(Relink(l, lo, hi, mid), g)
  BY <1>5, <1>6, <1>7, RelinkJoined
<1>9. Anchored(Relink(l, lo, hi, mid), B)
  <2>1. Carried(A, B, lo, hi, Len(mid)) /\ mid \in Seq(Blocks)
    BY <1>3, <1>5
  <2>. QED BY <1>6, <1>7, <2>1, RelinkAnchored
<1>. QED BY <1>2, <1>8, <1>9 DEF r

(* Taking block k keeps the list linked, and block k is an anchor. *)
LEMMA SplitLinked ==
  ASSUME NEW l \in Seq(Blocks), Apart(l), NEW k \in 1..Len(l), ~l[k].used,
         NEW n \in Nat, l[k].size >= n, NEW g, Joined(l, g), Anchored(l, Anchors(l, g) \cup {k})
  PROVE  LET r == heap_split(l, k, n)
         IN Joined(r, g) /\ Anchored(r, Anchors(r, g))
<1>. DEFINE r == heap_split(l, k, n)
            mid == Split(l[k], n)
            m == Len(mid)
            A == Anchors(l, g) \cup {k}
            B == Anchors(r, g)
            N == Len(l)
<1>0. N \in Nat /\ l[k] \in Blocks /\ k \in k..Len(l) /\ k \in Nat
  BY LenProperties, ElementOfSeq
<1>1. /\ mid \in Seq(Blocks) /\ mid[1].addr = l[k].addr
      /\ \/ m = 1 /\ EndOf(mid[1]) = EndOf(l[k])
         \/ m = 2 /\ mid[2].addr = EndOf(mid[1]) /\ EndOf(mid[2]) = EndOf(l[k])
  <2>. DEFINE b == l[k]
  <2>1. b \in Blocks /\ b.size >= n
    BY <1>0
  <2>. HIDE DEF b
  <2>2. LET s == Split(b, n)
        IN /\ s \in Seq(Blocks) /\ s[1].addr = b.addr
           /\ \/ Len(s) = 1 /\ EndOf(s[1]) = EndOf(b)
              \/ /\ Len(s) = 2 /\ s[2] \in Blocks /\ s[2].used = FALSE
                 /\ s[2].addr = EndOf(s[1]) /\ EndOf(s[2]) = EndOf(b)
    BY <2>1, SplitInTwo
  <2>. QED BY <2>2 DEF b
<1>2. k \in 1..Len(r) /\ r[k].used
  BY BlockTaken
<1>3. r = Relink(l, k, k, mid)
  BY DEF heap_split
<1>. HIDE DEF mid, r
<1>4. Chain(mid, l, k, k)
  <2>1. CASE m = 1 /\ EndOf(mid[1]) = EndOf(l[k])
    BY <1>1, <2>1 DEF Chain, Chained
  <2>2. CASE m = 2 /\ mid[2].addr = EndOf(mid[1]) /\ EndOf(mid[2]) = EndOf(l[k])
    <3>1. 1..(m - 1) = {1}
      BY <2>2
    <3>2. Chained(mid, 1, m)
      BY <2>2, <3>1 DEF Chained
    <3>. QED BY <1>1, <2>2, <3>2 DEF Chain
  <2>. QED BY <1>1, <2>1, <2>2
<1>5. m \in Nat \ {0}
  BY <1>1
<1>6. /\ Len(r) = N + (k - 1 + m - k)
      /\ \A i \in 1..(k - 1) : r[i] = l[i]
      /\ \A i \in (k + 1)..N : r[i + (k - 1 + m - k)] = l[i]
  <2>1. mid \in Seq(Blocks)
    BY <1>1
  <2>. QED BY <1>0, <1>3, <2>1, Relinked
<1>7. Joined(r, g)
  <2>1. mid \in Seq(Blocks)
    BY <1>1
  <2>. QED BY <1>0, <1>3, <1>4, <2>1, RelinkJoined
<1>. HIDE DEF N, m
<1>8. Carried(A, B, k, k, m)
  <2>1. ASSUME NEW j \in A, j < k PROVE j \in B
    <3>1. j \in Anchors(l, g) /\ j \in 1..N /\ j \in 1..(k - 1)
      BY <1>0, <2>1 DEF Anchors, N
    <3>2. r[j] = l[j] /\ j \in 1..Len(r)
      BY <1>2, <1>6, <3>1
    <3>. QED BY <3>1, <3>2 DEF Anchors
  <2>2. ASSUME NEW j \in A, j > k PROVE j + (k - 1 + m - k) \in B
    <3>. DEFINE e == j + (k - 1 + m - k)
    <3>1. j \in Anchors(l, g) /\ j \in (k + 1)..N
      BY <1>0, <2>2 DEF Anchors, N
    <3>2. r[e] = l[j]
      BY <1>6, <3>1
    <3>3. e \in 1..Len(r)
      <4>1. Len(r) = N + (k - 1 + m - k)
        BY <1>6
      <4>. QED BY <1>0, <1>5, <3>1, <4>1
    <3>. HIDE DEF e
    <3>4. e \in B
      BY <3>1, <3>2, <3>3 DEF Anchors
    <3>. QED BY <3>4 DEF e
  <2>3. k \in B /\ k <= k /\ k <= k - 1 + m
    <3>1. k \in B
      BY <1>2 DEF Anchors
    <3>. QED BY <1>0, <1>5, <3>1
  <2>. HIDE DEF A, B
  <2>. QED BY <2>1, <2>2, <2>3 DEF Carried
<1>9. A \in SUBSET Int /\ B \in SUBSET Int /\ Anchored(l, A)
  BY <1>0 DEF Anchors
<1>. HIDE DEF A, B
<1>10. Anchored(r, B)
  <2>1. mid \in Seq(Blocks) /\ Carried(A, B, k, k, Len(mid))
    BY <1>1, <1>8 DEF m
  <2>. QED BY <1>0, <1>3, <1>4, <1>9, <2>1, RelinkAnchored
<1>. QED BY <1>7, <1>10 DEF r, B

LEMMA GroupsInHeap ==
  ASSUME NEW h, NEW S, Sound(h, S), NEW i \in InUse(h.groups)
  PROVE  /\ h.groups[i] \in Groups
         /\ PagesUnits(GroupRun(h.groups[i])) = StartOf(h.groups[i])..(StopOf(h.groups[i]) - 1)
         /\ StartOf(h.groups[i]) \in Nat /\ StopOf(h.groups[i]) \in Nat
         /\ PagesUnits(GroupRun(h.groups[i])) \subseteq UnitsIn(h.list)
<1>. DEFINE g == h.groups[i]
            P == HeapOf(h.pmm, S)
<1>1. g \in Groups /\ GroupRun(g) \subseteq P
  BY DEF Sound, GroupInv, InUse
<1>2. P \in SUBSET Int /\ UnitsIn(h.list) = PagesUnits(P)
  BY StackedInUse DEF Sound
<1>. HIDE DEF g, P
<1>3. /\ PagesUnits(GroupRun(g)) = StartOf(g)..(StopOf(g) - 1) /\ GroupRun(g) \in SUBSET Int
      /\ StartOf(g) \in Nat /\ StopOf(g) \in Nat
  BY <1>1, GroupUnits
<1>4. PagesUnits(GroupRun(g)) \subseteq PagesUnits(P)
  BY <1>1, <1>2, <1>3, PagesUnitsOps
<1>. QED BY <1>1, <1>2, <1>3, <1>4 DEF g

LEMMA InGroups ==
  ASSUME NEW g, NEW I
  PROVE  \A u : u \in PagesUnits(PagesIn(g, I)) <=> \E i \in I : u \in PagesUnits(GroupRun(g[i]))
BY DEF PagesUnits, PagesIn

(* A block of fresh pages at the end of the list, in a group of its own or *)
(* in none.                                                                *)
LEMMA FreshLinked ==
  ASSUME NEW h, NEW S, Sound(h, S), NEW n \in Nat, FirstFreeRun(h.pmm, PagesFor(n)) # NULL,
         Joined(h.list, h.groups), Anchored(h.list, Anchors(h.list, h.groups))
  PROVE  LET a == Append(h.list, FreshBlock(h, n))
             g == heap_register_group(h.groups, FirstFreeRun(h.pmm, PagesFor(n)), PagesFor(n))
         IN /\ Joined(a, g)
            /\ Anchored(a, Anchors(h.list, h.groups) \cup {Len(h.list) + 1})
            /\ \A i \in 1..Len(h.list) : UnitsOf(h.list[i]) \subseteq Grouped(g) =>
                                           UnitsOf(h.list[i]) \subseteq Grouped(h.groups)
<1>. DEFINE l == h.list
            G == h.groups
            N == Len(l)
            f == FirstFreeRun(h.pmm, PagesFor(n))
            c == PagesFor(n)
            b == FreshBlock(h, n)
            a == Append(l, b)
            g == heap_register_group(G, f, c)
            new == GroupOf(f, c)
            P == HeapOf(h.pmm, S)
<1>0. l \in Seq(Blocks) /\ N \in Nat /\ Apart(l) /\ GroupInv(G, P)
  BY HeapFields, LenProperties DEF Sound
<1>1. f \in Nat /\ UnitsOf(b) \cap UnitsIn(l) = {} /\ P \cap RunAt(f, c) = {}
  BY HeapGrown
<1>2. /\ b \in Blocks /\ ~b.used /\ EndOf(b) = (f + c) * PageUnits
      /\ UnitsOf(b) = PagesUnits(RunAt(f, c))
  BY <1>1, Fresh
<1>3. c \in Nat \ {0}
  BY PagesForFits
<1>4. \A i \in InUse(g) : (i \in InUse(G) /\ g[i] = G[i]) \/ g[i] = new
  <2>1. f \in Nat /\ P \cap RunAt(f, c) = {} /\ GroupInv(G, P)
    BY <1>0, <1>1
  <2>. HIDE DEF f, c, P, G
  <2>2. Registered(heap_register_group(G, f, c), G, GroupOf(f, c))
    BY <1>3, <2>1, GroupRegistered
  <2>. QED BY <2>2 DEF Registered
<1>5. new.page = f /\ new.npages = c /\ new \in Groups
  BY <1>1, <1>3 DEF Groups, GroupOf
<1>6. GroupRun(new) = RunAt(f, c) /\ StopOf(new) = EndOf(b)
  BY <1>2, <1>5 DEF GroupRun, StopOf
<1>. HIDE DEF new, g, b, f, c
<1>7. /\ PagesUnits(GroupRun(new)) = StartOf(new)..(StopOf(new) - 1)
      /\ StartOf(new) \in Nat /\ StopOf(new) \in Nat
  BY <1>5, GroupUnits
<1>8. /\ a \in Seq(Blocks) /\ Len(a) = N + 1 /\ a[N + 1] = b /\ \A i \in 1..N : a[i] = l[i]
  BY <1>0, <1>1, <1>2, Appended
<1>. HIDE DEF a
<1>9. ASSUME NEW k \in 1..N, Broken(a, k) PROVE Broken(l, k)
  <2>1. CASE k = N
    BY <2>1 DEF Broken
  <2>2. CASE k # N
    <3>1. k + 1 \in 1..N /\ k # Len(a) /\ k # 0
      BY <1>0, <1>8, <2>2
    <3>. QED BY <1>8, <1>9, <3>1 DEF Broken
  <2>. QED BY <2>1, <2>2
<1>10. \A i \in 1..N : UnitsOf(l[i]) \subseteq UnitsIn(l) /\ l[i] \in Blocks
  BY <1>0, ElementOfSeq DEF UnitsIn, BlocksOf
<1>11. Joined(a, g)
  <2>. SUFFICES ASSUME NEW k \in 1..Len(a), Broken(a, k), NEW i \in InUse(g),
                       StartOf(g[i]) < EndOf(a[k]), EndOf(a[k]) < StopOf(g[i])
                PROVE  FALSE
    BY DEF Joined
  <2>0. a[k] \in Blocks
    BY <1>8, ElementOfSeq
  <2>1. EndOf(a[k]) \in Nat /\ EndOf(a[k]) - 1 \in UnitsOf(a[k])
    BY <2>0, BlockUnits
  <2>. DEFINE e == EndOf(a[k])
  <2>. HIDE DEF e
  <2>2. CASE g[i] = new
    <3>1. e # EndOf(b) /\ k # N + 1
      BY <1>6, <1>7, <1>8, <2>2, <2>1 DEF e
    <3>2. k \in 1..N /\ a[k] = l[k]
      BY <1>0, <1>8, <3>1
    <3>3. e - 1 \in StartOf(new)..(StopOf(new) - 1)
      BY <1>7, <2>1, <2>2 DEF e
    <3>4. e - 1 \in UnitsOf(b) /\ e - 1 \in UnitsIn(l)
      <4>1. e - 1 \in UnitsOf(l[k])
        BY <2>1, <3>2 DEF e
      <4>2. e - 1 \in UnitsIn(l)
        BY <1>10, <3>2, <4>1
      <4>. QED BY <1>2, <1>6, <1>7, <3>3, <4>2
    <3>. QED BY <1>1, <3>4
  <2>3. CASE i \in InUse(G) /\ g[i] = G[i]
    <3>1. /\ PagesUnits(GroupRun(G[i])) = StartOf(G[i])..(StopOf(G[i]) - 1)
          /\ StartOf(G[i]) \in Nat /\ StopOf(G[i]) \in Nat
          /\ PagesUnits(GroupRun(G[i])) \subseteq UnitsIn(l)
      BY <2>3, GroupsInHeap
    <3>2. e - 1 \in StartOf(G[i])..(StopOf(G[i]) - 1)
      BY <2>1, <2>3, <3>1 DEF e
    <3>3. e - 1 \in UnitsIn(l)
      BY <3>1, <3>2
    <3>4. k \in 1..N
      <4>1. a[k] # b
        BY <1>1, <2>1, <3>3 DEF e
      <4>. QED BY <1>0, <1>8, <4>1
    <3>5. Broken(l, k) /\ a[k] = l[k]
      BY <1>8, <1>9, <3>4
    <3>. QED BY <2>3, <3>4, <3>5 DEF Joined
  <2>. QED BY <1>4, <2>2, <2>3
<1>12. Anchored(a, Anchors(l, G) \cup {N + 1})
  <2>. SUFFICES ASSUME NEW x \in 1..Len(a), NEW y \in 1..Len(a), x <= y,
                       Broken(a, x - 1), Broken(a, y)
                PROVE  \E j \in Anchors(l, G) \cup {N + 1} : x <= j /\ j <= y
    BY DEF Anchored
  <2>1. CASE y = N + 1
    <3>1. x <= N + 1 /\ N + 1 <= y
      BY <1>0, <1>8, <2>1
    <3>. QED BY <3>1
  <2>2. CASE y # N + 1
    <3>1. x \in 1..N /\ y \in 1..N
      BY <1>0, <1>8, <2>2
    <3>2. Broken(l, x - 1)
      <4>1. CASE x = 1
        BY <4>1 DEF Broken
      <4>2. CASE x # 1
        <5>1. x - 1 \in 1..N
          BY <1>0, <3>1, <4>2
        <5>. QED BY <1>9, <5>1
      <4>. QED BY <4>1, <4>2
    <3>3. Broken(l, y)
      BY <1>9, <3>1
    <3>4. PICK j \in Anchors(l, G) : x <= j /\ j <= y
      BY <3>1, <3>2, <3>3 DEF Anchored
    <3>. QED BY <3>4
  <2>. QED BY <2>1, <2>2
<1>13. ASSUME NEW i \in 1..N, UnitsOf(l[i]) \subseteq Grouped(g)
       PROVE  UnitsOf(l[i]) \subseteq Grouped(G)
  <2>. SUFFICES ASSUME NEW u \in UnitsOf(l[i]) PROVE u \in Grouped(G)
    OBVIOUS
  <2>1. u \in PagesUnits(PagesIn(g, InUse(g)))
    BY <1>13 DEF Grouped
  <2>2. PICK q \in InUse(g) : u \in PagesUnits(GroupRun(g[q]))
    BY <2>1, InGroups
  <2>3. g[q] # new
    <3>1. u \in UnitsIn(l)
      BY <1>10
    <3>. QED BY <1>1, <1>2, <1>6, <2>2, <3>1
  <2>4. q \in InUse(G) /\ u \in PagesUnits(GroupRun(G[q]))
    BY <1>4, <2>2, <2>3
  <2>. QED BY <2>4, InGroups DEF Grouped
<1>. QED BY <1>11, <1>12, <1>13 DEF a, g, b, f, c

Linked(h) == Joined(h.list, h.groups) /\ Anchored(h.list, Anchors(h.list, h.groups))

(* The list when one block is in the place of lo..hi. *)
OneInstead(r, l, lo, hi) ==
  /\ Len(r) = Len(l) + (lo - 1 + 1 - hi)
  /\ \A i \in 1..(lo - 1) : r[i] = l[i]
  /\ \A i \in (hi + 1)..Len(l) : r[i + (lo - 1 + 1 - hi)] = l[i]

LEMMA RelinkedToOne ==
  ASSUME NEW l \in Seq(Blocks), NEW lo \in 1..Len(l), NEW hi \in lo..Len(l), NEW b \in Blocks
  PROVE  OneInstead(Relink(l, lo, hi, <<b>>), l, lo, hi)
<1>. DEFINE mid == <<b>>
            r == Relink(l, lo, hi, mid)
<1>1. mid \in Seq(Blocks) /\ Len(mid) = 1
  OBVIOUS
<1>. HIDE DEF mid
<1>2. /\ Len(r) = Len(l) + (lo - 1 + Len(mid) - hi)
      /\ \A i \in 1..(lo - 1) : r[i] = l[i]
      /\ \A i \in (hi + 1)..Len(l) : r[i + (lo - 1 + Len(mid) - hi)] = l[i]
  BY <1>1, Relinked
<1>. HIDE DEF r
<1>3. /\ Len(r) = Len(l) + (lo - 1 + 1 - hi)
      /\ \A i \in 1..(lo - 1) : r[i] = l[i]
      /\ \A i \in (hi + 1)..Len(l) : r[i + (lo - 1 + 1 - hi)] = l[i]
  BY <1>1, <1>2
<1>. QED BY <1>3 DEF OneInstead, r, mid

LEMMA GrownLinked ==
  ASSUME NEW h, NEW S, Sound(h, S), Linked(h), NEW n \in Nat, Fits(h.list, n) = {},
         FirstFreeRun(h.pmm, PagesFor(n)) # NULL
  PROVE  LET t == heap_new_block(h, n)
         IN /\ Joined(t.list, t.groups)
            /\ Anchored(t.list, Anchors(t.list, t.groups) \cup {Min(Fits(t.list, n))})
<1>. DEFINE t == heap_new_block(h, n)
            l == h.list
            G == h.groups
            N == Len(l)
            f == FirstFreeRun(h.pmm, PagesFor(n))
            b == FreshBlock(h, n)
            a == Append(l, b)
            e == N + 1
            g == heap_register_group(G, f, PagesFor(n))
            lo == CoalesceStart(a, e)
            hi == CoalesceEnd(a, e)
            r == heap_coalesce(a, e)
            k == Min(Fits(r, n))
            A == Anchors(l, G) \cup {e}
            B == Anchors(r, g) \cup {k}
<1>0. l \in Seq(Blocks) /\ N \in Nat /\ Apart(l)
  BY HeapFields, LenProperties DEF Sound
<1>1. /\ UnitsOf(b) \cap UnitsIn(l) = {} /\ f \in Nat /\ Fits(t.list, n) # {}
      /\ t.list = r /\ t.groups = g
  BY HeapGrown
<1>2. b \in Blocks /\ ~b.used
  BY <1>1, Fresh
<1>3. /\ Joined(a, g) /\ Anchored(a, A)
      /\ \A i \in 1..N : UnitsOf(l[i]) \subseteq Grouped(g) => UnitsOf(l[i]) \subseteq Grouped(G)
  BY FreshLinked DEF Linked
<1>4. Fits(l, n) = {}
  OBVIOUS
<1>. HIDE DEF t, l, G, N, f, b, g
<1>5. /\ a \in Seq(Blocks) /\ Len(a) = e /\ a[e] = b /\ Apart(a) /\ \A i \in 1..N : a[i] = l[i]
  BY <1>0, <1>1, <1>2, Appended DEF N
<1>. HIDE DEF a
<1>6. e \in 1..Len(a) /\ e \in Nat /\ ~a[e].used
  BY <1>0, <1>2, <1>5
<1>. HIDE DEF e
<1>7. lo \in 1..e /\ hi \in e..Len(a)
  BY <1>5, <1>6, CoalesceBounds
<1>8. r \in Seq(Blocks) /\ lo \in 1..Len(r) /\ r = Relink(a, lo, hi, <<r[lo]>>)
  BY <1>5, <1>6, Coalesced
<1>. HIDE DEF lo, hi, r
<1>9. /\ Len(r) = lo /\ \A i \in 1..(lo - 1) : r[i] = l[i]
  <2>1. hi = e /\ lo \in Nat /\ hi \in lo..Len(a) /\ lo \in 1..Len(a)
    BY <1>5, <1>6, <1>7
  <2>. DEFINE c == r[lo]
  <2>2. c \in Blocks
    BY <1>8, ElementOfSeq
  <2>3. r = Relink(a, lo, hi, <<c>>)
    BY <1>8
  <2>. HIDE DEF c
  <2>4. OneInstead(r, a, lo, hi)
    BY <1>5, <2>1, <2>2, <2>3, RelinkedToOne
  <2>5. Len(r) = Len(a) + (lo - 1 + 1 - hi) /\ \A i \in 1..(lo - 1) : r[i] = a[i]
    BY <2>4 DEF OneInstead
  <2>6. \A i \in 1..(lo - 1) : i \in 1..N
    BY <1>0, <1>7 DEF e
  <2>. QED BY <1>5, <1>6, <2>1, <2>5, <2>6
<1>10. k \in 1..Len(r) /\ ~r[k].used /\ r[k].size >= n
  BY <1>1, <1>8, FirstFit
<1>. HIDE DEF k
<1>11. k = lo
  <2>. SUFFICES ASSUME k # lo PROVE FALSE
    OBVIOUS
  <2>1. k \in 1..(lo - 1) /\ k \in 1..N
    BY <1>0, <1>7, <1>9, <1>10 DEF e
  <2>2. k \in Fits(l, n)
    BY <1>9, <1>10, <2>1 DEF Fits, N
  <2>. QED BY <1>4, <2>2
<1>12. Carried(A, B, lo, hi, 1)
  <2>1. ASSUME NEW j \in A, j < lo PROVE j \in B
    <3>1. j \in Anchors(l, G) /\ j \in 1..N /\ j \in 1..(lo - 1)
      BY <1>0, <1>6, <1>7, <2>1 DEF Anchors, N, e
    <3>2. r[j] = l[j] /\ j \in 1..Len(r)
      BY <1>7, <1>9, <3>1
    <3>3. l[j].used \/ ~(UnitsOf(l[j]) \subseteq Grouped(g))
      BY <1>3, <3>1 DEF Anchors
    <3>. QED BY <3>2, <3>3 DEF Anchors
  <2>2. ASSUME NEW j \in A, j > hi PROVE FALSE
    BY <1>0, <1>5, <1>7, <2>2 DEF Anchors, N, e
  <2>3. lo \in B /\ lo <= lo /\ lo <= lo - 1 + 1
    <3>1. lo \in B
      BY <1>11
    <3>2. lo \in Nat
      BY <1>7
    <3>. HIDE DEF B
    <3>. QED BY <3>1, <3>2
  <2>. HIDE DEF A, B
  <2>. QED BY <2>1, <2>2, <2>3 DEF Carried
<1>13. A \in SUBSET Int /\ B \in SUBSET Int
  BY <1>6, <1>10 DEF Anchors
<1>. HIDE DEF A, B
<1>14. Joined(r, g) /\ Anchored(r, B)
  <2>1. a \in Seq(Blocks) /\ Apart(a) /\ e \in 1..Len(a) /\ ~a[e].used /\ Joined(a, g) /\ Anchored(a, A)
    BY <1>3, <1>5, <1>6
  <2>2. Carried(A, B, CoalesceStart(a, e), CoalesceEnd(a, e), 1)
    BY <1>12 DEF lo, hi
  <2>. QED BY <1>13, <2>1, <2>2, CoalesceLinked DEF r
<1>. QED BY <1>1, <1>14 DEF t, B, k

LEMMA AllocatedLinked ==
  ASSUME NEW h, NEW S, Sound(h, S), Linked(h), NEW n \in Nat, CanAllocate(h, n)
  PROVE  Linked(Kmalloc(h, n).heap)
<1>. DEFINE q == Grown(h, n)
            k == Min(Fits(q.list, n))
            t == Taken(q, n)
<1>1. Kmalloc(h, n).heap = t
  BY DEF Kmalloc
<1>2. /\ Sound(q, S) /\ Fits(q.list, n) # {} /\ Joined(q.list, q.groups)
      /\ Anchored(q.list, Anchors(q.list, q.groups) \cup {k})
  <2>1. CASE Fits(h.list, n) # {}
    <3>1. q = h
      BY <2>1 DEF Grown
    <3>2. Joined(h.list, h.groups) /\ Anchored(h.list, Anchors(h.list, h.groups))
      BY DEF Linked
    <3>. HIDE DEF q, k
    <3>. QED BY <2>1, <3>1, <3>2 DEF Anchored
  <2>2. CASE Fits(h.list, n) = {}
    <3>1. FirstFreeRun(h.pmm, PagesFor(n)) # NULL /\ q = heap_new_block(h, n)
      BY <2>2 DEF CanAllocate, Grown
    <3>2. Sound(q, S) /\ Fits(q.list, n) # {}
      BY <3>1, HeapGrown
    <3>3. /\ Joined(q.list, q.groups)
          /\ Anchored(q.list, Anchors(q.list, q.groups) \cup {Min(Fits(q.list, n))})
      BY <2>2, <3>1, GrownLinked
    <3>. QED BY <3>2, <3>3
  <2>. QED BY <2>1, <2>2
<1>. HIDE DEF q
<1>3. t.list = heap_split(q.list, k, n) /\ t.groups = q.groups
  BY <1>2, HeapTaken
<1>. HIDE DEF t
<1>. DEFINE l == q.list
            g == q.groups
<1>4. l \in Seq(Blocks) /\ Apart(l) /\ Joined(l, g) /\ Anchored(l, Anchors(l, g) \cup {k})
  BY <1>2, HeapFields DEF Sound
<1>5. k \in 1..Len(l) /\ ~l[k].used /\ l[k].size >= n
  <2>. HIDE DEF g
  <2>1. l \in Seq(Blocks) /\ Fits(l, n) # {}
    BY <1>2, <1>4
  <2>. HIDE DEF l
  <2>2. /\ Min(Fits(l, n)) \in 1..Len(l) /\ ~l[Min(Fits(l, n))].used
        /\ l[Min(Fits(l, n))].size >= n
    BY <2>1, FirstFit
  <2>. QED BY <2>2 DEF l
<1>. HIDE DEF l, g, k
<1>6. Joined(heap_split(l, k, n), g) /\ Anchored(heap_split(l, k, n), Anchors(heap_split(l, k, n), g))
  BY <1>4, <1>5, SplitLinked
<1>. QED BY <1>1, <1>3, <1>6 DEF Linked, l, g

-----------------------------------------------------------------------------
(* After kfree's coalescing only the merged block may want for an anchor,  *)
(* and its neighbours are used or beyond a break.                          *)
MergedAt(c, g, lo) ==
  /\ lo \in 1..Len(c) /\ ~c[lo].used /\ Joined(c, g) /\ Anchored(c, Anchors(c, g) \cup {lo})
  /\ lo > 1 => c[lo - 1].used \/ Broken(c, lo - 1)
  /\ lo < Len(c) => c[lo + 1].used \/ Broken(c, lo)

LEMMA MarkedLinked ==
  ASSUME NEW l \in Seq(Blocks), Apart(l), NEW k \in 1..Len(l), l[k].used, NEW g, NEW A,
         Joined(l, g), Anchored(l, A)
  PROVE  Joined(Marked(l, k), g) /\ Anchored(Marked(l, k), A)
<1>. DEFINE f == Marked(l, k)
            N == Len(l)
<1>0. N \in Nat
  BY LenProperties
<1>1. Len(f) = N /\ \A i \in 1..N : f[i].addr = l[i].addr /\ EndOf(f[i]) = EndOf(l[i])
  BY MarkedFree
<1>. HIDE DEF f
<1>2. ASSUME NEW i \in 0..N, Broken(f, i) PROVE Broken(l, i)
  <2>1. CASE i = 0 \/ i = N
    BY <2>1 DEF Broken
  <2>2. CASE i # 0 /\ i # N
    <3>1. i \in 1..N /\ i + 1 \in 1..N
      BY <1>0, <2>2
    <3>. QED BY <1>1, <1>2, <2>2, <3>1 DEF Broken
  <2>. QED BY <2>1, <2>2
<1>3. Joined(f, g)
  <2>1. \A i \in 1..N : i \in 0..N
    BY <1>0
  <2>. QED BY <1>1, <1>2, <2>1 DEF Joined
<1>4. Anchored(f, A)
  <2>1. \A i \in 1..N : i \in 0..N /\ i - 1 \in 0..N
    BY <1>0
  <2>. QED BY <1>1, <1>2, <2>1 DEF Anchored
<1>. QED BY <1>3, <1>4 DEF f

LEMMA MergedList ==
  ASSUME NEW l \in Seq(Blocks), Apart(l), NEW k \in 1..Len(l), l[k].used, NEW g,
         Joined(l, g), Anchored(l, Anchors(l, g))
  PROVE  MergedAt(heap_coalesce(Marked(l, k), k), g, CoalesceStart(Marked(l, k), k))
<1>. DEFINE f == Marked(l, k)
            N == Len(l)
            lo == CoalesceStart(f, k)
            hi == CoalesceEnd(f, k)
            c == heap_coalesce(f, k)
            A == Anchors(l, g)
            B == Anchors(c, g) \cup {lo}
<1>0. N \in Nat /\ k \in Nat
  BY LenProperties
<1>1. /\ f \in Seq(Blocks) /\ Len(f) = N /\ \A i \in 1..N : i # k => f[i] = l[i]
      /\ ~f[k].used /\ Apart(f)
  BY MarkedFree
<1>2. Joined(f, g) /\ Anchored(f, A)
  BY MarkedLinked
<1>. HIDE DEF f, N
<1>3. k \in 1..Len(f)
  BY <1>1 DEF N
<1>4. /\ lo \in 1..k /\ hi \in k..Len(f)
      /\ lo > 1 => f[lo - 1].used \/ EndOf(f[lo - 1]) # f[lo].addr
      /\ hi < Len(f) => f[hi + 1].used \/ EndOf(f[hi]) # f[hi + 1].addr
  BY <1>1, <1>3, CoalesceBounds
<1>5. /\ c \in Seq(Blocks) /\ lo \in 1..Len(c) /\ ~c[lo].used /\ c[lo].addr = f[lo].addr
      /\ EndOf(c[lo]) = EndOf(f[hi]) /\ c = Relink(f, lo, hi, <<c[lo]>>)
  BY <1>1, <1>3, Coalesced
<1>. HIDE DEF lo, hi, c
<1>6. lo \in Nat /\ hi \in Nat /\ lo <= k /\ k <= hi /\ hi <= N /\ 1 <= lo
  BY <1>0, <1>1, <1>4
<1>7. /\ Len(c) = N + (lo - 1 + 1 - hi)
      /\ \A i \in 1..(lo - 1) : c[i] = f[i]
      /\ \A i \in (hi + 1)..N : c[i + (lo - 1 + 1 - hi)] = f[i]
  <2>. DEFINE e == c[lo]
  <2>1. e \in Blocks /\ c = Relink(f, lo, hi, <<e>>)
    BY <1>5, ElementOfSeq
  <2>2. f \in Seq(Blocks) /\ lo \in 1..Len(f) /\ hi \in lo..Len(f) /\ Len(f) = N
    BY <1>1, <1>6
  <2>. HIDE DEF e
  <2>3. OneInstead(c, f, lo, hi)
    BY <2>1, <2>2, RelinkedToOne
  <2>. QED BY <2>2, <2>3 DEF OneInstead
<1>l. Len(c) = N + (lo - 1 + 1 - hi) /\ Len(c) \in Nat
  BY <1>5, <1>7, LenProperties
<1>8. Carried(A, B, lo, hi, 1)
  <2>1. ASSUME NEW j \in A, j < lo PROVE j \in B
    <3>1. j \in 1..N /\ j \in 1..(lo - 1) /\ j # k /\ j \in 1..Len(c)
      BY <1>0, <1>6, <1>l, <2>1 DEF Anchors, N
    <3>2. c[j] = l[j]
      BY <1>1, <1>7, <3>1
    <3>. QED BY <3>1, <3>2 DEF Anchors
  <2>2. ASSUME NEW j \in A, j > hi PROVE j + (lo - 1 + 1 - hi) \in B
    <3>. DEFINE e == j + (lo - 1 + 1 - hi)
    <3>1. j \in 1..N /\ j \in (hi + 1)..N /\ j # k
      BY <1>0, <1>6, <2>2 DEF Anchors, N
    <3>2. e \in 1..Len(c)
      BY <1>0, <1>6, <1>l, <3>1
    <3>3. c[e] = l[j]
      BY <1>1, <1>7, <3>1
    <3>. HIDE DEF e
    <3>4. e \in B
      BY <3>2, <3>3 DEF Anchors
    <3>. QED BY <3>4 DEF e
  <2>3. lo \in B /\ lo <= lo /\ lo <= lo - 1 + 1
    BY <1>6
  <2>. HIDE DEF A, B
  <2>. QED BY <2>1, <2>2, <2>3 DEF Carried
<1>9. A \in SUBSET Int /\ B \in SUBSET Int
  BY <1>6 DEF Anchors
<1>10. Joined(c, g) /\ Anchored(c, B)
  <2>. HIDE DEF A, B
  <2>1. f \in Seq(Blocks) /\ Apart(f) /\ ~f[k].used
    BY <1>1
  <2>2. Carried(A, B, CoalesceStart(f, k), CoalesceEnd(f, k), 1)
    BY <1>8 DEF lo, hi
  <2>. QED BY <1>2, <1>3, <1>9, <2>1, <2>2, CoalesceLinked DEF c
<1>11. ASSUME lo > 1 PROVE c[lo - 1].used \/ Broken(c, lo - 1)
  <2>1. lo - 1 \in 1..(lo - 1) /\ lo - 1 + 1 = lo
    BY <1>6, <1>11
  <2>2. c[lo - 1] = f[lo - 1]
    BY <1>7, <2>1
  <2>. QED BY <1>4, <1>5, <1>11, <2>1, <2>2 DEF Broken
<1>12. ASSUME lo < Len(c) PROVE c[lo + 1].used \/ Broken(c, lo)
  <2>. DEFINE j == hi + 1
  <2>1. j \in (hi + 1)..N /\ j + (lo - 1 + 1 - hi) = lo + 1 /\ hi < Len(f)
    BY <1>0, <1>1, <1>6, <1>l, <1>12
  <2>2. f[j].used \/ EndOf(f[hi]) # f[j].addr
    BY <1>4, <2>1
  <2>. HIDE DEF j
  <2>3. c[j + (lo - 1 + 1 - hi)] = f[j]
    BY <1>7, <2>1
  <2>4. c[lo + 1] = f[j]
    BY <2>1, <2>3
  <2>. QED BY <1>5, <2>2, <2>4 DEF Broken
<1>. HIDE DEF f
<1>13. MergedAt(c, g, lo)
  BY <1>5, <1>10, <1>11, <1>12 DEF MergedAt
<1>. QED BY <1>13 DEF c, lo, f

(* On both sides of the merged block there are anchors. *)
LEMMA SideAnchors ==
  ASSUME NEW c \in Seq(Blocks), NEW g, NEW lo, MergedAt(c, g, lo)
  PROVE  /\ \A x \in 1..(lo - 1) : Broken(c, x - 1) =>
              \E j \in Anchors(c, g) : x <= j /\ j <= lo - 1
         /\ \A y \in (lo + 1)..Len(c) : Broken(c, y) =>
              \E j \in Anchors(c, g) : lo + 1 <= j /\ j <= y
<1>. DEFINE N == Len(c)
            A == Anchors(c, g)
<1>0. N \in Nat /\ lo \in 1..N /\ lo \in Nat
  BY LenProperties DEF MergedAt
<1>1. Anchored(c, A \cup {lo})
  BY DEF MergedAt
<1>2. /\ lo > 1 => c[lo - 1].used \/ Broken(c, lo - 1)
      /\ lo < N => c[lo + 1].used \/ Broken(c, lo)
  BY DEF MergedAt
<1>a. A \subseteq 1..N /\ \A j \in 1..N : c[j].used => j \in A
  BY DEF Anchors
<1>. HIDE DEF N, A
<1>3. ASSUME NEW x \in 1..(lo - 1), Broken(c, x - 1) PROVE \E j \in A : x <= j /\ j <= lo - 1
  <2>0. lo > 1 /\ lo - 1 \in 1..N /\ x \in 1..N /\ x <= lo - 1
    BY <1>0
  <2>1. CASE c[lo - 1].used
    <3>1. lo - 1 \in A /\ lo - 1 <= lo - 1
      BY <1>a, <2>0, <2>1
    <3>. QED BY <2>0, <3>1
  <2>2. CASE Broken(c, lo - 1)
    <3>1. PICK j \in A \cup {lo} : x <= j /\ j <= lo - 1
      BY <1>1, <1>3, <2>0, <2>2 DEF Anchored, N
    <3>2. j # lo
      BY <1>0, <3>1
    <3>. QED BY <3>1, <3>2
  <2>. QED BY <1>2, <2>0, <2>1, <2>2
<1>4. ASSUME NEW y \in (lo + 1)..N, Broken(c, y) PROVE \E j \in A : lo + 1 <= j /\ j <= y
  <2>0. lo < N /\ lo + 1 \in 1..N /\ y \in 1..N /\ lo + 1 <= y /\ lo + 1 - 1 = lo
    BY <1>0
  <2>1. CASE c[lo + 1].used
    <3>1. lo + 1 \in A /\ lo + 1 <= lo + 1
      BY <1>a, <2>0, <2>1
    <3>. QED BY <2>0, <3>1
  <2>2. CASE Broken(c, lo)
    <3>. DEFINE u == lo + 1
    <3>0. u \in 1..N /\ u <= y /\ Broken(c, u - 1) /\ u > lo /\ u \in Nat
      BY <1>0, <2>0, <2>2
    <3>. HIDE DEF u
    <3>1. PICK j \in A \cup {lo} : u <= j /\ j <= y
      BY <1>1, <1>4, <2>0, <3>0 DEF Anchored, N
    <3>2. j # lo
      BY <1>0, <3>0, <3>1
    <3>. QED BY <3>1, <3>2 DEF u
  <2>. QED BY <1>2, <2>0, <2>1, <2>2
<1>. QED BY <1>3, <1>4 DEF N, A

(* A block between two breaks, all in groups, is exactly a union of groups *)
(* and heap_try_reclaim sees it.                                           *)
LEMMA AloneReclaimable ==
  ASSUME NEW h, NEW S, Sound(h, S), Joined(h.list, h.groups), NEW lo \in 1..Len(h.list),
         Broken(h.list, lo - 1), Broken(h.list, lo),
         UnitsOf(h.list[lo]) \subseteq Grouped(h.groups)
  PROVE  Reclaimable(h, h.list[lo])
<1>. DEFINE l == h.list
            G == h.groups
            b == l[lo]
            V == Covered(h, b)
            P == HeapOf(h.pmm, S)
            C == PagesUnits(PagesIn(G, V))
            U == UnitsOf(b)
<1>0. /\ h \in Heaps /\ l \in Seq(Blocks) /\ Len(l) \in Nat /\ Apart(l) /\ b \in Blocks /\ lo \in Nat
      /\ GroupInv(G, P) /\ P \in SUBSET Pages
  BY HeapFields, ElementOfSeq, LenProperties, StackedInUse DEF Sound
<1>1. /\ b.addr \in Nat /\ EndOf(b) \in Nat /\ U = b.addr..(EndOf(b) - 1) /\ b.addr < EndOf(b)
      /\ b.addr \in U
  BY <1>0, BlockUnits DEF UnitsOf
<1>2. ASSUME NEW i \in InUse(G), NEW u \in U, u \in PagesUnits(GroupRun(G[i]))
      PROVE  i \in V
  <2>. DEFINE s == StartOf(G[i])
              t == StopOf(G[i])
              z == b.addr
              e == EndOf(b)
  <2>1. /\ PagesUnits(GroupRun(G[i])) = s..(t - 1) /\ s \in Nat /\ t \in Nat
        /\ PagesUnits(GroupRun(G[i])) \subseteq UnitsIn(l)
    BY GroupsInHeap
  <2>2. u \in Int /\ s <= u /\ u < t /\ z <= u /\ u < e /\ z \in Nat /\ e \in Nat
    BY <1>1, <1>2, <2>1
  <2>3. ASSUME NEW j \in 1..Len(l), Broken(l, j) PROVE ~(s < EndOf(l[j]) /\ EndOf(l[j]) < t)
    BY <2>3 DEF Joined
  <2>4. t <= e
    <3>1. ~(s < e /\ e < t)
      BY <2>3
    <3>. HIDE DEF s, t, z, e
    <3>. QED BY <2>1, <2>2, <3>1
  <2>5. s >= z
    <3>. SUFFICES ASSUME s < z PROVE FALSE
      BY <2>1, <2>2
    <3>1. z - 1 \in s..(t - 1)
      <4>. HIDE DEF s, t, z, e
      <4>. QED BY <2>1, <2>2
    <3>2. PICK j \in 1..Len(l) : z - 1 \in UnitsOf(l[j])
      BY <2>1, <3>1 DEF UnitsIn, BlocksOf
    <3>3. /\ l[j] \in Blocks /\ l[j].addr \in Nat /\ EndOf(l[j]) \in Nat
          /\ UnitsOf(l[j]) = l[j].addr..(EndOf(l[j]) - 1)
      BY <1>0, ElementOfSeq, BlockUnits DEF UnitsOf
    <3>4. j # lo
      BY <1>1, <3>2
    <3>5. z \notin UnitsOf(l[j])
      <4>1. UnitsOf(l[j]) \cap UnitsOf(l[lo]) = {}
        BY <1>0, <3>4 DEF Apart
      <4>. QED BY <1>1, <4>1
    <3>. DEFINE q == EndOf(l[j])
                p == l[j].addr
    <3>6. q = z
      <4>1. z - 1 \in p..(q - 1) /\ ~(z \in p..(q - 1)) /\ p \in Nat /\ q \in Nat /\ z \in Nat
        BY <2>2, <3>2, <3>3, <3>5
      <4>. HIDE DEF p, q, z
      <4>. QED BY <4>1
    <3>7. s < q /\ q < t
      <4>1. s < z
        OBVIOUS
      <4>. HIDE DEF s, t, z, q
      <4>. QED BY <2>1, <2>2, <3>6, <4>1
    <3>8. ~Broken(l, j)
      BY <2>3, <3>7
    <3>9. j + 1 \in 1..Len(l) /\ l[j + 1].addr = b.addr
      <4>1. j # Len(l) /\ EndOf(l[j]) = l[j + 1].addr
        BY <3>8 DEF Broken
      <4>2. j + 1 \in 1..Len(l)
        BY <1>0, <4>1
      <4>. QED BY <3>6, <4>1, <4>2
    <3>10. j + 1 = lo
      <4>1. l[j + 1] \in Blocks
        BY <1>0, <3>9, ElementOfSeq
      <4>2. l[j + 1].addr \in UnitsOf(l[j + 1])
        BY <4>1, BlockUnits
      <4>3. j + 1 # lo => UnitsOf(l[j + 1]) \cap UnitsOf(l[lo]) = {}
        BY <1>0, <3>9 DEF Apart
      <4>. QED BY <1>1, <3>9, <4>2, <4>3
    <3>11. lo - 1 = j
      BY <3>10
    <3>. QED BY <3>8, <3>11
  <2>. QED BY <2>4, <2>5 DEF Covered, Inside, InUse, StartOf, StopOf
<1>3. U \subseteq C
  <2>. SUFFICES ASSUME NEW u \in U PROVE u \in C
    OBVIOUS
  <2>1. PICK i \in InUse(G) : u \in PagesUnits(GroupRun(G[i]))
    BY InGroups DEF Grouped
  <2>2. i \in V
    BY <1>2, <2>1
  <2>. QED BY <2>1, <2>2, InGroups
<1>4. C \subseteq U
  BY <1>0, CoveredUnits
<1>5. V # {}
  <2>1. C # {}
    BY <1>1, <1>3
  <2>. QED BY <2>1, InGroups
<1>6. CoveredPages(h, b) * PageUnits = Cardinality(C)
  BY <1>0, CoveredCounted
<1>7. Cardinality(U) = EndOf(b) - b.addr
  BY <1>0, BlockCounted
<1>8. C = U
  BY <1>3, <1>4
<1>. HIDE DEF C, U
<1>. QED BY <1>5, <1>6, <1>7, <1>8 DEF Reclaimable

NoneInstead(r, l, k) ==
  /\ Len(r) = Len(l) - 1
  /\ \A i \in 1..(k - 1) : r[i] = l[i]
  /\ \A i \in k..(Len(l) - 1) : r[i] = l[i + 1]

LEMMA UnlinkedList ==
  ASSUME NEW l \in Seq(Blocks), NEW k \in 1..Len(l)
  PROVE  NoneInstead(Relink(l, k, k, <<>>), l, k)
<1>. DEFINE mid == <<>>
            r == Relink(l, k, k, mid)
            N == Len(l)
<1>0. N \in Nat /\ k \in k..Len(l) /\ k \in Nat
  BY LenProperties
<1>1. mid \in Seq(Blocks) /\ Len(mid) = 0
  OBVIOUS
<1>. HIDE DEF mid
<1>2. /\ Len(r) = N + (k - 1 + Len(mid) - k)
      /\ \A i \in 1..(k - 1) : r[i] = l[i]
      /\ \A i \in (k + 1)..N : r[i + (k - 1 + Len(mid) - k)] = l[i]
  <2>1. mid \in Seq(Blocks) /\ r = Relink(l, k, k, mid) /\ k \in k..Len(l)
    BY <1>0, <1>1
  <2>. HIDE DEF r
  <2>. QED BY <2>1, Relinked
<1>. HIDE DEF r, N
<1>3. Len(r) = N - 1
  BY <1>0, <1>1, <1>2
<1>4. ASSUME NEW i \in k..(N - 1) PROVE r[i] = l[i + 1]
  <2>. DEFINE j == i + 1
  <2>1. j \in (k + 1)..N /\ j + (k - 1 + Len(mid) - k) = i
    BY <1>0, <1>1
  <2>. HIDE DEF j
  <2>2. r[j + (k - 1 + Len(mid) - k)] = l[j]
    BY <1>2, <2>1
  <2>3. r[i] = l[j]
    BY <2>1, <2>2
  <2>. QED BY <2>3 DEF j
<1>. QED BY <1>2, <1>3, <1>4 DEF NoneInstead, r, N, mid

(* The groups that are left are not broken when the block is unlinked. *)
LEMMA UnlinkedJoined ==
  ASSUME NEW h, NEW S, Sound(h, S), Joined(h.list, h.groups), NEW lo \in 1..Len(h.list),
         Reclaimable(h, h.list[lo]), NEW r, NoneInstead(r, h.list, lo)
  PROVE  Joined(r, ReclaimedGroups(h, h.list[lo]))
<1>. DEFINE c == h.list
            G == h.groups
            b == c[lo]
            g == ReclaimedGroups(h, b)
            V == Covered(h, b)
            N == Len(c)
            P == HeapOf(h.pmm, S)
<1>0. /\ h \in Heaps /\ c \in Seq(Blocks) /\ N \in Nat /\ b \in Blocks /\ lo \in Nat
      /\ GroupInv(G, P) /\ P \in SUBSET Pages /\ lo <= N
  BY HeapFields, ElementOfSeq, LenProperties, StackedInUse DEF Sound
<1>1. /\ Len(r) = N - 1 /\ \A i \in 1..(lo - 1) : r[i] = c[i]
      /\ \A i \in lo..(N - 1) : r[i] = c[i + 1]
  BY DEF NoneInstead
<1>2. InUse(g) = InUse(G) \ V /\ \A i \in InUse(g) : g[i] = G[i]
  BY <1>0, GroupsForgotten
<1>3. UnitsOf(b) = PagesUnits(PagesIn(G, V))
  BY <1>0, ReclaimableIsGroups
<1>4. V \subseteq InUse(G) /\ \A i \in InUse(G) : G[i] \in Groups
  BY <1>0, CoveredUnits
<1>. HIDE DEF g, V
<1>5. ASSUME NEW i \in InUse(g) PROVE PagesUnits(GroupRun(G[i])) \cap UnitsOf(b) = {}
  <2>. SUFFICES ASSUME NEW u \in PagesUnits(GroupRun(G[i])), u \in UnitsOf(b) PROVE FALSE
    OBVIOUS
  <2>1. PICK q \in V : u \in PagesUnits(GroupRun(G[q]))
    BY <1>3, InGroups
  <2>2. q \in InUse(G) /\ i \in InUse(G) /\ q # i
    BY <1>2, <1>4, <2>1
  <2>3. GroupRun(G[q]) \cap GroupRun(G[i]) = {}
    BY <1>0, <2>2 DEF GroupInv
  <2>4. GroupRun(G[q]) \in SUBSET Int /\ GroupRun(G[i]) \in SUBSET Int
    BY <1>4, <2>2, GroupUnits
  <2>5. PagesUnits(GroupRun(G[q])) \cap PagesUnits(GroupRun(G[i])) = {}
    <3>. DEFINE X == GroupRun(G[q])
                Y == GroupRun(G[i])
    <3>1. X \in SUBSET Int /\ Y \in SUBSET Int /\ X \cap Y = {}
      BY <2>3, <2>4
    <3>. HIDE DEF X, Y
    <3>2. PagesUnits(X) \cap PagesUnits(Y) = {}
      BY <3>1, PagesUnitsOps
    <3>. QED BY <3>2 DEF X, Y
  <2>. QED BY <2>1, <2>5
<1>. SUFFICES ASSUME NEW k \in 1..Len(r), Broken(r, k), NEW i \in InUse(g),
                     StartOf(g[i]) < EndOf(r[k]), EndOf(r[k]) < StopOf(g[i])
              PROVE  FALSE
  BY DEF Joined, g
<1>6. i \in InUse(G) /\ g[i] = G[i]
  BY <1>2
<1>7. /\ PagesUnits(GroupRun(G[i])) = StartOf(G[i])..(StopOf(G[i]) - 1)
      /\ StartOf(G[i]) \in Nat /\ StopOf(G[i]) \in Nat
  BY <1>6, GroupsInHeap
(* In the list from before, such a block is followed by a block of the     *)
(* same group, which is not the block that is unlinked.                    *)
<1>8. ASSUME NEW e \in 1..N, EndOf(r[k]) = EndOf(c[e])
      PROVE  e + 1 \in 1..N /\ EndOf(c[e]) = c[e + 1].addr /\ e + 1 # lo
  <2>1. ~Broken(c, e)
    BY <1>6, <1>8 DEF Joined
  <2>2. e # N /\ EndOf(c[e]) = c[e + 1].addr
    BY <2>1 DEF Broken
  <2>3. e + 1 \in 1..N
    BY <1>0, <2>2
  <2>4. c[e + 1] \in Blocks
    BY <1>0, <2>3, ElementOfSeq
  <2>5. c[e + 1].addr \in UnitsOf(c[e + 1]) /\ c[e + 1].addr \in Nat
    BY <2>4, BlockUnits
  <2>. DEFINE v == c[e + 1].addr
  <2>6. v \in StartOf(G[i])..(StopOf(G[i]) - 1)
    <3>1. v \in Nat /\ StartOf(G[i]) < v /\ v < StopOf(G[i])
      BY <1>6, <1>8, <2>2, <2>5
    <3>. HIDE DEF v
    <3>. QED BY <1>7, <3>1
  <2>7. v \notin UnitsOf(b)
    BY <1>5, <1>7, <2>6
  <2>8. e + 1 # lo
    BY <2>5, <2>7
  <2>. QED BY <2>2, <2>3, <2>8
<1>9. CASE k < lo
  <2>1. k \in 1..N /\ k \in 1..(lo - 1)
    BY <1>0, <1>1, <1>9
  <2>2. r[k] = c[k]
    BY <1>1, <2>1
  <2>3. k + 1 \in 1..N /\ EndOf(c[k]) = c[k + 1].addr /\ k + 1 # lo
    BY <1>8, <2>1, <2>2
  <2>4. k + 1 \in 1..(lo - 1) /\ k # Len(r) /\ k # 0
    BY <1>0, <1>1, <2>1, <2>3
  <2>5. r[k + 1] = c[k + 1]
    BY <1>1, <2>4
  <2>. QED BY <2>2, <2>3, <2>4, <2>5 DEF Broken
<1>10. CASE k >= lo
  <2>. DEFINE e == k + 1
  <2>1. k \in lo..(N - 1) /\ e \in 1..N /\ k # 0
    BY <1>0, <1>1, <1>10
  <2>2. r[k] = c[e]
    BY <1>1, <2>1
  <2>3. e + 1 \in 1..N /\ EndOf(c[e]) = c[e + 1].addr
    <3>. HIDE DEF e
    <3>. QED BY <1>8, <2>1, <2>2
  <2>4. e \in lo..(N - 1) /\ k # Len(r)
    BY <1>0, <1>1, <2>1, <2>3
  <2>5. r[k + 1] = c[e + 1]
    BY <1>1, <2>4
  <2>. QED BY <2>1, <2>2, <2>3, <2>4, <2>5 DEF Broken
<1>. QED BY <1>0, <1>9, <1>10

LEMMA UnlinkedAnchored ==
  ASSUME NEW h, NEW S, Sound(h, S), NEW lo, MergedAt(h.list, h.groups, lo),
         NEW r, NoneInstead(r, h.list, lo), NEW g,
         Grouped(g) \subseteq Grouped(h.groups)
  PROVE  Anchored(r, Anchors(r, g))
<1>. DEFINE c == h.list
            G == h.groups
            N == Len(c)
            A == Anchors(c, G)
            B == Anchors(r, g)
<1>0. c \in Seq(Blocks) /\ N \in Nat /\ lo \in 1..N /\ lo \in Nat /\ Anchored(c, A \cup {lo})
  BY HeapFields, LenProperties DEF Sound, MergedAt
<1>1. /\ Len(r) = N - 1 /\ \A i \in 1..(lo - 1) : r[i] = c[i]
      /\ \A i \in lo..(N - 1) : r[i] = c[i + 1]
  BY DEF NoneInstead
<1>2. /\ \A x \in 1..(lo - 1) : Broken(c, x - 1) => \E j \in A : x <= j /\ j <= lo - 1
      /\ \A y \in (lo + 1)..N : Broken(c, y) => \E j \in A : lo + 1 <= j /\ j <= y
  BY <1>0, SideAnchors
<1>3. A \subseteq 1..N /\ \A j \in A : c[j].used \/ ~(UnitsOf(c[j]) \subseteq Grouped(g))
  BY DEF Anchors
<1>4. \A j \in 1..(N - 1) : r[j].used \/ ~(UnitsOf(r[j]) \subseteq Grouped(g)) => j \in B
  BY <1>1 DEF Anchors
<1>. HIDE DEF A, B, N, c
<1>5. ASSUME NEW j \in A, j < lo PROVE j \in B
  <2>1. j \in 1..(lo - 1) /\ j \in 1..(N - 1)
    BY <1>0, <1>3, <1>5
  <2>. QED BY <1>1, <1>3, <1>4, <2>1
<1>6. ASSUME NEW j \in A, j > lo PROVE j - 1 \in B
  <2>. DEFINE i == j - 1
  <2>1. i \in lo..(N - 1) /\ i \in 1..(N - 1) /\ i + 1 = j
    BY <1>0, <1>3, <1>6
  <2>. HIDE DEF i
  <2>2. r[i] = c[j]
    BY <1>1, <2>1
  <2>3. i \in B
    BY <1>3, <1>4, <2>1, <2>2
  <2>. QED BY <2>3 DEF i
(* The breaks of the new list are breaks of the old one, but for the one   *)
(* where the block was.                                                    *)
<1>7. ASSUME NEW k \in 0..(N - 1), Broken(r, k), k < lo - 1 PROVE Broken(c, k)
  <2>1. CASE k = 0
    BY <2>1 DEF Broken
  <2>2. CASE k # 0
    <3>1. k \in 1..(lo - 1) /\ k + 1 \in 1..(lo - 1) /\ k # Len(r)
      BY <1>0, <1>1, <1>7, <2>2
    <3>. QED BY <1>1, <1>7, <2>2, <3>1 DEF Broken
  <2>. QED BY <2>1, <2>2
<1>8. ASSUME NEW k \in 0..(N - 1), Broken(r, k), k >= lo PROVE Broken(c, k + 1)
  <2>1. CASE k = N - 1
    <3>1. k + 1 = N
      BY <1>0, <2>1
    <3>. QED BY <3>1 DEF Broken, N
  <2>2. CASE k # N - 1
    <3>. DEFINE e == k + 1
    <3>1. k \in lo..(N - 1) /\ e \in lo..(N - 1) /\ k # Len(r) /\ k # 0
      BY <1>0, <1>1, <1>8, <2>2
    <3>2. r[k] = c[k + 1] /\ r[e] = c[e + 1]
      BY <1>1, <3>1
    <3>3. EndOf(r[k]) # r[e].addr
      BY <1>8, <3>1 DEF Broken
    <3>. QED BY <3>2, <3>3 DEF Broken
  <2>. QED BY <2>1, <2>2
<1>. SUFFICES ASSUME NEW x \in 1..Len(r), NEW y \in 1..Len(r), x <= y, Broken(r, x - 1), Broken(r, y)
              PROVE  \E j \in B : x <= j /\ j <= y
  BY DEF Anchored, B
<1>9. x \in 1..(N - 1) /\ y \in 1..(N - 1) /\ x - 1 \in 0..(N - 1) /\ y \in 0..(N - 1)
  BY <1>0, <1>1
<1>10. CASE x < lo /\ y >= lo - 1
  <2>1. x \in 1..(lo - 1) /\ Broken(c, x - 1)
    <3>1. x \in 1..(lo - 1) /\ x - 1 < lo - 1
      BY <1>0, <1>9, <1>10
    <3>. QED BY <1>7, <1>9, <3>1
  <2>2. PICK j \in A : x <= j /\ j <= lo - 1
    BY <1>2, <2>1
  <2>3. j < lo /\ j <= y
    BY <1>0, <1>3, <1>9, <1>10, <2>2
  <2>. QED BY <1>5, <2>2, <2>3
<1>11. CASE x < lo /\ y < lo - 1
  <2>1. x \in 1..N /\ y \in 1..N /\ x - 1 < lo - 1
    BY <1>0, <1>9, <1>11
  <2>2. Broken(c, x - 1) /\ Broken(c, y)
    BY <1>7, <1>9, <1>11, <2>1
  <2>3. PICK j \in A \cup {lo} : x <= j /\ j <= y
    BY <1>0, <2>1, <2>2 DEF Anchored, N
  <2>4. j < lo /\ j \in A
    BY <1>0, <1>3, <1>9, <1>11, <2>3
  <2>. QED BY <1>5, <2>3, <2>4
<1>12. CASE x >= lo
  <2>. DEFINE e == y + 1
  <2>1. y >= lo /\ e \in (lo + 1)..N /\ e \in 1..N
    BY <1>0, <1>9, <1>12
  <2>2. Broken(c, e)
    BY <1>8, <1>9, <2>1
  <2>3. \E j \in A : x + 1 <= j /\ j <= e
    <3>1. CASE x = lo
      <4>. HIDE DEF e
      <4>. QED BY <1>2, <2>1, <2>2, <3>1
    <3>2. CASE x # lo
      <4>. DEFINE u == x + 1
      <4>1. u \in 1..N /\ u <= e /\ x - 1 >= lo /\ u > lo /\ u \in Nat /\ u - 1 = x - 1 + 1
        BY <1>0, <1>9, <1>12, <3>2
      <4>2. Broken(c, u - 1)
        BY <1>8, <1>9, <4>1
      <4>. HIDE DEF u, e
      <4>3. PICK j \in A \cup {lo} : u <= j /\ j <= e
        BY <1>0, <2>1, <2>2, <4>1, <4>2 DEF Anchored, N
      <4>4. j # lo
        BY <1>0, <4>1, <4>3
      <4>. QED BY <4>3, <4>4 DEF u
    <3>. QED BY <3>1, <3>2
  <2>4. PICK j \in A : x + 1 <= j /\ j <= e
    BY <2>3
  <2>5. j > lo /\ x <= j - 1 /\ j - 1 <= y
    BY <1>0, <1>3, <1>9, <1>12, <2>4
  <2>6. j - 1 \in B
    BY <1>6, <2>4, <2>5
  <2>. QED BY <2>5, <2>6
<1>. QED BY <1>0, <1>9, <1>10, <1>11, <1>12

LEMMA ReclaimLinked ==
  ASSUME NEW h, NEW S, Sound(h, S), NEW lo, MergedAt(h.list, h.groups, lo)
  PROVE  Linked(heap_try_reclaim(h, lo))
<1>. DEFINE t == heap_try_reclaim(h, lo)
            c == h.list
            b == c[lo]
            G == h.groups
            A == Anchors(c, G)
            N == Len(c)
<1>0. /\ h \in Heaps /\ c \in Seq(Blocks) /\ N \in Nat /\ lo \in 1..N /\ ~b.used /\ Joined(c, G)
      /\ Anchored(c, A \cup {lo}) /\ lo \in Nat
  BY HeapFields, LenProperties DEF Sound, MergedAt
<1>1. CASE ~Reclaimable(h, b)
  <2>1. t = h
    BY <1>1 DEF heap_try_reclaim
  <2>. SUFFICES ASSUME NEW x \in 1..N, NEW y \in 1..N, x <= y, Broken(c, x - 1), Broken(c, y)
                PROVE  \E j \in A : x <= j /\ j <= y
    BY <1>0, <2>1 DEF Linked, Anchored
  <2>2. /\ \A u \in 1..(lo - 1) : Broken(c, u - 1) => \E j \in A : u <= j /\ j <= lo - 1
        /\ \A v \in (lo + 1)..N : Broken(c, v) => \E j \in A : lo + 1 <= j /\ j <= v
    BY <1>0, SideAnchors
  <2>3. PICK i \in A \cup {lo} : x <= i /\ i <= y
    BY <1>0 DEF Anchored
  <2>a. A \subseteq 1..N /\ (lo \notin A => UnitsOf(b) \subseteq Grouped(G))
    BY <1>0 DEF Anchors
  <2>4. CASE i \in A
    BY <2>3, <2>4
  <2>. HIDE DEF A
  <2>5. CASE i = lo /\ x < lo
    <3>1. x \in 1..(lo - 1)
      BY <1>0, <2>5
    <3>2. PICK j \in A : x <= j /\ j <= lo - 1
      BY <2>2, <3>1
    <3>3. j <= y
      BY <1>0, <2>a, <2>3, <2>5, <3>2
    <3>. QED BY <3>2, <3>3
  <2>6. CASE i = lo /\ y > lo
    <3>1. y \in (lo + 1)..N
      BY <1>0, <2>6
    <3>2. PICK j \in A : lo + 1 <= j /\ j <= y
      BY <2>2, <3>1
    <3>3. x <= j
      BY <1>0, <2>a, <2>3, <2>6, <3>2
    <3>. QED BY <3>2, <3>3
  <2>7. CASE i = lo /\ ~(x < lo) /\ ~(y > lo)
    <3>1. x = lo /\ y = lo
      BY <1>0, <2>3, <2>7
    <3>2. CASE lo \in A
      BY <1>0, <3>1, <3>2
    <3>3. CASE lo \notin A
      <4>1. UnitsOf(b) \subseteq Grouped(G) /\ Broken(c, lo - 1) /\ Broken(c, lo)
        BY <2>a, <3>1, <3>3
      <4>. QED BY <1>0, <1>1, <4>1, AloneReclaimable
    <3>. QED BY <3>2, <3>3
  <2>. QED BY <2>3, <2>4, <2>5, <2>6, <2>7
<1>2. CASE Reclaimable(h, b)
  <2>. DEFINE r == Relink(c, lo, lo, <<>>)
              g == ReclaimedGroups(h, b)
              m == pmm_free_pages(h.pmm, UNION {RunAt(G[i].page, G[i].npages) : i \in Covered(h, b)})
              p == h.g_pages - CoveredPages(h, b)
  <2>1. t = [h EXCEPT !.list = r, !.groups = g, !.g_pages = p, !.pmm = m]
    BY <1>0, <1>2 DEF heap_try_reclaim, Heaps
  <2>2. NoneInstead(r, c, lo)
    BY <1>0, UnlinkedList
  <2>3. Joined(r, g)
    <3>. HIDE DEF r
    <3>. QED BY <1>0, <1>2, <2>2, UnlinkedJoined
  <2>4. Grouped(g) \subseteq Grouped(G)
    <3>1. GroupInv(G, HeapOf(h.pmm, S))
      BY DEF Sound
    <3>2. InUse(g) = InUse(G) \ Covered(h, b) /\ \A i \in InUse(g) : g[i] = G[i]
      BY <3>1, GroupsForgotten
    <3>. HIDE DEF g
    <3>. QED BY <3>2, InGroups DEF Grouped
  <2>. HIDE DEF r, g, m, p, t
  <2>5. Anchored(r, Anchors(r, g))
    BY <2>2, <2>4, UnlinkedAnchored
  <2>6. t.list = r /\ t.groups = g
    BY <1>0, <2>1 DEF Heaps
  <2>7. Linked(t)
    BY <2>3, <2>5, <2>6 DEF Linked
  <2>. QED BY <2>7 DEF t
<1>. QED BY <1>1, <1>2

LEMMA FreedLinked ==
  ASSUME NEW h, NEW S, Sound(h, S), Linked(h), NEW b \in UsedOf(h.list)
  PROVE  Linked(Kfree(h, b.addr))
<1>. DEFINE l == h.list
            k == IndexOf(l, b.addr)
            f == Marked(l, k)
            lo == CoalesceStart(f, k)
            q == Merged(h, k)
<1>0. l \in Seq(Blocks) /\ Apart(l) /\ Joined(l, h.groups) /\ Anchored(l, Anchors(l, h.groups))
  BY HeapFields DEF Sound, Linked
<1>1. /\ k \in 1..Len(l) /\ l[k] = b /\ Sound(q, S) /\ q.list = heap_coalesce(f, k)
      /\ q.groups = h.groups /\ Kfree(h, b.addr) = heap_try_reclaim(q, lo)
  BY Freed
<1>2. l[k].used
  BY <1>1 DEF UsedOf
<1>3. MergedAt(heap_coalesce(f, k), h.groups, lo)
  <2>. HIDE DEF l, k
  <2>. QED BY <1>0, <1>1, <1>2, MergedList
<1>. HIDE DEF q, lo, f, k, l
<1>4. MergedAt(q.list, q.groups, lo)
  BY <1>1, <1>3
<1>5. Linked(heap_try_reclaim(q, lo))
  BY <1>1, <1>4, ReclaimLinked
<1>. QED BY <1>1, <1>5

(* The inductive invariant of HeapDrains. *)
HeapInv == HeapSafe /\ Linked(heap)

LEMMA HeapInitLinked == Init => Linked(heap)
<1>. SUFFICES ASSUME Init PROVE Linked(heap)
  OBVIOUS
<1>1. heap.list = <<>>
  BY DEF Init
<1>2. 1..Len(heap.list) = {}
  BY <1>1
<1>. QED BY <1>2 DEF Linked, Joined, Anchored

LEMMA HeapStepLinked == HeapInv /\ [Next]_vars => HeapInv'
<1>. SUFFICES ASSUME HeapInv, [Next]_vars PROVE Linked(heap)'
  BY HeapStepSafe DEF HeapInv
<1>0. HeapSafe /\ Sound(heap, stacks) /\ Linked(heap) /\ Sizes \subseteq Nat
  BY HeapAssumption DEF HeapInv, HeapSafe
<1>1. CASE UNCHANGED vars
  BY <1>0, <1>1 DEF Linked, vars
<1>2. ASSUME NEW n \in Sizes, kmalloc(n) PROVE Linked(heap')
  <2>1. heap' = Kmalloc(heap, n).heap /\ CanAllocate(heap, n) /\ n \in Nat
    BY <1>0, <1>2 DEF kmalloc
  <2>. QED BY <1>0, <2>1, AllocatedLinked
<1>3. ASSUME NEW a \in DOMAIN ptrs, kfree(a) PROVE Linked(heap')
  <2>1. PICK b \in UsedOf(heap.list) : b.addr = a
    BY <1>0, PointerBlock
  <2>2. heap' = Kfree(heap, b.addr)
    BY <1>3, <2>1 DEF kfree
  <2>. QED BY <1>0, <2>2, FreedLinked
<1>4. ASSUME NEW a \in DOMAIN ptrs, NEW n \in Sizes, krealloc(a, n) PROVE Linked(heap')
  <2>1. PICK b \in UsedOf(heap.list) : b.addr = a
    BY <1>0, PointerBlock
  <2>. DEFINE t == Kmalloc(heap, n).heap
  <2>2. heap' = Kfree(t, b.addr) /\ CanAllocate(heap, n) /\ n \in Nat
    BY <1>0, <1>4, <2>1 DEF krealloc
  <2>3. Linked(t)
    BY <1>0, <2>2, AllocatedLinked
  <2>4. Sound(t, stacks) /\ b \in UsedOf(t.list)
    BY <1>0, <2>2, Allocated
  <2>. HIDE DEF t
  <2>. QED BY <2>2, <2>3, <2>4, FreedLinked
<1>5. CASE stack_alloc
  BY <1>0, <1>5, StackAllocSafe DEF Linked
<1>6. ASSUME NEW p \in stacks, stack_free(p) PROVE Linked(heap')
  BY <1>0, <1>6, StackFreeSafe DEF Linked
<1>7. Linked(heap)' <=> Linked(heap')
  BY DEF Linked
<1>. QED BY <1>1, <1>2, <1>3, <1>4, <1>5, <1>6, <1>7 DEF Next

(* When every block has been freed, in whatever order, and no group was    *)
(* forgotten by a full table, the list is empty: coalescing and            *)
(* heap_try_reclaim have returned every page of the heap.                  *)
THEOREM EmptyHeapDrains == Spec => []HeapDrains
<1>1. Init => HeapInv
  BY HeapInitSafe, HeapInitLinked DEF HeapInv
<1>2. HeapInv => HeapDrains
  <2>. SUFFICES ASSUME HeapInv, ptrs = << >>, HeapPages \subseteq GroupPages
                PROVE  heap.list = <<>>
    BY DEF HeapDrains
  <2>. DEFINE l == heap.list
              g == heap.groups
  <2>0. Sound(heap, stacks) /\ PointerInv(l, ptrs) /\ Linked(heap)
    BY DEF HeapInv, HeapSafe
  <2>1. l \in Seq(Blocks) /\ Len(l) \in Nat
    BY <2>0, HeapFields, LenProperties DEF Sound
  <2>2. UsedOf(l) = {}
    <3>1. DOMAIN ptrs = {}
      OBVIOUS
    <3>. QED BY <2>0, <3>1 DEF PointerInv
  <2>3. GroupPages = PagesIn(g, InUse(g))
    BY DEF GroupPages, PagesIn, InUse, GroupRun
  <2>4. UnitsIn(l) \subseteq Grouped(g)
    <3>1. UnitsIn(l) = PagesUnits(HeapPages)
      BY <2>0, OwnNames DEF Sound
    <3>2. PagesUnits(HeapPages) \subseteq PagesUnits(GroupPages)
      BY DEF PagesUnits
    <3>. QED BY <2>3, <3>1, <3>2 DEF Grouped
  <2>5. Anchors(l, g) = {}
    <3>. SUFFICES ASSUME NEW k \in Anchors(l, g) PROVE FALSE
      OBVIOUS
    <3>1. k \in 1..Len(l) /\ (l[k].used \/ ~(UnitsOf(l[k]) \subseteq Grouped(g)))
      BY DEF Anchors
    <3>2. ~l[k].used
      BY <2>2, <3>1 DEF UsedOf, BlocksOf
    <3>3. UnitsOf(l[k]) \subseteq UnitsIn(l)
      BY <3>1 DEF UnitsIn, BlocksOf
    <3>. QED BY <2>4, <3>1, <3>2, <3>3
  <2>6. Len(l) = 0
    <3>. SUFFICES ASSUME Len(l) # 0 PROVE FALSE
      OBVIOUS
    <3>1. 1 \in 1..Len(l) /\ Len(l) \in 1..Len(l) /\ 1 <= Len(l) /\ 1 - 1 = 0
      BY <2>1
    <3>2. Broken(l, 1 - 1) /\ Broken(l, Len(l))
      BY <3>1 DEF Broken
    <3>3. Anchored(l, Anchors(l, g))
      BY <2>0 DEF Linked
    <3>4. \E j \in Anchors(l, g) : 1 <= j /\ j <= Len(l)
      BY <3>1, <3>2, <3>3 DEF Anchored
    <3>. QED BY <2>5, <3>4
  <2>. QED BY <2>1, <2>6, EmptySeq
<1>. QED BY <1>1, <1>2, HeapStepLinked, PTL DEF Spec
=============================================================================
