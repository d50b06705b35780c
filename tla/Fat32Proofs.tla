---------------------------- MODULE Fat32Proofs ----------------------------
(***************************************************************************)
(* Proofs about the FAT of fs/fat32.c, for every volume, every set of      *)
(* names and any sequence of commands.                                     *)
(***************************************************************************)
EXTENDS Fat32, FiniteSetTheorems, SequenceTheorems, TLAPS

(* Induction over the turns 0..n of a loop; a set of turns stands in place *)
(* of a predicate.                                                         *)
LEMMA TurnByTurn ==
  ASSUME NEW n \in Nat, NEW T, 0 \in T, \A i \in 1..n : i - 1 \in T => i \in T
  PROVE  0..n \subseteq T
<1>. SUFFICES ASSUME ~(0..n \subseteq T) PROVE FALSE
  OBVIOUS
<1>. DEFINE B == {i \in 0..n : i \notin T}
<1>1. B \in SUBSET Nat /\ B # {}
  OBVIOUS
<1>2. PICK x \in B : \A y \in B : ~(<<y, x>> \in OpToRel(<, Nat))
  BY <1>1, NatLessThanWellFounded, WFMin
<1>3. x \in 1..n /\ x - 1 \in 0..n /\ x \notin T
  OBVIOUS
<1>4. x - 1 \in B
  BY <1>3
<1>5. \A p \in Nat \X Nat : p \in OpToRel(<, Nat) <=> p[1] < p[2]
  BY DEF OpToRel
<1>6. <<x - 1, x>> \in Nat \X Nat
  BY <1>3
<1>7. <<x - 1, x>>[1] < <<x - 1, x>>[2]
  BY <1>3
<1>8. <<x - 1, x>> \in OpToRel(<, Nat)
  BY <1>5, <1>6, <1>7, Zenon
<1>. QED BY <1>2, <1>4, <1>8, Zenon

(* A loop whose turn i takes a state of Inv[i - 1] to one of Inv[i] is     *)
(* well defined as a recursive function of the number of turns taken, and  *)
(* is in Inv[i] after i turns.                                             *)
Runs(g, n, Inv, s, turn) ==
  /\ g = [i \in 0..n |-> g[i]] /\ g[0] = s
  /\ \A i \in 0..n : g[i] \in Inv[i]
  /\ \A i \in 1..n : g[i] = turn[i][g[i - 1]]

LEMMA LoopExists ==
  ASSUME NEW n \in Nat, NEW Inv, NEW s \in Inv[0], NEW turn,
         \A i \in 1..n : turn[i] \in [Inv[i - 1] -> Inv[i]]
  PROVE  \E g : Runs(g, n, Inv, s, turn)
<1>. DEFINE T == {k \in 0..n : \E g : Runs(g, k, Inv, s, turn)}
<1>1. 0 \in T
  <2>. DEFINE g == [i \in 0..0 |-> s]
  <2>1. Runs(g, 0, Inv, s, turn)
    BY DEF Runs
  <2>2. 0 \in 0..n
    OBVIOUS
  <2>. HIDE DEF g
  <2>. QED BY <2>1, <2>2
<1>2. ASSUME NEW k \in 1..n, k - 1 \in T PROVE k \in T
  <2>1. PICK g : Runs(g, k - 1, Inv, s, turn)
    BY <1>2
  <2>. DEFINE h == [i \in 0..k |-> IF i = k THEN turn[k][g[k - 1]] ELSE g[i]]
  <2>2. k - 1 \in 0..(k - 1) /\ g[k - 1] \in Inv[k - 1]
    BY <2>1 DEF Runs
  <2>3. turn[k][g[k - 1]] \in Inv[k]
    BY <2>2
  <2>4. h[k] = turn[k][g[k - 1]] /\ \A i \in 0..(k - 1) : h[i] = g[i]
    OBVIOUS
  <2>5. h = [i \in 0..k |-> h[i]]
    OBVIOUS
  <2>. HIDE DEF h
  <2>6. ASSUME NEW i \in 0..k PROVE h[i] \in Inv[i]
    <3>1. i = k \/ i \in 0..(k - 1)
      OBVIOUS
    <3>. QED BY <2>1, <2>3, <2>4, <3>1 DEF Runs
  <2>7. ASSUME NEW i \in 1..k PROVE h[i] = turn[i][h[i - 1]]
    <3>1. i - 1 \in 0..(k - 1) /\ h[i - 1] = g[i - 1]
      BY <2>4
    <3>2. CASE i = k
      BY <2>4, <3>1, <3>2
    <3>3. CASE i # k
      <4>1. i \in 1..(k - 1) /\ i \in 0..(k - 1)
        BY <3>3
      <4>. QED BY <2>1, <2>4, <3>1, <4>1 DEF Runs
    <3>. QED BY <3>2, <3>3
  <2>8. 0 \in 0..(k - 1) /\ h[0] = s /\ k \in 0..n
    BY <2>1, <2>4 DEF Runs
  <2>9. Runs(h, k, Inv, s, turn)
    BY <2>5, <2>6, <2>7, <2>8 DEF Runs
  <2>. QED BY <2>8, <2>9
<1>. HIDE DEF T
<1>3. 0..n \subseteq T
  BY <1>1, <1>2, TurnByTurn
<1>4. n \in T
  BY <1>3
<1>. QED BY <1>4 DEF T

LEMMA LoopStays ==
  ASSUME NEW n \in Nat, NEW Inv, NEW f, f[0] \in Inv[0],
         \A i \in 1..n : f[i - 1] \in Inv[i - 1] => f[i] \in Inv[i]
  PROVE  \A i \in 0..n : f[i] \in Inv[i]
<1>. DEFINE T == {i \in 0..n : f[i] \in Inv[i]}
<1>1. 0 \in T
  OBVIOUS
<1>2. ASSUME NEW i \in 1..n, i - 1 \in T PROVE i \in T
  BY <1>2
<1>. HIDE DEF T
<1>3. 0..n \subseteq T
  BY <1>1, <1>2, TurnByTurn
<1>. QED BY <1>3 DEF T

-----------------------------------------------------------------------------
(* Chains of clusters.  C is the set of clusters of a FAT.                 *)
Values(C) == C \cup {Free, EOC}

Fats(C) == [C -> Values(C)]

Numbered(C) == IsFiniteSet(C) /\ C \subseteq Nat \ {0}

(* g is fat but for the entry of c. *)
SameBut(C, fat, g, c) == \A x \in C : x # c => g[x] = fat[x]

(* g is fat but for the clusters of M, which are free. *)
FreedBut(C, fat, g, M) ==
  (\A x \in M : g[x] = Free) /\ \A x \in C : x \notin M => g[x] = fat[x]

(* q goes from entry to entry of the FAT, through no cluster twice, up to  *)
(* the end mark.                                                           *)
IsChain(fat, q) ==
  /\ q \in Seq(DOMAIN fat) /\ q # <<>>
  /\ \A i, j \in 1..Len(q) : i # j => q[i] # q[j]
  /\ \A i \in 1..(Len(q) - 1) : fat[q[i]] = q[i + 1]
  /\ fat[q[Len(q)]] = EOC

LEMMA LenOfChain ==
  ASSUME NEW C, IsFiniteSet(C), NEW q \in Seq(C), \A i, j \in 1..Len(q) : i # j => q[i] # q[j]
  PROVE  Len(q) \in Nat /\ Cardinality(C) \in Nat /\ Len(q) <= Cardinality(C)
<1>1. Len(q) \in Nat /\ q \in [1..Len(q) -> C]
  OBVIOUS
<1>2. q \in Injection(1..Len(q), C)
  BY <1>1 DEF Injection, IsInjective
<1>3. Cardinality(1..Len(q)) <= Cardinality(C)
  <2>. DEFINE D == 1..Len(q)
  <2>. HIDE DEF D
  <2>1. q \in Injection(D, C)
    BY <1>2 DEF D
  <2>2. Cardinality(D) <= Cardinality(C)
    BY <2>1, FS_Injection
  <2>. QED BY <2>2 DEF D
<1>4. Cardinality(1..Len(q)) = Len(q)
  <2>. DEFINE n == Len(q)
  <2>1. n \in Int /\ (1 > n => n = 0)
    BY <1>1
  <2>. HIDE DEF n
  <2>2. Cardinality(1..n) = IF 1 > n THEN 0 ELSE n - 1 + 1
    BY <2>1, FS_Interval
  <2>3. Cardinality(1..n) = n
    BY <2>1, <2>2
  <2>. QED BY <2>3 DEF n
<1>. QED BY <1>1, <1>3, <1>4, FS_CardinalityType

(* The walk of Chain finds the chain that there is. *)
LEMMA ChainFound ==
  ASSUME NEW C, IsFiniteSet(C), C \subseteq Nat, NEW fat \in Fats(C), NEW q, IsChain(fat, q)
  PROVE  Chain(fat, q[1]) = q /\ q[1] \in C
<1>. DEFINE K == Cardinality(C)
            N == Len(q)
            m(i) == IF i + 1 <= N THEN i + 1 ELSE N
            part(i) == SubSeq(q, 1, m(i))
            Turn(w) == IF fat[Last(w)] \in C THEN Append(w, fat[Last(w)]) ELSE w
            F(g) == [i \in 0..K |-> IF i = 0 THEN <<q[1]>> ELSE Turn(g[i - 1])]
            walk == CHOOSE g : g = F(g)
            Inv == [i \in 0..K |-> {part(i)}]
            g == [i \in 0..K |-> part(i)]
<1>0. DOMAIN fat = C /\ EOC \notin C
  BY DEF Fats, Values, EOC
<1>1. q \in Seq(C) /\ q # <<>> /\ N \in Nat /\ N >= 1 /\ N <= K /\ K \in Nat
  <2>1. q \in Seq(C) /\ q # <<>> /\ \A i, j \in 1..Len(q) : i # j => q[i] # q[j]
    BY <1>0 DEF IsChain
  <2>2. N \in Nat /\ K \in Nat /\ N <= K
    BY <2>1, LenOfChain
  <2>. QED BY <2>1, <2>2
<1>2. part(0) = <<q[1]>>
  <2>. DEFINE w == SubSeq(q, 1, 1)
  <2>1. w \in Seq(C) /\ Len(w) = 1 /\ w[1] = q[1] /\ m(0) = 1
    BY <1>1
  <2>. HIDE DEF w
  <2>2. w = <<w[1]>>
    BY <2>1
  <2>. QED BY <2>1, <2>2 DEF w
<1>3. ASSUME NEW i \in 1..K PROVE part(i) = Turn(part(i - 1)) /\ i - 1 \in 0..K
  <2>. DEFINE k == m(i - 1)
              w == part(i - 1)
  <2>2. k \in 1..N /\ k \in Nat /\ i - 1 \in 0..K
    BY <1>1
  <2>3. Len(w) = k /\ Last(w) = q[k] /\ q[k] \in C /\ w \in Seq(C)
    BY <1>1, <2>2 DEF Last
  <2>4. CASE k < N
    <3>1. k \in 1..(N - 1) /\ m(i) = k + 1 /\ k + 1 \in 1..N
      BY <1>1, <2>4
    <3>2. fat[q[k]] = q[k + 1] /\ q[k + 1] \in C
      BY <1>1, <3>1 DEF IsChain
    <3>3. Append(SubSeq(q, 1, k), q[k + 1]) = SubSeq(q, 1, k + 1)
      <4>. HIDE DEF k
      <4>. QED BY <1>1, <2>2, <3>1
    <3>. QED BY <2>2, <2>3, <3>1, <3>2, <3>3
  <2>5. CASE k >= N
    <3>1. k = N /\ m(i) = N
      BY <1>1, <2>2, <2>5
    <3>2. fat[q[k]] = EOC
      BY <3>1 DEF IsChain
    <3>. QED BY <1>0, <2>2, <2>3, <3>1, <3>2
  <2>. QED BY <1>1, <2>2, <2>4, <2>5
<1>. HIDE DEF part, Turn, K
<1>4. g = F(g)
  <2>. DEFINE s == <<q[1]>>
  <2>. HIDE DEF s
  <2>1. ASSUME NEW i \in 0..K PROVE g[i] = IF i = 0 THEN s ELSE Turn(g[i - 1])
    <3>1. i = 0 \/ i \in 1..K
      BY <1>1
    <3>2. CASE i = 0
      BY <1>2, <3>2 DEF s
    <3>3. CASE i # 0
      BY <1>3, <3>1, <3>3
    <3>. QED BY <3>2, <3>3
  <2>. QED BY <2>1 DEF s
<1>5. walk = F(walk)
  BY <1>4, Zenon
<1>6. q[1] \in C
  BY <1>1
<1>7. Chain(fat, q[1]) = walk[K]
  BY <1>0, <1>6 DEF Chain, Turn, K
<1>. HIDE DEF walk
<1>8. walk[0] = <<q[1]>> /\ \A i \in 1..K : walk[i] = Turn(walk[i - 1])
  <2>. DEFINE s == <<q[1]>>
  <2>. HIDE DEF s
  <2>1. \A i \in 0..K : walk[i] = IF i = 0 THEN s ELSE Turn(walk[i - 1])
    BY <1>5, Zenon DEF s
  <2>. QED BY <1>1, <2>1 DEF s
<1>9. walk[0] \in Inv[0] /\ \A i \in 1..K : walk[i - 1] \in Inv[i - 1] => walk[i] \in Inv[i]
  BY <1>1, <1>2, <1>3, <1>8
<1>10. \A i \in 0..K : walk[i] \in Inv[i]
  <2>. HIDE DEF Inv
  <2>. QED BY <1>1, <1>9, LoopStays
<1>11. walk[K] = part(K) /\ m(K) = N
  BY <1>1, <1>10
<1>12. SubSeq(q, 1, N) = q
  BY <1>1
<1>. QED BY <1>6, <1>7, <1>11, <1>12 DEF part

Good(fat, r) == IsChain(fat, Chain(fat, r)) /\ Chain(fat, r)[1] = r

Members(fat, r) == Range(Chain(fat, r))

(* The chains that start in R are whole and do not meet. *)
Whole(fat, R) ==
  /\ R \subseteq DOMAIN fat
  /\ \A r \in R : Good(fat, r)
  /\ \A r, s \in R : r # s => Members(fat, r) \cap Members(fat, s) = {}

(* Every cluster in use is in one of them or in L. *)
Accounted(fat, R, L) ==
  /\ L \subseteq DOMAIN fat
  /\ \A x \in L : fat[x] # Free /\ \A r \in R : x \notin Members(fat, r)
  /\ \A c \in DOMAIN fat : fat[c] # Free => c \in L \/ \E r \in R : c \in Members(fat, r)

FreeIn(fat) == {c \in DOMAIN fat : fat[c] = Free}

Sound(fat, free, R, L) ==
  Whole(fat, R) /\ Accounted(fat, R, L) /\ free = Cardinality(FreeIn(fat))

LEMMA ChainIsGood ==
  ASSUME NEW C, Numbered(C), NEW fat \in Fats(C), NEW q, IsChain(fat, q)
  PROVE  Chain(fat, q[1]) = q /\ Good(fat, q[1]) /\ q[1] \in C
<1>1. IsFiniteSet(C) /\ C \subseteq Nat
  BY DEF Numbered
<1>2. Chain(fat, q[1]) = q /\ q[1] \in C
  BY <1>1, ChainFound
<1>. QED BY <1>2 DEF Good

LEMMA RangeIsElements ==
  ASSUME NEW S, NEW q \in Seq(S)
  PROVE  Range(q) = {q[i] : i \in 1..Len(q)} /\ Range(q) \subseteq S
BY RangeEquality, RangeOfSeq

(* No cluster of a chain is free. *)
LEMMA ChainInUse ==
  ASSUME NEW C, Numbered(C), NEW fat \in Fats(C), NEW r, Good(fat, r)
  PROVE  /\ r \in Members(fat, r) /\ Members(fat, r) \subseteq C /\ r \in C
         /\ \A c \in Members(fat, r) : fat[c] # Free
         /\ Chain(fat, r) \in Seq(C) /\ Len(Chain(fat, r)) \in Nat \ {0}
<1>. DEFINE q == Chain(fat, r)
<1>0. DOMAIN fat = C /\ Free \notin C /\ Free # EOC
  BY DEF Fats, Numbered, Free, EOC
<1>1. IsChain(fat, q) /\ q[1] = r
  BY DEF Good
<1>. HIDE DEF q
<1>2. q \in Seq(C) /\ q # <<>> /\ Len(q) \in Nat \ {0}
  BY <1>0, <1>1, EmptySeq DEF IsChain
<1>3. Range(q) = {q[i] : i \in 1..Len(q)} /\ Range(q) \subseteq C
  BY <1>2, RangeIsElements
<1>4. 1 \in 1..Len(q)
  BY <1>2
<1>5. ASSUME NEW i \in 1..Len(q) PROVE fat[q[i]] # Free
  <2>1. CASE i = Len(q)
    BY <1>0, <1>1, <2>1 DEF IsChain
  <2>2. CASE i # Len(q)
    <3>1. i \in 1..(Len(q) - 1) /\ i + 1 \in 1..Len(q)
      BY <1>2, <2>2
    <3>2. fat[q[i]] = q[i + 1] /\ q[i + 1] \in C
      BY <1>1, <1>2, <3>1, ElementOfSeq DEF IsChain
    <3>. QED BY <1>0, <3>2
  <2>. QED BY <2>1, <2>2
<1>. QED BY <1>1, <1>2, <1>3, <1>4, <1>5 DEF Members, q

(* A chain is the same in a FAT that has the same entries for it. *)
LEMMA ChainKept ==
  ASSUME NEW C, Numbered(C), NEW fat \in Fats(C), NEW g \in Fats(C), NEW r, Good(fat, r),
         \A c \in Members(fat, r) : g[c] = fat[c]
  PROVE  Chain(g, r) = Chain(fat, r) /\ Good(g, r) /\ Members(g, r) = Members(fat, r)
<1>. DEFINE q == Chain(fat, r)
<1>1. IsChain(fat, q) /\ q[1] = r
  BY DEF Good
<1>0. DOMAIN fat = C /\ DOMAIN g = C
  BY DEF Fats
<1>2. q \in Seq(C) /\ Len(q) \in Nat \ {0}
  BY ChainInUse
<1>3. \A i \in 1..Len(q) : g[q[i]] = fat[q[i]]
  <2>1. Range(q) = {q[i] : i \in 1..Len(q)}
    <3>. HIDE DEF q
    <3>. QED BY <1>2, RangeIsElements
  <2>. QED BY <2>1 DEF Members
<1>. HIDE DEF q
<1>4. Len(q) \in 1..Len(q) /\ \A i \in 1..(Len(q) - 1) : i \in 1..Len(q)
  BY <1>2
<1>5. IsChain(g, q)
  BY <1>0, <1>1, <1>3, <1>4 DEF IsChain
<1>6. Chain(g, r) = q /\ Good(g, r)
  BY <1>1, <1>5, ChainIsGood
<1>. QED BY <1>6 DEF Members, q

(* A chain of one cluster. *)
LEMMA ChainOfOne ==
  ASSUME NEW C, Numbered(C), NEW fat \in Fats(C), NEW c \in C, fat[c] = EOC
  PROVE  Chain(fat, c) = <<c>> /\ Good(fat, c) /\ Members(fat, c) = {c}
<1>. DEFINE q == <<c>>
<1>0. DOMAIN fat = C
  BY DEF Fats
<1>1. q \in Seq(C) /\ Len(q) = 1 /\ q[1] = c /\ q # <<>>
  OBVIOUS
<1>2. Range(q) = {c}
  BY DEF Range
<1>. HIDE DEF q
<1>3. IsChain(fat, q)
  BY <1>0, <1>1 DEF IsChain
<1>. QED BY <1>1, <1>2, <1>3, ChainIsGood DEF Members, q

(* A chain with one more cluster linked to its end. *)
LEMMA ChainLengthened ==
  ASSUME NEW C, Numbered(C), NEW fat \in Fats(C), NEW r, Good(fat, r),
         NEW new \in C, new \notin Members(fat, r), fat[new] = EOC,
         NEW g \in Fats(C), NEW e, e = Last(Chain(fat, r)), g[e] = new,
         SameBut(C, fat, g, e)
  PROVE  /\ Chain(g, r) = Append(Chain(fat, r), new) /\ Good(g, r)
         /\ Members(g, r) = Members(fat, r) \cup {new} /\ e \in Members(fat, r)
<1>. DEFINE q == Chain(fat, r)
            N == Len(q)
            p == Append(q, new)
<1>0. DOMAIN fat = C
  BY DEF Fats
<1>1. IsChain(fat, q) /\ q[1] = r
  BY DEF Good
<1>2. q \in Seq(C) /\ N \in Nat \ {0}
  BY ChainInUse
<1>3. Range(q) = {q[i] : i \in 1..N}
  <2>. HIDE DEF q
  <2>. QED BY <1>2, RangeIsElements
<1>4. new \notin Range(q) /\ e = Last(q)
  BY DEF Members
<1>. HIDE DEF q
<1>5. N \in 1..N /\ e = q[N] /\ e \in C /\ e \in Range(q) /\ e # new
  BY <1>2, <1>3, <1>4, ElementOfSeq DEF Last
<1>6. DOMAIN g = C /\ g[e] = new /\ \A c \in C : c # e => g[c] = fat[c]
  BY DEF Fats, SameBut
<1>7. p \in Seq(C) /\ Len(p) = N + 1 /\ p[N + 1] = new /\ \A i \in 1..N : p[i] = q[i]
  BY <1>2
<1>. HIDE DEF p
<1>8. IsChain(g, p)
  <2>1. p # <<>>
    BY <1>2, <1>7, EmptySeq
  <2>2. ASSUME NEW i \in 1..(N + 1), NEW j \in 1..(N + 1), i # j PROVE p[i] # p[j]
    <3>1. CASE i \in 1..N /\ j \in 1..N
      <4>1. q[i] # q[j]
        BY <1>1, <2>2, <3>1 DEF IsChain
      <4>. QED BY <1>7, <3>1, <4>1
    <3>2. CASE i = N + 1
      <4>1. j \in 1..N
        BY <1>2, <2>2, <3>2
      <4>. QED BY <1>3, <1>4, <1>7, <3>2, <4>1
    <3>3. CASE j = N + 1
      <4>1. i \in 1..N
        BY <1>2, <2>2, <3>3
      <4>. QED BY <1>3, <1>4, <1>7, <3>3, <4>1
    <3>. QED BY <1>2, <3>1, <3>2, <3>3
  <2>3. ASSUME NEW i \in 1..N PROVE g[p[i]] = p[i + 1]
    <3>1. CASE i = N
      BY <1>5, <1>6, <1>7, <3>1
    <3>2. CASE i # N
      <4>1. i \in 1..(N - 1) /\ i + 1 \in 1..N
        BY <1>2, <3>2
      <4>2. fat[q[i]] = q[i + 1]
        BY <1>1, <4>1 DEF IsChain
      <4>3. q[i] # q[N]
        BY <1>1, <1>5, <3>2 DEF IsChain
      <4>4. q[i] \in C
        BY <1>2, ElementOfSeq
      <4>5. g[q[i]] = q[i + 1]
        BY <1>5, <1>6, <4>2, <4>3, <4>4
      <4>. QED BY <1>7, <4>1, <4>5
    <3>. QED BY <3>1, <3>2
  <2>4. g[p[N + 1]] = EOC
    BY <1>5, <1>6, <1>7
  <2>5. N + 1 - 1 = N
    BY <1>2
  <2>. QED BY <1>6, <1>7, <2>1, <2>2, <2>3, <2>4, <2>5 DEF IsChain
<1>9. p[1] = r
  BY <1>1, <1>2, <1>7
<1>10. Range(p) = Range(q) \cup {new}
  <2>1. Range(p) = {p[i] : i \in 1..(N + 1)}
    BY <1>7, RangeIsElements
  <2>2. \A i : i \in 1..(N + 1) <=> i \in 1..N \/ i = N + 1
    BY <1>2
  <2>. QED BY <1>3, <1>7, <2>1, <2>2
<1>11. Chain(g, r) = p /\ Good(g, r)
  BY <1>6, <1>8, <1>9, ChainIsGood
<1>. QED BY <1>5, <1>10, <1>11 DEF Members, q, p

-----------------------------------------------------------------------------
(* What allocating, linking and freeing do to a sound FAT. *)
LEMMA FreeIsFinite ==
  ASSUME NEW C, Numbered(C), NEW fat \in Fats(C)
  PROVE  FreeIn(fat) \subseteq C /\ IsFiniteSet(FreeIn(fat)) /\ Cardinality(FreeIn(fat)) \in Nat
<1>1. FreeIn(fat) \subseteq C /\ IsFiniteSet(C)
  BY DEF FreeIn, Fats, Numbered
<1>. QED BY <1>1, FS_Subset, FS_CardinalityType

LEMMA SoundAllocated ==
  ASSUME NEW C, Numbered(C), NEW fat \in Fats(C), NEW free, NEW R, NEW L,
         Sound(fat, free, R, L), NEW new \in C, fat[new] = Free,
         NEW g \in Fats(C), g[new] = EOC, SameBut(C, fat, g, new)
  PROVE  /\ Sound(g, free - 1, R \cup {new}, L) /\ free > 0
         /\ new \notin R /\ Chain(g, new) = <<new>>
         /\ \A r \in R : Chain(g, r) = Chain(fat, r)
<1>0. DOMAIN fat = C /\ EOC # Free
  BY DEF Fats, Values, EOC, Free
<1>1. DOMAIN g = C /\ g[new] = EOC /\ \A c \in C : c # new => g[c] = fat[c]
  BY DEF Fats, SameBut
<1>2. /\ Chain(g, new) = <<new>> /\ Good(g, new) /\ Members(g, new) = {new}
  BY <1>1, ChainOfOne
<1>3. ASSUME NEW r \in R
      PROVE  /\ Chain(g, r) = Chain(fat, r) /\ Good(g, r) /\ Members(g, r) = Members(fat, r)
             /\ new \notin Members(fat, r) /\ r # new
  <2>1. Good(fat, r)
    BY DEF Sound, Whole
  <2>2. /\ r \in Members(fat, r) /\ Members(fat, r) \subseteq C
        /\ \A c \in Members(fat, r) : fat[c] # Free
    BY <2>1, ChainInUse
  <2>3. new \notin Members(fat, r)
    BY <2>2
  <2>4. \A c \in Members(fat, r) : g[c] = fat[c]
    BY <1>1, <2>2, <2>3
  <2>. QED BY <1>1, <2>1, <2>2, <2>3, <2>4, ChainKept
<1>4. Whole(g, R \cup {new})
  <2>1. R \cup {new} \subseteq C
    BY <1>0 DEF Sound, Whole
  <2>2. \A r, s \in R : r # s => Members(fat, r) \cap Members(fat, s) = {}
    BY DEF Sound, Whole
  <2>. QED BY <1>1, <1>2, <1>3, <2>1, <2>2 DEF Whole
<1>5. Accounted(g, R \cup {new}, L)
  <2>1. /\ L \subseteq C
        /\ \A x \in L : fat[x] # Free /\ \A r \in R : x \notin Members(fat, r)
        /\ \A c \in C : fat[c] # Free => c \in L \/ \E r \in R : c \in Members(fat, r)
    BY <1>0 DEF Sound, Accounted
  <2>2. new \notin L
    BY <2>1
  <2>3. ASSUME NEW x \in L PROVE g[x] # Free /\ \A r \in R \cup {new} : x \notin Members(g, r)
    BY <1>1, <1>2, <1>3, <2>1, <2>2
  <2>4. ASSUME NEW c \in C, g[c] # Free PROVE c \in L \/ \E r \in R \cup {new} : c \in Members(g, r)
    <3>1. CASE c = new
      BY <1>2, <3>1
    <3>2. CASE c # new
      <4>1. fat[c] # Free
        BY <1>1, <2>4, <3>2
      <4>. QED BY <1>3, <2>1, <4>1
    <3>. QED BY <3>1, <3>2
  <2>. QED BY <1>1, <2>1, <2>3, <2>4 DEF Accounted
<1>6. free - 1 = Cardinality(FreeIn(g)) /\ free > 0
  <2>. DEFINE A == FreeIn(fat)
  <2>1. IsFiniteSet(A) /\ free = Cardinality(A)
    BY FreeIsFinite DEF Sound
  <2>2. new \in A /\ FreeIn(g) = A \ {new}
    BY <1>0, <1>1 DEF FreeIn
  <2>. HIDE DEF A
  <2>3. IsFiniteSet(A \ {new}) /\ Cardinality(A \ {new}) = Cardinality(A) - 1
    BY <2>1, <2>2, FS_RemoveElement
  <2>4. Cardinality(A \ {new}) \in Nat /\ Cardinality(A) \in Nat
    BY <2>1, <2>3, FS_CardinalityType
  <2>. QED BY <2>1, <2>2, <2>3, <2>4
<1>7. new \notin R
  BY <1>3
<1>. QED BY <1>2, <1>3, <1>4, <1>5, <1>6, <1>7 DEF Sound

LEMMA SoundLinked ==
  ASSUME NEW C, Numbered(C), NEW fat \in Fats(C), NEW free, NEW R, NEW L, NEW new,
         Sound(fat, free, R \cup {new}, L), new \notin R, Chain(fat, new) = <<new>>, NEW r \in R,
         NEW g \in Fats(C), NEW e, e = Last(Chain(fat, r)), g[e] = new,
         SameBut(C, fat, g, e)
  PROVE  /\ Sound(g, free, R, L) /\ Chain(g, r) = Append(Chain(fat, r), new)
         /\ \A s \in R : s # r => Chain(g, s) = Chain(fat, s)
<1>0. DOMAIN fat = C /\ new \in C /\ r \in C /\ R \subseteq C /\ Free \notin C
  BY DEF Sound, Whole, Fats, Numbered, Free
<1>1. Good(fat, r) /\ Good(fat, new)
  BY DEF Sound, Whole
<1>2. Members(fat, new) = {new}
  BY DEF Members, Range
<1>3. fat[new] = EOC
  <2>1. <<new>>[Len(<<new>>)] = new
    OBVIOUS
  <2>. QED BY <1>1, <2>1 DEF Good, IsChain
<1>4. new \notin Members(fat, r)
  <2>1. r # new
    OBVIOUS
  <2>2. Members(fat, r) \cap Members(fat, new) = {}
    BY <2>1 DEF Sound, Whole
  <2>. QED BY <1>2, <2>2
<1>5. /\ Chain(g, r) = Append(Chain(fat, r), new) /\ Good(g, r)
      /\ Members(g, r) = Members(fat, r) \cup {new} /\ e \in Members(fat, r)
  BY <1>0, <1>1, <1>3, <1>4, ChainLengthened
<1>6. e \in C /\ fat[e] # Free
  BY <1>1, <1>5, ChainInUse
<1>7. DOMAIN g = C /\ g[e] = new /\ \A c \in C : c # e => g[c] = fat[c]
  BY DEF Fats, SameBut
<1>8. ASSUME NEW s \in R, s # r
      PROVE  Chain(g, s) = Chain(fat, s) /\ Good(g, s) /\ Members(g, s) = Members(fat, s)
  <2>1. Good(fat, s) /\ Members(fat, s) \cap Members(fat, r) = {}
    BY <1>8 DEF Sound, Whole
  <2>2. Members(fat, s) \subseteq C
    BY <2>1, ChainInUse
  <2>3. \A c \in Members(fat, s) : g[c] = fat[c]
    BY <1>5, <1>7, <2>1, <2>2
  <2>. QED BY <1>5, <2>1, <2>3, ChainKept
<1>9. Whole(g, R)
  <2>1. \A s, t \in R \cup {new} : s # t => Members(fat, s) \cap Members(fat, t) = {}
    BY DEF Sound, Whole
  <2>2. \A s \in R : Members(fat, s) \cap {new} = {}
    BY <1>2, <2>1
  <2>3. ASSUME NEW s \in R, NEW t \in R, s # t PROVE Members(g, s) \cap Members(g, t) = {}
    BY <1>5, <1>8, <2>1, <2>2, <2>3
  <2>. QED BY <1>0, <1>5, <1>7, <1>8, <2>3 DEF Whole
<1>10. ASSUME NEW c \in C PROVE g[c] = Free <=> fat[c] = Free
  BY <1>0, <1>6, <1>7
<1>11. Accounted(g, R, L)
  <2>1. /\ L \subseteq C
        /\ \A x \in L : fat[x] # Free /\ \A s \in R \cup {new} : x \notin Members(fat, s)
        /\ \A c \in C : fat[c] # Free => c \in L \/ \E s \in R \cup {new} : c \in Members(fat, s)
    BY <1>0 DEF Sound, Accounted
  <2>2. ASSUME NEW x \in L PROVE g[x] # Free /\ \A s \in R : x \notin Members(g, s)
    BY <1>2, <1>5, <1>8, <1>10, <2>1
  <2>3. ASSUME NEW c \in C, g[c] # Free PROVE c \in L \/ \E s \in R : c \in Members(g, s)
    <3>1. c \in L \/ \E s \in R \cup {new} : c \in Members(fat, s)
      BY <1>10, <2>1, <2>3
    <3>. QED BY <1>2, <1>5, <1>8, <3>1
  <2>. QED BY <1>7, <2>1, <2>2, <2>3 DEF Accounted
<1>12. FreeIn(g) = FreeIn(fat)
  BY <1>0, <1>7, <1>10 DEF FreeIn
<1>. QED BY <1>5, <1>8, <1>9, <1>11, <1>12 DEF Sound

(* A chain has as many clusters as it is long. *)
LEMMA MembersCounted ==
  ASSUME NEW C, Numbered(C), NEW fat \in Fats(C), NEW r, Good(fat, r)
  PROVE  /\ IsFiniteSet(Members(fat, r))
         /\ Cardinality(Members(fat, r)) = Len(Chain(fat, r))
<1>. DEFINE q == Chain(fat, r)
            D == 1..Len(q)
            M == Range(q)
<1>1. q \in Seq(C) /\ Len(q) \in Nat \ {0} /\ \A i, j \in D : i # j => q[i] # q[j]
  BY ChainInUse DEF Good, IsChain
<1>. HIDE DEF q
<1>2. M = {q[i] : i \in D} /\ q \in [D -> M]
  BY <1>1, RangeIsElements
<1>3. IsFiniteSet(D) /\ Cardinality(D) = Len(q)
  <2>. DEFINE n == Len(q)
  <2>1. n \in Int /\ ~(1 > n)
    BY <1>1
  <2>. HIDE DEF n
  <2>2. IsFiniteSet(1..n) /\ Cardinality(1..n) = IF 1 > n THEN 0 ELSE n - 1 + 1
    BY <2>1, FS_Interval
  <2>3. Cardinality(1..n) = n
    BY <2>1, <2>2
  <2>. QED BY <2>2, <2>3 DEF n
<1>. HIDE DEF D, M
<1>4. q \in Surjection(D, M)
  BY <1>2 DEF Surjection
<1>5. q \in Injection(D, M)
  BY <1>1, <1>2 DEF Injection, IsInjective
<1>6. IsFiniteSet(M) /\ Cardinality(M) = Cardinality(D)
  BY <1>3, <1>4, <1>5, FS_Surjection
<1>. QED BY <1>3, <1>6 DEF Members, M, q

LEMMA SoundFreed ==
  ASSUME NEW C, Numbered(C), NEW fat \in Fats(C), NEW free, NEW R, NEW L,
         Sound(fat, free, R, L), NEW r \in R, NEW g \in Fats(C),
         FreedBut(C, fat, g, Members(fat, r))
  PROVE  /\ Sound(g, free + Len(Chain(fat, r)), R \ {r}, L)
         /\ \A s \in R \ {r} : Chain(g, s) = Chain(fat, s)
<1>. DEFINE M == Members(fat, r)
<1>. (\A x \in M : g[x] = Free) /\ \A x \in C : x \notin M => g[x] = fat[x]
  BY DEF FreedBut
<1>0. DOMAIN fat = C /\ DOMAIN g = C /\ R \subseteq C
  BY DEF Fats, Sound, Whole
<1>1. Good(fat, r)
  BY DEF Sound, Whole
<1>2. M \subseteq C /\ \A c \in M : fat[c] # Free
  BY <1>1, ChainInUse
<1>3. ASSUME NEW s \in R \ {r}
      PROVE  Chain(g, s) = Chain(fat, s) /\ Good(g, s) /\ Members(g, s) = Members(fat, s)
  <2>1. Good(fat, s) /\ Members(fat, s) \cap M = {}
    BY DEF Sound, Whole
  <2>2. Members(fat, s) \subseteq C
    BY <2>1, ChainInUse
  <2>3. \A c \in Members(fat, s) : g[c] = fat[c]
    BY <2>1, <2>2
  <2>. QED BY <2>1, <2>3, ChainKept
<1>4. Whole(g, R \ {r})
  <2>1. \A s, t \in R : s # t => Members(fat, s) \cap Members(fat, t) = {}
    BY DEF Sound, Whole
  <2>. QED BY <1>0, <1>3, <2>1 DEF Whole
<1>5. Accounted(g, R \ {r}, L)
  <2>1. /\ L \subseteq C
        /\ \A x \in L : fat[x] # Free /\ \A s \in R : x \notin Members(fat, s)
        /\ \A c \in C : fat[c] # Free => c \in L \/ \E s \in R : c \in Members(fat, s)
    BY <1>0 DEF Sound, Accounted
  <2>2. ASSUME NEW x \in L PROVE g[x] # Free /\ \A s \in R \ {r} : x \notin Members(g, s)
    BY <1>3, <2>1
  <2>3. ASSUME NEW c \in C, g[c] # Free PROVE c \in L \/ \E s \in R \ {r} : c \in Members(g, s)
    <3>1. c \notin M /\ fat[c] # Free
      BY <2>3
    <3>. QED BY <1>3, <2>1, <3>1
  <2>. QED BY <1>0, <2>1, <2>2, <2>3 DEF Accounted
<1>6. free + Len(Chain(fat, r)) = Cardinality(FreeIn(g))
  <2>. DEFINE A == FreeIn(fat)
              N == Len(Chain(fat, r))
  <2>1. IsFiniteSet(A) /\ free = Cardinality(A) /\ Cardinality(A) \in Nat
    BY FreeIsFinite DEF Sound
  <2>2. IsFiniteSet(M) /\ Cardinality(M) = N /\ Cardinality(M) \in Nat
    BY <1>1, MembersCounted, FS_CardinalityType
  <2>3. A \cap M = {} /\ FreeIn(g) = A \cup M
    BY <1>0, <1>2 DEF FreeIn
  <2>. HIDE DEF A, M, N
  <2>4. Cardinality(A \cup M) = Cardinality(A) + Cardinality(M)
    <3>1. Cardinality(A \cup M) = Cardinality(A) + Cardinality(M) - Cardinality(A \cap M)
      BY <2>1, <2>2, FS_Union
    <3>2. Cardinality(A \cap M) = 0
      BY <2>3, FS_EmptySet
    <3>. QED BY <2>1, <2>2, <3>1, <3>2
  <2>. QED BY <2>1, <2>2, <2>3, <2>4 DEF N
<1>. QED BY <1>3, <1>4, <1>5, <1>6 DEF Sound

(* A chain of one cluster that nobody holds any more is lost. *)
LEMMA SoundLeaked ==
  ASSUME NEW C, Numbered(C), NEW fat \in Fats(C), NEW free, NEW R, NEW L, NEW new,
         Sound(fat, free, R \cup {new}, L), new \notin R, Chain(fat, new) = <<new>>
  PROVE  Sound(fat, free, R, L \cup {new})
<1>0. DOMAIN fat = C
  BY DEF Fats
<1>1. Members(fat, new) = {new}
  BY DEF Members, Range
<1>2. Good(fat, new) /\ new \in C
  BY <1>0 DEF Sound, Whole
<1>3. fat[new] # Free
  BY <1>1, <1>2, ChainInUse
<1>4. \A s \in R : Members(fat, s) \cap Members(fat, new) = {}
  BY DEF Sound, Whole
<1>5. Whole(fat, R)
  BY DEF Sound, Whole
<1>6. Accounted(fat, R, L \cup {new})
  BY <1>0, <1>1, <1>2, <1>3, <1>4 DEF Sound, Accounted
<1>. QED BY <1>5, <1>6 DEF Sound

-----------------------------------------------------------------------------
(* The chains of K are whole in fat, and none is shorter than in old. *)
Kept(C, old, K) ==
  {fat \in Fats(C) : Whole(fat, K) /\ \A r \in K : Len(Chain(old, r)) <= Len(Chain(fat, r))}

(* Disks within a command, whose directory entries are in E and whose      *)
(* earlier FATs are in G; a disk that is ready has a FAT in G as well, so  *)
(* that power may be lost now.                                             *)
Contents(E) == [Clusters -> [1..SlotsPer -> E]]

Olds(E, G) == [fat : G, ent : Contents(E), free : Int, next : Int, past : {<<>>}]

Disks(E, G) ==
  [fat : Fats(Clusters), ent : Contents(E), free : Int, next : Int, past : Seq(Olds(E, G))]

Ready(E, G) == {d \in Disks(E, G) : d.fat \in G}

LEMMA PastReady ==
  ASSUME NEW E, NEW G, NEW d \in Ready(E, G)
  PROVE  Past(d) \in Seq(Olds(E, G))
<1>. DEFINE O == Olds(E, G)
            o == [d EXCEPT !.past = <<>>]
<1>1. o \in O /\ d.past \in Seq(O)
  BY DEF Ready, Disks, Olds
<1>. HIDE DEF O, o
<1>2. Append(d.past, o) \in Seq(O) /\ <<>> \in Seq(O)
  BY <1>1
<1>. QED BY <1>2 DEF Past, O, o

(* The four sector writes. *)
LEMMA FatWritten ==
  ASSUME NEW E, NEW G, NEW d \in Ready(E, G), NEW c \in Clusters,
         NEW v \in Values(Clusters), NEW g, g = fat_set_entry(d, c, v)
  PROVE  /\ g \in Disks(E, G) /\ g.free = d.free
         /\ g.fat \in Fats(Clusters) /\ g.fat[c] = v
         /\ SameBut(Clusters, d.fat, g.fat, c)
<1>. DEFINE p == Past(d)
            f == [d.fat EXCEPT ![c] = v]
<1>1. p \in Seq(Olds(E, G)) /\ d \in Disks(E, G)
  BY PastReady DEF Ready
<1>2. d.fat \in Fats(Clusters)
  BY <1>1 DEF Disks
<1>3. f \in Fats(Clusters) /\ f[c] = v /\ \A x \in Clusters : x # c => f[x] = d.fat[x]
  BY <1>2 DEF Fats
<1>5. g = [d EXCEPT !.fat = f, !.past = p]
  BY DEF fat_set_entry
<1>. HIDE DEF p, f
<1>6. g \in Disks(E, G) /\ g.fat = f /\ g.free = d.free
  BY <1>1, <1>3, <1>5 DEF Disks
<1>. QED BY <1>3, <1>6 DEF SameBut

LEMMA InfoWritten ==
  ASSUME NEW E, NEW G, NEW d \in Ready(E, G), NEW free \in Int, NEW next \in Int,
         NEW g, g = fsinfo_save(d, free, next)
  PROVE  g \in Ready(E, G) /\ g.fat = d.fat /\ g.free = free
<1>. DEFINE p == Past(d)
<1>1. p \in Seq(Olds(E, G)) /\ d \in Disks(E, G)
  BY PastReady DEF Ready
<1>. HIDE DEF p
<1>. QED BY <1>1 DEF Disks, Ready, fsinfo_save, p

LEMMA EntryWritten ==
  ASSUME NEW E, NEW G, NEW d \in Ready(E, G), NEW p, NEW e \in E,
         NEW g, g = Put(d, p, e)
  PROVE  g \in Ready(E, G) /\ g.fat = d.fat /\ g.free = d.free
<1>. DEFINE q == Past(d)
            t == [d.ent EXCEPT ![p[1]][p[2]] = e]
<1>1. q \in Seq(Olds(E, G)) /\ d \in Disks(E, G)
  BY PastReady DEF Ready
<1>2. d.ent \in Contents(E)
  BY <1>1 DEF Disks
<1>3. t \in Contents(E)
  BY <1>2 DEF Contents
<1>. HIDE DEF q
<1>4. g = [d EXCEPT !.ent = t, !.past = q]
  BY DEF Put, q
<1>. HIDE DEF t
<1>5. g \in Disks(E, G) /\ g.fat = d.fat /\ g.free = d.free
  BY <1>1, <1>3, <1>4 DEF Disks
<1>. QED BY <1>5 DEF Ready

LEMMA ClusterWritten ==
  ASSUME NEW E, NEW G, NEW d \in Ready(E, G), NEW c, NEW t \in [1..SlotsPer -> E],
         NEW g, g = PutCluster(d, c, t)
  PROVE  g \in Ready(E, G) /\ g.fat = d.fat /\ g.free = d.free
<1>. DEFINE q == Past(d)
            u == [d.ent EXCEPT ![c] = t]
<1>1. q \in Seq(Olds(E, G)) /\ d \in Disks(E, G)
  BY PastReady DEF Ready
<1>2. d.ent \in Contents(E)
  BY <1>1 DEF Disks
<1>3. u \in Contents(E)
  BY <1>2 DEF Contents
<1>. HIDE DEF q
<1>4. g = [d EXCEPT !.ent = u, !.past = q]
  BY DEF PutCluster, q
<1>. HIDE DEF u
<1>5. g \in Disks(E, G) /\ g.fat = d.fat /\ g.free = d.free
  BY <1>1, <1>3, <1>4 DEF Disks
<1>. QED BY <1>5 DEF Ready

-----------------------------------------------------------------------------
LEMMA VolumeFacts ==
  ASSUME vol \in Volumes
  PROVE  Numbered(Clusters) /\ Root \in Clusters /\ Clusters \subseteq Nat \ {0} /\ SlotsPer \in Nat
<1>1. vol.last \in Nat /\ vol.last >= 2 /\ SlotsPer \in Nat
  BY Fat32Assumption DEF SlotsPer, Root
<1>2. IsFiniteSet(Clusters)
  BY <1>1, FS_Interval DEF Clusters
<1>3. Clusters \subseteq Nat \ {0} /\ Root \in Clusters
  BY <1>1 DEF Clusters, Root
<1>. QED BY <1>1, <1>2, <1>3 DEF Numbered

LEMMA LeastOf ==
  ASSUME NEW S, S \subseteq Nat, S # {}
  PROVE  Min(S) \in S
<1>1. S \in SUBSET Nat
  OBVIOUS
<1>2. PICK x \in S : \A y \in S : ~(<<y, x>> \in OpToRel(<, Nat))
  BY <1>1, NatLessThanWellFounded, WFMin
<1>3. ASSUME NEW y \in S PROVE x <= y
  <2>1. CASE y < x
    <3>1. <<y, x>> \in OpToRel(<, Nat)
      BY <2>1 DEF OpToRel
    <3>. QED BY <1>2, <3>1
  <2>2. x \in Nat /\ y \in Nat
    OBVIOUS
  <2>. QED BY <2>1, <2>2
<1>4. \E z \in S : \A y \in S : z =< y
  BY <1>3
<1>. QED BY <1>4 DEF Min

(* What a command works with: the FAT as it found it, and the chains it    *)
(* has to keep.                                                            *)
FoundWhole(old, K) == vol \in Volumes /\ old \in Fats(Clusters) /\ Whole(old, K)

(* Disks with sound FATs, at which power may be lost. *)
Sounds(E, old, K, R, L) ==
  {d \in Ready(E, Kept(Clusters, old, K)) : Sound(d.fat, d.free, R, L)}

LEMMA ChainLengths ==
  ASSUME NEW C, Numbered(C), NEW fat \in Fats(C), NEW K, Whole(fat, K)
  PROVE  \A r \in K : Good(fat, r) /\ Len(Chain(fat, r)) \in Nat
<1>. SUFFICES ASSUME NEW r \in K PROVE Good(fat, r) /\ Len(Chain(fat, r)) \in Nat
  OBVIOUS
<1>1. Good(fat, r)
  BY DEF Whole
<1>. QED BY <1>1, ChainInUse

LEMMA KeptBySound ==
  ASSUME NEW C, Numbered(C), NEW old \in Fats(C), NEW K, Whole(old, K),
         NEW fat \in Kept(C, old, K), NEW g \in Fats(C), NEW free, NEW R, NEW L,
         Sound(g, free, R, L), K \subseteq R,
         \A r \in K : Len(Chain(fat, r)) <= Len(Chain(g, r))
  PROVE  g \in Kept(C, old, K)
<1>1. Whole(g, K)
  BY DEF Sound, Whole
<1>2. fat \in Fats(C) /\ Whole(fat, K) /\ \A r \in K : Len(Chain(old, r)) <= Len(Chain(fat, r))
  BY DEF Kept
<1>3. ASSUME NEW r \in K PROVE Len(Chain(old, r)) <= Len(Chain(g, r))
  <2>1. /\ Len(Chain(old, r)) \in Nat /\ Len(Chain(fat, r)) \in Nat /\ Len(Chain(g, r)) \in Nat
        /\ Len(Chain(old, r)) <= Len(Chain(fat, r)) /\ Len(Chain(fat, r)) <= Len(Chain(g, r))
    BY <1>1, <1>2, ChainLengths
  <2>. QED BY <2>1
<1>. QED BY <1>1, <1>3 DEF Kept

(* Changes to a chain outside K keep those of K. *)
LEMMA KeptApart ==
  ASSUME NEW C, Numbered(C), NEW old \in Fats(C), NEW K,
         NEW fat \in Kept(C, old, K), NEW g \in Fats(C), NEW S,
         \A r \in K : Members(fat, r) \cap S = {},
         \A c \in C : c \notin S => g[c] = fat[c]
  PROVE  g \in Kept(C, old, K)
<1>1. fat \in Fats(C) /\ Whole(fat, K) /\ \A r \in K : Len(Chain(old, r)) <= Len(Chain(fat, r))
  BY DEF Kept
<1>2. ASSUME NEW r \in K
      PROVE  Chain(g, r) = Chain(fat, r) /\ Good(g, r) /\ Members(g, r) = Members(fat, r)
  <2>1. Good(fat, r)
    BY <1>1 DEF Whole
  <2>2. Members(fat, r) \subseteq C
    BY <1>1, <2>1, ChainInUse
  <2>3. \A c \in Members(fat, r) : g[c] = fat[c]
    BY <2>2
  <2>. QED BY <1>1, <2>1, <2>3, ChainKept
<1>3. DOMAIN fat = C /\ DOMAIN g = C
  BY <1>1 DEF Fats
<1>4. Whole(g, K)
  BY <1>1, <1>2, <1>3 DEF Whole
<1>. QED BY <1>1, <1>2, <1>4 DEF Kept

(* fat32_alloc_cluster takes a free cluster, whatever the hint says. *)
LEMMA AllocatableFree ==
  ASSUME vol \in Volumes, NEW d, Allocatable(d) # {}
  PROVE  Min(Allocatable(d)) \in Clusters /\ d.fat[Min(Allocatable(d))] = Free
<1>1. Allocatable(d) \subseteq {c \in Clusters : d.fat[c] = Free}
  BY DEF Allocatable
<1>2. Allocatable(d) \subseteq Nat
  BY <1>1, VolumeFacts
<1>3. Min(Allocatable(d)) \in Allocatable(d)
  BY <1>2, LeastOf
<1>. QED BY <1>1, <1>3

(* Both sector writes of an allocation leave the chains of K whole, and g, *)
(* the disk after them, has one more chain.                                *)
Allocated(E, old, K, R, L, d, new, g) ==
  /\ g \in Sounds(E, old, K, R \cup {new}, L) /\ new \in Clusters /\ new \notin R
  /\ Chain(g.fat, new) = <<new>>
  /\ \A r \in R : Chain(g.fat, r) = Chain(d.fat, r)

LEMMA AllocSound ==
  ASSUME NEW E, NEW old, NEW K, FoundWhole(old, K), NEW R, NEW L, K \subseteq R,
         NEW d \in Sounds(E, old, K, R, L), Allocatable(d) # {},
         NEW new, new = Min(Allocatable(d)), NEW g, g = fat32_alloc_cluster(d)
  PROVE  Allocated(E, old, K, R, L, d, new, g)
<1>. DEFINE G == Kept(Clusters, old, K)
            b == fat_set_entry(d, new, EOC)
            f == d.fat
            h == b.fat
            left == IF d.free > 0 THEN d.free - 1 ELSE d.free
<1>0. /\ Numbered(Clusters) /\ Clusters \subseteq Nat /\ vol \in Volumes
      /\ old \in Fats(Clusters) /\ Whole(old, K)
  BY VolumeFacts DEF FoundWhole
<1>1. new \in Clusters /\ f[new] = Free /\ new \in Int
  <2>1. Min(Allocatable(d)) \in Clusters /\ d.fat[Min(Allocatable(d))] = Free
    BY <1>0, AllocatableFree
  <2>2. new \in Clusters
    BY <2>1, Zenon
  <2>3. f[new] = Free
    BY <2>1, Zenon
  <2>4. new \in Int
    BY <1>0, <2>2
  <2>. QED BY <2>2, <2>3, <2>4
<1>2. /\ d \in Ready(E, G) /\ Sound(f, d.free, R, L) /\ f \in Fats(Clusters) /\ f \in G
      /\ d.free \in Int
  BY DEF Sounds, Ready, Disks
<1>3. EOC \in Values(Clusters) /\ b = fat_set_entry(d, new, EOC)
  BY DEF Values
<1>. HIDE DEF G, b, f
<1>4. /\ b \in Disks(E, G) /\ h \in Fats(Clusters) /\ h[new] = EOC
      /\ SameBut(Clusters, f, h, new)
  BY <1>1, <1>2, <1>3, FatWritten DEF f
<1>. HIDE DEF h
<1>5. /\ Sound(h, d.free - 1, R \cup {new}, L) /\ d.free > 0
      /\ new \notin R /\ Chain(h, new) = <<new>>
      /\ \A r \in R : Chain(h, r) = Chain(f, r)
  BY <1>0, <1>1, <1>2, <1>4, SoundAllocated
<1>6. h \in G
  <2>1. Whole(f, K) /\ K \subseteq R \cup {new}
    BY <1>2 DEF Sound, Whole
  <2>2. \A r \in K : Len(Chain(f, r)) <= Len(Chain(h, r))
    BY <1>0, <1>2, <1>5, <2>1, ChainLengths
  <2>. QED BY <1>0, <1>2, <1>4, <1>5, <2>1, <2>2, KeptBySound DEF G
<1>7. b \in Ready(E, G)
  BY <1>4, <1>6 DEF Ready, h
<1>8. left = d.free - 1 /\ left \in Int /\ new + 1 \in Int
  BY <1>1, <1>2, <1>5
<1>9. g = fsinfo_save(b, left, new + 1)
  BY DEF fat32_alloc_cluster, b
<1>. HIDE DEF left
<1>10. g \in Ready(E, G) /\ g.fat = h /\ g.free = left
  BY <1>7, <1>8, <1>9, InfoWritten DEF h
<1>. QED BY <1>1, <1>5, <1>8, <1>10 DEF Allocated, Sounds, G, f

LEMMA LastOfChain ==
  ASSUME NEW C, Numbered(C), NEW fat \in Fats(C), NEW r, Good(fat, r)
  PROVE  Last(Chain(fat, r)) \in Members(fat, r) /\ Last(Chain(fat, r)) \in C
<1>. DEFINE q == Chain(fat, r)
<1>1. q \in Seq(C) /\ Len(q) \in Nat \ {0}
  BY ChainInUse
<1>. HIDE DEF q
<1>2. Range(q) = {q[i] : i \in 1..Len(q)} /\ Range(q) \subseteq C
  BY <1>1, RangeIsElements
<1>3. Len(q) \in 1..Len(q) /\ Last(q) = q[Len(q)]
  BY <1>1 DEF Last
<1>. QED BY <1>2, <1>3 DEF Members, q

(* Growing a chain by a cluster keeps all chains. *)
LEMMA AppendSound ==
  ASSUME NEW E, NEW old, NEW K, FoundWhole(old, K), NEW R, NEW L, K \subseteq R,
         NEW d \in Sounds(E, old, K, R, L), Allocatable(d) # {}, NEW r \in R,
         NEW g, g = AppendCluster(d, Last(Chain(d.fat, r)))
  PROVE  /\ g \in Sounds(E, old, K, R, L)
         /\ \A s \in R : s # r => Chain(g.fat, s) = Chain(d.fat, s)
<1>. DEFINE G == Kept(Clusters, old, K)
            new == Min(Allocatable(d))
            a == fat32_alloc_cluster(d)
            f == a.fat
            h == g.fat
            e == Last(Chain(f, r))
<1>0. Numbered(Clusters) /\ old \in Fats(Clusters) /\ Whole(old, K)
  BY VolumeFacts DEF FoundWhole
<1>1. /\ a \in Sounds(E, old, K, R \cup {new}, L) /\ new \in Clusters /\ new \notin R
      /\ Chain(f, new) = <<new>> /\ \A s \in R : Chain(f, s) = Chain(d.fat, s)
  <2>. HIDE DEF new, a
  <2>1. new = Min(Allocatable(d)) /\ a = fat32_alloc_cluster(d)
    BY DEF new, a
  <2>. HIDE DEF f, h, e, G
  <2>2. Allocated(E, old, K, R, L, d, new, a)
    BY <2>1, AllocSound
  <2>. QED BY <2>2 DEF Allocated, f
<1>2. g = fat_set_entry(a, e, new)
  <2>1. Chain(f, r) = Chain(d.fat, r)
    BY <1>1
  <2>2. g = fat_set_entry(a, Last(Chain(d.fat, r)), new)
    BY DEF AppendCluster
  <2>. QED BY <2>1, <2>2, Zenon
<1>. HIDE DEF new, a, G
<1>3. a \in Ready(E, G) /\ Sound(f, a.free, R \cup {new}, L) /\ f \in Fats(Clusters) /\ f \in G
  BY <1>1 DEF Sounds, Ready, Disks, G
<1>. HIDE DEF f
<1>4. Good(f, r) /\ Whole(f, R)
  BY <1>3 DEF Sound, Whole
<1>5. e \in Clusters
  BY <1>0, <1>3, <1>4, LastOfChain
<1>6. new \in Values(Clusters) /\ e = Last(Chain(f, r))
  BY <1>1 DEF Values
<1>. HIDE DEF e
<1>7. /\ g \in Disks(E, G) /\ h \in Fats(Clusters) /\ h[e] = new /\ g.free = a.free
      /\ SameBut(Clusters, f, h, e)
  BY <1>2, <1>3, <1>5, <1>6, FatWritten DEF f
<1>. HIDE DEF h
<1>8. /\ Sound(h, a.free, R, L) /\ Chain(h, r) = Append(Chain(f, r), new)
      /\ \A s \in R : s # r => Chain(h, s) = Chain(f, s)
  BY <1>0, <1>1, <1>3, <1>6, <1>7, SoundLinked
<1>9. h \in G
  <2>1. ASSUME NEW s \in K PROVE Len(Chain(f, s)) <= Len(Chain(h, s))
    <3>1. Good(f, s) /\ s \in R
      BY <1>4 DEF Whole
    <3>2. Chain(f, s) \in Seq(Clusters) /\ Len(Chain(f, s)) \in Nat
      BY <1>0, <1>3, <3>1, ChainInUse
    <3>3. CASE s = r
      <4>. DEFINE q == Chain(f, r)
      <4>1. q \in Seq(Clusters) /\ Chain(h, s) = Append(q, new)
        BY <1>8, <3>2, <3>3
      <4>. HIDE DEF q
      <4>2. Len(Append(q, new)) = Len(q) + 1 /\ Len(q) \in Nat
        BY <1>1, <4>1
      <4>. QED BY <3>3, <4>1, <4>2 DEF q
    <3>4. CASE s # r
      BY <1>8, <3>1, <3>2, <3>4
    <3>. QED BY <3>3, <3>4
  <2>. QED BY <1>0, <1>3, <1>7, <1>8, <2>1, KeptBySound DEF G
<1>10. g \in Sounds(E, old, K, R, L)
  BY <1>7, <1>8, <1>9 DEF Sounds, Ready, G, h
<1>. QED BY <1>1, <1>8, <1>10 DEF h

(* free_chain frees the clusters one after the other; the chains that are  *)
(* kept are whole all the time.                                            *)
LEMMA FreedSound ==
  ASSUME NEW E, NEW old, NEW K, FoundWhole(old, K), NEW R, NEW L, K \subseteq R,
         NEW d \in Sounds(E, old, K, R, L), NEW r \in R \ K,
         NEW q, q = Chain(d.fat, r), NEW g, g = FreedInOrder(d, q)
  PROVE  /\ g \in Ready(E, Kept(Clusters, old, K)) /\ g.free = d.free
         /\ FreedBut(Clusters, d.fat, g.fat, Members(d.fat, r))
<1>. DEFINE N == Len(q)
            f == d.fat
            M == Members(f, r)
            G == Kept(Clusters, old, K)
            Apart(x) == \A c \in Clusters : c \notin M => x.fat[c] = f[c]
            S(i) == {x \in Ready(E, G) : /\ x.free = d.free /\ Apart(x)
                                         /\ \A j \in 1..i : x.fat[q[j]] = Free}
            Turn(i, x) == fat_set_entry(x, q[i], Free)
            Inv == [i \in 0..N |-> S(i)]
            turn == [i \in 1..N |-> [x \in S(i - 1) |-> Turn(i, x)]]
            F(h) == [i \in 0..N |-> IF i = 0 THEN d ELSE Turn(i, h[i - 1])]
            after == CHOOSE h : h = F(h)
<1>0. Numbered(Clusters) /\ old \in Fats(Clusters) /\ Whole(old, K)
  BY VolumeFacts DEF FoundWhole
<1>1. /\ d \in Ready(E, G) /\ Sound(f, d.free, R, L) /\ f \in Fats(Clusters) /\ f \in G
  BY DEF Sounds, Ready, Disks
<1>2. Good(f, r) /\ \A s \in K : Members(f, s) \cap M = {}
  BY <1>1 DEF Sound, Whole
<1>3. q \in Seq(Clusters) /\ N \in Nat /\ M = {q[i] : i \in 1..N} /\ M \subseteq Clusters
  <2>1. q \in Seq(Clusters) /\ M \subseteq Clusters /\ Len(q) \in Nat
    BY <1>0, <1>1, <1>2, ChainInUse
  <2>2. M = Range(q)
    BY DEF Members
  <2>. QED BY <2>1, <2>2, RangeIsElements
<1>. HIDE DEF f, M, G
<1>4. N \in Nat /\ d \in S(0)
  BY <1>1, <1>3 DEF f
<1>5. ASSUME NEW i \in 1..N, NEW x \in S(i - 1) PROVE Turn(i, x) \in S(i)
  <2>. DEFINE y == Turn(i, x)
              c == q[i]
              v == Free
              h == y.fat
  <2>1. c \in Clusters /\ c \in M /\ v \in Values(Clusters) /\ y = fat_set_entry(x, c, v)
    BY <1>3 DEF Values
  <2>2. x \in Ready(E, G) /\ x.fat \in G /\ x.fat \in Fats(Clusters)
    BY DEF Ready, Disks
  <2>3. x.free = d.free /\ Apart(x) /\ \A j \in 1..(i - 1) : x.fat[q[j]] = Free
    OBVIOUS
  <2>. HIDE DEF v, y, c, S
  <2>4. /\ y \in Disks(E, G) /\ y.free = x.free /\ h \in Fats(Clusters) /\ h[c] = v
        /\ SameBut(Clusters, x.fat, h, c)
    BY <2>1, <2>2, FatWritten
  <2>. HIDE DEF h
  <2>5. \A b \in Clusters : b \notin M => h[b] = f[b]
    BY <2>1, <2>3, <2>4 DEF SameBut
  <2>6. h \in G
    BY <1>0, <1>1, <1>2, <2>4, <2>5, KeptApart DEF G
  <2>7. ASSUME NEW j \in 1..i PROVE h[q[j]] = Free
    <3>1. q[j] \in Clusters /\ (j \in 1..(i - 1) \/ j = i)
      BY <1>3
    <3>2. CASE q[j] = c
      BY <2>4, <3>2 DEF v
    <3>3. CASE q[j] # c
      <4>1. j \in 1..(i - 1)
        BY <3>1, <3>3 DEF c
      <4>. QED BY <2>3, <2>4, <3>1, <3>3, <4>1 DEF SameBut
    <3>. QED BY <3>2, <3>3
  <2>8. y \in Ready(E, G) /\ Apart(y)
    BY <2>4, <2>5, <2>6 DEF Ready, h
  <2>. QED BY <2>3, <2>4, <2>7, <2>8 DEF S, y, h
<1>. HIDE DEF S, Turn
<1>6. \E h : h = F(h)
  <2>1. \A i \in 1..N : turn[i] \in [Inv[i - 1] -> Inv[i]]
    <3>1. \A i \in 1..N : i - 1 \in 0..N /\ i \in 0..N
      BY <1>4
    <3>. QED BY <1>5, <3>1
  <2>2. PICK h : Runs(h, N, Inv, d, turn)
    <3>1. d \in Inv[0]
      BY <1>4
    <3>. HIDE DEF N, Inv, turn
    <3>. QED BY <1>4, <2>1, <3>1, LoopExists
  <2>3. ASSUME NEW i \in 0..N PROVE h[i] = IF i = 0 THEN d ELSE Turn(i, h[i - 1])
    <3>1. CASE i = 0
      BY <2>2, <3>1 DEF Runs
    <3>2. CASE i # 0
      <4>1. i \in 1..N /\ i - 1 \in 0..N
        BY <1>4, <3>2
      <4>2. h[i - 1] \in S(i - 1) /\ h[i] = turn[i][h[i - 1]]
        BY <2>2, <4>1 DEF Runs
      <4>. QED BY <3>2, <4>1, <4>2
    <3>. QED BY <3>1, <3>2
  <2>4. h = [i \in 0..N |-> h[i]]
    BY <2>2 DEF Runs
  <2>5. h = F(h)
    <3>. HIDE DEF N
    <3>. QED BY <2>3, <2>4
  <2>. QED BY <2>5
<1>7. after = F(after)
  BY <1>6, Zenon
<1>8. g = after[N]
  BY DEF FreedInOrder, Turn
<1>. HIDE DEF after
<1>9. after[0] = d /\ \A i \in 1..N : after[i] = Turn(i, after[i - 1])
  BY <1>4, <1>7
<1>10. \A i \in 0..N : after[i] \in Inv[i]
  <2>1. after[0] \in Inv[0] /\ \A i \in 1..N : after[i - 1] \in Inv[i - 1] => after[i] \in Inv[i]
    BY <1>4, <1>5, <1>9
  <2>. HIDE DEF Inv, N
  <2>. QED BY <1>4, <2>1, LoopStays
<1>11. g \in S(N)
  BY <1>4, <1>8, <1>10
<1>. QED BY <1>3, <1>11 DEF S, G, M, f, FreedBut

(* free_chain frees one chain, counts its clusters and touches no other.   *)
LEMMA FreeChainSound ==
  ASSUME NEW E, NEW old, NEW K, FoundWhole(old, K), NEW R, NEW L, K \subseteq R,
         NEW d \in Sounds(E, old, K, R, L), NEW r \in R \ K, NEW g, g = free_chain(d, r)
  PROVE  g \in Sounds(E, old, K, R \ {r}, L)
<1>. DEFINE G == Kept(Clusters, old, K)
            f == d.fat
            q == Chain(f, r)
            M == Members(f, r)
            a == FreedInOrder(d, q)
            b == fsinfo_save(a, d.free + Len(q), d.next)
            free == d.free + Len(q)
            next == d.next
            h == a.fat
<1>0. Numbered(Clusters) /\ old \in Fats(Clusters) /\ Whole(old, K) /\ vol \in Volumes
  BY VolumeFacts DEF FoundWhole
<1>1. /\ Sound(f, d.free, R, L) /\ f \in Fats(Clusters) /\ d.free \in Int /\ d.next \in Int
  BY DEF Sounds, Ready, Disks
<1>2. Good(f, r)
  BY <1>1 DEF Sound, Whole
<1>3. q \in Seq(Clusters) /\ Len(q) \in Nat \ {0}
  BY <1>0, <1>1, <1>2, ChainInUse
<1>4. /\ a \in Ready(E, G) /\ a.free = d.free
      /\ FreedBut(Clusters, f, h, M)
  <2>1. q = Chain(d.fat, r) /\ a = FreedInOrder(d, q)
    OBVIOUS
  <2>. HIDE DEF q, a, h, M, f
  <2>2. a \in Ready(E, Kept(Clusters, old, K))
    BY <2>1, FreedSound
  <2>3. FreedBut(Clusters, d.fat, a.fat, Members(d.fat, r))
    BY <2>1, FreedSound
  <2>4. a.free = d.free
    BY <2>1, <2>2, <2>3, FreedSound
  <2>. QED BY <2>2, <2>3, <2>4 DEF h, M, f
<1>5. g = b
  <2>1. q # <<>>
    <3>. HIDE DEF q
    <3>. QED BY <1>3, EmptySeq
  <2>. QED BY <2>1 DEF free_chain
<1>6. free \in Int /\ next \in Int /\ b = fsinfo_save(a, free, next)
  BY <1>1, <1>3
<1>. HIDE DEF a, b, q, f, free, next
<1>7. b \in Ready(E, G) /\ b.fat = a.fat /\ b.free = free
  BY <1>4, <1>6, InfoWritten
<1>8. g \in Ready(E, G) /\ g.fat = b.fat /\ g.free = b.free
  BY <1>5, <1>7
<1>9. h \in Fats(Clusters)
  BY <1>4 DEF Ready, Disks
<1>. HIDE DEF h
<1>10. Sound(h, d.free + Len(Chain(f, r)), R \ {r}, L)
  BY <1>0, <1>1, <1>4, <1>9, SoundFreed
<1>11. g.free = d.free + Len(Chain(f, r)) /\ g.fat = h
  BY <1>7, <1>8 DEF free, q, h
<1>. QED BY <1>8, <1>10, <1>11 DEF Sounds

(* A file without clusters has nothing to free. *)
LEMMA FreeNothing ==
  ASSUME vol \in Volumes, NEW d, d.fat \in Fats(Clusters)
  PROVE  free_chain(d, NoFile) = d
<1>1. NoFile \notin Clusters
  BY VolumeFacts DEF NoFile
<1>2. DOMAIN d.fat = Clusters
  BY DEF Fats
<1>3. Chain(d.fat, NoFile) = <<>>
  BY <1>1, <1>2 DEF Chain
<1>. QED BY <1>3 DEF free_chain

-----------------------------------------------------------------------------
(* Directories grow by clusters; other chains stay the same. *)
Grown(E, old, K, R, L, f, dir) ==
  {d \in Sounds(E, old, K, R, L) : \A s \in R : s # dir => Chain(d.fat, s) = Chain(f, s)}

LEMMA GrowOnceSound ==
  ASSUME NEW E, Zero \in E, NEW old, NEW K, FoundWhole(old, K), NEW R, NEW L, K \subseteq R,
         NEW f, NEW dir \in R, NEW d \in Grown(E, old, K, R, L, f, dir), NEW n
  PROVE  GrowOnce(d, dir, n) \in Grown(E, old, K, R, L, f, dir)
<1>1. CASE FreeRuns(d, dir, n) # {} \/ Allocatable(d) = {}
  BY <1>1 DEF GrowOnce
<1>2. CASE ~(FreeRuns(d, dir, n) # {} \/ Allocatable(d) = {})
  <2>. DEFINE e == Last(Chain(d.fat, dir))
              new == Min(Allocatable(d))
              a == AppendCluster(d, e)
              g == PutCluster(a, new, EmptyCluster)
              t == EmptyCluster
              G == Kept(Clusters, old, K)
  <2>1. d \in Sounds(E, old, K, R, L) /\ \A s \in R : s # dir => Chain(d.fat, s) = Chain(f, s)
    BY DEF Grown
  <2>2. GrowOnce(d, dir, n) = g /\ Allocatable(d) # {} /\ a = AppendCluster(d, Last(Chain(d.fat, dir)))
    BY <1>2 DEF GrowOnce, GrowDirectory
  <2>3. t \in [1..SlotsPer -> E] /\ g = PutCluster(a, new, t)
    BY DEF EmptyCluster
  <2>. HIDE DEF a, new, g, t
  <2>4. /\ a \in Sounds(E, old, K, R, L)
        /\ \A s \in R : s # dir => Chain(a.fat, s) = Chain(d.fat, s)
    BY <2>1, <2>2, AppendSound
  <2>5. a \in Ready(E, G) /\ Sound(a.fat, a.free, R, L)
    BY <2>4 DEF Sounds
  <2>. HIDE DEF G
  <2>6. g \in Ready(E, G) /\ g.fat = a.fat /\ g.free = a.free
    BY <2>3, <2>5, ClusterWritten
  <2>7. g \in Sounds(E, old, K, R, L)
    BY <2>5, <2>6 DEF Sounds, G
  <2>. QED BY <2>1, <2>2, <2>4, <2>6, <2>7 DEF Grown
<1>. QED BY <1>1, <1>2

(* A directory that grows keeps its own chain and every other. *)
LEMMA GrowForSound ==
  ASSUME NEW E, Zero \in E, NEW old, NEW K, FoundWhole(old, K), NEW R, NEW L, K \subseteq R,
         NEW f, NEW dir \in R, NEW d \in Grown(E, old, K, R, L, f, dir), NEW n \in Nat,
         NEW g, g = GrowFor(d, dir, n)
  PROVE  g \in Grown(E, old, K, R, L, f, dir)
<1>. DEFINE N == n
            S(i) == Grown(E, old, K, R, L, f, dir)
            Turn(i, x) == GrowOnce(x, dir, n)
            Inv == [i \in 0..N |-> S(i)]
            turn == [i \in 1..N |-> [x \in S(i - 1) |-> Turn(i, x)]]
            F(h) == [i \in 0..N |-> IF i = 0 THEN d ELSE Turn(i, h[i - 1])]
            after == CHOOSE h : h = F(h)
<1>1. N \in Nat /\ d \in S(0)
  OBVIOUS
<1>3. ASSUME NEW i \in 1..N, NEW x \in S(i - 1) PROVE Turn(i, x) \in S(i)
  BY GrowOnceSound
<1>. HIDE DEF S, Turn
<1>4. \E h : h = F(h)
  <2>1. \A i \in 1..N : turn[i] \in [Inv[i - 1] -> Inv[i]]
    <3>1. \A i \in 1..N : i - 1 \in 0..N /\ i \in 0..N
      BY <1>1
    <3>. QED BY <1>3, <3>1
  <2>2. PICK h : Runs(h, N, Inv, d, turn)
    <3>1. d \in Inv[0]
      BY <1>1
    <3>. HIDE DEF N, Inv, turn
    <3>. QED BY <1>1, <2>1, <3>1, LoopExists
  <2>3. ASSUME NEW i \in 0..N PROVE h[i] = IF i = 0 THEN d ELSE Turn(i, h[i - 1])
    <3>1. CASE i = 0
      BY <2>2, <3>1 DEF Runs
    <3>2. CASE i # 0
      <4>1. i \in 1..N /\ i - 1 \in 0..N
        BY <1>1, <3>2
      <4>2. h[i - 1] \in S(i - 1) /\ h[i] = turn[i][h[i - 1]]
        BY <2>2, <4>1 DEF Runs
      <4>. QED BY <3>2, <4>1, <4>2
    <3>. QED BY <3>1, <3>2
  <2>4. h = [i \in 0..N |-> h[i]]
    BY <2>2 DEF Runs
  <2>5. h = F(h)
    <3>. HIDE DEF N
    <3>. QED BY <2>3, <2>4
  <2>. QED BY <2>5
<1>5. after = F(after)
  BY <1>4, Zenon
<1>6. g = after[N]
  BY DEF GrowFor, Turn
<1>. HIDE DEF after
<1>7. after[0] = d /\ \A i \in 1..N : after[i] = Turn(i, after[i - 1])
  BY <1>1, <1>5
<1>8. \A i \in 0..N : after[i] \in Inv[i]
  <2>1. after[0] \in Inv[0] /\ \A i \in 1..N : after[i - 1] \in Inv[i - 1] => after[i] \in Inv[i]
    BY <1>1, <1>3, <1>7
  <2>. HIDE DEF Inv, N
  <2>. QED BY <1>1, <2>1, LoopStays
<1>9. g \in S(N)
  BY <1>1, <1>6, <1>8
<1>. QED BY <1>9 DEF S

(* fat32_file_write lengthens the file's chain. *)
LEMMA WrittenSound ==
  ASSUME NEW E, vol.bytes \in E, NEW old, NEW K, FoundWhole(old, K), NEW R, NEW L, K \subseteq R,
         NEW start \in R, NEW d \in Sounds(E, old, K, R, L), NEW first, NEW last \in Nat,
         NEW g, g = Written(d, start, first, last)
  PROVE  g \in Sounds(E, old, K, R, L)
<1>. DEFINE N == last
            S(i) == Sounds(E, old, K, R, L)
            Turn(i, x) == WriteOnce(x, start, i, first)
            Inv == [i \in 0..N |-> S(i)]
            turn == [i \in 1..N |-> [x \in S(i - 1) |-> Turn(i, x)]]
            F(h) == [i \in 0..N |-> IF i = 0 THEN d ELSE Turn(i, h[i - 1])]
            after == CHOOSE h : h = F(h)
<1>1. N \in Nat /\ d \in S(0)
  OBVIOUS
<1>3. ASSUME NEW i \in 1..N, NEW x \in S(i - 1) PROVE Turn(i, x) \in S(i)
  <2>. DEFINE y == Reached(x, start, i)
              c == Chain(y.fat, start)[i]
              t == FileBytes
              z == PutCluster(y, c, t)
  <2>1. y \in Sounds(E, old, K, R, L)
    <3>1. CASE Len(Chain(x.fat, start)) >= i \/ Allocatable(x) = {}
      BY <3>1 DEF Reached
    <3>2. CASE ~(Len(Chain(x.fat, start)) >= i \/ Allocatable(x) = {})
      <4>1. y = AppendCluster(x, Last(Chain(x.fat, start))) /\ Allocatable(x) # {}
        BY <3>2 DEF Reached
      <4>. HIDE DEF y
      <4>. QED BY <4>1, AppendSound
    <3>. QED BY <3>1, <3>2
  <2>2. t \in [1..SlotsPer -> E]
    BY DEF FileBytes
  <2>3. Turn(i, x) = y \/ Turn(i, x) = z
    BY DEF WriteOnce
  <2>. HIDE DEF y, t, c
  <2>4. y \in Ready(E, Kept(Clusters, old, K)) /\ Sound(y.fat, y.free, R, L)
    BY <2>1 DEF Sounds
  <2>5. z \in Ready(E, Kept(Clusters, old, K)) /\ z.fat = y.fat /\ z.free = y.free
    BY <2>2, <2>4, ClusterWritten
  <2>. HIDE DEF z
  <2>6. z \in Sounds(E, old, K, R, L)
    BY <2>4, <2>5 DEF Sounds
  <2>. QED BY <2>1, <2>3, <2>6
<1>. HIDE DEF S, Turn
<1>4. \E h : h = F(h)
  <2>1. \A i \in 1..N : turn[i] \in [Inv[i - 1] -> Inv[i]]
    <3>1. \A i \in 1..N : i - 1 \in 0..N /\ i \in 0..N
      BY <1>1
    <3>. QED BY <1>3, <3>1
  <2>2. PICK h : Runs(h, N, Inv, d, turn)
    <3>1. d \in Inv[0]
      BY <1>1
    <3>. HIDE DEF N, Inv, turn
    <3>. QED BY <1>1, <2>1, <3>1, LoopExists
  <2>3. ASSUME NEW i \in 0..N PROVE h[i] = IF i = 0 THEN d ELSE Turn(i, h[i - 1])
    <3>1. CASE i = 0
      BY <2>2, <3>1 DEF Runs
    <3>2. CASE i # 0
      <4>1. i \in 1..N /\ i - 1 \in 0..N
        BY <1>1, <3>2
      <4>2. h[i - 1] \in S(i - 1) /\ h[i] = turn[i][h[i - 1]]
        BY <2>2, <4>1 DEF Runs
      <4>. QED BY <3>2, <4>1, <4>2
    <3>. QED BY <3>1, <3>2
  <2>4. h = [i \in 0..N |-> h[i]]
    BY <2>2 DEF Runs
  <2>5. h = F(h)
    <3>. HIDE DEF N
    <3>. QED BY <2>3, <2>4
  <2>. QED BY <2>5
<1>5. after = F(after)
  BY <1>4, Zenon
<1>6. g = after[N]
  BY DEF Written, Turn
<1>. HIDE DEF after
<1>7. after[0] = d /\ \A i \in 1..N : after[i] = Turn(i, after[i - 1])
  BY <1>1, <1>5
<1>8. \A i \in 0..N : after[i] \in Inv[i]
  <2>1. after[0] \in Inv[0] /\ \A i \in 1..N : after[i - 1] \in Inv[i - 1] => after[i] \in Inv[i]
    BY <1>1, <1>3, <1>7
  <2>. HIDE DEF Inv, N
  <2>. QED BY <1>1, <2>1, LoopStays
<1>9. g \in S(N)
  BY <1>1, <1>6, <1>8
<1>. QED BY <1>9 DEF S

-----------------------------------------------------------------------------
(* Writing directory entries leaves the FAT alone. *)
Rewritten(E, G, d) == {x \in Ready(E, G) : x.fat = d.fat /\ x.free = d.free}

LEMMA PutRewrites ==
  ASSUME NEW E, NEW G, NEW d, NEW x \in Rewritten(E, G, d), NEW p, NEW e \in E
  PROVE  Put(x, p, e) \in Rewritten(E, G, d)
<1>. DEFINE g == Put(x, p, e)
<1>1. x \in Ready(E, G) /\ x.fat = d.fat /\ x.free = d.free /\ g = Put(x, p, e)
  BY DEF Rewritten
<1>. HIDE DEF g
<1>2. g \in Ready(E, G) /\ g.fat = x.fat /\ g.free = x.free
  BY <1>1, EntryWritten
<1>. QED BY <1>1, <1>2 DEF Rewritten

LfnsOf(leaf, sum) ==
  {Lfn(leaf, LfnEntries[leaf] + 1 - i, i = 1, sum) : i \in 1..LfnEntries[leaf]}

LEMMA LongWritten ==
  ASSUME NEW E, NEW G, NEW d \in Ready(E, G), NEW places, NEW leaf \in Leaves, NEW sum,
         LfnsOf(leaf, sum) \subseteq E, NEW g, g = write_long(d, places, leaf, sum)
  PROVE  g \in Rewritten(E, G, d)
<1>. DEFINE N == LfnEntries[leaf]
            S(i) == Rewritten(E, G, d)
            Turn(i, x) == Put(x, places[i], Lfn(leaf, N + 1 - i, i = 1, sum))
            Inv == [i \in 0..N |-> S(i)]
            turn == [i \in 1..N |-> [x \in S(i - 1) |-> Turn(i, x)]]
            F(h) == [i \in 0..N |-> IF i = 0 THEN d ELSE Turn(i, h[i - 1])]
            after == CHOOSE h : h = F(h)
<1>1. N \in Nat /\ d \in S(0)
  <2>1. N \in Nat
    BY Fat32Assumption
  <2>2. d \in S(0)
    BY DEF Rewritten
  <2>. QED BY <2>1, <2>2
<1>3. ASSUME NEW i \in 1..N, NEW x \in S(i - 1) PROVE Turn(i, x) \in S(i)
  <2>. DEFINE e == Lfn(leaf, N + 1 - i, i = 1, sum)
  <2>1. e \in E
    BY DEF LfnsOf
  <2>. HIDE DEF e
  <2>2. Put(x, places[i], e) \in Rewritten(E, G, d)
    BY <2>1, PutRewrites
  <2>. QED BY <2>2 DEF e
<1>. HIDE DEF S, Turn
<1>4. \E h : h = F(h)
  <2>1. \A i \in 1..N : turn[i] \in [Inv[i - 1] -> Inv[i]]
    <3>1. \A i \in 1..N : i - 1 \in 0..N /\ i \in 0..N
      BY <1>1
    <3>. QED BY <1>3, <3>1
  <2>2. PICK h : Runs(h, N, Inv, d, turn)
    <3>1. d \in Inv[0]
      BY <1>1
    <3>. HIDE DEF N, Inv, turn
    <3>. QED BY <1>1, <2>1, <3>1, LoopExists
  <2>3. ASSUME NEW i \in 0..N PROVE h[i] = IF i = 0 THEN d ELSE Turn(i, h[i - 1])
    <3>1. CASE i = 0
      BY <2>2, <3>1 DEF Runs
    <3>2. CASE i # 0
      <4>1. i \in 1..N /\ i - 1 \in 0..N
        BY <1>1, <3>2
      <4>2. h[i - 1] \in S(i - 1) /\ h[i] = turn[i][h[i - 1]]
        BY <2>2, <4>1 DEF Runs
      <4>. QED BY <3>2, <4>1, <4>2
    <3>. QED BY <3>1, <3>2
  <2>4. h = [i \in 0..N |-> h[i]]
    BY <2>2 DEF Runs
  <2>5. h = F(h)
    <3>. HIDE DEF N
    <3>. QED BY <2>3, <2>4
  <2>. QED BY <2>5
<1>5. after = F(after)
  BY <1>4, Zenon
<1>6. g = after[N]
  BY DEF write_long, Turn
<1>. HIDE DEF after
<1>7. after[0] = d /\ \A i \in 1..N : after[i] = Turn(i, after[i - 1])
  BY <1>1, <1>5
<1>8. \A i \in 0..N : after[i] \in Inv[i]
  <2>1. after[0] \in Inv[0] /\ \A i \in 1..N : after[i - 1] \in Inv[i - 1] => after[i] \in Inv[i]
    BY <1>1, <1>3, <1>7
  <2>. HIDE DEF Inv, N
  <2>. QED BY <1>1, <2>1, LoopStays
<1>9. g \in S(N)
  <2>. HIDE DEF N
  <2>. QED BY <1>1, <1>6, <1>8
<1>. QED BY <1>9 DEF S

LEMMA EntriesWritten ==
  ASSUME NEW E, NEW G, NEW d \in Ready(E, G), NEW places, NEW leaf \in Leaves,
         NEW short \in E, LfnsOf(leaf, short.name) \subseteq E
  PROVE  write_entries(d, places, leaf, short) \in Rewritten(E, G, d)
<1>. DEFINE a == write_long(d, places, leaf, short.name)
            sum == short.name
<1>1. a = write_long(d, places, leaf, sum) /\ LfnsOf(leaf, sum) \subseteq E
  OBVIOUS
<1>. HIDE DEF a, sum
<1>2. a \in Rewritten(E, G, d)
  BY <1>1, LongWritten
<1>. QED BY <1>2, PutRewrites DEF write_entries, a

LEMMA RemovedMarked ==
  ASSUME vol \in Volumes, NEW E, Deleted \in E, NEW G, NEW d \in Ready(E, G), NEW at
  PROVE  mark_removed_with_lfn(d, at) \in Rewritten(E, G, d)
<1>. DEFINE N == SlotsPer
            run == LfnRun(d, at)
            s == Put(d, at, Deleted)
            S(i) == Rewritten(E, G, d)
            Turn(i, x) == IF i \in run THEN Put(x, <<at[1], i>>, Deleted) ELSE x
            Inv == [i \in 0..N |-> S(i)]
            turn == [i \in 1..N |-> [x \in S(i - 1) |-> Turn(i, x)]]
            F(h) == [i \in 0..N |-> IF i = 0 THEN s ELSE Turn(i, h[i - 1])]
            after == CHOOSE h : h = F(h)
            g == after[N]
<1>0. d \in Rewritten(E, G, d)
  BY DEF Rewritten
<1>1. N \in Nat /\ s \in S(0)
  BY <1>0, VolumeFacts, PutRewrites
<1>3. ASSUME NEW i \in 1..N, NEW x \in S(i - 1) PROVE Turn(i, x) \in S(i)
  <2>1. CASE i \in run
    <3>. DEFINE p == <<at[1], i>>
    <3>. HIDE DEF p
    <3>1. Put(x, p, Deleted) \in Rewritten(E, G, d)
      BY PutRewrites
    <3>. QED BY <2>1, <3>1 DEF p
  <2>2. CASE i \notin run
    BY <2>2
  <2>. QED BY <2>1, <2>2
<1>. HIDE DEF S, Turn, s
<1>4. \E h : h = F(h)
  <2>1. \A i \in 1..N : turn[i] \in [Inv[i - 1] -> Inv[i]]
    <3>1. \A i \in 1..N : i - 1 \in 0..N /\ i \in 0..N
      BY <1>1
    <3>. QED BY <1>3, <3>1
  <2>2. PICK h : Runs(h, N, Inv, s, turn)
    <3>1. s \in Inv[0]
      BY <1>1
    <3>. HIDE DEF N, Inv, turn
    <3>. QED BY <1>1, <2>1, <3>1, LoopExists
  <2>3. ASSUME NEW i \in 0..N PROVE h[i] = IF i = 0 THEN s ELSE Turn(i, h[i - 1])
    <3>1. CASE i = 0
      BY <2>2, <3>1 DEF Runs
    <3>2. CASE i # 0
      <4>1. i \in 1..N /\ i - 1 \in 0..N
        BY <1>1, <3>2
      <4>2. h[i - 1] \in S(i - 1) /\ h[i] = turn[i][h[i - 1]]
        BY <2>2, <4>1 DEF Runs
      <4>. QED BY <3>2, <4>1, <4>2
    <3>. QED BY <3>1, <3>2
  <2>4. h = [i \in 0..N |-> h[i]]
    BY <2>2 DEF Runs
  <2>5. h = F(h)
    <3>. HIDE DEF N
    <3>. QED BY <2>3, <2>4
  <2>. QED BY <2>5
<1>5. after = F(after)
  BY <1>4, Zenon
<1>6. mark_removed_with_lfn(d, at) = IF At(d, at).kind # "short" THEN d ELSE g
  BY DEF mark_removed_with_lfn, Turn, s
<1>. HIDE DEF after
<1>7. after[0] = s /\ \A i \in 1..N : after[i] = Turn(i, after[i - 1])
  BY <1>1, <1>5
<1>8. \A i \in 0..N : after[i] \in Inv[i]
  <2>1. after[0] \in Inv[0] /\ \A i \in 1..N : after[i - 1] \in Inv[i - 1] => after[i] \in Inv[i]
    BY <1>1, <1>3, <1>7
  <2>. HIDE DEF Inv, N
  <2>. QED BY <1>1, <2>1, LoopStays
<1>9. g \in S(N)
  BY <1>1, <1>8
<1>. QED BY <1>0, <1>6, <1>9 DEF S

LEMMA RewrittenSound ==
  ASSUME NEW E, NEW old, NEW K, NEW R, NEW L, NEW d \in Sounds(E, old, K, R, L),
         NEW g \in Rewritten(E, Kept(Clusters, old, K), d)
  PROVE  g \in Sounds(E, old, K, R, L)
BY DEF Rewritten, Sounds

LEMMA SlotsFound ==
  ASSUME NEW E, Zero \in E, NEW old, NEW K, FoundWhole(old, K), NEW R, NEW L, K \subseteq R,
         NEW dir \in R, NEW d \in Sounds(E, old, K, R, L), NEW n \in Nat,
         NEW g, g = find_free_dir_slots(d, dir, n).disk
  PROVE  /\ g \in Sounds(E, old, K, R, L)
         /\ \A s \in R : s # dir => Chain(g.fat, s) = Chain(d.fat, s)
<1>. DEFINE f == d.fat
<1>. HIDE DEF f
<1>1. d \in Grown(E, old, K, R, L, f, dir)
  BY DEF Grown, f
<1>2. g = GrowFor(d, dir, n)
  BY DEF find_free_dir_slots
<1>3. g \in Grown(E, old, K, R, L, f, dir)
  BY <1>1, <1>2, GrowForSound
<1>. QED BY <1>3 DEF Grown, f

(* Removing a node frees its chain and nothing else. *)
LEMMA NodeRemoved ==
  ASSUME NEW E, Deleted \in E, NEW old, NEW K, FoundWhole(old, K),
         NEW R, NEW L, K \subseteq R, NEW d \in Sounds(E, old, K, R, L),
         NEW n, n.start \in R \ K \/ n.start = NoFile
  PROVE  remove_single_node(d, n) \in Sounds(E, old, K, R \ {n.start}, L)
<1>. DEFINE r == n.start
            a == free_chain(d, r)
            at == n.at
            G == Kept(Clusters, old, K)
            Q == R \ {r}
<1>0. vol \in Volumes
  BY DEF FoundWhole
<1>1. a \in Sounds(E, old, K, R \ {r}, L)
  <2>1. CASE r \in R \ K
    <3>1. a = free_chain(d, r)
      OBVIOUS
    <3>. HIDE DEF a, r
    <3>. QED BY <2>1, <3>1, FreeChainSound
  <2>2. CASE r = NoFile
    <3>1. d.fat \in Fats(Clusters) /\ Whole(d.fat, R)
      BY DEF Sounds, Ready, Disks, Sound
    <3>2. a = d
      BY <1>0, <2>2, <3>1, FreeNothing
    <3>3. r \notin R
      BY <1>0, <2>2, <3>1, VolumeFacts DEF Whole, Fats, NoFile
    <3>4. R \ {r} = R
      BY <3>3
    <3>. QED BY <3>2, <3>4
  <2>. QED BY <2>1, <2>2
<1>2. remove_single_node(d, n) = mark_removed_with_lfn(a, at)
  BY DEF remove_single_node
<1>. HIDE DEF a, r, at, Q
<1>3. a \in Ready(E, G)
  BY <1>1 DEF Sounds
<1>4. mark_removed_with_lfn(a, at) \in Rewritten(E, G, a)
  BY <1>0, <1>3, RemovedMarked
<1>5. mark_removed_with_lfn(a, at) \in Sounds(E, old, K, Q, L)
  BY <1>1, <1>4, RewrittenSound DEF Q
<1>. QED BY <1>2, <1>5 DEF Q, r

(* rm -r removes the nodes of q one after the other. *)
StartsOf(q, n) == {q[j].start : j \in 1..n}

(* The removals of rm -r, one after the other. *)
LEMMA RemovedInTurn ==
  ASSUME NEW E, Deleted \in E, NEW old, NEW K, FoundWhole(old, K),
         NEW R, NEW L, K \subseteq R, NEW d \in Sounds(E, old, K, R, L), NEW q, Len(q) \in Nat,
         \A i \in 1..Len(q) : q[i].start \in R \ K \/ q[i].start = NoFile,
         \A i, j \in 1..Len(q) : i # j /\ q[i].start # NoFile => q[i].start # q[j].start,
         NEW g, g = remove_in_turn(d, q)
  PROVE  g \in Sounds(E, old, K, R \ StartsOf(q, Len(q)), L)
<1>. DEFINE N == Len(q)
            S(i) == Sounds(E, old, K, R \ StartsOf(q, i), L)
            Turn(i, x) == remove_single_node(x, q[i])
            Inv == [i \in 0..N |-> S(i)]
            turn == [i \in 1..N |-> [x \in S(i - 1) |-> Turn(i, x)]]
            F(h) == [i \in 0..N |-> IF i = 0 THEN d ELSE Turn(i, h[i - 1])]
            after == CHOOSE h : h = F(h)
<1>1. N \in Nat /\ d \in S(0)
  <2>1. R \ StartsOf(q, 0) = R
    BY DEF StartsOf
  <2>. QED BY <2>1
<1>3. ASSUME NEW i \in 1..N, NEW x \in S(i - 1) PROVE Turn(i, x) \in S(i)
  <2>. DEFINE Q == R \ StartsOf(q, i - 1)
              n == q[i]
  <2>0. x \in Sounds(E, old, K, Q, L)
    OBVIOUS
  <2>1. K \subseteq Q
    <3>1. ASSUME NEW k \in K, NEW j \in 1..(i - 1) PROVE q[j].start # k
      <4>1. j \in 1..Len(q)
        BY <1>1
      <4>2. Whole(x.fat, Q)
        BY DEF Sounds, Sound
      <4>3. k \in R /\ NoFile \notin K
        <5>1. old \in Fats(Clusters) /\ Whole(old, K) /\ vol \in Volumes
          BY DEF FoundWhole
        <5>2. K \subseteq Clusters
          BY <5>1 DEF Whole, Fats
        <5>. QED BY <5>1, <5>2, VolumeFacts DEF NoFile
      <4>. QED BY <4>1, <4>3
    <3>. QED BY <3>1 DEF StartsOf
  <2>2. n.start \in Q \ K \/ n.start = NoFile
    <3>1. CASE n.start # NoFile
      <4>1. n.start \in R \ K
        BY <3>1
      <4>2. ASSUME NEW j \in 1..(i - 1) PROVE q[j].start # n.start
        <5>1. j \in 1..Len(q) /\ i \in 1..Len(q) /\ i # j
          BY <1>1
        <5>. QED BY <3>1, <5>1
      <4>. QED BY <4>1, <4>2 DEF StartsOf
    <3>. QED BY <3>1
  <2>3. Q \ {n.start} = R \ StartsOf(q, i)
    <3>1. \A j : j \in 1..i <=> j \in 1..(i - 1) \/ j = i
      BY <1>1
    <3>2. StartsOf(q, i) = StartsOf(q, i - 1) \cup {n.start}
      BY <3>1 DEF StartsOf
    <3>. QED BY <3>2
  <2>. HIDE DEF Q, n, S
  <2>4. remove_single_node(x, n) \in Sounds(E, old, K, Q \ {n.start}, L)
    BY <2>0, <2>1, <2>2, NodeRemoved
  <2>. QED BY <2>3, <2>4 DEF S, n
<1>. HIDE DEF S, Turn
<1>4. \E h : h = F(h)
  <2>1. \A i \in 1..N : turn[i] \in [Inv[i - 1] -> Inv[i]]
    <3>1. \A i \in 1..N : i - 1 \in 0..N /\ i \in 0..N
      BY <1>1
    <3>. QED BY <1>3, <3>1
  <2>2. PICK h : Runs(h, N, Inv, d, turn)
    <3>1. d \in Inv[0]
      BY <1>1
    <3>. HIDE DEF N, Inv, turn
    <3>. QED BY <1>1, <2>1, <3>1, LoopExists
  <2>3. ASSUME NEW i \in 0..N PROVE h[i] = IF i = 0 THEN d ELSE Turn(i, h[i - 1])
    <3>1. CASE i = 0
      BY <2>2, <3>1 DEF Runs
    <3>2. CASE i # 0
      <4>1. i \in 1..N /\ i - 1 \in 0..N
        BY <1>1, <3>2
      <4>2. h[i - 1] \in S(i - 1) /\ h[i] = turn[i][h[i - 1]]
        BY <2>2, <4>1 DEF Runs
      <4>. QED BY <3>2, <4>1, <4>2
    <3>. QED BY <3>1, <3>2
  <2>4. h = [i \in 0..N |-> h[i]]
    BY <2>2 DEF Runs
  <2>5. h = F(h)
    <3>. HIDE DEF N
    <3>. QED BY <2>3, <2>4
  <2>. QED BY <2>5
<1>5. after = F(after)
  BY <1>4, Zenon
<1>6. g = after[N]
  BY DEF remove_in_turn, Turn
<1>. HIDE DEF after
<1>7. after[0] = d /\ \A i \in 1..N : after[i] = Turn(i, after[i - 1])
  BY <1>1, <1>5
<1>8. \A i \in 0..N : after[i] \in Inv[i]
  <2>1. after[0] \in Inv[0] /\ \A i \in 1..N : after[i - 1] \in Inv[i - 1] => after[i] \in Inv[i]
    BY <1>1, <1>3, <1>7
  <2>. HIDE DEF Inv, N
  <2>. QED BY <1>1, <2>1, LoopStays
<1>9. g \in S(N)
  BY <1>1, <1>6, <1>8
<1>. QED BY <1>9 DEF S

-----------------------------------------------------------------------------
(* The inductive invariant.  The nodes have paths of their own and start   *)
(* clusters of their own, a directory has one; their chains, with the one  *)
(* of the root directory, make up a sound FAT.                             *)
Roots(N) == {Root} \cup ({n.start : n \in N} \ {NoFile})

NodesDistinct(N) ==
  /\ IsFiniteSet(N)
  /\ \A n \in N : /\ n = Node(n.path, n.dir, n.start, n.at, n.size)
                  /\ n.size \in Nat /\ n.start # Root /\ (n.dir => n.start # NoFile)
  /\ \A m, n \in N : m # n => /\ FoldPath(m.path) # FoldPath(n.path)
                              /\ m.start # NoFile => m.start # n.start

SizesFit(fat, N) == \A n \in N : n.size <= Len(Chain(fat, n.start)) * ClusterSize

Held(d) == {d.ent[c][k] : c \in Clusters, k \in 1..SlotsPer}

DiskTyped == disk \in Disks(Held(disk), {}) /\ disk.past = <<>>

(* After a power loss the FAT still has, whole and apart from each other,  *)
(* the chains of every file and directory that was not being removed, with *)
(* room for the size the file had: free_chain, the two writes of an        *)
(* allocation and the link to a new cluster are in an order that no chain  *)
(* but the removed one is ever cut or shared.                              *)
CrashKeepsChains == failed =>
  \A n \in safe :
    /\ n.size <= Len(Chain(disk.fat, n.start)) * ClusterSize
    /\ \A c \in Used(n.start) : disk.fat[c] # Free
    /\ \A c \in {Root} \cup {o.start : o \in safe \ {n}} : Used(n.start) \cap Used(c) = {}

(* The inductive invariant.  Of the nodes it says that no two of them have *)
(* the same name or start, because vfs_find would not tell them apart; of  *)
(* the FAT that it is sound for their starts.                              *)
FatInv ==
  /\ vol \in Volumes
  /\ failed \in BOOLEAN
  /\ ~failed => /\ DiskTyped /\ NodesDistinct(nodes) /\ SizesFit(disk.fat, nodes)
                /\ Sound(disk.fat, disk.free, Roots(nodes), leaked)
  /\ CrashKeepsChains

LEMMA TimesGrows ==
  ASSUME NEW a \in Nat, NEW b \in Nat, a <= b
  PROVE  a * ClusterSize <= b * ClusterSize /\ a * ClusterSize \in Nat
<1>1. ClusterSize \in Nat
  BY Fat32Assumption
<1>. DEFINE k == ClusterSize
<1>. HIDE DEF k
<1>2. k \in Nat
  BY <1>1 DEF k
<1>3. a * k <= b * k /\ a * k \in Nat
  BY <1>2
<1>. QED BY <1>3 DEF k

(* Sizes fit as long as the chains are kept. *)
LEMMA SizesKept ==
  ASSUME vol \in Volumes, NEW old \in Fats(Clusters), NEW M, NodesDistinct(M), SizesFit(old, M),
         Whole(old, Roots(M)), NEW fat \in Kept(Clusters, old, Roots(M))
  PROVE  SizesFit(fat, M)
<1>. SUFFICES ASSUME NEW n \in M PROVE n.size <= Len(Chain(fat, n.start)) * ClusterSize
  BY DEF SizesFit
<1>. DEFINE a == Len(Chain(old, n.start))
            b == Len(Chain(fat, n.start))
<1>0. Numbered(Clusters) /\ NoFile \notin Clusters
  BY VolumeFacts DEF NoFile
<1>1. /\ fat \in Fats(Clusters) /\ Whole(fat, Roots(M))
      /\ \A r \in Roots(M) : Len(Chain(old, r)) <= Len(Chain(fat, r))
  BY DEF Kept
<1>2. n.size \in Nat /\ n.size <= a * ClusterSize
  BY DEF NodesDistinct, SizesFit
<1>3. CASE n.start = NoFile
  <2>1. DOMAIN old = Clusters /\ DOMAIN fat = Clusters
    BY <1>1 DEF Fats
  <2>2. Chain(old, NoFile) = <<>> /\ Chain(fat, NoFile) = <<>>
    BY <1>0, <2>1 DEF Chain
  <2>. QED BY <1>2, <1>3, <2>2
<1>4. CASE n.start # NoFile
  <2>1. n.start \in Roots(M)
    BY <1>4 DEF Roots
  <2>2. a \in Nat /\ b \in Nat /\ a <= b
    BY <1>0, <1>1, <2>1, ChainLengths
  <2>. HIDE DEF a, b
  <2>3. a * ClusterSize <= b * ClusterSize /\ a * ClusterSize \in Nat /\ b * ClusterSize \in Nat
    BY <2>2, TimesGrows
  <2>4. n.size <= b * ClusterSize
    BY <1>2, <2>3
  <2>. QED BY <2>4 DEF b
<1>. QED BY <1>3, <1>4

(* A command begins on a sound disk. *)
LEMMA CommandBegins ==
  ASSUME FatInv, ~failed, NEW E, Held(disk) \subseteq E, NEW K, K \subseteq Roots(nodes)
  PROVE  FoundWhole(disk.fat, K) /\ disk \in Sounds(E, disk.fat, K, Roots(nodes), leaked)
<1>. DEFINE G == Kept(Clusters, disk.fat, K)
            f == disk.fat
<1>1. /\ vol \in Volumes /\ disk \in Disks(Held(disk), {}) /\ disk.past = <<>>
      /\ Sound(f, disk.free, Roots(nodes), leaked)
  BY DEF FatInv, DiskTyped
<1>2. f \in Fats(Clusters) /\ Whole(f, K)
  BY <1>1 DEF Disks, Sound, Whole
<1>3. Numbered(Clusters)
  BY <1>1, VolumeFacts
<1>4. f \in G
  <2>. HIDE DEF f
  <2>1. \A r \in K : Len(Chain(f, r)) \in Nat
    BY <1>2, <1>3, ChainLengths
  <2>2. \A r \in K : Len(Chain(f, r)) <= Len(Chain(f, r))
    BY <2>1
  <2>. QED BY <1>2, <2>2 DEF Kept, f
<1>5. disk \in Disks(E, G)
  <2>1. disk.ent \in Contents(E)
    BY <1>1 DEF Disks, Contents
  <2>2. <<>> \in Seq(Olds(E, G))
    OBVIOUS
  <2>. QED BY <1>1, <2>1, <2>2 DEF Disks
<1>. QED BY <1>1, <1>2, <1>4, <1>5 DEF FoundWhole, Sounds, Ready

(* The parent directory of a path is a node, or the root. *)
LEMMA FoundOne ==
  ASSUME NodesDistinct(nodes), NEW path, NEW n \in Found(path)
  PROVE  Found(path) = {n} /\ vfs_find(path) = n /\ n \in nodes
<1>1. n \in nodes /\ \A m \in Found(path) : m = n
  BY DEF Found, NodesDistinct
<1>2. Found(path) = {n}
  BY <1>1
<1>. QED BY <1>1, <1>2 DEF vfs_find

LEMMA ParentFound ==
  ASSUME NodesDistinct(nodes), NEW path, HasParent(path)
  PROVE  ParentCluster(path) \in Roots(nodes)
<1>1. CASE Len(path) = 1
  BY <1>1 DEF ParentCluster, Roots
<1>2. CASE Len(path) # 1
  <2>1. PICK n \in Found(Front(path)) : n.dir
    BY <1>2 DEF HasParent
  <2>2. vfs_find(Front(path)) = n /\ n \in nodes
    BY <2>1, FoundOne
  <2>3. n.start # NoFile
    BY <2>1, <2>2 DEF NodesDistinct
  <2>. QED BY <1>2, <2>2, <2>3 DEF ParentCluster, Roots
<1>. QED BY <1>1, <1>2

(* What a command leaves, when it ends and when power is lost in it. *)
LEMMA CommandEnds ==
  ASSUME FatInv, ~failed, NEW E, NEW M, NEW L, NEW X,
         NEW d \in Sounds(E, disk.fat, Roots(nodes \ X), Roots(M), L),
         NodesDistinct(M), SizesFit(d.fat, M), Ends(d, M, L, X)
  PROVE  FatInv'
<1>. DEFINE K == Roots(nodes \ X)
            G == Kept(Clusters, disk.fat, K)
            f == disk.fat
<1>0. /\ vol \in Volumes /\ disk \in Disks(Held(disk), {}) /\ NodesDistinct(nodes)
      /\ SizesFit(f, nodes) /\ Sound(f, disk.free, Roots(nodes), leaked)
  BY DEF FatInv, DiskTyped
<1>1. d \in Disks(E, G) /\ Sound(d.fat, d.free, Roots(M), L)
  BY DEF Sounds, Ready
<1>2. vol' = vol /\ Clusters' = Clusters /\ SlotsPer' = SlotsPer
  BY DEF Ends, Commit, PowerLoss, Clusters, SlotsPer
<1>3. CASE Commit(d, M, L)
  <2>1. /\ disk' = [d EXCEPT !.past = <<>>] /\ nodes' = M /\ leaked' = L
        /\ failed' = failed
    BY <1>3 DEF Commit
  <2>2. /\ disk'.fat = d.fat /\ disk'.free = d.free /\ disk'.past = <<>> /\ disk'.ent = d.ent
        /\ disk' \in Disks(E, G)
    <3>1. <<>> \in Seq(Olds(E, G))
      OBVIOUS
    <3>. QED BY <1>1, <2>1, <3>1 DEF Disks
  <2>3. disk'.ent \in Contents(Held(disk)')
    <3>1. d.ent \in Contents(E)
      BY <1>1 DEF Disks
    <3>2. \A c \in Clusters : d.ent[c] \in [1..SlotsPer -> Held(disk)']
      <4>1. Held(disk)' = {d.ent[c][k] : c \in Clusters, k \in 1..SlotsPer}
        BY <1>2, <2>2 DEF Held
      <4>. HIDE DEF Held
      <4>2. ASSUME NEW c \in Clusters PROVE d.ent[c] \in [1..SlotsPer -> Held(disk)']
        <5>1. d.ent[c] \in [1..SlotsPer -> E]
          BY <3>1 DEF Contents
        <5>2. \A k \in 1..SlotsPer : d.ent[c][k] \in Held(disk)'
          BY <4>1
        <5>. QED BY <5>1, <5>2
      <4>. QED BY <4>2
    <3>3. d.ent \in [Clusters -> [1..SlotsPer -> Held(disk)']]
      BY <3>1, <3>2 DEF Contents
    <3>. QED BY <2>2, <3>3 DEF Contents
  <2>4. DiskTyped'
    <3>. DEFINE H == Held(disk)'
    <3>. HIDE DEF H
    <3>1. disk'.ent \in Contents(H) /\ disk'.fat \in Fats(Clusters) /\ disk'.free \in Int
          /\ disk'.next \in Int /\ disk'.past \in Seq(Olds(H, {}))
      <4>1. <<>> \in Seq(Olds(H, {}))
        OBVIOUS
      <4>. QED BY <2>2, <2>3, <4>1 DEF Disks, H
    <3>2. disk' \in Disks(H, {})
      BY <2>2, <3>1 DEF Disks
    <3>3. Disks(H, {}) = Disks(Held(disk), {})'
      BY <1>2 DEF Disks, Olds, Contents, H
    <3>. QED BY <2>2, <3>2, <3>3 DEF DiskTyped
  <2>5. NodesDistinct(nodes)' /\ SizesFit(disk.fat, nodes)'
    BY <2>1, <2>2 DEF NodesDistinct, SizesFit
  <2>6. Sound(disk.fat, disk.free, Roots(nodes), leaked)'
    BY <1>1, <2>1, <2>2
  <2>. QED BY <1>0, <1>2, <2>1, <2>4, <2>5, <2>6 DEF FatInv, CrashKeepsChains
<1>4. CASE PowerLoss(d, X)
  <2>. DEFINE g == disk'.fat
              N == nodes \ X
  <2>1. failed' = TRUE /\ safe' = N
    BY <1>4 DEF PowerLoss
  <2>2. g \in G
    <3>1. PICK i \in DOMAIN d.past : disk' = d.past[i]
      BY <1>4 DEF PowerLoss
    <3>2. d.past \in Seq(Olds(E, G))
      BY <1>1 DEF Disks
    <3>. DEFINE O == Olds(E, G)
                p == d.past
    <3>. HIDE DEF O, p
    <3>3. p[i] \in O
      BY <3>1, <3>2 DEF O, p
    <3>. QED BY <3>1, <3>3 DEF O, p, Olds
  <2>3. g \in Fats(Clusters) /\ Whole(g, K) /\ Numbered(Clusters) /\ NoFile \notin Clusters
    BY <1>0, <2>2, VolumeFacts DEF Kept, NoFile
  <2>4. NodesDistinct(N) /\ SizesFit(f, N)
    BY <1>0, FS_Subset DEF NodesDistinct, SizesFit
  <2>5. SizesFit(g, N)
    <3>1. f \in Fats(Clusters) /\ Whole(f, Roots(N))
      BY <1>0 DEF Disks, Sound, Whole, Roots
    <3>. HIDE DEF f, g, N
    <3>. QED BY <1>0, <2>2, <2>4, <3>1, SizesKept DEF f, N
  <2>6. Members(g, NoFile) = {}
    <3>1. Chain(g, NoFile) = <<>>
      BY <2>3 DEF Chain, Fats
    <3>. QED BY <3>1 DEF Members, Range
  <2>. HIDE DEF g, N
  <2>7. ASSUME NEW n \in N
        PROVE  /\ \A c \in Members(g, n.start) : g[c] # Free
               /\ \A c \in {Root} \cup {o.start : o \in N \ {n}} :
                    Members(g, n.start) \cap Members(g, c) = {}
    <3>1. CASE n.start = NoFile
      BY <2>6, <3>1
    <3>2. CASE n.start # NoFile
      <4>1. n.start \in K /\ n.start # Root
        BY <2>4, <3>2 DEF Roots, N, NodesDistinct
      <4>2. Good(g, n.start)
        BY <2>3, <4>1 DEF Whole
      <4>3. \A c \in Members(g, n.start) : g[c] # Free
        BY <2>3, <4>2, ChainInUse
      <4>4. ASSUME NEW c \in {Root} \cup {o.start : o \in N \ {n}}
            PROVE  Members(g, n.start) \cap Members(g, c) = {}
        <5>1. c = NoFile \/ (c \in K /\ c # n.start)
          BY <2>4, <3>2, <4>1 DEF Roots, N, NodesDistinct
        <5>. QED BY <2>3, <2>6, <4>1, <5>1 DEF Whole
      <4>. QED BY <4>3, <4>4
    <3>. QED BY <3>1, <3>2
  <2>8. CrashKeepsChains'
    <3>1. \A c : Used(c)' = Members(g, c)
      BY DEF Used, Members, g
    <3>. QED BY <2>1, <2>5, <2>7, <3>1 DEF CrashKeepsChains, SizesFit, g
  <2>. QED BY <1>0, <1>2, <2>1, <2>8 DEF FatInv
<1>. QED BY <1>3, <1>4 DEF Ends

-----------------------------------------------------------------------------
(* The commands. *)
LEMMA NodeAdded ==
  ASSUME NodesDistinct(nodes), NEW path, Found(path) = {}, NEW dir, NEW start, NEW at,
         (start = NoFile /\ ~dir) \/ (start # NoFile /\ start \notin Roots(nodes)),
         NEW n, n = Node(path, dir, start, at, 0)
  PROVE  /\ NodesDistinct(nodes \cup {n})
         /\ start = NoFile => Roots(nodes \cup {n}) = Roots(nodes)
         /\ start # NoFile => Roots(nodes \cup {n}) = Roots(nodes) \cup {start}
<1>1. /\ n.path = path /\ n.dir = dir /\ n.start = start /\ n.at = at /\ n.size = 0
  BY DEF Node
<1>2. n = Node(n.path, n.dir, n.start, n.at, n.size) /\ n.size \in Nat
  BY <1>1
<1>3. \A m \in nodes : FoldPath(m.path) # FoldPath(n.path)
  BY <1>1 DEF Found
<1>4. \A m \in nodes : m.start = NoFile \/ m.start \in Roots(nodes)
  BY DEF Roots
<1>5. Root # NoFile /\ Root \in Roots(nodes)
  BY DEF Roots, Root, NoFile
<1>6. IsFiniteSet(nodes \cup {n})
  BY FS_AddElement DEF NodesDistinct
<1>7. NodesDistinct(nodes \cup {n})
  <2>1. n.start # Root /\ (n.dir => n.start # NoFile)
    BY <1>1, <1>5
  <2>2. \A m \in nodes : /\ m.start # NoFile => m.start # n.start
                         /\ n.start # NoFile => n.start # m.start
    BY <1>1, <1>4
  <2>. QED BY <1>2, <1>3, <1>6, <2>1, <2>2 DEF NodesDistinct
<1>. QED BY <1>1, <1>7 DEF Roots

LEMMA PathLeaf ==
  ASSUME vol \in Volumes, NEW path \in Paths
  PROVE  Last(path) \in Leaves /\ LfnEntries[Last(path)] \in Nat
<1>1. PICK n \in 1..vol.depth : path \in [1..n -> vol.typed]
  BY DEF Paths
<1>2. vol.depth \in Nat /\ vol.typed \subseteq Leaves
  BY Fat32Assumption
<1>3. Len(path) = n /\ n \in 1..n
  BY <1>1, <1>2
<1>4. Last(path) \in Leaves
  BY <1>1, <1>2, <1>3 DEF Last
<1>. QED BY <1>4, Fat32Assumption

(* One lemma per command: each ends in a sound FAT, at every power loss too. *)
LEMMA FileCreated ==
  ASSUME FatInv, ~failed, NEW path \in Paths, fat32_create_file(path)
  PROVE  FatInv'
<1>. DEFINE dir  == ParentCluster(path)
            leaf == Last(path)
            name == NameFor(disk, dir, leaf)
            got  == find_free_dir_slots(disk, dir, LfnEntries[leaf] + 1)
            short == Short(name, FALSE, NoFile, 0)
            E == Held(disk) \cup {Zero, short} \cup LfnsOf(leaf, short.name)
            R == Roots(nodes)
            old == disk.fat
            g == got.disk
            n == LfnEntries[leaf] + 1
            w == write_entries(g, got.places, leaf, short)
            at == Last(got.places)
            node == Node(path, FALSE, NoFile, at, 0)
            G == Kept(Clusters, old, R)
<1>0. /\ vol \in Volumes /\ NodesDistinct(nodes) /\ SizesFit(old, nodes) /\ Whole(old, R)
      /\ old \in Fats(Clusters)
  BY DEF FatInv, DiskTyped, Disks, Sound
<1>1. /\ HasParent(path) /\ Found(path) = {}
      /\ IF ~got.ok THEN Ends(g, nodes, leaked, {}) ELSE Ends(w, nodes \cup {node}, leaked, {})
  BY DEF fat32_create_file, MayCreate
<1>2. dir \in R
  BY <1>0, <1>1, ParentFound
<1>3. leaf \in Leaves /\ LfnEntries[leaf] \in Nat
  BY <1>0, PathLeaf
<1>4. /\ Held(disk) \subseteq E /\ Zero \in E /\ short \in E /\ LfnsOf(leaf, short.name) \subseteq E
      /\ n \in Nat /\ g = find_free_dir_slots(disk, dir, n).disk /\ R \subseteq R
      /\ w = write_entries(g, got.places, leaf, short) /\ R = Roots(nodes \ {})
  <2>1. n \in Nat
    BY <1>3
  <2>2. nodes \ {} = nodes
    OBVIOUS
  <2>. QED BY <2>1, <2>2, Zenon
<1>. HIDE DEF dir, leaf, got, short, E, g, n, w, at
<1>5. FoundWhole(old, R) /\ disk \in Sounds(E, old, R, R, leaked)
  BY <1>4, CommandBegins
<1>6. g \in Sounds(E, old, R, R, leaked)
  BY <1>2, <1>4, <1>5, SlotsFound
<1>. HIDE DEF R
<1>7. ASSUME NEW x \in Sounds(E, old, R, R, leaked) PROVE SizesFit(x.fat, nodes)
  <2>1. x.fat \in Kept(Clusters, old, R)
    BY DEF Sounds, Ready
  <2>. HIDE DEF old
  <2>. QED BY <1>0, <2>1, SizesKept DEF R
<1>8. CASE ~got.ok
  <2>1. Ends(g, nodes, leaked, {})
    BY <1>1, <1>8
  <2>2. SizesFit(g.fat, nodes)
    BY <1>6, <1>7
  <2>3. g \in Sounds(E, disk.fat, Roots(nodes \ {}), Roots(nodes), leaked)
    BY <1>4, <1>6 DEF R
  <2>. QED BY <1>0, <2>1, <2>2, <2>3, CommandEnds
<1>9. CASE got.ok
  <2>. DEFINE M == nodes \cup {node}
  <2>1. Ends(w, M, leaked, {})
    BY <1>1, <1>9
  <2>2. g \in Ready(E, G)
    BY <1>6 DEF Sounds
  <2>3. w \in Rewritten(E, G, g)
    BY <1>3, <1>4, <2>2, EntriesWritten
  <2>4. w \in Sounds(E, old, R, R, leaked)
    BY <1>6, <2>3, RewrittenSound
  <2>5. NodesDistinct(M) /\ Roots(M) = R
    <3>. DEFINE no == FALSE
                start == NoFile
                nd == Node(path, no, start, at, 0)
    <3>. HIDE DEF no, start
    <3>1. start = NoFile /\ ~no
      BY DEF no, start
    <3>2. nd = Node(path, no, start, at, 0)
      OBVIOUS
    <3>. HIDE DEF nd
    <3>3. NodesDistinct(nodes \cup {nd}) /\ Roots(nodes \cup {nd}) = Roots(nodes)
      BY <1>0, <1>1, <3>1, <3>2, NodeAdded
    <3>. QED BY <3>3 DEF nd, no, start, R
  <2>6. SizesFit(w.fat, M)
    <3>1. SizesFit(w.fat, nodes)
      BY <1>7, <2>4
    <3>2. node.size = 0 /\ node.start = NoFile
      BY DEF Node
    <3>3. Chain(w.fat, NoFile) = <<>>
      <4>1. w.fat \in Fats(Clusters) /\ NoFile \notin Clusters
        BY <1>0, <2>4, VolumeFacts DEF Sounds, Ready, Disks, NoFile
      <4>2. DOMAIN w.fat = Clusters
        BY <4>1 DEF Fats
      <4>. QED BY <4>1, <4>2 DEF Chain
    <3>4. 0 <= Len(<<>>) * ClusterSize
      BY TimesGrows
    <3>. HIDE DEF node
    <3>. QED BY <3>1, <3>2, <3>3, <3>4 DEF SizesFit
  <2>. HIDE DEF M
  <2>7. w \in Sounds(E, disk.fat, Roots(nodes \ {}), Roots(M), leaked)
    BY <1>4, <2>4, <2>5
  <2>. QED BY <2>1, <2>5, <2>6, <2>7, CommandEnds
<1>. QED BY <1>8, <1>9

LEMMA DirectoryMade ==
  ASSUME FatInv, ~failed, NEW path \in Paths, fat32_mkdir(path)
  PROVE  FatInv'
<1>. DEFINE dir  == ParentCluster(path)
            leaf == Last(path)
            new  == Min(Allocatable(disk))
            d    == fat32_alloc_cluster(disk)
            name == NameFor(d, dir, leaf)
            got  == find_free_dir_slots(d, dir, LfnEntries[leaf] + 1)
            short == Short(name, TRUE, new, 0)
            E == Held(disk) \cup {Zero, Dot, short} \cup LfnsOf(leaf, short.name)
            R == Roots(nodes)
            Q == R \cup {new}
            old == disk.fat
            g == got.disk
            n == LfnEntries[leaf] + 1
            w == write_entries(g, got.places, leaf, short)
            u == PutCluster(w, new, NewDirectory)
            t == NewDirectory
            at == Last(got.places)
            node == Node(path, TRUE, new, at, 0)
            G == Kept(Clusters, old, R)
            L == leaked \cup {new}
<1>0. /\ vol \in Volumes /\ NodesDistinct(nodes) /\ SizesFit(old, nodes) /\ Whole(old, R)
      /\ old \in Fats(Clusters) /\ Numbered(Clusters) /\ NoFile \notin Clusters
  BY VolumeFacts DEF FatInv, DiskTyped, Disks, Sound, NoFile
<1>1. /\ HasParent(path) /\ Found(path) = {} /\ Allocatable(disk) # {}
      /\ IF ~got.ok THEN Ends(g, nodes, L, {}) ELSE Ends(u, nodes \cup {node}, leaked, {})
  BY DEF fat32_mkdir, MayCreate
<1>2. dir \in R
  BY <1>0, <1>1, ParentFound
<1>3. leaf \in Leaves /\ LfnEntries[leaf] \in Nat
  BY <1>0, PathLeaf
<1>4. /\ Held(disk) \subseteq E /\ Zero \in E /\ short \in E /\ LfnsOf(leaf, short.name) \subseteq E
      /\ n \in Nat /\ g = find_free_dir_slots(d, dir, n).disk /\ R \subseteq R /\ R \subseteq Q
      /\ w = write_entries(g, got.places, leaf, short) /\ R = Roots(nodes \ {})
      /\ new = Min(Allocatable(disk)) /\ d = fat32_alloc_cluster(disk)
  <2>1. n \in Nat
    BY <1>3
  <2>2. nodes \ {} = nodes /\ R \subseteq R /\ R \subseteq Q
    OBVIOUS
  <2>. QED BY <2>1, <2>2, Zenon
<1>5. t \in [1..SlotsPer -> E] /\ u = PutCluster(w, new, t)
  <2>1. Zero \in E /\ Dot \in E
    OBVIOUS
  <2>. HIDE DEF E
  <2>. QED BY <2>1 DEF NewDirectory
<1>. HIDE DEF dir, leaf, new, d, got, short, E, g, n, w, u, t, at
<1>6. FoundWhole(old, R) /\ disk \in Sounds(E, old, R, R, leaked)
  BY <1>4, CommandBegins
<1>7. /\ d \in Sounds(E, old, R, Q, leaked) /\ new \in Clusters /\ new \notin R
      /\ Chain(d.fat, new) = <<new>>
  <2>1. Allocated(E, old, R, R, leaked, disk, new, d)
    BY <1>1, <1>4, <1>6, AllocSound
  <2>. QED BY <2>1 DEF Allocated
<1>8. g \in Sounds(E, old, R, Q, leaked) /\ Chain(g.fat, new) = <<new>>
  <2>. DEFINE Q1 == Q
  <2>1. dir \in Q1 /\ new \in Q1 /\ new # dir /\ R \subseteq Q1 /\ d \in Sounds(E, old, R, Q1, leaked)
    BY <1>2, <1>4, <1>7
  <2>. HIDE DEF Q1
  <2>2. /\ g \in Sounds(E, old, R, Q1, leaked)
        /\ \A s \in Q1 : s # dir => Chain(g.fat, s) = Chain(d.fat, s)
    BY <1>4, <1>6, <2>1, SlotsFound
  <2>. QED BY <1>7, <2>1, <2>2 DEF Q1
<1>. HIDE DEF R
<1>9. ASSUME NEW x, x.fat \in Kept(Clusters, old, R) PROVE SizesFit(x.fat, nodes)
  <2>. HIDE DEF old
  <2>. QED BY <1>0, <1>9, SizesKept DEF R
<1>10. g.fat \in Kept(Clusters, old, R) /\ g \in Ready(E, G) /\ g.fat \in Fats(Clusters)
  BY <1>8 DEF Sounds, Ready, Disks
<1>11. CASE ~got.ok
  <2>1. Ends(g, nodes, L, {})
    BY <1>1, <1>11
  <2>2. SizesFit(g.fat, nodes)
    BY <1>9, <1>10
  <2>3. Sound(g.fat, g.free, Q, leaked)
    BY <1>8 DEF Sounds
  <2>4. Sound(g.fat, g.free, R, L)
    BY <1>0, <1>7, <1>8, <1>10, <2>3, SoundLeaked
  <2>. HIDE DEF L
  <2>5. g \in Sounds(E, disk.fat, Roots(nodes \ {}), Roots(nodes), L)
    BY <1>4, <1>10, <2>4 DEF R, Sounds
  <2>. QED BY <1>0, <2>1, <2>2, <2>5, CommandEnds
<1>12. CASE got.ok
  <2>. DEFINE M == nodes \cup {node}
  <2>1. Ends(u, M, leaked, {})
    BY <1>1, <1>12
  <2>2. w \in Rewritten(E, G, g)
    BY <1>3, <1>4, <1>10, EntriesWritten
  <2>3. w \in Sounds(E, old, R, Q, leaked)
    <3>. HIDE DEF Q
    <3>. QED BY <1>8, <2>2, RewrittenSound
  <2>4. u \in Sounds(E, old, R, Q, leaked)
    <3>1. w \in Ready(E, G) /\ Sound(w.fat, w.free, Q, leaked)
      BY <2>3 DEF Sounds
    <3>. HIDE DEF G
    <3>2. u \in Ready(E, G) /\ u.fat = w.fat /\ u.free = w.free
      BY <1>5, <3>1, ClusterWritten
    <3>. QED BY <3>1, <3>2 DEF Sounds, G
  <2>5. NodesDistinct(M) /\ Roots(M) = Q
    <3>. DEFINE yes == TRUE
                nd == Node(path, yes, new, at, 0)
    <3>. HIDE DEF yes
    <3>1. new # NoFile /\ new \notin Roots(nodes)
      BY <1>0, <1>7 DEF R
    <3>2. nd = Node(path, yes, new, at, 0)
      OBVIOUS
    <3>. HIDE DEF nd
    <3>3. NodesDistinct(nodes \cup {nd}) /\ Roots(nodes \cup {nd}) = Roots(nodes) \cup {new}
      BY <1>0, <1>1, <3>1, <3>2, NodeAdded
    <3>. QED BY <3>3 DEF nd, yes, R
  <2>6. SizesFit(u.fat, M)
    <3>1. SizesFit(u.fat, nodes)
      <4>1. u.fat \in Kept(Clusters, old, R)
        BY <2>4 DEF Sounds, Ready
      <4>. QED BY <1>9, <4>1
    <3>2. node.size = 0 /\ node.start = new
      BY DEF Node
    <3>3. Len(Chain(u.fat, new)) \in Nat
      <4>1. u.fat \in Fats(Clusters) /\ Good(u.fat, new)
        BY <2>4 DEF Sounds, Ready, Disks, Sound, Whole
      <4>. QED BY <1>0, <4>1, ChainInUse
    <3>4. 0 <= Len(Chain(u.fat, new)) * ClusterSize
      <4>. DEFINE k == Len(Chain(u.fat, new))
      <4>. HIDE DEF k
      <4>1. k \in Nat /\ k <= k
        BY <3>3 DEF k
      <4>2. k * ClusterSize \in Nat
        BY <4>1, TimesGrows
      <4>3. 0 <= k * ClusterSize
        BY <4>2
      <4>. QED BY <4>3 DEF k
    <3>. HIDE DEF node
    <3>. QED BY <3>1, <3>2, <3>4 DEF SizesFit
  <2>. HIDE DEF M
  <2>7. u \in Sounds(E, disk.fat, Roots(nodes \ {}), Roots(M), leaked)
    BY <1>4, <2>4, <2>5
  <2>. QED BY <2>1, <2>5, <2>6, <2>7, CommandEnds
<1>. QED BY <1>11, <1>12

(* The nodes that are left when those of Y are gone. *)
LEMMA NodesGone ==
  ASSUME NodesDistinct(nodes), NEW Y, Y \subseteq nodes
  PROVE  /\ NodesDistinct(nodes \ Y)
         /\ Roots(nodes \ Y) = Roots(nodes) \ {n.start : n \in Y}
         /\ \A n \in Y : n.start \in Roots(nodes) \ Roots(nodes \ Y) \/ n.start = NoFile
<1>1. IsFiniteSet(nodes \ Y)
  BY FS_Subset DEF NodesDistinct
<1>2. NodesDistinct(nodes \ Y)
  BY <1>1 DEF NodesDistinct
<1>3. Root # NoFile /\ \A n \in nodes : n.start # Root
  BY DEF NodesDistinct, Root, NoFile
<1>4. \A m \in nodes \ Y, n \in Y : m.start # NoFile => m.start # n.start
  BY DEF NodesDistinct
<1>. QED BY <1>2, <1>3, <1>4 DEF Roots

LEMMA RemovalEnds ==
  ASSUME FatInv, ~failed, NEW E, NEW Y, Y \subseteq nodes,
         NEW d \in Sounds(E, disk.fat, Roots(nodes \ Y), Roots(nodes \ Y), leaked),
         Ends(d, nodes \ Y, leaked, Y)
  PROVE  FatInv'
<1>. DEFINE M == nodes \ Y
            old == disk.fat
<1>1. /\ vol \in Volumes /\ NodesDistinct(nodes) /\ SizesFit(old, nodes)
      /\ Whole(old, Roots(nodes)) /\ old \in Fats(Clusters)
  BY DEF FatInv, DiskTyped, Disks, Sound
<1>2. NodesDistinct(M) /\ Roots(M) \subseteq Roots(nodes)
  BY <1>1, NodesGone DEF Roots
<1>3. Whole(old, Roots(M)) /\ SizesFit(old, M)
  BY <1>1, <1>2 DEF Whole, SizesFit
<1>4. d.fat \in Kept(Clusters, old, Roots(M))
  BY DEF Sounds, Ready
<1>. HIDE DEF M, old
<1>5. SizesFit(d.fat, M)
  BY <1>1, <1>2, <1>3, <1>4, SizesKept
<1>. QED BY <1>2, <1>5, CommandEnds DEF M, old

LEMMA OneRemoved ==
  ASSUME FatInv, ~failed, NEW path \in Paths, fat32_remove(path)
  PROVE  FatInv'
<1>. DEFINE n == vfs_find(path)
            E == Held(disk) \cup {Deleted}
            R == Roots(nodes)
            K == Roots(nodes \ {n})
            g == remove_single_node(disk, n)
<1>1. NodesDistinct(nodes) /\ Found(path) # {} /\ Ends(g, nodes \ {n}, leaked, {n})
  BY DEF FatInv, fat32_remove
<1>2. n \in nodes
  BY <1>1, FoundOne
<1>. HIDE DEF n
<1>3. /\ K = R \ {n.start} /\ (n.start \in R \ K \/ n.start = NoFile) /\ K \subseteq R
  <2>1. {n} \subseteq nodes
    BY <1>2
  <2>2. /\ K = R \ {m.start : m \in {n}}
        /\ \A m \in {n} : m.start \in R \ K \/ m.start = NoFile
    BY <1>1, <2>1, NodesGone
  <2>. QED BY <2>2
<1>4. Held(disk) \subseteq E /\ Deleted \in E
  OBVIOUS
<1>. HIDE DEF E, K
<1>5. FoundWhole(disk.fat, K) /\ disk \in Sounds(E, disk.fat, K, R, leaked)
  BY <1>3, <1>4, CommandBegins
<1>6. g \in Sounds(E, disk.fat, K, R \ {n.start}, leaked)
  <2>. HIDE DEF R
  <2>. QED BY <1>3, <1>4, <1>5, NodeRemoved
<1>. HIDE DEF g
<1>7. g \in Sounds(E, disk.fat, Roots(nodes \ {n}), Roots(nodes \ {n}), leaked)
  BY <1>3, <1>6 DEF K
<1>. DEFINE Y == {n}
<1>8. Y \subseteq nodes /\ g \in Sounds(E, disk.fat, Roots(nodes \ Y), Roots(nodes \ Y), leaked)
      /\ Ends(g, nodes \ Y, leaked, Y)
  BY <1>1, <1>2, <1>7
<1>. HIDE DEF Y
<1>. QED BY <1>8, RemovalEnds

(* An order of rm -r has every node of S once. *)
LEMMA OrderCovers ==
  ASSUME NEW S, IsFiniteSet(S), NEW q \in DeepestFirst(S)
  PROVE  /\ q \in Seq(S) /\ Len(q) \in Nat
         /\ \A i, j \in 1..Len(q) : i # j => q[i] # q[j]
         /\ \A x \in S : \E i \in 1..Len(q) : q[i] = x
<1>. DEFINE n == Cardinality(S)
            D == 1..n
<1>1. n \in Nat /\ q \in [D -> S] /\ \A i, j \in D : i # j => q[i] # q[j]
  BY FS_CardinalityType DEF DeepestFirst, SetToSeqs
<1>2. q \in Seq(S) /\ Len(q) = n
  <2>. HIDE DEF n
  <2>. QED BY <1>1
<1>3. Cardinality(D) = n
  <2>. HIDE DEF n
  <2>1. Cardinality(1..n) = IF 1 > n THEN 0 ELSE n - 1 + 1
    BY <1>1, FS_Interval
  <2>. QED BY <1>1, <2>1
<1>4. q \in Injection(D, S)
  BY <1>1 DEF Injection, IsInjective
<1>5. q \in Surjection(D, S)
  <2>. HIDE DEF D
  <2>. QED BY <1>3, <1>4, FS_Injection
<1>. QED BY <1>1, <1>2, <1>5 DEF Surjection

LEMMA TreeRemoved ==
  ASSUME FatInv, ~failed, NEW path \in Paths, fat32_remove_recursive(path)
  PROVE  FatInv'
<1>. DEFINE n == vfs_find(path)
            below == {m \in nodes \ {n} : n.dir /\ is_path_or_child(m, path)}
            Y == below \cup {n}
            E == Held(disk) \cup {Deleted}
            R == Roots(nodes)
            K == Roots(nodes \ Y)
<1>1. NodesDistinct(nodes) /\ Found(path) # {}
  BY DEF FatInv, fat32_remove_recursive
<1>2. PICK order \in DeepestFirst(below) :
        Ends(remove_in_turn(disk, Append(order, n)), nodes \ Y, leaked, Y)
  BY DEF fat32_remove_recursive
<1>. DEFINE q == Append(order, n)
            N == Len(order)
            g == remove_in_turn(disk, q)
<1>3. n \in nodes
  BY <1>1, FoundOne
<1>. HIDE DEF n
<1>4. below \subseteq nodes /\ n \notin below /\ Y \subseteq nodes
  BY <1>3
<1>5. IsFiniteSet(below)
  BY <1>1, <1>4, FS_Subset DEF NodesDistinct
<1>. HIDE DEF below
<1>6. /\ order \in Seq(below) /\ N \in Nat
      /\ \A i, j \in 1..N : i # j => order[i] # order[j]
      /\ \A x \in below : \E i \in 1..N : order[i] = x
  BY <1>5, OrderCovers
<1>7. /\ Len(q) = N + 1 /\ q[N + 1] = n /\ \A i \in 1..N : q[i] = order[i] /\ order[i] \in below
  BY <1>6
<1>. HIDE DEF q, N
<1>8. \A i : i \in 1..(N + 1) <=> i \in 1..N \/ i = N + 1
  BY <1>6
<1>9. \A i \in 1..(N + 1) : q[i] \in Y
  BY <1>7, <1>8
<1>10. \A x \in Y : \E i \in 1..(N + 1) : q[i] = x
  BY <1>6, <1>7, <1>8
<1>11. ASSUME NEW i \in 1..(N + 1), NEW j \in 1..(N + 1), i # j PROVE q[i] # q[j]
  <2>1. CASE i = N + 1
    BY <1>4, <1>7, <1>8, <1>11, <2>1
  <2>2. CASE j = N + 1
    BY <1>4, <1>7, <1>8, <1>11, <2>2
  <2>3. CASE i # N + 1 /\ j # N + 1
    <3>1. i \in 1..N /\ j \in 1..N
      BY <1>8, <2>3
    <3>. QED BY <1>6, <1>7, <1>11, <3>1
  <2>. QED BY <2>1, <2>2, <2>3
<1>12. /\ K = R \ {m.start : m \in Y}
       /\ \A m \in Y : m.start \in R \ K \/ m.start = NoFile
  BY <1>1, <1>4, NodesGone
<1>13. K \subseteq R /\ Held(disk) \subseteq E /\ Deleted \in E
  BY <1>12
<1>14. /\ \A i \in 1..Len(q) : q[i].start \in R \ K \/ q[i].start = NoFile
       /\ \A i, j \in 1..Len(q) : i # j /\ q[i].start # NoFile => q[i].start # q[j].start
  <2>1. \A a, b \in nodes : a # b => (a.start # NoFile => a.start # b.start)
    BY <1>1 DEF NodesDistinct
  <2>. HIDE DEF Y, R, K
  <2>. QED BY <1>4, <1>7, <1>9, <1>11, <1>12, <2>1
<1>15. R \ StartsOf(q, Len(q)) = K
  <2>1. StartsOf(q, Len(q)) = {m.start : m \in Y}
    <3>. HIDE DEF Y
    <3>. QED BY <1>7, <1>9, <1>10 DEF StartsOf
  <2>. QED BY <1>12, <2>1
<1>16. Len(q) \in Nat
  BY <1>6, <1>7
<1>. HIDE DEF E, K, R, Y
<1>17. FoundWhole(disk.fat, K) /\ disk \in Sounds(E, disk.fat, K, R, leaked)
  BY <1>13, CommandBegins DEF R
<1>18. g \in Sounds(E, disk.fat, K, R \ StartsOf(q, Len(q)), leaked)
  <2>. DEFINE old == disk.fat
  <2>1. FoundWhole(old, K) /\ disk \in Sounds(E, old, K, R, leaked) /\ g = remove_in_turn(disk, q)
    BY <1>17
  <2>. HIDE DEF old, g
  <2>2. g \in Sounds(E, old, K, R \ StartsOf(q, Len(q)), leaked)
    BY <1>13, <1>14, <1>16, <2>1, RemovedInTurn
  <2>. QED BY <2>2 DEF old
<1>19. Ends(g, nodes \ Y, leaked, Y)
  BY <1>2 DEF q, Y
<1>. HIDE DEF g
<1>20. g \in Sounds(E, disk.fat, Roots(nodes \ Y), Roots(nodes \ Y), leaked)
  BY <1>15, <1>18 DEF K
<1>21. Y \subseteq nodes
  BY <1>4 DEF Y
<1>. QED BY <1>19, <1>20, <1>21, RemovalEnds

LEMMA DivIsNat ==
  ASSUME NEW a \in Nat
  PROVE  a \div ClusterSize \in Nat
<1>1. ClusterSize \in Nat /\ ClusterSize > 0
  BY Fat32Assumption
<1>. DEFINE k == ClusterSize
<1>. HIDE DEF k
<1>2. k \in Nat /\ k > 0
  BY <1>1 DEF k
<1>3. a \div k \in Nat
  BY <1>2
<1>. QED BY <1>3 DEF k

(* A node that got its first cluster, or grew. *)
LEMMA NodeUpdated ==
  ASSUME NodesDistinct(nodes), NEW n \in nodes, NEW m,
         m = Node(n.path, n.dir, m.start, n.at, m.size), m.size \in Nat, m.start # NoFile,
         m.start = n.start \/ (n.start = NoFile /\ m.start \notin Roots(nodes))
  PROVE  /\ NodesDistinct((nodes \ {n}) \cup {m})
         /\ Roots((nodes \ {n}) \cup {m}) = Roots(nodes) \cup {m.start}
<1>. DEFINE N == nodes \ {n}
            M == N \cup {m}
<1>1. m.path = n.path /\ m.dir = n.dir /\ m.at = n.at
  BY DEF Node
<1>2. m = Node(m.path, m.dir, m.start, m.at, m.size)
  BY <1>1
<1>3. Root \in Roots(nodes) /\ \A o \in nodes : o.start = NoFile \/ o.start \in Roots(nodes)
  BY DEF Roots
<1>4. m.start # Root
  BY <1>3 DEF NodesDistinct
<1>5. IsFiniteSet(M)
  <2>1. IsFiniteSet(N)
    BY FS_Subset DEF NodesDistinct
  <2>. HIDE DEF N
  <2>. QED BY <2>1, FS_AddElement
<1>6. ASSUME NEW o \in N PROVE FoldPath(o.path) # FoldPath(m.path) /\ o.start # m.start
  <2>1. /\ FoldPath(o.path) # FoldPath(n.path)
        /\ (o.start # NoFile => o.start # n.start)
    BY DEF NodesDistinct
  <2>2. o.start # m.start
    BY <1>3, <2>1
  <2>. QED BY <1>1, <2>1, <2>2
<1>7. NodesDistinct(M)
  <2>1. ASSUME NEW o \in M
        PROVE  /\ o = Node(o.path, o.dir, o.start, o.at, o.size)
               /\ o.size \in Nat /\ o.start # Root /\ (o.dir => o.start # NoFile)
    <3>1. CASE o = m
      BY <1>2, <1>4, <3>1, Zenon
    <3>2. CASE o \in nodes
      BY <3>2 DEF NodesDistinct
    <3>. QED BY <3>1, <3>2
  <2>2. ASSUME NEW o \in M, NEW p \in M, o # p
        PROVE  FoldPath(o.path) # FoldPath(p.path) /\ (o.start # NoFile => o.start # p.start)
    <3>1. CASE o \in nodes /\ p \in nodes
      BY <2>2, <3>1 DEF NodesDistinct
    <3>2. CASE o = m
      BY <1>6, <2>2, <3>2
    <3>3. CASE p = m
      BY <1>6, <2>2, <3>3
    <3>. QED BY <3>1, <3>2, <3>3
  <2>. HIDE DEF M
  <2>. QED BY <1>5, <2>1, <2>2 DEF NodesDistinct
<1>8. Roots(M) = Roots(nodes) \cup {m.start}
  <2>1. \A x : x \in {o.start : o \in M} <=> x \in {o.start : o \in N} \/ x = m.start
    OBVIOUS
  <2>2. \A x : x \in {o.start : o \in nodes} <=> x \in {o.start : o \in N} \/ x = n.start
    OBVIOUS
  <2>. HIDE DEF M, N
  <2>. QED BY <2>1, <2>2 DEF Roots
<1>. QED BY <1>7, <1>8

LEMMA FileWritten ==
  ASSUME FatInv, ~failed, NEW n \in nodes, NEW off \in Nat, NEW len \in Nat,
         fat32_file_write(n, off, len)
  PROVE  FatInv'
<1>. DEFINE fresh == n.start = NoFile
            start == IF fresh THEN Min(Allocatable(disk)) ELSE n.start
            a     == fat32_alloc_cluster(disk)
            d0    == IF fresh THEN update_dirent_cluster(a, n.at, start) ELSE disk
            first == off \div ClusterSize + 1
            last  == IF len = 0 THEN first ELSE (off + len - 1) \div ClusterSize + 1
            from  == IF len = 0 THEN last + 1 ELSE first
            d1    == Written(d0, start, from, last)
            have  == Len(Chain(d1.fat, start)) * ClusterSize
            end   == IF have >= off + len THEN off + len ELSE have
            size  == IF first * ClusterSize <= have /\ end > n.size THEN end ELSE n.size
            d2    == IF size > n.size THEN update_dirent_size(d1, n.at, size) ELSE d1
            m     == [n EXCEPT !.start = start, !.size = size]
            M     == (nodes \ {n}) \cup {m}
            e1    == [At(a, n.at) EXCEPT !.start = start]
            e2    == [At(d1, n.at) EXCEPT !.size = size]
            E == Held(disk) \cup {e1, e2, vol.bytes}
            R == Roots(nodes)
            Q == R \cup {start}
            old == disk.fat
            G == Kept(Clusters, old, R)
<1>0. /\ vol \in Volumes /\ NodesDistinct(nodes) /\ SizesFit(old, nodes) /\ Whole(old, R)
      /\ old \in Fats(Clusters) /\ Numbered(Clusters) /\ NoFile \notin Clusters
  BY VolumeFacts DEF FatInv, DiskTyped, Disks, Sound, NoFile
<1>1. /\ n.start # NoFile \/ Allocatable(disk) # {}
      /\ Ends(d2, M, leaked, {})
  BY DEF fat32_file_write
<1>2. last \in Nat /\ off + len \in Nat
  <2>1. first \in Nat
    <3>1. off \div ClusterSize \in Nat
      BY DivIsNat
    <3>. QED BY <3>1
  <2>2. CASE len # 0
    <3>. DEFINE b == off + len - 1
    <3>1. b \in Nat
      BY <2>2
    <3>. HIDE DEF b
    <3>2. b \div ClusterSize \in Nat
      BY <3>1, DivIsNat
    <3>. QED BY <2>2, <3>2 DEF b
  <2>. HIDE DEF first
  <2>. QED BY <2>1, <2>2
<1>3. /\ Held(disk) \subseteq E /\ R \subseteq R /\ R \subseteq Q /\ e1 \in E /\ e2 \in E
      /\ vol.bytes \in E /\ R = Roots(nodes \ {}) /\ start \in Q
  <2>1. nodes \ {} = nodes /\ R \subseteq R /\ R \subseteq Q /\ start \in Q
    OBVIOUS
  <2>. QED BY <2>1, Zenon
<1>4. d0 = IF fresh THEN Put(a, n.at, e1) ELSE disk
  BY DEF update_dirent_cluster
<1>5. d2 = IF size > n.size THEN Put(d1, n.at, e2) ELSE d1
  BY DEF update_dirent_size
<1>6. d1 = Written(d0, start, from, last)
  OBVIOUS
<1>. HIDE DEF E, e1, e2, d1, d0, last, from
<1>7. FoundWhole(old, R) /\ disk \in Sounds(E, old, R, R, leaked)
  BY <1>3, CommandBegins
<1>8. /\ d0 \in Sounds(E, old, R, Q, leaked) /\ start # NoFile
      /\ start = n.start \/ (fresh /\ start \notin R)
  <2>1. CASE fresh
    <3>. DEFINE new == start
    <3>1. new = Min(Allocatable(disk)) /\ a = fat32_alloc_cluster(disk) /\ Allocatable(disk) # {}
      BY <1>1, <2>1
    <3>. HIDE DEF new, a
    <3>2. a \in Sounds(E, old, R, R \cup {new}, leaked) /\ new \in Clusters /\ new \notin R
      <4>. HIDE DEF R, old, fresh
      <4>1. Allocated(E, old, R, R, leaked, disk, new, a)
        BY <1>3, <1>7, <3>1, AllocSound
      <4>. QED BY <4>1 DEF Allocated
    <3>. DEFINE P == R \cup {new}
                b == Put(a, n.at, e1)
    <3>. HIDE DEF P
    <3>3. a \in Sounds(E, old, R, P, leaked) /\ a \in Rewritten(E, G, a)
      BY <3>2 DEF P, Sounds, Rewritten
    <3>4. b \in Rewritten(E, G, a)
      BY <1>3, <3>3, PutRewrites
    <3>. HIDE DEF b
    <3>5. b \in Sounds(E, old, R, P, leaked)
      BY <3>3, <3>4, RewrittenSound
    <3>6. d0 = b
      BY <1>4, <2>1 DEF b
    <3>. QED BY <1>0, <2>1, <3>2, <3>5, <3>6 DEF P, new
  <2>2. CASE ~fresh
    <3>1. d0 = disk /\ start = n.start /\ start # NoFile
      BY <1>4, <2>2
    <3>2. Q = R
      BY <2>2, <3>1 DEF Roots
    <3>. QED BY <1>7, <3>1, <3>2
  <2>. QED BY <2>1, <2>2
<1>. HIDE DEF start
<1>9. d1 \in Sounds(E, old, R, Q, leaked)
  <2>. HIDE DEF Q, R, old
  <2>. QED BY <1>2, <1>3, <1>6, <1>7, <1>8, WrittenSound
<1>10. d2 \in Sounds(E, old, R, Q, leaked) /\ d2.fat = d1.fat
  <2>. DEFINE b == Put(d1, n.at, e2)
  <2>1. d1 \in Rewritten(E, G, d1)
    BY <1>9 DEF Sounds, Rewritten
  <2>2. b \in Rewritten(E, G, d1)
    BY <1>3, <2>1, PutRewrites
  <2>. HIDE DEF b
  <2>3. b \in Sounds(E, old, R, Q, leaked)
    <3>. HIDE DEF Q
    <3>. QED BY <1>9, <2>2, RewrittenSound
  <2>4. d2 = d1 \/ d2 = b
    BY <1>5 DEF b
  <2>. QED BY <1>9, <2>2, <2>3, <2>4 DEF Rewritten
<1>11. d1.fat \in Kept(Clusters, old, R) /\ d1.fat \in Fats(Clusters) /\ Whole(d1.fat, Q)
  BY <1>9 DEF Sounds, Ready, Disks, Sound
<1>. DEFINE fat == d1.fat
<1>12. SizesFit(fat, nodes)
  <2>. HIDE DEF old, fat
  <2>1. fat \in Kept(Clusters, old, Roots(nodes))
    BY <1>11 DEF fat
  <2>. QED BY <1>0, <2>1, SizesKept
<1>13. have \in Nat
  <2>. DEFINE k == Len(Chain(fat, start))
  <2>1. k \in Nat /\ k <= k
    <3>1. Len(Chain(fat, start)) \in Nat
      BY <1>0, <1>3, <1>11, ChainLengths
    <3>. QED BY <3>1
  <2>. HIDE DEF k
  <2>2. k * ClusterSize \in Nat
    BY <2>1, TimesGrows
  <2>. QED BY <2>2 DEF k
<1>14. n.size \in Nat /\ n.size <= have
  <2>1. n.size \in Nat
    BY <1>0 DEF NodesDistinct
  <2>2. CASE start = n.start
    BY <1>12, <2>1, <2>2 DEF SizesFit
  <2>3. CASE fresh
    <3>1. n.size <= Len(Chain(fat, NoFile)) * ClusterSize
      BY <1>12, <2>3 DEF SizesFit
    <3>2. DOMAIN fat = Clusters
      BY <1>11 DEF Fats
    <3>3. Chain(fat, NoFile) = <<>>
      BY <1>0, <3>2 DEF Chain
    <3>4. Len(<<>>) * ClusterSize = 0
      BY Fat32Assumption
    <3>. QED BY <1>13, <2>1, <3>1, <3>3, <3>4
  <2>. QED BY <1>8, <2>1, <2>2, <2>3
<1>. HIDE DEF have
<1>15. size \in Nat /\ size <= have
  <2>1. end \in Nat /\ end <= have
    BY <1>2, <1>13
  <2>. HIDE DEF end
  <2>. DEFINE grows == first * ClusterSize <= have /\ end > n.size
  <2>2. size = IF grows THEN end ELSE n.size
    OBVIOUS
  <2>. HIDE DEF grows, size
  <2>. QED BY <1>14, <2>1, <2>2
<1>. HIDE DEF size, fresh
<1>16. NodesDistinct(M) /\ m.start = start /\ m.size = size /\ Roots(M) = Q
  <2>1. start = n.start \/ (n.start = NoFile /\ start \notin Roots(nodes))
    BY <1>8 DEF fresh
  <2>2. n = Node(n.path, n.dir, n.start, n.at, n.size)
    BY <1>0 DEF NodesDistinct
  <2>3. m.start = start /\ m.size = size /\ m = Node(n.path, n.dir, m.start, n.at, m.size)
    <3>1. m = Node(n.path, n.dir, start, n.at, size)
      <4>. DEFINE path == n.path
                  dir == n.dir
                  at == n.at
                  s == n.start
                  z == n.size
      <4>1. n = Node(path, dir, s, at, z)
        BY <2>2
      <4>. HIDE DEF path, dir, at, s, z
      <4>2. n \in [path : {path}, dir : {dir}, start : {s}, at : {at}, size : {z}]
        BY <4>1 DEF Node
      <4>3. m \in [path : {path}, dir : {dir}, start : {start}, at : {at}, size : {size}]
        BY <4>2
      <4>. HIDE DEF m
      <4>4. m = Node(path, dir, start, at, size)
        BY <4>3 DEF Node
      <4>. QED BY <4>4 DEF path, dir, at
    <3>. HIDE DEF m
    <3>2. m.start = start /\ m.size = size
      BY <3>1 DEF Node
    <3>. QED BY <3>1, <3>2
  <2>. HIDE DEF m
  <2>4. /\ m.size \in Nat /\ m.start # NoFile
        /\ m.start = n.start \/ (n.start = NoFile /\ m.start \notin Roots(nodes))
    BY <1>8, <1>15, <2>1, <2>3
  <2>5. NodesDistinct(M) /\ Roots(M) = Roots(nodes) \cup {m.start}
    BY <1>0, <2>3, <2>4, NodeUpdated
  <2>. QED BY <2>3, <2>5
<1>. HIDE DEF m, Q, R
<1>17. SizesFit(d2.fat, M)
  <2>1. m.size <= Len(Chain(fat, m.start)) * ClusterSize
    BY <1>15, <1>16 DEF have
  <2>2. SizesFit(fat, M)
    <3>. HIDE DEF fat
    <3>. QED BY <1>12, <2>1 DEF SizesFit
  <2>. QED BY <1>10, <2>2
<1>. HIDE DEF M, d2
<1>18. d2 \in Sounds(E, disk.fat, Roots(nodes \ {}), Roots(M), leaked)
  BY <1>3, <1>10, <1>16
<1>. QED BY <1>1, <1>16, <1>17, <1>18, CommandEnds

-----------------------------------------------------------------------------
LEMMA InitSound ==
  ASSUME Init
  PROVE  FatInv
<1>. DEFINE f == disk.fat
<1>0. vol \in Volumes /\ nodes = {} /\ leaked = {} /\ failed = FALSE
  BY DEF Init
<1>1. Numbered(Clusters) /\ Root \in Clusters /\ Clusters \subseteq Nat \ {0}
  BY <1>0, VolumeFacts
<1>2. disk = [fat |-> [c \in Clusters |-> IF c = Root THEN EOC ELSE Free],
              ent |-> [c \in Clusters |-> EmptyCluster],
              free |-> vol.last - 2, next |-> Root, past |-> <<>>]
  BY DEF Init
<1>3. /\ f = [c \in Clusters |-> IF c = Root THEN EOC ELSE Free] /\ disk.free = vol.last - 2
      /\ disk.ent = [c \in Clusters |-> EmptyCluster] /\ disk.next = Root /\ disk.past = <<>>
  BY <1>2
<1>4. f \in Fats(Clusters) /\ f[Root] = EOC /\ \A c \in Clusters : c # Root => f[c] = Free
  BY <1>1, <1>3 DEF Fats, Values
<1>5. DiskTyped
  <2>. DEFINE H == Held(disk)
  <2>1. disk.ent \in Contents(H)
    <3>1. \A c \in Clusters, k \in 1..SlotsPer : disk.ent[c][k] = Zero
      BY <1>3 DEF EmptyCluster
    <3>2. \A c \in Clusters, k \in 1..SlotsPer : disk.ent[c][k] \in H
      BY DEF Held
    <3>. HIDE DEF H
    <3>3. EmptyCluster \in [1..SlotsPer -> H]
      BY <1>1, <3>1, <3>2 DEF EmptyCluster
    <3>. QED BY <1>3, <3>3 DEF Contents
  <2>2. vol.last - 2 \in Int /\ Root \in Int
    BY <1>0, Fat32Assumption DEF Root
  <2>3. <<>> \in Seq(Olds(H, {}))
    OBVIOUS
  <2>. HIDE DEF H
  <2>4. disk \in Disks(H, {})
    <3>. DEFINE g == disk.fat
                e == disk.ent
                k == vol.last - 2
                r == Root
                FF == Fats(Clusters)
                EE == Contents(H)
                PP == Seq(Olds(H, {}))
    <3>1. disk = [fat |-> g, ent |-> e, free |-> k, next |-> r, past |-> <<>>]
      BY <1>2, <1>3
    <3>2. g \in FF /\ e \in EE /\ k \in Int /\ r \in Int /\ <<>> \in PP
      BY <1>4, <2>1, <2>2, <2>3
    <3>. HIDE DEF g, e, k, r, FF, EE, PP
    <3>3. disk \in [fat : FF, ent : EE, free : Int, next : Int, past : PP]
      BY <3>1, <3>2
    <3>. QED BY <3>3 DEF Disks, FF, EE, PP
  <2>. QED BY <1>3, <2>4 DEF DiskTyped, H
<1>. HIDE DEF f
<1>6. Good(f, Root) /\ Members(f, Root) = {Root}
  BY <1>1, <1>4, ChainOfOne
<1>7. Roots(nodes) = {Root}
  BY <1>0 DEF Roots
<1>8. DOMAIN f = Clusters /\ EOC # Free
  BY <1>4 DEF Fats, EOC, Free
<1>9. Whole(f, {Root}) /\ Accounted(f, {Root}, {})
  BY <1>1, <1>4, <1>6, <1>8 DEF Whole, Accounted
<1>10. vol.last - 2 = Cardinality(FreeIn(f))
  <2>1. vol.last \in Nat /\ vol.last >= 2
    BY <1>0, Fat32Assumption DEF Root
  <2>2. FreeIn(f) = Clusters \ {Root}
    BY <1>4, <1>8 DEF FreeIn
  <2>3. IsFiniteSet(Clusters) /\ Cardinality(Clusters) = vol.last - 1
    <3>. DEFINE b == vol.last
    <3>. HIDE DEF b
    <3>1. b \in Int /\ ~(2 > b)
      BY <2>1 DEF b
    <3>2. IsFiniteSet(2..b) /\ Cardinality(2..b) = IF 2 > b THEN 0 ELSE b - 2 + 1
      BY <3>1, FS_Interval
    <3>3. Cardinality(2..b) = b - 1
      BY <3>1, <3>2
    <3>. QED BY <3>2, <3>3 DEF b, Clusters
  <2>4. Cardinality(Clusters \ {Root}) = Cardinality(Clusters) - 1
    BY <1>1, <2>3, FS_RemoveElement
  <2>. QED BY <2>1, <2>2, <2>3, <2>4
<1>11. Sound(disk.fat, disk.free, Roots(nodes), leaked)
  BY <1>0, <1>3, <1>7, <1>9, <1>10 DEF Sound, f
<1>12. NodesDistinct(nodes) /\ SizesFit(disk.fat, nodes)
  BY <1>0, FS_EmptySet DEF NodesDistinct, SizesFit
<1>. QED BY <1>0, <1>5, <1>11, <1>12 DEF FatInv, CrashKeepsChains

(* The commands, the lost power at the end of each, and stuttering. *)
LEMMA StepSound ==
  ASSUME FatInv, [Next]_vars
  PROVE  FatInv'
<1>1. CASE UNCHANGED vars
  <2>1. /\ vol' = vol /\ disk' = disk /\ nodes' = nodes
        /\ leaked' = leaked /\ failed' = failed /\ safe' = safe
    BY <1>1 DEF vars
  <2>2. Clusters' = Clusters /\ SlotsPer' = SlotsPer
    BY <2>1 DEF Clusters, SlotsPer
  <2>3. DiskTyped' = DiskTyped
    <3>1. Held(disk)' = Held(disk)
      BY <2>1, <2>2 DEF Held
    <3>2. \A E : Contents(E)' = Contents(E)
      BY <2>2 DEF Contents
    <3>3. \A E, G : Disks(E, G)' = Disks(E, G)
      BY <2>2, <3>2, Zenon DEF Disks, Olds
    <3>. QED BY <2>1, <3>1, <3>3, Zenon DEF DiskTyped
  <2>4. CrashKeepsChains' = CrashKeepsChains
    BY <2>1, Zenon DEF CrashKeepsChains, Used
  <2>. QED BY <2>1, <2>3, <2>4, Zenon DEF FatInv
<1>2. CASE Next
  <2>0. ~failed /\ vol \in Volumes
    BY <1>2 DEF Next, FatInv
  <2>1. ASSUME NEW path \in Paths, fat32_create_file(path) PROVE FatInv'
    BY <2>0, <2>1, FileCreated
  <2>2. ASSUME NEW path \in Paths, fat32_mkdir(path) PROVE FatInv'
    BY <2>0, <2>2, DirectoryMade
  <2>3. ASSUME NEW path \in Paths, fat32_remove(path) PROVE FatInv'
    BY <2>0, <2>3, OneRemoved
  <2>4. ASSUME NEW path \in Paths, fat32_remove_recursive(path) PROVE FatInv'
    BY <2>0, <2>4, TreeRemoved
  <2>5. ASSUME NEW n \in nodes, NEW w \in vol.writes, fat32_file_write(n, w[1], w[2]) PROVE FatInv'
    <3>1. w \in Nat \X Nat
      BY <2>0, Fat32Assumption
    <3>. DEFINE off == w[1]
                len == w[2]
    <3>2. off \in Nat /\ len \in Nat /\ fat32_file_write(n, off, len)
      BY <2>5, <3>1
    <3>. HIDE DEF off, len
    <3>. QED BY <2>0, <3>2, FileWritten
  <2>. QED BY <1>2, <2>1, <2>2, <2>3, <2>4, <2>5 DEF Next
<1>. QED BY <1>1, <1>2

(* Every command of fat32.c keeps the FAT sound: after it, and after a     *)
(* power loss at any sector write within it, the inductive invariant       *)
(* FatInv holds.                                                           *)
THEOREM FatInvariant == Spec => []FatInv
<1>1. Init => FatInv
  BY InitSound
<1>2. FatInv /\ [Next]_vars => FatInv'
  BY StepSound
<1>. QED BY <1>1, <1>2, PTL DEF Spec

(* What the inductive invariant says about two nodes. *)
LEMMA NodeChains ==
  ASSUME FatInv, ~failed
  PROVE  /\ disk.fat \in Fats(Clusters)
         /\ \A c : Used(c) = Members(disk.fat, c)
         /\ Used(NoFile) = {}
         /\ \A n \in nodes : n.start = NoFile \/ (n.start \in Roots(nodes) /\ n.start # Root)
<1>1. /\ vol \in Volumes /\ disk.fat \in Fats(Clusters) /\ NodesDistinct(nodes)
  BY DEF FatInv, DiskTyped, Disks
<1>2. \A c : Used(c) = Members(disk.fat, c)
  BY DEF Used, Members
<1>3. Chain(disk.fat, NoFile) = <<>>
  <2>1. NoFile \notin Clusters
    BY <1>1, VolumeFacts DEF NoFile
  <2>2. DOMAIN disk.fat = Clusters
    BY <1>1 DEF Fats
  <2>. QED BY <2>1, <2>2 DEF Chain
<1>4. Used(NoFile) = {}
  BY <1>3 DEF Used, Range
<1>. QED BY <1>1, <1>2, <1>4 DEF Roots, NodesDistinct

(* Whatever is created, written and removed, in whatever order and on      *)
(* whatever volume, full ones included, every file and directory has a     *)
(* chain of its own, in use, apart from all others and long enough for its *)
(* size.                                                                   *)
THEOREM ChainsAreSound == Spec => []ChainsSound
<1>1. FatInv => ChainsSound
  <2>. SUFFICES ASSUME FatInv, ~failed PROVE ChainsSound
    BY DEF ChainsSound
  <2>. DEFINE f == disk.fat
              R == Roots(nodes)
  <2>1. /\ f \in Fats(Clusters) /\ (\A c : Used(c) = Members(f, c)) /\ Used(NoFile) = {}
        /\ \A n \in nodes : n.start = NoFile \/ (n.start \in R /\ n.start # Root)
    BY NodeChains
  <2>2. Whole(f, R) /\ Root \in R /\ SizesFit(f, nodes) /\ NodesDistinct(nodes)
    BY DEF FatInv, Sound, Roots
  <2>3. Numbered(Clusters)
    BY VolumeFacts DEF FatInv
  <2>. HIDE DEF f, R
  <2>4. ASSUME NEW n \in nodes
        PROVE  (\A c \in Used(n.start) : f[c] # Free) /\ Used(n.start) \cap Used(Root) = {}
    <3>1. CASE n.start = NoFile
      BY <2>1, <3>1
    <3>2. CASE n.start # NoFile
      <4>1. n.start \in R /\ n.start # Root /\ Good(f, n.start)
        BY <2>1, <2>2, <3>2 DEF Whole
      <4>2. \A c \in Members(f, n.start) : f[c] # Free
        BY <2>1, <2>3, <4>1, ChainInUse
      <4>. QED BY <2>1, <2>2, <4>1, <4>2 DEF Whole
    <3>. QED BY <3>1, <3>2
  <2>5. ASSUME NEW m \in nodes, NEW n \in nodes, m # n
        PROVE  Used(m.start) \cap Used(n.start) = {}
    <3>1. CASE m.start = NoFile \/ n.start = NoFile
      BY <2>1, <3>1
    <3>2. CASE ~(m.start = NoFile \/ n.start = NoFile)
      <4>1. m.start \in R /\ n.start \in R /\ m.start # n.start
        BY <2>1, <2>2, <2>5, <3>2 DEF NodesDistinct
      <4>. QED BY <2>1, <2>2, <4>1 DEF Whole
    <3>. QED BY <3>1, <3>2
  <2>. QED BY <2>2, <2>4, <2>5 DEF ChainsSound, SizesFit, f
<1>. QED BY <1>1, FatInvariant, PTL

(* Every cluster in use belongs to a file, to a directory or to a mkdir    *)
(* that failed after allocating it: no other path of fat32.c loses one.    *)
THEOREM ClustersAreNotLost == Spec => []NoLostClusters
<1>1. FatInv => NoLostClusters
  <2>. SUFFICES ASSUME FatInv, ~failed PROVE NoLostClusters
    BY DEF NoLostClusters
  <2>. DEFINE f == disk.fat
              R == Roots(nodes)
              U == Used(Root) \cup (UNION {Used(n.start) : n \in nodes}) \cup leaked
  <2>1. /\ f \in Fats(Clusters) /\ (\A c : Used(c) = Members(f, c)) /\ Used(NoFile) = {}
        /\ \A n \in nodes : n.start = NoFile \/ (n.start \in R /\ n.start # Root)
    BY NodeChains
  <2>2. Whole(f, R) /\ Root \in R /\ Accounted(f, R, leaked)
    BY DEF FatInv, Sound, Roots
  <2>3. Numbered(Clusters) /\ DOMAIN f = Clusters
    BY <2>1, VolumeFacts DEF FatInv, Fats
  <2>. HIDE DEF f
  <2>4. ASSUME NEW c \in Clusters, f[c] # Free PROVE c \in U
    <3>1. c \in leaked \/ \E r \in R : c \in Members(f, r)
      BY <2>2, <2>3, <2>4 DEF Accounted
    <3>2. ASSUME NEW r \in R, c \in Members(f, r) PROVE c \in U
      <4>1. r = Root \/ \E n \in nodes : n.start = r
        BY DEF Roots
      <4>. QED BY <2>1, <3>2, <4>1
    <3>3. CASE c \in leaked
      BY <3>3
    <3>. QED BY <3>1, <3>2, <3>3
  <2>5. ASSUME NEW c \in U PROVE c \in Clusters /\ f[c] # Free
    <3>1. ASSUME NEW r \in R, c \in Members(f, r) PROVE c \in Clusters /\ f[c] # Free
      <4>1. Good(f, r)
        BY <2>2 DEF Whole
      <4>. QED BY <2>1, <2>3, <3>1, <4>1, ChainInUse
    <3>2. CASE c \in leaked
      BY <2>2, <2>3, <3>2 DEF Accounted
    <3>3. CASE c \notin leaked
      <4>1. PICK r \in R : c \in Members(f, r)
        <5>1. CASE c \in Used(Root)
          BY <2>1, <2>2, <5>1
        <5>2. CASE \E n \in nodes : c \in Used(n.start)
          <6>1. PICK n \in nodes : c \in Used(n.start)
            BY <5>2
          <6>2. n.start \in R
            BY <2>1, <6>1
          <6>. QED BY <2>1, <6>1, <6>2
        <5>. QED BY <2>5, <3>3, <5>1, <5>2
      <4>. QED BY <3>1, <4>1
    <3>. QED BY <3>2, <3>3
  <2>. HIDE DEF U
  <2>6. {c \in Clusters : f[c] # Free} = U
    BY <2>4, <2>5
  <2>. QED BY <2>6 DEF NoLostClusters, f, U
<1>. QED BY <1>1, FatInvariant, PTL

(* The free count that fat32_alloc_cluster decrements and free_chain       *)
(* raises by the length of the chain never drifts from the FAT.            *)
THEOREM FreeCountIsExact == Spec => []FreeCountExact
<1>1. FatInv => FreeCountExact
  <2>. SUFFICES ASSUME FatInv, ~failed
                PROVE  disk.free = Cardinality({c \in Clusters : disk.fat[c] = Free})
    BY DEF FreeCountExact
  <2>1. disk.free = Cardinality(FreeIn(disk.fat)) /\ disk.fat \in Fats(Clusters)
    BY NodeChains DEF FatInv, Sound
  <2>2. DOMAIN disk.fat = Clusters
    BY <2>1 DEF Fats
  <2>. QED BY <2>1, <2>2 DEF FreeIn
<1>. QED BY <1>1, FatInvariant, PTL

(* Power may be lost between any two sector writes of any command: no      *)
(* chain of a file or directory that was not being removed is cut, freed   *)
(* or shared on the disk that is left.                                     *)
THEOREM ChainsSurvivePowerLoss == Spec => []CrashKeepsChains
<1>1. FatInv => CrashKeepsChains
  BY DEF FatInv
<1>. QED BY <1>1, FatInvariant, PTL
=============================================================================
