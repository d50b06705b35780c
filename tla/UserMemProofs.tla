--------------------------- MODULE UserMemProofs ---------------------------
(***************************************************************************)
(* Proofs about the memory of a user task, for every number of frames and  *)
(* every program.  brk, mmap and the ELF loader take one page after the    *)
(* other: what a loop of theirs keeps is proved by induction over its      *)
(* turns (PmmProofs).                                                      *)
(***************************************************************************)
EXTENDS UserMem, PmmProofs, SequenceTheorems

-----------------------------------------------------------------------------
(* The states that the operators hand on, and who has which frame.         *)
Partial(R) == UNION {[D -> R] : D \in SUBSET Int}
Entries    == [frame : Pages, w : BOOLEAN, nx : BOOLEAN]
Maps       == [root : Pages \cup {NULL}, tables : Partial(Pages), pt : Partial(Entries)]
States     == [mem : Mems, pm : Maps, kernel : Partial(Pages), ok : BOOLEAN, oom : BOOLEAN]

Leaves(p) == {p.pt[v].frame : v \in DOMAIN p.pt}
Tables(p) == {p.tables[t] : t \in DOMAIN p.tables}

(* Every frame has one use. *)
Distinct(p) ==
  /\ \A u, v \in DOMAIN p.pt : u # v => p.pt[u].frame # p.pt[v].frame
  /\ \A t, u \in DOMAIN p.tables : t # u => p.tables[t] # p.tables[u]
  /\ Leaves(p) \cap Tables(p) = {}
  /\ p.root \notin Leaves(p) \cup Tables(p)

Held(p) == Leaves(p) \cup Tables(p) \cup ({p.root} \ {NULL})

(* The frames in use are allocated, and those of pmm_init stay so. *)
Owned(m, p) ==
  /\ Distinct(p)
  /\ pmm_init.bitmap \subseteq m.bitmap
  /\ Held(p) \subseteq m.bitmap \ pmm_init.bitmap

(* Ownership lasts until a munmap reaches a page of the kernel. *)
Sound(s) == s \in States /\ (intact => Owned(s.mem, s.pm))

(* A frame that was taken and is not used yet. *)
Spare(s, f) == intact => f \in s.mem.bitmap \ (pmm_init.bitmap \cup Held(s.pm))

-----------------------------------------------------------------------------
(* The page allocator. *)
NoFrame(m) == \A i \in FirstPage..(TotalPages - 1) : i \in m.bitmap

LEMMA FirstFreeFrame ==
  ASSUME NEW m
  PROVE  /\ NoFrame(m) => FirstFreeRun(m, 1) = NULL
         /\ ~NoFrame(m) => /\ FirstFreeRun(m, 1) \in FirstPage..(TotalPages - 1)
                           /\ FirstFreeRun(m, 1) \in Pages \ m.bitmap
                           /\ FirstFreeRun(m, 1) # NULL
<1>. DEFINE runs == {i \in FirstPage..(TotalPages - 1) : IsFreeRun(m, i, 1)}
<1>0. FirstPage \in Nat /\ TotalPages \in Nat
  BY PmmAssumption
<1>1. \A i \in FirstPage..(TotalPages - 1) : IsFreeRun(m, i, 1) <=> i \notin m.bitmap
  <2>. SUFFICES ASSUME NEW i \in FirstPage..(TotalPages - 1)
                PROVE  IsFreeRun(m, i, 1) <=> i \notin m.bitmap
    OBVIOUS
  <2>1. i..(i + 1 - 1) = {i}
    BY <1>0
  <2>. QED BY <2>1 DEF IsFreeRun, RunAt
<1>2. FirstFreeRun(m, 1) = IF 1 > TotalPages \/ runs = {} THEN NULL
                           ELSE CHOOSE i \in runs : \A j \in runs : i <= j
  BY DEF FirstFreeRun
<1>3. CASE NoFrame(m)
  <2>1. runs = {}
    BY <1>1, <1>3 DEF NoFrame
  <2>. QED BY <1>2, <1>3, <2>1
<1>4. CASE ~NoFrame(m)
  <2>1. runs # {} /\ ~(1 > TotalPages) /\ runs \in SUBSET Nat
    BY <1>0, <1>1, <1>4 DEF NoFrame
  <2>. HIDE DEF runs
  <2>2. \E x \in runs : \A y \in runs : x <= y
    BY <2>1, LeastExists
  <2>4. FirstFreeRun(m, 1) \in runs
    BY <1>2, <2>1, <2>2
  <2>5. FirstFreeRun(m, 1) \in FirstPage..(TotalPages - 1) /\ FirstFreeRun(m, 1) \notin m.bitmap
    BY <1>1, <2>4 DEF runs
  <2>. HIDE DEF NoFrame
  <2>. QED BY <1>0, <1>4, <2>5 DEF Pages, NULL
<1>. QED BY <1>3, <1>4

LEMMA FrameTaken ==
  ASSUME NEW m \in Mems, ~NoFrame(m)
  PROVE  /\ pmm_alloc_pages_contiguous(m, 1) \in Mems
         /\ pmm_alloc_pages_contiguous(m, 1).bitmap = m.bitmap \cup {FirstFreeRun(m, 1)}
<1>. DEFINE f == FirstFreeRun(m, 1)
<1>1. f \in Pages /\ f \in Int
  BY FirstFreeFrame, PmmAssumption DEF Pages
<1>. HIDE DEF f
<1>2. RunAt(f, 1) = {f}
  BY <1>1 DEF RunAt
<1>3. pmm_alloc_pages_contiguous(m, 1) =
        [bitmap |-> m.bitmap \cup {f}, free_pages |-> m.free_pages - 1]
  BY <1>2 DEF pmm_alloc_pages_contiguous, f
<1>. QED BY <1>1, <1>3 DEF Mems, f

-----------------------------------------------------------------------------
(* The page tables. *)
LEMMA ExtendTyped ==
  ASSUME NEW R, NEW f \in Partial(R), NEW x \in Int, NEW y \in R
  PROVE  Extend(f, x, y) \in Partial(R)
<1>1. PICK D \in SUBSET Int : f \in [D -> R]
  BY DEF Partial
<1>2. Extend(f, x, y) \in [D \cup {x} -> R]
  BY <1>1 DEF Extend
<1>3. D \cup {x} \in SUBSET Int
  BY <1>1
<1>. QED BY <1>2, <1>3 DEF Partial

LEMMA PartialTyped ==
  ASSUME NEW R, NEW f \in Partial(R)
  PROVE  DOMAIN f \in SUBSET Int /\ f \in [DOMAIN f -> R] /\ \A x \in DOMAIN f : f[x] \in R
<1>1. PICK D \in SUBSET Int : f \in [D -> R]
  BY DEF Partial
<1>. QED BY <1>1

(* A page table that is new takes a frame, and not the spare one. *)
LEMMA TableCreated ==
  ASSUME NEW s, Sound(s), NEW f, Spare(s, f), NEW v \in Int
  PROVE  LET t == get_or_create(s, v)
         IN /\ Sound(t) /\ Spare(t, f)
            /\ t.pm.pt = s.pm.pt /\ t.pm.root = s.pm.root /\ t.oom = s.oom
            /\ t.kernel = s.kernel
            /\ s.mem.bitmap \subseteq t.mem.bitmap
            /\ t.ok => s.ok
            /\ s.ok /\ ~t.ok => NoFrame(t.mem)
<1>. DEFINE t == get_or_create(s, v)
            g == FirstFreeRun(s.mem, 1)
            k == TableOf(v)
<1>0. /\ s \in States /\ s.mem \in Mems /\ s.pm \in Maps /\ (intact => Owned(s.mem, s.pm))
      /\ s.pm.tables \in Partial(Pages)
  BY DEF Sound, States, Maps
<1>k. k \in Int
  BY UserMemAssumption DEF TableOf
<1>1. t = IF k \in DOMAIN s.pm.tables THEN s
          ELSE IF g = NULL THEN [s EXCEPT !.ok = FALSE]
          ELSE [s EXCEPT !.mem = pmm_alloc_pages_contiguous(@, 1), !.pm.tables = Extend(@, k, g)]
  BY DEF get_or_create
<1>. HIDE DEF t, k
<1>2. CASE k \in DOMAIN s.pm.tables
  <2>1. t = s
    BY <1>1, <1>2
  <2>. QED BY <2>1 DEF t
<1>3. CASE k \notin DOMAIN s.pm.tables /\ NoFrame(s.mem)
  <2>1. t = [s EXCEPT !.ok = FALSE]
    BY <1>1, <1>3, FirstFreeFrame
  <2>2. t \in States
    BY <1>0, <2>1, Zenon DEF States
  <2>3. /\ t.mem = s.mem /\ t.pm = s.pm /\ t.oom = s.oom /\ t.ok = FALSE
        /\ t.kernel = s.kernel
    BY <1>0, <2>1 DEF States
  <2>. QED BY <1>0, <1>3, <2>2, <2>3 DEF Sound, Spare, t
<1>4. CASE k \notin DOMAIN s.pm.tables /\ ~NoFrame(s.mem)
  <2>1. g \in Pages \ s.mem.bitmap /\ g # NULL
    BY <1>4, FirstFreeFrame
  <2>. DEFINE m == pmm_alloc_pages_contiguous(s.mem, 1)
              T == Extend(s.pm.tables, k, g)
              p == [s.pm EXCEPT !.tables = T]
  <2>2. m \in Mems /\ m.bitmap = s.mem.bitmap \cup {g}
    BY <1>0, <1>4, FrameTaken
  <2>3. /\ T \in Partial(Pages) /\ DOMAIN T = DOMAIN s.pm.tables \cup {k} /\ T[k] = g
        /\ \A z \in DOMAIN s.pm.tables : T[z] = s.pm.tables[z]
    <3>1. g \in Pages
      BY <2>1
    <3>2. T \in Partial(Pages) /\ DOMAIN T = DOMAIN s.pm.tables \cup {k}
      <4>. DEFINE a == s.pm.tables
      <4>1. a \in Partial(Pages)
        BY <1>0
      <4>. HIDE DEF a, g
      <4>2. Extend(a, k, g) \in Partial(Pages)
        BY <1>k, <3>1, <4>1, ExtendTyped
      <4>3. DOMAIN Extend(a, k, g) = DOMAIN a \cup {k}
        BY DEF Extend
      <4>. QED BY <4>2, <4>3 DEF a
    <3>3. T[k] = g /\ \A z \in DOMAIN s.pm.tables \ {k} : T[z] = s.pm.tables[z]
      BY DEF Extend
    <3>. QED BY <1>4, <3>2, <3>3
  <2>4. t = [s EXCEPT !.mem = m, !.pm = p]
    BY <1>0, <1>1, <1>4, <2>1 DEF States, Maps
  <2>. HIDE DEF m, T, g
  <2>5. p \in Maps /\ p.root = s.pm.root /\ p.pt = s.pm.pt /\ p.tables = T
    BY <1>0, <2>3 DEF Maps
  <2>. HIDE DEF p
  <2>6. /\ t \in States /\ t.mem = m /\ t.pm = p /\ t.ok = s.ok /\ t.oom = s.oom
        /\ t.kernel = s.kernel
    BY <1>0, <2>2, <2>4, <2>5 DEF States
  <2>7. Leaves(p) = Leaves(s.pm) /\ Tables(p) = Tables(s.pm) \cup {g}
    BY <2>3, <2>5 DEF Leaves, Tables
  <2>8. ASSUME intact PROVE Owned(m, p) /\ Spare(t, f)
    <3>1. Owned(s.mem, s.pm)
      BY <1>0, <2>8
    <3>2. g \notin Held(s.pm) /\ g \notin pmm_init.bitmap /\ g # f /\ g # s.pm.root
      BY <2>1, <2>8, <3>1 DEF Owned, Spare, Held
    <3>3. Distinct(p)
      <4>1. \A a, b \in DOMAIN T : a # b => T[a] # T[b]
        BY <2>3, <3>1, <3>2 DEF Owned, Distinct, Held, Tables
      <4>. QED BY <2>5, <2>7, <3>1, <3>2, <4>1 DEF Owned, Distinct, Held
    <3>4. Held(p) = Held(s.pm) \cup {g}
      BY <2>5, <2>7 DEF Held
    <3>5. Owned(m, p)
      BY <2>2, <3>1, <3>2, <3>3, <3>4 DEF Owned
    <3>6. Spare(t, f)
      BY <2>2, <2>6, <2>8, <3>2, <3>4 DEF Spare
    <3>. QED BY <3>5, <3>6
  <2>9. Sound(t) /\ Spare(t, f)
    BY <2>6, <2>8 DEF Sound, Spare
  <2>. QED BY <2>2, <2>5, <2>6, <2>9 DEF t
<1>. QED BY <1>2, <1>3, <1>4

(* n maps what s does, and the page v, whichever half it is in. *)
MapsTo(s, n, v, e) ==
  IF v >= KernelStart THEN n.kernel = Extend(s.kernel, v, e.frame) /\ n.pm.pt = s.pm.pt
  ELSE n.pm.pt = Extend(s.pm.pt, v, e) /\ n.kernel = s.kernel

(* A page of the kernel's half is mapped: no table is needed. *)
LEMMA KernelPageMapped ==
  ASSUME NEW s, Sound(s), NEW v \in Int, v >= KernelStart, NEW e \in Entries
  PROVE  LET n == vmm_map(s, v, e)
         IN /\ Sound(n) /\ n.pm = s.pm /\ n.mem = s.mem /\ n.oom = s.oom /\ n.ok = s.ok
            /\ MapsTo(s, n, v, e)
<1>. DEFINE K == Extend(s.kernel, v, e.frame)
            n == vmm_map(s, v, e)
<1>0. s \in States /\ s.kernel \in Partial(Pages) /\ e.frame \in Pages
  BY DEF Sound, States, Entries
<1>1. n = [s EXCEPT !.kernel = K]
  BY <1>0 DEF vmm_map, States
<1>2. K \in Partial(Pages)
  <2>. DEFINE a == s.kernel
              f == e.frame
  <2>1. a \in Partial(Pages) /\ f \in Pages
    BY <1>0
  <2>. HIDE DEF a, f
  <2>2. Extend(a, v, f) \in Partial(Pages)
    BY <2>1, ExtendTyped
  <2>. QED BY <2>2 DEF a, f
<1>. HIDE DEF K, n
<1>3. /\ n \in States /\ n.pm = s.pm /\ n.mem = s.mem /\ n.oom = s.oom /\ n.ok = s.ok
      /\ n.kernel = K
  BY <1>0, <1>1, <1>2 DEF States
<1>4. Sound(n)
  BY <1>3 DEF Sound
<1>5. MapsTo(s, n, v, e)
  BY <1>3 DEF MapsTo, K
<1>. QED BY <1>3, <1>4, <1>5 DEF n

(* A page is mapped to the spare frame, or memory is out. *)
LEMMA PageMapped ==
  ASSUME NEW s, Sound(s), s.ok, NEW f, Spare(s, f), NEW v \in Int,
         NEW e \in Entries, e.frame = f
  PROVE  LET n == vmm_map(s, v, e)
         IN /\ Sound(n) /\ n.pm.root = s.pm.root /\ n.oom = s.oom
            /\ s.mem.bitmap \subseteq n.mem.bitmap
            /\ n.ok => MapsTo(s, n, v, e)
            /\ ~n.ok => NoFrame(n.mem)
<1>. DEFINE t == get_or_create(s, v)
            n == vmm_map(s, v, e)
            P == Extend(s.pm.pt, v, e)
            p == [t.pm EXCEPT !.pt = P]
<1>1. /\ Sound(t) /\ Spare(t, f)
      /\ t.pm.pt = s.pm.pt /\ t.pm.root = s.pm.root /\ t.oom = s.oom
      /\ t.kernel = s.kernel
      /\ s.mem.bitmap \subseteq t.mem.bitmap
      /\ s.ok /\ ~t.ok => NoFrame(t.mem)
  BY TableCreated
<1>. HIDE DEF t
<1>2. /\ t \in States /\ t.mem \in Mems /\ t.pm \in Maps /\ (intact => Owned(t.mem, t.pm))
      /\ t.pm.pt \in Partial(Entries)
  BY <1>1 DEF Sound, States, Maps
<1>k. CASE v >= KernelStart
  <2>1. /\ Sound(n) /\ n.pm = s.pm /\ n.mem = s.mem /\ n.oom = s.oom /\ n.ok = s.ok
        /\ MapsTo(s, n, v, e)
    BY <1>k, KernelPageMapped
  <2>. HIDE DEF n
  <2>. QED BY <2>1 DEF n
<1>3. CASE ~(v >= KernelStart) /\ ~t.ok
  <2>1. n = t
    BY <1>3 DEF vmm_map, t
  <2>. HIDE DEF n
  <2>. QED BY <1>1, <1>3, <2>1 DEF n
<1>4. CASE ~(v >= KernelStart) /\ t.ok
  <2>1. n = [t EXCEPT !.pm = p]
    <3>1. n = [t EXCEPT !.pm.pt = Extend(@, v, e)]
      BY <1>4 DEF vmm_map, t
    <3>. HIDE DEF n
    <3>. QED BY <1>1, <1>2, <3>1 DEF States, Maps
  <2>2. P \in Partial(Entries)
    <3>. DEFINE a == s.pm.pt
    <3>1. a \in Partial(Entries)
      BY <1>1, <1>2
    <3>. HIDE DEF a
    <3>2. Extend(a, v, e) \in Partial(Entries)
      BY <3>1, ExtendTyped
    <3>. QED BY <3>2 DEF a
  <2>3. /\ DOMAIN P = DOMAIN t.pm.pt \cup {v} /\ P[v] = e
        /\ \A z \in DOMAIN t.pm.pt \ {v} : P[z] = t.pm.pt[z]
    BY <1>1 DEF Extend
  <2>. HIDE DEF P, n
  <2>4. p \in Maps /\ p.root = t.pm.root /\ p.tables = t.pm.tables /\ p.pt = P
    BY <1>2, <2>2 DEF Maps
  <2>. HIDE DEF p
  <2>5. /\ n \in States /\ n.mem = t.mem /\ n.pm = p /\ n.ok = t.ok /\ n.oom = t.oom
        /\ n.kernel = t.kernel
    BY <1>2, <2>1, <2>4 DEF States
  <2>6. ASSUME intact PROVE Owned(t.mem, p)
    <3>0. Owned(t.mem, t.pm) /\ Distinct(t.pm)
      BY <1>2, <2>6 DEF Owned
    <3>1. f \notin Held(t.pm) /\ f \in t.mem.bitmap \ pmm_init.bitmap
      BY <1>1, <2>6 DEF Spare
    <3>2. Leaves(p) \subseteq Leaves(t.pm) \cup {f} /\ Tables(p) = Tables(t.pm)
      BY <2>3, <2>4 DEF Leaves, Tables
    <3>3. \A a, b \in DOMAIN P : a # b => P[a].frame # P[b].frame
      BY <2>3, <3>0, <3>1 DEF Distinct, Held, Leaves
    <3>4. f # p.root
      <4>1. NULL \notin t.mem.bitmap
        BY <1>2, PmmAssumption DEF Mems, Pages, NULL
      <4>. QED BY <2>4, <3>1, <4>1 DEF Held
    <3>5. f \notin Tables(p)
      BY <3>1, <3>2 DEF Held
    <3>6. Leaves(p) \cap Tables(p) = {}
      BY <3>0, <3>2, <3>5 DEF Distinct
    <3>7. p.root \notin Leaves(p) \cup Tables(p)
      BY <2>4, <3>0, <3>2, <3>4 DEF Distinct
    <3>8. Distinct(p)
      BY <2>4, <3>0, <3>3, <3>6, <3>7 DEF Distinct
    <3>9. Held(p) \subseteq Held(t.pm) \cup {f}
      BY <2>4, <3>2 DEF Held
    <3>. QED BY <3>0, <3>1, <3>8, <3>9 DEF Owned
  <2>7. Sound(n)
    BY <2>5, <2>6 DEF Sound
  <2>8. MapsTo(s, n, v, e)
    BY <1>1, <1>4, <2>4, <2>5 DEF MapsTo, P
  <2>. QED BY <1>1, <1>4, <2>4, <2>5, <2>7, <2>8 DEF n
<1>. QED BY <1>k, <1>3, <1>4

(* pmm_alloc_page: the frame is spare until it is mapped. *)
LEMMA FrameIsSpare ==
  ASSUME NEW s, Sound(s), ~NoFrame(s.mem)
  PROVE  LET a == [s EXCEPT !.mem = pmm_alloc_pages_contiguous(@, 1)]
             f == FirstFreeRun(s.mem, 1)
         IN /\ Sound(a) /\ Spare(a, f) /\ f \in Pages /\ f # NULL
            /\ a.pm = s.pm /\ a.ok = s.ok /\ a.oom = s.oom /\ a.kernel = s.kernel
            /\ s.mem.bitmap \subseteq a.mem.bitmap
<1>. DEFINE m == pmm_alloc_pages_contiguous(s.mem, 1)
            a == [s EXCEPT !.mem = m]
            f == FirstFreeRun(s.mem, 1)
<1>0. s \in States /\ s.mem \in Mems /\ (intact => Owned(s.mem, s.pm))
  BY DEF Sound, States
<1>1. f \in Pages \ s.mem.bitmap /\ f # NULL
  BY FirstFreeFrame
<1>2. m \in Mems /\ m.bitmap = s.mem.bitmap \cup {f}
  BY <1>0, FrameTaken
<1>. HIDE DEF m, f
<1>3. /\ a \in States /\ a.mem = m /\ a.pm = s.pm /\ a.ok = s.ok /\ a.oom = s.oom
      /\ a.kernel = s.kernel
  BY <1>0, <1>2 DEF States
<1>. HIDE DEF a
<1>4. Sound(a)
  BY <1>0, <1>2, <1>3 DEF Sound, Owned
<1>5. Spare(a, f)
  BY <1>0, <1>1, <1>2, <1>3 DEF Spare, Owned
<1>. QED BY <1>1, <1>2, <1>3, <1>4, <1>5 DEF a, m, f

LEMMA OkSet ==
  ASSUME NEW s, Sound(s), NEW b \in BOOLEAN
  PROVE  LET n == [s EXCEPT !.ok = b]
         IN /\ Sound(n) /\ n.mem = s.mem /\ n.pm = s.pm /\ n.ok = b /\ n.oom = s.oom
            /\ n.kernel = s.kernel
<1>. DEFINE n == [s EXCEPT !.ok = b]
<1>1. s \in States
  BY DEF Sound
<1>2. n \in States
  BY <1>1, Zenon DEF States
<1>3. n.mem = s.mem /\ n.pm = s.pm /\ n.ok = b /\ n.oom = s.oom /\ n.kernel = s.kernel
  BY <1>1 DEF States
<1>. QED BY <1>2, <1>3 DEF Sound

(* One page of brk, mmap or the stack. *)
LEMMA FreshMapped ==
  ASSUME NEW s, Sound(s), s.ok, NEW v \in Int, NEW w \in BOOLEAN, NEW nx \in BOOLEAN
  PROVE  LET n == MapFresh(s, v, w, nx)
         IN /\ Sound(n) /\ n.ok /\ n.pm.root = s.pm.root
            /\ s.mem.bitmap \subseteq n.mem.bitmap
            /\ n.oom => s.oom \/ NoFrame(n.mem)
            /\ s.oom => n = s
            /\ \/ s.oom \/ NoFrame(n.mem)
               \/ \E f \in Pages : MapsTo(s, n, v, Entry(f, w, nx))
<1>. DEFINE f == FirstFreeRun(s.mem, 1)
            n == MapFresh(s, v, w, nx)
<1>0. s \in States /\ s.mem \in Mems /\ s.oom \in BOOLEAN /\ s.ok \in BOOLEAN
  BY DEF Sound, States
<1>1. CASE s.oom
  <2>1. n = s
    BY <1>1 DEF MapFresh
  <2>. HIDE DEF n
  <2>. QED BY <1>1, <2>1 DEF n
<1>2. CASE ~s.oom /\ NoFrame(s.mem)
  <2>1. n = [s EXCEPT !.oom = TRUE]
    BY <1>2, FirstFreeFrame DEF MapFresh
  <2>2. n \in States
    BY <1>0, <2>1, Zenon DEF States
  <2>3. n.mem = s.mem /\ n.pm = s.pm /\ n.ok = s.ok
    BY <1>0, <2>1 DEF States
  <2>. HIDE DEF n
  <2>4. Sound(n)
    BY <2>2, <2>3 DEF Sound
  <2>. QED BY <1>2, <2>3, <2>4 DEF n
<1>3. CASE ~s.oom /\ ~NoFrame(s.mem)
  <2>. DEFINE a == [s EXCEPT !.mem = pmm_alloc_pages_contiguous(@, 1)]
              e == Entry(f, w, nx)
              m == vmm_map(a, v, e)
  <2>1. /\ Sound(a) /\ Spare(a, f) /\ f \in Pages /\ f # NULL
        /\ a.pm = s.pm /\ a.ok = s.ok /\ a.oom = s.oom /\ a.kernel = s.kernel
        /\ s.mem.bitmap \subseteq a.mem.bitmap
    BY <1>3, FrameIsSpare
  <2>2. n = [m EXCEPT !.ok = TRUE]
    BY <1>3, <2>1 DEF MapFresh
  <2>. HIDE DEF a, f, n
  <2>3. e \in Entries /\ e.frame = f
    BY <2>1 DEF Entries, Entry
  <2>. HIDE DEF e
  <2>a. a.ok
    BY <2>1, Zenon
  <2>4. /\ Sound(m) /\ m.pm.root = a.pm.root /\ m.oom = a.oom /\ a.mem.bitmap \subseteq m.mem.bitmap
        /\ m.ok => MapsTo(a, m, v, e)
        /\ ~m.ok => NoFrame(m.mem)
    BY <2>1, <2>a, <2>3, PageMapped
  <2>. HIDE DEF m
  <2>5. /\ Sound(n) /\ n.mem = m.mem /\ n.pm = m.pm /\ n.ok = TRUE /\ n.oom = m.oom
        /\ n.kernel = m.kernel
    BY <2>2, <2>4, OkSet
  <2>6. m.ok => MapsTo(s, n, v, Entry(f, w, nx))
    BY <2>1, <2>4, <2>5 DEF e, MapsTo
  <2>7. m.ok \/ NoFrame(n.mem)
    BY <2>4, <2>5
  <2>8. ~n.oom
    BY <1>3, <2>1, <2>4, <2>5, Zenon
  <2>9. n.pm.root = s.pm.root /\ s.mem.bitmap \subseteq n.mem.bitmap
    BY <2>1, <2>4, <2>5
  <2>. QED BY <1>3, <2>1, <2>5, <2>6, <2>7, <2>8, <2>9 DEF n
<1>. QED BY <1>1, <1>2, <1>3

(* One page of a segment. *)
LEMMA SegmentPageLoaded ==
  ASSUME NEW s, Sound(s), NEW v \in Int, NEW seg, seg.w \in BOOLEAN, NEW short
  PROVE  LET n == LoadPage(s, v, seg, short) IN Sound(n) /\ n.pm.root = s.pm.root
<1>. DEFINE f == FirstFreeRun(s.mem, 1)
            a == [s EXCEPT !.mem = pmm_alloc_pages_contiguous(@, 1)]
            e == Entry(f, seg.w, ~seg.x)
            t == vmm_map(a, v, e)
            failed == [s EXCEPT !.ok = FALSE]
            n == LoadPage(s, v, seg, short)
<1>1. n = IF ~s.ok THEN s
          ELSE IF f = NULL \/ short THEN failed
          ELSE IF ~t.ok THEN failed ELSE t
  BY DEF LoadPage
<1>2. Sound(failed) /\ failed.pm = s.pm
  BY OkSet
<1>3. CASE ~s.ok \/ f = NULL \/ short
  <2>1. n = s \/ n = failed
    BY <1>1, <1>3
  <2>. HIDE DEF n, failed
  <2>. QED BY <1>2, <2>1 DEF n
<1>4. CASE s.ok /\ f # NULL /\ ~short
  <2>1. /\ Sound(a) /\ Spare(a, f) /\ f \in Pages
        /\ a.pm = s.pm /\ a.ok = s.ok
    <3>1. ~NoFrame(s.mem)
      BY <1>4, FirstFreeFrame
    <3>. QED BY <3>1, FrameIsSpare
  <2>. HIDE DEF a, f
  <2>2. e \in Entries /\ e.frame = f
    BY <2>1 DEF Entries, Entry
  <2>a. a.ok
    BY <1>4, <2>1, Zenon
  <2>. HIDE DEF e
  <2>3. Sound(t) /\ t.pm.root = a.pm.root
    BY <2>1, <2>a, <2>2, PageMapped
  <2>4. n = t \/ n = failed
    BY <1>1, <1>4
  <2>. HIDE DEF n, failed, t
  <2>. QED BY <1>2, <2>1, <2>3, <2>4 DEF n
<1>. QED BY <1>3, <1>4

-----------------------------------------------------------------------------
(* The loops.  The pages first .. first + i - 1 are mapped, those of the   *)
(* user's half writable.                                                   *)
PageBacked(s, v) ==
  IF v >= KernelStart THEN v \in DOMAIN s.kernel ELSE v \in DOMAIN s.pm.pt /\ s.pm.pt[v].w
Backed(s, first, i) == \A v \in first..(first + i - 1) : PageBacked(s, v)

LEMMA PageStaysBacked ==
  ASSUME NEW s, NEW n, NEW x \in Int, NEW f, MapsTo(s, n, x, Entry(f, TRUE, TRUE)),
         NEW v \in Int, v = x \/ PageBacked(s, v)
  PROVE  PageBacked(n, v)
<1>. DEFINE e == Entry(f, TRUE, TRUE)
<1>0. KernelStart \in Nat
  BY UserMemAssumption
<1>1. e.w = TRUE
  BY DEF Entry
<1>. HIDE DEF e
<1>2. CASE x >= KernelStart
  <2>1. /\ n.kernel = [z \in DOMAIN s.kernel \cup {x} |-> IF z = x THEN e.frame ELSE s.kernel[z]]
        /\ n.pm.pt = s.pm.pt
    BY <1>2 DEF MapsTo, Extend, e
  <2>2. DOMAIN n.kernel = DOMAIN s.kernel \cup {x}
    BY <2>1
  <2>. QED BY <1>0, <1>2, <2>1, <2>2 DEF PageBacked
<1>3. CASE ~(x >= KernelStart)
  <2>1. /\ n.pm.pt = [z \in DOMAIN s.pm.pt \cup {x} |-> IF z = x THEN e ELSE s.pm.pt[z]]
        /\ n.kernel = s.kernel
    BY <1>3 DEF MapsTo, Extend, e
  <2>2. /\ DOMAIN n.pm.pt = DOMAIN s.pm.pt \cup {x} /\ n.pm.pt[x] = e
        /\ \A z \in DOMAIN s.pm.pt \ {x} : n.pm.pt[z] = s.pm.pt[z]
    BY <2>1
  <2>. QED BY <1>0, <1>1, <1>3, <2>1, <2>2 DEF PageBacked
<1>. QED BY <1>2, <1>3

LEMMA BackedExtended ==
  ASSUME NEW s, NEW n, NEW first \in Int, NEW i \in Nat \ {0}, Backed(s, first, i - 1),
         NEW f, MapsTo(s, n, first + i - 1, Entry(f, TRUE, TRUE))
  PROVE  Backed(n, first, i)
<1>. SUFFICES ASSUME NEW v \in first..(first + i - 1) PROVE PageBacked(n, v)
  BY DEF Backed
<1>. DEFINE x == first + i - 1
<1>1. v = x \/ v \in first..(first + (i - 1) - 1)
  OBVIOUS
<1>2. x \in Int /\ v \in Int /\ (v = x \/ PageBacked(s, v))
  BY <1>1 DEF Backed
<1>3. MapsTo(s, n, x, Entry(f, TRUE, TRUE))
  OBVIOUS
<1>. HIDE DEF x
<1>. QED BY <1>2, <1>3, PageStaysBacked

(* The loop of brk and mmap. *)
LEMMA RangeMapped ==
  ASSUME NEW s, Sound(s), s.ok, ~s.oom, NEW first \in Int, NEW n \in Nat
  PROVE  LET r == MapFreshRange(s, first, n)
         IN /\ Sound(r) /\ r.pm.root = s.pm.root
            /\ NoFrame(r.mem) \/ Backed(r, first, n)
<1>. DEFINE S == {x \in States : Sound(x) /\ x.ok /\ x.pm.root = s.pm.root}
            Turn(i, x) == MapFresh(x, first + i - 1, TRUE, TRUE)
            F(g) == [i \in 0..n |-> IF i = 0 THEN s ELSE Turn(i, g[i - 1])]
            after == CHOOSE g : g = F(g)
            turn == [i \in 1..n |-> [x \in S |-> Turn(i, x)]]
<1>0. s \in S
  BY DEF Sound
<1>1. ASSUME NEW i \in 1..n, NEW x \in S
      PROVE  /\ Turn(i, x) \in S /\ x.mem.bitmap \subseteq Turn(i, x).mem.bitmap
             /\ Turn(i, x).oom => x.oom \/ NoFrame(Turn(i, x).mem)
             /\ \/ x.oom \/ NoFrame(Turn(i, x).mem)
                \/ \E f \in Pages : MapsTo(x, Turn(i, x), first + i - 1, Entry(f, TRUE, TRUE))
  <2>1. first + i - 1 \in Int /\ Sound(x) /\ x.ok /\ x.pm.root = s.pm.root
    OBVIOUS
  <2>. DEFINE r == Turn(i, x)
  <2>2. /\ Sound(r) /\ r.ok /\ r.pm.root = x.pm.root
        /\ x.mem.bitmap \subseteq r.mem.bitmap
        /\ r.oom => x.oom \/ NoFrame(r.mem)
        /\ \/ x.oom \/ NoFrame(r.mem)
           \/ \E f \in Pages : MapsTo(x, r, first + i - 1, Entry(f, TRUE, TRUE))
    BY <2>1, FreshMapped
  <2>. HIDE DEF r
  <2>3. r \in S
    BY <2>1, <2>2 DEF Sound
  <2>. QED BY <2>2, <2>3 DEF r
<1>. HIDE DEF S, Turn
<1>2. turn \in [1..n -> [S -> S]]
  BY <1>1
<1>r. \E g : Runs(g, n, S, s, turn)
  <2>. HIDE DEF turn
  <2>. QED BY <1>0, <1>2, LoopExists
<1>3. PICK g : g \in [0..n -> S] /\ g[0] = s /\ \A i \in 1..n : g[i] = turn[i][g[i - 1]]
  BY <1>r DEF Runs
<1>4. g = F(g)
  <2>1. ASSUME NEW i \in 1..n PROVE g[i] = Turn(i, g[i - 1])
    <3>1. g[i - 1] \in S
      BY <1>3
    <3>. QED BY <1>3, <3>1
  <2>. QED BY <1>3, <2>1
<1>5. after = F(after)
  BY <1>4, Zenon
<1>6. MapFreshRange(s, first, n) = after[n]
  BY DEF MapFreshRange, Turn
<1>. HIDE DEF after
<1>7. after[0] = s /\ \A i \in 1..n : after[i] = Turn(i, after[i - 1])
  BY <1>5
<1>. DEFINE Good(i) == /\ after[i] \in S
                       /\ after[i].oom => NoFrame(after[i].mem)
                       /\ NoFrame(after[i].mem) \/ Backed(after[i], first, i)
            T == {i \in 0..n : Good(i)}
<1>8. 0 \in T
  BY <1>0, <1>7 DEF Backed
<1>9. ASSUME NEW i \in 1..n, i - 1 \in T PROVE i \in T
  <2>. DEFINE x == after[i - 1]
              y == after[i]
  <2>0. i \in 0..n /\ i - 1 \in 0..n /\ y = Turn(i, x)
    BY <1>7
  <2>1. x \in S /\ (x.oom => NoFrame(x.mem)) /\ (NoFrame(x.mem) \/ Backed(x, first, i - 1))
    BY <1>9
  <2>. HIDE DEF x, y
  <2>2. /\ y \in S /\ x.mem.bitmap \subseteq y.mem.bitmap
        /\ y.oom => x.oom \/ NoFrame(y.mem)
        /\ \/ x.oom \/ NoFrame(y.mem)
           \/ \E f \in Pages : MapsTo(x, y, first + i - 1, Entry(f, TRUE, TRUE))
    BY <1>1, <2>0, <2>1
  <2>3. NoFrame(x.mem) => NoFrame(y.mem)
    BY <2>2 DEF NoFrame
  <2>4. y.oom => NoFrame(y.mem)
    BY <2>1, <2>2, <2>3
  <2>5. NoFrame(y.mem) \/ Backed(y, first, i)
    <3>. SUFFICES ASSUME ~NoFrame(y.mem) PROVE Backed(y, first, i)
      OBVIOUS
    <3>1. Backed(x, first, i - 1)
      BY <2>1, <2>3
    <3>2. PICK f \in Pages : MapsTo(x, y, first + i - 1, Entry(f, TRUE, TRUE))
      BY <2>1, <2>2, <2>3
    <3>3. i \in Nat \ {0}
      OBVIOUS
    <3>. QED BY <3>1, <3>2, <3>3, BackedExtended
  <2>. QED BY <2>0, <2>2, <2>4, <2>5 DEF y
<1>. HIDE DEF T
<1>10. 0..n \subseteq T
  BY <1>8, <1>9, TurnByTurn
<1>11. n \in T
  BY <1>10
<1>12. /\ after[n] \in S
       /\ NoFrame(after[n].mem) \/ Backed(after[n], first, n)
  BY <1>11 DEF T
<1>. QED BY <1>6, <1>12 DEF S

Segments == [first : Nat, last : Nat, w : BOOLEAN, x : BOOLEAN]

(* elf_map_segment: the pages of a segment. *)
LEMMA SegmentLoaded ==
  ASSUME NEW s, Sound(s), NEW seg \in Segments, seg.first <= seg.last, NEW bad
  PROVE  LET r == elf_map_segment(s, seg, bad) IN Sound(r) /\ r.pm.root = s.pm.root
<1>. DEFINE S == {x \in States : Sound(x) /\ x.pm.root = s.pm.root}
            n == SegmentPages(seg)
            Turn(i, x) == LoadPage(x, seg.first + i - 1, seg, seg.first + i - 1 = bad)
            F(g) == [i \in 0..n |-> IF i = 0 THEN s ELSE Turn(i, g[i - 1])]
            after == CHOOSE g : g = F(g)
            turn == [i \in 1..n |-> [x \in S |-> Turn(i, x)]]
<1>0. s \in S
  BY DEF Sound
<1>n. n \in Nat
  BY DEF SegmentPages, Segments
<1>1. ASSUME NEW i \in 1..n, NEW x \in S PROVE Turn(i, x) \in S
  <2>1. Sound(x) /\ x.pm.root = s.pm.root
    OBVIOUS
  <2>2. seg.first + i - 1 \in Int /\ seg.w \in BOOLEAN
    BY <1>n DEF Segments
  <2>3. Sound(Turn(i, x)) /\ Turn(i, x).pm.root = x.pm.root
    <3>. DEFINE short == seg.first + i - 1 = bad
                y == LoadPage(x, seg.first + i - 1, seg, short)
    <3>. HIDE DEF short
    <3>1. Sound(y) /\ y.pm.root = x.pm.root
      BY <2>1, <2>2, SegmentPageLoaded
    <3>. QED BY <3>1 DEF short
  <2>. HIDE DEF Turn
  <2>. QED BY <2>1, <2>3 DEF Sound
<1>6. elf_map_segment(s, seg, bad) = after[n]
  BY DEF elf_map_segment
<1>. HIDE DEF S, Turn, n
<1>2. turn \in [1..n -> [S -> S]]
  BY <1>1
<1>r. \E g : Runs(g, n, S, s, turn)
  <2>. HIDE DEF turn
  <2>. QED BY <1>0, <1>n, <1>2, LoopExists
<1>3. PICK g : g \in [0..n -> S] /\ g[0] = s /\ \A i \in 1..n : g[i] = turn[i][g[i - 1]]
  BY <1>r DEF Runs
<1>4. g = F(g)
  <2>1. ASSUME NEW i \in 1..n PROVE g[i] = Turn(i, g[i - 1])
    <3>1. g[i - 1] \in S
      BY <1>n, <1>3
    <3>. QED BY <1>3, <3>1
  <2>. QED BY <1>n, <1>3, <2>1
<1>5. after = F(after)
  BY <1>4, Zenon
<1>. HIDE DEF after
<1>7. after[0] = s /\ \A i \in 1..n : after[i] = Turn(i, after[i - 1])
  BY <1>n, <1>5
<1>. DEFINE T == {i \in 0..n : after[i] \in S}
<1>8. 0 \in T
  BY <1>0, <1>n, <1>7
<1>9. ASSUME NEW i \in 1..n, i - 1 \in T PROVE i \in T
  BY <1>1, <1>n, <1>7, <1>9
<1>. HIDE DEF T
<1>10. 0..n \subseteq T
  BY <1>n, <1>8, <1>9, TurnByTurn
<1>11. after[n] \in S
  BY <1>n, <1>10 DEF T
<1>. QED BY <1>6, <1>11 DEF S

(* elf_load: the segments of a program. *)
LEMMA ImageLoaded ==
  ASSUME NEW s, Sound(s), NEW image \in Images, NEW bad
  PROVE  LET r == elf_load(s, image, bad) IN Sound(r) /\ r.pm.root = s.pm.root
<1>. DEFINE S == {x \in States : Sound(x) /\ x.pm.root = s.pm.root}
            n == Len(image)
            Turn(i, x) == elf_map_segment(x, image[i], IF i = bad[1] THEN bad[2] ELSE NULL)
            F(g) == [i \in 0..n |-> IF i = 0 THEN s ELSE Turn(i, g[i - 1])]
            after == CHOOSE g : g = F(g)
            turn == [i \in 1..n |-> [x \in S |-> Turn(i, x)]]
<1>0. s \in S
  BY DEF Sound
<1>n. n \in Nat /\ \A i \in 1..n : image[i] \in Segments /\ image[i].first <= image[i].last
  <2>1. image \in Seq(Segments) /\ \A i \in 1..Len(image) : image[i].first <= image[i].last
    BY UserMemAssumption DEF Segments
  <2>2. Len(image) \in Nat /\ image \in [1..Len(image) -> Segments]
    BY <2>1, LenProperties
  <2>. QED BY <2>1, <2>2
<1>1. ASSUME NEW i \in 1..n, NEW x \in S PROVE Turn(i, x) \in S
  <2>1. Sound(x) /\ x.pm.root = s.pm.root
    OBVIOUS
  <2>2. image[i] \in Segments /\ image[i].first <= image[i].last
    BY <1>n
  <2>3. Sound(Turn(i, x)) /\ Turn(i, x).pm.root = x.pm.root
    BY <2>1, <2>2, SegmentLoaded
  <2>. HIDE DEF Turn
  <2>. QED BY <2>1, <2>3 DEF Sound
<1>6. elf_load(s, image, bad) = after[n]
  BY DEF elf_load
<1>. HIDE DEF S, Turn, n
<1>2. turn \in [1..n -> [S -> S]]
  BY <1>1
<1>r. \E g : Runs(g, n, S, s, turn)
  <2>. HIDE DEF turn
  <2>. QED BY <1>0, <1>n, <1>2, LoopExists
<1>3. PICK g : g \in [0..n -> S] /\ g[0] = s /\ \A i \in 1..n : g[i] = turn[i][g[i - 1]]
  BY <1>r DEF Runs
<1>4. g = F(g)
  <2>1. ASSUME NEW i \in 1..n PROVE g[i] = Turn(i, g[i - 1])
    <3>1. g[i - 1] \in S
      BY <1>n, <1>3
    <3>. QED BY <1>3, <3>1
  <2>. QED BY <1>n, <1>3, <2>1
<1>5. after = F(after)
  BY <1>4, Zenon
<1>. HIDE DEF after
<1>7. after[0] = s /\ \A i \in 1..n : after[i] = Turn(i, after[i - 1])
  BY <1>n, <1>5
<1>. DEFINE T == {i \in 0..n : after[i] \in S}
<1>8. 0 \in T
  BY <1>0, <1>n, <1>7
<1>9. ASSUME NEW i \in 1..n, i - 1 \in T PROVE i \in T
  BY <1>1, <1>n, <1>7, <1>9
<1>. HIDE DEF T
<1>10. 0..n \subseteq T
  BY <1>n, <1>8, <1>9, TurnByTurn
<1>11. after[n] \in S
  BY <1>n, <1>10 DEF T
<1>. QED BY <1>6, <1>11 DEF S

LEMMA HighestPageIsNat ==
  ASSUME NEW image \in Images
  PROVE  HighestPage(image) \in Nat
<1>. DEFINE n == Len(image)
            M(k) == {0} \cup {image[i].last + 1 : i \in 1..k}
            T == {k \in 0..n : \E x \in M(k) : \A y \in M(k) : x >= y}
<1>1. n \in Nat /\ \A i \in 1..n : image[i].last + 1 \in Nat
  <2>1. image \in Seq(Segments)
    BY UserMemAssumption DEF Segments
  <2>2. Len(image) \in Nat /\ image \in [1..Len(image) -> Segments]
    BY <2>1, LenProperties
  <2>. QED BY <2>2 DEF Segments
<1>. HIDE DEF n
<1>2. 0 \in T
  <2>1. M(0) = {0} /\ 0 \in 0..n
    BY <1>1
  <2>. QED BY <2>1
<1>3. ASSUME NEW k \in 1..n, k - 1 \in T PROVE k \in T
  <2>. DEFINE l == image[k].last + 1
  <2>1. PICK x \in M(k - 1) : \A y \in M(k - 1) : x >= y
    BY <1>3
  <2>2. M(k) = M(k - 1) \cup {l}
    BY <1>1
  <2>3. l \in Nat /\ M(k - 1) \subseteq Nat /\ x \in Nat /\ k \in 0..n
    BY <1>1
  <2>. HIDE DEF M, l
  <2>4. \E z \in M(k) : \A y \in M(k) : z >= y
    <3>1. CASE l >= x
      <4>1. \A y \in M(k) : l >= y
        BY <2>1, <2>2, <2>3, <3>1
      <4>. QED BY <2>2, <4>1
    <3>2. CASE ~(l >= x)
      <4>1. \A y \in M(k) : x >= y
        BY <2>1, <2>2, <2>3, <3>2
      <4>. QED BY <2>2, <4>1
    <3>. QED BY <3>1, <3>2
  <2>. QED BY <2>3, <2>4
<1>. HIDE DEF T
<1>4. n \in T
  <2>1. 0..n \subseteq T
    BY <1>1, <1>2, <1>3, TurnByTurn
  <2>. QED BY <1>1, <2>1
<1>5. \E x \in M(n) : \A y \in M(n) : x >= y
  BY <1>4 DEF T
<1>6. M(n) \subseteq Nat
  BY <1>1
<1>7. HighestPage(image) = Max(M(n))
  BY DEF HighestPage, n
<1>. HIDE DEF M
<1>8. Max(M(n)) \in M(n)
  BY <1>5 DEF Max
<1>. QED BY <1>6, <1>7, <1>8

LEMMA EmptyMaps ==
  ASSUME NEW r \in Pages \cup {NULL}
  PROVE  LET p == [NoMap EXCEPT !.root = r]
         IN p \in Maps /\ p.root = r /\ Distinct(p) /\ Held(p) \subseteq {r} \ {NULL}
<1>1. \A R : << >> \in Partial(R) /\ DOMAIN << >> = {}
  <2>. SUFFICES ASSUME NEW R PROVE << >> \in Partial(R) /\ DOMAIN << >> = {}
    OBVIOUS
  <2>1. << >> \in Seq(R) /\ Len(<< >>) = 0
    BY EmptySeq
  <2>2. << >> \in [1..0 -> R] /\ DOMAIN << >> = 1..0
    BY <2>1, LenProperties
  <2>3. 1..0 \in SUBSET Int /\ 1..0 = {}
    OBVIOUS
  <2>. QED BY <2>2, <2>3 DEF Partial
<1>. DEFINE p == [NoMap EXCEPT !.root = r]
<1>2. p = [root |-> r, tables |-> << >>, pt |-> << >>]
  BY DEF NoMap
<1>3. p \in Maps
  BY <1>1, <1>2 DEF Maps
<1>4. p.root = r /\ DOMAIN p.tables = {} /\ DOMAIN p.pt = {}
  BY <1>1, <1>2
<1>. HIDE DEF p
<1>5. Leaves(p) = {} /\ Tables(p) = {}
  BY <1>4 DEF Leaves, Tables
<1>. QED BY <1>3, <1>4, <1>5 DEF Distinct, Held, p

-----------------------------------------------------------------------------
(* The inductive invariant. *)
UserMemInv ==
  /\ mem \in Mems /\ pm \in Maps /\ kernel \in Partial(Pages)
  /\ intact => Owned(mem, pm)
  /\ brk \in Nat /\ mmapBase \in Nat
  /\ phase # "none" => pm.root # NULL

LEMMA UserMemInvInit == Init => UserMemInv
<1>. SUFFICES ASSUME Init PROVE UserMemInv
  OBVIOUS
<1>1. [NoMap EXCEPT !.root = NULL] = NoMap
  BY DEF NoMap
<1>2. NoMap \in Maps /\ Distinct(NoMap) /\ Held(NoMap) = {}
  BY <1>1, EmptyMaps
<1>3. KernelMap \in Partial(Pages)
  <2>. DEFINE D == DOMAIN KernelMap
  <2>1. KernelMap \in [D -> Pages] /\ D \in SUBSET Int
    BY UserMemAssumption
  <2>. HIDE DEF D
  <2>. QED BY <2>1 DEF Partial
<1>. QED BY <1>2, <1>3, PmmInitTyped DEF UserMemInv, Init, Owned

LEMMA RestTyped ==
  ASSUME NEW R, NEW f \in Partial(R), NEW S
  PROVE  /\ Without(f, S) \in Partial(R) /\ DOMAIN Without(f, S) = DOMAIN f \ S
         /\ \A x \in DOMAIN f \ S : Without(f, S)[x] = f[x]
<1>1. PICK D \in SUBSET Int : f \in [D -> R]
  BY DEF Partial
<1>2. Without(f, S) \in [D \ S -> R] /\ D \ S \in SUBSET Int
  BY <1>1 DEF Without
<1>. QED BY <1>2 DEF Partial, Without

(* munmap gives the frames of its range back, and no others of the task's; *)
(* where it reaches no page of the kernel, only frames of the task's.      *)
LEMMA RangeUnmapped ==
  ASSUME NEW s, Sound(s), NEW R
  PROVE  LET n == vmm_unmap_range(s, R)
         IN /\ n \in States /\ n.pm.root = s.pm.root
            /\ intact /\ R \cap DOMAIN s.kernel = {} => Owned(n.mem, n.pm)
<1>. DEFINE freed == FramesIn(s, R)
            m == pmm_free_pages(s.mem, freed)
            P == Without(s.pm.pt, R)
            K == Without(s.kernel, R)
            p == [s.pm EXCEPT !.pt = P]
            n == vmm_unmap_range(s, R)
<1>0. /\ s \in States /\ s.mem \in Mems /\ s.pm \in Maps /\ (intact => Owned(s.mem, s.pm))
      /\ s.pm.pt \in Partial(Entries) /\ s.kernel \in Partial(Pages)
  BY DEF Sound, States, Maps
<1>1. m \in Mems /\ m.bitmap = s.mem.bitmap \ freed
  BY <1>0, PagesFreed
<1>2. /\ P \in Partial(Entries) /\ DOMAIN P = DOMAIN s.pm.pt \ R
      /\ \A v \in DOMAIN P : P[v] = s.pm.pt[v]
  <2>. DEFINE a == s.pm.pt
  <2>1. a \in Partial(Entries)
    BY <1>0
  <2>. HIDE DEF a
  <2>2. /\ Without(a, R) \in Partial(Entries) /\ DOMAIN Without(a, R) = DOMAIN a \ R
        /\ \A v \in DOMAIN a \ R : Without(a, R)[v] = a[v]
    BY <2>1, RestTyped
  <2>. QED BY <2>2 DEF a
<1>k. K \in Partial(Pages)
  <2>. DEFINE a == s.kernel
  <2>1. a \in Partial(Pages)
    BY <1>0
  <2>. HIDE DEF a
  <2>2. Without(a, R) \in Partial(Pages)
    BY <2>1, RestTyped
  <2>. QED BY <2>2 DEF a
<1>3. n = [s EXCEPT !.mem = m, !.pm = p, !.kernel = K]
  BY <1>0 DEF vmm_unmap_range, States, Maps
<1>. HIDE DEF m, P, K, n
<1>4. p \in Maps /\ p.root = s.pm.root /\ p.tables = s.pm.tables /\ p.pt = P
  BY <1>0, <1>2 DEF Maps
<1>. HIDE DEF p
<1>5. n \in States /\ n.mem = m /\ n.pm = p
  BY <1>0, <1>1, <1>3, <1>4, <1>k DEF States
<1>6. ASSUME intact, R \cap DOMAIN s.kernel = {} PROVE Owned(m, p)
  <2>0. Owned(s.mem, s.pm) /\ freed = {s.pm.pt[v].frame : v \in R \cap DOMAIN s.pm.pt}
    BY <1>0, <1>6 DEF FramesIn
  <2>1. Leaves(p) \subseteq Leaves(s.pm) /\ Tables(p) = Tables(s.pm)
    BY <1>2, <1>4 DEF Leaves, Tables
  <2>2. Distinct(p)
    BY <1>2, <1>4, <2>0, <2>1 DEF Owned, Distinct
  <2>. HIDE DEF freed
  <2>3. freed \subseteq Leaves(s.pm)
    BY <2>0 DEF Leaves
  <2>4. Leaves(p) \cap freed = {}
    BY <1>2, <1>4, <2>0 DEF Owned, Distinct, Leaves
  <2>5. Held(p) \subseteq Held(s.pm) \ freed
    BY <1>4, <2>0, <2>1, <2>3, <2>4 DEF Held, Owned, Distinct
  <2>. QED BY <1>1, <2>0, <2>2, <2>3, <2>5 DEF Owned, Held
<1>. QED BY <1>4, <1>5, <1>6 DEF n

(* mprotect moves no frame. *)
LEMMA RangeProtected ==
  ASSUME NEW m, NEW p \in Maps, NEW R, NEW f \in Protections
  PROVE  LET q == vmm_protect(p, R, f)
         IN q \in Maps /\ (Owned(m, p) => Owned(m, q)) /\ q.root = p.root
<1>. DEFINE Hit(v) == v \in R /\ \A u \in R : u <= v => u \in DOMAIN p.pt
            P == [v \in DOMAIN p.pt |-> IF Hit(v) THEN Entry(p.pt[v].frame, f.w, f.nx) ELSE p.pt[v]]
            q == vmm_protect(p, R, f)
<1>0. f.w \in BOOLEAN /\ f.nx \in BOOLEAN
  BY UserMemAssumption
<1>1. q = [p EXCEPT !.pt = P]
  BY DEF vmm_protect
<1>. HIDE DEF Hit
<1>2. PICK D \in SUBSET Int : p.pt \in [D -> Entries]
  BY DEF Maps, Partial
<1>3. ASSUME NEW v \in D
      PROVE  /\ (IF Hit(v) THEN Entry(p.pt[v].frame, f.w, f.nx) ELSE p.pt[v]) \in Entries
             /\ (IF Hit(v) THEN Entry(p.pt[v].frame, f.w, f.nx) ELSE p.pt[v]).frame = p.pt[v].frame
  <2>1. p.pt[v] \in Entries
    BY <1>2
  <2>2. /\ Entry(p.pt[v].frame, f.w, f.nx) \in Entries
        /\ Entry(p.pt[v].frame, f.w, f.nx).frame = p.pt[v].frame
    BY <1>0, <2>1 DEF Entries, Entry
  <2>. QED BY <2>1, <2>2
<1>4. P \in [D -> Entries] /\ \A v \in D : P[v].frame = p.pt[v].frame
  BY <1>2, <1>3
<1>. HIDE DEF P, q
<1>5. P \in Partial(Entries)
  BY <1>4 DEF Partial
<1>6. q \in Maps /\ q.root = p.root /\ q.tables = p.tables /\ q.pt = P
  BY <1>1, <1>5 DEF Maps
<1>7. Leaves(q) = Leaves(p) /\ Tables(q) = Tables(p)
  BY <1>2, <1>4, <1>6 DEF Leaves, Tables
<1>8. ASSUME Owned(m, p) PROVE Distinct(q)
  <2>1. \A u, v \in DOMAIN q.pt : u # v => q.pt[u].frame # q.pt[v].frame
    BY <1>2, <1>4, <1>6, <1>8 DEF Owned, Distinct
  <2>. QED BY <1>6, <1>7, <1>8, <2>1 DEF Owned, Distinct
<1>9. Held(q) = Held(p)
  BY <1>6, <1>7 DEF Held
<1>. QED BY <1>6, <1>8, <1>9 DEF Owned, q

(* The end of a task: what is freed was its own, or is no page at all. *)
LEMMA PagemapDestroyed ==
  ASSUME NEW m \in Mems, NEW p \in Maps, p.root # NULL
  PROVE  LET n == vmm_destroy_pagemap(m, p)
         IN n \in Mems /\ (Owned(m, p) => pmm_init.bitmap \subseteq n.bitmap)
<1>. DEFINE leaves == {FreedPage(p.pt[v]) : v \in DOMAIN p.pt}
            freed == leaves \cup Tables(p) \cup {p.root}
            n == pmm_free_pages(m, freed)
<1>1. n \in Mems /\ n.bitmap = m.bitmap \ freed
  BY PagesFreed
<1>2. vmm_destroy_pagemap(m, p) = n
  BY DEF vmm_destroy_pagemap, Tables
<1>. HIDE DEF n
<1>3. ASSUME Owned(m, p), NEW v \in DOMAIN p.pt PROVE FreedPage(p.pt[v]) \notin pmm_init.bitmap
  <2>1. p.pt[v] \in Entries
    BY PartialTyped DEF Maps
  <2>2. p.pt[v].frame \in Pages /\ p.pt[v].frame \notin pmm_init.bitmap
    BY <1>3, <2>1 DEF Entries, Owned, Held, Leaves
  <2>3. pmm_init.bitmap \subseteq Pages
    BY PmmInitTyped DEF Mems
  <2>4. p.pt[v].frame + NxPages \notin Pages
    <3>1. \A x \in Pages : x + NxPages \notin Pages
      <4>1. NxPages \in Nat /\ NxPages >= TotalPages /\ TotalPages \in Nat
        BY UserMemAssumption, PmmAssumption
      <4>. QED BY <4>1 DEF Pages
    <3>. QED BY <2>2, <3>1
  <2>. QED BY <2>2, <2>3, <2>4 DEF FreedPage
<1>4. Tables(p) \cup {p.root} \subseteq Held(p)
  BY DEF Held
<1>5. Owned(m, p) => freed \cap pmm_init.bitmap = {}
  BY <1>3, <1>4 DEF Owned
<1>. QED BY <1>1, <1>2, <1>5 DEF Owned

LEMMA NowIsSound ==
  ASSUME UserMemInv
  PROVE  /\ Sound(Now) /\ Now.ok /\ ~Now.oom
         /\ Now.pm = pm /\ Now.mem = mem /\ Now.kernel = kernel
BY DEF UserMemInv, Sound, Now, States

(* BrkIsBacked, of one step. *)
BrkStep ==
  phase = "user" /\ phase' = "user" /\ brk' > brk =>
    \/ FirstFreeRun(mem', 1) = NULL
    \/ brk' + PageSize - 1 >= Word
    \/ \A v \in FirstPageAbove(brk)..(FirstPageAbove(brk') - 1) :
         IF v >= KernelStart THEN v \in DOMAIN kernel'
         ELSE v \in DOMAIN pm'.pt /\ pm'.pt[v].w

(* A break whose rounding does not wrap is rounded up. *)
LEMMA BreakRounded ==
  ASSUME NEW a \in Nat
  PROVE  /\ PageEnd(a) \in Int
         /\ a + PageSize - 1 < Word => PageEnd(a) = FirstPageAbove(a)
<1>1. PageSize \in Nat \ {0} /\ Word \in Nat \ {0}
  BY UserMemAssumption DEF Word
<1>. HIDE DEF Word
<1>2. a + PageSize - 1 \in Nat
  BY <1>1
<1>3. (a + PageSize - 1) % Word \in Nat
  BY <1>1, <1>2
<1>4. a + PageSize - 1 < Word => (a + PageSize - 1) % Word = a + PageSize - 1
  BY <1>1, <1>2
<1>. QED BY <1>1, <1>3, <1>4 DEF PageEnd, FirstPageAbove

LEMMA UserMemStep ==
  ASSUME UserMemInv, [Next]_vars
  PROVE  UserMemInv' /\ BrkStep
<1>. DEFINE Goal == UserMemInv' /\ BrkStep
<1>0. /\ mem \in Mems /\ pm \in Maps /\ kernel \in Partial(Pages)
      /\ intact => Owned(mem, pm)
      /\ brk \in Nat /\ mmapBase \in Nat
      /\ phase # "none" => pm.root # NULL
  BY DEF UserMemInv
<1>s. /\ Sound(Now) /\ Now.ok /\ ~Now.oom
      /\ Now.pm = pm /\ Now.mem = mem /\ Now.kernel = kernel
  BY NowIsSound
<1>b. ASSUME brk' = brk PROVE BrkStep
  BY <1>0, <1>b DEF BrkStep
<1>a. ASSUME NEW s, Sound(s), s.pm.root = pm.root, Becomes(s), phase # "none",
             intact' = intact, brk' \in Nat, mmapBase' \in Nat
      PROVE  UserMemInv'
  BY <1>0, <1>a DEF Becomes, Sound, States, UserMemInv
<1>1. CASE task_create_user
  <2>. DEFINE f == FirstFreeRun(mem, 1)
              m == pmm_alloc_pages_contiguous(mem, 1)
              p == [NoMap EXCEPT !.root = f]
  <2>1. f # NULL /\ pm' = p /\ mem' = m /\ UNCHANGED <<kernel, intact, brk, mmapBase>>
    BY <1>1 DEF task_create_user
  <2>2. ~NoFrame(mem)
    BY <2>1, FirstFreeFrame
  <2>3. f \in Pages \ mem.bitmap
    BY <2>2, FirstFreeFrame
  <2>4. m \in Mems /\ m.bitmap = mem.bitmap \cup {f}
    BY <1>0, <2>2, FrameTaken
  <2>5. p \in Maps /\ p.root = f /\ Distinct(p) /\ Held(p) \subseteq {f}
    BY <2>3, EmptyMaps
  <2>. HIDE DEF f, m, p
  <2>6. intact => Owned(m, p)
    BY <1>0, <2>3, <2>4, <2>5 DEF Owned
  <2>7. UserMemInv'
    BY <1>0, <2>1, <2>4, <2>5, <2>6 DEF UserMemInv
  <2>. QED BY <1>b, <2>1, <2>7
<1>2. ASSUME NEW image \in Images, NEW bad, NEW base \in MmapStarts, exec_run(image, bad, base)
      PROVE  Goal
  <2>. DEFINE loaded == elf_load(Now, image, bad)
              stacked == MapFresh(loaded, StackPage, TRUE, TRUE)
  <2>0. phase = "created" /\ intact' = intact
    BY <1>2 DEF exec_run
  <2>1. Sound(loaded) /\ loaded.pm.root = pm.root
    BY <1>s, ImageLoaded
  <2>2. CASE ~loaded.ok
    <3>1. Becomes(loaded) /\ UNCHANGED <<brk, mmapBase>>
      BY <1>2, <2>2 DEF exec_run
    <3>. HIDE DEF loaded
    <3>. QED BY <1>0, <1>a, <1>b, <2>0, <2>1, <3>1
  <2>3. CASE loaded.ok
    <3>1. /\ Becomes(stacked)
          /\ brk' = brk \/ brk' = HighestPage(image) * PageSize
          /\ mmapBase' = mmapBase \/ mmapBase' = base
      BY <1>2, <2>3 DEF exec_run
    <3>. HIDE DEF loaded
    <3>2. Sound(stacked) /\ stacked.pm.root = loaded.pm.root
      <4>1. StackPage \in Int
        BY UserMemAssumption
      <4>. QED BY <2>1, <2>3, <4>1, FreshMapped
    <3>. HIDE DEF stacked
    <3>3. brk' \in Nat
      <4>1. HighestPage(image) \in Nat /\ PageSize \in Nat
        BY HighestPageIsNat, UserMemAssumption
      <4>. QED BY <1>0, <3>1, <4>1
    <3>4. mmapBase' \in Nat
      BY <1>0, <3>1, UserMemAssumption
    <3>5. UserMemInv'
      BY <1>a, <2>0, <2>1, <3>1, <3>2, <3>3, <3>4
    <3>. QED BY <2>0, <3>5 DEF BrkStep
  <2>4. loaded.ok \in BOOLEAN
    BY <2>1 DEF Sound, States
  <2>. QED BY <2>2, <2>3
<1>3. ASSUME NEW addr \in Breaks, sys_brk(addr)
      PROVE  Goal
  <2>. DEFINE from == PageEnd(brk)
              n == PageEnd(addr) - from
              s == IF n > 0 THEN MapFreshRange(Now, from, n) ELSE Now
  <2>1. phase = "user" /\ Becomes(s) /\ brk' = addr /\ UNCHANGED <<intact, mmapBase, phase>>
    BY <1>3 DEF sys_brk
  <2>2. addr \in Nat
    BY UserMemAssumption
  <2>3. from \in Int /\ n \in Int /\ PageEnd(addr) = from + n
    BY <1>0, <2>2, BreakRounded
  <2>. HIDE DEF from, n
  <2>4. /\ Sound(s) /\ s.pm.root = pm.root
        /\ n > 0 => NoFrame(s.mem) \/ Backed(s, from, n)
    <3>1. CASE n > 0
      <4>1. n \in Nat
        BY <2>3, <3>1
      <4>2. LET r == MapFreshRange(Now, from, n)
            IN /\ Sound(r) /\ r.pm.root = Now.pm.root
               /\ NoFrame(r.mem) \/ Backed(r, from, n)
        BY <1>s, <2>3, <4>1, RangeMapped
      <4>. QED BY <1>s, <3>1, <4>2
    <3>2. CASE ~(n > 0)
      BY <1>s, <3>2
    <3>. QED BY <3>1, <3>2
  <2>. HIDE DEF s
  <2>5. UserMemInv'
    BY <1>0, <1>a, <2>1, <2>2, <2>4
  <2>6. ASSUME brk' > brk, brk' + PageSize - 1 < Word PROVE BrkStep
    <3>0. brk + PageSize - 1 < Word
      <4>1. PageSize \in Int /\ Word \in Int
        BY UserMemAssumption DEF Word
      <4>. QED BY <1>0, <2>1, <2>2, <2>6, <4>1
    <3>1. FirstPageAbove(brk)..(FirstPageAbove(brk') - 1) = from..(from + n - 1)
      BY <1>0, <2>1, <2>2, <2>3, <2>6, <3>0, BreakRounded DEF from
    <3>2. CASE n > 0
      BY <2>1, <2>4, <3>1, <3>2, FirstFreeFrame DEF BrkStep, Becomes, Backed, PageBacked
    <3>3. CASE ~(n > 0)
      <4>1. from..(from + n - 1) = {}
        BY <2>3, <3>3
      <4>. QED BY <3>1, <4>1 DEF BrkStep
    <3>. QED BY <3>2, <3>3
  <2>7. brk' + PageSize - 1 < Word \/ brk' + PageSize - 1 >= Word
    <3>1. PageSize \in Int /\ Word \in Int
      BY UserMemAssumption DEF Word
    <3>. QED BY <2>1, <2>2, <3>1
  <2>8. BrkStep
    BY <2>6, <2>7 DEF BrkStep
  <2>. QED BY <2>5, <2>8
<1>4. ASSUME NEW n \in Lengths, sys_mmap(n) PROVE Goal
  <2>. DEFINE s == MapFreshRange(Now, mmapBase, n)
  <2>0. n \in Nat /\ mmapBase \in Int
    BY <1>0, UserMemAssumption
  <2>1. Sound(s) /\ s.pm.root = pm.root
    BY <1>s, <2>0, RangeMapped
  <2>2. /\ phase = "user" /\ Becomes(s) /\ UNCHANGED <<intact, brk, phase>>
        /\ mmapBase' = mmapBase \/ mmapBase' = (mmapBase + n) % AddressPages
    BY <1>4 DEF sys_mmap
  <2>. HIDE DEF s
  <2>3. mmapBase' \in Nat
    <3>1. mmapBase + n \in Int /\ AddressPages \in Nat \ {0}
      BY <1>0, <2>0, UserMemAssumption
    <3>2. (mmapBase + n) % AddressPages \in Nat
      BY <3>1
    <3>. QED BY <1>0, <2>2, <3>2
  <2>. QED BY <1>0, <1>a, <1>b, <2>1, <2>2, <2>3
<1>5. ASSUME NEW v \in VPages, NEW n \in 1..MaxLen, sys_munmap(v, n) PROVE Goal
  <2>. DEFINE R == PagesFrom(v, n)
              s == vmm_unmap_range(Now, R)
  <2>1. /\ s \in States /\ s.pm.root = pm.root
        /\ intact /\ R \cap DOMAIN kernel = {} => Owned(s.mem, s.pm)
    BY <1>s, RangeUnmapped
  <2>2. /\ phase = "user" /\ Becomes(s) /\ UNCHANGED <<brk, mmapBase, phase>>
        /\ intact' = (intact /\ R \cap DOMAIN kernel = {})
    BY <1>5 DEF sys_munmap
  <2>. HIDE DEF s, R
  <2>3. UserMemInv'
    BY <1>0, <2>1, <2>2 DEF Becomes, States, UserMemInv
  <2>. QED BY <1>b, <2>2, <2>3
<1>6. ASSUME NEW v \in VPages, NEW n \in 1..MaxLen, NEW f \in Protections, sys_mprotect(v, n, f)
      PROVE  Goal
  <2>. DEFINE p == vmm_protect(pm, v..(v + n - 1), f)
  <2>1. p \in Maps /\ (Owned(mem, pm) => Owned(mem, p)) /\ p.root = pm.root
    BY <1>0, RangeProtected
  <2>2. pm' = p /\ UNCHANGED <<mem, kernel, intact, brk, mmapBase, phase>>
    BY <1>6 DEF sys_mprotect
  <2>. HIDE DEF p
  <2>. QED BY <1>0, <1>b, <2>1, <2>2 DEF UserMemInv
<1>7. CASE task_exit
  BY <1>0, <1>b, <1>7 DEF task_exit, UserMemInv
<1>8. CASE task_destroy
  <2>. DEFINE m == vmm_destroy_pagemap(mem, pm)
  <2>1. /\ phase = "dead" /\ mem' = m /\ pm' = NoMap /\ brk' = 0 /\ mmapBase' = 0 /\ phase' = "none"
        /\ UNCHANGED <<kernel, intact>>
    BY <1>8 DEF task_destroy
  <2>2. m \in Mems /\ (intact => pmm_init.bitmap \subseteq m.bitmap)
    BY <1>0, <2>1, PagemapDestroyed
  <2>. HIDE DEF m
  <2>3. [NoMap EXCEPT !.root = NULL] = NoMap
    BY DEF NoMap
  <2>4. NoMap \in Maps /\ Distinct(NoMap) /\ Held(NoMap) = {}
    BY <2>3, EmptyMaps
  <2>5. UserMemInv'
    BY <1>0, <2>1, <2>2, <2>4 DEF UserMemInv, Owned
  <2>. QED BY <2>1, <2>5 DEF BrkStep
<1>9. CASE UNCHANGED vars
  BY <1>0, <1>b, <1>9 DEF vars, UserMemInv
<1>10. CASE Next
  BY <1>1, <1>2, <1>3, <1>4, <1>5, <1>6, <1>7, <1>8, <1>10 DEF Next
<1>. QED BY <1>9, <1>10

LEMMA UserMemInvAlways == Spec => []UserMemInv
<1>1. UserMemInv /\ [Next]_vars => UserMemInv'
  BY UserMemStep
<1>. QED BY <1>1, UserMemInvInit, PTL DEF Spec

-----------------------------------------------------------------------------
(* No frame has two uses and none in use is free: through every mix of     *)
(* brk, mmap, mprotect, munmap, failed loads and exhausted memory, for     *)
(* every number of frames and every program, until a munmap reaches a page *)
(* of the kernel's half, which SYS_MUNMAP does not refuse.                 *)
THEOREM FramesHaveOneOwner == Spec => []FrameOwnership
<1>1. UserMemInv => FrameOwnership
  <2>. SUFFICES ASSUME UserMemInv, intact PROVE FrameOwnership
    BY DEF FrameOwnership
  <2>1. LeafFrames = Leaves(pm) /\ TableFrames = Tables(pm)
    BY DEF LeafFrames, TableFrames, Leaves, Tables
  <2>2. Distinct(pm) /\ Held(pm) \subseteq mem.bitmap \ pmm_init.bitmap
    BY DEF UserMemInv, Owned
  <2>3. phase # "none" => Leaves(pm) \cup Tables(pm) \cup {pm.root} \subseteq Held(pm)
    BY DEF UserMemInv, Held
  <2>. QED BY <2>1, <2>2, <2>3 DEF FrameOwnership, Distinct
<1>. QED BY <1>1, UserMemInvAlways, PTL

(* brk backs every page up to the break it grants, unless no frame is left *)
(* or rounding the new break up wraps: the loop of SYS_BRK skips no page,  *)
(* wherever in their pages the old and the new break are.                  *)
THEOREM GrantedBreakIsBacked == Spec => BrkIsBacked
<1>1. UserMemInv /\ [Next]_vars => [BrkStep]_vars
  BY UserMemStep
<1>. QED BY <1>1, UserMemInvAlways, PTL DEF Spec, BrkIsBacked, BrkStep

(* vmm_protect never stops half-way behind vmm_check_user_range: mprotect  *)
(* changes its whole range.                                                *)
THEOREM MprotectIsWhole == Spec => MprotectAllOrNothing
<1>1. ASSUME UserMemInv, NEW v \in VPages, NEW n \in 1..MaxLen, NEW f \in Protections,
             sys_mprotect(v, n, f), NEW u \in v..(v + n - 1)
      PROVE  u \in DOMAIN pm'.pt /\ pm'.pt[u].w = f.w /\ pm'.pt[u].nx = f.nx
  <2>. DEFINE R == v..(v + n - 1)
              P == [z \in DOMAIN pm.pt |-> IF z \in R /\ \A y \in R : y <= z => y \in DOMAIN pm.pt
                                           THEN Entry(pm.pt[z].frame, f.w, f.nx) ELSE pm.pt[z]]
  <2>1. R \subseteq DOMAIN pm.pt /\ pm' = [pm EXCEPT !.pt = P]
    BY <1>1 DEF sys_mprotect, vmm_check_user_range, vmm_protect
  <2>2. P[u] = Entry(pm.pt[u].frame, f.w, f.nx) /\ u \in DOMAIN P
    BY <2>1
  <2>. HIDE DEF P
  <2>3. pm'.pt = P
    BY <1>1, <2>1 DEF UserMemInv, Maps
  <2>. QED BY <2>2, <2>3 DEF Entry
<1>2. UserMemInv =>
        [\A v \in VPages, n \in 1..MaxLen, f \in Protections :
           sys_mprotect(v, n, f) =>
             \A u \in v..(v + n - 1) :
               u \in DOMAIN pm'.pt /\ pm'.pt[u].w = f.w /\ pm'.pt[u].nx = f.nx]_vars
  BY <1>1
<1>. QED BY <1>2, UserMemInvAlways, PTL DEF MprotectAllOrNothing
=============================================================================
