-------------------------------- MODULE Heap --------------------------------
(***************************************************************************)
(* The kernel heap (mm/heap.c) on top of the page allocator, for callers   *)
(* that are not preempted inside a call: the shell, the idle task and the  *)
(* other tasks whose name begins with '['.  (HeapRace has the others.)     *)
(*                                                                         *)
(* Addresses and sizes are in units of 16 bytes, the rounding of kmalloc.  *)
(* The doubly linked list of blocks, used and free ones in the order of    *)
(* their next pointers, is the sequence list; the code calls its head      *)
(* free_list.                                                              *)
(***************************************************************************)
EXTENDS Pmm, Sequences, FiniteSetsExt

CONSTANTS
  PageUnits,    \* PAGE_SIZE / 16
  Header,       \* sizeof(block_t) / 16
  MaxGroups,    \* HEAP_MAX_GROUPS
  Sizes,        \* the request sizes in use, rounded up to units
  StackPages,   \* TASK_STACK_PAGES: the other user of the page allocator
  MaxStacks     \* bound: how many task stacks exist at a time

ASSUME HeapAssumption ==
  /\ Header \in Nat \ {0} /\ PageUnits \in Nat /\ PageUnits > Header
  /\ MaxGroups \in Nat \ {0} /\ StackPages \in Nat \ {0} /\ MaxStacks \in Nat
  /\ Sizes \subseteq Nat

VARIABLES
  heap,    \* the record below
  ptrs,    \* the callers' live pointers: block address -> units asked for
  stacks   \* the first pages of the task stacks in use

vars == <<heap, ptrs, stacks>>

NoGroup == [page |-> NULL, npages |-> 0]

Block(a, s, u) == [addr |-> a, size |-> s, used |-> u]
EndOf(b)       == b.addr + Header + b.size
UnitsOf(b)     == b.addr..(EndOf(b) - 1)
Payload(b)     == (b.addr + Header)..(EndOf(b) - 1)
PagesUnits(P)  == UNION {(p * PageUnits)..((p + 1) * PageUnits - 1) : p \in P}

(* The blocks lo..hi of the list are unlinked and those of mid put there.  *)
Relink(l, lo, hi, mid) == SubSeq(l, 1, lo - 1) \o mid \o SubSeq(l, hi + 1, Len(l))

-----------------------------------------------------------------------------
(* heap_addr_adjacent, heap_coalesce: the longest runs of free neighbours  *)
(* of block k, in list order and in address order, become one block.       *)

heap_addr_adjacent_Never(a, b) == FALSE  \* mutant

heap_addr_adjacent(a, b) == EndOf(a) = b.addr

CoalesceEnd(l, k) ==
  Max({j \in k..Len(l) : \A i \in k..(j - 1) :
                           ~l[i + 1].used /\ heap_addr_adjacent(l[i], l[i + 1])})

CoalesceStart_TakesUsed(l, k) ==  \* mutant: the predecessor need not be free
  Min({j \in 1..k : \A i \in j..(k - 1) : heap_addr_adjacent(l[i], l[i + 1])})

CoalesceStart(l, k) ==
  Min({j \in 1..k : \A i \in j..(k - 1) :
                      ~l[i].used /\ heap_addr_adjacent(l[i], l[i + 1])})

heap_coalesce(l, k) ==
  LET lo == CoalesceStart(l, k)
      hi == CoalesceEnd(l, k)
  IN Relink(l, lo, hi, <<Block(l[lo].addr, EndOf(l[hi]) - l[lo].addr - Header, FALSE)>>)

(* heap_register_group: a full table silently forgets the group. *)
FreeSlots(g) == {i \in 1..MaxGroups : g[i] = NoGroup}

heap_register_group(g, page, n) ==
  IF FreeSlots(g) = {} THEN g
  ELSE [g EXCEPT ![Min(FreeSlots(g))] = [page |-> page, npages |-> n]]

(* heap_try_reclaim: give the pages back when block k is exactly a union   *)
(* of groups.                                                              *)
Inside(g, b) == /\ g # NoGroup
                /\ g.page * PageUnits >= b.addr
                /\ (g.page + g.npages) * PageUnits <= EndOf(b)

Covered(h, b) == {i \in 1..MaxGroups : Inside(h.groups[i], b)}

CoveredPages(h, b) ==
  LET covered[i \in 0..MaxGroups] ==
        IF i = 0 THEN 0
        ELSE covered[i - 1] + (IF i \in Covered(h, b) THEN h.groups[i].npages ELSE 0)
  IN covered[MaxGroups]

Reclaimable_AnyGroup(h, b) == Covered(h, b) # {}  \* mutant: the block may be larger

Reclaimable(h, b) ==
  Covered(h, b) # {} /\ CoveredPages(h, b) * PageUnits = EndOf(b) - b.addr

ReclaimedGroups(h, b) ==
  [i \in 1..MaxGroups |-> IF i \in Covered(h, b) THEN NoGroup ELSE h.groups[i]]

heap_try_reclaim(h, k) ==
  LET b == h.list[k]
      freed == UNION {RunAt(h.groups[i].page, h.groups[i].npages) : i \in Covered(h, b)}
  IN IF ~Reclaimable(h, b) THEN h
     ELSE [h EXCEPT !.list = Relink(@, k, k, <<>>),
                    !.groups = ReclaimedGroups(h, b),
                    !.g_pages = @ - CoveredPages(h, b),
                    !.pmm = pmm_free_pages(@, freed)]

(* heap_new_block, put at the end of the list and coalesced by kmalloc.    *)
PagesFor(n) == (n + Header + PageUnits - 1) \div PageUnits

heap_new_block(h, n) ==
  LET page == FirstFreeRun(h.pmm, PagesFor(n))
      blk  == Block(page * PageUnits, PagesFor(n) * PageUnits - Header, FALSE)
  IN [h EXCEPT !.list = heap_coalesce(Append(@, blk), Len(@) + 1),
               !.groups = heap_register_group(@, page, PagesFor(n)),
               !.g_pages = @ + PagesFor(n),
               !.pmm = pmm_alloc_pages_contiguous(@, PagesFor(n))]

(* heap_split of block k, which then is marked used. *)
Split(b, n) ==
  IF b.size < n + Header + 1 THEN <<Block(b.addr, b.size, TRUE)>>
  ELSE <<Block(b.addr, n, TRUE), Block(b.addr + Header + n, b.size - n - Header, FALSE)>>

Fits(l, n)  == {k \in 1..Len(l) : ~l[k].used /\ l[k].size >= n}

heap_split(l, k, n) == Relink(l, k, k, Split(l[k], n))

Taken(h, n) ==
  LET k == Min(Fits(h.list, n))
      l == heap_split(h.list, k, n)
  IN [h EXCEPT !.list = l, !.g_used_bytes = @ + l[k].size, !.g_used_blocks = @ + 1]

(* kmalloc: the new heap and the address of the block; kfree.              *)
Grown(h, n) == IF Fits(h.list, n) # {} THEN h ELSE heap_new_block(h, n)

CanAllocate(h, n) ==
  n > 0 /\ (Fits(h.list, n) # {} \/ FirstFreeRun(h.pmm, PagesFor(n)) # NULL)

Kmalloc(h, n) ==
  LET g == Grown(h, n)
  IN [heap |-> Taken(g, n), addr |-> g.list[Min(Fits(g.list, n))].addr]

IndexOf(l, a) == CHOOSE k \in 1..Len(l) : l[k].addr = a

Kfree_KeepsBytes(h, a) ==  \* mutant: the bytes are not subtracted
  LET k == IndexOf(h.list, a)
      l == [h.list EXCEPT ![k].used = FALSE]
  IN heap_try_reclaim([h EXCEPT !.list = heap_coalesce(l, k), !.g_used_blocks = @ - 1],
                      CoalesceStart(l, k))

Kfree(h, a) ==
  LET k == IndexOf(h.list, a)
      l == [h.list EXCEPT ![k].used = FALSE]
  IN heap_try_reclaim([h EXCEPT !.list = heap_coalesce(l, k),
                                !.g_used_bytes = @ - l[k].size,
                                !.g_used_blocks = @ - 1],
                      CoalesceStart(l, k))

-----------------------------------------------------------------------------
Init ==
  /\ heap = [list |-> <<>>, groups |-> [i \in 1..MaxGroups |-> NoGroup], g_pages |-> 0,
             g_used_bytes |-> 0, g_used_blocks |-> 0, pmm |-> pmm_init]
  /\ ptrs = << >>
  /\ stacks = {}

(* kmalloc and kcalloc; a failing call changes nothing. *)
kmalloc(n) ==
  /\ CanAllocate(heap, n)
  /\ heap' = Kmalloc(heap, n).heap
  /\ ptrs' = [a \in DOMAIN ptrs \cup {Kmalloc(heap, n).addr} |->
                IF a \in DOMAIN ptrs THEN ptrs[a] ELSE n]
  /\ UNCHANGED stacks

kfree(a) ==
  /\ heap' = Kfree(heap, a)
  /\ ptrs' = [b \in DOMAIN ptrs \ {a} |-> ptrs[b]]
  /\ UNCHANGED stacks

(* krealloc that has to move: kmalloc, memcpy, kfree of the old block. *)
krealloc(a, n) ==
  /\ heap.list[IndexOf(heap.list, a)].size < n
  /\ CanAllocate(heap, n)
  /\ LET new == Kmalloc(heap, n)
     IN /\ heap' = Kfree(new.heap, a)
        /\ ptrs' = [b \in (DOMAIN ptrs \ {a}) \cup {new.addr} |->
                      IF b \in DOMAIN ptrs \ {a} THEN ptrs[b] ELSE n]
  /\ UNCHANGED stacks

(* task_create_internal and task_destroy: a kernel stack *)
stack_alloc ==
  /\ Cardinality(stacks) < MaxStacks
  /\ LET p == FirstFreeRun(heap.pmm, StackPages)
     IN /\ p # NULL
        /\ stacks' = stacks \cup {p}
        /\ heap' = [heap EXCEPT !.pmm = pmm_alloc_pages_contiguous(@, StackPages)]
  /\ UNCHANGED ptrs

stack_free(p) ==
  /\ stacks' = stacks \ {p}
  /\ heap' = [heap EXCEPT !.pmm = pmm_free_pages(@, RunAt(p, StackPages))]
  /\ UNCHANGED ptrs

Next ==
  \/ \E n \in Sizes : kmalloc(n)
  \/ \E a \in DOMAIN ptrs : kfree(a) \/ \E n \in Sizes : krealloc(a, n)
  \/ stack_alloc
  \/ \E p \in stacks : stack_free(p)

Spec == Init /\ [][Next]_vars

-----------------------------------------------------------------------------
ListOf     == {heap.list[k] : k \in 1..Len(heap.list)}
UsedBlocks == {b \in ListOf : b.used}
HeapPages  == heap.pmm.bitmap \ ((Pages \ Usable) \cup BitmapPages
                                   \cup UNION {RunAt(p, StackPages) : p \in stacks})
GroupPages == UNION {RunAt(heap.groups[i].page, heap.groups[i].npages) :
                       i \in {j \in 1..MaxGroups : heap.groups[j] # NoGroup}}

(* The blocks of the list tile the pages that heap_new_block took and      *)
(* heap_try_reclaim has not given back: no two blocks overlap, none        *)
(* reaches into a page of another owner or into a page that was returned   *)
(* to the page allocator, and no unit of a heap page is lost to splitting, *)
(* coalescing or reclaiming.                                               *)
HeapTiling ==
  /\ \A i, j \in 1..Len(heap.list) :
       i # j => UnitsOf(heap.list[i]) \cap UnitsOf(heap.list[j]) = {}
  /\ UNION {UnitsOf(b) : b \in ListOf} = PagesUnits(HeapPages)

(* What kmalloc handed out and kfree has not taken back are exactly the    *)
(* used blocks, each as large as its caller asked for.                     *)
PointersAreUsedBlocks ==
  /\ {b.addr : b \in UsedBlocks} = DOMAIN ptrs
  /\ \A b \in UsedBlocks : b.size >= ptrs[b.addr]

(* meminfo's figures: g_used_bytes, g_used_blocks and g_pages agree with   *)
(* the list, and pmm_get_free_page_count with the bitmap.                  *)
CountersExact ==
  /\ heap.g_used_bytes = Cardinality(UNION {Payload(b) : b \in UsedBlocks})
  /\ heap.g_used_blocks = Cardinality(UsedBlocks)
  /\ heap.g_pages = Cardinality(HeapPages)
  /\ heap.pmm.free_pages = Cardinality(Pages \ heap.pmm.bitmap)

(* No page stays with an empty heap: when every block has been freed, the  *)
(* coalescing has merged everything and heap_try_reclaim has returned      *)
(* every page, whatever the order of the calls (as schedtest's "No memory  *)
(* leak" expects), unless the group table has overflowed.                  *)
HeapDrains == (ptrs = << >> /\ HeapPages \subseteq GroupPages) => heap.list = <<>>

(* A live block is never moved, resized or reused by a call made for       *)
(* another one.                                                            *)
LiveBlocksStay ==
  [][\A b \in UsedBlocks :
       b.addr \in DOMAIN ptrs' /\ ptrs'[b.addr] = ptrs[b.addr] => b \in UsedBlocks']_vars
=============================================================================
