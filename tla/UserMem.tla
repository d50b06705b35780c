------------------------------ MODULE UserMem ------------------------------
(***************************************************************************)
(* The memory of one user task from task_create_user to task_destroy: its  *)
(* page tables (mm/vmm.c), the ELF loader (loader/elf_loader.c), exec_run  *)
(* and the system calls brk, mmap, mprotect and munmap                     *)
(* (kernel/usermode.c), on top of the page allocator (Pmm).  The shell     *)
(* runs one program at a time, and a system call runs with interrupts off. *)
(*                                                                         *)
(* Virtual addresses are page numbers, except for the break, which is in   *)
(* bytes of small pages.  The three levels of tables below the root are    *)
(* one: a table maps TablePages pages.  The upper half of the addresses is *)
(* the kernel's: all page maps share its entries and their tables, which   *)
(* are there; the system calls reach it like the lower half.  Huge pages   *)
(* of the kernel are left out.                                             *)
(***************************************************************************)
EXTENDS Pmm, Sequences, FiniteSetsExt

CONSTANTS
  PageSize,     \* PAGE_SIZE
  AddressPages, \* pages of the address space: 2^64 / PAGE_SIZE
  KernelStart,  \* the first page of the kernel's half
  KernelMap,    \* the kernel's pages at boot: page -> frame
  TablePages,   \* pages mapped by one page table
  HeapStart,    \* USER_HEAP_START, a page number
  MmapStarts,   \* the values of USER_MMAP_START plus its random offset
  StackTop,     \* USER_STACK_TOP
  StackPage,    \* the page below the randomised top of the stack
  Images,       \* the programs: sequences of PT_LOAD segments
  Protections,  \* the protections mprotect is asked for: {[w |-> .., nx |-> ..], ...}
  Breaks,       \* bound: the breaks asked for, in bytes
  Lengths,      \* bound: the lengths mmap is asked for, in pages
  MaxLen,       \* bound: the longest mprotect or munmap, in pages
  NxPages       \* VMM_NX seen as part of a page number: 2^63 / PAGE_SIZE

Word == AddressPages * PageSize

ASSUME UserMemAssumption ==
  /\ PageSize \in Nat \ {0} /\ TablePages \in Nat \ {0} /\ AddressPages \in Nat \ {0}
  /\ KernelStart \in Nat /\ StackTop <= KernelStart
  /\ DOMAIN KernelMap \subseteq KernelStart..(AddressPages - 1)
  /\ KernelMap \in [DOMAIN KernelMap -> Pages]
  /\ Breaks \subseteq 0..(Word - 1) /\ Lengths \subseteq Nat
  /\ NxPages \in Nat /\ NxPages >= TotalPages
  /\ StackPage \in Nat /\ StackTop \in Nat /\ StackPage < StackTop
  /\ HeapStart \in Nat /\ MmapStarts \subseteq Nat /\ MaxLen \in Nat
  /\ Images \subseteq Seq([first : Nat, last : Nat, w : BOOLEAN, x : BOOLEAN])
  /\ \A image \in Images : \A i \in 1..Len(image) : image[i].first <= image[i].last
  /\ Protections \subseteq [w : BOOLEAN, nx : BOOLEAN]

VARIABLES
  mem,      \* the page allocator
  pm,       \* the task's page tables: root frame, tables, leaf entries
  kernel,   \* the kernel's half: page -> frame
  intact,   \* no munmap has reached a page of the kernel
  brk,      \* self->user_brk
  mmapBase, \* self->user_mmap_base
  phase     \* "none", "created", "user" or "dead"

vars == <<mem, pm, kernel, intact, brk, mmapBase, phase>>

VPages   == 0..(AddressPages - 1)
Entry(f, w, nx) == [frame |-> f, w |-> w, nx |-> nx]
NoMap    == [root |-> NULL, tables |-> << >>, pt |-> << >>]
Extend(f, x, y) == [z \in DOMAIN f \cup {x} |-> IF z = x THEN y ELSE f[z]]
Without(f, S)   == [z \in DOMAIN f \ S |-> f[z]]

(* (a + PAGE_SIZE - 1) & ~(PAGE_SIZE - 1), in 64 bits *)
PageEnd(a) == ((a + PageSize - 1) % Word) \div PageSize

-----------------------------------------------------------------------------
(* vmm.c.  A state s of the operators below is [mem, pm, kernel, ok, oom]. *)

TableOf(v) == v \div TablePages

(* get_or_create *)
get_or_create(s, v) ==
  LET f == FirstFreeRun(s.mem, 1)
  IN IF TableOf(v) \in DOMAIN s.pm.tables THEN s
     ELSE IF f = NULL THEN [s EXCEPT !.ok = FALSE]
     ELSE [s EXCEPT !.mem = pmm_alloc_pages_contiguous(@, 1),
                    !.pm.tables = Extend(@, TableOf(v), f)]

(* vmm_map: an entry that is there already is overwritten. *)
vmm_map(s, v, e) ==
  LET t == get_or_create(s, v)
  IN IF v >= KernelStart THEN [s EXCEPT !.kernel = Extend(@, v, e.frame)]
     ELSE IF t.ok THEN [t EXCEPT !.pm.pt = Extend(@, v, e)] ELSE t

(* vmm_unmap_range with free_phys: in either half *)
FramesIn(s, R) == {s.pm.pt[v].frame : v \in R \cap DOMAIN s.pm.pt}
                    \cup {s.kernel[v] : v \in R \cap DOMAIN s.kernel}

vmm_unmap_range_KeepsEntry(s, R) ==  \* mutant: the entry of a freed frame stays
  [s EXCEPT !.mem = pmm_free_pages(@, FramesIn(s, R))]

vmm_unmap_range(s, R) ==
  [s EXCEPT !.mem = pmm_free_pages(@, FramesIn(s, R)),
            !.pm.pt = Without(@, R), !.kernel = Without(@, R)]

vmm_check_user_range_First(p, R) == \E v \in R : v \in DOMAIN p.pt  \* mutant

vmm_check_user_range(p, R) == R \subseteq DOMAIN p.pt

(* vmm_protect: page by page, up to the first one that is not present. *)
vmm_protect(p, R, f) ==
  [p EXCEPT !.pt = [v \in DOMAIN @ |->
                      IF v \in R /\ \A u \in R : u <= v => u \in DOMAIN p.pt
                      THEN Entry(@[v].frame, f.w, f.nx) ELSE @[v]]]

(* vmm_destroy_pagemap: `entry & ~0xFFF` keeps the NX bit of an entry. *)
FreedPage(e) == IF e.nx THEN e.frame + NxPages ELSE e.frame

vmm_destroy_pagemap(m, p) ==
  pmm_free_pages(m, {FreedPage(p.pt[v]) : v \in DOMAIN p.pt}
                      \cup {p.tables[t] : t \in DOMAIN p.tables} \cup {p.root})

-----------------------------------------------------------------------------
(* pmm_alloc_page, memset, vmm_map for each page in turn, until memory is  *)
(* out (oom); the result of vmm_map is not looked at.                      *)
MapFresh(s, v, w, nx) ==
  LET f == FirstFreeRun(s.mem, 1)
  IN IF s.oom THEN s
     ELSE IF f = NULL THEN [s EXCEPT !.oom = TRUE]
     ELSE [vmm_map([s EXCEPT !.mem = pmm_alloc_pages_contiguous(@, 1)], v, Entry(f, w, nx))
             EXCEPT !.ok = TRUE]

MapFreshRange_Next(s, first, n) ==  \* mutant: a page too far
  LET after[i \in 0..n] ==
        IF i = 0 THEN s ELSE MapFresh(after[i - 1], first + i, TRUE, TRUE)
  IN after[n]

MapFreshRange(s, first, n) ==
  LET after[i \in 0..n] ==
        IF i = 0 THEN s ELSE MapFresh(after[i - 1], first + i - 1, TRUE, TRUE)
  IN after[n]

Now == [mem |-> mem, pm |-> pm, kernel |-> kernel, ok |-> TRUE, oom |-> FALSE]

Becomes(s) == mem' = s.mem /\ pm' = s.pm /\ kernel' = s.kernel

(* One page of elf_map_segment: like MapFresh, but a failure ends the load *)
(* and gives the frame back; so does a short read of the file.             *)
LoadPage(s, v, seg, short) ==
  LET f == FirstFreeRun(s.mem, 1)
      t == vmm_map([s EXCEPT !.mem = pmm_alloc_pages_contiguous(@, 1)], v,
                   Entry(f, seg.w, ~seg.x))
  IN IF ~s.ok THEN s
     ELSE IF f = NULL \/ short THEN [s EXCEPT !.ok = FALSE]
     ELSE IF ~t.ok THEN [s EXCEPT !.ok = FALSE]
     ELSE t

SegmentPages(seg) == seg.last - seg.first + 1

(* The pages of a segment, of which the page bad cannot be read. *)
elf_map_segment(s, seg, bad) ==
  LET after[i \in 0..SegmentPages(seg)] ==
        IF i = 0 THEN s
        ELSE LoadPage(after[i - 1], seg.first + i - 1, seg, seg.first + i - 1 = bad)
  IN after[SegmentPages(seg)]

(* elf_load: the segments; bad is a page of one of them, or of none. *)
elf_load(s, image, bad) ==
  LET after[i \in 0..Len(image)] ==
        IF i = 0 THEN s
        ELSE elf_map_segment(after[i - 1], image[i], IF i = bad[1] THEN bad[2] ELSE NULL)
  IN after[Len(image)]

Unreadable(image) == {<<0, NULL>>} \cup
  UNION {{<<i, v>> : v \in image[i].first..image[i].last} : i \in 1..Len(image)}

(* highest_vaddr, zero when there is no segment *)
HighestPage(image) == Max({0} \cup {image[i].last + 1 : i \in 1..Len(image)})

-----------------------------------------------------------------------------
Init ==
  /\ mem = pmm_init
  /\ pm = NoMap
  /\ kernel = KernelMap /\ intact = TRUE
  /\ brk = 0 /\ mmapBase = 0
  /\ phase = "none"

(* task_create_user: vmm_create_pagemap *)
task_create_user ==
  /\ phase = "none"
  /\ FirstFreeRun(mem, 1) # NULL
  /\ pm' = [NoMap EXCEPT !.root = FirstFreeRun(mem, 1)]
  /\ mem' = pmm_alloc_pages_contiguous(mem, 1)
  /\ phase' = "created"
  /\ UNCHANGED <<kernel, intact, brk, mmapBase>>

(* exec_run: load, map the stack, set the break and the mmap base, enter   *)
(* ring 3; a failed load or no memory for the stack ends the task.         *)
exec_run(image, bad, base) ==
  /\ phase = "created"
  /\ LET loaded  == elf_load(Now, image, bad)
         stacked == MapFresh(loaded, StackPage, TRUE, TRUE)
     IN IF ~loaded.ok
        THEN Becomes(loaded) /\ phase' = "dead" /\ UNCHANGED <<brk, mmapBase>>
        ELSE /\ Becomes(stacked)
             /\ phase' = IF stacked.oom THEN "dead" ELSE "user"
             /\ brk' = IF stacked.oom THEN brk ELSE HighestPage(image) * PageSize
             /\ mmapBase' = IF stacked.oom THEN mmapBase ELSE base
  /\ UNCHANGED intact

(* SYS_BRK: there is no upper limit, and out of memory the break moves all *)
(* the same.                                                               *)
sys_brk(addr) ==
  /\ phase = "user"
  /\ addr # brk /\ addr >= HeapStart * PageSize
  /\ LET n == PageEnd(addr) - PageEnd(brk)
     IN Becomes(IF n > 0 THEN MapFreshRange(Now, PageEnd(brk), n) ELSE Now)
  /\ brk' = addr
  /\ UNCHANGED <<intact, mmapBase, phase>>

(* SYS_MMAP: out of memory, the pages mapped so far stay.  The sum of the  *)
(* check has 64 bits; a length that makes it wrap uses up all memory.      *)
sys_mmap(n) ==
  /\ phase = "user"
  /\ (mmapBase + n) % AddressPages < StackTop
  /\ LET s == MapFreshRange(Now, mmapBase, n)
     IN /\ Becomes(s)
        /\ mmapBase' = IF s.oom THEN mmapBase ELSE (mmapBase + n) % AddressPages
  /\ UNCHANGED <<intact, brk, phase>>

sys_mprotect(v, n, f) ==
  /\ phase = "user"
  /\ vmm_check_user_range(pm, v..(v + n - 1))
  /\ pm' = vmm_protect(pm, v..(v + n - 1), f)
  /\ UNCHANGED <<mem, kernel, intact, brk, mmapBase, phase>>

(* SYS_MUNMAP: any n pages from v on, which wrap at the end of the address *)
(* space; unlike mprotect it does not look whose they are.                 *)
PagesFrom(v, n) == {(v + i) % AddressPages : i \in 0..(n - 1)}

sys_munmap(v, n) ==
  /\ phase = "user"
  /\ Becomes(vmm_unmap_range(Now, PagesFrom(v, n)))
  /\ intact' = (intact /\ PagesFrom(v, n) \cap DOMAIN kernel = {})
  /\ UNCHANGED <<brk, mmapBase, phase>>

(* SYS_EXIT, or a fault in ring 3 *)
task_exit ==
  /\ phase = "user"
  /\ phase' = "dead"
  /\ UNCHANGED <<mem, pm, kernel, intact, brk, mmapBase>>

(* task_reaper, task_destroy *)
task_destroy ==
  /\ phase = "dead"
  /\ mem' = vmm_destroy_pagemap(mem, pm)
  /\ pm' = NoMap
  /\ brk' = 0 /\ mmapBase' = 0
  /\ phase' = "none"
  /\ UNCHANGED <<kernel, intact>>

Next ==
  \/ task_create_user
  \/ \E image \in Images : \E bad \in Unreadable(image), base \in MmapStarts :
       exec_run(image, bad, base)
  \/ \E addr \in Breaks : sys_brk(addr)
  \/ \E n \in Lengths : sys_mmap(n)
  \/ \E v \in VPages, n \in 1..MaxLen :
       \/ sys_munmap(v, n)
       \/ \E f \in Protections : sys_mprotect(v, n, f)
  \/ task_exit
  \/ task_destroy

Spec == Init /\ [][Next]_vars

-----------------------------------------------------------------------------
LeafFrames  == {pm.pt[v].frame : v \in DOMAIN pm.pt}
TableFrames == {pm.tables[t] : t \in DOMAIN pm.tables}

(* No frame has two uses: every page a program has mapped, every page      *)
(* table and the root have frames of their own, which are neither free in  *)
(* the bitmap nor reserved, through every mix of brk, mmap, munmap and     *)
(* failed loads.  This is so until a munmap reaches a page of the kernel,  *)
(* which SYS_MUNMAP does not refuse: it frees the kernel's frame.          *)
FrameOwnership == intact =>
  /\ \A u, v \in DOMAIN pm.pt : u # v => pm.pt[u].frame # pm.pt[v].frame
  /\ \A t, u \in DOMAIN pm.tables : t # u => pm.tables[t] # pm.tables[u]
  /\ LeafFrames \cap TableFrames = {}
  /\ pm.root \notin LeafFrames \cup TableFrames
  /\ phase # "none" => (LeafFrames \cup TableFrames \cup {pm.root})
                         \subseteq mem.bitmap \ pmm_init.bitmap

(* mprotect changes the protection of its whole range or of nothing: the   *)
(* check before vmm_protect keeps that loop from stopping half-way.        *)
MprotectAllOrNothing ==
  [][\A v \in VPages, n \in 1..MaxLen, f \in Protections :
       sys_mprotect(v, n, f) =>
         \A u \in v..(v + n - 1) :
           u \in DOMAIN pm'.pt /\ pm'.pt[u].w = f.w /\ pm'.pt[u].nx = f.nx]_vars

(* The reaper's "cleanup complete": when the task is gone, every frame it  *)
(* was given is free again.                                                *)
FramesReturned == phase = "none" => mem.bitmap = pmm_init.bitmap

(* The first page that begins at a or above, whatever the word size. *)
FirstPageAbove(a) == (a + PageSize - 1) \div PageSize

(* brk keeps its word: when it moves the break up, the pages up to the new *)
(* break are mapped, from a break anywhere in a page to one anywhere in    *)
(* another.  There are two exceptions: memory has run out, when the code   *)
(* moves the break all the same; and the new break is in the last page of  *)
(* the address space, so that rounding it up wraps to 0 and nothing is     *)
(* mapped.                                                                 *)
BrkIsBacked ==
  [][phase = "user" /\ phase' = "user" /\ brk' > brk =>
       \/ FirstFreeRun(mem', 1) = NULL
       \/ brk' + PageSize - 1 >= Word
       \/ \A v \in FirstPageAbove(brk)..(FirstPageAbove(brk') - 1) :
            IF v >= KernelStart THEN v \in DOMAIN kernel'
            ELSE v \in DOMAIN pm'.pt /\ pm'.pt[v].w]_vars
=============================================================================
