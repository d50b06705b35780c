# A TLA+ verification of KiNBOL

KiNBOL is a 64-bit hobby kernel in C (`src/kernel/src`): one core, a round-robin
scheduler with selective preemption, a page allocator and a heap, user programs in
ring 3, a PS/2 keyboard and a line editor, FAT32 over AHCI, and a shell. This directory
holds TLA+ models of its parts, TLC configurations that check them on small instances,
and TLAPS proofs of the properties that matter most.

`PROJECT.json` maps every definition to the lines it models. Paths below are relative
to `src/kernel/src`.

## 1. Inventory

| Component | State | Operations | Talks to | What makes it correct |
|---|---|---|---|---|
| Scheduler (`kernel/sched.c`, `pit.c`, `main.c`) | circular task list, `current_task`, states, wake times | create, switch, yield, sleep, exit, reap, timer interrupt | everything; shell polls `t->state` | one running task; list = live tasks; sleeps end; nobody starves; exit is final |
| Big Kernel Lock (`kernel/lock.h`) | one word | acquire, release | scheduler, terminal | the single core never spins on a lock it cannot get |
| Page allocator (`mm/pmm.c`) | bitmap, free count | allocate (runs of) pages, free | heap, page tables, stacks | a page has one owner; count exact |
| Heap (`mm/heap.c`) | block list, page groups, counters | kmalloc, kcalloc, krealloc, kfree | pages; all kernel code | blocks tile the pages; live blocks untouched; pages come back |
| User memory (`mm/vmm.c`, `loader/elf_loader.c`, `kernel/usermode.c`) | page tables, break, mmap base | exec, brk, mmap, mprotect, munmap, exit, destroy | pages; reaper | a frame has one use; all frames come back |
| Keyboard (`drivers/keyboard.c`) | ring, `key_state` | interrupt handler, pop | line editor, window tasks | FIFO; drops only when full |
| Line editor (same file) | line, history | characters, Up, Down, Enter | shell | the line fits; history exact and in order |
| FAT32 (`fs/fat32.c`) with VFS names (`fs/vfs.c`) | FAT, directories, FSInfo, registered nodes | touch, mkdir, write, rm, rmdir, rm -r, mount | AHCI; shell; exec | chains never cross; no cluster lost; a reboot shows the same files; a power loss harms no file but the one being removed |
| Files of programs and shell (`kernel/usermode.c`, `fs/vfs.c`, `fs/procfs.c`, `fs/ramdisk.c`) | descriptors, nodes, RAM disk slots | open, read, lseek, close, exit; cat, vfswrite, touch, rm, ramwrite, ramdel | disk driver | positions agree with what the calls returned; transfers exact |
| AHCI (`drivers/ahci.c`) | port, slots, lock, one page per command | initialise, identify, read, write | controller (external); FAT32, `sda` | every way out gives back lock and page; no page freed under the controller; every request returns |
| Terminal, window, cursor, graphics pipe, compositor (`graphics/`, `main.c`) | text position, save-under of window and cursor, back buffer, dirty rectangle | print, scroll, clear, caret; open, drag, redraw, close; flip | shell, programs, about window | nothing drawn is forgotten; no ghosts; text under a window comes back |
| Mouse (`drivers/mouse.c`) | button, collected motion | interrupt, read and clear | cursor, window | a dragged window catches up with the cursor |
| Kernel log (`kernel/dmesg.c`) | character ring | put | all code | characters in order (not modelled) |

Hard behaviour: the timer can preempt a user task in the middle of kernel code; tasks
whose name begins with `[` are never preempted; the reaper frees tasks that others poll;
memory and disk run out at any step; keyboard and mouse interrupts fall between any two
accesses; directory slots and clusters are reused; disk commands fail or time out; power
goes between two sector writes; four parties draw into one buffer with a single dirty
rectangle. `PROJECT.json` lists these under "hazards", each at its line, with the
properties aimed at it.

## 2. The modules

**Sched** (`MCSched`, `SchedProofs`). A step is a piece of code that nothing can
interrupt or whose interruption nobody can see. `sleep_ms` is three steps (`sleep_arm`,
`sleep_block`, `sleep_yield`), `task_exit` two, and `timer_isr` can fall between them.
`sched_schedule` is one operator shared by all callers: wake sleepers, scan the ring from
the successor of the current task, skip idle, switch. The Big Kernel Lock is `bkl`; an
acquisition that could never succeed sets `hung`. The shell commands that create tasks
(`launch`, `task_create`, `task_create_fails`, `launched`, `launch_failed`) and poll them
(`wait_again`, `wait_over`) are actions of the shell task; what the poll reads from a
freed `task_t` is arbitrary. Time is the remainder of each sleep. Registers and FPU areas
are left out.

**Pmm** (`PmmProofs`) is the page allocator as a record with operators, so that its users
can compose several calls in one step. **Heap** (`MCHeap`, `HeapProofs`) adds the block
list as a sequence in list order, the group table and the counters; addresses and sizes
are in 16-byte units. The code's changes of `next` and `prev` are one operator, `Relink`,
which puts some blocks in place of others. It is about callers that are not preempted
inside a call; kernel stacks are the other user of the pages. **HeapRace** (`MCHeapRace`)
splits `kmalloc` where an exec task can be preempted and lets the `[about]` window
allocate and free in between.

**UserMem** (`MCUserMem`, `UserMemProofs`) composes Pmm with one program's page tables:
leaf entries with frame, writable and NX bits, and one level of tables for three. The
loops of brk, mmap and the ELF loader are recursive functions of the number of turns
taken; `bad` names the page of a segment that cannot be read, and memory can run out at
every page. System calls run with interrupts off, so they are single steps. The address
space has two halves: the upper one is the kernel's, shared by all page maps (`kernel`),
and brk, mmap and munmap reach it as in the code, which checks a range only for mprotect.
Addresses wrap at the end of the space (`Word`), in the rounding of brk, in the check of
mmap and in the pages of munmap. `intact` records that no munmap has reached a page of the
kernel so far.

**KeyFifo** is the abstract specification of the keyboard driver: a bounded FIFO.
**Keyboard** is the ring, with `kb_ring_pop` split into its accesses
(`pop_tests`, `pop_reads`, `pop_advances`) and `keyboard_isr` possible between any two.
The refinement mapping is `Queue`, the slots from tail to head. **Readline** is
`keyboard_readline` called for line after line, and `hist_add`. The scancodes come in any
order, since the ring can drop half of a two-byte code; a code past the end of the tables
reads an arbitrary character. `lines` records what was entered, for the properties.
**Console** (`MCConsole`, `ConsoleProofs`) puts the two side by side for one run; its
proofs are about both. Because a FIFO that drops
can deliver any code at any time, the editor is explored with every code rather than with
the contents of a ring of four slots, which would only hide cases.

**Fat32** (`MCFat32`, `Fat32Proofs`) has the FAT, the entries of directory clusters,
FSInfo and the registered nodes of a volume chosen from `Volumes`. A leaf name is a model
value; the constants `LfnEntries`, `ShortOf`, `Tags` and `Folded` say what the code
computes from its characters. `fat32_scan_dir` is an operator: what a mount of the present
disk registers. `leaked` records the cluster a failed mkdir loses. Of the contents of
files one thing is kept: what a cluster of a file looks like when it is read as directory
entries (`vol.bytes`). A freed cluster keeps what was in it until it is cleared for a
directory, so a directory that was linked to a cluster not yet cleared when power was lost
is read with what the cluster held before. Every change of the disk goes through
`fat_set_entry`, `fsinfo_save`, `Put` or `PutCluster`, in the order of the code's sector
writes, and each appends the disk before it to `past`; a command ends with the last disk
(`Commit`), or power is lost at one of the earlier ones and the next boot mounts that
(`PowerLoss`); `shown` is what a boot before the command would have registered. The loops
of the code (walking, growing and freeing a chain, writing and deleting the parts of a
name, removing a tree) are recursive functions of the number of turns taken. `rm -r` takes
the deepest child first; which of two equally deep ones goes first depends on their places
in `fat_files` and is left open (`DeepestFirst`).

**Ahci** is the disk driver beside its controller. `ahci_init` takes the pages for the
port's tables and issues IDENTIFY; a request then goes sector by sector through
`next_sector` (its page), `ahci_begin` (lock, slot), `ahci_issue` or `ahci_timeout` (the
bounded wait), `ahci_wait` (the unbounded one) and the tail of its caller (`read_back`,
`sda_write_back`, `file_write_back`, `identify_back`, `ahcitest_back`). `HbaCompletes` and
`HbaFails` are the controller: it reads or writes the caller's page at any time until the
command is over. **Files** (`MCFiles`, `FilesProofs`) extends it with the node table, one
node for each kind of behaviour, a program's descriptors and system calls, the shell's
file commands and the RAM disk. `told` is the position a program can work out from the
answers it got. `lseek` answers in 64 bits and keeps 32, so `told` may pass 2^32 (`Word`)
while the position wraps. System calls run with interrupts off and the shell waits for its
program, so one request is under way at a time, while the controller works in parallel.

**Desktop** (`MCDesktop`, `DesktopProofs`) is everything that draws: the terminal, the
cursor, the about window over the window manager, the graphics pipe and the compositor,
with the mouse. The screen is one column of cells, each with paper, text or the arrow and
the glass of a window over it; `unsent` has the rows of the back buffer not yet copied to
the screen. Each draw operator writes cells and marks the dirty rectangle the way the code
does, and window and cursor keep what they cover (`win.saved`, `saved_px`). `term.text` is
a record, for the properties, of what was printed. Opening, moving, redrawing and closing
the window run with interrupts on and read the motion of the mouse twice, once to hide the
cursor, when it is dropped, and once to show it again, when it is applied. Each is
therefore two actions, the first up to the drawing (`about_task_begins`,
`about_task_turn`, `wm_redraw`, `about_task_ends`) and the second from
`show_cursor_locked` on (`about_task_shows`), with the mouse interrupt possible in
between; nothing else is, because the about task is not preempted and yields only in its
loop (`Busy`). The about window is the only window the kernel opens, so the window list
has one entry.

## 3. The runs

| Run | Instance | Checks |
|---|---|---|
| `sched_safety` | shell, idle, compositor, about, 2 user tasks; all 5 commands; sleeps of 0 or 1 | `TypeOK`, `CpuOwnership`, `ListIsLiveTasks`, `SleepersArmed`, `NoBklDeadlock`, `ExecWaitSafe`, `DeadIsFinal` |
| `sched_live` | the same tasks; exec and schedtest; fairness | `NoStarvation`, `SleeperRuns`, `CommandReturns` |
| `heap` | 6 pages of 6 units, 3 groups, one stack | `HeapTiling`, `PointersAreUsedBlocks`, `CountersExact`, `HeapDrains`, `LiveBlocksStay` |
| `user_memory` | 4 frames to give out, 12 virtual pages of which 4 are the kernel's, one mapped | `FrameOwnership`, `MprotectAllOrNothing`, `BrkIsBacked` |
| `console` | 2 keys, ring of 4; history of 2, lines of up to 2 characters, 4 lines | `ImplementsFifo`, `DropsOnlyWhenFull`, `LineFits`, `HistoryExact`, `RecallInOrder` |
| `fat32` | four volumes: long names in one cluster and across two; a disk that fills up (both may lose power); paths deeper than the scan; a name in two cases | `MountRoundTrip`, `NoSlotLeaks`, `ChainsSound`, `NoLostClusters`, `FreeCountExact`, `CrashKeepsFiles` |
| `files` | 2 sectors of 2 bytes, 2 slots, 1, 3 or 6 pages, 2 faults, with and without a drive; fairness | `PositionHonest`, `TransferExact`, `DmaPageHeld`, `NothingHeld`, `RamFilesCounted`, `RequestReturns` |
| `desktop` | 3 rows, a window of 1 row with a shadow of 1; 4 kinds of packet; fairness | `DirtyCovers`, `NoGhosts`, `TextShown`, `DragCatchesUp`, `ScreenSettles` |
| `sched_fpu` | only the fpu command | violates `WaitedTaskExists` |
| `heap_race` | 3 pages | violates `PointersAreUsedBlocks` |
| `user_frames` | as `user_memory` | violates `FramesReturned` |
| `fat32_case` | a name in two cases | violates `NoOrphans` |

Why the bounds are enough to be interesting. Scheduler: two user tasks can sleep, spin,
die and be reaped in every order next to all four kernel tasks. Heap: memory runs out,
the group table overflows, blocks merge in both directions and across groups. User
memory: frames run out inside exec, brk, mmap and while a table is being added; breaks lie
in both halves and in the last page, where rounding up wraps; a length makes the check of
mmap wrap; munmap is tried on every page of both halves. Console:
the ring fills up and wraps in every state of the reader; history slots are reused and a
recalled line fills the buffer. FAT32: directories grow, the disk fills up inside mkdir,
slots and short names are reused, long names straddle two clusters and are removed again,
paths get deeper than `MaxDepth` (1 here, 3 in the code), a name is typed in two cases,
and power is lost after every write of every command reachable on two of the volumes (one
loss per behaviour: what follows a mount is a new behaviour from a disk the model no
longer promises anything about). Every exception that `MountRoundTrip`, `NoSlotLeaks` and
`CrashKeepsFiles` make occurs in the run. Files: transfers
begin and end inside a sector, cross a sector, pass the end of the drive, run out of pages
at the first and at a later sector, and one or two commands fail or time out at any point;
with one page or three `port_rebase` fails; `Word` is small, so that `off + len` and the
position of `lseek` pass it; a program reads on up to the position `MaxTold`, beyond it.
Desktop: with three rows every newline from the second row scrolls, the window can be at two
heights, and the cursor is above, in and below it; the mouse moves it between hiding and
showing in every operation of the window. The file system may stop with nothing
to do, so its configurations do not check for deadlock; the others do.

Every property of a passing run has a mutant of the code in `PROJECT.json` (a dropped
guard, an off-by-one, a missing reset, a swapped order of writes) that TLC refutes; the
mutated operators are marked `\* mutant` beside the originals and are not used by the
specifications.

Fairness. *Sched*: time passes (the TSC). A pending timer interrupt is delivered when
interrupts are on again. A task that gets the CPU executes at least one instruction of
kernel code before it loses it, so kernel code that was entered is finished. The shell
comes back to `keyboard_readline`, which yields while no key is there, and the about
window yields in every round of its loop. Nothing is assumed of user programs;
`CommandReturns` is conditional on their ending. *Desktop*: the compositor, which sleeps
20 ms, is scheduled again; that is `SleeperRuns` of Sched. So is the about task, which
yields in every turn of its loop (`NoStarvation`) and is due to redraw its window once a
second: it does not stay for ever at one place (`AboutGoesOn`). *Files*: the kernel goes on
with a request it has begun (nothing preempts it for ever), and the controller ends each
command it was given, with success or with an error. The last is an assumption about
hardware: `ahci_wait` has no bound, and a controller that stops after an error until
`PxCMD.ST` is restarted, which the driver never does, would keep its caller waiting.

## 4. The proofs

`SchedProofs`, for every number of user tasks, set of commands and sleep bound, from
`TasksAssumption` and `BoundsAssumption`:

* `SchedSafety`: `Spec => [](TypeOK /\ CpuOwnership /\ ListIsLiveTasks /\ SleepersArmed
  /\ NoBklDeadlock)`. The inductive invariant `Inv` adds what the program counters say
  (`PcInv`: who can be where, who can be blocked) and that a held lock means its holder
  is inside its critical section, running, with interrupts off (`LockInv`); without them a
  switch could find the lock held, or a sleeper without its time. One lemma,
  `ScheduleFacts`, says what a switch does to the states; each action then has its step.
* `ExitIsFinal`: `Spec => DeadIsFinal`, from the same invariant.
* `ExecWaitIsSafe`: `Spec => []ExecWaitSafe`. `WaitInv` says why: the waiting shell is
  always READY or RUNNING, the idle task is chosen only when nobody else is READY
  (`IdleIsLast`), and when the shell itself yields, either it waits for one task which is
  not dead, or another task it waits for cannot be asleep and so is READY.

`ConsoleProofs`, for every ring size above 1 and every set of keys, from
`KeyboardAssumption` (`Spec` is Keyboard's):

* `KeyboardTypeOK`: `Spec => []ReaderInv`, the types and that a reader between its
  accesses still has its scancode at the tail.
* `RingIsFifo`: `Spec => ImplementsFifo`, the refinement: `keyboard_isr` is an
  append or a stutter (`IsrAppends`), `pop_advances` a removal (`AdvanceTails`).
* `DropsOnlyWhenFullHolds`: `Spec => DropsOnlyWhenFull`.

And, for every buffer size, history size and text, from `ReadlineAssumption`:
`LineAlwaysFits`, `HistoryIsExact` and `RecallIsInOrder`. The
invariant `EditInv` is `LineFits` and `HistoryExact` together with the types: each needs
the other, since a recalled line fits only because the slot it is copied from still has
the line that was entered. The heart is `SlotsDiffer`: two lines less than `HIST_MAX`
apart are in different slots, so adding one overwrites only the oldest.

`UserMemProofs`, for every number of frames, memory map, program, page size and table
size, from `PmmAssumption` and `UserMemAssumption`: `FramesHaveOneOwner`,
`GrantedBreakIsBacked` and `MprotectIsWhole`. `UserMemInv` says of the page tables and the
bitmap what `FrameOwnership` says, in every phase, and that the frames of `pmm_init` are
never given out, as long as `intact` holds: a munmap of a page of the kernel frees a frame
that was reserved, and from then on nothing is claimed of the owners of frames. The other
two theorems do not depend on it. The loops over pages are handled by induction over
turns: `TurnByTurn` is the induction principle with a set of turns in place of a predicate
(which the provers cannot instantiate), `LoopExists` says that a recursive function of
turns is well defined (both are in `PmmProofs`, with what allocating and freeing do to
bitmap and count), and `RangeMapped`, `SegmentLoaded` and `ImageLoaded` say what the loops
of brk, mmap and the loader keep.

`FilesProofs`, for every drive, sector size, number of pages, slots, descriptors and
faults, from `AhciAssumption` and `FilesAssumption`: `PositionsAreHonest`,
`TransfersAreExact`, `DmaPagesAreHeld`, `NothingIsHeld` and `RamFilesAreCounted`.
`FilesInv` has one part for each question. `CommandInv`: the page is held, the lock taken
and a command pending exactly where the request's program counter says, and the pending
command is the one the request gave. `PagesInv`: every page is free, kept or held.
`PositionInv`: the position a descriptor keeps is what the program was told, modulo
`Word`; nothing bounds what it was told. `OpInv` and `ExecutedInv`:
what the page of a request holds, and that a command reported as done was executed;
without them nothing ties the bytes in the page to those on the disk. `TransferExact` is
then preserved because a sector is either outside the range or in the part of it that
`Chunk` cuts out (`SectorOfByte`, `WriteLands`).

`DesktopProofs`, for every height of screen and window and every motion of the mouse, from
`DesktopAssumption`: `DirtyRectangleCovers`, `NothingIsLeftBehind`, `TextIsKept` and
`WindowStaysOnScreen`. The last is what `save_region` and `restore_region` rely on, which
do not clip. `DesktopInv` is one predicate `Shown` on screen, window and terminal, the
window being the one in the back buffer (`DrawnWindow`, which is not yet open inside
`wm_open` and no longer there inside `wm_close`), that the cursor is off the buffer while
the about task draws, and that the region fits: the column without the cursor (`View`) has
glass only on the rows of the open window, the window's save-under has neither arrow nor
glass, and both have the recorded text where it is not stale. It is stronger than
`NoGhosts` and `TextShown`, which say only where arrow and glass may be: a redraw restores
what it finds in the save-under, so that must be right first. Each drawing operator has
its lemma (`ShownAfterScroll`, `ShownAfterRedraw`, ...), and each action combines them.

`HeapProofs`, for every memory map, page size, header, group table, set of requests and
number of stacks, from `PmmAssumption` and `HeapAssumption`: `BlocksTileTheHeap`,
`PointersAreBlocks`, `CountersAreExact`, `LiveBlocksAreKept` and `EmptyHeapDrains`. The
first four rest on `HeapSafe`: besides what those properties say, the registered groups
are disjoint runs of heap pages, and the stacks are disjoint from each other and from the
heap. That is what a reclaim needs. `heap_try_reclaim` only compares two sums, so the
proof shows that disjoint groups inside a block whose pages add up to its length are the
block; the sum is a recursive function, followed turn by turn as in UserMem. Splitting,
merging and growing are each a `Relink` that puts blocks in place of others which span
the same units, so tiling, pointers and counters are argued once for all of them.

`EmptyHeapDrains` needs more, because nothing in `HeapSafe` says that a free heap is
merged: the list is in order of growth, not of address, and coalescing only joins list
neighbours that are also address neighbours. `HeapInv` adds `Linked`, in terms of the
breaks of the list, the places where two neighbours in it are not neighbours in memory.
`Joined`: no break lies inside a group, so a group is never spread over two stretches.
`Anchored`: every stretch between two breaks has a used block or a unit of a forgotten
group. A `kfree` that takes the last anchor of a stretch merges all of it into one block,
which is a union of whole groups and is given back; so when nothing is used and nothing
was forgotten there is no stretch left.

`Fat32Proofs`, for every volume, cluster size, set of names and sequence of commands, from
`Fat32Assumption`: `ChainsAreSound`, `ClustersAreNotLost`, `FreeCountIsExact` and
`ChainsSurvivePowerLoss`, all from `FatInvariant`. The inductive invariant `FatInv` says
that registered nodes differ in name and in start, so that the node `vfs_find` returns is
the one whose chain is freed; that the chains of the root and of the nodes are `Whole`
(they end in an end mark, go through no cluster twice and do not meet); that every other
cluster in use is in `leaked` (`Accounted`); and that the free count is right. That alone
is not kept by a power loss, since a command is one step with many sector writes. The
lemmas about the parts of a command therefore carry all disks of `past` along: `Sounds` is
the set of disks within a command whose FAT is sound and whose earlier FATs, where power
may have been lost, are in `Kept`: in them the chains that the command has to keep are
whole and no shorter than it found them. `SoundAllocated`, `SoundLinked` and `SoundFreed`
say what one allocation, one link and one freed chain do to a sound FAT; `GrowForSound`,
`WrittenSound`, `FreeChainSound` and `RemovedInTurn` follow the loops turn by turn; one
lemma per command (`FileCreated`, `DirectoryMade`, `OneRemoved`, `TreeRemoved`,
`FileWritten`) puts them together. `ChainFound` ties this to `Chain`: the walk through
the FAT finds the chain there is. `CrashKeepsChains`, which `ChainsSurvivePowerLoss`
proves, is the part of `CrashKeepsFiles` that is about the FAT.

TLC finds all these inductive invariants true on the instances of the runs.

Only model-checked: the liveness properties and everything under fairness (the prover
does neither fairness nor `ENABLED`), `DragCatchesUp` among them, and three properties of
Fat32 about directory entries, `NoSlotLeaks`, `MountRoundTrip` and `CrashKeepsFiles`. Each
states where the code does not keep it (section 5) as an exception, and the run reaches
those cases.

## 5. Findings

With a run:

* `sched_fpu`: `cmd_fpu` (and `cmd_sleeptest`, same loop) polls tasks that sleep; while
  one sleeps, idle runs the reaper and frees the other (`shell/commands/sys.c:488`).
* `heap_race`: `kmalloc` is not protected against preemption (`mm/heap.c:157`).
* `user_frames`: `vmm_destroy_pagemap` leaves the NX bit in the address it frees, so no
  non-executable frame of a program is ever returned (`mm/vmm.c:366`).
* `fat32_case`: `rm -r` finds children by the path as typed, the directory without regard
  to case (`fs/fat32.c:1132`).

Seen while modelling, without a run:

* Long-name entries leak when a name straddles two clusters: `mark_removed_with_lfn`
  (`fs/fat32.c:1017`-`1087`) looks for them only in the cluster of the short entry, and
  `find_free_dir_slots` (`fs/fat32.c:482`-`541`) places names across clusters when a
  directory grows. `src/README.md:150` says that no directory slots leak, and
  `src/README.md:154` that names the driver itself writes lie in one cluster. It is the
  exception (`Straddles`) of `NoSlotLeaks`. A complete run of such entries that ends at
  the end of a cluster is taken by the next mount for the name of a later file whose short
  entry comes first in the next cluster and has the same short name: the exception
  `NoneLeftOver` of `MountRoundTrip`.
* Creation has no depth limit, the mount scan has one (`fs/fat32.c:872`), while
  `src/README.md:107`, `147` and `151` speak of any depth: what lies below it is gone
  after a reboot and its clusters stay in use. `MountRoundTrip` says that exactly the rest
  comes back.
* A child keeps its parent as it was typed (`fs/fat32.c:729`), and a mount registers it
  under the parent's own name: with names typed in two cases a reboot shows other paths
  than before (the exception `OneCase` of `MountRoundTrip`).
* `SYS_MUNMAP` (`kernel/usermode.c:482`) does not check that its range is the program's,
  as `SYS_MPROTECT` does: the exception (`intact`) of `FrameOwnership`.
* `SYS_BRK` rounds up in 64 bits (`kernel/usermode.c:390`): a break in the last page of
  the address space maps nothing and is granted; and it has no upper limit.
* Motion of the mouse that was collected when a redraw hides the cursor is dropped, and
  what comes in while it draws moves the cursor off the window it drags
  (`graphics/cursor.c:104`): the window catches up in a later turn (`DragCatchesUp`).
* An 8.3 name is not checked against generated short names (`fs/fat32.c:758`), so two
  entries of a directory can share one.
* After a power loss the file that was being removed may still have its entry, which names
  free clusters; a directory being made or growing may have a cluster of old bytes, which
  are then registered as files (`fs/fat32.c:523`) and can fill the node table, the
  exception of `CrashKeepsFiles`; clusters may be lost and FSInfo stale. There is no check
  at mount. `CrashKeepsFiles` says that all other files are whole.
* A cluster that cannot be read before a partial write is taken as zeros
  (`fs/fat32.c:345`): the exception that `TransferExact` names.
* `port_rebase` keeps the pages it took when one for a table is missing
  (`drivers/ahci.c:134`), and `cmd_ahcitest` never frees its page (`kept` counts both).
* `off + len` has 32 bits in the reads of `sda` and of files; `SYS_LSEEK` returns 64 bits
  and keeps 32 (`kernel/usermode.c:564`), so beyond 2^32 `PositionHonest` holds modulo
  2^32 only.
* The nodes of procfs have size 512 whatever their text is, so `SEEK_END` and `fstat` do
  not agree with what `read` gives; each `read` makes the text anew.
* `ramdisk_create` does not lower the count when `kmalloc` fails (`fs/ramdisk.c:40`): the
  count is only ever too high (`RamFilesCounted`).
* Text printed under the window or the cursor is not in their save-under and goes when
  they move or close: the exception (`stale`) of `TextShown`. The caret is drawn through
  an open window, which is not repainted over it, unlike every character
  (`src/README.md:80`).
* `gpipe drawtest` and `smoothtext` copy the screen back into the back buffer
  (`shell/commands/gfx.c:44`, `98`) while the cursor may be on the screen and not in the
  buffer, which leaves a ghost of the arrow (cf. `src/README.md:128`). The two test
  commands are left out of Desktop.
* `cmd_about` sets `about_running` before it knows that the task was created: when it was
  not, the window can never be opened again (`about = "never"`).
* SYS_BRK moves the break even when memory has run out (`kernel/usermode.c:407`): the
  exception that `BrkIsBacked` names.
* A segment with both write and execute permission is mapped with both
  (`loader/elf_loader.c:53`).
* `cmd_fpu` ends the shell when one of its tasks cannot be created
  (`shell/commands/sys.c:482`; the step `launch_failed`).

## 6. Not modelled, and the plan

Not modelled: hardware set-up (descriptor tables, interrupt controllers, ACPI, PCI, RTC,
serial), the shapes of drawing primitives and fonts, the string library, commands that
only print, the kernel log (a race on it garbles characters and nothing else), vendored
code (`limine-binary`), and the test programs under `elfs`. Of modelled parts: failures
of `kmalloc` inside `fat32.c`; two short names with the same 8-bit checksum (the sum
stands for the name); files of more than one cluster in Files (their chains are in
Fat32); more than one window; huge pages of the kernel and its own changes to its half of
the page tables.
The limit of the node table cannot be reached: 40 files and 12 other nodes are fewer than
its 64 entries. `vfs_write` has one caller, which writes at offset 0, so writes at other
offsets do not happen.

Still to do: `MountRoundTrip`, `NoSlotLeaks` and the rest of `CrashKeepsFiles` as
theorems, which needs an invariant on the order of the entries in each directory.
