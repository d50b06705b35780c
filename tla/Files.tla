------------------------------- MODULE Files -------------------------------
(***************************************************************************)
(* The files of a user program and of the shell: the node table of         *)
(* fs/vfs.c, the file descriptors and system calls of kernel/usermode.c,   *)
(* the shell commands cat, vfswrite, touch, rm, ahcitest and exec, and the *)
(* RAM disk of fs/ramdisk.c, over the disk driver of module Ahci.          *)
(*                                                                         *)
(* The nodes are one of each kind: "null" (as tty and dmesg: reads are     *)
(* empty), "zero" (as random: reads are full), "ram0", "proc" (a text      *)
(* shorter than its node's size), "sda", and "file", a FAT32 file of one   *)
(* cluster; longer chains and directories are module Fat32.                *)
(***************************************************************************)
EXTENDS Ahci

CONSTANTS
  Fds,          \* the descriptors SYS_OPEN gives out (3..TASK_MAX_FDS-1)
  RamSize,      \* RAM0_SIZE
  ProcLen,      \* the length of a text of procfs
  ProcSize,     \* PROC_BUF_MAX
  FileSector,   \* the sector of the file's cluster
  MaxRamFiles,  \* MAX_RAMFILES
  RamNames,     \* the names given to RAM disk files
  MaxLen,       \* bound: the longest read or write
  SeekOffsets,  \* bound: the offsets given to SYS_LSEEK
  MaxTold,      \* bound: the position up to which a program reads on
  MaxRamFails   \* bound: how often kmalloc fails for the RAM disk

ASSUME FilesAssumption ==
  /\ Fds \subseteq Nat \ {0} /\ FileSector \in 0..(Sectors - 1)
  /\ RamSize \in Nat /\ ProcSize \in Nat /\ ProcLen \in 0..ProcSize
  /\ MaxRamFiles \in Nat /\ "empty" \notin RamNames
  /\ MaxLen \in Nat /\ SeekOffsets \subseteq Int /\ MaxTold \in Nat

VARIABLES
  nodes,      \* the registered nodes
  file_size,  \* size of the node "file"
  running,    \* a program runs and the shell waits for it
  fds,        \* its descriptors: fd -> [node, offset], or Closed
  told,       \* fd -> where the program must take its position to be
  who,        \* on whose behalf the request is: a descriptor, or Shell
  ramfiles,   \* slot -> name
  ramfile_count

fileVars == <<nodes, file_size, running, fds, told, who, ramfiles, ramfile_count>>
vars == <<ahciVars, fileVars>>

Closed == [node |-> "none", offset |-> 0]
NoFds  == [fd \in Fds |-> Closed]
Empty  == "empty"
Shell  == 0

Whences == {"set", "cur", "end"}

(* vfs_init, procfs_init *)
BootNodes == {"null", "zero", "ram0", "proc"}

(* node->size: what SYS_STAT and SYS_FSTAT report and SEEK_END uses *)
SizeOf(n) ==
  CASE n = "ram0" -> RamSize
    [] n = "proc" -> ProcSize
    [] n = "sda"  -> SdaSize % Word
    [] n = "file" -> file_size
    [] OTHER      -> 0

(* How much a read of a bounded node copies.  The sum has 32 bits: when it *)
(* wraps, the length is not cut.                                           *)
Clamped(off, len, size) ==
  IF off >= size THEN 0 ELSE IF (off + len) % Word > size THEN size - off ELSE len

(* The texts of procfs: made anew by every read, then copied from off on. *)
ProcRead(off, len) ==
  IF off >= ProcLen THEN 0 ELSE IF len < ProcLen - off THEN len ELSE ProcLen - off

(* null_read, zero_read, random_read, tty_read, dmesg_vfs_read, ram0_read: *)
(* how many bytes come back                                                *)
ReadAtOnce(n, off, len) ==
  CASE n = "zero" -> len
    [] n = "ram0" -> Clamped(off, len, RamSize)
    [] n = "proc" -> ProcRead(off, len)
    [] OTHER      -> 0

OnDisk(n) == n \in {"sda", "file"}

(* sda_read; fat32_file_read of a file with a cluster, which also ends     *)
(* with the chain                                                          *)
FileLength(off, len) ==
  LET left == IF off < SectorSize THEN SectorSize - off ELSE 0
      cut == Clamped(off, len, file_size)
  IN IF cut > left THEN left ELSE cut

DiskRead(n, off, len) ==
  IF n = "sda" THEN Request("sda_read", 0, off, SdaLength(off, len))
  ELSE Request("file_read", FileSector * SectorSize, off, FileLength(off, len))

DiskWrite(n, len) ==
  IF n = "sda" THEN Request("sda_write", 0, 0, len)
  ELSE Request("file_write", FileSector * SectorSize, 0, len)

-----------------------------------------------------------------------------
(* The program.  Calls that fail change nothing and are left out. *)
InProgram == up /\ running /\ io = NoIo

IsOpen(fd) == fds[fd] # Closed

SYS_OPEN(n) ==
  /\ InProgram /\ n \in nodes
  /\ \E fd \in Fds : ~IsOpen(fd)
  /\ LET slot == Min({fd \in Fds : ~IsOpen(fd)})
     IN /\ fds' = [fds EXCEPT ![slot] = [node |-> n, offset |-> 0]]
        /\ told' = [told EXCEPT ![slot] = 0]
  /\ UNCHANGED <<ahciVars, nodes, file_size, running, who, ramfiles, ramfile_count>>

SYS_CLOSE(fd) ==
  /\ InProgram /\ IsOpen(fd)
  /\ fds' = [fds EXCEPT ![fd] = Closed]
  /\ told' = [told EXCEPT ![fd] = 0]
  /\ UNCHANGED <<ahciVars, nodes, file_size, running, who, ramfiles, ramfile_count>>

(* The position moves by what was read, and the program is told so. *)
Moved_ByLength(fd, len, got) == (fds[fd].offset + len) % Word  \* mutant

Moved(fd, len, got) == (fds[fd].offset + got) % Word

(* SYS_READ of a node that answers at once, or up to the disk. *)
SYS_READ(fd, len) ==
  /\ InProgram /\ IsOpen(fd) /\ told[fd] + len <= MaxTold
  /\ LET n == fds[fd].node
         off == fds[fd].offset
         got == ReadAtOnce(n, off, len)
     IN IF OnDisk(n)
        THEN /\ io' = DiskRead(n, off, len)
             /\ who' = fd
             /\ UNCHANGED <<fds, told>>
        ELSE /\ fds' = [fds EXCEPT ![fd].offset = Moved(fd, len, got)]
             /\ told' = [told EXCEPT ![fd] = @ + got]
             /\ UNCHANGED <<io, who>>
  /\ UNCHANGED <<up, drive, active_port, disk_size, disk, hba, ahci_lock, free, kept, faults,
                 nodes, file_size, running, ramfiles, ramfile_count>>

SeekTarget(fd, offset, whence) ==
  CASE whence = "set" -> offset
    [] whence = "cur" -> fds[fd].offset + offset
    [] whence = "end" -> SizeOf(fds[fd].node) + offset

(* The offset is kept in 32 bits and returned in 64. *)
SYS_LSEEK(fd, offset, whence) ==
  /\ InProgram /\ IsOpen(fd)
  /\ LET new == SeekTarget(fd, offset, whence)
     IN /\ new >= 0
        /\ fds' = [fds EXCEPT ![fd].offset = new % Word]
        /\ told' = [told EXCEPT ![fd] = new]
  /\ UNCHANGED <<ahciVars, nodes, file_size, running, who, ramfiles, ramfile_count>>

(* The descriptors go with the task_t of the program. *)
SYS_EXIT ==
  /\ InProgram
  /\ running' = FALSE
  /\ fds' = NoFds /\ told' = [fd \in Fds |-> 0]
  /\ UNCHANGED <<ahciVars, nodes, file_size, who, ramfiles, ramfile_count>>

-----------------------------------------------------------------------------
(* The shell, which runs no command while a program runs. *)
AtPrompt == up /\ ~running /\ io = NoIo

(* cmd_exec; task_create clears the descriptors of the task_t it got from  *)
(* kmalloc.                                                                *)
cmd_exec ==
  /\ AtPrompt
  /\ running' = TRUE
  /\ fds' = NoFds /\ told' = [fd \in Fds |-> 0]
  /\ UNCHANGED <<ahciVars, nodes, file_size, who, ramfiles, ramfile_count>>

(* cat and vfswrite of a node on the disk; the other nodes answer at once  *)
(* and nothing here depends on what they hold.  A file's first write takes *)
(* its cluster.  Bound: the file stays in one cluster.                     *)
cmd_vfsread(n) ==
  /\ AtPrompt /\ n \in nodes /\ OnDisk(n)
  /\ io' = DiskRead(n, 0, MaxLen)
  /\ who' = Shell
  /\ UNCHANGED <<up, drive, active_port, disk_size, disk, hba, ahci_lock, free, kept, faults,
                 nodes, file_size, running, fds, told, ramfiles, ramfile_count>>

cmd_vfswrite(n, len) ==
  /\ AtPrompt /\ n \in nodes /\ OnDisk(n)
  /\ n = "file" => len <= SectorSize
  /\ io' = DiskWrite(n, len)
  /\ who' = Shell
  /\ UNCHANGED <<up, drive, active_port, disk_size, disk, hba, ahci_lock, free, kept, faults,
                 nodes, file_size, running, fds, told, ramfiles, ramfile_count>>

cmd_ahcitest ==
  /\ AtPrompt /\ active_port
  /\ io' = Request("ahcitest", 0, 0, SectorSize)
  /\ who' = Shell
  /\ UNCHANGED <<up, drive, active_port, disk_size, disk, hba, ahci_lock, free, kept, faults,
                 nodes, file_size, running, fds, told, ramfiles, ramfile_count>>

(* touch and rm, when a file system is mounted *)
cmd_touch ==
  /\ AtPrompt /\ "sda" \in nodes /\ "file" \notin nodes
  /\ nodes' = nodes \cup {"file"}
  /\ file_size' = 0
  /\ UNCHANGED <<ahciVars, running, fds, told, who, ramfiles, ramfile_count>>

cmd_rm ==
  /\ AtPrompt /\ "file" \in nodes
  /\ nodes' = nodes \ {"file"}
  /\ file_size' = 0
  /\ UNCHANGED <<ahciVars, running, fds, told, who, ramfiles, ramfile_count>>

-----------------------------------------------------------------------------
(* A request is over: the caller takes what was done.                      *)
request_returns ==
  /\ io.call # "none" /\ io.pc = "end"
  /\ io' = NoIo
  /\ IF who = Shell THEN UNCHANGED <<fds, told>>
     ELSE /\ fds' = [fds EXCEPT ![who].offset = Moved(who, io.len, io.done)]
          /\ told' = [told EXCEPT ![who] = @ + io.done]
  /\ file_size' = IF io.call = "file_write" /\ io.done > file_size THEN io.done ELSE file_size
  /\ nodes' = IF io.call = "identify" THEN nodes \cup {"sda"} ELSE nodes
  /\ who' = Shell
  /\ UNCHANGED <<up, drive, active_port, disk_size, disk, hba, ahci_lock, free, kept, faults,
                 running, ramfiles, ramfile_count>>

-----------------------------------------------------------------------------
(* The RAM disk.  It shares nothing with the other files, so its commands  *)
(* are interleaved with them only on a machine without a drive.            *)
RamSlots == 1..MaxRamFiles

FoundRam(name) == {s \in RamSlots : ramfiles[s] = name}
FreeRam        == FoundRam(Empty)

(* ramdisk_create over an existing file or in the first free slot; without *)
(* memory the name goes and the count stays.                               *)
cmd_ramwrite(name) ==
  /\ AtPrompt /\ ~drive
  /\ FoundRam(name) # {} \/ FreeRam # {}
  /\ LET slot == Min(IF FoundRam(name) # {} THEN FoundRam(name) ELSE FreeRam)
     IN \E memory \in BOOLEAN :
          /\ memory \/ ramfile_count <= MaxRamFails
          /\ ramfiles' = [ramfiles EXCEPT ![slot] = IF memory THEN name ELSE Empty]
  /\ ramfile_count' = IF FoundRam(name) = {} THEN ramfile_count + 1 ELSE ramfile_count
  /\ UNCHANGED <<ahciVars, nodes, file_size, running, fds, told, who>>

cmd_ramdel_NotFound(name) ==  \* mutant: the count goes down whether the name is there or not
  /\ AtPrompt /\ ~drive /\ ramfile_count > 0
  /\ ramfiles' = [s \in RamSlots |-> IF ramfiles[s] = name THEN Empty ELSE ramfiles[s]]
  /\ ramfile_count' = ramfile_count - 1
  /\ UNCHANGED <<ahciVars, nodes, file_size, running, fds, told, who>>

cmd_ramdel(name) ==
  /\ AtPrompt /\ ~drive /\ FoundRam(name) # {}
  /\ ramfiles' = [ramfiles EXCEPT ![Min(FoundRam(name))] = Empty]
  /\ ramfile_count' = ramfile_count - 1
  /\ UNCHANGED <<ahciVars, nodes, file_size, running, fds, told, who>>

-----------------------------------------------------------------------------
Init ==
  /\ ahciInit
  /\ nodes = BootNodes /\ file_size = 0 /\ running = FALSE
  /\ fds = NoFds
  /\ told = [fd \in Fds |-> 0]
  /\ who = Shell
  /\ ramfiles = [s \in RamSlots |-> Empty] /\ ramfile_count = 0

Program ==
  \/ \E n \in nodes : SYS_OPEN(n)
  \/ \E fd \in Fds : SYS_CLOSE(fd)
  \/ \E fd \in Fds, len \in 1..MaxLen : SYS_READ(fd, len)
  \/ \E fd \in Fds, offset \in SeekOffsets, whence \in Whences : SYS_LSEEK(fd, offset, whence)
  \/ SYS_EXIT

ShellCommand ==
  \/ cmd_exec \/ cmd_ahcitest \/ cmd_touch \/ cmd_rm
  \/ \E n \in nodes : cmd_vfsread(n)
  \/ \E n \in nodes, len \in 1..MaxLen : cmd_vfswrite(n, len)
  \/ \E name \in RamNames : cmd_ramwrite(name) \/ cmd_ramdel(name)

DriverStep     == Driver /\ UNCHANGED fileVars
ControllerStep == Controller /\ UNCHANGED fileVars

Next ==
  \/ ahci_init /\ UNCHANGED fileVars
  \/ DriverStep \/ ControllerStep \/ request_returns
  \/ Program \/ ShellCommand

(* The kernel runs on while a request is under way, and the controller     *)
(* ends what it was given.                                                 *)
Spec ==
  /\ Init /\ [][Next]_vars
  /\ WF_vars(DriverStep) /\ WF_vars(ControllerStep) /\ WF_vars(request_returns)

-----------------------------------------------------------------------------
(* The position kept for a descriptor is the one the program can work out  *)
(* from what read and lseek returned, short reads and disk errors          *)
(* included, up to 2^32; a program that was told to be beyond stands at    *)
(* the remainder, because lseek answers in 64 bits and keeps 32.           *)
PositionHonest ==
  running => \A fd \in Fds : fds[fd].offset = told[fd] % Word

(* What a read has copied so far is what is on the disk there; a write has *)
(* changed the bytes it was given and no others, whatever failed on the    *)
(* way.  The exception is a file's cluster that could not be read.         *)
TransferExact ==
  /\ io.call \in {"sda_read", "file_read"} =>
       io.buf = SubSeq(disk, io.base + io.off + 1, Pos(io))
  /\ io.call \in Writes /\ ~io.zeroed =>
       \A k \in 1..DriveSize :
         LET j == k - io.base - io.off
         IN IF j \in 1..io.done THEN disk[k] = Data(j)
            ELSE IF j \in (io.done + 1)..io.len THEN disk[k] \in {Data(j), io.was[k]}
            ELSE disk[k] = io.was[k]

(* While the controller works on a command, the page it reads or writes    *)
(* still belongs to the caller.                                            *)
DmaPageHeld == hba.pending # {} => io.call # "none" /\ io.held

(* Between requests the driver holds no lock and no page but those of its  *)
(* tables and the one cmd_ahcitest keeps, on every way out.                *)
NothingHeld ==
  /\ io = NoIo => ~ahci_lock
  /\ \E n \in PageCounts :
       free + kept + (IF io.call # "none" /\ io.held THEN 1 ELSE 0) = n

(* ramls looks at the count: files are never hidden behind a count of 0. *)
RamFilesCounted == ramfile_count >= Cardinality({s \in RamSlots : ramfiles[s] # Empty})

(* Every request returns. *)
RequestReturns == io # NoIo ~> io = NoIo
=============================================================================
