---------------------------- MODULE FilesProofs ----------------------------
(***************************************************************************)
(* Proofs about the disk driver and the files above it, for every number   *)
(* and size of sectors, every number of pages, descriptors, failures of    *)
(* the controller and requests.                                            *)
(***************************************************************************)
EXTENDS Files, FiniteSetTheorems, SequenceTheorems, TLAPS

Calls    == Reads \cup Writes \cup {"identify"}
Active   == {"begin", "ready", "wait", "back"}
Page     == [1..SectorSize -> Int]
AllNodes == BootNodes \cup {"sda", "file", "none"}

Requests ==
  [call : Calls, base : Nat, off : Nat, len : Nat, done : Nat,
   pc : Active \cup {"page", "end"}, op : {"none", "read", "write", "identify"},
   slot : Slots, ok : BOOLEAN, held : BOOLEAN, mem : {<<>>} \cup Page, buf : Seq(Int),
   was : [1..DriveSize -> Int], zeroed : BOOLEAN]

AhciTypes ==
  /\ up \in BOOLEAN /\ drive \in BOOLEAN /\ active_port \in BOOLEAN
  /\ disk_size \in {0, DriveSize}
  /\ disk \in [1..DriveSize -> Int]
  /\ DOMAIN hba = {"ci", "tfes", "pending"}
  /\ hba.ci \in SUBSET Slots /\ hba.tfes \in BOOLEAN
  /\ ahci_lock \in BOOLEAN
  /\ free \in Nat /\ kept \in Nat /\ faults \in Nat
  /\ io \in Requests \cup {NoIo}

(* The command the driver gave to the controller is that of the request.   *)
Command(i) == [slot |-> i.slot, op |-> i.op, lba |-> Sector(i),
               page |-> IF i.op = "write" THEN Merged(i) ELSE <<>>]

CommandInv ==
  IF io = NoIo THEN hba.pending = {} /\ ~ahci_lock
  ELSE /\ io.done <= io.len
       /\ io.held <=> io.pc \in Active
       /\ io.pc \in Active => io.done < io.len /\ io.mem \in Page
       /\ ahci_lock <=> io.pc \in {"ready", "wait"}
       /\ io.pc = "ready" => ~hba.tfes
       /\ hba.pending # {} => /\ io.pc = "wait" /\ io.slot \in hba.ci /\ ~hba.tfes
                              /\ hba.pending = {Command(io)}

PagesInv ==
  /\ ~up => kept = 0 /\ io = NoIo
  /\ \E n \in PageCounts : free + kept + (IF io # NoIo /\ io.held THEN 1 ELSE 0) = n

PositionInv ==
  /\ fds \in [Fds -> [node : AllNodes, offset : Nat]]
  /\ told \in [Fds -> Nat]
  /\ nodes \subseteq AllNodes
  /\ file_size \in Nat
  /\ \A fd \in Fds : fds[fd].offset = told[fd] % Word
  /\ who \in Fds \cup {Shell}
  /\ io = NoIo => who = Shell

RamInv ==
  /\ ramfiles \in [RamSlots -> RamNames \cup {Empty}]
  /\ ramfile_count \in Int
  /\ RamFilesCounted

PageRead(i) == i.mem = Contents(Sector(i)) /\ Sector(i) < Sectors

(* What the operations of a call are, and what its page holds. *)
OpInv ==
  io # NoIo =>
    /\ io.pc \in Active =>
         /\ io.call \in Reads => io.op = "read"
         /\ io.call = "identify" <=> io.op = "identify"
         /\ io.op # "none"
         /\ io.call \in Writes /\ io.op = "write" =>
              \/ io.pc \in {"wait", "back"} /\ hba.pending = {}
              \/ Partial(io) => io.zeroed \/ PageRead(io)
    /\ io.pc = "page" /\ io.mem # <<>> =>
         /\ io.call = "file_write"
         /\ io.zeroed \/ PageRead(io)

(* A command that succeeded was executed. *)
Executed(i) ==
  /\ i.op = "read" => PageRead(i)
  /\ i.op = "write" => \A k \in 1..DriveSize :
        k - i.base - i.off \in (i.done + 1)..(i.done + Chunk(i)) =>
        disk[k] = Data(k - i.base - i.off)

ExecutedInv ==
  io # NoIo /\ (\/ io.pc = "wait" /\ hba.pending = {} /\ ~hba.tfes
                \/ io.pc = "back" /\ io.ok)
  => Executed(io)

FilesInv ==
  /\ AhciTypes /\ CommandInv /\ PagesInv /\ PositionInv /\ RamInv
  /\ OpInv /\ ExecutedInv /\ TransferExact

-----------------------------------------------------------------------------
(* The least element of a set of natural numbers, as FiniteSetsExt has it. *)
LEMMA MinIsLeast ==
  ASSUME NEW S \in SUBSET Nat, S # {}
  PROVE  Min(S) \in S /\ \A y \in S : Min(S) <= y
<1>1. PICK x \in S : \A y \in S : ~(<<y, x>> \in OpToRel(<, Nat))
  BY NatLessThanWellFounded, WFMin
<1>2. ASSUME NEW y \in S PROVE x <= y
  <2>1. \A p \in Nat \X Nat : p \in OpToRel(<, Nat) <=> p[1] < p[2]
    BY DEF OpToRel
  <2>2. <<y, x>> \in Nat \X Nat /\ ~(<<y, x>> \in OpToRel(<, Nat))
    BY <1>1
  <2>3. ~(y < x)
    BY <2>1, <2>2
  <2>. QED BY <2>3
<1>. QED BY <1>2 DEF Min

LEMMA MinOfTwo ==
  ASSUME NEW a \in Int, NEW b \in Int
  PROVE  Min({a, b}) = IF a <= b THEN a ELSE b
<1>. DEFINE least == IF a <= b THEN a ELSE b
<1>1. least \in {a, b} /\ \A y \in {a, b} : least <= y
  OBVIOUS
<1>2. \A x \in {a, b} : (\A y \in {a, b} : x <= y) => x = least
  OBVIOUS
<1>. HIDE DEF least
<1>3. Min({a, b}) = least
  BY <1>1, <1>2 DEF Min
<1>. QED BY <1>3 DEF least

(* A chunk is not empty, stays in its sector and in the request. *)
LEMMA ChunkBounds ==
  ASSUME NEW i \in Requests, i.done < i.len
  PROVE  /\ Pos(i) \in Nat /\ Sector(i) \in Nat
         /\ Pos(i) = Sector(i) * SectorSize + Skip(i)
         /\ Skip(i) \in 0..(SectorSize - 1)
         /\ Chunk(i) \in 1..SectorSize
         /\ Skip(i) + Chunk(i) <= SectorSize
         /\ i.done + Chunk(i) <= i.len
<1>. USE AhciAssumption
<1>1. i.base \in Nat /\ i.off \in Nat /\ i.len \in Nat /\ i.done \in Nat
  BY DEF Requests
<1>2. Pos(i) \in Nat
  BY <1>1 DEF Pos
<1>3. \A x \in Nat : /\ x \div SectorSize \in Nat /\ x % SectorSize \in 0..(SectorSize - 1)
                     /\ x = (x \div SectorSize) * SectorSize + (x % SectorSize)
  OBVIOUS
<1>4. /\ Sector(i) \in Nat /\ Skip(i) \in 0..(SectorSize - 1)
      /\ Pos(i) = Sector(i) * SectorSize + Skip(i)
  BY <1>2, <1>3 DEF Sector, Skip
<1>5. Chunk(i) = IF SectorSize - Skip(i) <= i.len - i.done
                 THEN SectorSize - Skip(i) ELSE i.len - i.done
  BY <1>1, <1>4, MinOfTwo DEF Chunk
<1>. QED BY <1>1, <1>2, <1>4, <1>5

(* The bytes of a sector of the drive. *)
LEMMA SectorOnDrive ==
  ASSUME NEW lba \in Nat, lba < Sectors
  PROVE  (lba + 1) * SectorSize <= DriveSize
<1>. USE AhciAssumption
<1>1. \A a, b, c \in Nat : a <= b => a * c <= b * c
  OBVIOUS
<1>2. (lba + 1) * SectorSize <= Sectors * SectorSize
  BY <1>1
<1>. QED BY <1>2 DEF DriveSize

LEMMA ContentsIsPage ==
  ASSUME NEW lba \in Nat, lba < Sectors, disk \in [1..DriveSize -> Int]
  PROVE  /\ Contents(lba) \in Page
         /\ \A k \in 1..SectorSize : Contents(lba)[k] = disk[lba * SectorSize + k]
<1>. USE AhciAssumption
<1>. DEFINE a == lba * SectorSize
            b == (lba + 1) * SectorSize
<1>1. a \in Nat /\ b \in Nat /\ b = a + SectorSize /\ b <= DriveSize /\ DriveSize \in Nat
  BY SectorOnDrive DEF DriveSize
<1>. HIDE DEF a, b
<1>2. \A k \in (a + 1)..b : disk[k] \in Int
  BY <1>1
<1>3. /\ SubSeq(disk, a + 1, b) \in Seq(Int)
      /\ Len(SubSeq(disk, a + 1, b)) = SectorSize
      /\ \A k \in 1..SectorSize : SubSeq(disk, a + 1, b)[k] = disk[a + k]
  BY <1>1, <1>2, SubSeqProperties
<1>4. Contents(lba) = SubSeq(disk, a + 1, b)
  BY DEF Contents, a, b
<1>5. Contents(lba) \in Page
  BY <1>3, <1>4, LenProperties DEF Page
<1>. QED BY <1>3, <1>4, <1>5 DEF a

-----------------------------------------------------------------------------
(* Which requests there are, and how they begin. *)
LEMMA UnderWay ==
  ASSUME AhciTypes
  PROVE  (io # NoIo <=> io \in Requests) /\ (io.call # "none" <=> io \in Requests)
<1>1. NoIo.call = "none" /\ \A i \in Requests : i.call # "none"
  BY DEF NoIo, Requests, Calls, Reads, Writes
<1>. QED BY <1>1 DEF AhciTypes

LEMMA RequestBegins ==
  ASSUME disk \in [1..DriveSize -> Int],
         NEW call \in Calls, NEW base \in Nat, NEW off \in Nat, NEW len \in Nat
  PROVE  /\ Request(call, base, off, len) \in Requests
         /\ Request(call, base, off, len) # NoIo
<1>1. 0 \in Slots
  BY AhciAssumption DEF Slots
<1>2. Request(call, base, off, len) \in Requests
  BY <1>1 DEF Request, Requests, Active
<1>. QED BY <1>2 DEF Request, Requests, NoIo, Calls, Reads, Writes

(* What a program or the shell may do to the driver: leave it alone, or    *)
(* give it a request when it has none.                                     *)
DriverAlone ==
  UNCHANGED <<up, drive, active_port, disk_size, disk, hba, ahci_lock, free, kept, faults>>

Begins ==
  /\ io = NoIo /\ up /\ DriverAlone
  /\ \/ io' = NoIo
     \/ \E call \in Calls \ {"identify"}, base, off, len \in Nat : io' = Request(call, base, off, len)

LEMMA SizesAreNat ==
  ASSUME AhciTypes, PositionInv
  PROVE  /\ SdaSize \in Nat
         /\ \A n \in AllNodes : SizeOf(n) \in Nat
<1>. USE AhciAssumption, FilesAssumption
<1>1. SdaSize \in Nat
  BY DEF AhciTypes, SdaSize, DriveSize
<1>2. SdaSize % Word \in Nat
  BY <1>1
<1>. QED BY <1>1, <1>2 DEF SizeOf, AllNodes, BootNodes, PositionInv

(* Arithmetic of 32 bits. *)
LEMMA ModBounds ==
  ASSUME NEW x \in Nat
  PROVE  x % Word \in Nat /\ x % Word <= x
BY AhciAssumption

LEMMA ModIsRest ==
  ASSUME NEW W \in Nat \ {0}, NEW k \in Int, NEW rest \in 0..(W - 1)
  PROVE  (W * k + rest) % W = rest
<1>. DEFINE x == W * k + rest
            q == x \div W
            m == x % W
<1>1. x \in Int /\ q \in Int /\ m \in 0..(W - 1) /\ x = W * q + m
  OBVIOUS
<1>2. W * (k - q) = m - rest
  BY <1>1
<1>3. m - rest < W /\ m - rest > -W
  BY <1>1
<1>. HIDE DEF x, q, m
<1>4. k - q < 1
  <2>1. k - q >= 1 => W * (k - q) >= W
    BY <1>1
  <2>. QED BY <1>1, <1>2, <1>3, <2>1
<1>5. k - q > -1
  <2>1. k - q <= -1 => W * (k - q) <= -W
    BY <1>1
  <2>. QED BY <1>1, <1>2, <1>3, <2>1
<1>6. k - q = 0
  BY <1>1, <1>4, <1>5
<1>7. W * (k - q) = 0
  BY <1>6
<1>8. m = rest
  BY <1>1, <1>2, <1>7
<1>. QED BY <1>8 DEF m, x

LEMMA ModAgain ==
  ASSUME NEW x \in Nat, NEW d \in Nat
  PROVE  ((x % Word) + d) % Word = (x + d) % Word
<1>. USE AhciAssumption
<1>. DEFINE q == x \div Word
            y == (x % Word) + d
            p == y \div Word
            m == y % Word
<1>1. q \in Int /\ x % Word \in Nat /\ x = Word * q + (x % Word)
  OBVIOUS
<1>2. y \in Nat /\ p \in Int /\ m \in 0..(Word - 1) /\ y = Word * p + m
  BY <1>1
<1>3. x + d = Word * q + y
  BY <1>1
<1>. HIDE DEF q, p, m, y
<1>4. Word * q + Word * p = Word * (q + p)
  BY <1>1, <1>2
<1>5. x + d = Word * (q + p) + m
  <2>1. Word * q \in Int /\ Word * p \in Int /\ Word * (q + p) \in Int
    BY <1>1, <1>2
  <2>. QED BY <1>2, <1>3, <1>4, <2>1
<1>6. (x + d) % Word = m
  <2>1. q + p \in Int
    BY <1>1, <1>2
  <2>. QED BY <1>2, <1>5, <2>1, ModIsRest
<1>. QED BY <1>6 DEF m, y

(* A read of len bytes is answered by at most len. *)
LEMMA ReadsAreShort ==
  ASSUME AhciTypes, PositionInv, NEW off \in Nat, NEW len \in Nat
  PROVE  /\ SdaLength(off, len) \in 0..len
         /\ \A size \in Nat : Clamped(off, len, size) \in 0..len
         /\ \A n \in AllNodes : ReadAtOnce(n, off, len) \in 0..len
<1>. USE AhciAssumption, FilesAssumption
<1>1. (off + len) % Word \in Nat /\ (off + len) % Word <= off + len
  BY ModBounds
<1>2. SdaLength(off, len) \in 0..len
  BY <1>1, SizesAreNat DEF SdaLength
<1>3. \A size \in Nat : Clamped(off, len, size) \in 0..len
  BY <1>1 DEF Clamped
<1>4. \A n \in AllNodes : ReadAtOnce(n, off, len) \in 0..len
  BY <1>3 DEF ReadAtOnce, ProcRead
<1>. QED BY <1>2, <1>3, <1>4

LEMMA DiskReadBegins ==
  ASSUME AhciTypes, PositionInv, NEW n, NEW off \in Nat, NEW len \in Nat
  PROVE  \E call \in Calls \ {"identify"}, base \in Nat, l \in 0..len :
            DiskRead(n, off, len) = Request(call, base, off, l)
<1>. USE AhciAssumption, FilesAssumption
<1>1. SdaLength(off, len) \in 0..len /\ FileLength(off, len) \in 0..len
  <2>1. SdaLength(off, len) \in 0..len /\ Clamped(off, len, file_size) \in 0..len
    BY ReadsAreShort DEF PositionInv
  <2>. DEFINE cut == Clamped(off, len, file_size)
              left == IF off < SectorSize THEN SectorSize - off ELSE 0
  <2>2. left \in Nat
    OBVIOUS
  <2>3. FileLength(off, len) = IF cut > left THEN left ELSE cut
    BY DEF FileLength
  <2>. HIDE DEF cut, left
  <2>. QED BY <2>1, <2>2, <2>3 DEF cut
<1>2. FileSector * SectorSize \in Nat /\ 0 \in Nat
  OBVIOUS
<1>3. {"sda_read", "file_read"} \subseteq Calls \ {"identify"}
  BY DEF Calls, Reads
<1>. QED BY <1>1, <1>2, <1>3, Zenon DEF DiskRead

LEMMA CallersBegin ==
  ASSUME AhciTypes, PositionInv, Program \/ ShellCommand
  PROVE  Begins
<1>. USE AhciAssumption, FilesAssumption
<1>1. ASSUME NEW n \in nodes, SYS_OPEN(n) PROVE Begins
  BY <1>1 DEF SYS_OPEN, Begins, DriverAlone, InProgram, ahciVars
<1>2. ASSUME NEW fd \in Fds, SYS_CLOSE(fd) PROVE Begins
  BY <1>2 DEF SYS_CLOSE, Begins, DriverAlone, InProgram, ahciVars
<1>3. ASSUME NEW fd \in Fds, NEW len \in 1..MaxLen, SYS_READ(fd, len) PROVE Begins
  <2>0. /\ fds[fd].offset \in Nat /\ len \in Nat
        /\ io = NoIo /\ up /\ DriverAlone
    BY <1>3 DEF SYS_READ, PositionInv, InProgram, DriverAlone
  <2>1. CASE OnDisk(fds[fd].node)
    <3>1. io' = DiskRead(fds[fd].node, fds[fd].offset, len)
      BY <1>3, <2>1 DEF SYS_READ
    <3>2. PICK call \in Calls \ {"identify"}, base \in Nat, l \in 0..len :
            DiskRead(fds[fd].node, fds[fd].offset, len) = Request(call, base, fds[fd].offset, l)
      <4>. DEFINE n == fds[fd].node
                  off == fds[fd].offset
      <4>1. off \in Nat /\ len \in Nat
        BY <2>0
      <4>. HIDE DEF n, off
      <4>2. \E call \in Calls \ {"identify"}, base \in Nat, l \in 0..len :
              DiskRead(n, off, len) = Request(call, base, off, l)
        BY <4>1, DiskReadBegins
      <4>. QED BY <4>2 DEF n, off
    <3>3. l \in Nat
      OBVIOUS
    <3>. QED BY <2>0, <3>1, <3>2, <3>3, Zenon DEF Begins
  <2>2. CASE ~OnDisk(fds[fd].node)
    BY <1>3, <2>0, <2>2 DEF SYS_READ, Begins
  <2>. QED BY <2>1, <2>2
<1>4. ASSUME NEW fd \in Fds, NEW offset \in SeekOffsets, NEW whence \in Whences,
             SYS_LSEEK(fd, offset, whence) PROVE Begins
  BY <1>4 DEF SYS_LSEEK, Begins, DriverAlone, InProgram, ahciVars
<1>5. ASSUME SYS_EXIT \/ cmd_exec \/ cmd_touch \/ cmd_rm PROVE Begins
  BY <1>5 DEF SYS_EXIT, cmd_exec, cmd_touch, cmd_rm, Begins, DriverAlone, InProgram, AtPrompt, ahciVars
<1>6. ASSUME cmd_ahcitest PROVE Begins
  <2>1. "ahcitest" \in Calls \ {"identify"} /\ 0 \in Nat /\ SectorSize \in Nat
    BY DEF Calls, Reads
  <2>2. io' = Request("ahcitest", 0, 0, SectorSize) /\ io = NoIo /\ up /\ DriverAlone
    BY <1>6 DEF cmd_ahcitest, AtPrompt, DriverAlone
  <2>. QED BY <2>1, <2>2, Zenon DEF Begins
<1>7. ASSUME NEW n \in nodes, cmd_vfsread(n) PROVE Begins
  <2>1. io' = DiskRead(n, 0, MaxLen) /\ io = NoIo /\ up /\ DriverAlone
    BY <1>7 DEF cmd_vfsread, AtPrompt, DriverAlone
  <2>2. PICK call \in Calls \ {"identify"}, base \in Nat, l \in 0..MaxLen :
          DiskRead(n, 0, MaxLen) = Request(call, base, 0, l)
    BY DiskReadBegins
  <2>3. l \in Nat /\ 0 \in Nat
    OBVIOUS
  <2>. QED BY <2>1, <2>2, <2>3, Zenon DEF Begins
<1>8. ASSUME NEW n \in nodes, NEW len \in 1..MaxLen, cmd_vfswrite(n, len) PROVE Begins
  <2>1. io' = DiskWrite(n, len) /\ io = NoIo /\ up /\ DriverAlone
    BY <1>8 DEF cmd_vfswrite, AtPrompt, DriverAlone
  <2>2. {"sda_write", "file_write"} \subseteq Calls \ {"identify"}
    BY DEF Calls, Writes
  <2>3. FileSector * SectorSize \in Nat /\ 0 \in Nat /\ len \in Nat
    OBVIOUS
  <2>. QED BY <2>1, <2>2, <2>3, Zenon DEF Begins, DiskWrite
<1>9. ASSUME NEW name \in RamNames, cmd_ramwrite(name) \/ cmd_ramdel(name) PROVE Begins
  BY <1>9 DEF cmd_ramwrite, cmd_ramdel, Begins, DriverAlone, AtPrompt, ahciVars
<1>. QED
  BY <1>1, <1>2, <1>3, <1>4, <1>5, <1>6, <1>7, <1>8, <1>9 DEF Program, ShellCommand

-----------------------------------------------------------------------------
(* The driver and the controller work on the request that is there: what   *)
(* it asks for stays as it is.                                             *)
SameRequest ==
  /\ io \in Requests /\ io' \in Requests
  /\ io'.call = io.call /\ io'.base = io.base /\ io'.off = io.off
  /\ io'.len = io.len /\ io'.was = io.was

LEMMA AdvanceOfRequest ==
  ASSUME NEW i \in Requests, i.done < i.len
  PROVE  /\ Advance(i) \in Requests
         /\ Advance(i) = [i EXCEPT !.pc = "page", !.held = FALSE, !.mem = <<>>,
                                   !.done = i.done + Chunk(i)]
         /\ \A f \in {"call", "base", "off", "len", "was", "op", "ok", "buf", "zeroed"} :
              Advance(i)[f] = i[f]
<1>1. i.done + Chunk(i) \in Nat
  BY ChunkBounds DEF Requests
<1>. DEFINE d == i.done + Chunk(i)
<1>2. Advance(i) = [i EXCEPT !.pc = "page", !.held = FALSE, !.mem = <<>>, !.done = d]
  BY DEF Advance, Requests
<1>. HIDE DEF d
<1>3. Advance(i) \in Requests
  BY <1>1, <1>2 DEF Requests, d
<1>4. \A f \in {"call", "base", "off", "len", "was", "op", "ok", "buf", "zeroed"} : Advance(i)[f] = i[f]
  BY <1>2 DEF Requests
<1>. QED BY <1>2, <1>3, <1>4 DEF d

LEMMA StopOfRequest ==
  ASSUME NEW i \in Requests
  PROVE  /\ Stop(i) \in Requests
         /\ \A f \in {"call", "base", "off", "len", "was", "done", "mem", "op", "ok", "buf", "zeroed"} :
              Stop(i)[f] = i[f]
         /\ Stop(i).pc = "end" /\ Stop(i).held = FALSE
BY DEF Stop, Requests

LEMMA DriverTypes ==
  ASSUME AhciTypes, CommandInv, Driver
  PROVE  AhciTypes' /\ SameRequest
<1>. USE AhciAssumption
<1>r. io \in Requests /\ io # NoIo
  BY UnderWay DEF Driver, ahci_begin, ahci_issue, ahci_timeout, ahci_wait, next_sector, read_back,
        sda_write_back, file_write_back, identify_back, ahcitest_back
<1>a. io.pc \in Active => io.done < io.len /\ io.mem \in Page
  BY <1>r DEF CommandInv
<1>z. [k \in 1..SectorSize |-> 0] \in Page
  BY DEF Page
<1>1. CASE ahci_begin
  <2>1. FreeSlot \in Slots
    <3>1. Slots \subseteq Nat /\ 0 \in Slots
      BY DEF Slots
    <3>2. ~(Slots \subseteq hba.ci) => Slots \ hba.ci # {} /\ Slots \ hba.ci \in SUBSET Nat
      BY <3>1
    <3>. QED BY <3>1, <3>2, MinIsLeast DEF FreeSlot
  <2>. QED BY <1>r, <1>1, <2>1 DEF ahci_begin, AhciTypes, SameRequest, Requests, Active
<1>2. CASE ahci_issue
  <2>1. io.slot \in Slots
    BY <1>r DEF Requests
  <2>. QED BY <1>r, <1>2, <2>1 DEF ahci_issue, AhciTypes, SameRequest, Requests, Active
<1>3. CASE ahci_timeout
  <2>1. SameRequest
    BY <1>r, <1>3 DEF ahci_timeout, SameRequest, Requests, Active
  <2>f. faults \in Nat /\ faults' = faults + 1
    BY <1>3 DEF ahci_timeout, AhciTypes
  <2>2. faults' \in Nat
    BY <2>f
  <2>. QED BY <1>3, <2>1, <2>2 DEF ahci_timeout, AhciTypes, SameRequest
<1>4. CASE ahci_wait
  BY <1>r, <1>4 DEF ahci_wait, AhciTypes, SameRequest, Requests, Active
<1>5. CASE next_sector
  <2>1. FirstOp(io) \in {"read", "write", "identify"}
    BY DEF FirstOp
  <2>. DEFINE mem == IF Len(io.mem) = SectorSize THEN io.mem ELSE [k \in 1..SectorSize |-> 0]
  <2>2. mem \in {<<>>} \cup Page
    BY <1>r, <1>z DEF Requests
  <2>3. CASE io.done < io.len /\ free > 0
    <3>. HIDE DEF mem
    <3>1. io' = [io EXCEPT !.pc = "begin", !.held = TRUE, !.op = FirstOp(io), !.mem = mem]
      BY <1>5, <2>3, <1>r DEF next_sector, mem, Requests
    <3>2. SameRequest
      BY <1>r, <3>1, <2>1, <2>2 DEF SameRequest, Requests, Active
    <3>. QED BY <1>5, <2>3, <3>2 DEF next_sector, AhciTypes, SameRequest
  <2>4. CASE ~(io.done < io.len /\ free > 0)
    <3>1. SameRequest
      BY <1>r, <1>5, <2>4 DEF next_sector, SameRequest, Requests
    <3>. QED BY <1>5, <2>4, <3>1 DEF next_sector, AhciTypes, SameRequest
  <2>. QED BY <2>3, <2>4
<1>6. CASE read_back
  <2>1. io.pc = "back" /\ io.done < io.len /\ io.mem \in Page
    BY <1>6, <1>a DEF read_back, Active
  <2>. DEFINE part == SubSeq(io.mem, Skip(io) + 1, Skip(io) + Chunk(io))
  <2>2. part \in Seq(Int)
    <3>0. /\ Skip(io) \in 0..(SectorSize - 1) /\ Chunk(io) \in 1..SectorSize
          /\ Skip(io) + Chunk(io) <= SectorSize
      BY <1>r, <2>1, ChunkBounds, Zenon
    <3>1. Skip(io) + 1 \in Int /\ Skip(io) + Chunk(io) \in Int
          /\ \A k \in (Skip(io) + 1)..(Skip(io) + Chunk(io)) : io.mem[k] \in Int
      BY <3>0, <2>1 DEF Page
    <3>. QED BY <3>1, SubSeqProperties
  <2>. HIDE DEF part
  <2>3. io.buf \o part \in Seq(Int)
    BY <1>r, <2>2, ConcatProperties DEF Requests
  <2>4. CASE io.ok
    <3>1. io' = [Advance(io) EXCEPT !.buf = io.buf \o part]
      BY <1>6, <2>4, <1>r, <2>1, AdvanceOfRequest DEF read_back, part, Requests
    <3>2. SameRequest
      BY <1>r, <3>1, <2>1, <2>3, AdvanceOfRequest DEF SameRequest, Requests
    <3>. QED BY <1>6, <3>2 DEF read_back, AhciTypes, SameRequest
  <2>5. CASE ~io.ok
    <3>1. SameRequest
      BY <1>r, <1>6, <2>5, StopOfRequest DEF read_back, SameRequest
    <3>. QED BY <1>6, <3>1 DEF read_back, AhciTypes, SameRequest
  <2>. QED BY <2>4, <2>5
<1>7. CASE sda_write_back
  <2>1. io.done < io.len
    BY <1>7, <1>a DEF sda_write_back, Active
  <2>2. SameRequest
    <3>1. CASE ~io.ok
      BY <1>r, <1>7, <3>1, StopOfRequest DEF sda_write_back, SameRequest
    <3>2. CASE io.ok /\ io.op = "read"
      BY <1>r, <1>7, <3>2 DEF sda_write_back, SameRequest, Requests, Active
    <3>3. CASE io.ok /\ io.op # "read"
      BY <1>r, <1>7, <2>1, <3>3, AdvanceOfRequest DEF sda_write_back, SameRequest
    <3>. QED BY <3>1, <3>2, <3>3
  <2>. QED BY <1>7, <2>2 DEF sda_write_back, AhciTypes, SameRequest
<1>8. CASE file_write_back
  <2>1. io.done < io.len /\ io.mem \in Page
    BY <1>8, <1>a DEF file_write_back, Active
  <2>2. SameRequest
    <3>1. CASE io.op = "read"
      <4>. DEFINE mem == IF io.ok THEN io.mem ELSE [k \in 1..SectorSize |-> 0]
      <4>1. mem \in Page
        BY <2>1, <1>z
      <4>. HIDE DEF mem
      <4>2. io' = [io EXCEPT !.pc = "page", !.held = FALSE, !.zeroed = io.zeroed \/ ~io.ok, !.mem = mem]
        BY <1>r, <1>8, <3>1 DEF file_write_back, mem, Requests
      <4>3. (io.zeroed \/ ~io.ok) \in BOOLEAN
        OBVIOUS
      <4>. QED BY <1>r, <4>1, <4>2, <4>3 DEF SameRequest, Requests
    <3>2. CASE io.op # "read" /\ ~io.ok
      BY <1>r, <1>8, <3>2, StopOfRequest DEF file_write_back, SameRequest
    <3>3. CASE io.op # "read" /\ io.ok
      BY <1>r, <1>8, <2>1, <3>3, AdvanceOfRequest DEF file_write_back, SameRequest
    <3>. QED BY <3>1, <3>2, <3>3
  <2>. QED BY <1>8, <2>2 DEF file_write_back, AhciTypes, SameRequest
<1>9. CASE identify_back
  <2>1. SameRequest
    BY <1>r, <1>9, StopOfRequest DEF identify_back, SameRequest
  <2>. QED BY <1>9, <2>1 DEF identify_back, AhciTypes, SameRequest
<1>10. CASE ahcitest_back
  <2>1. SameRequest
    BY <1>r, <1>10, StopOfRequest DEF ahcitest_back, SameRequest
  <2>. QED BY <1>10, <2>1 DEF ahcitest_back, AhciTypes, SameRequest
<1>. QED BY <1>1, <1>2, <1>3, <1>4, <1>5, <1>6, <1>7, <1>8, <1>9, <1>10 DEF Driver

LEMMA ControllerTypes ==
  ASSUME AhciTypes, CommandInv, Controller
  PROVE  /\ AhciTypes' /\ SameRequest
         /\ io.pc = "wait" /\ hba.pending = {Command(io)}
<1>. USE AhciAssumption
<1>p. hba.pending # {}
  BY DEF Controller, HbaCompletes, HbaFails
<1>r. io \in Requests /\ io # NoIo /\ io.pc = "wait" /\ hba.pending = {Command(io)}
      /\ io.done < io.len /\ io.mem \in Page
  BY <1>p, UnderWay DEF CommandInv, Active
<1>1. CASE HbaFails
  BY <1>r, <1>1 DEF HbaFails, AhciTypes, SameRequest, Requests
<1>2. CASE HbaCompletes
  <2>. DEFINE c == Command(io)
  <2>1. /\ c.op = io.op /\ c.slot = io.slot /\ c.lba = Sector(io)
        /\ c.op = "write" => c.page = Merged(io)
    BY DEF Command
  <2>2. Sector(io) \in Nat
    BY <1>r, ChunkBounds
  <2>. HIDE DEF c
  <2>3. /\ c.op # "identify" => c.lba < Sectors
        /\ hba' = [hba EXCEPT !.ci = @ \ {c.slot}, !.pending = {}]
        /\ io' = IF c.op = "read" THEN [io EXCEPT !.mem = Contents(c.lba)] ELSE io
        /\ disk' = IF c.op # "write" THEN disk
                  ELSE [k \in 1..DriveSize |-> IF (k - 1) \div SectorSize = c.lba
                                               THEN c.page[((k - 1) % SectorSize) + 1]
                                               ELSE disk[k]]
    BY <1>r, <1>2 DEF HbaCompletes, c
  <2>4. SameRequest
    <3>1. CASE io.op = "read"
      <4>1. Contents(Sector(io)) \in Page
        BY <2>1, <2>2, <2>3, <3>1, ContentsIsPage DEF AhciTypes
      <4>. QED BY <1>r, <2>1, <2>3, <3>1, <4>1 DEF SameRequest, Requests
    <3>2. CASE io.op # "read"
      BY <1>r, <2>1, <2>3, <3>2 DEF SameRequest, Requests
    <3>. QED BY <3>1, <3>2
  <2>5. disk' \in [1..DriveSize -> Int]
    <3>1. CASE io.op # "write"
      BY <2>1, <2>3, <3>1 DEF AhciTypes
    <3>2. CASE io.op = "write"
      <4>1. \A k \in 1..SectorSize : Merged(io)[k] \in Int
        <5>0. Skip(io) \in 0..(SectorSize - 1) /\ Chunk(io) \in 1..SectorSize
          BY <1>r, ChunkBounds, Zenon
        <5>1. io.done \in Nat /\ Skip(io) \in Int /\ Chunk(io) \in Int
              /\ \A k \in 1..SectorSize : io.mem[k] \in Int
          BY <1>r, <5>0 DEF Page, Requests
        <5>2. \A k \in 1..SectorSize : io.done + k - Skip(io) \in Int
          BY <5>1
        <5>. QED BY <5>1, <5>2 DEF Merged, Data
      <4>2. \A k \in 1..DriveSize : ((k - 1) % SectorSize) + 1 \in 1..SectorSize
        BY DEF DriveSize
      <4>3. \A k \in 1..DriveSize : c.page[((k - 1) % SectorSize) + 1] \in Int /\ disk[k] \in Int
        BY <2>1, <3>2, <4>1, <4>2 DEF AhciTypes
      <4>. QED BY <2>1, <2>3, <3>2, <4>3
    <3>. QED BY <3>1, <3>2
  <2>6. /\ DOMAIN hba' = {"ci", "tfes", "pending"}
        /\ hba'.ci \in SUBSET Slots /\ hba'.tfes \in BOOLEAN
    BY <2>3 DEF AhciTypes
  <2>. QED BY <1>r, <1>2, <2>4, <2>5, <2>6 DEF HbaCompletes, AhciTypes, SameRequest
<1>. QED BY <1>r, <1>1, <1>2 DEF Controller

-----------------------------------------------------------------------------
(* The protocol with the controller, one step at a time. *)
LEMMA DriverCommand ==
  ASSUME AhciTypes, CommandInv, Driver
  PROVE  CommandInv'
<1>. USE AhciAssumption
<1>t. SameRequest
  BY DriverTypes
<1>n. io # NoIo /\ io' # NoIo
  BY <1>t, DriverTypes, UnderWay DEF SameRequest, NoIo, Requests, Calls, Reads, Writes
<1>i. /\ io.done <= io.len
      /\ io.held <=> io.pc \in Active
      /\ io.pc \in Active => io.done < io.len /\ io.mem \in Page
      /\ ahci_lock <=> io.pc \in {"ready", "wait"}
      /\ io.pc = "ready" => ~hba.tfes
      /\ hba.pending # {} => /\ io.pc = "wait" /\ io.slot \in hba.ci /\ ~hba.tfes
                             /\ hba.pending = {Command(io)}
  BY <1>n DEF CommandInv
<1>r. io \in Requests /\ io.done \in Nat /\ io.len \in Nat
  BY <1>t DEF SameRequest, Requests
<1>1. CASE ahci_begin
  <2>1. /\ io'.pc = "ready" /\ io'.done = io.done /\ io'.len = io.len /\ io'.mem = io.mem
        /\ io'.held = io.held
    BY <1>1, <1>r DEF ahci_begin, Requests
  <2>2. hba' = [hba EXCEPT !.tfes = FALSE] /\ ahci_lock' = TRUE /\ io.pc = "begin"
    BY <1>1 DEF ahci_begin
  <2>3. hba'.pending = {} /\ ~hba'.tfes
    BY <1>i, <2>2 DEF AhciTypes
  <2>. QED BY <1>n, <1>i, <2>1, <2>2, <2>3 DEF CommandInv, Active
<1>2. CASE ahci_issue
  <2>1. /\ io'.pc = "wait" /\ io'.done = io.done /\ io'.len = io.len /\ io'.mem = io.mem
        /\ io'.held = io.held /\ io'.slot = io.slot /\ io'.op = io.op
        /\ io'.base = io.base /\ io'.off = io.off
    BY <1>2, <1>r DEF ahci_issue, Requests
  <2>2. /\ io.pc = "ready" /\ ahci_lock' = ahci_lock
        /\ hba'.ci = hba.ci \cup {io.slot} /\ hba'.tfes = hba.tfes
        /\ hba'.pending = {Command(io)}
    BY <1>2 DEF ahci_issue, Command, AhciTypes
  <2>3. Command(io)' = Command(io)
    BY <2>1 DEF Command, Sector, Pos, Merged, Skip, Chunk
  <2>. QED BY <1>n, <1>i, <2>1, <2>2, <2>3 DEF CommandInv, Active
<1>3. CASE ahci_timeout \/ ahci_wait
  <2>1. /\ io'.pc = "back" /\ io'.done = io.done /\ io'.len = io.len /\ io'.mem = io.mem
        /\ io'.held = io.held
    BY <1>3, <1>r DEF ahci_timeout, ahci_wait, Requests
  <2>2. io.pc \in {"ready", "wait"} /\ ahci_lock' = FALSE /\ hba' = hba /\ hba.pending = {}
    BY <1>3, <1>i DEF ahci_timeout, ahci_wait, Command
  <2>. QED BY <1>n, <1>i, <2>1, <2>2 DEF CommandInv, Active
<1>4. CASE next_sector
  <2>0. /\ io.pc = "page" /\ UNCHANGED <<hba, ahci_lock>>
    BY <1>4 DEF next_sector
  <2>1. CASE io.done < io.len /\ free > 0
    <3>. DEFINE mem == IF Len(io.mem) = SectorSize THEN io.mem ELSE [k \in 1..SectorSize |-> 0]
    <3>1. mem \in Page
      <4>1. CASE io.mem = <<>>
        BY <4>1 DEF Page
      <4>2. CASE io.mem \in Page
        BY <4>2 DEF Page
      <4>. QED BY <4>1, <4>2, <1>r DEF Requests
    <3>. HIDE DEF mem
    <3>2. io' = [io EXCEPT !.pc = "begin", !.held = TRUE, !.op = FirstOp(io), !.mem = mem]
      BY <1>4, <2>1, <1>r DEF next_sector, mem, Requests
    <3>3. /\ io'.pc = "begin" /\ io'.held /\ io'.mem = mem /\ io'.done = io.done /\ io'.len = io.len
      BY <3>2, <1>r DEF Requests
    <3>. QED BY <1>n, <1>i, <2>0, <2>1, <3>1, <3>3 DEF CommandInv, Active
  <2>2. CASE ~(io.done < io.len /\ free > 0)
    <3>1. /\ io'.pc = "end" /\ io'.held = io.held /\ io'.done = io.done /\ io'.len = io.len
      BY <1>4, <2>2, <1>r DEF next_sector, Requests
    <3>. QED BY <1>n, <1>i, <2>0, <3>1 DEF CommandInv, Active
  <2>. QED BY <2>1, <2>2
<1>5. CASE read_back \/ sda_write_back \/ file_write_back \/ identify_back \/ ahcitest_back
  <2>0. io.pc = "back" /\ UNCHANGED <<hba, ahci_lock>> /\ io.done < io.len
    BY <1>5, <1>i DEF read_back, sda_write_back, file_write_back, identify_back, ahcitest_back, Active
  <2>1. io.done + Chunk(io) <= io.len
    BY <1>r, <2>0, ChunkBounds
  <2>2. \/ /\ io'.pc = "page" /\ io'.done = io.done + Chunk(io) /\ ~io'.held
        \/ /\ io'.pc \in {"page", "end"} /\ io'.done = io.done /\ ~io'.held
        \/ /\ io'.pc = "begin" /\ io'.done = io.done /\ io'.held /\ io'.mem = io.mem
    <3>1. Advance(io).pc = "page" /\ Advance(io).done = io.done + Chunk(io) /\ ~Advance(io).held
      BY <1>r DEF Advance, Requests
    <3>2. Stop(io).pc = "end" /\ Stop(io).done = io.done /\ ~Stop(io).held
      BY <1>r DEF Stop, Requests
    <3>3. CASE identify_back \/ ahcitest_back
      BY <3>2, <3>3 DEF identify_back, ahcitest_back
    <3>4. CASE read_back
      <4>1. CASE io.ok
        <5>1. Advance(io) \in Requests
          BY <1>r, <2>0, AdvanceOfRequest
        <5>2. \A b : /\ [Advance(io) EXCEPT !.buf = b].pc = Advance(io).pc
                     /\ [Advance(io) EXCEPT !.buf = b].done = Advance(io).done
                     /\ [Advance(io) EXCEPT !.buf = b].held = Advance(io).held
          BY <5>1 DEF Requests
        <5>3. io' = [Advance(io) EXCEPT !.buf = @ \o SubSeq(io.mem, Skip(io) + 1, Skip(io) + Chunk(io))]
          BY <3>4, <4>1 DEF read_back
        <5>. QED BY <3>1, <5>2, <5>3
      <4>2. CASE ~io.ok
        BY <3>2, <3>4, <4>2 DEF read_back
      <4>. QED BY <4>1, <4>2
    <3>5. CASE sda_write_back
      <4>1. [io EXCEPT !.pc = "begin", !.op = "write"].pc = "begin"
            /\ [io EXCEPT !.pc = "begin", !.op = "write"].done = io.done
            /\ [io EXCEPT !.pc = "begin", !.op = "write"].held = io.held
            /\ [io EXCEPT !.pc = "begin", !.op = "write"].mem = io.mem
        BY <1>r DEF Requests
      <4>. QED BY <3>1, <3>2, <3>5, <4>1, <1>i, <2>0 DEF sda_write_back, Active
    <3>6. CASE file_write_back
      <4>1. \A z, m : LET n == [io EXCEPT !.pc = "page", !.held = FALSE, !.zeroed = z, !.mem = m]
                      IN n.pc = "page" /\ n.done = io.done /\ ~n.held
        BY <1>r DEF Requests
      <4>. QED BY <3>1, <3>2, <3>6, <4>1 DEF file_write_back
    <3>. QED BY <1>5, <3>3, <3>4, <3>5, <3>6
  <2>3. Chunk(io) \in Nat
    BY <1>r, <2>0, ChunkBounds
  <2>4. io'.done <= io'.len
    BY <1>t, <1>i, <2>1, <2>2, <2>3 DEF SameRequest
  <2>5. hba.pending = {} /\ ~ahci_lock
    BY <1>i, <2>0
  <2>. QED BY <1>n, <1>t, <1>i, <2>0, <2>2, <2>4, <2>5 DEF CommandInv, Active, SameRequest
<1>. QED BY <1>1, <1>2, <1>3, <1>4, <1>5 DEF Driver

LEMMA ControllerCommand ==
  ASSUME AhciTypes, CommandInv, Controller
  PROVE  CommandInv' /\ hba'.pending = {} /\ io'.pc = "wait" /\ io'.held
<1>t. /\ SameRequest /\ io.pc = "wait" /\ hba.pending = {Command(io)}
  BY ControllerTypes
<1>n. io # NoIo /\ io' # NoIo
  BY <1>t DEF SameRequest, NoIo, Requests, Calls, Reads, Writes
<1>i. io.done < io.len /\ io.held /\ ahci_lock
  BY <1>n, <1>t DEF CommandInv, Active
<1>1. hba'.pending = {} /\ ahci_lock' = ahci_lock
  BY DEF Controller, HbaCompletes, HbaFails, AhciTypes
<1>2. /\ io'.pc = io.pc /\ io'.done = io.done /\ io'.held = io.held
      /\ io' = io \/ \E m : io' = [io EXCEPT !.mem = m]
  <2>1. io' = io \/ \E m : io' = [io EXCEPT !.mem = m]
    BY DEF Controller, HbaCompletes, HbaFails
  <2>. QED BY <1>t, <2>1 DEF SameRequest, Requests
<1>3. io'.mem \in Page
  <2>1. CASE io' = io
    BY <2>1, <1>n, <1>t DEF CommandInv, Active
  <2>2. CASE io' # io
    <3>1. Command(io).op = "read" /\ Command(io).lba < Sectors
          /\ io' = [io EXCEPT !.mem = Contents(Command(io).lba)]
      BY <1>t, <2>2 DEF Controller, HbaCompletes, HbaFails
    <3>2. Command(io).lba = Sector(io) /\ Sector(io) \in Nat
      BY <1>t, <1>i, ChunkBounds DEF Command, SameRequest
    <3>3. Contents(Command(io).lba) \in Page
      BY <3>1, <3>2, ContentsIsPage DEF AhciTypes
    <3>. QED BY <1>t, <3>1, <3>3 DEF SameRequest, Requests
  <2>. QED BY <2>1, <2>2
<1>4. io'.done < io'.len /\ io'.done <= io'.len
  BY <1>t, <1>i, <1>2 DEF SameRequest, Requests
<1>. QED BY <1>n, <1>t, <1>i, <1>1, <1>2, <1>3, <1>4 DEF CommandInv, Active

(* ahci_init gives the driver its first request. *)
LEMMA InitBegins ==
  ASSUME AhciTypes, PagesInv, ahci_init
  PROVE  /\ io = NoIo /\ up' = TRUE /\ kept = 0
         /\ UNCHANGED <<drive, disk_size, disk, hba, ahci_lock, faults>>
         /\ active_port' \in BOOLEAN
         /\ free' \in Nat /\ kept' \in Nat /\ free' + kept' = free
         /\ io' = NoIo \/ io' = Request("identify", 0, 0, 1)
<1>. USE AhciAssumption
<1>1. /\ io = NoIo /\ up' = TRUE /\ kept = 0
      /\ UNCHANGED <<drive, disk_size, disk, hba, ahci_lock, faults>>
  BY DEF ahci_init, PagesInv
<1>2. free \in Nat /\ Tables \in Nat /\ active_port \in BOOLEAN
  BY DEF AhciTypes, Tables
<1>3. CASE /\ drive /\ free >= Tables
           /\ active_port' = TRUE /\ free' = free - Tables /\ kept' = Tables
           /\ io' = Request("identify", 0, 0, 1)
  BY <1>1, <1>2, <1>3
<1>4. CASE /\ drive /\ free \in 2..(Tables - 1)
           /\ free' = 0 /\ kept' = free
           /\ UNCHANGED <<active_port, io>>
  BY <1>1, <1>2, <1>4
<1>5. CASE /\ ~drive \/ free < 2
           /\ UNCHANGED <<active_port, free, kept, io>>
  BY <1>1, <1>2, <1>5
<1>. QED BY <1>3, <1>4, <1>5 DEF ahci_init

(* How a request begins and ends, for the invariants of the driver. *)
Idle == io = NoIo /\ UNCHANGED <<disk, hba, ahci_lock>>

LEMMA BeginningCommand ==
  ASSUME disk \in [1..DriveSize -> Int], CommandInv, Idle,
         NEW call \in Calls, NEW base \in Nat, NEW off \in Nat, NEW len \in Nat,
         io' = Request(call, base, off, len)
  PROVE  /\ CommandInv' /\ io' \in Requests /\ io' # NoIo /\ io'.pc = "page" /\ ~io'.held
         /\ hba'.pending = {} /\ io'.mem = <<>> /\ io'.buf = <<>> /\ io'.done = 0
         /\ io'.was = disk' /\ io'.base = base /\ io'.off = off /\ io'.len = len
<1>1. io' # NoIo /\ io' \in Requests
  BY RequestBegins
<1>2. /\ io'.pc = "page" /\ io'.done = 0 /\ io'.len = len /\ io'.held = FALSE
      /\ io'.mem = <<>> /\ io'.buf = <<>> /\ io'.base = base /\ io'.off = off /\ io'.was = disk
  BY DEF Request
<1>3. hba'.pending = {} /\ ~ahci_lock' /\ disk' = disk
  BY DEF CommandInv, Idle
<1>. QED BY <1>1, <1>2, <1>3 DEF CommandInv, Active

LEMMA TypesAndCommand ==
  ASSUME AhciTypes, CommandInv, PagesInv, PositionInv, [Next]_vars
  PROVE  AhciTypes' /\ CommandInv'
<1>. USE AhciAssumption
<1>1. CASE ahci_init
  <2>1. Idle
    BY <1>1, InitBegins DEF Idle
  <2>2. "identify" \in Calls /\ 0 \in Nat /\ 1 \in Nat /\ disk \in [1..DriveSize -> Int]
    BY DEF Calls, AhciTypes
  <2>3. CASE io' = NoIo
    BY <1>1, <2>1, <2>3, InitBegins DEF AhciTypes, CommandInv, Idle
  <2>4. CASE io' = Request("identify", 0, 0, 1)
    <3>1. CommandInv' /\ io' \in Requests
      BY <2>1, <2>2, <2>4, BeginningCommand
    <3>. QED BY <1>1, <3>1, InitBegins DEF AhciTypes
  <2>. QED BY <1>1, <2>3, <2>4, InitBegins
<1>2. CASE DriverStep
  BY <1>2, DriverTypes, DriverCommand DEF DriverStep
<1>3. CASE ControllerStep
  BY <1>3, ControllerTypes, ControllerCommand DEF ControllerStep
<1>4. CASE request_returns
  <2>1. io \in Requests /\ io # NoIo /\ io.pc = "end"
    BY <1>4, UnderWay DEF request_returns
  <2>2. hba.pending = {} /\ ~ahci_lock
    BY <2>1 DEF CommandInv
  <2>3. io' = NoIo /\ DriverAlone
    BY <1>4 DEF request_returns, DriverAlone
  <2>. QED BY <2>2, <2>3 DEF AhciTypes, CommandInv, DriverAlone
<1>5. CASE Program \/ ShellCommand
  <2>1. Begins
    BY <1>5, CallersBegin
  <2>2. Idle /\ DriverAlone
    BY <2>1 DEF Begins, Idle, DriverAlone
  <2>3. CASE io' = NoIo
    BY <2>2, <2>3 DEF AhciTypes, CommandInv, Idle, DriverAlone
  <2>4. CASE io' # NoIo
    <3>1. PICK call \in Calls \ {"identify"}, base, off, len \in Nat : io' = Request(call, base, off, len)
      BY <2>1, <2>4 DEF Begins
    <3>2. CommandInv' /\ io' \in Requests
      BY <2>2, <3>1, BeginningCommand DEF AhciTypes
    <3>. QED BY <2>2, <3>2 DEF AhciTypes, DriverAlone
  <2>. QED BY <2>3, <2>4
<1>6. CASE UNCHANGED vars
  BY <1>6 DEF AhciTypes, CommandInv, vars, ahciVars, Command, Sector, Pos, Merged, Skip, Chunk
<1>. QED BY <1>1, <1>2, <1>3, <1>4, <1>5, <1>6 DEF Next

-----------------------------------------------------------------------------
(* No page is lost: what the request holds, what the driver keeps and what *)
(* is free add up to what there was.                                       *)
HeldPages == IF io # NoIo /\ io.held THEN 1 ELSE 0

LEMMA PagesStep ==
  ASSUME AhciTypes, CommandInv, PagesInv, PositionInv, [Next]_vars
  PROVE  PagesInv'
<1>. USE AhciAssumption
<1>i. /\ ~up => kept = 0 /\ io = NoIo
      /\ free + kept + HeldPages \in PageCounts
      /\ free \in Nat /\ kept \in Nat /\ HeldPages \in {0, 1}
  BY DEF PagesInv, HeldPages, AhciTypes
<1>s. SUFFICES /\ ~up' => kept' = 0 /\ io' = NoIo
               /\ free' + kept' + HeldPages' = free + kept + HeldPages
  BY <1>i DEF PagesInv, HeldPages
<1>1. CASE ahci_init
  <2>1. /\ up' = TRUE /\ io = NoIo /\ kept = 0 /\ free' + kept' = free
        /\ free' \in Nat /\ kept' \in Nat
        /\ io' = NoIo \/ io' = Request("identify", 0, 0, 1)
    BY <1>1, InitBegins
  <2>2. HeldPages = 0 /\ HeldPages' = 0
    BY <2>1 DEF HeldPages, Request
  <2>3. free' + kept' + 0 = free + 0 + 0
    <3>1. \A x, y \in Nat : x + y + 0 = x + y
      OBVIOUS
    <3>2. free' + kept' + 0 = free' + kept'
      BY <2>1, <3>1, Zenon
    <3>3. free + 0 + 0 = free
      BY <1>i
    <3>. QED BY <2>1, <3>2, <3>3, Zenon
  <2>. QED BY <2>1, <2>2, <2>3
<1>2. CASE DriverStep
  <2>t. SameRequest /\ Driver
    BY <1>2, DriverTypes DEF DriverStep
  <2>r. io \in Requests /\ io # NoIo /\ io' # NoIo /\ up' = up
    BY <2>t DEF SameRequest, NoIo, Requests, Calls, Reads, Writes, Driver, ahci_begin, ahci_issue,
        ahci_timeout, ahci_wait, next_sector, read_back, sda_write_back, file_write_back,
        identify_back, ahcitest_back
  <2>h. /\ HeldPages = IF io.pc \in Active THEN 1 ELSE 0
        /\ HeldPages' = IF io'.pc \in Active THEN 1 ELSE 0
    BY <2>r, TypesAndCommand DEF HeldPages, CommandInv
  <2>1. CASE ahci_begin \/ ahci_issue \/ ahci_timeout \/ ahci_wait
    <3>1. io.pc \in Active /\ io'.pc \in Active /\ UNCHANGED <<free, kept>>
      BY <2>1, <2>r DEF ahci_begin, ahci_issue, ahci_timeout, ahci_wait, Active, Requests
    <3>. QED BY <1>i, <2>r, <2>h, <3>1
  <2>2. CASE next_sector
    <3>1. io.pc \notin Active /\ kept' = kept
      BY <2>2 DEF next_sector, Active
    <3>2. CASE io.done < io.len /\ free > 0
      <4>1. free' = free - 1 /\ io'.pc = "begin"
        BY <2>2, <2>r, <3>2 DEF next_sector, Requests
      <4>. QED BY <1>i, <2>r, <2>h, <3>1, <4>1 DEF Active
    <3>3. CASE ~(io.done < io.len /\ free > 0)
      <4>1. free' = free /\ io'.pc = "end"
        BY <2>2, <2>r, <3>3 DEF next_sector, Requests
      <4>. QED BY <1>i, <2>r, <2>h, <3>1, <4>1 DEF Active
    <3>. QED BY <3>2, <3>3
  <2>3. CASE read_back \/ sda_write_back \/ file_write_back \/ identify_back \/ ahcitest_back
    <3>0. /\ io.pc = "back" /\ io.pc \in Active /\ io.done < io.len
      BY <2>3, <2>r DEF read_back, sda_write_back, file_write_back, identify_back, ahcitest_back,
                   Active, CommandInv
    <3>1. Advance(io).pc = "page" /\ Stop(io).pc = "end"
      BY <2>r DEF Advance, Stop, Requests
    <3>2. \/ free' + kept' = free + kept + 1 /\ io'.pc \in {"page", "end"}
          \/ free' = free /\ kept' = kept /\ io'.pc = "begin"
      <4>1. CASE identify_back
        BY <1>i, <4>1, <3>1 DEF identify_back
      <4>2. CASE ahcitest_back
        BY <1>i, <4>2, <3>1 DEF ahcitest_back
      <4>3. CASE sda_write_back
        <5>1. CASE io.ok /\ io.op = "read"
          <6>1. io'.pc = "begin" /\ free' = free /\ kept' = kept
            BY <4>3, <5>1, <2>r DEF sda_write_back, Requests
          <6>. QED BY <6>1
        <5>2. CASE ~(io.ok /\ io.op = "read")
          <6>1. io'.pc \in {"page", "end"} /\ free' = free + 1 /\ kept' = kept
            BY <4>3, <5>2, <3>1 DEF sda_write_back
          <6>. QED BY <6>1, <1>i
        <5>. QED BY <5>1, <5>2
      <4>4. CASE file_write_back
        <5>1. \A z, m : [io EXCEPT !.pc = "page", !.held = FALSE, !.zeroed = z, !.mem = m].pc = "page"
          BY <2>r DEF Requests
        <5>2. io'.pc \in {"page", "end"} /\ free' = free + 1 /\ kept' = kept
          BY <4>4, <5>1, <3>1 DEF file_write_back
        <5>. QED BY <5>2, <1>i
      <4>5. CASE read_back
        <5>1. Advance(io) \in Requests
          BY <2>r, <3>0, AdvanceOfRequest
        <5>2. \A b : [Advance(io) EXCEPT !.buf = b].pc = Advance(io).pc
          BY <5>1 DEF Requests
        <5>3. io'.pc \in {"page", "end"} /\ free' = free + 1 /\ kept' = kept
          BY <4>5, <5>2, <3>1 DEF read_back
        <5>. QED BY <5>3, <1>i
      <4>. QED BY <2>3, <4>1, <4>2, <4>3, <4>4, <4>5
    <3>3. CASE free' + kept' = free + kept + 1 /\ io'.pc \in {"page", "end"}
      <4>1. HeldPages = 1 /\ HeldPages' = 0
        BY <2>h, <3>0, <3>3 DEF Active
      <4>2. free' \in Nat /\ kept' \in Nat
        BY TypesAndCommand DEF AhciTypes
      <4>3. free' + kept' + 0 = free + kept + 1
        <5>1. \A x, y \in Nat : x + y + 0 = x + y
          OBVIOUS
        <5>2. free' + kept' + 0 = free' + kept'
          BY <4>2, <5>1, Zenon
        <5>. QED BY <3>3, <5>2, Zenon
      <4>4. ~up' => kept' = 0 /\ io' = NoIo
        BY <1>i, <2>r
      <4>. QED BY <4>1, <4>3, <4>4
    <3>4. CASE free' = free /\ kept' = kept /\ io'.pc = "begin"
      BY <1>i, <2>r, <2>h, <3>0, <3>4 DEF Active
    <3>. QED BY <3>2, <3>3, <3>4
  <2>. QED BY <2>t, <2>1, <2>2, <2>3 DEF Driver
<1>3. CASE ControllerStep
  <2>1. SameRequest /\ io.pc = "wait" /\ io'.held /\ UNCHANGED <<free, kept, up>>
    BY <1>3, ControllerTypes, ControllerCommand DEF ControllerStep, Controller, HbaCompletes, HbaFails
  <2>2. io # NoIo /\ io' # NoIo
    BY <2>1 DEF SameRequest, NoIo, Requests, Calls, Reads, Writes
  <2>3. io.held
    BY <2>1, <2>2 DEF CommandInv, Active
  <2>. QED BY <1>i, <2>1, <2>2, <2>3 DEF HeldPages
<1>4. CASE request_returns
  <2>1. io # NoIo /\ io.pc = "end" /\ io' = NoIo /\ UNCHANGED <<free, kept, up>>
    BY <1>4, UnderWay DEF request_returns
  <2>2. ~io.held
    BY <2>1 DEF CommandInv, Active
  <2>. QED BY <1>i, <2>1, <2>2 DEF HeldPages
<1>5. CASE Program \/ ShellCommand
  <2>1. Begins
    BY <1>5, CallersBegin
  <2>2. io = NoIo /\ up /\ UNCHANGED <<free, kept, up>>
    BY <2>1 DEF Begins, DriverAlone
  <2>3. HeldPages' = 0
    <3>1. \A call, base, off, len : Request(call, base, off, len).held = FALSE
      BY DEF Request
    <3>. QED BY <2>1, <3>1 DEF Begins, HeldPages
  <2>. QED BY <1>i, <2>2, <2>3 DEF HeldPages
<1>6. CASE UNCHANGED vars
  BY <1>i, <1>6 DEF vars, ahciVars, HeldPages
<1>. QED BY <1>1, <1>2, <1>3, <1>4, <1>5, <1>6 DEF Next

-----------------------------------------------------------------------------
(* The positions of the descriptors. *)
LEMMA PositionOfFd ==
  ASSUME PositionInv, NEW fd \in Fds, NEW new \in Nat,
         fds' = [fds EXCEPT ![fd].offset = new % Word], told' = [told EXCEPT ![fd] = new]
  PROVE  /\ fds' \in [Fds -> [node : AllNodes, offset : Nat]] /\ told' \in [Fds -> Nat]
         /\ \A f \in Fds : fds'[f].offset = told'[f] % Word
BY ModBounds DEF PositionInv

LEMMA PositionOfNoFds ==
  /\ NoFds \in [Fds -> [node : AllNodes, offset : Nat]]
  /\ [fd \in Fds |-> 0] \in [Fds -> Nat]
  /\ \A f \in Fds : NoFds[f].offset = [fd \in Fds |-> 0][f] % Word
<1>1. 0 % Word = 0
  BY AhciAssumption
<1>. QED BY <1>1 DEF NoFds, Closed, AllNodes

LEMMA PositionStep ==
  ASSUME AhciTypes, CommandInv, PagesInv, PositionInv, [Next]_vars
  PROVE  PositionInv'
<1>. USE AhciAssumption, FilesAssumption
<1>i. /\ fds \in [Fds -> [node : AllNodes, offset : Nat]]
      /\ told \in [Fds -> Nat]
      /\ nodes \subseteq AllNodes /\ file_size \in Nat
      /\ \A fd \in Fds : fds[fd].offset = told[fd] % Word /\ fds[fd].offset \in Nat
      /\ who \in Fds \cup {Shell}
      /\ io = NoIo => who = Shell
  BY DEF PositionInv
<1>w. Shell \notin Fds
  BY DEF Shell
<1>1. CASE ahci_init /\ UNCHANGED fileVars
  <2>1. io = NoIo /\ UNCHANGED fileVars
    BY <1>1, InitBegins
  <2>. QED BY <1>i, <2>1 DEF PositionInv, fileVars
<1>2. CASE DriverStep \/ ControllerStep
  <2>1. SameRequest /\ UNCHANGED fileVars
    BY <1>2, DriverTypes, ControllerTypes DEF DriverStep, ControllerStep
  <2>2. io' # NoIo /\ io'.len = io.len
    BY <2>1 DEF SameRequest, NoIo, Requests, Calls, Reads, Writes
  <2>. QED BY <2>1, <2>2 DEF PositionInv, fileVars
<1>3. CASE request_returns
  <2>r. io \in Requests /\ io # NoIo /\ io.done \in Nat /\ io.len \in Nat /\ io.done <= io.len
    <3>1. io \in Requests /\ io # NoIo
      BY <1>3, UnderWay DEF request_returns
    <3>. QED BY <3>1 DEF CommandInv, Requests
  <2>1. io' = NoIo /\ who' = Shell
    BY <1>3 DEF request_returns
  <2>2. file_size' \in Nat /\ nodes' \subseteq AllNodes
    BY <1>i, <1>3, <2>r DEF request_returns, AllNodes
  <2>3. CASE who = Shell
    <3>1. UNCHANGED <<fds, told>>
      BY <1>3, <2>3 DEF request_returns
    <3>. QED BY <1>i, <2>1, <2>2, <3>1 DEF PositionInv
  <2>4. CASE who # Shell
    <3>1. who \in Fds /\ fds[who].offset = told[who] % Word
      BY <1>i, <2>4
    <3>. DEFINE new == told[who] + io.done
    <3>2. new \in Nat
      BY <1>i, <2>r, <3>1
    <3>3. Moved(who, io.len, io.done) = new % Word
      <4>1. told[who] \in Nat
        BY <1>i, <3>1
      <4>2. ((told[who] % Word) + io.done) % Word = (told[who] + io.done) % Word
        BY <2>r, <4>1, ModAgain
      <4>. QED BY <3>1, <4>2 DEF Moved
    <3>4. fds' = [fds EXCEPT ![who].offset = new % Word] /\ told' = [told EXCEPT ![who] = new]
      BY <1>3, <1>i, <2>4, <3>1, <3>3 DEF request_returns
    <3>. HIDE DEF new
    <3>5. /\ fds' \in [Fds -> [node : AllNodes, offset : Nat]] /\ told' \in [Fds -> Nat]
          /\ \A f \in Fds : fds'[f].offset = told'[f] % Word
      BY <3>1, <3>2, <3>4, PositionOfFd
    <3>. QED BY <2>1, <2>2, <3>5 DEF PositionInv
  <2>. QED BY <2>3, <2>4
<1>b. ASSUME io = NoIo,
             UNCHANGED <<nodes, file_size, who, io>>,
             fds' \in [Fds -> [node : AllNodes, offset : Nat]], told' \in [Fds -> Nat],
             \A f \in Fds : fds'[f].offset = told'[f] % Word
      PROVE  PositionInv'
  BY <1>i, <1>b DEF PositionInv
<1>4. ASSUME NEW n \in nodes, SYS_OPEN(n) PROVE PositionInv'
  <2>. DEFINE slot == Min({fd \in Fds : ~IsOpen(fd)})
  <2>1. slot \in Fds
    <3>1. {fd \in Fds : ~IsOpen(fd)} # {} /\ {fd \in Fds : ~IsOpen(fd)} \in SUBSET Nat
      BY <1>4 DEF SYS_OPEN
    <3>. QED BY <3>1, MinIsLeast
  <2>2. fds' = [fds EXCEPT ![slot] = [node |-> n, offset |-> 0]] /\ told' = [told EXCEPT ![slot] = 0]
    BY <1>4 DEF SYS_OPEN
  <2>. HIDE DEF slot
  <2>z. 0 % Word = 0
    OBVIOUS
  <2>3. /\ fds' \in [Fds -> [node : AllNodes, offset : Nat]] /\ told' \in [Fds -> Nat]
        /\ \A f \in Fds : fds'[f].offset = told'[f] % Word
    BY <1>i, <2>1, <2>2, <2>z
  <2>. QED BY <1>4, <1>b, <2>3 DEF SYS_OPEN, InProgram, ahciVars
<1>5. ASSUME NEW fd \in Fds, SYS_CLOSE(fd) PROVE PositionInv'
  <2>1. Closed \in [node : AllNodes, offset : Nat] /\ Closed.offset = 0 % Word
    BY DEF Closed, AllNodes
  <2>2. /\ fds' \in [Fds -> [node : AllNodes, offset : Nat]] /\ told' \in [Fds -> Nat]
        /\ \A f \in Fds : fds'[f].offset = told'[f] % Word
    BY <1>i, <1>5, <2>1 DEF SYS_CLOSE
  <2>. QED BY <1>5, <1>b, <2>2 DEF SYS_CLOSE, InProgram, ahciVars
<1>6. ASSUME NEW fd \in Fds, NEW len \in 1..MaxLen, SYS_READ(fd, len) PROVE PositionInv'
  <2>. DEFINE off == fds[fd].offset
              n == fds[fd].node
              got == ReadAtOnce(n, off, len)
  <2>0. /\ off \in Nat /\ len \in Nat /\ n \in AllNodes
        /\ io = NoIo /\ UNCHANGED <<nodes, file_size>>
    BY <1>6, <1>i DEF SYS_READ, InProgram
  <2>1. CASE OnDisk(n)
    <3>1. io' = DiskRead(n, off, len) /\ who' = fd /\ UNCHANGED <<fds, told>>
      BY <1>6, <2>1 DEF SYS_READ
    <3>. HIDE DEF off, n
    <3>2. PICK call \in Calls \ {"identify"}, base \in Nat, l \in 0..len :
            DiskRead(n, off, len) = Request(call, base, off, l)
      BY <2>0, DiskReadBegins
    <3>3. io' # NoIo /\ io'.len = l
      <4>1. Request(call, base, off, l).len = l
        BY DEF Request
      <4>2. Request(call, base, off, l) # NoIo
        BY <2>0, <3>2, RequestBegins DEF AhciTypes
      <4>. QED BY <3>1, <3>2, <4>1, <4>2
    <3>. QED BY <1>i, <2>0, <3>1, <3>3 DEF PositionInv
  <2>2. CASE ~OnDisk(n)
    <3>1. got \in 0..len
      BY <2>0, ReadsAreShort
    <3>2. UNCHANGED <<io, who>> /\ fds' = [fds EXCEPT ![fd].offset = Moved(fd, len, got)]
          /\ told' = [told EXCEPT ![fd] = @ + got]
      BY <1>6, <2>2 DEF SYS_READ
    <3>. HIDE DEF got
    <3>. DEFINE new == told[fd] + got
    <3>3. new \in Nat
      BY <1>i, <3>1
    <3>4. Moved(fd, len, got) = new % Word
      BY <1>i, <2>0, <3>1, ModAgain DEF Moved
    <3>5. told' = [told EXCEPT ![fd] = new]
      BY <3>2, <1>i
    <3>. HIDE DEF new, off, n
    <3>6. /\ fds' \in [Fds -> [node : AllNodes, offset : Nat]] /\ told' \in [Fds -> Nat]
          /\ \A f \in Fds : fds'[f].offset = told'[f] % Word
      BY <3>2, <3>3, <3>4, <3>5, PositionOfFd
    <3>. QED BY <1>b, <2>0, <3>2, <3>6
  <2>. QED BY <2>1, <2>2
<1>7. ASSUME NEW fd \in Fds, NEW offset \in SeekOffsets, NEW whence \in Whences,
             SYS_LSEEK(fd, offset, whence) PROVE PositionInv'
  <2>. DEFINE new == SeekTarget(fd, offset, whence)
  <2>1. new \in Nat
    <3>1. fds[fd].offset \in Nat /\ SizeOf(fds[fd].node) \in Nat /\ offset \in Int
      BY <1>i, SizesAreNat
    <3>2. new \in Int
      BY <3>1 DEF SeekTarget, Whences
    <3>3. new >= 0
      BY <1>7 DEF SYS_LSEEK
    <3>. QED BY <3>2, <3>3
  <2>2. fds' = [fds EXCEPT ![fd].offset = new % Word] /\ told' = [told EXCEPT ![fd] = new]
    BY <1>7 DEF SYS_LSEEK
  <2>. HIDE DEF new
  <2>4. /\ fds' \in [Fds -> [node : AllNodes, offset : Nat]] /\ told' \in [Fds -> Nat]
        /\ \A f \in Fds : fds'[f].offset = told'[f] % Word
    BY <2>1, <2>2, PositionOfFd
  <2>. QED BY <1>7, <1>b, <2>4 DEF SYS_LSEEK, InProgram, ahciVars
<1>8. ASSUME SYS_EXIT \/ cmd_exec PROVE PositionInv'
  <2>1. fds' = NoFds /\ told' = [fd \in Fds |-> 0] /\ io = NoIo /\ UNCHANGED <<nodes, file_size, who, io>>
    BY <1>8 DEF SYS_EXIT, cmd_exec, InProgram, AtPrompt, ahciVars
  <2>. QED BY <1>b, <2>1, PositionOfNoFds
<1>9. ASSUME cmd_touch \/ cmd_rm PROVE PositionInv'
  <2>1. UNCHANGED <<fds, told, who, io>> /\ io = NoIo /\ file_size' = 0
        /\ nodes' \subseteq nodes \cup {"file"}
    BY <1>9 DEF cmd_touch, cmd_rm, AtPrompt, ahciVars
  <2>. QED BY <1>i, <2>1 DEF PositionInv, AllNodes
<1>10. ASSUME \/ cmd_ahcitest
              \/ \E n \in nodes : cmd_vfsread(n)
              \/ \E n \in nodes, len \in 1..MaxLen : cmd_vfswrite(n, len) PROVE PositionInv'
  <2>1. who' = Shell /\ UNCHANGED <<fds, told, nodes, file_size>>
    BY <1>10 DEF cmd_ahcitest, cmd_vfsread, cmd_vfswrite
  <2>. QED BY <1>i, <2>1 DEF PositionInv
<1>11. ASSUME NEW name \in RamNames, cmd_ramwrite(name) \/ cmd_ramdel(name) PROVE PositionInv'
  <2>1. UNCHANGED <<fds, told, who, io, nodes, file_size>> /\ io = NoIo
    BY <1>11 DEF cmd_ramwrite, cmd_ramdel, AtPrompt, ahciVars
  <2>. QED BY <1>i, <2>1 DEF PositionInv
<1>12. CASE UNCHANGED vars
  BY <1>12 DEF PositionInv, vars, ahciVars, fileVars
<1>. QED
  BY <1>1, <1>2, <1>3, <1>4, <1>5, <1>6, <1>7, <1>8, <1>9, <1>10, <1>11, <1>12
  DEF Next, Program, ShellCommand

-----------------------------------------------------------------------------
(* The count of the RAM disk. *)
UsedRam == {s \in RamSlots : ramfiles[s] # Empty}

LEMMA RamStep ==
  ASSUME RamInv, [Next]_vars
  PROVE  RamInv'
<1>. USE FilesAssumption
<1>i. /\ ramfiles \in [RamSlots -> RamNames \cup {Empty}]
      /\ ramfile_count \in Int /\ ramfile_count >= Cardinality(UsedRam)
  BY DEF RamInv, RamFilesCounted, UsedRam
<1>f. /\ IsFiniteSet(UsedRam) /\ Cardinality(UsedRam) \in Nat
      /\ \A s : /\ Cardinality(UsedRam \cup {s}) <= Cardinality(UsedRam) + 1
                /\ s \in UsedRam => Cardinality(UsedRam \ {s}) = Cardinality(UsedRam) - 1
                /\ Cardinality(UsedRam \ {s}) \in Nat
  <2>1. IsFiniteSet(RamSlots) /\ UsedRam \in SUBSET RamSlots
    BY FS_Interval DEF RamSlots, UsedRam
  <2>2. IsFiniteSet(UsedRam) /\ Cardinality(UsedRam) \in Nat
    BY <2>1, FS_Subset, FS_CardinalityType
  <2>3. ASSUME NEW s PROVE /\ Cardinality(UsedRam \cup {s}) <= Cardinality(UsedRam) + 1
                           /\ s \in UsedRam => Cardinality(UsedRam \ {s}) = Cardinality(UsedRam) - 1
                           /\ Cardinality(UsedRam \ {s}) \in Nat
    BY <2>2, FS_AddElement, FS_RemoveElement, FS_CardinalityType
  <2>. QED BY <2>2, <2>3
<1>n. \A x : FoundRam(x) \in SUBSET Nat
  BY DEF FoundRam, RamSlots
<1>e. \A name \in RamNames : name # Empty
  BY DEF Empty
<1>s. ASSUME NEW s \in RamSlots, NEW v \in RamNames \cup {Empty}, ramfiles' = [ramfiles EXCEPT ![s] = v]
      PROVE  /\ ramfiles' \in [RamSlots -> RamNames \cup {Empty}]
             /\ UsedRam' = IF v = Empty THEN UsedRam \ {s} ELSE UsedRam \cup {s}
  BY <1>i, <1>s DEF UsedRam
<1>1. ASSUME NEW name \in RamNames, cmd_ramwrite(name) PROVE RamInv'
  <2>. DEFINE slot == Min(IF FoundRam(name) # {} THEN FoundRam(name) ELSE FreeRam)
  <2>1. slot \in IF FoundRam(name) # {} THEN FoundRam(name) ELSE FreeRam
    BY <1>1, <1>n, MinIsLeast DEF cmd_ramwrite, FreeRam
  <2>2. /\ slot \in RamSlots
        /\ FoundRam(name) # {} => slot \in UsedRam
    BY <2>1, <1>e DEF FoundRam, FreeRam, UsedRam
  <2>3. PICK v \in {name, Empty} : ramfiles' = [ramfiles EXCEPT ![slot] = v]
    BY <1>1 DEF cmd_ramwrite
  <2>4. ramfile_count' = IF FoundRam(name) = {} THEN ramfile_count + 1 ELSE ramfile_count
    BY <1>1 DEF cmd_ramwrite
  <2>. HIDE DEF slot
  <2>5. /\ ramfiles' \in [RamSlots -> RamNames \cup {Empty}]
        /\ UsedRam' = IF v = Empty THEN UsedRam \ {slot} ELSE UsedRam \cup {slot}
    BY <1>s, <2>2, <2>3
  <2>6. CASE FoundRam(name) # {}
    <3>1. UsedRam \cup {slot} = UsedRam
      BY <2>2, <2>6
    <3>2. Cardinality(UsedRam') <= Cardinality(UsedRam)
      BY <1>f, <2>2, <2>5, <2>6, <3>1
    <3>3. ramfile_count' = ramfile_count /\ Cardinality(UsedRam') \in Nat
      BY <1>f, <2>4, <2>5, <2>6, <3>1
    <3>4. ramfile_count' >= Cardinality(UsedRam')
      BY <1>i, <1>f, <3>2, <3>3
    <3>. QED BY <1>i, <2>5, <3>3, <3>4 DEF RamInv, RamFilesCounted, UsedRam
  <2>7. CASE FoundRam(name) = {}
    <3>1. UsedRam \ {slot} = UsedRam
      <4>1. ramfiles[slot] = Empty
        BY <2>1, <2>7 DEF FreeRam, FoundRam, slot
      <4>. QED BY <4>1 DEF UsedRam
    <3>2. /\ Cardinality(UsedRam') <= Cardinality(UsedRam) + 1 /\ Cardinality(UsedRam') \in Nat
      <4>1. CASE v = Empty
        <5>1. UsedRam' = UsedRam
          BY <4>1, <2>5, <3>1
        <5>. QED BY <5>1, <1>f
      <4>2. CASE v # Empty
        <5>1. UsedRam' = UsedRam \cup {slot}
          BY <4>2, <2>5
        <5>2. Cardinality(UsedRam \cup {slot}) \in Nat
          BY <1>f, FS_AddElement, FS_CardinalityType
        <5>. QED BY <5>1, <5>2, <1>f
      <4>. QED BY <4>1, <4>2
    <3>3. ramfile_count' = ramfile_count + 1
      BY <2>4, <2>7
    <3>4. ramfile_count' >= Cardinality(UsedRam') /\ ramfile_count' \in Int
      BY <1>i, <1>f, <3>2, <3>3
    <3>. QED BY <2>5, <3>4 DEF RamInv, RamFilesCounted, UsedRam
  <2>. QED BY <2>6, <2>7
<1>2. ASSUME NEW name \in RamNames, cmd_ramdel(name) PROVE RamInv'
  <2>. DEFINE slot == Min(FoundRam(name))
  <2>1. slot \in FoundRam(name)
    BY <1>2, <1>n, MinIsLeast DEF cmd_ramdel
  <2>2. slot \in RamSlots /\ slot \in UsedRam
    BY <2>1, <1>e DEF FoundRam, UsedRam
  <2>3. ramfiles' = [ramfiles EXCEPT ![slot] = Empty] /\ ramfile_count' = ramfile_count - 1
    BY <1>2 DEF cmd_ramdel
  <2>. HIDE DEF slot
  <2>4. ramfiles' \in [RamSlots -> RamNames \cup {Empty}] /\ UsedRam' = UsedRam \ {slot}
    BY <1>s, <2>2, <2>3
  <2>5. Cardinality(UsedRam') = Cardinality(UsedRam) - 1
    BY <1>f, <2>2, <2>4
  <2>6. ramfile_count' >= Cardinality(UsedRam') /\ ramfile_count' \in Int
    BY <1>i, <1>f, <2>3, <2>5
  <2>. QED BY <2>4, <2>6 DEF RamInv, RamFilesCounted, UsedRam
<1>3. ASSUME UNCHANGED <<ramfiles, ramfile_count>> PROVE RamInv'
  BY <1>3 DEF RamInv, RamFilesCounted
<1>4. ASSUME Next, ~\E name \in RamNames : cmd_ramwrite(name) \/ cmd_ramdel(name)
      PROVE  UNCHANGED <<ramfiles, ramfile_count>>
  BY <1>4 DEF Next, DriverStep, ControllerStep, fileVars, request_returns, Program, ShellCommand,
       SYS_OPEN, SYS_CLOSE, SYS_READ, SYS_LSEEK, SYS_EXIT, cmd_exec, cmd_ahcitest, cmd_touch, cmd_rm,
       cmd_vfsread, cmd_vfswrite
<1>. QED BY <1>1, <1>2, <1>3, <1>4 DEF vars, fileVars

-----------------------------------------------------------------------------
(* What the page holds and what reaches the buffer and the drive. *)

(* A sector that was read and the bytes before it make one piece. *)
LEMMA ReadGrows ==
  ASSUME disk \in [1..DriveSize -> Int], NEW i \in Requests, i.done < i.len,
         PageRead(i), i.buf = SubSeq(disk, i.base + i.off + 1, Pos(i))
  PROVE  i.buf \o SubSeq(i.mem, Skip(i) + 1, Skip(i) + Chunk(i))
           = SubSeq(disk, i.base + i.off + 1, Pos(i) + Chunk(i))
<1>. USE AhciAssumption
<1>. DEFINE a == i.base + i.off
            p == Pos(i)
            sk == Skip(i)
            c == Chunk(i)
            s == Sector(i) * SectorSize
            part == SubSeq(i.mem, sk + 1, sk + c)
<1>1. /\ a \in Nat /\ p \in Nat /\ a <= p /\ sk \in 0..(SectorSize - 1) /\ c \in 1..SectorSize
      /\ sk + c <= SectorSize /\ s \in Nat /\ p = s + sk
  <2>1. i.base \in Nat /\ i.off \in Nat /\ i.done \in Nat
    BY DEF Requests
  <2>p. p = a + i.done
    BY DEF Pos
  <2>2. a \in Nat /\ a <= p
    <3>1. a \in Nat
      BY <2>1
    <3>. HIDE DEF a, p
    <3>. QED BY <2>1, <2>p, <3>1
  <2>3. Sector(i) \in Nat
    BY ChunkBounds
  <2>4. s \in Nat
    BY <2>3
  <2>. QED BY <2>2, <2>4, ChunkBounds
<1>2. s + SectorSize <= DriveSize /\ DriveSize \in Nat
  <2>1. (Sector(i) + 1) * SectorSize <= DriveSize /\ Sector(i) \in Nat
    BY ChunkBounds, SectorOnDrive DEF PageRead
  <2>. QED BY <2>1 DEF DriveSize
<1>3. \A k \in 1..SectorSize : i.mem[k] = disk[s + k]
  BY ChunkBounds, ContentsIsPage DEF PageRead
<1>b. i.buf = SubSeq(disk, a + 1, p)
  OBVIOUS
<1>. HIDE DEF a, p, sk, c, s
<1>4. part = SubSeq(disk, p + 1, p + c)
  <2>1. \A k \in (sk + 1)..(sk + c) : i.mem[k] \in Int
    BY <1>1, <1>2, <1>3
  <2>2. \A k \in (p + 1)..(p + c) : disk[k] \in Int
    BY <1>1, <1>2
  <2>3. /\ part \in Seq(Int) /\ Len(part) = c
        /\ \A j \in 1..c : part[j] = i.mem[sk + j]
    BY <1>1, <2>1, SubSeqProperties
  <2>4. /\ SubSeq(disk, p + 1, p + c) \in Seq(Int) /\ Len(SubSeq(disk, p + 1, p + c)) = c
        /\ \A j \in 1..c : SubSeq(disk, p + 1, p + c)[j] = disk[p + j]
    BY <1>1, <2>2, SubSeqProperties
  <2>5. \A j \in 1..c : i.mem[sk + j] = disk[p + j]
    <3>1. \A j \in 1..c : sk + j \in 1..SectorSize /\ s + (sk + j) = p + j
      BY <1>1
    <3>. QED BY <1>3, <3>1
  <2>6. \A j \in 1..Len(part) : part[j] = SubSeq(disk, p + 1, p + c)[j]
    BY <2>3, <2>4, <2>5
  <2>. HIDE DEF part
  <2>. QED BY <2>3, <2>4, <2>6, SeqEqual
<1>5. disk \in Seq(Int) /\ Len(disk) = DriveSize
  BY <1>2
<1>6. SubSeq(disk, a + 1, p) \o SubSeq(disk, p + 1, p + c) = SubSeq(disk, a + 1, p + c)
  <2>1. a + 1 \in 1..(Len(disk) + 1) /\ p \in ((a + 1) - 1)..Len(disk) /\ p + c \in p..Len(disk)
    BY <1>1, <1>2, <1>5
  <2>. QED BY <1>5, <2>1, ConcatAdjacentSubSeq
<1>. QED BY <1>b, <1>4, <1>6 DEF a, p, sk, c

(* Which sector a byte lies in. *)
LEMMA SectorOfByte ==
  ASSUME NEW lba \in Nat, NEW k \in Nat \ {0}
  PROVE  /\ (k - 1) \div SectorSize = lba
            <=> lba * SectorSize < k /\ k <= lba * SectorSize + SectorSize
         /\ (k - 1) \div SectorSize = lba => ((k - 1) % SectorSize) + 1 = k - lba * SectorSize
<1>. USE AhciAssumption
<1>. DEFINE q == (k - 1) \div SectorSize
            r == (k - 1) % SectorSize
            x == lba * SectorSize
            y == q * SectorSize
<1>1. q \in Nat /\ r \in 0..(SectorSize - 1) /\ k - 1 = y + r /\ x \in Nat /\ y \in Nat
  OBVIOUS
<1>2. /\ q < lba => y + SectorSize <= x
      /\ lba < q => x + SectorSize <= y
      /\ q = lba => x = y
  <2>1. \A u, v \in Nat : u < v => u * SectorSize + SectorSize <= v * SectorSize
    <3>1. \A u, v, w \in Nat : u <= v => u * w <= v * w
      OBVIOUS
    <3>2. \A u \in Nat : (u + 1) * SectorSize = u * SectorSize + SectorSize
      OBVIOUS
    <3>3. \A u, v \in Nat : u < v => u + 1 <= v /\ u + 1 \in Nat
      OBVIOUS
    <3>. QED BY <3>1, <3>2, <3>3
  <2>2. q \in Nat
    BY <1>1
  <2>. HIDE DEF q
  <2>. QED BY <2>1, <2>2
<1>. HIDE DEF q, r, x, y
<1>3. /\ q = lba <=> x < k /\ k <= x + SectorSize
      /\ q = lba => r + 1 = k - x
  BY <1>1, <1>2
<1>. QED BY <1>3 DEF q, r, x

(* The same byte counted from the start of the request and of the sector.  *)
LEMMA ByteInChunk ==
  ASSUME NEW b \in Int, NEW o \in Int, NEW n \in Int, NEW s \in Int, NEW t \in Int,
         NEW k \in Int, NEW c \in Int, b + o + n = s + t
  PROVE  /\ k - b - o \in (n + 1)..(n + c) <=> k - s > t /\ k - s <= t + c
         /\ k - b - o = n + (k - s) - t
OBVIOUS

(* A sector that is written changes the bytes of its chunk, and no other   *)
(* byte when the rest of the page was read from the drive.                 *)
LEMMA WriteLands ==
  ASSUME disk \in [1..DriveSize -> Int],
         NEW i \in Requests, i.done < i.len, i.mem \in Page,
         NEW d, NEW k \in 1..DriveSize, NEW j, j = k - i.base - i.off,
         d[k] = IF (k - 1) \div SectorSize = Sector(i)
                THEN Merged(i)[((k - 1) % SectorSize) + 1] ELSE disk[k]
  PROVE  /\ j \in (i.done + 1)..(i.done + Chunk(i)) => d[k] = Data(j)
         /\ /\ j \notin (i.done + 1)..(i.done + Chunk(i))
            /\ Partial(i) => PageRead(i)
            => d[k] = disk[k]
<1>. USE AhciAssumption
<1>. DEFINE lba == Sector(i)
            sk == Skip(i)
            c == Chunk(i)
            s == lba * SectorSize
            m == k - s
<1>1. /\ sk \in 0..(SectorSize - 1) /\ c \in 1..SectorSize
      /\ sk + c <= SectorSize /\ s \in Nat /\ lba \in Nat /\ Pos(i) = s + sk
      /\ i.base \in Nat /\ i.off \in Nat /\ i.done \in Nat /\ DriveSize \in Nat
  <2>1. lba \in Nat
    BY ChunkBounds
  <2>2. s \in Nat
    BY <2>1
  <2>3. i.base \in Nat /\ i.off \in Nat /\ i.done \in Nat /\ DriveSize \in Nat
    BY DEF Requests, DriveSize
  <2>. QED BY <2>1, <2>2, <2>3, ChunkBounds
<1>2. i.base + i.off + i.done = s + sk
  BY <1>1 DEF Pos
<1>k. k \in Nat \ {0}
  BY <1>1
<1>3. /\ (k - 1) \div SectorSize = lba <=> s < k /\ k <= s + SectorSize
      /\ (k - 1) \div SectorSize = lba => ((k - 1) % SectorSize) + 1 = m
  BY <1>1, <1>k, SectorOfByte
<1>4. d[k] = IF (k - 1) \div SectorSize = lba
             THEN Merged(i)[((k - 1) % SectorSize) + 1] ELSE disk[k]
  OBVIOUS
<1>5. \A n \in 1..SectorSize :
        Merged(i)[n] = IF n > sk /\ n <= sk + c THEN Data(i.done + n - sk) ELSE i.mem[n]
  BY DEF Merged
<1>6. Partial(i) <=> c # SectorSize
  BY DEF Partial
<1>7. PageRead(i) => \A n \in 1..SectorSize : i.mem[n] = disk[s + n]
  BY ChunkBounds, ContentsIsPage DEF PageRead
<1>. HIDE DEF lba, sk, c, s
<1>8. /\ j \in (i.done + 1)..(i.done + c) <=> m > sk /\ m <= sk + c
      /\ j = i.done + m - sk /\ s + m = k /\ m \in Int
  <2>1. /\ sk \in Int /\ c \in Int /\ k \in Int /\ s \in Int
        /\ i.base \in Int /\ i.off \in Int /\ i.done \in Int
    BY <1>1, <1>k
  <2>2. m \in Int /\ s + m = k
    BY <2>1
  <2>3. /\ k - i.base - i.off \in (i.done + 1)..(i.done + c) <=> k - s > sk /\ k - s <= sk + c
        /\ k - i.base - i.off = i.done + (k - s) - sk
    <3>. DEFINE b == i.base
                o == i.off
                n == i.done
    <3>1. b \in Int /\ o \in Int /\ n \in Int /\ b + o + n = s + sk
      BY <1>2, <2>1
    <3>. HIDE DEF b, o, n
    <3>2. /\ k - b - o \in (n + 1)..(n + c) <=> k - s > sk /\ k - s <= sk + c
          /\ k - b - o = n + (k - s) - sk
      BY <2>1, <3>1, ByteInChunk
    <3>. QED BY <3>2 DEF b, o, n
  <2>. QED BY <2>2, <2>3
<1>9. CASE (k - 1) \div SectorSize = lba
  <2>1. m \in 1..SectorSize
    BY <1>1, <1>3, <1>8, <1>9
  <2>. HIDE DEF m
  <2>2. d[k] = IF m > sk /\ m <= sk + c THEN Data(i.done + m - sk) ELSE i.mem[m]
    BY <1>3, <1>4, <1>5, <1>9, <2>1
  <2>3. c = SectorSize => m > sk /\ m <= sk + c
    BY <1>1, <2>1
  <2>4. PageRead(i) => i.mem[m] = disk[k]
    BY <1>7, <1>8, <2>1
  <2>5. d[k] = IF m > sk /\ m <= sk + c THEN Data(j) ELSE i.mem[m]
    BY <1>8, <2>2
  <2>6. j \in (i.done + 1)..(i.done + c) => d[k] = Data(j)
    BY <1>8, <2>5, Zenon
  <2>7. j \notin (i.done + 1)..(i.done + c) /\ (Partial(i) => PageRead(i)) => d[k] = disk[k]
    BY <1>6, <1>8, <2>3, <2>4, <2>5, Zenon
  <2>. QED BY <2>6, <2>7 DEF c
<1>10. CASE (k - 1) \div SectorSize # lba
  <2>1. ~(m > sk /\ m <= sk + c)
    BY <1>1, <1>3, <1>8, <1>10, <1>k
  <2>. QED BY <1>4, <1>8, <1>10, <2>1 DEF c
<1>. QED BY <1>9, <1>10

(* Requests at the same byte. *)
LEMMA SamePlace ==
  ASSUME NEW i, NEW n, n.base = i.base, n.off = i.off, n.len = i.len, n.done = i.done
  PROVE  /\ Pos(n) = Pos(i) /\ Skip(n) = Skip(i) /\ Chunk(n) = Chunk(i)
         /\ Sector(n) = Sector(i) /\ Partial(n) = Partial(i)
BY DEF Pos, Skip, Chunk, Sector, Partial

LEMMA TransferKept ==
  ASSUME TransferExact, SameRequest, disk' = disk,
         io'.done = io.done, io'.buf = io.buf, io.zeroed => io'.zeroed
  PROVE  TransferExact'
<1>1. Pos(io') = Pos(io)
  BY SamePlace DEF SameRequest
<1>. QED BY <1>1 DEF TransferExact, SameRequest

(* The bytes of a chunk that was written are counted as done. *)
LEMMA WriteAdvances ==
  ASSUME AhciTypes, TransferExact, SameRequest, disk' = disk, io.done < io.len,
         io.call \in Writes, io.op = "write", Executed(io),
         io'.done = io.done + Chunk(io), io'.zeroed = io.zeroed
  PROVE  TransferExact'
<1>1. io'.call \in Writes /\ io'.call \notin {"sda_read", "file_read"}
  BY DEF SameRequest, Writes
<1>2. SUFFICES ASSUME ~io.zeroed, NEW k \in 1..DriveSize, NEW j, j = k - io.base - io.off
               PROVE IF j \in 1..io'.done THEN disk[k] = Data(j)
                     ELSE IF j \in (io'.done + 1)..io.len THEN disk[k] \in {Data(j), io.was[k]}
                     ELSE disk[k] = io.was[k]
  BY <1>1 DEF TransferExact, SameRequest
<1>3. IF j \in 1..io.done THEN disk[k] = Data(j)
      ELSE IF j \in (io.done + 1)..io.len THEN disk[k] \in {Data(j), io.was[k]}
      ELSE disk[k] = io.was[k]
  BY <1>2 DEF TransferExact
<1>4. j \in (io.done + 1)..(io.done + Chunk(io)) => disk[k] = Data(j)
  BY <1>2 DEF Executed
<1>5. /\ io.done \in Nat /\ io.len \in Nat /\ Chunk(io) \in Nat /\ io.done + Chunk(io) <= io.len
  <2>1. io \in Requests
    BY DEF SameRequest
  <2>2. Chunk(io) \in 1..SectorSize /\ io.done + Chunk(io) <= io.len
    BY <2>1, ChunkBounds, Zenon
  <2>. QED BY <2>1, <2>2, AhciAssumption DEF Requests
<1>6. j \in Int
  BY <1>2, AhciAssumption DEF SameRequest, Requests, DriveSize
<1>. DEFINE done == io'.done
<1>7. done = io.done + Chunk(io)
  OBVIOUS
<1>. HIDE DEF done
<1>8. /\ j \in 1..done <=> j \in 1..io.done \/ j \in (io.done + 1)..(io.done + Chunk(io))
      /\ j \in (done + 1)..io.len => j \in (io.done + 1)..io.len /\ j \notin 1..io.done
      /\ j \in (io.done + 1)..io.len =>
           j \in (io.done + 1)..(io.done + Chunk(io)) \/ j \in (done + 1)..io.len
  BY <1>5, <1>6, <1>7
<1>9. IF j \in 1..done THEN disk[k] = Data(j)
      ELSE IF j \in (done + 1)..io.len THEN disk[k] \in {Data(j), io.was[k]}
      ELSE disk[k] = io.was[k]
  BY <1>3, <1>4, <1>8, Zenon
<1>. QED BY <1>9 DEF done

(* A command on a sector that is executed leaves the rest of the drive.    *)
LEMMA WriteExecuted ==
  ASSUME AhciTypes, TransferExact, io \in Requests, io' = io, io.done < io.len, io.mem \in Page,
         io.call \in Writes, io.op = "write", ~io.zeroed /\ Partial(io) => PageRead(io),
         disk' = [k \in 1..DriveSize |-> IF (k - 1) \div SectorSize = Sector(io)
                                         THEN Merged(io)[((k - 1) % SectorSize) + 1] ELSE disk[k]]
  PROVE  TransferExact' /\ Executed(io)'
<1>d. disk \in [1..DriveSize -> Int]
  BY DEF AhciTypes
<1>1. ASSUME NEW k \in 1..DriveSize, NEW j, j = k - io.base - io.off
      PROVE  /\ j \in (io.done + 1)..(io.done + Chunk(io)) => disk'[k] = Data(j)
             /\ /\ j \notin (io.done + 1)..(io.done + Chunk(io))
                /\ Partial(io) => PageRead(io)
                => disk'[k] = disk[k]
  <2>1. PICK d : d = disk'
    OBVIOUS
  <2>2. d[k] = IF (k - 1) \div SectorSize = Sector(io)
               THEN Merged(io)[((k - 1) % SectorSize) + 1] ELSE disk[k]
    BY <2>1
  <2>3. /\ j \in (io.done + 1)..(io.done + Chunk(io)) => d[k] = Data(j)
        /\ /\ j \notin (io.done + 1)..(io.done + Chunk(io))
           /\ Partial(io) => PageRead(io)
           => d[k] = disk[k]
    BY <1>d, <1>1, <2>2, WriteLands
  <2>. QED BY <2>1, <2>3, Zenon
<1>2. Executed(io)'
  BY <1>1 DEF Executed, Chunk, Skip, Pos
<1>3. TransferExact'
  <2>1. io'.call \in Writes /\ io'.call \notin {"sda_read", "file_read"}
    BY DEF Writes
  <2>2. SUFFICES ASSUME ~io.zeroed, NEW k \in 1..DriveSize, NEW j, j = k - io.base - io.off
                 PROVE IF j \in 1..io.done THEN disk'[k] = Data(j)
                       ELSE IF j \in (io.done + 1)..io.len THEN disk'[k] \in {Data(j), io.was[k]}
                       ELSE disk'[k] = io.was[k]
    BY <2>1 DEF TransferExact
  <2>3. IF j \in 1..io.done THEN disk[k] = Data(j)
        ELSE IF j \in (io.done + 1)..io.len THEN disk[k] \in {Data(j), io.was[k]}
        ELSE disk[k] = io.was[k]
    BY <2>2 DEF TransferExact
  <2>4. io.done \in Nat /\ io.len \in Nat /\ Chunk(io) \in Nat /\ io.done + Chunk(io) <= io.len
    BY ChunkBounds, AhciAssumption DEF Requests
  <2>5. j \in (io.done + 1)..(io.done + Chunk(io)) =>
           j \notin 1..io.done /\ j \in (io.done + 1)..io.len
    BY <2>4
  <2>6. /\ j \in (io.done + 1)..(io.done + Chunk(io)) => disk'[k] = Data(j)
        /\ j \notin (io.done + 1)..(io.done + Chunk(io)) => disk'[k] = disk[k]
    BY <1>1, <2>2
  <2>. QED BY <2>3, <2>5, <2>6, Zenon
<1>. QED BY <1>2, <1>3

DataInv == OpInv /\ ExecutedInv /\ TransferExact

(* A request that stops or is over says no more about its page. *)
LEMMA DataAtRest ==
  ASSUME TransferExact', io' # NoIo =>
           /\ io'.pc \notin Active
           /\ io'.pc = "page" => io'.mem = <<>>
  PROVE  DataInv'
BY DEF DataInv, OpInv, ExecutedInv, Active

LEMMA StopKeepsData ==
  ASSUME io \in Requests, TransferExact, io' = Stop(io), disk' = disk
  PROVE  DataInv'
<1>1. /\ Stop(io) \in Requests /\ Stop(io).pc = "end"
      /\ Stop(io).call = io.call /\ Stop(io).base = io.base /\ Stop(io).off = io.off
      /\ Stop(io).len = io.len /\ Stop(io).was = io.was /\ Stop(io).done = io.done
      /\ Stop(io).buf = io.buf /\ Stop(io).zeroed = io.zeroed
  BY StopOfRequest
<1>2. SameRequest
  BY <1>1 DEF SameRequest
<1>3. TransferExact'
  BY <1>1, <1>2, TransferKept
<1>. QED BY <1>1, <1>3, DataAtRest DEF Active

(* The steps of a command. *)
LEMMA CommandKeepsData ==
  ASSUME AhciTypes, CommandInv, DataInv, ahci_begin \/ ahci_issue \/ ahci_timeout \/ ahci_wait
  PROVE  DataInv'
<1>d. Driver
  BY DEF Driver
<1>t. SameRequest /\ disk' = disk
  BY <1>d, DriverTypes DEF ahci_begin, ahci_issue, ahci_timeout, ahci_wait
<1>n. io # NoIo /\ io' # NoIo /\ io \in Requests
  BY <1>t DEF SameRequest, NoIo, Requests, Calls, Reads, Writes
<1>1. /\ io'.done = io.done /\ io'.buf = io.buf /\ io'.zeroed = io.zeroed
      /\ io'.mem = io.mem /\ io'.op = io.op
  BY <1>n DEF ahci_begin, ahci_issue, ahci_timeout, ahci_wait, Requests
<1>2. /\ io'.call = io.call /\ io'.base = io.base /\ io'.off = io.off /\ io'.len = io.len
  BY <1>t DEF SameRequest
<1>3. /\ Sector(io') = Sector(io) /\ Chunk(io') = Chunk(io) /\ Partial(io') = Partial(io)
  BY <1>1, <1>2, SamePlace
<1>4. PageRead(io)' <=> PageRead(io)
  BY <1>t, <1>1, <1>3 DEF PageRead, Contents
<1>5. Executed(io)' <=> Executed(io)
  BY <1>t, <1>1, <1>2, <1>3, <1>4 DEF Executed
<1>6. TransferExact'
  BY <1>t, <1>1, TransferKept DEF DataInv
<1>7. /\ io.pc \in Active /\ io'.pc \in Active
      /\ io'.pc = "wait" => io.pc = "ready" /\ hba'.pending # {}
      /\ io'.pc = "back" /\ io'.ok => io.pc = "wait" /\ ~hba.tfes
      /\ io'.pc \in {"wait", "back"} \/ io.pc = "begin"
      /\ io.pc = "wait" => io'.pc = "back" /\ hba' = hba
  <2>1. CASE ahci_begin
    <3>1. io.pc = "begin" /\ io'.pc = "ready"
      BY <1>n, <2>1 DEF ahci_begin, Requests
    <3>. QED BY <3>1 DEF Active
  <2>2. CASE ahci_issue
    <3>1. io.pc = "ready" /\ io'.pc = "wait" /\ hba'.pending # {}
      BY <1>n, <2>2 DEF ahci_issue, Requests, AhciTypes
    <3>. QED BY <3>1 DEF Active
  <2>3. CASE ahci_timeout
    <3>1. io.pc = "ready" /\ io'.pc = "back" /\ ~io'.ok
      BY <1>n, <2>3 DEF ahci_timeout, Requests
    <3>. QED BY <3>1 DEF Active
  <2>4. CASE ahci_wait
    <3>1. io.pc = "wait" /\ io'.pc = "back" /\ io'.ok = ~hba.tfes /\ hba' = hba
      BY <1>n, <2>4 DEF ahci_wait, Requests
    <3>. QED BY <3>1 DEF Active
  <2>. QED BY <2>1, <2>2, <2>3, <2>4
<1>8. hba.pending # {} => io.pc = "wait" /\ ~hba.tfes /\ io.slot \in hba.ci
  BY <1>n DEF CommandInv
<1>9. ExecutedInv'
  <2>1. io'.pc = "back" /\ io'.ok => hba.pending = {}
    BY <1>7, <1>8 DEF ahci_begin, ahci_issue, ahci_timeout, ahci_wait
  <2>. QED BY <1>n, <1>5, <1>7, <2>1 DEF ExecutedInv, DataInv
<1>10. OpInv'
  <2>1. /\ io.call \in Reads => io.op = "read"
        /\ io.call = "identify" <=> io.op = "identify"
        /\ io.op # "none"
        /\ io.call \in Writes /\ io.op = "write" =>
             \/ io.pc \in {"wait", "back"} /\ hba.pending = {}
             \/ Partial(io) => io.zeroed \/ PageRead(io)
    BY <1>n, <1>7 DEF DataInv, OpInv
  <2>2. io.call \in Writes /\ io.op = "write" =>
             \/ io'.pc \in {"wait", "back"} /\ hba'.pending = {}
             \/ Partial(io) => io.zeroed \/ PageRead(io)
    <3>1. io.pc \in {"wait", "back"} => io.pc = "wait"
      BY DEF ahci_begin, ahci_issue, ahci_timeout, ahci_wait
    <3>. QED BY <1>7, <2>1, <3>1
  <2>3. io'.pc # "page"
    BY <1>7 DEF Active
  <2>. QED BY <1>1, <1>2, <1>3, <1>4, <2>1, <2>2, <2>3 DEF OpInv
<1>. QED BY <1>6, <1>9, <1>10 DEF DataInv

LEMMA NextSectorKeepsData ==
  ASSUME AhciTypes, CommandInv, DataInv, next_sector
  PROVE  DataInv'
<1>. USE AhciAssumption
<1>d. Driver
  BY DEF Driver
<1>t. SameRequest /\ disk' = disk
  BY <1>d, DriverTypes DEF next_sector
<1>n. io # NoIo /\ io' # NoIo /\ io \in Requests /\ io.pc = "page"
  BY <1>t DEF SameRequest, NoIo, Requests, Calls, Reads, Writes, next_sector
<1>1. CASE ~(io.done < io.len /\ free > 0)
  <2>1. /\ io'.done = io.done /\ io'.buf = io.buf /\ io'.zeroed = io.zeroed /\ io'.pc = "end"
    BY <1>1, <1>n DEF next_sector, Requests
  <2>2. TransferExact'
    BY <1>t, <2>1, TransferKept DEF DataInv
  <2>. QED BY <2>1, <2>2, DataAtRest DEF Active
<1>2. CASE io.done < io.len /\ free > 0
  <2>. DEFINE mem == IF Len(io.mem) = SectorSize THEN io.mem ELSE [k \in 1..SectorSize |-> 0]
  <2>1. io.mem # <<>> => mem = io.mem
    <3>1. io.mem \in Page => Len(io.mem) = SectorSize
      BY DEF Page
    <3>. QED BY <1>n, <3>1 DEF Requests
  <2>. HIDE DEF mem
  <2>2. io' = [io EXCEPT !.pc = "begin", !.held = TRUE, !.op = FirstOp(io), !.mem = mem]
    BY <1>2, <1>n DEF next_sector, mem, Requests
  <2>3. /\ io'.done = io.done /\ io'.buf = io.buf /\ io'.zeroed = io.zeroed /\ io'.pc = "begin"
        /\ io'.op = FirstOp(io) /\ io'.mem = mem
    BY <2>2, <1>n DEF Requests
  <2>4. TransferExact'
    BY <1>t, <2>3, TransferKept DEF DataInv
  <2>5. /\ io'.call = io.call /\ io'.base = io.base /\ io'.off = io.off /\ io'.len = io.len
    BY <1>t DEF SameRequest
  <2>6. Sector(io') = Sector(io) /\ Partial(io') = Partial(io)
    BY <2>3, <2>5, SamePlace
  <2>7. /\ io.call \in Reads => FirstOp(io) = "read"
        /\ io.call = "identify" <=> FirstOp(io) = "identify"
        /\ FirstOp(io) # "none"
        /\ FirstOp(io) = "write" /\ Partial(io) => io.mem # <<>>
    BY DEF FirstOp, Reads
  <2>8. io.mem # <<>> => io.zeroed \/ PageRead(io)
    BY <1>n DEF DataInv, OpInv
  <2>9. io.mem # <<>> /\ PageRead(io) => PageRead(io)'
    BY <1>t, <2>1, <2>3, <2>6 DEF PageRead, Contents
  <2>10. OpInv'
    BY <2>3, <2>5, <2>6, <2>7, <2>8, <2>9 DEF OpInv
  <2>11. ExecutedInv'
    BY <2>3 DEF ExecutedInv
  <2>. QED BY <2>4, <2>10, <2>11 DEF DataInv
<1>. QED BY <1>1, <1>2

(* What a call does with its page when the command is over. *)
LEMMA BackKeepsData ==
  ASSUME AhciTypes, CommandInv, DataInv,
         read_back \/ sda_write_back \/ file_write_back \/ identify_back \/ ahcitest_back
  PROVE  DataInv'
<1>d. Driver
  BY DEF Driver
<1>t. SameRequest /\ disk' = disk
  BY <1>d, DriverTypes DEF read_back, sda_write_back, file_write_back, identify_back, ahcitest_back
<1>n. io # NoIo /\ io' # NoIo /\ io \in Requests /\ io.pc = "back"
  BY <1>t DEF SameRequest, NoIo, Requests, Calls, Reads, Writes,
              read_back, sda_write_back, file_write_back, identify_back, ahcitest_back
<1>i. io.done < io.len /\ io.mem \in Page
  BY <1>n DEF CommandInv, Active
<1>o. /\ io.call \in Reads => io.op = "read"
      /\ io.call = "identify" <=> io.op = "identify"
      /\ io.op \in {"read", "write", "identify"}
      /\ io.ok => Executed(io)
  BY <1>n DEF DataInv, OpInv, ExecutedInv, Active, Requests
<1>x. TransferExact
  BY DEF DataInv
<1>p. /\ io'.call = io.call /\ io'.base = io.base /\ io'.off = io.off /\ io'.len = io.len
      /\ io'.was = io.was
  BY <1>t DEF SameRequest
<1>1. CASE io' = Stop(io)
  BY <1>1, <1>n, <1>t, <1>x, StopKeepsData
<1>2. CASE read_back /\ io.ok
  <2>. DEFINE part == SubSeq(io.mem, Skip(io) + 1, Skip(io) + Chunk(io))
  <2>1. PageRead(io)
    BY <1>o, <1>2 DEF read_back, Reads, Executed
  <2>2. /\ Advance(io) \in Requests /\ Advance(io).buf = io.buf
        /\ Advance(io).pc = "page" /\ Advance(io).mem = <<>> /\ Advance(io).done = io.done + Chunk(io)
    BY <1>n, <1>i, AdvanceOfRequest DEF Advance, Requests
  <2>3. io' = [Advance(io) EXCEPT !.buf = io.buf \o part]
    BY <1>2, <2>2 DEF read_back
  <2>. HIDE DEF part
  <2>4. io'.buf = io.buf \o part /\ io'.pc = "page" /\ io'.mem = <<>> /\ io'.done = io.done + Chunk(io)
    BY <2>2, <2>3 DEF Requests
  <2>5. Pos(io') = Pos(io) + Chunk(io)
    <3>1. io.base \in Nat /\ io.off \in Nat /\ io.done \in Nat /\ Chunk(io) \in Int
      BY <1>n, <1>i, ChunkBounds DEF Requests
    <3>2. Pos(io') = io.base + io.off + (io.done + Chunk(io))
      BY <1>p, <2>4 DEF Pos
    <3>. QED BY <3>1, <3>2 DEF Pos
  <2>6. io.buf = SubSeq(disk, io.base + io.off + 1, Pos(io))
    BY <1>2, <1>x DEF TransferExact, read_back
  <2>7. io'.buf = SubSeq(disk, io.base + io.off + 1, Pos(io) + Chunk(io))
    BY <1>n, <1>i, <2>1, <2>4, <2>6, ReadGrows DEF part, AhciTypes
  <2>8. TransferExact'
    <3>1. io'.call \notin Writes
      BY <1>2, <1>p DEF read_back, Writes
    <3>. QED BY <1>p, <1>t, <2>5, <2>7, <3>1 DEF TransferExact
  <2>. QED BY <2>4, <2>8, DataAtRest DEF Active
<1>3. CASE sda_write_back /\ io.ok /\ io.op = "read"
  <2>1. PageRead(io)
    BY <1>o, <1>3 DEF Executed
  <2>2. io' = [io EXCEPT !.pc = "begin", !.op = "write"]
    BY <1>3 DEF sda_write_back
  <2>3. /\ io'.pc = "begin" /\ io'.op = "write" /\ io'.done = io.done /\ io'.buf = io.buf
        /\ io'.zeroed = io.zeroed /\ io'.mem = io.mem
    BY <1>n, <2>2 DEF Requests
  <2>4. TransferExact'
    BY <1>t, <1>x, <2>3, TransferKept
  <2>5. Sector(io') = Sector(io)
    BY <1>p, <2>3, SamePlace
  <2>6. PageRead(io)'
    BY <1>t, <2>1, <2>3, <2>5 DEF PageRead, Contents
  <2>7. io'.call = "sda_write"
    BY <1>3, <1>p DEF sda_write_back
  <2>8. OpInv' /\ ExecutedInv'
    BY <2>3, <2>6, <2>7 DEF OpInv, ExecutedInv, Reads
  <2>. QED BY <2>4, <2>8 DEF DataInv
<1>4. CASE file_write_back /\ io.op = "read"
  <2>. DEFINE mem == IF io.ok THEN io.mem ELSE [k \in 1..SectorSize |-> 0]
  <2>1. io' = [io EXCEPT !.pc = "page", !.held = FALSE, !.zeroed = io.zeroed \/ ~io.ok, !.mem = mem]
    BY <1>n, <1>4 DEF file_write_back, Requests
  <2>2. io.ok => mem = io.mem /\ PageRead(io)
    BY <1>o, <1>4 DEF Executed
  <2>. HIDE DEF mem
  <2>3. /\ io'.pc = "page" /\ io'.done = io.done /\ io'.buf = io.buf
        /\ io'.zeroed = (io.zeroed \/ ~io.ok) /\ io'.mem = mem
    BY <1>n, <2>1 DEF Requests
  <2>4. TransferExact'
    BY <1>t, <1>x, <2>3, TransferKept
  <2>5. Sector(io') = Sector(io)
    BY <1>p, <2>3, SamePlace
  <2>6. io.ok => PageRead(io)'
    BY <1>t, <2>2, <2>3, <2>5 DEF PageRead, Contents
  <2>7. io'.call = "file_write"
    BY <1>4, <1>p DEF file_write_back
  <2>8. OpInv' /\ ExecutedInv'
    BY <2>3, <2>6, <2>7 DEF OpInv, ExecutedInv, Active
  <2>. QED BY <2>4, <2>8 DEF DataInv
<1>5. CASE (sda_write_back \/ file_write_back) /\ io.ok /\ io.op # "read"
  <2>1. io.op = "write" /\ io.call \in Writes
    BY <1>o, <1>5 DEF sda_write_back, file_write_back, Writes
  <2>2. io' = Advance(io)
    BY <1>5 DEF sda_write_back, file_write_back
  <2>3. /\ io'.pc = "page" /\ io'.mem = <<>> /\ io'.done = io.done + Chunk(io) /\ io'.zeroed = io.zeroed
    BY <1>n, <2>2 DEF Advance, Requests
  <2>4. TransferExact'
    BY <1>i, <1>o, <1>5, <1>t, <1>x, <2>1, <2>3, WriteAdvances
  <2>. QED BY <2>3, <2>4, DataAtRest DEF Active
<1>6. \/ io' = Stop(io)
      \/ read_back /\ io.ok
      \/ sda_write_back /\ io.ok /\ io.op = "read"
      \/ file_write_back /\ io.op = "read"
      \/ (sda_write_back \/ file_write_back) /\ io.ok /\ io.op # "read"
  BY DEF read_back, sda_write_back, file_write_back, identify_back, ahcitest_back
<1>. QED BY <1>1, <1>2, <1>3, <1>4, <1>5, <1>6

LEMMA ControllerKeepsData ==
  ASSUME AhciTypes, CommandInv, DataInv, Controller
  PROVE  DataInv'
<1>t. SameRequest /\ io.pc = "wait" /\ hba.pending = {Command(io)} /\ hba'.pending = {}
  BY ControllerTypes, ControllerCommand
<1>n. io # NoIo /\ io' # NoIo /\ io \in Requests /\ io'.pc = "wait"
  BY <1>t, ControllerCommand DEF SameRequest, NoIo, Requests, Calls, Reads, Writes
<1>i. io.done < io.len /\ io.mem \in Page
  BY <1>n, <1>t DEF CommandInv, Active
<1>o. /\ io.call \in Reads => io.op = "read"
      /\ io.call = "identify" <=> io.op = "identify"
      /\ io.op \in {"read", "write", "identify"}
      /\ io.call \in Writes /\ io.op = "write" /\ Partial(io) => io.zeroed \/ PageRead(io)
  BY <1>n, <1>t DEF DataInv, OpInv, Active, Requests
<1>x. TransferExact
  BY DEF DataInv
<1>p. io'.call = io.call
  BY <1>t DEF SameRequest
<1>q. io'.op = io.op /\ io'.done = io.done /\ io'.buf = io.buf /\ io'.zeroed = io.zeroed
  <2>1. io' = io \/ \E m : io' = [io EXCEPT !.mem = m]
    BY DEF Controller, HbaCompletes, HbaFails
  <2>. QED BY <1>n, <2>1 DEF Requests
<1>1. OpInv'
  BY <1>n, <1>t, <1>o, <1>p, <1>q DEF OpInv
<1>2. CASE HbaFails
  <2>1. disk' = disk /\ hba'.tfes
    BY <1>2 DEF HbaFails, AhciTypes
  <2>2. TransferExact'
    BY <1>t, <1>q, <1>x, <2>1, TransferKept
  <2>3. ExecutedInv'
    BY <1>n, <2>1 DEF ExecutedInv
  <2>. QED BY <1>1, <2>2, <2>3 DEF DataInv
<1>3. CASE HbaCompletes
  <2>. DEFINE c == Command(io)
  <2>1. /\ c.op = io.op /\ c.lba = Sector(io)
        /\ c.op = "write" => c.page = Merged(io)
    BY DEF Command
  <2>. HIDE DEF c
  <2>2. /\ c.op # "identify" => c.lba < Sectors
        /\ io' = IF c.op = "read" THEN [io EXCEPT !.mem = Contents(c.lba)] ELSE io
        /\ disk' = IF c.op # "write" THEN disk
                  ELSE [k \in 1..DriveSize |-> IF (k - 1) \div SectorSize = c.lba
                                               THEN c.page[((k - 1) % SectorSize) + 1]
                                               ELSE disk[k]]
    BY <1>t, <1>3 DEF HbaCompletes, c
  <2>3. CASE io.op = "write"
    <3>1. io.call \in Writes
      BY <1>n, <1>o, <2>3 DEF Requests, Calls
    <3>2. io' = io
      BY <2>1, <2>2, <2>3
    <3>3. disk' = [k \in 1..DriveSize |-> IF (k - 1) \div SectorSize = Sector(io)
                                          THEN Merged(io)[((k - 1) % SectorSize) + 1] ELSE disk[k]]
      BY <2>1, <2>2, <2>3
    <3>4. ~io.zeroed /\ Partial(io) => PageRead(io)
      BY <1>o, <2>3, <3>1
    <3>5. TransferExact' /\ Executed(io)'
      BY <1>n, <1>i, <1>x, <2>3, <3>1, <3>2, <3>3, <3>4, WriteExecuted, Zenon
    <3>. QED BY <1>1, <3>5 DEF DataInv, ExecutedInv
  <2>4. CASE io.op # "write"
    <3>1. disk' = disk
      BY <2>1, <2>2, <2>4
    <3>2. TransferExact'
      BY <1>t, <1>q, <1>x, <3>1, TransferKept
    <3>3. Executed(io)'
      <4>1. CASE io.op = "read"
        <5>1. io'.mem = Contents(Sector(io)) /\ Sector(io) < Sectors
          BY <1>n, <2>1, <2>2, <4>1 DEF Requests
        <5>2. Sector(io') = Sector(io)
          BY <1>t, <1>q, SamePlace DEF SameRequest
        <5>3. PageRead(io)'
          BY <3>1, <5>1, <5>2 DEF PageRead, Contents
        <5>. QED BY <1>q, <4>1, <5>3 DEF Executed
      <4>2. CASE io.op = "identify"
        BY <1>q, <4>2 DEF Executed
      <4>. QED BY <1>o, <2>4, <4>1, <4>2
    <3>. QED BY <1>1, <3>2, <3>3 DEF DataInv, ExecutedInv
  <2>. QED BY <2>3, <2>4
<1>. QED BY <1>2, <1>3 DEF Controller

(* Nothing was read or written yet. *)
LEMMA BeginningData ==
  ASSUME disk \in [1..DriveSize -> Int], CommandInv, Idle,
         NEW call \in Calls, NEW base \in Nat, NEW off \in Nat, NEW len \in Nat,
         io' = Request(call, base, off, len)
  PROVE  DataInv'
<1>. USE AhciAssumption
<1>1. /\ io'.pc = "page" /\ io'.mem = <<>> /\ io'.buf = <<>> /\ io'.done = 0 /\ io'.was = disk'
      /\ io'.base = base /\ io'.off = off /\ io'.len = len
  BY BeginningCommand
<1>2. disk' = disk
  BY DEF Idle
<1>3. io'.buf = SubSeq(disk', io'.base + io'.off + 1, Pos(io'))
  <2>1. Pos(io') = base + off
    BY <1>1 DEF Pos
  <2>2. SubSeq(disk, base + off + 1, base + off) = <<>>
    BY SubSeqEmpty
  <2>. QED BY <1>1, <1>2, <2>1, <2>2
<1>4. ASSUME NEW k \in 1..DriveSize, NEW j
      PROVE IF j \in 1..io'.done THEN disk'[k] = Data(j)
            ELSE IF j \in (io'.done + 1)..io'.len THEN disk'[k] \in {Data(j), io'.was[k]}
            ELSE disk'[k] = io'.was[k]
  <2>1. ~(j \in 1..0)
    OBVIOUS
  <2>. QED BY <1>1, <2>1
<1>5. TransferExact'
  BY <1>3, <1>4 DEF TransferExact
<1>. QED BY <1>1, <1>5, DataAtRest DEF Active

LEMMA DataStep ==
  ASSUME AhciTypes, CommandInv, PagesInv, PositionInv, DataInv, [Next]_vars
  PROVE  DataInv'
<1>n. ASSUME io' = NoIo PROVE DataInv'
  BY <1>n DEF DataInv, OpInv, ExecutedInv, TransferExact, NoIo, Writes
<1>d. disk \in [1..DriveSize -> Int]
  BY DEF AhciTypes
<1>1. CASE ahci_init
  <2>1. Idle /\ (io' = NoIo \/ io' = Request("identify", 0, 0, 1))
    BY <1>1, InitBegins DEF Idle
  <2>2. "identify" \in Calls /\ 0 \in Nat /\ 1 \in Nat
    BY DEF Calls
  <2>. QED BY <1>n, <1>d, <2>1, <2>2, BeginningData
<1>2. CASE DriverStep
  BY <1>2, CommandKeepsData, NextSectorKeepsData, BackKeepsData DEF DriverStep, Driver
<1>3. CASE ControllerStep
  BY <1>3, ControllerKeepsData DEF ControllerStep
<1>4. CASE request_returns
  BY <1>4, <1>n DEF request_returns
<1>5. CASE Program \/ ShellCommand
  <2>1. Begins
    BY <1>5, CallersBegin
  <2>2. Idle
    BY <2>1 DEF Begins, Idle, DriverAlone
  <2>3. CASE io' # NoIo
    <3>1. PICK call \in Calls \ {"identify"}, base, off, len \in Nat : io' = Request(call, base, off, len)
      BY <2>1, <2>3 DEF Begins
    <3>. QED BY <1>d, <2>2, <3>1, BeginningData
  <2>. QED BY <1>n, <2>3
<1>6. CASE UNCHANGED vars
  <2>1. io' = io /\ disk' = disk /\ hba' = hba
    BY <1>6 DEF vars, ahciVars
  <2>2. TransferExact'
    BY <2>1 DEF DataInv, TransferExact, Pos
  <2>3. /\ Sector(io') = Sector(io) /\ Chunk(io') = Chunk(io) /\ Partial(io') = Partial(io)
    BY <2>1, SamePlace
  <2>4. PageRead(io)' <=> PageRead(io)
    BY <2>1, <2>3 DEF PageRead, Contents
  <2>5. Executed(io)' <=> Executed(io)
    BY <2>1, <2>3, <2>4 DEF Executed
  <2>6. OpInv' /\ ExecutedInv'
    BY <2>1, <2>3, <2>4, <2>5 DEF DataInv, OpInv, ExecutedInv
  <2>. QED BY <2>2, <2>6 DEF DataInv
<1>. QED BY <1>1, <1>2, <1>3, <1>4, <1>5, <1>6 DEF Next

(* The inductive invariant holds at boot and after every step. *)
LEMMA FilesInvInit ==
  ASSUME Init
  PROVE  FilesInv
<1>. USE AhciAssumption, FilesAssumption
<1>1. AhciTypes
  <2>1. disk = [k \in 1..DriveSize |-> -k] /\ DriveSize \in Nat
    BY DEF Init, ahciInit, DriveSize
  <2>2. disk \in [1..DriveSize -> Int]
    BY <2>1
  <2>3. free \in Nat /\ DOMAIN hba = {"ci", "tfes", "pending"} /\ hba.ci = {} /\ hba.tfes = FALSE
    BY DEF Init, ahciInit
  <2>. QED BY <2>2, <2>3 DEF Init, ahciInit, AhciTypes
<1>2. CommandInv
  BY DEF Init, ahciInit, CommandInv
<1>3. PagesInv
  <2>1. free \in PageCounts /\ kept = 0 /\ io = NoIo /\ free \in Nat
    BY DEF Init, ahciInit
  <2>2. free + kept + 0 = free
    BY <2>1
  <2>. QED BY <2>1, <2>2 DEF PagesInv
<1>4. PositionInv
  BY PositionOfNoFds DEF Init, ahciInit, PositionInv, AllNodes
<1>5. RamInv
  <2>1. {s \in RamSlots : ramfiles[s] # Empty} = {} /\ ramfile_count = 0
    BY DEF Init
  <2>2. RamFilesCounted
    BY <2>1, FS_EmptySet DEF RamFilesCounted
  <2>. QED BY <2>1, <2>2 DEF Init, RamInv
<1>6. OpInv /\ ExecutedInv /\ TransferExact
  BY DEF Init, ahciInit, OpInv, ExecutedInv, TransferExact, NoIo, Writes
<1>. QED BY <1>1, <1>2, <1>3, <1>4, <1>5, <1>6 DEF FilesInv

LEMMA FilesInvStep ==
  ASSUME FilesInv, [Next]_vars
  PROVE  FilesInv'
<1>1. AhciTypes /\ CommandInv /\ PagesInv /\ PositionInv /\ RamInv /\ DataInv
  BY DEF FilesInv, DataInv
<1>. QED
  BY <1>1, TypesAndCommand, PagesStep, PositionStep, RamStep, DataStep DEF FilesInv, DataInv

LEMMA FilesInvAlways == Spec => []FilesInv
BY FilesInvInit, FilesInvStep, PTL DEF Spec

-----------------------------------------------------------------------------
(* The position the kernel keeps for a descriptor is the one the program   *)
(* works out from what read and lseek returned, up to 2^32 and its         *)
(* remainder beyond, for every size of the drive, every failure and every  *)
(* request (SYS_READ, SYS_LSEEK of usermode.c).                            *)
THEOREM PositionsAreHonest == Spec => []PositionHonest
<1>1. FilesInv => PositionHonest
  BY DEF FilesInv, PositionInv, PositionHonest
<1>. QED BY <1>1, FilesInvAlways, PTL

(* A read returns the bytes of the disk, and a write changes its own bytes *)
(* and no others, whatever the sizes of sector and request and whichever   *)
(* commands fail (sda_read, sda_write, ahci_read_sector, fat32_file_read   *)
(* and fat32_file_write).                                                  *)
THEOREM TransfersAreExact == Spec => []TransferExact
<1>1. FilesInv => TransferExact
  BY DEF FilesInv
<1>. QED BY <1>1, FilesInvAlways, PTL

(* The controller never works on a page that was given back (ahci_cmd      *)
(* waits for the slot or the error before its caller frees the page).      *)
THEOREM DmaPagesAreHeld == Spec => []DmaPageHeld
<1>1. FilesInv => DmaPageHeld
  <2>. SUFFICES ASSUME FilesInv, hba.pending # {} PROVE io.call # "none" /\ io.held
    BY DEF DmaPageHeld
  <2>1. AhciTypes /\ CommandInv
    BY DEF FilesInv
  <2>2. io # NoIo /\ io.held
    BY <2>1 DEF CommandInv, Active
  <2>. QED BY <2>1, <2>2, UnderWay
<1>. QED BY <1>1, FilesInvAlways, PTL

(* On every way out of a request the lock and the page are given back:     *)
(* only the tables of port_rebase and the pages of cmd_ahcitest are kept.  *)
THEOREM NothingIsHeld == Spec => []NothingHeld
<1>1. FilesInv => NothingHeld
  <2>. SUFFICES ASSUME FilesInv PROVE NothingHeld
    OBVIOUS
  <2>1. AhciTypes /\ CommandInv /\ PagesInv
    BY DEF FilesInv
  <2>2. io.call # "none" <=> io # NoIo
    BY <2>1, UnderWay
  <2>. QED BY <2>1, <2>2 DEF NothingHeld, CommandInv, PagesInv
<1>. QED BY <1>1, FilesInvAlways, PTL

(* The count of the RAM disk is never below the number of its files, so    *)
(* ramls hides none, also when kmalloc fails (ramdisk_create and _delete). *)
THEOREM RamFilesAreCounted == Spec => []RamFilesCounted
<1>1. FilesInv => RamFilesCounted
  BY DEF FilesInv, RamInv
<1>. QED BY <1>1, FilesInvAlways, PTL
=============================================================================
