-------------------------------- MODULE Ahci --------------------------------
(***************************************************************************)
(* The disk driver of drivers/ahci.c: what ahci_init sets up, the command  *)
(* protocol of ahci_cmd, ahci_read and ahci_write, and the loops over      *)
(* sectors of sda_read, sda_write, ahci_read_sector and ahci_write_sector. *)
(* The controller runs beside the driver.  It is external: it executes or  *)
(* fails the command of a slot, and after a failure it may leave the       *)
(* slot's bit in CI.                                                       *)
(*                                                                         *)
(* One request is under way at a time: system calls run with interrupts    *)
(* off and the shell waits for the program it started.                     *)
(***************************************************************************)
EXTENDS Integers, Sequences, FiniteSetsExt, SequencesExt

CONSTANTS
  NSlots,       \* command slots of the port (32)
  SectorSize,   \* bytes of a sector (512)
  Sectors,      \* sectors of the drive
  DefaultSize,  \* the size sda_read assumes when IDENTIFY failed
  Word,         \* what an unsigned 32-bit integer counts up to (2^32)
  PageCounts,   \* how many pages may be free at boot
  MaxFaults     \* bound: how many commands fail

Slots     == 0..(NSlots - 1)
DriveSize == Sectors * SectorSize

ASSUME AhciAssumption ==
  /\ NSlots \in Nat \ {0} /\ SectorSize \in Nat \ {0} /\ Sectors \in Nat \ {0}
  /\ DefaultSize \in Nat /\ Word \in Nat \ {0}
  /\ PageCounts \subseteq Nat /\ MaxFaults \in Nat

VARIABLES
  up,           \* ahci_init has run
  drive,        \* a SATA drive is attached to the port
  active_port,  \* the port was set up
  disk_size,    \* what IDENTIFY reported, 0 if it failed
  disk,         \* the bytes of the drive
  hba,          \* [ci, tfes, pending]: PxCI, PxIS.TFES, the command being executed
  ahci_lock,    \* the driver's spinlock is held
  free,         \* free pages of the page allocator
  kept,         \* pages the driver took and will not give back
  faults,       \* commands that have failed
  io            \* the request under way

ahciVars == <<up, drive, active_port, disk_size, disk, hba, ahci_lock, free, kept, faults, io>>

NoIo == [call |-> "none"]

Request(call, base, off, len) ==
  [call |-> call, base |-> base, off |-> off, len |-> len, done |-> 0,
   pc |-> "page", op |-> "none", slot |-> 0, ok |-> FALSE, held |-> FALSE,
   mem |-> <<>>, buf |-> <<>>, was |-> disk, zeroed |-> FALSE]

Reads  == {"sda_read", "file_read", "ahcitest"}
Writes == {"sda_write", "file_write"}

(* Where the request stands. *)
Pos(i)     == i.base + i.off + i.done
Skip(i)    == Pos(i) % SectorSize

Chunk(i)   == Min({SectorSize - Skip(i), i.len - i.done})

Partial(i) == Chunk(i) # SectorSize
Sector(i)  == Pos(i) \div SectorSize

(* The j-th byte that is written. *)
Data(j) == j

Contents(lba) == SubSeq(disk, lba * SectorSize + 1, (lba + 1) * SectorSize)

Merged(i) ==
  [k \in 1..SectorSize |-> IF k > Skip(i) /\ k <= Skip(i) + Chunk(i)
                           THEN Data(i.done + k - Skip(i)) ELSE i.mem[k]]

(* sda_read: how much of a read lies on the disk.  The sum has 32 bits. *)
SdaSize == IF disk_size = 0 THEN DefaultSize ELSE disk_size

SdaLength(off, len) ==
  IF off >= SdaSize THEN 0
  ELSE IF (off + len) % Word > SdaSize THEN SdaSize - off ELSE len

-----------------------------------------------------------------------------
(* The controller. *)
HbaCompletes ==
  /\ hba.pending # {}
  /\ \E c \in hba.pending :
       /\ c.op # "identify" => c.lba < Sectors
       /\ hba' = [hba EXCEPT !.ci = @ \ {c.slot}, !.pending = {}]
       /\ io' = IF c.op = "read" THEN [io EXCEPT !.mem = Contents(c.lba)] ELSE io
       /\ disk' = IF c.op # "write" THEN disk
                  ELSE [k \in 1..DriveSize |-> IF (k - 1) \div SectorSize = c.lba
                                               THEN c.page[((k - 1) % SectorSize) + 1]
                                               ELSE disk[k]]
  /\ UNCHANGED <<up, drive, active_port, disk_size, ahci_lock, free, kept, faults>>

(* A sector beyond the end always fails; other failures are bounded. *)
HbaFails ==
  /\ \E c \in hba.pending, left \in BOOLEAN :
       /\ faults < MaxFaults \/ (c.op # "identify" /\ c.lba >= Sectors)
       /\ faults' = IF faults < MaxFaults THEN faults + 1 ELSE faults
       /\ hba' = [hba EXCEPT !.tfes = TRUE, !.pending = {},
                             !.ci = IF left THEN @ ELSE @ \ {c.slot}]
  /\ UNCHANGED <<up, drive, active_port, disk_size, disk, ahci_lock, free, kept, io>>

-----------------------------------------------------------------------------
(* ahci_read, ahci_write, ahci_cmd up to the wait for the port: the lock,  *)
(* PxIS cleared, the first slot that is not in use, or slot 0.             *)
FreeSlot == IF Slots \subseteq hba.ci THEN 0 ELSE Min(Slots \ hba.ci)

ahci_begin ==
  /\ io.call # "none" /\ io.pc = "begin" /\ ~ahci_lock
  /\ ahci_lock' = TRUE
  /\ hba' = [hba EXCEPT !.tfes = FALSE]
  /\ io' = [io EXCEPT !.pc = "ready", !.slot = FreeSlot]
  /\ UNCHANGED <<up, drive, active_port, disk_size, disk, free, kept, faults>>

(* The port is ready and the command is issued, or it stays busy for the   *)
(* whole bounded wait.                                                     *)
ahci_issue ==
  /\ io.call # "none" /\ io.pc = "ready"
  /\ hba' = [hba EXCEPT !.ci = @ \cup {io.slot},
                        !.pending = {[slot |-> io.slot, op |-> io.op, lba |-> Sector(io),
                                      page |-> IF io.op = "write" THEN Merged(io) ELSE <<>>]}]
  /\ io' = [io EXCEPT !.pc = "wait"]
  /\ UNCHANGED <<up, drive, active_port, disk_size, disk, ahci_lock, free, kept, faults>>

ahci_timeout_KeepsLock ==  \* mutant: the early return forgets the lock
  /\ io.call # "none" /\ io.pc = "ready" /\ faults < MaxFaults
  /\ faults' = faults + 1
  /\ io' = [io EXCEPT !.pc = "back", !.ok = FALSE]
  /\ UNCHANGED <<up, drive, active_port, disk_size, disk, hba, ahci_lock, free, kept>>

ahci_timeout ==
  /\ io.call # "none" /\ io.pc = "ready" /\ faults < MaxFaults
  /\ faults' = faults + 1
  /\ ahci_lock' = FALSE
  /\ io' = [io EXCEPT !.pc = "back", !.ok = FALSE]
  /\ UNCHANGED <<up, drive, active_port, disk_size, disk, hba, free, kept>>

(* The wait that has no bound: CI without the slot, or an error. *)
ahci_wait_GivesUp ==  \* mutant: the wait is bounded, the command stays with the controller
  /\ io.call # "none" /\ io.pc = "wait"
  /\ ahci_lock' = FALSE
  /\ io' = [io EXCEPT !.pc = "back", !.ok = io.slot \notin hba.ci /\ ~hba.tfes]
  /\ UNCHANGED <<up, drive, active_port, disk_size, disk, hba, free, kept, faults>>

ahci_wait ==
  /\ io.call # "none" /\ io.pc = "wait"
  /\ io.slot \notin hba.ci \/ hba.tfes
  /\ ahci_lock' = FALSE
  /\ io' = [io EXCEPT !.pc = "back", !.ok = ~hba.tfes]
  /\ UNCHANGED <<up, drive, active_port, disk_size, disk, hba, free, kept, faults>>

-----------------------------------------------------------------------------
(* The loops over sectors: a page for each sector, and at the end of the   *)
(* request or without memory nothing more.                                 *)
FirstOp_NoReadBack(i) ==  \* mutant: a partial sector is written without being read
  IF i.call = "identify" THEN "identify" ELSE IF i.call \in Reads THEN "read" ELSE "write"

FirstOp(i) ==
  IF i.call = "identify" THEN "identify"
  ELSE IF i.call \in Reads \/ (Partial(i) /\ i.mem = <<>>) THEN "read" ELSE "write"

next_sector ==
  /\ io.call # "none" /\ io.pc = "page"
  /\ IF io.done < io.len /\ free > 0
     THEN /\ free' = free - 1
          /\ io' = [io EXCEPT !.pc = "begin", !.held = TRUE, !.op = FirstOp(io),
                              !.mem = IF Len(@) = SectorSize THEN @ ELSE [k \in 1..SectorSize |-> 0]]
     ELSE free' = free /\ io' = [io EXCEPT !.pc = "end"]
  /\ UNCHANGED <<up, drive, active_port, disk_size, disk, hba, ahci_lock, kept, faults>>

(* What a call does with its page when the command is over. *)
Advance(i) == [i EXCEPT !.pc = "page", !.held = FALSE, !.mem = <<>>, !.done = @ + Chunk(i)]
Stop(i)    == [i EXCEPT !.pc = "end", !.held = FALSE]

(* sda_read and ahci_read_sector *)
read_back ==
  /\ io.call \in {"sda_read", "file_read"} /\ io.pc = "back"
  /\ io' = IF io.ok THEN [Advance(io) EXCEPT
                            !.buf = @ \o SubSeq(io.mem, Skip(io) + 1, Skip(io) + Chunk(io))]
           ELSE Stop(io)
  /\ free' = free + 1
  /\ UNCHANGED <<up, drive, active_port, disk_size, disk, hba, ahci_lock, kept, faults>>

(* sda_write keeps its page between the read and the write of a sector. *)
sda_write_back_Leaks ==  \* mutant: the page of a failed read is forgotten
  /\ io.call = "sda_write" /\ io.pc = "back"
  /\ io' = IF ~io.ok THEN Stop(io)
           ELSE IF io.op = "read" THEN [io EXCEPT !.pc = "begin", !.op = "write"]
           ELSE Advance(io)
  /\ free' = IF io.op = "read" THEN free ELSE free + 1
  /\ UNCHANGED <<up, drive, active_port, disk_size, disk, hba, ahci_lock, kept, faults>>

sda_write_back ==
  /\ io.call = "sda_write" /\ io.pc = "back"
  /\ io' = IF ~io.ok THEN Stop(io)
           ELSE IF io.op = "read" THEN [io EXCEPT !.pc = "begin", !.op = "write"]
           ELSE Advance(io)
  /\ free' = IF io.ok /\ io.op = "read" THEN free ELSE free + 1
  /\ UNCHANGED <<up, drive, active_port, disk_size, disk, hba, ahci_lock, kept, faults>>

(* fat32_file_write reads and writes a cluster by calls of their own; when *)
(* the read fails it goes on with zeros.                                   *)
file_write_back ==
  /\ io.call = "file_write" /\ io.pc = "back"
  /\ io' = IF io.op = "read"
           THEN [io EXCEPT !.pc = "page", !.held = FALSE, !.zeroed = @ \/ ~io.ok,
                           !.mem = IF io.ok THEN @ ELSE [k \in 1..SectorSize |-> 0]]
           ELSE IF io.ok THEN Advance(io) ELSE Stop(io)
  /\ free' = free + 1
  /\ UNCHANGED <<up, drive, active_port, disk_size, disk, hba, ahci_lock, kept, faults>>

(* ahci_init after IDENTIFY, and cmd_ahcitest, which keeps its page. *)
identify_back ==
  /\ io.call = "identify" /\ io.pc = "back"
  /\ disk_size' = IF io.ok THEN DriveSize ELSE 0
  /\ free' = free + 1
  /\ io' = Stop(io)
  /\ UNCHANGED <<up, drive, active_port, disk, hba, ahci_lock, kept, faults>>

ahcitest_back ==
  /\ io.call = "ahcitest" /\ io.pc = "back"
  /\ io' = Stop(io)
  /\ kept' = kept + 1
  /\ UNCHANGED <<up, drive, active_port, disk_size, disk, hba, ahci_lock, free, faults>>

-----------------------------------------------------------------------------
(* port_rebase: a page for the command list, one for the received FISes    *)
(* and one for each command table.  Without a page for a table it fails    *)
(* and keeps what it took.                                                 *)
Tables == NSlots + 2

ahci_init ==
  /\ ~up /\ up' = TRUE
  /\ \/ /\ drive /\ free >= Tables
        /\ active_port' = TRUE /\ free' = free - Tables /\ kept' = Tables
        /\ io' = Request("identify", 0, 0, 1)
     \/ /\ drive /\ free \in 2..(Tables - 1)
        /\ free' = 0 /\ kept' = free
        /\ UNCHANGED <<active_port, io>>
     \/ /\ ~drive \/ free < 2
        /\ UNCHANGED <<active_port, free, kept, io>>
  /\ UNCHANGED <<drive, disk_size, disk, hba, ahci_lock, faults>>

ahciInit ==
  /\ up = FALSE /\ drive \in BOOLEAN
  /\ active_port = FALSE /\ disk_size = 0
  /\ disk = [k \in 1..DriveSize |-> -k]
  /\ hba = [ci |-> {}, tfes |-> FALSE, pending |-> {}]
  /\ ahci_lock = FALSE
  /\ free \in PageCounts
  /\ kept = 0 /\ faults = 0
  /\ io = NoIo

Driver ==
  \/ ahci_begin \/ ahci_issue \/ ahci_timeout \/ ahci_wait
  \/ next_sector \/ read_back \/ sda_write_back \/ file_write_back
  \/ identify_back \/ ahcitest_back

Controller == HbaCompletes \/ HbaFails
=============================================================================
