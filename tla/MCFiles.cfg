SPECIFICATION Spec
CONSTANTS
  NSlots = 2
  SectorSize = 2
  Sectors = 2
  DefaultSize = 6
  Word = 8
  PageCounts <- SomePages
  MaxFaults = 2
  Fds = {3}
  RamSize = 2
  ProcLen = 1
  ProcSize = 2
  FileSector = 1
  MaxRamFiles = 2
  RamNames = {"a", "b"}
  MaxLen = 3
  SeekOffsets <- SomeSeeks
  MaxTold = 9
  MaxRamFails = 3
INVARIANT PositionHonest
INVARIANT TransferExact
INVARIANT DmaPageHeld
INVARIANT NothingHeld
INVARIANT RamFilesCounted
PROPERTY RequestReturns
