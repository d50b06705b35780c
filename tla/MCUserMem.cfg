SPECIFICATION Spec
CONSTANTS
  TotalPages = 6
  FirstPage = 1
  Usable <- AllFrames
  BitmapPages <- BitmapPage
  PageSize = 2
  AddressPages = 12
  KernelStart = 8
  KernelMap <- Kernel
  Breaks <- SomeBreaks
  Lengths = {1, 10}
  TablePages = 5
  HeapStart = 1
  MmapStarts <- Bases
  StackTop = 5
  StackPage = 4
  Images <- Program
  Protections <- ReadOnly
  MaxLen = 2
  NxPages = 1000
INVARIANT FrameOwnership
PROPERTY MprotectAllOrNothing
PROPERTY BrkIsBacked
