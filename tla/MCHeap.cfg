SPECIFICATION Spec
CONSTANTS
  TotalPages = 7
  FirstPage = 1
  Usable <- UsablePages
  BitmapPages <- BitmapPage
  PageUnits = 6
  Header = 2
  MaxGroups = 3
  Sizes <- Requests
  StackPages = 1
  MaxStacks = 1
INVARIANT HeapTiling
INVARIANT PointersAreUsedBlocks
INVARIANT CountersExact
INVARIANT HeapDrains
PROPERTY LiveBlocksStay
