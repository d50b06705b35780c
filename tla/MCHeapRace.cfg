SPECIFICATION RaceSpec
CONSTANTS
  TotalPages = 4
  FirstPage = 1
  Usable <- UsablePages
  BitmapPages <- BitmapPage
  PageUnits = 6
  Header = 2
  MaxGroups = 3
  Sizes <- Requests
  StackPages = 1
  MaxStacks = 1
INVARIANT PointersAreUsedBlocks
