SPECIFICATION Spec
CONSTANTS
  H = 3
  WIN_H = 1
  Shadow = 1
  Packets <- SomePackets
  MaxDelta = 1
INVARIANT DirtyCovers
INVARIANT NoGhosts
INVARIANT TextShown
PROPERTY DragCatchesUp
PROPERTY ScreenSettles
