SPECIFICATION Spec
CONSTANTS
  DIR = DIR  DOC = DOC  lower = lower  long = long  DIR_1 = DIR_1
  Leaves <- Names
  LfnEntries <- Entries
  ShortOf <- Shorts
  Tags <- Tildes
  Folded <- Folds
  Volumes <- MainVolumes
  ClusterSize = 2
  MaxDepth = 1
INVARIANT MountRoundTrip
INVARIANT NoSlotLeaks
INVARIANT ChainsSound
INVARIANT NoLostClusters
INVARIANT FreeCountExact
INVARIANT CrashKeepsFiles
CHECK_DEADLOCK FALSE
