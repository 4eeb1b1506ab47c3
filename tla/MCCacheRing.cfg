SPECIFICATION Spec
CONSTANTS
  Files = {f1, f2, f3, f4}
  NoFile = NoFile
  NoFault = NoFault
  CachePolicies = {"FIFO", "LRU"}
  MaxFileCount = 3
  MaxMemorySize = 4
  MaxFileSize = 2
  MaxDrift = 2
SYMMETRY FileSymmetry
CONSTRAINT BoundedDrift
INVARIANT RingWellFormed RunningTotalWithinLimit
PROPERTY EvictsOldestFirst OperationsFollowPolicy SizeErrsOnlyAtCountLimit
CHECK_DEADLOCK FALSE
