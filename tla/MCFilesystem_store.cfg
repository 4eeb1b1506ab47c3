SPECIFICATION Spec
CONSTANTS
  Clients = {c1, c2}
  Files = {f1, f2, f3}
  NoOwner = NoOwner
  NoFile = NoFile
  NULL = NULL
  NoFault = NoFault
  CachePolicies = {"FIFO", "LRU"}
  MaxFileCount = 2
  MaxMemorySize = 2
  MaxFileSize = 2
  MaxOpenedFiles = 1
  MaxWaiting = 0
  SampleSizes = {0}
  MaxDrift = 0
SYMMETRY ClientFileSymmetry
CONSTRAINT BoundedDrift
INVARIANT CacheMatchesTable
PROPERTY ImplementsCacheRing
CHECK_DEADLOCK FALSE
