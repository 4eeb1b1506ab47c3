SPECIFICATION Spec
CONSTANTS
  Clients = {c1, c2, c3, c4}
  Files = {f1, f2}
  NoOwner = NoOwner
  NoFile = NoFile
  NULL = NULL
  NoFault = NoFault
  CachePolicies = {"LRU"}
  MaxFileCount = 1
  MaxMemorySize = 0
  MaxFileSize = 0
  MaxOpenedFiles = 1
  MaxWaiting = 2
  SampleSizes = {}
  MaxDrift = 0
SYMMETRY ClientFileSymmetry
INVARIANT TypeOK LockHolderCanRelease WaitersAreBlocked EveryRequestIsPendingOnce NoDoubleFree
PROPERTY NoBarging WaitEndsWithItsReason ImplementsLockService
CHECK_DEADLOCK FALSE
