SPECIFICATION Spec
CONSTANTS
  Clients = {c1}
  Files = {f1, f2}
  NoOwner = NoOwner
  NoFile = NoFile
  NULL = NULL
  NoFault = NoFault
  CachePolicies = {"LRU"}
  MaxFileCount = 2
  MaxMemorySize = 1
  MaxFileSize = 1
  MaxOpenedFiles = 1
  MaxWaiting = 1
  SampleSizes = {1}
  MaxDrift = 1
SYMMETRY ClientFileSymmetry
INVARIANT DescriptorInRange
CHECK_DEADLOCK FALSE
