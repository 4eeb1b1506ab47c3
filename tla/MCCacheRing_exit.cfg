SPECIFICATION UseSpec
CONSTANTS
  Files = {f1, f2}
  NoFile = NoFile
  NoFault = NoFault
  CachePolicies = {"LRU"}
  MaxFileCount = 101
  MaxMemorySize = 0
  MaxFileSize = 0
  MaxDrift = 0
SYMMETRY FileSymmetry
CONSTRAINT OneOtherFile
INVARIANT UsageNeverExits
CHECK_DEADLOCK FALSE
