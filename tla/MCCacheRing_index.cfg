SPECIFICATION Spec
CONSTANTS
  Files = {f1, f2, f3}
  NoFile = NoFile
  NoFault = NoFault
  CachePolicies = {"FIFO"}
  MaxFileCount = 2
  MaxMemorySize = 4
  MaxFileSize = 3
  MaxDrift = 4
SYMMETRY FileSymmetry
INVARIANT NoBadIndex
CHECK_DEADLOCK FALSE
