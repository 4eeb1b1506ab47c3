SPECIFICATION Spec
CONSTANTS
  Files = {f1, f2}
  NoFile = NoFile
  NoFault = NoFault
  CachePolicies = {"FIFO"}
  MaxFileCount = 2
  MaxMemorySize = 4
  MaxFileSize = 2
  MaxDrift = 4
SYMMETRY FileSymmetry
INVARIANT ReadAllReadsEveryFile
CHECK_DEADLOCK FALSE
