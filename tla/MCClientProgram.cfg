SPECIFICATION ClientSpec
CONSTANTS
  Clients = {c1, c2, c3}
  First = c1
  Second = c2
  f1 = f1
  f2 = f2
  f3 = f3
  Files = {f1, f2, f3}
  Names = {f1, f2, f3}
  NoOwner = NoOwner
  NoFile = NoFile
  NULL = NULL
  NoFault = NoFault
  NoDir = NoDir
  CachePolicies = {"LRU"}
  MaxFileCount = 2
  MaxMemorySize = 1
  MaxFileSize = 1
  MaxOpenedFiles = 3
  MaxWaiting = 1
  SampleSizes = {}
  Invocations <- MCInvocations
  LocalSize <- MCLocalSize
  FilesIn <- MCFilesIn
INVARIANT DirsGoWithTheirRequests LocksAreKeptOnPurpose SlotsAreConsistent
PROPERTY ProgramsEnd
CHECK_DEADLOCK FALSE
