SPECIFICATION FairSpec
CONSTANTS
  Base = 3
  Capacity = 5
  Requests <- MCRequests
  QueuingKinds = {1}
  FileArrays <- MCFileArrays
  Nothing = Nothing
INVARIANT MessagesArriveAsSent
PROPERTY ImplementsExchange CallsReturn WorkersAreReleased
CHECK_DEADLOCK FALSE
