SPECIFICATION Spec
CONSTANTS
  Fds = {1, 2}
  Workers = {w1, w2}
  QueueSize = 1
INVARIANT OneHolder SessionsAreCounted SetWithinBound ReadersDoNotBlock
PROPERTY SoftShutdownServesAll ConnectionsAreExchanges
CHECK_DEADLOCK FALSE
SYMMETRY Symmetry
