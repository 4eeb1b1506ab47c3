SPECIFICATION EndsSpec
CONSTANTS
  Fds = {1, 2}
  Workers = {w1}
  QueueSize = 1
PROPERTY RequestsAreServed ShutdownEnds SoftShutdownEnds
CHECK_DEADLOCK FALSE
