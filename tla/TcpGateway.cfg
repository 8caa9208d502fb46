SPECIFICATION FairSpec
CONSTANTS
  Fds = {fd1, fd2}
  fd1 = fd1
  fd2 = fd2
  OrderBytes = 3
  READ_BUF = 6
  MAX_EVENTS = 2
  MaxBytes = 7
  MaxSessions = 2
  MaxFaults = 1
INVARIANTS
  StreamReassembled
  NoEdgeLost
PROPERTIES
  GracefulCloseReadsAll
  StopReturns
CHECK_DEADLOCK FALSE
