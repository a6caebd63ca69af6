CONSTANTS
  k1 = k1
  k2 = k2
  Conns = {k1, k2}
  Wants <- MCWants
  MaxRequests <- MCMaxRequests
  MaxStalls = 1
  MaxFiles = 2
  BufSize = 3
  TagLen = 2
  MaxStray = 1
  Rude = {k1}
  Patient = TRUE
SPECIFICATION FairSpec
CHECK_DEADLOCK FALSE
INVARIANTS
  TypeOK
  NothingForgotten
  BodiesAreExact
  NotFoundMeansMissing
PROPERTIES
  ExitWaits
  ServesInOrder
  ConnectionsEnd
  InterruptEnds
