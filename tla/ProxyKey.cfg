CONSTANTS
  t1 = t1
  t2 = t2
  t3 = t3
  Threads = {t1, t2, t3}
  Requests <- MCRequests
  Links <- RootLinks
  Servers <- MCServers
  TTL = 0
  MaxTime = 1
  MaxFailures = 1
SPECIFICATION Spec
CHECK_DEADLOCK FALSE
INVARIANTS
  UniformKeys
