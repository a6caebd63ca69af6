CONSTANTS
  t1 = t1
  t2 = t2
  t3 = t3
  Threads = {t1, t2, t3}
  Requests <- MCRequests
  Links <- MCLinks
  Servers <- MCServers
  TTL = 0
  MaxTime = 1
  MaxFailures = 1
SPECIFICATION Spec
CHECK_DEADLOCK FALSE
INVARIANTS
  TypeOK
  AnswersAreFresh
  UniformKeys
  AnswersMatch
  EmptyWasAnswered
