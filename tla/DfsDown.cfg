CONSTANTS
  c1 = c1
  c2 = c2
  c3 = c3
  f1 = f1
  f2 = f2
  sub = sub
  Root = Root
  None = None
  Clients = {c1}
  Authorized = {c1}
  Files = {f1}
  Dirs = {Root}
  DirOf <- MCDirOf
  Workload <- PutGet
  Bins = {1}
  MaxConns = 3
  MaxCrashes = 1
  MaxPuts = 2
  MaxTimeouts = 0
SPECIFICATION Spec
CHECK_DEADLOCK FALSE
INVARIANT ConnectFailureHandled
