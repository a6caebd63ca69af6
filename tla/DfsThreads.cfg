CONSTANTS
  c1 = c1
  c2 = c2
  c3 = c3
  f1 = f1
  f2 = f2
  sub = sub
  Root = Root
  None = None
  Clients = {c1}
  Authorized = {c1}
  Files = {f1}
  Dirs = {Root, sub}
  DirOf <- MCDirOf
  Workload <- PutListMkdir
  Bins = {1}
  MaxConns = 3
  MaxCrashes = 1
  MaxPuts = 1
  MaxTimeouts = 0
SPECIFICATION FairSpec
CHECK_DEADLOCK FALSE
PROPERTIES
  ThreadsEnd
