CONSTANTS
  c1 = c1
  c2 = c2
  c3 = c3
  f1 = f1
  f2 = f2
  sub = sub
  Root = Root
  None = None
  Clients = {c1}
  Authorized = {c1}
  Files = {f1, f2}
  Dirs = {Root, sub}
  DirOf <- MCDirOf
  Workload <- Endless
  Bins = {0, 1, 2, 3}
  MaxConns = 2
  MaxCrashes = 0
  MaxPuts = 2
  MaxTimeouts = 0
SPECIFICATION FairSpec
INVARIANTS
  TypeOK
  PutIsReplicated
  ListIsAllOrNothing
  ServersStayUp
PROPERTIES
  CommandsTerminate
