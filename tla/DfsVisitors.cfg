CONSTANTS
  c1 = c1
  c2 = c2
  c3 = c3
  f1 = f1
  f2 = f2
  sub = sub
  Root = Root
  None = None
  Clients = {c1, c2, c3}
  Authorized = {c1, c2}
  Files = {f1}
  Dirs = {Root}
  DirOf <- MCDirOf
  Workload <- Visitors
  Bins = {0}
  MaxConns = 4
  MaxCrashes = 0
  MaxPuts = 2
  MaxTimeouts = 0
SPECIFICATION Spec
CONSTRAINT OneVisitor
INVARIANTS
  StoredWhereItBelongs
  CompleteGetHasAllPieces
  GetIsFresh
