CONSTANTS
  f1 = f1
  f2 = f2
  None = None
  Files = {f1}
  Workload = {"put", "get"}
  MaxLen = 2
  FileLens = {2}
  MaxSeq = 9
  ClientLayout = "apart"
  ServerLayout = "apart"
  MaxLosses = 1
  MaxDuplicates = 0
  MaxQueue = 4
  MaxPuts = 1
SPECIFICATION FairSpec
CHECK_DEADLOCK FALSE
PROPERTY CommandsOutliveLosses
