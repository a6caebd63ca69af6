CONSTANTS
  f1 = f1
  f2 = f2
  None = None
  Files = {f1, f2}
  Workload = {"put", "get", "ls", "other", "exit", "eof"}
  MaxLen = 3
  FileLens = {1, 2, 3}
  MaxSeq = 1
  ClientLayout = "apart"
  ServerLayout = "joined"
  MaxLosses = 1
  MaxDuplicates = 1
  MaxQueue = 4
  MaxPuts = 2
SPECIFICATION FairSpec
CHECK_DEADLOCK FALSE
INVARIANTS
  TypeOK
  AnswersAreCurrent
  StopAndWait
  NothingMixed
PROPERTIES
  CommandsEnd
  SentIsStored
