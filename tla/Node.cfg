SPECIFICATION FairSpec
CONSTANTS
  MaxHeight = 3
  MaxRound = 1
  Absent = Absent
  ValidatorCount = 2
  MyIndex = 0
  FileBlocks = 2
  MaxHistory = 1
  RunsRpc = TRUE
  MaxInbox = 2
  MaxCrashes = 0
  MaxStreams = 1
INVARIANTS
  TypeOK
  InStep
  StoresDecision
  StoresDecidedData
  ServableHistory
  HistoryBounded
  ExecutesDecisions
PROPERTIES
  ImplementsLedger
  CatchesUp
CHECK_DEADLOCK FALSE
