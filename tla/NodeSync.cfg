SPECIFICATION SyncFairSpec
CONSTANTS
  MaxHeight = 2
  MaxRound = 1
  Absent = Absent
  ValidatorCount = 2
  MyIndex = 0
  FileBlocks = 2
  MaxHistory = 1
  RunsRpc = TRUE
  MaxInbox = 3
  MaxCrashes = 0
  MaxStreams = 1
PROPERTY
  CatchesUp
CHECK_DEADLOCK FALSE
