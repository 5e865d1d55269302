SPECIFICATION Spec
CONSTANTS
  MaxHeight = 3
  MaxRound = 0
  Absent = Absent
  ValidatorCount = 2
  MyIndex = 0
  FileBlocks = 2
  MaxHistory = 2
  RunsRpc = TRUE
  MaxInbox = 2
  MaxCrashes = 0
  MaxStreams = 1
INVARIANT
  DocumentedHistory
CHECK_DEADLOCK FALSE
