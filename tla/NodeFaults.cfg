SPECIFICATION ReusedSpec
CONSTANTS
  MaxHeight = 2
  MaxRound = 1
  Absent = Absent
  ValidatorCount = 2
  MyIndex = 0
  FileBlocks = 1
  MaxHistory = 0
  RunsRpc = TRUE
  MaxInbox = 2
  MaxCrashes = 1
  MaxStreams = 2
INVARIANTS
  InStep
  ValueWithCertificate
  NoOrphanData
PROPERTY
  DecidedValuesStable
CHECK_DEADLOCK FALSE
