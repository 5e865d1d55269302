SPECIFICATION LogSpec
CONSTANTS
  Signers = {s1, s2}
  Recipient = Recipient
  Funds = 2
  MaxHeight = 4
  NoBlock = NoBlock
  MaxSkipped = 1
  Checked = 2
  MaxRunning = 2
  MaxLost = 1
  MaxRereads = 1
  MaxRestarts = 1
INVARIANTS
  TypeOK
  SignersExact
  ReportedAsAppended
  LogAccepted
  VerifiedExecuted
PROPERTIES
  ImplementsSettlement
  ImplementsSequential
CHECK_DEADLOCK FALSE
SYMMETRY Symmetry
