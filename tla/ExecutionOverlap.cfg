SPECIFICATION Spec
CONSTANTS
  Signers = {s1, s2}
  Recipient = Recipient
  Funds = 2
  MaxHeight = 2
  NoBlock = NoBlock
  MaxSkipped = 0
  MaxRunning = 2
  MaxLost = 0
  MaxRereads = 0
  MaxRestarts = 0
INVARIANT
  RecipientPaid
CHECK_DEADLOCK FALSE
