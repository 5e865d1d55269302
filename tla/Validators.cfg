SPECIFICATION Spec
CONSTANTS
  Addresses = {1, 2, 3, 4}
  MaxHeight = 4
  MaxRound = 6
  MaxEarly = 2
INVARIANT
  RoundsWasted
PROPERTY
  EveryHeightDecided
CHECK_DEADLOCK FALSE
