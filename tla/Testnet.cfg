SPECIFICATION Spec
CONSTANTS
  Absent = Absent
  Truncated = Truncated
  MaxNodes = 3
  MaxMachines = 2
  MaxBootstrap = 2
  MaxCommands = 3
  MaxInterrupts = 1
INVARIANTS
  NodesAreTheValidators
  NodesFindEachOther
  DeterministicRerun
CHECK_DEADLOCK FALSE
