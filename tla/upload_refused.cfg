CONSTANTS
  Modes = {FALSE}
  Refusals <- MCRefusals
  MemoryCanFail = FALSE
  PartSize = 3
  MaxWrite = 3
  MaxFile = 8
  MaxFailures = 2
SPECIFICATION Spec
CHECK_DEADLOCK FALSE
INVARIANTS LengthIsCommitted
