CONSTANTS
  Modes = {TRUE, FALSE}
  Refusals <- MCRefusedByAppend
  MemoryCanFail = TRUE
  PartSize = 3
  MaxWrite = 3
  MaxFile = 8
  MaxFailures = 2
SPECIFICATION Spec
CHECK_DEADLOCK FALSE
INVARIANTS TypeOK NothingIsForgotten WholeOrNothing LengthIsCommitted
