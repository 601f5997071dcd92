CONSTANTS
  Services = {"google", "dropbox"}
  Lifetime = 3
  ClockHalf = 7
  MaxTime = 8
  MaxDelay = 1
  MaxStarts = 2
SPECIFICATION Spec
CHECK_DEADLOCK FALSE
INVARIANTS TypeOK RequestsCarryAToken AuthorisedUnlessFault TokenInUseIsSaved
PROPERTIES RefreshTokenIsKept RequestEnds
