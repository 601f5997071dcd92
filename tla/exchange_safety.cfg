CONSTANTS
  c1 = c1
  c2 = c2
  l1 = l1
  l2 = l2
  Client <- MCClient
  Lock <- MCLock
  Dos = Dos
  Nothing = Nothing
  Platforms = {"os3"}
  WorkerCanFail = TRUE
  VolumeCanFail = TRUE
  MaxAttempts = 2
  MaxStarts = 2
SPECIFICATION Spec
CHECK_DEADLOCK FALSE
SYMMETRY Symmetry
INVARIANTS TypeOK TaskOwnership LocksHaveOneOwner LocksAreCounted
PROPERTIES AnsweredOnce ImplementsService
