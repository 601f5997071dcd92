CONSTANTS
  c1 = c1
  c2 = c2
  l1 = l1
  l2 = l2
  Client <- MCClient
  Lock <- MCOneLock
  Dos = Dos
  Nothing = Nothing
  Platforms = {"os3", "os4"}
  WorkerCanFail = FALSE
  VolumeCanFail = TRUE
  MaxAttempts = 1
  MaxStarts = 1
SPECIFICATION Spec
CHECK_DEADLOCK FALSE
PROPERTIES AnsweredWhileUp ShutdownCompletes
INVARIANT LocksHaveOneOwner
