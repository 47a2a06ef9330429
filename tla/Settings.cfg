SPECIFICATION Spec
CONSTANTS
  Limit = 2
  MaxRows = 1
  MutexFails = FALSE
  Damaged = Damaged
  None = None
  Keep = 2
  MaxClock = 2
INVARIANTS
  NothingLost
  RestoredWasChosen
  AttemptsBounded
