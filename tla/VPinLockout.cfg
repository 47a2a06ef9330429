SPECIFICATION Spec
CONSTANTS
  Limit = 2
  MaxRows = 0
  MutexFails = FALSE
  Damaged = Damaged
  None = None
  Keep = 1
  MaxClock = 0
INVARIANTS
  SetPinNeverRaises
