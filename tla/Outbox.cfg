SPECIFICATION Spec
CONSTANTS
  Events = {e1, e2}
  MaxAttempts = 5
  None = None
INVARIANTS
  NoneLost
PROPERTIES
  SettledIsFinal
  EachDrainCounts
