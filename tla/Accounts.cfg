SPECIFICATION Spec
CONSTANTS
  Ids = {paper1, demo}
  Paper = paper1
  Versions = {v1}
  None = None
  Gate = 1
  Required = 1
  LockHolds = TRUE
  MaxSoaks = 1
  MaxCycles = 1
  MaxDoubts = 1
  MaxWall = 1
INVARIANTS
  OneActive
