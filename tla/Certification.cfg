SPECIFICATION Spec
CONSTANTS
  Ids = {paper1, demo}
  Paper = paper1
  Versions = {v1, v2}
  None = None
  Gate = 2
  Required = 2
  LockHolds = FALSE
  MaxSoaks = 1
  MaxCycles = 2
  MaxDoubts = 0
  MaxWall = 2
INVARIANTS
  ValidOnEvidence
  CertifiedOnEvidence
SYMMETRY VersionSymmetry
