SPECIFICATION FairSpec
CONSTANTS
  Orders = {o1}
  NoOrder = NoOrder
  Requests <- OneEntry
  Paper = FALSE
  Hooks = FALSE
  ReconScope = "account"
  MaxCrashes = 1
  External = FALSE
CHECK_DEADLOCK FALSE
PROPERTY
  UnknownConverges
