SPECIFICATION Spec
CONSTANTS
  Orders = {o1}
  NoOrder = NoOrder
  Requests <- OneEntry
  Paper = FALSE
  Hooks = FALSE
  ReconScope = "account"
  MaxCrashes = 0
  External = FALSE
CHECK_DEADLOCK FALSE
INVARIANT
  NoDoubleBooking
