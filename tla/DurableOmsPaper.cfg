SPECIFICATION Spec
CONSTANTS
  Orders = {o1, o2}
  NoOrder = NoOrder
  Requests <- EntryAndExit
  Paper = TRUE
  Hooks = TRUE
  ReconScope = "global"
  MaxCrashes = 1
  External = FALSE
CHECK_DEADLOCK FALSE
INVARIANTS
  TypeOK
  NoDoubleBooking
  BookedWasTraded
  ExposureCovered
  RowsAgree
  SubmittingNeverSent
PROPERTIES
  DeliverySpec
