SPECIFICATION Spec
CONSTANTS
  Orders = {o1}
  NoOrder = NoOrder
  Requests <- EntryAndExit
  Paper = FALSE
  Hooks = TRUE
  ReconScope = "global"
  MaxCrashes = 2
  External = TRUE
CHECK_DEADLOCK FALSE
INVARIANTS
  SentAfterCommit
  AtMostOnce
  ConfirmedIsReal
  OneRowPerExecution
  IInv
PROPERTIES
  StateNeverFallsBack
  LeavesTableOnceSent
