------------------------------ MODULE OrderFsm ------------------------------
(***************************************************************************)
(* The order-intent state machine of core/oms/fsm.py: the intent states,   *)
(* the separate delivery-certainty axis and the table of legal moves.      *)
(***************************************************************************)

IntentState ==
  { "CREATED", "RISK_REJECTED", "RESERVED", "SUBMITTING", "ACKNOWLEDGED",
    "FILLED", "REJECTED", "UNKNOWN", "CANCEL_REQUESTED", "CANCEL_UNKNOWN",
    "CANCELED" }

DeliveryCertainty ==
  { "NOT_SENT", "SENDING", "CONFIRMED", "MAY_HAVE_BEEN_ACCEPTED" }

Allowed == [s \in IntentState |->
  CASE s = "CREATED"          -> {"RISK_REJECTED", "RESERVED"}
    [] s = "RESERVED"         -> {"SUBMITTING"}
    [] s = "SUBMITTING"       -> {"ACKNOWLEDGED", "FILLED", "REJECTED", "UNKNOWN"}
    [] s = "ACKNOWLEDGED"     -> {"FILLED", "CANCEL_REQUESTED", "REJECTED"}
    [] s = "CANCEL_REQUESTED" -> {"FILLED", "CANCELED", "CANCEL_UNKNOWN", "REJECTED"}
    [] s = "UNKNOWN"          -> {"FILLED", "REJECTED", "ACKNOWLEDGED"}
    [] s = "CANCEL_UNKNOWN"   -> {"FILLED", "CANCELED", "REJECTED"}
    [] s \in {"RISK_REJECTED", "FILLED", "REJECTED", "CANCELED"} -> {}]

CanTransition(current, new) == new \in Allowed[current]

\* How far a state is along the lifecycle; every edge of Allowed climbs.  Not
\* in the code: it is what "a late answer never lowers a state" means here.
Progress(s) ==
  CASE s = "CREATED"          -> 1
    [] s = "RESERVED"         -> 2
    [] s = "SUBMITTING"       -> 3
    [] s = "UNKNOWN"          -> 4
    [] s = "ACKNOWLEDGED"     -> 5
    [] s = "CANCEL_REQUESTED" -> 6
    [] s = "CANCEL_UNKNOWN"   -> 7
    [] s \in {"RISK_REJECTED", "FILLED", "REJECTED", "CANCELED"} -> 8
=============================================================================
