--------------------------- MODULE OrderDelivery ---------------------------
(***************************************************************************)
(* What the durable order path promises of each client order, whatever     *)
(* crashes or fails: the order becomes durable, then may be placed at the  *)
(* broker, once, and its reservation is given up only for an order that    *)
(* was placed.  Nothing is said of when, or whether, the last two happen.  *)
(***************************************************************************)
EXTENDS Naturals

CONSTANT Orders

VARIABLES
  phase,    \* "new", "durable" (reservation held) or "settled"
  places    \* how often the order was placed

vars == <<phase, places>>

Init == /\ phase  = [o \in Orders |-> "new"]
        /\ places = [o \in Orders |-> 0]

Commit(o) ==
  /\ phase[o] = "new"
  /\ phase' = [phase EXCEPT ![o] = "durable"]
  /\ UNCHANGED places

Place(o) ==
  /\ phase[o] = "durable"
  /\ places[o] = 0
  /\ places' = [places EXCEPT ![o] = 1]
  /\ UNCHANGED phase

Settle(o) ==
  /\ phase[o] = "durable"
  /\ places[o] = 1
  /\ phase' = [phase EXCEPT ![o] = "settled"]
  /\ UNCHANGED places

Next == \E o \in Orders : Commit(o) \/ Place(o) \/ Settle(o)

Spec == Init /\ [][Next]_vars
=============================================================================
