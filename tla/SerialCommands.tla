---------------------------- MODULE SerialCommands ----------------------------
(***************************************************************************)
(* What the command owner promises its callers: commands are served one    *)
(* at a time, in the order in which they arrived, each once, and nobody is *)
(* answered whose command was not served.                                  *)
(***************************************************************************)
EXTENDS Sequences

CONSTANT Callers \* each has one command

VARIABLES
  arrived,  \* callers whose commands were accepted
  pending,  \* those not yet served, the oldest first
  serving,  \* the one being served, if any
  answered  \* callers who have their answer

vars == <<arrived, pending, serving, answered>>

Init == arrived = {} /\ pending = <<>> /\ serving = {} /\ answered = {}

Arrive(c) ==
  /\ c \notin arrived
  /\ arrived' = arrived \union {c} /\ pending' = Append(pending, c)
  /\ UNCHANGED <<serving, answered>>

Serve ==
  /\ serving = {} /\ pending # <<>>
  /\ serving' = {Head(pending)} /\ pending' = Tail(pending)
  /\ UNCHANGED <<arrived, answered>>

\* With an answer, or without one: the caller may be gone, the owner stopped.
Finish ==
  /\ serving # {}
  /\ serving' = {} /\ answered' \in {answered, answered \union serving}
  /\ UNCHANGED <<arrived, pending>>

Next == Serve \/ Finish \/ \E c \in Callers : Arrive(c)

Spec == Init /\ [][Next]_vars

=============================================================================
