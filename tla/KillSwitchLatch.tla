--------------------------- MODULE KillSwitchLatch ---------------------------
(***************************************************************************)
(* What the kill switch promises, whoever uses it: per scope, a level that *)
(* only rises and is never below a level that somebody was told is set.    *)
(***************************************************************************)
EXTENDS Integers

CONSTANT Scopes

VARIABLES
  level,    \* the level of each scope
  promised  \* the highest level reported as set

vars == <<level, promised>>

Init == level = [s \in Scopes |-> 0] /\ promised = [s \in Scopes |-> 0]

\* The level of a scope rises, or stays, and somebody may be told.
Raise(s, to, told) ==
  /\ level[s] <= to
  /\ promised[s] <= told /\ told <= to
  /\ level' = [level EXCEPT ![s] = to]
  /\ promised' = [promised EXCEPT ![s] = told]

Next == \E s \in Scopes, to, told \in 0..4 : Raise(s, to, told)

Spec == Init /\ [][Next]_vars

=============================================================================
