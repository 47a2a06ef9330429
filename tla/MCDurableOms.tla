---------------------------- MODULE MCDurableOms ----------------------------
(* Small instances of DurableOms for TLC. *)
EXTENDS DurableOms

Buy2  == [side |-> "buy",  qty |-> 2, stop |-> TRUE,  reduce |-> FALSE]
Sell2 == [side |-> "sell", qty |-> 2, stop |-> FALSE, reduce |-> TRUE]

OneEntry     == {Buy2}
EntryAndExit == {Buy2, Sell2}
=============================================================================
