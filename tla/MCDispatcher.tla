---------------------------- MODULE MCDispatcher ----------------------------
(* Instances of Dispatcher for TLC: a and b share a target, as do c and d. *)
EXTENDS Dispatcher, TLC

CONSTANTS a, b, c, d, net1, net2

Four   == {a, b, c, d}
Nets   == {net1, net2}
Target == a :> 1 @@ b :> 1 @@ c :> 2 @@ d :> 2
Net    == [x \in Four |-> IF x \in {a, b, c} THEN net1 ELSE net2]
Timed  == {a}
Quick  == {d}
=============================================================================
