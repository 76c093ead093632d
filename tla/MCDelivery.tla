---------------------------- MODULE MCDelivery ----------------------------
(***************************************************************************)
(* The instance of Delivery that TLC checks.                               *)
(***************************************************************************)
EXTENDS Delivery

CONSTANTS a, b

Hosts    == {a, b}
Packets1 == Hosts \X (1..1)
Requests == {Alive, Agent}

=============================================================================
