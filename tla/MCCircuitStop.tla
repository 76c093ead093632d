--------------------------- MODULE MCCircuitStop ---------------------------
(***************************************************************************)
(* The instances of MCCircuit, with the history of CircuitStop.            *)
(***************************************************************************)
EXTENDS MCCircuit, CircuitStop

=============================================================================
