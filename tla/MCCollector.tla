----------------------------- MODULE MCCollector -----------------------------
(* An instance of Collector for TLC. *)
EXTENDS Collector

CONSTANTS r1, r2, r3

Requests == {r1, r2, r3}
==============================================================================
