------------------------------ MODULE MCReplay ------------------------------
(***************************************************************************)
(* Replay with two calls a run, three calls and one of each fault.         *)
(***************************************************************************)
EXTENDS Replay
=============================================================================
