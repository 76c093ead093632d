----------------------------- MODULE MCCircuit -----------------------------
(***************************************************************************)
(* The instances of Circuit that TLC checks: workflows as _createPhases()  *)
(* builds them, and two Circuit objects for the CoH.                       *)
(***************************************************************************)
EXTENDS Circuit, TLC

CONSTANTS c1, c2

Full     == <<"wol", "upload", "execute", "wu_parse", "delete", "inventory", "done">>
Push     == <<"upload", "execute", "delete", "done">>
Wake     == <<"wol", "execute", "done">>
Exec     == <<"execute", "inventory", "done">>

Objects  == {c1, c2}
Symmetry == Permutations(Objects)

=============================================================================
