---------------------------- MODULE MCPullClient ----------------------------
(***************************************************************************)
(* The instances of PullClient that TLC checks.                            *)
(***************************************************************************)
EXTENDS PullClient

OneCommand == {"a"}
OneWorker  == {1}
First      == {1}
Second     == {2}

=============================================================================
