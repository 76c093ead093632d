---------------------------- MODULE MCWatchdog ----------------------------
(***************************************************************************)
(* The instance of Watchdog that TLC checks.                               *)
(***************************************************************************)
EXTENDS Watchdog

CONSTANTS m, n

TwoCommands == {m, n}

=============================================================================
