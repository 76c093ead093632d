----------------------------- MODULE Deployment -----------------------------
(***************************************************************************)
(* What the scheduler promises for one command on one host when nobody     *)
(* interferes: the phases end one after the other and stay ended, failures *)
(* are charged one at a time, and the command ends once, as done, failed   *)
(* or over_timed.  Circuit implements it (Circuit!Implements).             *)
(***************************************************************************)
EXTENDS Integers

CONSTANTS Last,        \* the steps are 1..Last; the last one closes the command
          Optional,    \* steps before the last that may be passed without being done
          MaxAttempts

VARIABLES state, finished, attempts

dvars == <<state, finished, attempts>>

DInit == state = "scheduled" /\ finished = {} /\ attempts = 0

Passed(i) == \A j \in 1..(i - 1) : j \in finished \cup Optional

\* A step ends. It may have been under way when the command was closed.
Finish(i) ==
    /\ state # "done"
    /\ i \notin finished /\ Passed(i)
    /\ finished' = finished \cup {i}
    /\ UNCHANGED <<state, attempts>>

\* A step fails: one attempt less.
Charge ==
    /\ state # "done"
    /\ attempts < MaxAttempts
    /\ attempts' = attempts + 1
    /\ state' = IF attempts' = MaxAttempts THEN "failed" ELSE state
    /\ UNCHANGED finished

Complete ==
    /\ state = "scheduled" /\ Passed(Last)
    /\ state' = "done"
    /\ finished' = finished \cup {Last}
    /\ UNCHANGED attempts

\* The command's window ends.
Close ==
    /\ state = "scheduled"
    /\ state' = IF attempts > 0 THEN "failed" ELSE "over_timed"
    /\ UNCHANGED <<finished, attempts>>

DNext == (\E i \in 1..(Last - 1) : Finish(i)) \/ Charge \/ Complete \/ Close

DSpec == DInit /\ [][DNext]_dvars

=============================================================================
