---------------------------- MODULE CircuitStop ----------------------------
(***************************************************************************)
(* Circuit with two history variables: the orders launchers took while the *)
(* CoH was recorded as stopped, since it was last anything else, and the   *)
(* circuits that were released while a call of theirs was unanswered.      *)
(***************************************************************************)
EXTENDS Circuit

VARIABLES late, adrift

StopInit == Init /\ late = 0 /\ adrift = 0

Late ==
    late' = IF coh'.state # "stopped" THEN 0
            ELSE IF Taken /\ coh.state = "stopped" THEN late + 1 ELSE late

\* remove_expired() gives up a circuit that waits for the answer to a call.
LeftAsking == \E c \in Circuits : obj[c].pc \in {"asked", "wol"} /\ RemoveExpired(c)

Adrift == adrift' = IF LeftAsking THEN adrift + 1 ELSE adrift

StopSpec == StopInit /\ [][Next /\ Late /\ Adrift]_<<vars, late, adrift>>

\* The agent records a stop in the database and may fail to tell the scheduler.
\* Whatever copies of the row circuits still hold, and even while a circuit
\* that was stopped and one that was started again are both alive, at most one
\* more order leaves for a launcher, and one for each circuit remove_expired()
\* gave up in the middle of a call, which is in nobody's hands any more.
StopBound == late <= 1 + adrift

=============================================================================
