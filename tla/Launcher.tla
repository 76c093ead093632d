------------------------------ MODULE Launcher ------------------------------
(***************************************************************************)
(* A launcher's list of processes (process_control.py, remote_exec.py and  *)
(* the alive callback of bin/pulse2-launcher).  A process keeps its slot   *)
(* and its CoH from the order until somebody answers True to its result.   *)
(***************************************************************************)
EXTENDS Integers, FiniteSets, Functions

CONSTANTS
    Cohs,           \* the CoHs that are ordered to this launcher
    Slots,          \* ProcessList.slots
    DeferResults    \* results wait for the next tellIAmAlive()

ASSUME LauncherAssumption ==
    IsFiniteSet(Cohs) /\ Slots \in Nat \ {0} /\ DeferResults \in BOOLEAN

VARIABLE
    processArr      \* from the ids in the list to their processes

\* A process is "done", a zombie, once it ended, by itself or killed by
\* killOldCommands() at max_age. order tells the orders of a CoH apart.
Process == [order             : Nat,
            state             : {"running", "done"},
            isnotifyingparent : BOOLEAN]

LauncherInit == processArr = <<>>

existsProcess(id) == id \in DOMAIN processArr
isOneSlotFree     == Cardinality(DOMAIN processArr) < Slots
getRunningIds     == {id \in DOMAIN processArr : processArr[id].state # "done"}
getZombieIds      == DOMAIN processArr \ getRunningIds

\* commandForker(): True,
commandForker(id, n) ==
    /\ ~existsProcess(id) /\ isOneSlotFree
    /\ processArr' =
         [x \in DOMAIN processArr \cup {id} |->
            IF x # id THEN processArr[x]
            ELSE [order |-> n, state |-> "running", isnotifyingparent |-> FALSE]]

\* The process ends: the scheduler is notified, unless results wait.
processEnded(id) ==
    /\ id \in getRunningIds
    /\ processArr' = [processArr EXCEPT ![id].state = "done",
                                        ![id].isnotifyingparent = ~DeferResults]

\* The answer to tell_i_am_alive, whatever it is: what is done and not being
\* notified is notified once more.
notifyZombies(list) ==
    [id \in DOMAIN list |->
        IF list[id].state = "done" THEN [list[id] EXCEPT !.isnotifyingparent = TRUE]
        ELSE list[id]]

\* The result was answered True,
notified(id) ==
    /\ processArr[id].isnotifyingparent
    /\ processArr' = Restrict(processArr, DOMAIN processArr \ {id})

\* or the call failed, or was answered something else.
unnotified(id) ==
    /\ processArr[id].isnotifyingparent
    /\ processArr' = [processArr EXCEPT ![id].isnotifyingparent = FALSE]

=============================================================================
