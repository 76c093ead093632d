------------------------------ MODULE Watchdog ------------------------------
(***************************************************************************)
(* The statistics of the scheduler (scheduler/stats.py) and the watchdogs  *)
(* it sets for commands that ended: _update_for() is what switches the     *)
(* CoHs of an ended command to "failed" or "over_timed", and               *)
(* StatisticsProcessing.update() is called at every awake before           *)
(* remove_expired(), and at every step of every circuit.                   *)
(***************************************************************************)
EXTENDS Integers, FiniteSets

CONSTANTS
    Commands,   \* the commands
    NoCommand,
    Threads,    \* a starter thread may run while the main thread is in a handler
    MaxOps,     \* bound: calls and extensions of the agent
    MaxFaults   \* bound: failed updates and restarts

ASSUME WatchdogAssumption ==
    /\ NoCommand \notin Commands
    /\ Threads \in BOOLEAN
    /\ MaxOps \in Nat /\ MaxFaults \in Nat

VARIABLES
    window,     \* the window of a command is to come, open, or over
    settled,    \* the ended commands whose CoHs were switched to a final state
    live,       \* commands that have a circuit
    stats,      \* the keys of StatisticsProcessing.stats
    previous,   \* StatisticsProcessing.previous
    wdogs,      \* the entries of StatisticsProcessing.wdogs
    timers,     \* how many calls of _update_for() the reactor holds
    updating,   \* the command _update_for() is at
    ops, faults,
    raised,     \* history: who called cancel() on a timer that was called
    failed,     \* history: an update failed
    raced       \* history: a thread changed the statistics during an update

memory    == <<live, stats, previous, wdogs, timers, updating>>
histories == <<raised, failed, raced>>
vars      == <<window, settled, memory, ops, faults, histories>>

Main == updating = NoCommand        \* the main thread is free
Over == {c \in Commands : window[c] = "over"}

Init ==
    /\ window \in [Commands -> {"to come", "open"}]
    /\ settled = {} /\ live = {}
    /\ stats = {} /\ previous = {}
    /\ wdogs = [c \in Commands |-> "none"]
    /\ timers = [c \in Commands |-> 0]
    /\ updating = NoCommand
    /\ ops = 0 /\ faults = 0
    /\ raised = {} /\ failed = FALSE /\ raced = FALSE

Op    == ops < MaxOps /\ ops' = ops + 1 /\ UNCHANGED faults
Fault == faults < MaxFaults /\ faults' = faults + 1 /\ UNCHANGED ops
Usual == UNCHANGED <<ops, faults>>

-----------------------------------------------------------------------------
(* watchdog_schedule() and what calls it. *)

\* Mutant: the pending update is not cancelled.
MutSchedule(due) ==
    /\ wdogs' = [c \in Commands |-> IF c \in due THEN "pending" ELSE wdogs[c]]
    /\ timers' = [c \in Commands |-> IF c \in due THEN timers[c] + 1 ELSE timers[c]]

\* For each of the commands: a pending update is cancelled, another one is due.
Schedule(due) ==
    /\ wdogs' = [c \in Commands |-> IF c \in due THEN "pending" ELSE wdogs[c]]
    /\ timers' = [c \in Commands |-> IF c \in due /\ wdogs[c] # "pending"
                                     THEN timers[c] + 1 ELSE timers[c]]

\* cancel() raises on a timer that was called, and whoever called stops there.
Called(due) == {c \in due : wdogs[c] = "called"}

Raise(who) == raised' = raised \cup {who}

Expired(found) == previous \ found

\* Mutant: what expired is forgotten.
MutUpdate(who, found, last) ==
    /\ stats' = found
    /\ previous' = found
    /\ Schedule(last)
    /\ UNCHANGED raised

\* update() with check_and_schedule_for_expired(), then, for a circuit that is
\* over-timed, watchdog_schedule(last). The first timer that was called ends it:
\* then previous stays as it is, and the same command is met again next time.
Update(who, found, last) ==
    LET expired == Expired(found)
    IN  /\ stats' = found
        /\ IF Called(expired) # {}
           THEN /\ \E done \in SUBSET (expired \ Called(expired)) : Schedule(done)
                /\ UNCHANGED previous
           ELSE /\ Schedule(expired \cup (last \ Called(last)))
                /\ previous' = found
        /\ IF Called(expired \cup last) # {} THEN Raise(who) ELSE UNCHANGED raised

-----------------------------------------------------------------------------
(* The dispatcher and its circuits. *)

\* mainloop(): update_stats(), and remove_expired() unless it raised.
Awake ==
    /\ Main
    /\ Update("mainloop", {c \in Commands : window[c] = "open"}, {})
    /\ Usual
    /\ UNCHANGED <<window, settled, live, updating, failed, raced>>

StartCircuit(c) ==
    /\ Main
    /\ window[c] = "open" /\ c \notin live
    /\ live' = live \cup {c}
    /\ Usual
    /\ UNCHANGED <<window, settled, stats, previous, wdogs, timers, updating, histories>>

\* phase_process() of a circuit, in the main thread or in a starter thread: the
\* statistics of its command are read, whether it ended or not.
Process(c) ==
    /\ c \in live
    /\ Main \/ Threads
    /\ raced' = (raced \/ ~Main)
    /\ Update("circuit", stats \cup {c}, {})
    /\ Usual
    /\ UNCHANGED <<window, settled, live, updating, failed>>

\* The same when the circuit ends: OVER_TIMED schedules the last update before
\* the release, which catches what update_stats() raises.
Release(c) ==
    /\ c \in live
    /\ Main \/ Threads
    /\ raced' = (raced \/ ~Main)
    /\ \E last \in {{}, {c}} :
          /\ last # {} => window[c] = "over"
          /\ Update("circuit", stats \cup {c}, last)
          /\ live' = IF Called(Expired(stats \cup {c}) \cup last) = {}
                     THEN live \ {c} ELSE live
    /\ Usual
    /\ UNCHANGED <<window, settled, updating, failed>>

\* start_commands() and stop_commands(): before anything else.
AgentCall(c) ==
    /\ Main
    /\ IF Called({c}) = {} THEN Schedule({c}) /\ UNCHANGED raised
       ELSE Raise("agent") /\ UNCHANGED <<wdogs, timers>>
    /\ Op
    /\ UNCHANGED <<window, settled, live, stats, previous, updating, failed, raced>>

-----------------------------------------------------------------------------
(* _update_for(). *)

\* The reactor calls it: the timer of the entry, or one whose entry is gone.
Fire(c) ==
    /\ Main
    /\ timers[c] > 0
    /\ timers' = [timers EXCEPT ![c] = @ - 1]
    /\ \/ wdogs[c] = "pending" /\ wdogs' = [wdogs EXCEPT ![c] = "called"]
       \/ timers[c] > (IF wdogs[c] = "pending" THEN 1 ELSE 0) /\ UNCHANGED wdogs
    /\ updating' = c
    /\ Usual
    /\ UNCHANGED <<window, settled, live, stats, previous, histories>>

\* Mutant: the entry is not deleted.
MutFinish ==
    /\ ~Main
    /\ settled' = settled \cup Over
    /\ updating' = NoCommand
    /\ Usual
    /\ UNCHANGED <<window, live, stats, previous, wdogs, timers, histories>>

\* process_non_valid() switches the CoHs of every command that ended; then the
\* entry of this one is deleted.
Finish ==
    /\ ~Main
    /\ settled' = settled \cup Over
    /\ wdogs' = [wdogs EXCEPT ![updating] = "none"]
    /\ updating' = NoCommand
    /\ Usual
    /\ UNCHANGED <<window, live, stats, previous, timers, histories>>

\* The database refuses before or after that; the exception is logged.
UpdateFails ==
    /\ ~Main
    /\ settled' \in {settled, settled \cup Over}
    /\ updating' = NoCommand
    /\ failed' = TRUE
    /\ Fault
    /\ UNCHANGED <<window, live, stats, previous, wdogs, timers, raised, raced>>

-----------------------------------------------------------------------------
(* Time, the agent and restarts. *)

Time(c) ==
    /\ \/ window[c] = "to come" /\ window' = [window EXCEPT ![c] = "open"]
       \/ window[c] = "open"    /\ window' = [window EXCEPT ![c] = "over"]
    /\ Usual
    /\ UNCHANGED <<settled, memory, histories>>

\* extend_command() moves the window and schedules the CoHs again.
Extend(c) ==
    /\ window[c] = "over"
    /\ window' = [window EXCEPT ![c] = "open"]
    /\ settled' = settled \ {c}
    /\ Op
    /\ UNCHANGED <<memory, histories>>

Restart ==
    /\ live' = {} /\ stats' = {} /\ previous' = {}
    /\ wdogs' = [c \in Commands |-> "none"]
    /\ timers' = [c \in Commands |-> 0]
    /\ updating' = NoCommand
    /\ Fault
    /\ UNCHANGED <<window, settled, histories>>

Next ==
    \/ Awake \/ Finish \/ UpdateFails \/ Restart
    \/ \E c \in Commands :
          \/ StartCircuit(c) \/ Process(c) \/ Release(c) \/ AgentCall(c)
          \/ Fire(c) \/ Time(c) \/ Extend(c)

Spec == Init /\ [][Next]_vars

\* The scheduler awakes, and the reactor calls what is due and lets it end.
FairSpec ==
    /\ Spec
    /\ WF_vars(Awake)
    /\ \A c \in Commands : WF_vars(Fire(c))
    /\ WF_vars(Finish)

-----------------------------------------------------------------------------
(* Properties. *)

\* Every variable has its type, and a pending entry of wdogs has its timer.
TypeOK ==
    /\ window \in [Commands -> {"to come", "open", "over"}]
    /\ settled \subseteq Over /\ live \subseteq Commands
    /\ stats \subseteq Commands /\ previous \subseteq Commands
    /\ wdogs \in [Commands -> {"none", "pending", "called"}]
    /\ timers \in [Commands -> Nat]
    /\ updating \in Commands \cup {NoCommand}
    /\ ops \in 0..MaxOps /\ faults \in 0..MaxFaults
    /\ raised \subseteq {"mainloop", "circuit", "agent"}
    /\ failed \in BOOLEAN /\ raced \in BOOLEAN
    /\ \A c \in Commands : wdogs[c] = "pending" => timers[c] > 0

\* cancel() never meets a timer that was called, so that the mainloop, the
\* circuits and the agent's calls go on, unless an update failed, or a thread
\* was at the statistics while an update was under way.
NeverRaises == raised # {} => failed \/ raced

\* A final update is scheduled once, however many circuits, awakes and calls of
\* the agent ask for it.
OneTimer == ~raced => \A c \in Commands : timers[c] <= 1

\* The CoHs of a command that the scheduler saw open are switched to a final
\* state once it ended, whatever postpones the update and whoever re-opens the
\* window, unless an update failed, a thread raced or the scheduler restarted.
Settles ==
    \A c \in Commands :
        (c \in previous /\ window[c] = "over")
            ~> (c \in settled \/ window[c] # "over" \/ faults > 0 \/ raced)

=============================================================================
