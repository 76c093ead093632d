------------------------------ MODULE Circuit ------------------------------
(***************************************************************************)
(* One command on one host (a "commands_on_host", CoH), as the Pulse2      *)
(* scheduler carries it out: the row and its phases in the msc database,   *)
(* every Circuit object the scheduler holds for that CoH, the order given  *)
(* to a launcher, and the agent that starts, stops and extends the command *)
(* by writing the database first and calling the scheduler afterwards.     *)
(*                                                                         *)
(* What makes it hard is that a Circuit works on a copy of the row: the    *)
(* running phase keeps the row it was built with, and SQLAlchemy writes    *)
(* back only the attributes that differ from that copy.                    *)
(***************************************************************************)
EXTENDS Integers, Sequences, FiniteSets

CONSTANTS
    Circuits,      \* the Circuit objects that can be alive at once (a bound)
    Workflow,      \* the phase names of this CoH, in phase_order
    Nothing,       \* the phases that turn out to have nothing to do
    NonFatal,      \* config.non_fatal_steps
    HasHost,       \* an address was found for the target
    RowsInOrder,   \* the database returns phases in phase_order without being asked
    PoolKeepsUp,   \* starter threads end before the next awake of the mainloop
    LateResults,   \* a circuit may expire while its order still runs
    LateAnswers,   \* ... or while a call to the launcher is not answered yet
    MaxAttempts,   \* attempts_total
    MaxOps,        \* bound: operations of the agent
    MaxFaults      \* bound: restarts, expirations and lost messages

CoHStates   == {"scheduled", "stopped", "done", "failed", "over_timed"}
PhaseStates == {"ready", "running", "failed", "done"}
Steps       == DOMAIN Workflow

\* get_command_result() and the phases' @launcher_proxymethod: the phases a
\* launcher carries out.
Remote == {"upload", "execute", "delete", "inventory", "reboot", "halt"}
Local  == {"wol", "wu_parse", "done"}

ASSUME CircuitAssumption ==
    /\ IsFiniteSet(Circuits)
    /\ Workflow \in Seq(Remote \cup Local)
    /\ Len(Workflow) > 0
    /\ \A i \in Steps : Workflow[i] = "done" <=> i = Len(Workflow)
    /\ \A i \in Steps : Workflow[i] = "wol" => i = 1
    /\ Nothing \subseteq {"upload", "execute", "delete"}
    /\ NonFatal \subseteq Remote
    /\ HasHost \in BOOLEAN
    /\ RowsInOrder \in BOOLEAN
    /\ PoolKeepsUp \in BOOLEAN
    /\ LateResults \in BOOLEAN
    /\ LateAnswers \in BOOLEAN
    /\ MaxAttempts \in Nat \ {0}
    /\ MaxOps \in Nat
    /\ MaxFaults \in Nat

VARIABLES
    coh,        \* the CoH's row (with the end of its command's window)
    phase,      \* the state column of its commands_on_host_phase rows
    lapsed,     \* the windows that have ended are those below lapsed
    obj,        \* the Circuit objects
    container,  \* MscContainer._circuits, restricted to this CoH
    tracked,    \* the CoH is in started_track
    order,      \* the launcher's process for this CoH
    results,    \* results on their way, or in the scheduler proxy's buffer
    calls,      \* XML-RPC calls of the agent the scheduler has not yet handled
    ops,        \* agent operations so far
    faults      \* faults so far

vars == <<coh, phase, lapsed, obj, container, tracked, order, results, calls, ops, faults>>

Row == [state : CoHStates, attempts_failed : Nat, window : Nat]

\* pc: "queued" for the LoopingStarter, "waiting" in the container, "walk"ing
\* over the phases, "asked" a launcher and waiting for its answer, "wol" for
\* the ping and the sleep after a wake-on-lan, "out" once it gave up (an order
\* is at the launcher), "parse" for a recurrent circuit about to parse a result,
\* "released" when it ended but is still in the container.
PC == {"unused", "queued", "waiting", "walk", "asked", "wol", "out", "parse",
       "released"}

Object == [pc        : PC,
           step      : {0} \cup Steps,    \* running_phase, 0 for None
           todo      : SUBSET Steps,      \* what is left of the phases iterator
           seen      : Row,               \* running_phase.coh
           kept      : PhaseStates,       \* running_phase.phase.state
           thread    : BOOLEAN,           \* inside LoopingStarter's thread
           recurrent : BOOLEAN,           \* made by run_proxymethod
           result    : {"none", "ok", "ko"},
           of        : {0} \cup Steps]    \* the phase that result is about

Final     == {"done", "failed", "over_timed"}
FirstRow  == [state |-> "scheduled", attempts_failed |-> 0, window |-> 0]
Unused    == [pc |-> "unused", step |-> 0, todo |-> {}, seen |-> FirstRow,
              kept |-> "ready", thread |-> FALSE, recurrent |-> FALSE,
              result |-> "none", of |-> 0]
NoOrder   == [status |-> "none", step |-> Len(Workflow)]

Init ==
    /\ coh = FirstRow
    /\ phase = [i \in Steps |-> "ready"]
    /\ lapsed = 0
    /\ obj = [c \in Circuits |-> Unused]
    /\ container = <<>>
    /\ tracked = FALSE
    /\ order = NoOrder
    /\ results = {}
    /\ calls = {}
    /\ ops = 0
    /\ faults = 0

-----------------------------------------------------------------------------
(* Reading and writing rows. *)

Expired(row)   == row.window < lapsed              \* not cmd.in_valid_time()
MutExhausted(row) == row.attempts_failed > MaxAttempts    \* off by one
Exhausted(row) == row.attempts_failed >= MaxAttempts   \* is_out_of_attempts()
MutUndone      == {i \in Steps : phase[i] = "ready"}   \* forgets what failed
Undone         == {i \in Steps : phase[i] # "done"}    \* get_phases()
AnyFailed      == \E i \in Steps : phase[i] = "failed" /\ Workflow[i] \notin NonFatal

\* flush(): of the copy old, changed into new, SQLAlchemy writes the attributes
\* that changed, whatever the row holds by now.
Flush(old, new) == [f \in DOMAIN coh |-> IF new[f] = old[f] THEN coh[f] ELSE new[f]]

FlushPhase(i, old, new) ==
    IF new = old THEN phase ELSE [phase EXCEPT ![i] = new]

\* What the iterator over todo gives next: get_phases() asks for no order, so
\* any, unless the table happens to have the rows in theirs.
IsFirst(i, todo) == i \in todo /\ (RowsInOrder => \A j \in todo : i <= j)

\* The main thread runs one handler to its end; only starter threads and the
\* agent's process interleave with it.
MainFree == \A c \in Circuits : obj[c].pc = "walk" => obj[c].thread

\* PoolKeepsUp: threads are faster than awakes and than processes.
ThreadsEnded ==
    PoolKeepsUp => \A c \in Circuits : ~obj[c].thread /\ obj[c].pc # "parse"

Host(c) == HasHost /\ ~obj[c].recurrent
Name(c) == Workflow[obj[c].step]

-----------------------------------------------------------------------------
(* How a run of a circuit ends. *)

Members(q) == {q[n] : n \in DOMAIN q}

\* An object nothing refers to any more disappears; a Deferred or a thread
\* keeps the others alive.
Dropped(o) == IF o.pc \in {"waiting", "out", "released"} THEN Unused ELSE o

\* Circuit.release(): removes the FIRST circuit of this CoH from the container;
\* back in LoopingStarter's callback, the circuit that ran is appended to it.
\* self is the record of c as the step leaves it.
Release(c, self) ==
    LET popped == IF self.recurrent \/ container = <<>> THEN container
                  ELSE Tail(container)
        joined == IF self.thread /\ ~self.recurrent THEN Append(popped, c) ELSE popped
        mine   == IF self.recurrent /\ self.result # "none"
                  THEN [self EXCEPT !.pc = "parse", !.thread = FALSE]
                  ELSE IF c \in Members(joined)
                  THEN [self EXCEPT !.pc = "released", !.thread = FALSE]
                  ELSE Unused
    IN  /\ container' = joined
        /\ tracked' = FALSE
        /\ obj' = [d \in Circuits |->
                     IF d = c THEN mine
                     ELSE IF d \in Members(container) \ Members(joined)
                     THEN Dropped(obj[d]) ELSE obj[d]]

\* The run of c ends without a release: c waits in state pc. Once it gave up,
\* only the container refers to it.
Settle(c, self, pc) ==
    /\ container' = IF self.thread THEN Append(container, c) ELSE container
    /\ obj' = [obj EXCEPT ![c] =
                 IF pc = "out" /\ c \notin Members(container') THEN Unused
                 ELSE [self EXCEPT !.pc = pc, !.thread = FALSE]]
    /\ tracked' = TRUE

\* Mutant: started_track.update() is forgotten.
MutWalk(c, self) ==
    /\ obj' = [obj EXCEPT ![c] = [self EXCEPT !.pc = "walk"]]
    /\ UNCHANGED <<container, tracked>>

\* phase_process(NEXT): the rules of the same phase are applied once more.
Walk(c, self) ==
    /\ obj' = [obj EXCEPT ![c] = [self EXCEPT !.pc = "walk"]]
    /\ tracked' = TRUE
    /\ UNCHANGED container

\* DIRECTIVE.NEXT in phase_step(): the next phase is built on the row that
\* phase_process() has just read, or the workflow ends.
NextPhase(c) ==
    IF obj[c].todo = {}
    THEN Release(c, obj[c])
    ELSE \E i \in obj[c].todo :
            /\ IsFirst(i, obj[c].todo)
            /\ Walk(c, [obj[c] EXCEPT !.step = i, !.todo = @ \ {i},
                                      !.seen = coh, !.kept = phase[i]])

\* give_up(), then phase_process() on what it returned.
GiveUp(c, self) ==
    IF self.seen.state = "stopped"
    THEN coh' = [coh EXCEPT !.state = "stopped"] /\ Release(c, self)
    ELSE Settle(c, self, "out") /\ UNCHANGED coh

\* Mutants: reSchedule() forgets to count, counts twice.
MutChargedNever(row) == row
MutChargedTwice(row) == [row EXCEPT !.attempts_failed = @ + 2]

\* What switch_phase_failed() makes of the copy of the row.
Charged(row) ==
    LET n == IF Exhausted(row) THEN row.attempts_failed ELSE row.attempts_failed + 1
    IN  [row EXCEPT !.attempts_failed = n,
                    !.state = IF n >= MaxAttempts THEN "failed" ELSE @]

\* switch_phase_failed() on a running phase, from the copy row: the attempt is
\* charged, and FAILED as well as KILLED releases the circuit.
FailPhase(c, row) ==
    LET self == obj[c]
        kept == IF self.kept = "running" THEN "failed" ELSE self.kept
    IN  /\ coh' = Flush(self.seen, Charged(row))
        /\ phase' = FlushPhase(self.step, self.kept, kept)
        /\ Release(c, [self EXCEPT !.seen = Charged(row), !.kept = kept,
                                   !.result = "none"])

-----------------------------------------------------------------------------
(* The dispatcher. *)

\* Mutant: what is in the container is not excluded.
MutSelect(c) ==
    /\ MainFree
    /\ obj[c] = Unused
    /\ \A d \in Circuits : obj[d].pc # "queued" /\ ~obj[d].thread
    /\ coh.state = "scheduled" /\ ~Expired(coh)
    /\ obj' = [obj EXCEPT ![c] = [Unused EXCEPT !.pc = "queued", !.todo = Undone,
                                                !.seen = coh]]
    /\ tracked' = TRUE
    /\ UNCHANGED <<container, coh, phase, lapsed, order, results, calls, ops, faults>>

\* _mainloop(), start_all() and _class_all(): a CoH that is not in the
\* container is selected, and its new circuit is either given to the starter
\* or queued in the container. lock_start is held while one is with the starter,
\* but not until the threads it started have ended.
Select(c) ==
    /\ MainFree
    /\ obj[c] = Unused
    /\ container = <<>>
    /\ \A d \in Circuits : obj[d].pc # "queued"
    /\ ThreadsEnded
    /\ coh.state \notin Final \cup {"stopped"}
    /\ ~Expired(coh)
    /\ \E pc \in {"queued", "waiting"} :
         /\ pc = "waiting" => ~Exhausted(coh)
         /\ obj' = [obj EXCEPT ![c] = [Unused EXCEPT !.pc = pc, !.todo = Undone,
                                                     !.seen = coh]]
         /\ container' = IF pc = "waiting" THEN <<c>> ELSE container
         /\ tracked' = IF pc = "queued" THEN TRUE ELSE tracked
    /\ UNCHANGED <<coh, phase, lapsed, order, results, calls, ops, faults>>

\* run() in LoopingStarter's thread, or called by launch_next_waiting(), up to
\* the first phase_process().
Run(c) ==
    /\ \/ obj[c].pc = "queued"
       \/ obj[c].pc = "waiting" /\ MainFree /\ container[1] = c
    /\ LET self == [obj[c] EXCEPT !.thread = obj[c].pc = "queued"]
       IN  IF self.todo = {}
           THEN /\ coh' = Flush(self.seen, [self.seen EXCEPT !.state = "done"])
                /\ Release(c, self)
           ELSE /\ \E i \in self.todo :
                     /\ IsFirst(i, self.todo)
                     /\ Walk(c, [self EXCEPT !.step = i, !.todo = @ \ {i},
                                             !.kept = phase[i]])
                /\ UNCHANGED coh
    /\ UNCHANGED <<phase, lapsed, order, results, calls, ops, faults>>

\* remove_expired(): no phase_process() for max_command_time. A launcher whose
\* own limit is shorter has ended its process by then. A circuit that waits for
\* a Deferred leaves the container all the same.
RemoveExpired(c) ==
    /\ MainFree
    /\ tracked
    /\ container # <<>> /\ c = Head(container)
    /\ \/ /\ obj[c].pc \in {"out", "released"}
          /\ IF order.status # "none" \/ results # {}
             THEN LateResults /\ faults < MaxFaults /\ faults' = faults + 1
             ELSE UNCHANGED faults
          /\ Release(c, obj[c])
       \/ /\ obj[c].pc \in {"asked", "wol"}
          /\ LateAnswers /\ faults < MaxFaults /\ faults' = faults + 1
          /\ container' = Tail(container)
          /\ tracked' = FALSE
          /\ UNCHANGED obj
    /\ UNCHANGED <<coh, phase, lapsed, order, results, calls, ops>>

\* Mutant: an attempt is counted at zero.
MutProcessNonValid ==
    /\ MainFree
    /\ coh.state \notin Final
    /\ Expired(coh)
    /\ coh' = [coh EXCEPT !.state = IF coh.attempts_failed >= 0
                                    THEN "failed" ELSE "over_timed"]
    /\ UNCHANGED <<phase, lapsed, obj, container, tracked, order, results, calls, ops, faults>>

\* process_non_valid(): run by the statistics watchdog of the command.
ProcessNonValid ==
    /\ MainFree
    /\ coh.state \notin Final
    /\ Expired(coh)
    /\ coh' = [coh EXCEPT !.state = IF AnyFailed \/ coh.attempts_failed > 0
                                    THEN "failed" ELSE "over_timed"]
    /\ UNCHANGED <<phase, lapsed, obj, container, tracked, order, results, calls, ops, faults>>

-----------------------------------------------------------------------------
(* phase_step(): one phase of a walk. The rules look at the copy of the row *)
(* and of the phase, never at the database.                                 *)

Walking(c) == obj[c].pc = "walk"

\* Circuit #c has to look at the row: the phases that skip themselves first
\* and wake-on-lan, which has rules of its own, are aside.
General(c)   == Walking(c) /\ Name(c) # "wol" /\ Name(c) \notin Nothing
MutStopped(c) == FALSE                        \* the rules ignore a stop
Stopped(c)   == General(c) /\ obj[c].seen.state = "stopped"
TooLate(c)   == General(c) /\ ~Stopped(c) /\ Expired(obj[c].seen)
InTime(c)    == General(c) /\ ~Stopped(c) /\ ~Expired(obj[c].seen)
GivenUp(c)   == InTime(c) /\ Exhausted(obj[c].seen) /\ obj[c].kept = "failed"
MutFinished(c) == obj[c].kept \in {"done", "failed"} /\ InTime(c)   \* no retry
Finished(c)  == obj[c].kept = "done" /\ (InTime(c) \/ (Walking(c) /\ Name(c) = "wol"))
ToPerform(c) == InTime(c) /\ ~GivenUp(c) /\ obj[c].kept # "done"

\* A phase with nothing to do, or a wake-on-lan without an address: upload and
\* wake-on-lan leave their phase as it is, the others mark it done.
Skip(c) ==
    /\ Walking(c)
    /\ \/ Name(c) \in Nothing
       \/ Name(c) = "wol" /\ ~Host(c) /\ obj[c].kept # "done"
    /\ LET seen == obj[c].seen
       IN  coh' = IF Name(c) = "wol" /\ seen.state # "stopped"
                  THEN Flush(seen, [seen EXCEPT !.state = "scheduled"]) ELSE coh
    /\ phase' = IF Name(c) \in {"execute", "delete"}
                THEN FlushPhase(obj[c].step, obj[c].kept, "done") ELSE phase
    /\ NextPhase(c)
    /\ UNCHANGED <<lapsed, order, results, calls, ops, faults>>

\* The phase is done: on to the next one.
Advance(c) ==
    /\ Finished(c)
    /\ NextPhase(c)
    /\ UNCHANGED <<coh, phase, lapsed, order, results, calls, ops, faults>>

\* STOPPED
StopSeen(c) ==
    /\ Stopped(c)
    /\ coh' = [coh EXCEPT !.state = "stopped"]
    /\ Release(c, obj[c])
    /\ UNCHANGED <<phase, lapsed, order, results, calls, ops, faults>>

\* OVER_TIMED on one of the last two phases of the circuit: a forced NEXT.
ForcedFinish(c) ==
    /\ TooLate(c)
    /\ Cardinality(obj[c].todo) <= 1
    /\ NextPhase(c)
    /\ UNCHANGED <<coh, phase, lapsed, order, results, calls, ops, faults>>

\* OVER_TIMED before.
OverTimed(c) ==
    /\ TooLate(c)
    /\ Cardinality(obj[c].todo) > 1
    /\ coh' = [coh EXCEPT !.state =
                 IF AnyFailed \/ obj[c].seen.attempts_failed > 0
                 THEN "failed" ELSE "over_timed"]
    /\ Release(c, obj[c])
    /\ UNCHANGED <<phase, lapsed, order, results, calls, ops, faults>>

\* KILLED by the initial rules.
OutOfAttempts(c) ==
    /\ GivenUp(c)
    /\ coh' = Flush(obj[c].seen, [obj[c].seen EXCEPT !.state = "failed"])
    /\ Release(c, obj[c])
    /\ UNCHANGED <<phase, lapsed, order, results, calls, ops, faults>>

\* A phase of a launcher: it is marked running and the launcher is called.
Perform(c) ==
    /\ ToPerform(c) /\ Name(c) \in Remote
    /\ Host(c)
    /\ phase' = FlushPhase(obj[c].step, obj[c].kept, "running")
    /\ Settle(c, [obj[c] EXCEPT !.kept = "running"], "asked")
    /\ UNCHANGED <<coh, lapsed, order, results, calls, ops, faults>>

\* ... or fails at once when there is no address to reach the client.
PerformWithoutHost(c) ==
    /\ ToPerform(c) /\ Name(c) \in Remote
    /\ ~Host(c)
    /\ coh' = Flush(obj[c].seen, Charged(obj[c].seen))
    /\ phase' = [phase EXCEPT ![obj[c].step] = "failed"]
    /\ Release(c, [obj[c] EXCEPT !.seen = Charged(obj[c].seen), !.kept = "failed"])
    /\ UNCHANGED <<lapsed, order, results, calls, ops, faults>>

PerformWOL(c) ==
    /\ Walking(c) /\ Name(c) = "wol" /\ obj[c].kept # "done"
    /\ Host(c)
    /\ phase' = FlushPhase(obj[c].step, obj[c].kept, "running")
    /\ Settle(c, [obj[c] EXCEPT !.kept = "running"], "wol")
    /\ UNCHANGED <<coh, lapsed, order, results, calls, ops, faults>>

\* The output of Windows Update is parsed on the spot. A failure to parse it
\* charges an attempt and returns NEXT, which applies the phase's rules again.
PerformWUParse(c) ==
    /\ ToPerform(c) /\ Name(c) = "wu_parse"
    /\ \/ /\ phase' = [phase EXCEPT ![obj[c].step] = "done"]
          /\ Walk(c, [obj[c] EXCEPT !.kept = "done"])
          /\ UNCHANGED coh
       \/ /\ coh' = Flush(obj[c].seen, Charged(obj[c].seen))
          /\ phase' = [phase EXCEPT ![obj[c].step] = "failed"]
          /\ Walk(c, [obj[c] EXCEPT !.seen = Charged(obj[c].seen), !.kept = "failed"])
    /\ UNCHANGED <<lapsed, order, results, calls, ops, faults>>

\* The last phase writes the CoH down as done, and the workflow ends with it,
\* unless its row did not come last.
PerformDone(c) ==
    /\ ToPerform(c) /\ Name(c) = "done"
    /\ coh' = Flush(obj[c].seen, [obj[c].seen EXCEPT !.state = "done"])
    /\ phase' = [phase EXCEPT ![obj[c].step] = "done"]
    /\ IF obj[c].todo = {}
       THEN Release(c, obj[c])
       ELSE Walk(c, [obj[c] EXCEPT !.seen.state = "done", !.kept = "done"])
    /\ UNCHANGED <<lapsed, order, results, calls, ops, faults>>

-----------------------------------------------------------------------------
(* Answers of the launcher to the call, and the wake-on-lan. *)

Asked(c) == MainFree /\ obj[c].pc = "asked"

OrderTaken(c) ==
    /\ Asked(c)
    /\ order.status = "none"
    /\ order' = [status |-> "running", step |-> obj[c].step]
    /\ GiveUp(c, obj[c])
    /\ UNCHANGED <<phase, lapsed, results, calls, ops, faults>>

\* The launcher answers False: no free slot, or it still has a process for
\* this CoH.
OrderRefused(c) ==
    /\ Asked(c)
    /\ IF obj[c].seen.state = "stopped"
       THEN GiveUp(c, obj[c]) /\ UNCHANGED phase
       ELSE FailPhase(c, [obj[c].seen EXCEPT !.state = "scheduled"])
    /\ UNCHANGED <<lapsed, order, results, calls, ops, faults>>

\* The call fails; or only its answer was lost, and the launcher carries the
\* order out.
CallFailed(c) ==
    /\ Asked(c)
    /\ \/ UNCHANGED <<order, faults>>
       \/ /\ order.status = "none"
          /\ faults < MaxFaults /\ faults' = faults + 1
          /\ order' = [status |-> "running", step |-> obj[c].step]
    /\ FailPhase(c, obj[c].seen)
    /\ UNCHANGED <<lapsed, results, calls, ops>>

InWOL(c) == MainFree /\ obj[c].pc = "wol"

\* The target answers the ping.
WOLUseless(c) ==
    /\ InWOL(c)
    /\ LET seen == obj[c].seen
           next == IF seen.state = "stopped" THEN seen
                   ELSE [seen EXCEPT !.state = "scheduled"]
       IN  /\ coh' = Flush(seen, next)
           /\ phase' = FlushPhase(obj[c].step, obj[c].kept, "done")
           /\ Walk(c, [obj[c] EXCEPT !.seen = next, !.kept = "done"])
    /\ UNCHANGED <<lapsed, order, results, calls, ops, faults>>

\* max_wol_time after the wake-on-lan.
WOLSlept(c) ==
    /\ InWOL(c)
    /\ phase' = FlushPhase(obj[c].step, obj[c].kept, "done")
    /\ Walk(c, [obj[c] EXCEPT !.kept = "done"])
    /\ UNCHANGED <<coh, lapsed, order, results, calls, ops, faults>>

\* The launcher's answer to wol() is not a result: the phase is ready again
\* and the circuit gives up.
WOLUnanswered(c) ==
    /\ InWOL(c)
    /\ LET seen == obj[c].seen
           next == [seen EXCEPT !.state = "scheduled"]
       IN  IF seen.state = "stopped"
           THEN GiveUp(c, obj[c]) /\ UNCHANGED phase
           ELSE /\ coh' = Flush(seen, next)
                /\ phase' = FlushPhase(obj[c].step, obj[c].kept, "ready")
                /\ Settle(c, [obj[c] EXCEPT !.seen = next, !.kept = "ready"], "out")
    /\ UNCHANGED <<lapsed, order, results, calls, ops, faults>>

WOLFailed(c) ==
    /\ InWOL(c)
    /\ FailPhase(c, obj[c].seen)
    /\ UNCHANGED <<lapsed, order, results, calls, ops, faults>>

-----------------------------------------------------------------------------
(* The launcher's process and its results. *)

\* The process ends; the scheduler proxy buffers its result and answers True at
\* once, which takes the process off the launcher's list.
ProcessEnded ==
    /\ order.status = "running" /\ ThreadsEnded
    /\ order' = NoOrder
    /\ results' = results \cup {order.step}
    /\ UNCHANGED <<coh, phase, lapsed, obj, container, tracked, calls, ops, faults>>

\* The call to the proxy fails: the process stays on the list. When only the
\* answer was lost, its result is on its way all the same.
SendFailed ==
    /\ order.status = "running" /\ ThreadsEnded
    /\ order' = [order EXCEPT !.status = "zombie"]
    /\ \/ UNCHANGED <<results, faults>>
       \/ /\ faults < MaxFaults
          /\ faults' = faults + 1
          /\ results' = results \cup {order.step}
    /\ UNCHANGED <<coh, phase, lapsed, obj, container, tracked, calls, ops>>

\* tellIAmAlive(): the results of what is left on the list are sent again.
Resend ==
    /\ order.status = "zombie"
    /\ order' = NoOrder
    /\ results' = results \cup {order.step}
    /\ UNCHANGED <<coh, phase, lapsed, obj, container, tracked, calls, ops, faults>>

\* The proxy loses what it had answered for (SchedulerProxy says when).
LoseResult ==
    /\ faults < MaxFaults
    /\ faults' = faults + 1
    /\ \E step \in results : results' = results \ {step}
    /\ UNCHANGED <<coh, phase, lapsed, obj, container, tracked, order, calls, ops>>

\* The phase's parse method and phase_process() on what it returns: success,
ParseSuccess(c) ==
    LET self == [obj[c] EXCEPT !.result = "none"]
    IN  \/ /\ Name(c) # "upload" /\ self.seen.state = "stopped"      \* KILLED
           /\ Release(c, self)
           /\ UNCHANGED <<coh, phase>>
        \/ /\ Name(c) = "upload" \/ self.seen.state # "stopped"
           /\ self.kept = "running"
           /\ phase' = [phase EXCEPT ![self.step] = "done"]
           /\ Walk(c, [self EXCEPT !.kept = "done"])
           /\ UNCHANGED coh
        \/ /\ Name(c) = "upload" \/ self.seen.state # "stopped"
           /\ self.kept # "running"                        \* switch_to_done fails
           /\ GiveUp(c, self)
           /\ UNCHANGED phase

\* and failure.
ParseFailure(c) ==
    IF Name(c) \in NonFatal \ {"upload"}
    THEN /\ phase' = FlushPhase(obj[c].step, obj[c].kept, "done")
         /\ Walk(c, [obj[c] EXCEPT !.kept = "done", !.result = "none"])
         /\ UNCHANGED coh
    ELSE FailPhase(c, obj[c].seen)

Parse(c, result) == IF result = "ok" THEN ParseSuccess(c) ELSE ParseFailure(c)

\* run_proxymethod(): the first circuit of the container parses the result,
\* provided its running phase has the method the launcher calls.
Result(c, step, result) ==
    /\ MainFree
    /\ step \in results
    /\ container # <<>> /\ c = Head(container)
    /\ obj[c].pc \in {"out", "released"} /\ obj[c].step = step
    /\ Parse(c, result)
    /\ results' = results \ {step}
    /\ UNCHANGED <<lapsed, order, calls, ops, faults>>

\* Otherwise the scheduler answers False, which nobody looks at any more.
ResultRejected(c, step) ==
    /\ MainFree
    /\ step \in results
    /\ container # <<>> /\ c = Head(container)
    /\ obj[c].pc # "asked"
    /\ ~(obj[c].pc \in {"out", "released"} /\ obj[c].step = step)
    /\ results' = results \ {step}
    /\ UNCHANGED <<coh, phase, lapsed, obj, container, tracked, order, calls, ops, faults>>

\* No circuit in the container: a "recurrent" circuit is made, without a host,
\* and run in a thread before it parses the result.
ResultOutside(c, step, result) ==
    /\ MainFree
    /\ step \in results
    /\ container = <<>>
    /\ obj[c] = Unused
    /\ LET self == [Unused EXCEPT !.seen = coh, !.thread = TRUE, !.recurrent = TRUE,
                                  !.result = result, !.of = step]
       IN  IF Undone = {}
           THEN /\ coh' = [coh EXCEPT !.state = "done"]
                /\ tracked' = FALSE
                /\ UNCHANGED <<obj, container>>
           ELSE /\ \E i \in Undone :
                     /\ IsFirst(i, Undone)
                     /\ Walk(c, [self EXCEPT !.step = i, !.todo = Undone \ {i},
                                             !.kept = phase[i]])
                /\ UNCHANGED coh
    /\ results' = results \ {step}
    /\ UNCHANGED <<phase, lapsed, order, calls, ops, faults>>

\* _post_setup(): the result is parsed if it fits the phase the circuit came to.
ParseOutside(c) ==
    /\ MainFree
    /\ obj[c].pc = "parse"
    /\ IF obj[c].step = obj[c].of
       THEN Parse(c, obj[c].result)
       ELSE /\ obj' = [obj EXCEPT ![c] = Unused]
            /\ UNCHANGED <<coh, phase, container, tracked>>
    /\ UNCHANGED <<lapsed, order, results, calls, ops, faults>>

-----------------------------------------------------------------------------
(* The agent: the database first, a call to the scheduler afterwards. *)

AgentStop ==
    /\ ops < MaxOps
    /\ \/ coh.state \notin {"done", "failed"}      \* stopCommand
       \/ TRUE                                     \* stopCommandOnHost
    /\ coh' = [coh EXCEPT !.state = "stopped"]
    /\ calls' = calls \cup {"stop"}
    /\ ops' = ops + 1
    /\ UNCHANGED <<phase, lapsed, obj, container, tracked, order, results, faults>>

AgentStart ==
    /\ ops < MaxOps
    /\ coh.state \notin {"done", "failed"}
    /\ coh' = [coh EXCEPT !.state = "scheduled"]
    /\ calls' = calls \cup {"start"}
    /\ ops' = ops + 1
    /\ UNCHANGED <<phase, lapsed, obj, container, tracked, order, results, faults>>

\* Mutant: the phases start again from the beginning.
MutAgentExtend ==
    /\ ops < MaxOps
    /\ coh.state # "done"
    /\ coh' = [state |-> "scheduled", attempts_failed |-> 0, window |-> coh.window + 1]
    /\ phase' = [i \in Steps |-> "ready"]
    /\ ops' = ops + 1
    /\ UNCHANGED <<lapsed, obj, container, tracked, order, results, calls, faults>>

\* extendCommand(): the scheduler's handler only calls refresh(), which
\* changes nothing.
AgentExtend ==
    /\ ops < MaxOps
    /\ coh.state # "done"
    /\ coh' = [state |-> "scheduled", attempts_failed |-> 0, window |-> coh.window + 1]
    /\ ops' = ops + 1
    /\ UNCHANGED <<phase, lapsed, obj, container, tracked, order, results, calls, faults>>

\* stop_commands(): every circuit of the CoH leaves the container.
HandleStop ==
    /\ MainFree
    /\ "stop" \in calls
    /\ calls' = calls \ {"stop"}
    /\ container' = <<>>
    /\ obj' = [c \in Circuits |-> IF c \in Members(container) THEN Dropped(obj[c])
                                  ELSE obj[c]]
    /\ tracked' = (tracked /\ container = <<>>)
    /\ UNCHANGED <<coh, phase, lapsed, order, results, ops, faults>>

\* start_commands_on_host(): switch_commands_to_start().
HandleStart ==
    /\ MainFree
    /\ "start" \in calls
    /\ calls' = calls \ {"start"}
    /\ coh' = [coh EXCEPT !.state = IF @ \in Final THEN @ ELSE "scheduled"]
    /\ UNCHANGED <<phase, lapsed, obj, container, tracked, order, results, ops, faults>>

LoseCall ==
    /\ \E call \in calls : calls' = calls \ {call}
    /\ UNCHANGED <<coh, phase, lapsed, obj, container, tracked, order, results, ops, faults>>

-----------------------------------------------------------------------------
(* Time and crashes. *)

\* The end of a window passes.
Lapse ==
    /\ lapsed <= coh.window
    /\ lapsed' = lapsed + 1
    /\ UNCHANGED <<coh, phase, obj, container, tracked, order, results, calls, ops, faults>>

\* The proxy stops with the scheduler and saves its buffer; a result that a
\* recurrent circuit had in hand is lost.
SchedulerRestart ==
    /\ faults < MaxFaults
    /\ faults' = faults + 1
    /\ obj' = [c \in Circuits |-> Unused]
    /\ container' = <<>>
    /\ tracked' = FALSE
    /\ calls' = {}
    /\ UNCHANGED <<coh, phase, lapsed, order, results, ops>>

LauncherRestart ==
    /\ faults < MaxFaults
    /\ order.status \in {"running", "zombie"}
    /\ faults' = faults + 1
    /\ order' = NoOrder
    /\ UNCHANGED <<coh, phase, lapsed, obj, container, tracked, results, calls, ops>>

-----------------------------------------------------------------------------

Step(c) ==
    \/ Skip(c) \/ Advance(c) \/ StopSeen(c) \/ ForcedFinish(c) \/ OverTimed(c)
    \/ OutOfAttempts(c) \/ Perform(c) \/ PerformWithoutHost(c) \/ PerformWOL(c)
    \/ PerformWUParse(c) \/ PerformDone(c)

Answer(c) ==
    \/ OrderTaken(c) \/ OrderRefused(c) \/ CallFailed(c)
    \/ WOLUseless(c) \/ WOLSlept(c) \/ WOLUnanswered(c) \/ WOLFailed(c)

Handle(c) ==
    \E step \in results :
        \/ ResultRejected(c, step)
        \/ \E result \in {"ok", "ko"} :
              Result(c, step, result) \/ ResultOutside(c, step, result)

Next ==
    \/ \E c \in Circuits : Select(c) \/ Run(c) \/ RemoveExpired(c)
    \/ \E c \in Circuits : Step(c)
    \/ \E c \in Circuits : Answer(c)
    \/ \E c \in Circuits : Handle(c)
    \/ \E c \in Circuits : ParseOutside(c)
    \/ ProcessEnded \/ SendFailed \/ Resend \/ LoseResult
    \/ ProcessNonValid
    \/ AgentStop \/ AgentStart \/ AgentExtend
    \/ HandleStop \/ HandleStart \/ LoseCall
    \/ Lapse \/ SchedulerRestart \/ LauncherRestart

Spec == Init /\ [][Next]_vars

-----------------------------------------------------------------------------
(* Fairness: threads and the reactor run what they were given, the launcher *)
(* answers calls (it does not answer every wake-on-lan with nonsense) and   *)
(* its processes end, the mainloop awakes. Nothing forces the window to     *)
(* end, the agent to act, or anything to crash.                             *)

Fairness ==
    /\ WF_vars(\E c \in Circuits : Select(c))
    /\ WF_vars(\E c \in Circuits : Handle(c))
    /\ WF_vars(ProcessEnded \/ SendFailed)
    /\ WF_vars(Resend)
    /\ \A c \in Circuits : /\ WF_vars(Run(c))
                           /\ WF_vars(Step(c))
                           /\ WF_vars(Answer(c))
                           /\ SF_vars(WOLUseless(c) \/ WOLSlept(c) \/ WOLFailed(c))
                           /\ WF_vars(RemoveExpired(c))
                           /\ WF_vars(ParseOutside(c))
    /\ WF_vars(ProcessNonValid)

FairSpec == Spec /\ Fairness

-----------------------------------------------------------------------------
(* Properties. *)

Optional == {i \in Steps : Workflow[i] \in Nothing \cup {"wol"}}

\* Every variable has its type; what a pc asks for is there.
TypeOK ==
    /\ coh \in Row
    /\ phase \in [Steps -> PhaseStates]
    /\ lapsed \in Nat
    /\ obj \in [Circuits -> Object]
    /\ \A c \in Circuits : obj[c].pc \notin {"unused", "queued", "waiting", "released"}
                              => obj[c].step \in Steps
    /\ container \in Seq(Circuits)
    /\ tracked \in BOOLEAN
    /\ order \in [status : {"none", "running", "zombie"}, step : Steps]
    /\ results \in SUBSET Steps
    /\ calls \in SUBSET {"stop", "start"}
    /\ ops \in Nat
    /\ faults \in Nat

Taken == order.status = "none" /\ order'.status = "running"

\* The container never has this CoH twice, although a circuit enters it only when
\* its thread has ended, and leaves it by its own release, by that of another
\* circuit, by a stop or by remove_expired(), whoever still refers to it: get(),
\* release() and the count of slots take the first match for the only one.
OnceInContainer == Len(container) <= 1

\* The copy a circuit works on is never from a window that does not exist yet,
\* and neither it nor the row ever counts more failures than attempts.
Charges ==
    /\ coh.attempts_failed <= MaxAttempts
    /\ \A c \in Circuits : /\ obj[c].seen.attempts_failed <= MaxAttempts
                           /\ obj[c].seen.window <= coh.window

\* Two circuits never carry out the same CoH at once (recurrent circuits
\* cannot: they have no host).
Busy(c) == obj[c].pc \in {"walk", "asked", "wol", "out"} /\ ~obj[c].recurrent
OneLeader == \A c, d \in Circuits : Busy(c) /\ Busy(d) => c = d

\* A circuit that is being carried out in the container can be given up by
\* remove_expired(): it is in started_track.
Watched == \A c \in Members(container) : Busy(c) => tracked

\* A CoH is done only if every phase that had something to do is.
DoneComplete ==
    coh.state = "done" => \A i \in Steps : phase[i] = "done" \/ i \in Optional

\* Without the agent, a CoH has failed for a reason: an attempt was charged.
FailedDeserved == coh.state = "failed" => coh.attempts_failed > 0 \/ AnyFailed

\* A phase that is done stays done.
DoneKept == [][\A i \in Steps : phase[i] = "done" => phase'[i] = "done"]_vars

\* The launcher takes an order only when all that comes before it is done.
InOrder ==
    [][Taken => \A j \in 1..(order'.step - 1) : phase[j] = "done" \/ j \in Optional]_vars

\* The launcher never takes an order for a phase that is done.
NotRepeated == [][Taken => phase[order'.step] # "done"]_vars

\* The CoH, left alone, goes through the life Deployment promises.
Promise == INSTANCE Deployment
             WITH Last <- Len(Workflow),
                  state <- coh.state,
                  attempts <- coh.attempts_failed,
                  finished <- {i \in Steps : phase[i] = "done"}
Implements == Promise!DSpec

\* However often launchers refuse or fail, a CoH left to the scheduler ends or
\* is stopped: its attempts run out even if its window never does.
Progress == []<>(coh.state \in Final \cup {"stopped"})
=============================================================================
