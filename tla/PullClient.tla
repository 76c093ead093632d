----------------------------- MODULE PullClient -----------------------------
(***************************************************************************)
(* A client that pulls its commands (pull_client): the poller, the workers *)
(* that run steps and the workers that send results, and behind the DLP    *)
(* service what the scheduler does with a result (gateway.completed_step,  *)
(* run_proxymethod with from_dlp, phases/pull.py).  The scheduler keeps    *)
(* nothing of a pulled command but its rows.  The steps are numbered in    *)
(* the order their phases are fetched in, the same each time: no query     *)
(* asks for one (README).  Where Python 3 trips over a name or a text file *)
(* the code is read as it is meant (README, Python 3).                     *)
(***************************************************************************)
EXTENDS Integers, SequencesExt

CONSTANTS
    Commands,       \* the CoHs of this client
    Length,         \* how many steps each has, without "done"
    NonFatal,       \* non_fatal_steps: those that may fail
    Silent,         \* wu_parse: a NoopStep for the client, which sends nothing
    ResultWorkers,  \* Poller.result_workers
    MaxAttempts,    \* attempts_total
    MaxOps,         \* bound: stops and starts of a command
    MaxFailures,    \* bound: steps that fail
    MaxFaults       \* bound: outages, lost answers, stops and crashes

ASSUME PullAssumption ==
    /\ Length \in Nat \ {0} /\ MaxAttempts \in Nat \ {0}
    /\ NonFatal \subseteq 1..Length
    /\ Silent \subseteq 2..Length           \* wu_parse comes after execute
    /\ MaxOps \in Nat /\ MaxFailures \in Nat /\ MaxFaults \in Nat

VARIABLES
    row,            \* the CoHs in the database, with how many phases are done
    poller,         \* where Poller.run() is
    start_polling,  \* the event ResultWorkers set
    commands,       \* Poller.commands
    result_queue, retry_queue,
    worker,         \* the ResultWorkers
    saved,          \* the file results_cache.db
    ops, failures, faults,
    runs,           \* history: how many steps were run
    last,           \* history: which run the scheduler was last told of
    ended,          \* history: the steps that ended, and whether they succeeded
    again,          \* history: a step was run that the client had gone on from
    blame           \* history: what went wrong so far

clientVars == <<poller, start_polling, commands, result_queue, retry_queue, worker>>
histories  == <<runs, last, ended, again, blame>>
vars == <<row, clientVars, saved, ops, failures, faults, histories>>

Steps   == 1..Length
Nothing == [cmd |-> "none"]
NoSteps == [state |-> "none", at |-> "idle", step |-> 0]
Idle    == [pc |-> "loop", result |-> Nothing]

Init ==
    /\ row = [c \in Commands |-> [state |-> "scheduled", done |-> 0, failed |-> 0]]
    /\ poller = "down" /\ start_polling = FALSE
    /\ commands = [c \in Commands |-> NoSteps]
    /\ result_queue = <<>> /\ retry_queue = <<>> /\ saved = <<>>
    /\ worker = [w \in ResultWorkers |-> Idle]
    /\ ops = 0 /\ failures = 0 /\ faults = 0
    /\ runs = 0 /\ last = 0
    /\ ended = {} /\ again = FALSE /\ blame = {}

Bounded      == <<ops, failures, faults>>
Fault(what)  == /\ faults < MaxFaults /\ faults' = faults + 1
                /\ blame' = blame \cup {what}
                /\ UNCHANGED <<ops, failures>>
Running      == poller \notin {"down", "stopping"}

-----------------------------------------------------------------------------
(* The scheduler. *)

\* get_available_commands(): of the offered ones, the steps that are not done.
Offered(c) == row[c].state = "scheduled"

\* phase_step() of a circuit goes on after the step d: the scheduler parses by
\* itself what the client sends nothing about. An output it cannot read is parsed
\* again until no attempt is left.
Onward(old) ==
    LET silent == {n \in old.done..Length : old.done + 1..n \subseteq Silent}
    IN  {[old EXCEPT !.done = n, !.state = IF n = Length THEN "done" ELSE @] :
            n \in {m \in silent : m + 1 \notin Silent}}
        \cup {[old EXCEPT !.done = n - 1, !.failed = MaxAttempts, !.state = "failed"] :
                  n \in silent \ {old.done}}

\* run_proxymethod(from_dlp): a circuit is built for the result alone, and runs
\* first.
Walked(old) == IF old.state = "scheduled" THEN Onward(old) ELSE {old}

\* Mutant: whatever phase the result is about, the current one is done.
MutAccepts(old, r) == old.done < Length

\* The result must be about the first phase that is not done.
Accepts(old, r) == r.step = old.done + 1

\* parse_pull_phase_result(): a success of a stopped command is told of, but
\* records nothing; a failure that may happen ends the step all the same.
Parse(old, r) ==
    LET done == [old EXCEPT !.done = @ + 1]
    IN  IF ~r.ok /\ r.step \notin NonFatal
        THEN {[old EXCEPT !.failed = @ + (IF @ < MaxAttempts THEN 1 ELSE 0),
                          !.state = IF old.failed + 1 >= MaxAttempts THEN "failed" ELSE @]}
        ELSE IF old.state # "stopped" THEN Onward(done)
        ELSE IF r.ok THEN {old} ELSE {done}

\* The scheduler answers whether it took the result.
Told(r, taken) ==
    /\ \E old \in Walked(row[r.cmd]) :
          /\ taken = Accepts(old, r)
          /\ \E new \in IF taken THEN Parse(old, r) ELSE {old} :
                row' = [row EXCEPT ![r.cmd] = new]
    /\ last' = r.run

\* stop_commands() and start_commands() of the agent.
Agent(c) ==
    /\ \/ row[c].state = "scheduled" /\ row' = [row EXCEPT ![c].state = "stopped"]
       \/ row[c].state = "stopped"   /\ row' = [row EXCEPT ![c].state = "scheduled"]
    /\ ops < MaxOps /\ ops' = ops + 1
    /\ blame' = blame \cup {"stop"}
    /\ UNCHANGED <<clientVars, saved, failures, faults, runs, last, ended, again>>

-----------------------------------------------------------------------------
(* Poller.run(): restore_state(), polls, save_state(). *)

Start ==
    /\ poller = "down"
    /\ poller' = "boot"
    /\ UNCHANGED <<row, start_polling, commands, result_queue, retry_queue, worker,
                   saved, Bounded, histories>>

\* Mutant: the workers' event is not cleared.
MutRestore ==
    /\ \/ /\ poller = "boot" /\ saved # <<>> /\ poller' = "restored"
          /\ result_queue' = result_queue \o saved
          /\ UNCHANGED <<start_polling, saved>>
       \/ /\ poller = "restored" /\ poller' = "waiting"
          /\ saved' = <<>>
          /\ UNCHANGED <<start_polling, result_queue>>
       \/ /\ \/ poller = "boot" /\ saved = <<>>
             \/ poller = "waiting" /\ start_polling
          /\ poller' = "polling"
          /\ UNCHANGED <<start_polling, result_queue, saved>>
    /\ UNCHANGED <<row, commands, retry_queue, worker, Bounded, histories>>

\* The results of the file are queued; the event is cleared and the file is
\* removed; then the poller waits until a worker has found nothing to send. The
\* workers run meanwhile: one that found nothing before that may say so late.
Restore ==
    /\ \/ /\ poller = "boot" /\ saved # <<>> /\ poller' = "restored"
          /\ result_queue' = result_queue \o saved
          /\ UNCHANGED <<start_polling, saved, blame>>
       \/ /\ poller = "restored" /\ poller' = "waiting"
          /\ start_polling' = FALSE /\ saved' = <<>>
          /\ blame' = IF \E w \in ResultWorkers : worker[w].pc = "empty"
                      THEN blame \cup {"late event"} ELSE blame
          /\ UNCHANGED result_queue
       \/ /\ \/ poller = "boot" /\ saved = <<>>
             \/ poller = "waiting" /\ start_polling
          /\ poller' = "polling"
          /\ UNCHANGED <<start_polling, result_queue, saved, blame>>
    /\ UNCHANGED <<row, commands, retry_queue, worker, Bounded, runs, last, ended, again>>

\* Mutant: a command that failed is not taken again.
MutIsNewCommand(c) == commands[c].state \in {"none", "stopped"}

\* is_new_command()
IsNewCommand(c) == commands[c].state \in {"none", "failed", "stopped"}

\* Results that the scheduler was not told of, or whose answer is not known.
Unsent == {worker[w].result : w \in {v \in ResultWorkers : worker[v].pc = "send"}}
          \cup ToSet(result_queue) \cup ToSet(retry_queue)

\* The command is offered and new: Command.__init__() takes the steps to do.
Poll(c) ==
    /\ poller = "polling"
    /\ Offered(c) /\ IsNewCommand(c)
    /\ commands' = [commands EXCEPT ![c] = [state |-> "running", at |-> "next",
                                            step |-> row[c].done]]
    /\ blame' = IF \E r \in Unsent : r.cmd = c THEN blame \cup {"early poll"} ELSE blame
    /\ UNCHANGED <<row, poller, start_polling, result_queue, retry_queue, worker,
                   saved, Bounded, runs, last, ended, again>>

Stop ==
    /\ poller \in {"waiting", "polling"}
    /\ poller' = "stopping"
    /\ faults < MaxFaults /\ faults' = faults + 1
    /\ UNCHANGED <<row, start_polling, commands, result_queue, retry_queue, worker,
                   saved, ops, failures, histories>>

Ended ==
    /\ poller' = "down" /\ start_polling' = FALSE
    /\ commands' = [c \in Commands |-> NoSteps]
    /\ result_queue' = <<>> /\ retry_queue' = <<>>
    /\ worker' = [w \in ResultWorkers |-> Idle]

\* Mutant: only the results that were never tried are saved.
MutSaveState ==
    /\ poller = "stopping"
    /\ \A w \in ResultWorkers : worker[w].pc # "send"
    /\ \A c \in Commands : commands[c].at \notin {"running", "next"}
    /\ saved' = result_queue
    /\ Ended
    /\ UNCHANGED <<row, Bounded, histories>>

\* The workers have ended what they were at: save_state().
SaveState ==
    /\ poller = "stopping"
    /\ \A w \in ResultWorkers : worker[w].pc # "send"
    /\ \A c \in Commands : commands[c].at \notin {"running", "next"}
    /\ saved' = retry_queue \o result_queue
    /\ Ended
    /\ UNCHANGED <<row, Bounded, histories>>

Crash ==
    /\ poller # "down"
    /\ Ended
    /\ Fault("crash")
    /\ UNCHANGED <<row, saved, runs, last, ended, again>>

-----------------------------------------------------------------------------
(* StepWorker and Command.next_step(). *)

Set(c, new) == commands' = [commands EXCEPT ![c] = new]

ToDoEmpty(c) == commands[c].step = Length

\* The next step is taken, and the command looked for among the offered ones.
\* An outage looks the same as a command that is not offered: an empty list.
NextStep(c) ==
    /\ commands[c].at = "next"
    /\ \/ /\ ToDoEmpty(c)
          /\ Set(c, [commands[c] EXCEPT !.state = "done", !.at = "idle"])
          /\ UNCHANGED <<Bounded, blame>>
       \/ /\ ~ToDoEmpty(c)
          /\ Set(c, IF Offered(c)
                    THEN [commands[c] EXCEPT !.at = "queued", !.step = @ + 1]
                    ELSE [commands[c] EXCEPT !.state = "stopped", !.at = "idle"])
          /\ UNCHANGED <<Bounded, blame>>
       \/ /\ ~ToDoEmpty(c)
          /\ Offered(c)
          /\ Set(c, [commands[c] EXCEPT !.state = "stopped", !.at = "idle"])
          /\ Fault("outage")
    /\ UNCHANGED <<row, poller, start_polling, result_queue, retry_queue, worker, saved,
                   runs, last, ended, again>>

StepStart(c) ==
    /\ Running
    /\ commands[c].at = "queued"
    /\ Set(c, [commands[c] EXCEPT !.at = "running"])
    /\ UNCHANGED <<row, poller, start_polling, result_queue, retry_queue, worker, saved,
                   Bounded, histories>>

\* The client goes on after what succeeded or may fail.
Passed(c, i) == \/ <<c, i, TRUE>> \in ended
                \/ <<c, i, FALSE>> \in ended /\ i \in NonFatal

\* The result is queued, if it is to be sent. The client goes on after a success,
\* or when the step is not required; otherwise the command waits to be polled.
StepEnd(c, ok) ==
    LET i == commands[c].step
    IN  /\ commands[c].at = "running"
        /\ ok \/ (failures < MaxFailures /\ i \notin Silent)
        /\ runs' = runs + 1
        /\ result_queue' = IF i \in Silent THEN result_queue ELSE
             Append(result_queue, [cmd |-> c, step |-> i, ok |-> ok, run |-> runs + 1])
        /\ Set(c, IF ok \/ i \in NonFatal
                  THEN [commands[c] EXCEPT !.at = "next"]
                  ELSE [commands[c] EXCEPT !.state = "failed", !.at = "idle"])
        /\ failures' = IF ok THEN failures ELSE failures + 1
        /\ ended' = ended \cup {<<c, i, ok>>}
        /\ again' = (again \/ Passed(c, i))
        /\ UNCHANGED <<row, poller, start_polling, retry_queue, worker, saved, ops,
                       faults, last, blame>>

-----------------------------------------------------------------------------
(* ResultWorker. *)

Worker(w, pc, r) == worker' = [worker EXCEPT ![w] = [pc |-> pc, result |-> r]]

\* Mutant: what was never tried goes first.
MutTake(w) ==
    /\ Running /\ worker[w].pc = "loop"
    /\ IF result_queue # <<>>
       THEN /\ Worker(w, "send", Head(result_queue))
            /\ result_queue' = Tail(result_queue) /\ UNCHANGED retry_queue
       ELSE /\ retry_queue # <<>>
            /\ Worker(w, "send", Head(retry_queue))
            /\ retry_queue' = Tail(retry_queue) /\ UNCHANGED result_queue
    /\ UNCHANGED <<row, poller, start_polling, commands, saved, Bounded, histories>>

\* What is to be sent again goes first.
Take(w) ==
    /\ Running /\ worker[w].pc = "loop"
    /\ IF retry_queue # <<>>
       THEN /\ Worker(w, "send", Head(retry_queue))
            /\ retry_queue' = Tail(retry_queue) /\ UNCHANGED result_queue
       ELSE /\ result_queue # <<>>
            /\ Worker(w, "send", Head(result_queue))
            /\ result_queue' = Tail(result_queue) /\ UNCHANGED retry_queue
    /\ UNCHANGED <<row, poller, start_polling, commands, saved, Bounded, histories>>

\* There is nothing to send; the event is set a little later.
Empty(w) ==
    /\ \/ /\ Running /\ worker[w].pc = "loop"
          /\ retry_queue = <<>> /\ result_queue = <<>>
          /\ ~start_polling
          /\ Worker(w, "empty", Nothing) /\ UNCHANGED start_polling
       \/ /\ worker[w].pc = "empty"
          /\ start_polling' = TRUE /\ Worker(w, "loop", Nothing)
    /\ UNCHANGED <<row, poller, commands, result_queue, retry_queue, saved, Bounded,
                   histories>>

Again(w) ==
    /\ retry_queue' = Append(retry_queue, worker[w].result)
    /\ Worker(w, "loop", Nothing)
Rest == UNCHANGED <<poller, start_polling, commands, result_queue, saved, runs, ended, again>>

\* send_result(): the scheduler answers,
Sent(w) ==
    /\ worker[w].pc = "send"
    /\ \/ Told(worker[w].result, TRUE) /\ Worker(w, "loop", Nothing) /\ UNCHANGED retry_queue
       \/ Told(worker[w].result, FALSE) /\ Again(w)
    /\ Rest /\ UNCHANGED <<Bounded, blame>>

\* its answer is lost,
AnswerLost(w) ==
    /\ worker[w].pc = "send"
    /\ \E taken \in BOOLEAN : Told(worker[w].result, taken)
    /\ Again(w)
    /\ Fault("answer")
    /\ Rest

\* or it is not reached.
NotSent(w) ==
    /\ worker[w].pc = "send"
    /\ Again(w)
    /\ Rest /\ UNCHANGED <<row, Bounded, last, blame>>

-----------------------------------------------------------------------------

Next ==
    \/ Start \/ Restore \/ Stop \/ SaveState \/ Crash
    \/ \E c \in Commands :
          \/ Agent(c) \/ Poll(c) \/ NextStep(c) \/ StepStart(c)
          \/ \E ok \in BOOLEAN : StepEnd(c, ok)
    \/ \E w \in ResultWorkers :
          Take(w) \/ Empty(w) \/ Sent(w) \/ AnswerLost(w) \/ NotSent(w)

Spec == Init /\ [][Next]_vars

\* Threads go on; a result that is sent again and again reaches the scheduler
\* in the end. Nothing forces steps to fail, faults or the agent.
FairSpec ==
    /\ Spec
    /\ WF_vars(Start) /\ WF_vars(Restore) /\ WF_vars(SaveState)
    /\ \A c \in Commands :
          /\ WF_vars(Poll(c)) /\ WF_vars(NextStep(c))
          /\ WF_vars(StepStart(c)) /\ WF_vars(StepEnd(c, TRUE))
    /\ \A w \in ResultWorkers :
          WF_vars(Take(w)) /\ WF_vars(Empty(w)) /\ SF_vars(Sent(w))

-----------------------------------------------------------------------------
(* Properties. *)

Results == [cmd : Commands, step : Steps, ok : BOOLEAN, run : Nat]

\* Every variable has its type, and a worker holds a result while it sends.
TypeOK ==
    /\ row \in [Commands -> [state : {"scheduled", "stopped", "failed", "done"},
                             done : 0..Length, failed : 0..MaxAttempts]]
    /\ poller \in {"down", "boot", "restored", "waiting", "polling", "stopping"}
    /\ start_polling \in BOOLEAN
    /\ commands \in [Commands -> [state : {"none", "running", "failed", "stopped", "done"},
                                  at : {"idle", "next", "queued", "running"},
                                  step : 0..Length]]
    /\ result_queue \in Seq(Results) /\ retry_queue \in Seq(Results)
    /\ saved \in Seq(Results)
    /\ worker \in [ResultWorkers -> [pc : {"loop", "empty"}, result : {Nothing}]
                                    \cup [pc : {"send"}, result : Results]]
    /\ ops \in 0..MaxOps /\ failures \in 0..MaxFailures /\ faults \in 0..MaxFaults
    /\ runs \in Nat /\ last \in 0..runs
    /\ ended \subseteq Commands \X Steps \X BOOLEAN /\ again \in BOOLEAN
    /\ blame \subseteq {"stop", "crash", "outage", "answer", "late event", "early poll"}

\* workers.py:50: "We want to send the results in the same order as the
\* execution". With one worker they are, through refusals, outages, stops that
\* save them and starts that restore them. (After a crash in restore_state(),
\* before the file is removed, they are sent once more.)
InOrder == [][last' >= last \/ "crash" \in blame]_vars

\* poller.py:186: "Wait to send all results before getting new commands". With
\* one worker that is what happens after a restart, unless the event of a worker
\* that found nothing before the results were restored comes after clear().
Waits ==
    [][poller = "waiting" /\ poller' = "polling"
          => Unsent = {} \/ "late event" \in blame]_vars

\* A step the client went on from, because it succeeded or may fail, is not run
\* again, whatever fails, is stopped or is restarted, unless the command was polled
\* while results of it were unsent, results were lost in a crash, or the agent
\* stopped the command.
NotAgain == again => blame \cap {"crash", "early poll", "stop"} # {}

\* The phases the scheduler holds for done did succeed on the client, or failed
\* there and are among those that may, but for wu_parse, which is the scheduler's.
Deserved == \A c \in Commands : \A i \in 1..row[c].done : i \in Silent \/ Passed(c, i)

\* A command ends, however often steps fail, the DLP is out of reach or the
\* client restarts, unless an answer was lost or a step may have run again: its
\* second result is refused for ever, and sent again before any other.
Ends ==
    \A c \in Commands :
        Offered(c) ~> \/ row[c].state \in {"done", "failed"}
                      \/ blame \cap {"crash", "early poll", "stop", "answer"} # {}

=============================================================================
