# Pulse2 deployments in TLA+

This directory specifies the parts of Mandriva Management Console that have a
difficult life of their own. The centre is Pulse2's **msc** subsystem, which
deploys a command (wake the machine up, upload files, run a script, clean,
inventory, reboot) on many targets, between the mmc agent (plugin `msc`), the
scheduler and its proxy, the launchers, and clients that pull their commands.
Beside it stand two services with queues, timers and failures of the same kind:
the replay of imaging calls in the package server, and the connection manager.
All paths below are relative to `src/pulse2/services/pulse2/` unless they start
with `src/`.

## 1. Inventory

| component | state it keeps | operations | interacts with |
|---|---|---|---|
| circuit (`scheduler/types.py`, `phases/`, `queries.py`) | a Circuit per command-on-host (CoH): running phase, iterator over the phases, a copy of the rows | `setup`, `run`, `phase_process`, `phase_step`, `release`; per phase: rules, `perform`, `parse_order`, `parse_*_result` | container, trackers, database, launcher |
| dispatcher and container (`scheduler/control.py`, `types.py`) | `_circuits`, `lock_start`, slots, `candidats_to_cleanup` | `mainloop`, `start_all`, `launch_next_waiting`, `remove_expired`, `run_proxymethod`, `start_/stop_/extend_command(s)` | everything in the scheduler |
| starter (`scheduler/starter.py`) | circuits still to emit | runs `circuit.run` in the thread pool, one every period; a callback appends the circuit to the container | dispatcher |
| trackers (`scheduler/tracking/circuits.py`) | `started_track` (with dates), `stopped_track` | `add`, `update`, `remove`, `get_expired` | dispatcher, circuits |
| bundles (`scheduler/bundles.py`) | ordered CoHs that must follow one another | `update`, `get_ready_cohs`, `get_banned_cohs`, `finish`, `clean_up*` | dispatcher, rows |
| launch date, balance (`scheduler/timeaxis.py`, `balance.py`) | none (pure) | next launch date within an interval, number of circuits per group | dispatcher, phases |
| groups and local proxies (`scheduler/analyses.py`, `tracking/proxy.py`) | clients of every local proxy | choice and queue of proxies, use counters | upload phase |
| statistics watchdog (`scheduler/stats.py`) | timers by command | re-scheduling, `process_non_valid` | rows, mainloop, circuits |
| scheduler proxy (`scheduler/proxy/`, `gateway.py`, `scheduler/utils.py`) | a buffer of packets with its backup file, a lock, a unix socket | `call_remote`, `send`, `dataReceived`, `backup_buffer`, `restore_buffer` | launchers and agent on one side, scheduler on the other |
| launcher (`launcher/process_control.py`, `remote_exec.py`, `bin/`) | `ProcessList`: a process per CoH, in slots | start of a process, end, notification of the parent, zombies, age limit, `tellIAmAlive` | scheduler proxy |
| pull mode of the scheduler (`scheduler/gateway.py`, `phases/pull.py`, `dlp/`) | nothing but rows | offers steps, parses the results | pull client |
| pull client (`pull_client/`) | commands, result and retry queues, threads, a file of saved results | poll, run steps, send results, save and restore | DLP |
| imaging phases (`scheduler/phases/imaging.py`) | none | set and reset the boot menu | imaging API |
| database (`database/msc/`) | commands, CoHs, phases, targets, history | setters, `extend`, `reSchedule`, `stop/start` | agent and scheduler |
| msc plugin (`src/pulse2/services/mmc/plugins/msc/`) | none of its own | start, stop, extend: rows first, then an XML-RPC to the scheduler | database, scheduler |
| replay of imaging calls (`package_server/imaging/rpcreplay.py`) | a file of calls that failed, runs in progress | `add`, `pop`, `discard`, `init`, `firstRun`, `_run` | agent |
| connection manager (`cm/`) | sessions with timers, a queue, a lock | `dataReceived`, `do_calls`, replies, expirations | machines, endpoints |
| TCP proxies (`launcher/tcp_sproxy.py`) | sockets | VNC | not part of deployments |
| the rest of the repository | agent core, LDAP plugins, mds, package server, imaging, inventory, web pages, client agents | mostly CRUD and I/O | listed in PROJECT.json, not modelled |

What makes it hard, and what must hold:

* **Copies of rows.** A phase writes through the row it was built with, and
  only the attributes it changed. The agent and other circuits write the same
  row. Attempts must stay bounded, a stop must not be forgotten more than once,
  a phase that is done must stay done.
* **Objects that outlive their place.** A circuit leaves the container through
  a release, an expiration or a stop, while a thread, a Deferred or an order at
  a launcher still refers to it. Container and circuits must agree, and no CoH
  may be carried out twice at once.
* **Results on their way.** A result passes through a process list, a buffer, a
  file and a socket without frames, and then comes to a circuit that expired, or
  to none. It must not be handled more often than it was sent, nor lost without
  one of the known causes; phases must still follow one another.
* **Failures that repeat.** A refused order, a failed call and a failed phase
  cost an attempt; nothing else bounds retries.
* **Timers and locks.** A timer may have been called when it is cancelled, a
  lock may be left behind by an exception: neither may stop what comes after.
* **Stores.** What failed is written to a file and tried again, across crashes,
  stops and second initialisations: nothing lost, nothing repeated, in order.

PROJECT.json lists every hazard with the line where it bites and the properties
that cover it, or why none does yet.

## 2. Modules

| module | what it is |
|---|---|
| `Deployment` | abstract: the life of one CoH left to the scheduler (state, finished steps, attempts) |
| `Circuit` | everything one CoH goes through |
| `CircuitStop` | Circuit with two history variables, for `StopBound` |
| `Dispatcher` | many CoHs: slots, targets, networks, intervals, the queue of waiting circuits |
| `Bundles` | the dispatcher seen from bundles |
| `Launcher` | the list of processes of a launcher |
| `SchedulerProxy` | the proxy, its buffer, and the socket to the scheduler |
| `Delivery` | composes the two above with the scheduler's end: the way of a result |
| `Watchdog` | final updates of commands, by timers that many callers re-schedule |
| `PullClient` | the client that pulls, with what the scheduler does with its results |
| `Replay` | store and replayer of imaging calls |
| `Collector` | the connection manager |
| `MC*` | instances of these for TLC |
| `*Proofs` | the theorems, one module per component |

`Circuit`. Variables: `coh` and `phase` are the rows; `obj` the Circuit objects
(`pc` says who will call them next, `seen` and `kept` are the copies
`running_phase.coh` and `running_phase.phase`, `todo` the iterator); `container`
is `_circuits` restricted to the CoH, in order, because `get()` and `_release()`
take the first match; `tracked` is membership in `started_track`; `order` the
process of the launcher (`none`, `running`, or `zombie` when nobody took its
result); `results` what is on its way to the scheduler; `calls` the XML-RPCs of
the agent. One action per handler:

* dispatcher: `Select` (`_mainloop` to `_class_all`), `Run` (`run`),
  `RemoveExpired`, `ProcessNonValid`;
* one `phase_step` per action of the walk: `Skip`, `Advance`, `StopSeen`,
  `ForcedFinish`, `OverTimed`, `OutOfAttempts`, `Perform`,
  `PerformWithoutHost`, `PerformWOL`, `PerformWUParse`, `PerformDone`;
* answers: `OrderTaken`, `OrderRefused` (`parse_order`), `CallFailed` (the errback:
  the call did not get there, or its answer was lost after the launcher took the
  order), `WOLUseless`, `WOLSlept`, `WOLUnanswered`, `WOLFailed`;
* the launcher: `ProcessEnded`, `SendFailed` (a zombie), `Resend`, `LoseResult`;
* results: `Result` (`run_proxymethod`), `ResultRejected`, `ResultOutside` and
  `ParseOutside` (a "recurrent" circuit);
* agent: `AgentStop`, `AgentStart`, `AgentExtend` write rows, `HandleStop` and
  `HandleStart` are the scheduler's handlers, `LoseCall` a call that fails;
* `Lapse` (the validity window ends), `SchedulerRestart`, `LauncherRestart`.

`Dispatcher`. Each CoH is reduced to where its circuit is (`place`), the
attempts it has left (`todo`) and whether its date has come (`due`). `Awake` is
`_mainloop` down to `_run_all`; `Emit` and `ThreadEnds` are the starter;
`ThreadEndsReleased` is a circuit that ends inside its thread; `Release` is
`_release` and `launch_next_waiting` with its fallback; `RemoveExpired` is the
release of a circuit that never answered; `Stop` is `stop_commands`; `Due` and
`OpenClose` are time. Queries on the container bear the names of `analyses.py`.

`Bundles`. `refs` is `BundleReferences.content`, a sequence because
`clean_up_remaining` removes from the list it iterates over; `queue` keeps the
waiting circuits in order because `launch_next_waiting` takes the first. `Awake`
is `_mainloop` followed by `update_stats`, in one turn of the reactor;
`AwakeLocked` is the same while the previous batch holds `lock_start`.

`Dispatcher` and `Bundles` stand beside `Circuit` rather than above it: what a
CoH goes through between its start and its release is one step there, and the
other CoHs are the freedom of `Select` and `Run` here. `Circuit` in its turn
takes the way of a result as a set; `Delivery` is that way in full.

`Launcher`, `SchedulerProxy`, `Delivery`. `processArr` is `ProcessList`'s
dictionary; a process stays listed, "done" and a zombie, until its result was
answered True. `stage` is what the proxy has set up, `packets` and `backup` the
buffer and its file, `send_locked` and `request` what `Sender` remembers. The
socket is `wire` and `back`, with `serving` between them. Frames have no
delimiter: `Read` takes the first of those that came together, drops the
others, and `spoilt` says that part of one was taken. `Delivery` adds the orders,
the calls of launcher and agent that share the proxy with the results, starts,
stops and crashes.

`Watchdog`. `wdogs` and `timers` are the entries of `StatisticsProcessing` and
the calls the reactor holds for them, apart because they disagree while
`_update_for` is under way (`updating`). `Awake`, `Process`, `Release` and
`AgentCall` are the callers; `Fire`, `Finish` and `UpdateFails` the update itself,
which defers to threads.

`PullClient`. `poller`, `worker` and `commands` say where the threads are
(`Poller.run`, `ResultWorker`, `StepWorker` with `Command.next_step`);
`result_queue`, `retry_queue`, `saved` are the queues and the file. `Walked`,
`Accepts`, `Parse` and `Onward` are what `completed_step` comes to in the scheduler:
a circuit is built for the result, walks to the first phase that is not done, must
find the result to be of that phase, parses it and walks on. A failure of a step in
`NonFatal` (`non_fatal_steps`) makes the phase done (`phases/pull.py:61-65`), and the
client goes on after it (`workers.py:106`). A step in `Silent` is a `NoopStep` for
the client, which sends nothing about it (`workers.py:103`); it stands for
`wu_parse`, which the scheduler performs as it walks.

`Replay`. `file` maps the timestamp of a call to its state; `runs` are the
`_run()`s with their calls to send and their calls under way; `replaying` and
`success` the attributes they share. A call is named by its timestamp.

`Collector`. A handler of the reactor is a step: `Receive` is `dataReceived` with
`fire()` and all of `do_calls`, `Return` the end of an endpoint's call, `Expire`
the timer of a session.

Concurrency is the code's: a reactor's thread runs one handler at a time
(`MainFree`, `Main`), a circuit given to the starter runs in a thread of the pool
and interleaves with it phase by phase, the agent writes rows at any moment, the
threads of the pull client interleave queue operation by queue operation.

### Abstractions

In `Circuit`:

* Asynchronous launchers only (the default). Answers to orders reach the
  scheduler before the result of the same order: a circuit that is `asked` does
  not receive results.
* Time: `next_launch_date` and deployment intervals only delay a selection, so
  `Select` may happen or not at any time. `coh.window` numbers the validity
  windows of the command; `extendCommand` opens the next one.
* `attempts_total` and the end date do not change. Bundles, local proxies,
  pull mode, imaging menus, history and statistics are left out.
* `stopped_track` is a no-op: `stop_commands` adds the id and its release
  removes it at once. The deferred `callFromThread` of a release runs with the
  handler that asked for it, and the callback that appends a circuit runs with
  the end of its thread.
* `refresh()` rebinds a local name only, so it is left out.
* The order in which phases are fetched is the choice of `IsFirst`, at every step
  of a walk; see `RowsInOrder` below. That choice includes orders that change during
  one walk, which the iterator cannot do: the model has more behaviours.
* `Nothing` names phases that skip themselves (no file, no script); `HasHost`
  says whether an address was found.

In `Dispatcher` and `Bundles`:

* `_setup_all` and `_assign_launcher` wait for nothing, so an awake is one step.
  As the query is limited to the free slots, `_select_balanced` always has room;
  which circuits of a batch it would prefer does not matter.
* A circuit that is selected again is reactivated by `start_all`; `NotAgain`
  shows that it never happens.
* The agent writes the row and calls the scheduler in one step (`Circuit` has
  them apart). One Circuit object per CoH (`Circuit` has two).
* All intervals open and close together, and not within a step. `Short` names
  the CoHs whose circuit ends in its thread (no host, nothing left to do).
* `Bundles` has one network, no interval, no circuit that ends in its thread; a
  waiting circuit is always due. Ties of the query's order are the set `Orders`.
  The reboot or halt at the end of a bundle is left out, and so is the order of
  an expired circuit, whose late result `Circuit` models.

Elsewhere:

* `Delivery`: the scheduler is one order after the other for each CoH. Frames
  are read whole or cut once per reading. One scheduler, one proxy and one
  launcher; a launcher and its proxy fail independently. The agent's call is any
  method that is not cached.
* `Watchdog`: the window of a command is to come, open or over; the database's
  answer to an update is awaited in one piece. Statistics shown to the user are
  left out.
* `PullClient`: each command has as many phases as steps; a download is part of
  its step. Steps are numbered in the order their phases are fetched, by the client
  and by the scheduler alike and the same each time: `get_available_commands()` and
  `get_phases()` ask for no order, so this is an assumption. A `pre_menu` or
  `post_menu` phase in a pulled command is left out (there is no pull phase of that
  name: `_flow_create` raises `KeyError`, and the command stays). Of the initial rules
  of a pulled phase those about attempts and validity are left out. Pre- and
  post-triggers, the update script and `WatchdogWorker` (which starts a worker again
  that died) are left out.
* `Replay`: timestamps differ (the store keys calls by time).
* `Collector`: one request per `dataReceived`, and the endpoints are quick, slow
  or raise.

### Python 3

The shebangs ask for Python 3, but part of the code is half converted, and would
not get as far as the behaviour modelled here. These places are read as the code
means them, and are bugs of their own:

* `UnixProtocol.dataReceived` (`scheduler/utils.py:103-106`) unpickles through a
  `StringIO` what the socket gives as bytes;
* the pull client's `save_state` and `restore_state`, and the state file of
  `rpcreplay.py`, pickle to files opened in text mode;
* `except queue.Empty` (`pull_client/workers.py:60`) meets a local name `queue`
  that is the Queue itself: `AttributeError`, and the thread ends, to be started
  again by `WatchdogWorker`.

### Named assumptions

* `PoolKeepsUp`: the threads of one start end before the next awake of the
  mainloop (5 seconds by default, one circuit being emitted every 0.1).
  `lock_start` does not guarantee it: with FALSE, a CoH can be selected while its
  circuit still runs in its thread.
* `RowsInOrder`: the database returns the phases of a CoH in `phase_order`.
  `get_phases()` (`scheduler/queries.py:214-221`) does not ask for it, `_flow_create`
  (`types.py:578-599`) keeps what it gets, and only `get_starting_phase()` orders its
  query. The table is MyISAM: rows come in the order of its file, which is that of
  `_createPhases` until phases of deleted commands leave holes that new rows fill. With
  FALSE any order is possible, and TLC finds the CoH closed as done in three steps of
  the walk, with nothing deployed. All runs have TRUE, and the theorems whose
  properties rest on it name it as a hypothesis; `OnceInside`, `AttemptsBounded`,
  `FailuresDeserved` and `OneLeaderAlone` hold for either.
* `LateResults`: whether a circuit may expire (`max_command_time`) while its
  order still runs, that is whether launchers' own limits are longer.
* `LateAnswers`: whether a circuit may expire while a call to its launcher, or the
  sleep after a wake-on-lan, is not over. `remove_expired()` does not look at what a
  circuit waits for; calls are answered in seconds, and the limit is an hour or more.
  TRUE in `storm`, FALSE elsewhere: with TRUE the Deferred of an expired circuit
  goes on beside its successor, `InOrder` fails, and such a circuit may let one more
  order out after a stop, which `StopBound` counts (`adrift`).
* `Threads` (`Watchdog`): whether starter threads may be at the statistics while
  the main thread is in an update. The run has it TRUE.
* `DeferResults` (`Launcher`): `defer_results` of the launcher's configuration,
  FALSE by default and in the run. The theorems hold for both.

### Bounds

* `Circuit`: two Circuit objects per CoH (enough for a forgotten one and its
  successor; `Select` and `ResultOutside` need a free one), two attempts, at most
  two operations of the agent and one fault (`storm`, 1,024,510 states). Workflows of three to seven phases,
  built as `_createPhases` does, between them hold every phase kind.
* `Dispatcher`: four CoHs, two on each of two shared targets, on two networks
  (three and one), one with an interval, one that may end in its thread, two
  slots, two attempts, one stop: enough for two deployments of a target in a
  batch, a waiting circuit of another network than the least busy, and a launch
  while a batch is on its way.
* `Bundles`: a bundle of two commands, the second of which has only one of the
  two targets, two slots, two attempts, one CoH that may be stopped.
* `Delivery`: two CoHs with one order each, two slots, one call of the agent and
  one fault of any kind; 236,728 states. Two results are needed to fill the
  buffer behind a lock and to meet in the socket.
* `Watchdog`: two commands (a timer that raises for one holds up the other),
  two operations of the agent, one failed update or restart.
* `PullClient`: a command of three steps, the first of which may fail and the
  second is silent, one result worker, two attempts, two operations of the agent, two
  failures and one fault; 578,711 states. Three steps are needed for a silent one
  between two that are sent about, two failures to run out of attempts. With two
  faults (a crash after an outage; 6,441,978 states) the safety properties hold too.
* `Replay`: three calls, runs of two, and one of each: second initialisation,
  failed replay, crash, call that grows too old. A run of two with a third call
  left is what a second run overlaps.
* `Collector`: three requests and one fault: a batch with one that is cut in the
  middle.

Where a run ends without a successor (the CoH is closed, the calls are used up)
its cfg says `CHECK_DEADLOCK FALSE`.

### Fairness

Circuit: threads and the reactor run what was handed to them, the mainloop
awakes, launchers answer calls and their processes end and report; the watchdog
runs once the window is over. Strong fairness only for a wake-on-lan that is
answered over and over by something else than a result: some answer is one
(`WOLUnanswered` costs no attempt, so the code alone does not bound it). Nothing
forces the window to end, the agent to act or a process to crash.

Dispatcher and Bundles: the starter emits, threads end, dates come, intervals
open and close. Two strong assumptions: the mainloop awakes within every interval
(intervals are hours, awakes 5 seconds apart), and circuits are not always
removed by `remove_expired` before they end (launchers kill and report what runs
too long, and the window of a command ends). Stops and expirations are not fair.
Fairness is stated for sets of CoHs, which is weaker than for each one.

Delivery: processes end (or are killed at `max_age`), a result is notified or its
call fails, the launcher says that it is alive every `awake_time` and gives that
call up when nothing answers, what is written is read, a method that was called
answers, answers are read, what stopped starts again. Strong for the loop of the
buffer: it turns for ever, so it sends if the lock is free again and again.

Watchdog: the scheduler awakes, the reactor calls what is due, an update ends.

PullClient: threads go on, a step ends by success if nothing else. Strong for a
result that is sent: the DLP is not out of reach at every attempt.

Replay: loops turn, a call is sent when its turn comes and is answered or its
connection is lost; failures are bounded.

Collector: machines send "periodically several informations" (`cm/server.py:38`),
endpoints answer, the sessions nobody will answer expire. The others are not
assumed to expire, or everything would be served by its timeout.

## 3. Runs

| run | instance | shows |
|---|---|---|
| calm | all kinds of phases, no agent, no crash | `Implements`: Circuit refines Deployment |
| operated | wake-on-lan and script, one operation of the agent | `OneLeader`, `Watched`, `DoneKept`, `NotRepeated` |
| crashes | upload, script, delete; one fault; late results | `DoneComplete`, `FailedDeserved`, `InOrder`, and `Progress` under fairness |
| storm | two operations, one fault, late results and answers, a non fatal step | `StopBound`, `OnceInContainer`, `Charges` |
| queue | four CoHs, an interval, retries, one stop | `Slots`, `QueueServed`, `NotAgain`, and `Starts` under fairness |
| bundle | a bundle on two targets, retries, stops, expirations | `Books`, `Held`, and `Unbanned`, `FirstServed` under fairness |
| delivery | two results, a call of the agent, a fault | `NotInvented`, `Kept`, and `Delivered` under fairness |
| watchdog | two commands, threads, agent, a failed update or restart | `NeverRaises`, `OneTimer`, and `Settles` under fairness |
| pull | a command of three steps, stops, failures, a fault | `NotAgain`, `Deserved`, `InOrder`, `Waits`, and `Ends` under fairness |
| replay | three calls, one of each fault | `Kept`, `Overlap`, `InTurn`, `AnsweredOnce`, and `Replayed` under fairness |
| replay_twice | the same | violates `OneRun` |
| collect | three requests, one that raises or fails | `Kept`, `Unstuck`, `AnsweredOnce`, and `Served` under fairness |

Type invariants are proved (section 4); that of Bundles is the first conjunct of
`Books`.

### Limits, which the runs respect

*Circuit.* `InOrder`, `DoneComplete` and `Implements` are about phases in their order
and need `RowsInOrder`. Without it and with an operation of the agent, so do
`Watched`, `DoneKept`, `NotRepeated`, `OneLeader` and `StopBound`: when the row of
"done" does not come last the CoH is closed, and its circuit goes on. `FailedDeserved`,
`OnceInContainer`, `Charges` and `Progress` hold in any order. `DoneComplete` holds without the agent only: an extension makes a
stale copy look expired, and `ForcedFinish` then passes over a phase that never
ended and closes the CoH. `NotRepeated` and `DoneKept` hold without restarts and
late results only: a recurrent circuit may race a selected one. `OneLeader` and
`Watched` need at most one operation of the agent: stop, then start, during the
sleep of a wake-on-lan leaves two circuits at work. `DoneComplete` and `InOrder`
need one fault at most, and with a fault no step that is non fatal, as in
`crashes`: beyond, a recurrent circuit and a selected one meet at the same phase,
and one of them marks it done and goes on while the other is at it. `StopBound` needs
`PoolKeepsUp` (2 otherwise). `Implements` fails as soon as something restarts or
a result is late. `Progress` needs an address: without one, the circuit stays in
the container after its release and its CoH is never selected again.

*Dispatcher.* A release launches a waiting circuit outside its interval
(`get_unprocessed_waitings` does not look at it); a stop during the emission of a
batch, or a circuit that ends in its thread, makes more circuits run than there
are slots, hence the terms `+ ops` and `2 *` of `Slots` and `Doubled`.

*Bundles.* `Held` is what the references guarantee, those an awake has just made
included. The order within a bundle, what they are for, is not: references are swept
away before the circuits they stand for reach the container (see below).

*Delivery.* The proxy's answers have no name: the first answer to a buffered
result before any direct call meets an attribute that is not there yet and cuts
the link. A method that raises leaves `send_locked` until the answer of the next
direct call. Frames that come together are read as the first of them.
`backup_buffer` overwrites a file that was not restored yet, and restored results
go behind newer ones. Hence the ways of `lost`, and the last disjuncts of
`Delivered`.

*Watchdog.* One failed update leaves a timer that was called; every later awake
or circuit that meets it raises `AlreadyCalled`, before `remove_expired`. A
command whose window passed unseen is settled only when the watchdog of another
one fires, hence `c \in previous` in `Settles`.

*PullClient.* `retry_queue` goes first, so a result that is refused for ever
starves the ones behind it: `Ends` excepts what leads there (a lost answer, a
step that ran twice). A poll may find a failed command before its failure was
sent; an outage looks like a command that is not offered; the success of a
stopped command is accepted and not recorded, so that a command all of whose steps
are done on the client may stay offered after a stop and a start (`Ends` excepts
stops). A `wu_parse` whose output cannot be read is parsed again within the same walk
until no attempt is left, and the command fails although the client did all it was
asked. What the scheduler holds for done may have failed on the client, when it is
one of the steps that may: `Deserved` says so, and no more. Several result workers break
`InOrder`, and a worker's late event breaks `Waits`.

*Replay.* Each call of `init()` and `firstRun()` after the first adds a loop,
and only the last is cancelled at shutdown. `_success` is shared by the runs that
overlap, so that `discardRPCs` raises `KeyError` and drops nothing: calls that
were answered are sent again, and out of turn; hence `refreshes = 0` in `InTurn`
and `AnsweredOnce`. A torn file makes `init()` refuse until the operator deletes
it.

*Collector.* A request that arrives while the trigger is locked waits for the
next data of anybody, or for its timeout of an hour; `transport.write(False)`
then fails, so the client gets nothing. A head that expired, or a request that
raises, ends `do_calls` with requests left. Calls of endpoints have no timeout:
one that never answers keeps the trigger locked.

### What the code does otherwise than it says

`replay_twice` is stated as a finding. These are in the models, or beside them, and no
run states them:

* a circuit that ends in its starter thread (no address: `HasHost` = FALSE) is
  released before the callback of `_run_one` (`scheduler/starter.py:76`) appends it
  to the container, where it stays for good, keeps a slot and excludes its CoH ("When
  this method is called, circuit is removed from contaner.", `scheduler/types.py:637`).
  `Dispatcher` has it as `ThreadEndsReleased`, in `queue`; `Starts` excepts what such
  a circuit keeps waiting;
* `get_phases()` has no `order_by` (`RowsInOrder`): when the row of "done" is returned
  first, the CoH is closed before anything was performed ("end of workflow - done !",
  `scheduler/types.py:913`);
* `update_stats()` (`scheduler/control.py:776`) drops the reference of the first
  command of a bundle while it waits for its next attempt, and the second one starts
  before it: a missing reference is taken for "previous coh already done and no more
  present" (`scheduler/bundles.py:200`). TLC finds it in the instance of `bundle`;
* a phase found running by the initial rules is ordered again ("immediately
  returns, do nothing", `scheduler/types.py:216`);
* an attempt that fails after an extension is charged to the old copy of the
  counter;
* a Windows Update output that cannot be parsed has the same phase performed and
  charged until no attempt is left (`scheduler/phases/remote.py:1027`; "WU Parse
  phase failed and skipped", `:1024`);
* two circuits of one batch start on the same target (`scheduler/control.py:535`;
  "Checks if another deployment is not running on the same machine",
  `scheduler/analyses.py:198`);
* `launch_remaining_waitings()` is commented out (`scheduler/control.py:801`): a
  circuit that waits when the last one is released outside its interval waits
  until another deployment ends ("temporarily saves into a queue", `:510`);
* `launcher/remote_exec.py:805`, "command can be safely removed": the command is
  removed only when the scheduler took its result;
* `cm/trigger.py:41`: the flag's comment does not hold after a method raised;
* `scheduler/proxy/buffer.py` calls itself LIFO and is FIFO;
* `in_deployment_interval("20-5", 21h)` is False (`scheduler/timeaxis.py:229-233`),
  while `get_valid_axe` takes an end hour of 0 for the end of the day.

## 4. Proofs

All theorems hold for every value of the constants under the named assumption of
the module (`CircuitAssumption`, ...; among its parts, a wake-on-lan comes first
in a workflow, as `_createPhases` puts it there). Where a property needs more, the
hypotheses are in the theorem, and are those under which a run checks it. `TypeOK` is
proved for seven modules (`Typing`), and in `Bundles` as a part of `Books`. None of
the properties below is inductive; the invariants of the last column are what they
lean on (`IInv`, or the one that is named).

| module | theorems | the invariant |
|---|---|---|
| `CircuitProofs`, always | `AttemptsBounded`, and with `PoolKeepsUp` `OnceInside` | `Agreement` (a waiting or given-up circuit is in the container, and nothing in the starter thread is), `Charges`, and: a circuit in a thread walks and is not yet in the container; a recurrent one walks or is about to parse and never enters it; only recurrent ones carry a result; a circuit under way has a current phase; copies are bounded like the row |
| no operation of the agent | `FailuresDeserved`, and with `PoolKeepsUp` and without `LateAnswers` `OneLeaderAlone` | `Blamed`: whatever says failed (row, copy, phase) was charged an attempt or has its failed phase. `Led`: one object at most is in use that is not recurrent, and the container has it unless it is with the starter or in its thread |
| `PoolKeepsUp`, `RowsInOrder`, one operation, no fault | `OneLeaderOperated`, `WatchedOperated`, `PhasesStayDone`, `NeverOrderedAgain`, `OneOrderAfterStop` | `Quiet`, `OnceLate` (below) |
| `PoolKeepsUp`, `RowsInOrder`, neither | `DoneIsComplete`, `OrdersInOrder`, `ImplementsDeployment` | `CalmInv` (below) |
| `DispatcherProofs` | `SlotsKept`, `NeverMoreThanTwice`, `QueueAlwaysServed`, `NeverAgain` | `TypeOK`, `Slots`, `Doubled`, `QueueServed` |
| `BundlesProofs` | `BooksKept`, `HeldBack` | `BooksInv`: a circuit is there for a CoH that is to be deployed and has an attempt left; the queue has the waiting ones, each once; each CoH has one reference at most, finished only if it is done |
| `DeliveryProofs` | `ResultsKept`, `NoneInvented` | `TypeOK`, `Kept`, `OrdersKnown` (the orders in the list are orders that were taken), and `Spent`: what was handled and the copies on their way are never more than what was accepted |
| `WatchdogProofs` | `Cancels`, `SingleTimer` | `TypeOK`, `NeverRaises`, `CalledIs` (a called entry is the one `_update_for` is at, or an update failed), `Exact` (without a racing thread, one timer per pending entry and none else) |
| `PullClientProofs` | `DoneDeserved`, `NeverAgain` | `TypeOK`, `Deserved`, `Truthful` (a result tells of a run that took place, and how it ended), `Placed` (what is under way is a step, and polls come after the file is removed), `Fresh` (while nothing of what `NotAgain` names went wrong, what the client went on from is recorded, or covered by a result about to be told, or its command has failed; and the step under way comes after all of it) |
| one result worker | `SentInOrder`, `WaitsForResults` | `Line`: the retry queue holds one result at most; what was told, what is sent, the retry queue and the result queue follow one another; nothing outside the file before it is restored, no command before the client polls |
| `ReplayProofs` | `CallsKept`, `RunsBounded` | `TypeOK`, `Kept`, `Overlaps` (while no replay is marked as in progress, there is one run less), `Acknowledged` (what is in `success` was carried out) |
| initialised once | `SentInTurn`, `NeverAnsweredTwice` | `Once`: there is one run; what it has in hand is stored and unanswered; what is marked is in hand or answered; earlier calls wait with it or were sent |
| `CollectorProofs` | `RequestsKept`, `TriggerUnlocks`, `FiredOnce` | `TypeOK`, `Kept`, `Unstuck`, `Untold` (an open session was told nothing) |

Of `Circuit`, the argument is by operator: `WalkInv`, `SettleInv` and `ReleaseInv`
say what the three ways to end a step do to objects and container, `FlushRow` and
`ChargedRow` what happens to rows, `GiveUpAfter`, `FailPhaseAfter` and
`NextPhaseAfter` combine them, and every action is then a short lemma.

`Quiet` says why one operation of the agent does no harm. At most one Circuit object
is in use (`Sole`). What it holds agrees with the rows: its copy of the phase is the
row of the phase in hand, and the last phase is ahead of it or in hand (`Fit`: `Held`,
`Open`). The order or the result under way is for the phase it is out for, or nobody
waits for it because a stop threw the circuit out (`Orders`, `Placed`). When the
operation was a stop, no later call starts the CoH again (`Halted`, `Called`), and
only then does a circuit go on outside the container or come back as a recurrent one
(`Astray`). Hence a phase that is done is not performed again, and no copy undoes it.
`OnceLate` adds the history of `StopBound`: once an order has left after a stop, no
circuit is about to ask; its phase is done and it reads the row before the next one,
or it knows of the stop. Without faults no circuit is given up while it asks, so that
the bound is one.

`CalmInv` relates `Circuit` to `Deployment`. The copies a circuit has of the attempts
are those of the row, what it passed over has nothing to do, what is left in its
iterator comes after. `ImplementsDeployment` shows that the initial state maps to an
initial state and that every action maps to a step (`Finish`, `Charge`, `Complete`,
`CloseAllowed`) or to none (`Same`).

Of `Dispatcher`, `Slots` needs the bound on a batch and `QueueServed` that a release
that finds no free slot leaves something running; the hard step is that some
network is the least busy one (`Least`), which rests on the library's
well-foundedness of finite sets. Of `Bundles`, sequences are cut and filtered by
`Pick`: the lemmas say which elements are left, and that none comes up twice
(`PickPlaces` counts positions, by the library's facts on injections of finite sets). What
`update()`, `finish()`, `clean_up()` and the faulty loop of `clean_up_remaining()` do
to references follows; the loop may drop any of them, so that nothing proved depends
on which. `HeldBack` is by the three ways to start: each consults the references
as they are after the step's own update. Of `Delivery` and `PullClient`, lemmas say
what happens to the
elements of a sequence that is cut, joined or shortened, and each action is then
about the sets of what is held somewhere, or, for `NoneInvented`, about how often
a result occurs there (`Times`). Of `Replay`, cardinalities of the runs
that are busy.

Only model-checked: what runs check beyond the hypotheses above (`InOrder` and
`DoneComplete` with a fault in `crashes`, `StopBound` with two operations and a fault
in `storm`), and liveness, which is out of the prover's reach.

## 5. Plan

Done: 1. Circuit and Deployment. 2. Dispatcher. 3. Bundles. 4. Launcher and
scheduler proxy, composed in Delivery. 5. Watchdog. 6. PullClient. 7. Replay.
8. Collector. Each with its proofs.

Left:

* TimeAxis and balance, as functions against reference definitions: intervals
  that cross midnight, a date computed past `end_date`.
* The endpoints of the connection manager.
* Theorems on Circuit with faults: `InOrder` and `DoneComplete` with one fault and
  no step that is non fatal, `OneLeader` with one operation and faults, `StopBound`
  with one operation and one or two faults. TLC finds them true, the invariants
  are not proved.

### Not modelled

* Local proxies: in this commit every way into them raises. `analyses.py:344-347`
  picks the clients of a proxy wrongly, `:376-389` takes a list for a proxy,
  `:419` calls `phase_is_done()`, which nothing defines, and `:486-489` unpacks a
  number. There is no behaviour past these lines to model.
* Launch date and balance: arithmetic on wall-clock time and floats; the models
  take their outcome as a choice.
* Imaging phases: two synchronous calls, without a state.
* TCP proxies, proxy SSL, package mirrors, wrappers of commands: sockets, file
  systems and rsync, without a protocol to check.
* Agent core and plugins, mds, imaging and inventory servers and databases, GLPI,
  web pages, installers: CRUD on LDAP and SQL, generation of files, pages. They
  are most of the repository's lines, and hold no state machine of their own: the
  transactions of SQL and LDAP are what would have to be modelled.
