------------------------------- MODULE Replay -------------------------------
(***************************************************************************)
(* The calls of the imaging API of a package server that did not reach the *)
(* MMC agent: RPCStore keeps them in a file, under the time they failed,   *)
(* RPCReplay sends them again (package_server/imaging/rpcreplay.py).       *)
(*                                                                         *)
(* Everything runs in the reactor.  What makes it hard is that init() and  *)
(* firstRun() are called again by every writing of a boot menu and by      *)
(* every question about the convergence of a host (functions.py 122-181):  *)
(* it forgets that a replay is in progress, and a second one starts.       *)
(*                                                                         *)
(* A failed call is named by its rank: the n-th one that failed is n, and  *)
(* its timestamp is n as well.                                             *)
(***************************************************************************)
EXTENDS Integers, FiniteSets

CONSTANTS
  Batch,        \* rpc_count, the most calls one run sends
  MaxCalls,     \* bound: calls that fail when first sent
  MaxRefreshes, \* bound: calls of init() and firstRun() after the first
  MaxFailures,  \* bound: replays that fail
  MaxCrashes,   \* bound: restarts of the package server
  MaxOld        \* bound: calls that get older than seven days

ASSUME ReplayAssumption ==
  /\ Batch \in Nat \ {0}
  /\ {MaxCalls, MaxRefreshes, MaxFailures, MaxCrashes, MaxOld} \subseteq Nat

Stamps == 1 .. MaxCalls
Runs == 1 .. MaxRefreshes + 1

VARIABLES
  file,       \* the state file: a timestamp -> PENDING or INPROGRESS
  replaying,  \* RPCReplay._replaying
  success,    \* RPCReplay._success, how often each timestamp is in the list
  runs,       \* the calls each run has still to send, and waits an answer of
  failed,     \* how many calls failed when first sent
  old,        \* how many of these are older than seven days
  budget,     \* refreshes, failures and crashes so far
  executed,   \* history: the calls the agent carried out
  tried,      \* history: the calls that were sent again
  acked,      \* history: the calls answered since the server was started
  torn        \* history: the calls of a file the server died writing

vars == <<file, replaying, success, runs, failed, old, budget,
          executed, tried, acked, torn>>

PENDING == "pending"
INPROGRESS == "in progress"

NoFile == [s \in {} |-> PENDING]
NoSuccess == [s \in Stamps |-> 0]
Idle == [waiting |-> {}, calling |-> {}]

-----------------------------------------------------------------------------
(***************************************************************************)
(* RPCStore.                                                               *)
(***************************************************************************)

\* add(): a call that failed again takes its old place.
Add(data, s) == [t \in DOMAIN data \cup {s} |-> IF t = s THEN PENDING ELSE data[t]]

\* _initStateFile()
Reset(data) == [s \in DOMAIN data |-> PENDING]

\* pop(): what is too old is dropped, the first pending ones are taken.
Valid(data) == {s \in DOMAIN data : s > old}
Pending(data) == {s \in Valid(data) : data[s] = PENDING}

\* Mutant of Popped: the keys are sorted the other way round.
MutPopped(data) ==
  {s \in Pending(data) : Cardinality({t \in Pending(data) : t > s}) < Batch}

Popped(data) ==
  {s \in Pending(data) : Cardinality({t \in Pending(data) : t < s}) < Batch}
AfterPop(data) ==
  [s \in Valid(data) |-> IF s \in Popped(data) THEN INPROGRESS ELSE data[s]]

\* Mutants of Discard: what was sent is given back, whatever its answer; what
\* was sent is dropped, whatever its answer.
MutDiscard(data, list) == [s \in DOMAIN data |-> PENDING]
MutDiscardRun(data, list) ==
  [s \in {t \in DOMAIN data : data[t] = PENDING} |-> data[s]]

\* discardRPCs(): one "del" that raises KeyError and nothing is written.
Removable(data, list) ==
  \A s \in Stamps : list[s] > 0 => list[s] = 1 /\ s \in DOMAIN data
Discard(data, list) ==
  IF Removable(data, list)
  THEN [s \in {t \in DOMAIN data : list[t] = 0} |-> data[s]]
  ELSE data

-----------------------------------------------------------------------------
(***************************************************************************)
(* RPCReplay.                                                              *)
(***************************************************************************)

\* _run() past its guard, on that content of the file and with these runs
\* scheduled: nothing to send and the run ends at once.
StartRun(data, now) ==
  LET free == CHOOSE r \in Runs : now[r] = Idle IN
  /\ file' = AfterPop(data)
  /\ success' = NoSuccess
  /\ replaying' = (Popped(data) # {})
  /\ runs' = IF Popped(data) = {} THEN now
             ELSE [now EXCEPT ![free] = [waiting |-> Popped(data), calling |-> {}]]

\* Mutant of EndCall: _rpcReplayCb() leaves _replaying as it is.
MutEndCall(r, s, data, list) ==
  LET left == [waiting |-> runs[r].waiting, calling |-> runs[r].calling \ {s}] IN
  /\ runs' = [runs EXCEPT ![r] = left]
  /\ success' = list
  /\ file' = IF left = Idle THEN Discard(data, list) ELSE data
  /\ replaying' = replaying

\* _rpcReplayCb(), when every call of the run has ended
EndCall(r, s, data, list) ==
  LET left == [waiting |-> runs[r].waiting, calling |-> runs[r].calling \ {s}] IN
  /\ runs' = [runs EXCEPT ![r] = left]
  /\ success' = list
  /\ IF left = Idle
     THEN file' = Discard(data, list) /\ replaying' = FALSE
     ELSE file' = data /\ replaying' = replaying

Init ==
  /\ file = NoFile
  /\ replaying = FALSE
  /\ success = NoSuccess
  /\ runs = [r \in Runs |-> Idle]
  /\ failed = 0
  /\ old = 0
  /\ budget = [refreshes |-> 0, failures |-> 0, crashes |-> 0]
  /\ executed = {}
  /\ tried = {}
  /\ acked = {}
  /\ torn = {}

\* onError() of a call a client of the imaging server asked for.
FirstFails ==
  /\ failed < MaxCalls
  /\ failed' = failed + 1
  /\ file' = Add(file, failed + 1)
  /\ UNCHANGED <<replaying, success, runs, old, budget, executed, tried, acked, torn>>

\* Mutant of Run: without the test of _replaying.
MutRun ==
  /\ StartRun(file, runs)
  /\ UNCHANGED <<failed, old, budget, executed, tried, acked, torn>>

\* _run() of a loop: the next one is always scheduled.
Run ==
  /\ ~replaying
  /\ StartRun(file, runs)
  /\ UNCHANGED <<failed, old, budget, executed, tried, acked, torn>>

\* init() and firstRun(), called again in the same process: what is being
\* replayed goes on.
Refresh ==
  /\ budget.refreshes < MaxRefreshes
  /\ budget' = [budget EXCEPT !.refreshes = @ + 1]
  /\ StartRun(Reset(file), runs)
  /\ UNCHANGED <<failed, old, executed, tried, acked, torn>>

\* _replayRPC(), rpc_interval seconds after the one before of its run.
Send(r) ==
  /\ \E s \in runs[r].waiting :
       /\ \A t \in runs[r].waiting : s <= t
       /\ runs' = [runs EXCEPT ![r] = [waiting |-> @.waiting \ {s},
                                       calling |-> @.calling \cup {s}]]
       /\ tried' = tried \cup {s}
  /\ UNCHANGED <<file, replaying, success, failed, old, budget, executed, acked, torn>>

Succeeds(r) ==
  /\ \E s \in runs[r].calling :
       /\ EndCall(r, s, file, [success EXCEPT ![s] = @ + 1])
       /\ executed' = executed \cup {s}
       /\ acked' = acked \cup {s}
  /\ UNCHANGED <<failed, old, budget, tried, torn>>

\* onError(): the agent may have carried the call out all the same.
ReplayFails(r) ==
  /\ budget.failures < MaxFailures
  /\ budget' = [budget EXCEPT !.failures = @ + 1]
  /\ \E s \in runs[r].calling :
       /\ EndCall(r, s, Add(file, s), success)
       /\ executed' \in {executed, executed \cup {s}}
  /\ UNCHANGED <<failed, old, tried, acked, torn>>

\* Seven days pass.
Age ==
  /\ old < MaxOld /\ old < failed
  /\ old' = old + 1
  /\ UNCHANGED <<file, replaying, success, runs, failed, budget,
                 executed, tried, acked, torn>>

\* The package server dies and is started again: with the file it had, or,
\* when it died in _updateStateFile(), once the operator deleted what init()
\* refuses to read.
Restart ==
  /\ budget.crashes < MaxCrashes
  /\ budget' = [budget EXCEPT !.crashes = @ + 1, !.refreshes = 0]
  /\ \E kept \in {file, NoFile} :
       /\ StartRun(Reset(kept), [r \in Runs |-> Idle])
       /\ torn' = torn \cup (DOMAIN file \ DOMAIN kept)
  /\ acked' = {}
  /\ UNCHANGED <<failed, old, executed, tried>>

RunStep(r) == Send(r) \/ Succeeds(r) \/ ReplayFails(r)

Next ==
  \/ FirstFails
  \/ Run
  \/ Refresh
  \/ \E r \in Runs : RunStep(r)
  \/ Age
  \/ Restart

Spec == Init /\ [][Next]_vars

(***************************************************************************)
(* The reactor runs what is due, and a call is answered or its connection  *)
(* is lost.  ReplayFails is bounded: the agent comes back.                 *)
(***************************************************************************)
FairSpec ==
  /\ Spec
  /\ WF_vars(Run)
  /\ \A r \in Runs : WF_vars(Send(r)) /\ WF_vars(Succeeds(r) \/ ReplayFails(r))

-----------------------------------------------------------------------------
(***************************************************************************)
(* Properties.                                                             *)
(***************************************************************************)

\* Every variable has its type, a run waits for and sends disjoint calls,
\* and the calls of a run are calls that failed.
TypeOK ==
  /\ DOMAIN file \subseteq 1 .. failed
  /\ \A s \in DOMAIN file : file[s] \in {PENDING, INPROGRESS}
  /\ replaying \in BOOLEAN
  /\ success \in [Stamps -> Nat]
  /\ runs \in [Runs -> [waiting : SUBSET (1 .. failed), calling : SUBSET (1 .. failed)]]
  /\ \A r \in Runs : runs[r].waiting \cap runs[r].calling = {}
  /\ \A r \in Runs : Cardinality(runs[r].waiting \cup runs[r].calling) <= Batch
  /\ failed \in 0 .. MaxCalls
  /\ old \in 0 .. failed
  /\ budget \in [refreshes : 0 .. MaxRefreshes, failures : 0 .. MaxFailures,
                 crashes : 0 .. MaxCrashes]
  /\ executed \cup tried \cup acked \cup torn \subseteq 1 .. failed

\* A call is lost only by its age or by a server that died while it wrote the
\* file: until the agent carried it out it stays in the file, whatever replays
\* overlap, fail, are acknowledged twice or die with the server.
Kept ==
  \A s \in 1 .. failed : s \in executed \/ s \in DOMAIN file \/ s <= old \/ s \in torn

SentAgain(s) == \E r \in Runs : s \in runs'[r].calling \ runs[r].calling

\* "self.count RPCs are replayed according to their timestamp order": in a
\* server that initialised the replayer once no call is sent again for the
\* first time before an older one was, whatever failed or died before.  Two
\* runs that overlap break it.
InTurn ==
  [][\A s \in 1 .. failed : \A t \in 1 .. s :
       budget.refreshes = 0 /\ SentAgain(s) =>
         t \in tried' \/ t <= old \/ t \in torn]_vars

\* In a server that initialised the replayer once, a call the agent answered
\* is never sent again: what a run popped is what it discards, although calls
\* are stored, fail and grow old in between.  The precondition is needed: see
\* OneRun.
AnsweredOnce ==
  [][\A s \in acked : budget.refreshes = 0 => ~SentAgain(s)]_vars

Busy == {r \in Runs : runs[r] # Idle}

\* Runs overlap no more than init() was called again in this process, however
\* often _rpcReplayCb() of one resets what stands for another: "RPC replay
\* already in progress" holds of a replayer initialised once.
Overlap == Cardinality(Busy) <= budget.refreshes + 1

\* Once the agent is back every stored call is carried out or too old, also
\* the ones a crash or a second init() left in progress.
Replayed ==
  \A s \in Stamps : (s <= failed) ~> (s \in executed \/ s <= old \/ s \in torn)

\* "self.count RPCs are replayed ... with an interval of self.interval seconds
\* between each RPC so that we don't overload the RPC server", and "RPC replay
\* already in progress": one run at a time.  The second init() breaks it.
OneRun == Cardinality(Busy) <= 1

=============================================================================
