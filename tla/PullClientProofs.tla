-------------------------- MODULE PullClientProofs --------------------------
(***************************************************************************)
(* What holds of PullClient for any number of commands, steps and workers, *)
(* and whatever stops, fails or crashes: the scheduler never holds a phase *)
(* for done that the client did not go on from, and none of these is run   *)
(* again but for the reasons NotAgain names (IInv). With one result        *)
(* worker, results are sent in order and polls wait for them (Line).       *)
(***************************************************************************)
EXTENDS PullClient, SequenceTheorems, TLAPS

-----------------------------------------------------------------------------
(* The elements of a sequence that grows or shrinks.                       *)

LEMMA ElementsTyped ==
    ASSUME NEW S, NEW s \in Seq(S)
    PROVE  ToSet(s) \subseteq S
<1> QED BY DEF ToSet

LEMMA ElementsOfEmpty == ToSet(<<>>) = {}
<1>1. <<>> \in Seq({}) /\ Len(<<>>) = 0
  OBVIOUS
<1>2. DOMAIN <<>> = 1..0
  BY <1>1
<1> QED BY <1>2 DEF ToSet

LEMMA ElementsOfConcat ==
    ASSUME NEW S, NEW s \in Seq(S), NEW t \in Seq(S)
    PROVE  ToSet(s \o t) = ToSet(s) \cup ToSet(t)
<1>1. Range(s \o t) = Range(s) \cup Range(t)
  BY RangeConcatenation
<1> QED BY <1>1 DEF Range, ToSet

LEMMA ElementsOfAppend ==
    ASSUME NEW S, NEW s \in Seq(S), NEW e \in S
    PROVE  ToSet(Append(s, e)) = ToSet(s) \cup {e}
<1>1. Append(s, e) = s \o <<e>> /\ <<e>> \in Seq(S)
  OBVIOUS
<1>2. DOMAIN <<e>> = {1} /\ <<e>>[1] = e
  OBVIOUS
<1>3. ToSet(<<e>>) = {e}
  BY <1>2 DEF ToSet
<1>4. ToSet(s \o <<e>>) = ToSet(s) \cup ToSet(<<e>>)
  BY <1>1, ElementsOfConcat
<1> QED BY <1>1, <1>3, <1>4

LEMMA ElementsOfSeq ==
    ASSUME NEW S, NEW s \in Seq(S)
    PROVE  ToSet(s) = {s[i] : i \in 1..Len(s)}
<1>1. DOMAIN s = 1..Len(s)
  OBVIOUS
<1> QED BY <1>1 DEF ToSet

LEMMA ElementsOfSubSeq ==
    ASSUME NEW S, NEW s \in Seq(S), NEW m \in Nat \ {0}, NEW n \in Nat, n <= Len(s)
    PROVE  /\ SubSeq(s, m, n) \in Seq(S)
           /\ ToSet(SubSeq(s, m, n)) = {s[i] : i \in m..n}
<1> DEFINE q == SubSeq(s, m, n)
<1>1. Len(s) \in Nat /\ \A i \in 1..Len(s) : s[i] \in S
  OBVIOUS
<1>2. m \in Int /\ n \in Int /\ \A i \in m..n : s[i] \in S
  BY <1>1
<1>3. /\ q \in Seq(S)
      /\ Len(q) = IF m <= n THEN n - m + 1 ELSE 0
      /\ \A i \in 1 .. n - m + 1 : q[i] = s[m + i - 1]
  BY <1>2, SubSeqProperties
<1> HIDE DEF q
<1>4. CASE m > n
  <2>1. m..n = {} /\ Len(q) = 0
    BY <1>2, <1>3, <1>4
  <2>2. ToSet(q) = {q[i] : i \in 1..0}
    <3>1. ToSet(q) = {q[i] : i \in 1..Len(q)}
      BY <1>3, ElementsOfSeq
    <3> QED BY <2>1, <3>1
  <2> QED BY <1>3, <2>1, <2>2 DEF q
<1>5. CASE m <= n
  <2>1. Len(q) = n - m + 1 /\ ToSet(q) = {q[i] : i \in 1 .. n - m + 1}
    <3>1. Len(q) = n - m + 1
      BY <1>3, <1>5
    <3>2. ToSet(q) = {q[i] : i \in 1..Len(q)}
      BY <1>3, ElementsOfSeq
    <3> QED BY <3>1, <3>2
  <2>2. ASSUME NEW i \in 1 .. n - m + 1 PROVE q[i] \in {s[k] : k \in m..n}
    <3>1. m + i - 1 \in m..n /\ q[i] = s[m + i - 1]
      BY <1>2, <1>3
    <3> QED BY <3>1
  <2>3. ASSUME NEW k \in m..n PROVE s[k] \in {q[i] : i \in 1 .. n - m + 1}
    <3>1. k - m + 1 \in 1 .. n - m + 1 /\ m + (k - m + 1) - 1 = k
      BY <1>2
    <3>2. q[k - m + 1] = s[m + (k - m + 1) - 1]
      BY <1>3, <3>1
    <3> QED BY <3>1, <3>2
  <2>4. ToSet(q) = {s[k] : k \in m..n}
    BY <2>1, <2>2, <2>3
  <2> QED BY <1>3, <2>4 DEF q
<1>6. m > n \/ m <= n
  BY <1>2
<1> QED BY <1>4, <1>5, <1>6

LEMMA ElementsOfTail ==
    ASSUME NEW S, NEW s \in Seq(S), s # <<>>
    PROVE  /\ Head(s) \in S /\ Tail(s) \in Seq(S)
           /\ ToSet(s) = {Head(s)} \cup ToSet(Tail(s))
<1>1. Len(s) \in Nat \ {0} /\ Head(s) = s[1] /\ Head(s) \in S /\ Tail(s) \in Seq(S)
  BY EmptySeq
<1>2. Tail(s) = SubSeq(s, 2, Len(s)) /\ Len(s) <= Len(s) /\ 2 \in Nat \ {0}
  BY <1>1, TailIsSubSeq
<1>3. ToSet(Tail(s)) = {s[i] : i \in 2..Len(s)}
  <2>1. ToSet(SubSeq(s, 2, Len(s))) = {s[i] : i \in 2..Len(s)}
    BY <1>1, <1>2, ElementsOfSubSeq
  <2> QED BY <1>2, <2>1
<1>4. ToSet(s) = {s[i] : i \in 1..Len(s)}
  BY ElementsOfSeq
<1>5. 1..Len(s) = {1} \cup (2..Len(s))
  BY <1>1
<1> QED BY <1>1, <1>3, <1>4, <1>5

-----------------------------------------------------------------------------
(* The inductive invariant. *)

Sending == {worker[w].result : w \in {v \in ResultWorkers : worker[v].pc = "send"}}

\* Every result the client has, and those it will send after a regular stop.
Known == Unsent \cup ToSet(saved)
Held  == Unsent \cup (IF poller \in {"down", "boot"} THEN ToSet(saved) ELSE {})

\* A result tells of a run that took place, and how it ended.
Truthful == \A r \in Known : r.run <= runs /\ <<r.cmd, r.step, r.ok>> \in ended

\* What is under way is a step, and polls come after the file is removed.
Placed ==
    /\ \A c \in Commands : commands[c].at \in {"queued", "running"} => commands[c].step > 0
    /\ poller \in {"waiting", "polling", "stopping"} => saved = <<>>

\* A result with which the step i is done: that of i, or of the last step before it
\* about which something is sent.
Passing(r)   == r.ok \/ r.step \in NonFatal
Covers(r, i) == Passing(r) /\ r.step <= i /\ r.step + 1..i \subseteq Silent

\* What the client went on from is recorded, or about to be told, or the command
\* has failed; the step under way comes after all of it.
Recorded(c, i) == \/ i <= row[c].done \/ row[c].state = "failed"
                  \/ \E r \in Held : r.cmd = c /\ Covers(r, i)
Beyond(c, i) == \/ commands[c].at = "next" /\ i <= commands[c].step
                \/ commands[c].at \in {"queued", "running"} /\ i < commands[c].step
Ahead(c, i)  == commands[c].at # "idle" => Beyond(c, i)

\* A command that did not fail waits for a result, not for the scheduler itself.
Parsed(x) == x.done + 1 \in Silent => x.state = "failed"

\* As long as nothing of what NotAgain names went wrong.
Sound == blame \cap {"crash", "early poll", "stop"} = {}
Fresh ==
    Sound => /\ ~again
             /\ \A c \in Commands : row[c].state # "stopped" /\ Parsed(row[c])
             /\ \A c \in Commands, i \in Steps :
                   /\ Passed(c, i) => Recorded(c, i) /\ Ahead(c, i)
                   /\ Beyond(c, i) => Recorded(c, i)

IInv == TypeOK /\ Truthful /\ Deserved /\ Placed /\ Fresh

Holders == [pc : {"loop", "empty"}, result : {Nothing}] \cup [pc : {"send"}, result : Results]

LEMMA HoldersWell ==
    ASSUME NEW h \in Holders
    PROVE  /\ h.pc \in {"loop", "empty"} => h = [pc |-> h.pc, result |-> Nothing]
           /\ h.pc = "send" => h.result \in Results
           /\ h.pc \in {"loop", "empty", "send"}
<1> QED BY DEF Holders

\* What the client holds are results.
LEMMA KnownTyped ==
    ASSUME TypeOK
    PROVE  /\ Unsent = Sending \cup ToSet(result_queue) \cup ToSet(retry_queue)
           /\ Known \subseteq Results /\ Held \subseteq Known
           /\ ToSet(result_queue) \subseteq Results /\ ToSet(retry_queue) \subseteq Results
           /\ ToSet(saved) \subseteq Results
<1>1. Unsent = Sending \cup ToSet(result_queue) \cup ToSet(retry_queue)
  BY DEF Unsent, Sending
<1>2. /\ ToSet(result_queue) \subseteq Results /\ ToSet(retry_queue) \subseteq Results
      /\ ToSet(saved) \subseteq Results
  BY ElementsTyped DEF TypeOK
<1>3. Sending \subseteq Results
  <2>1. ASSUME NEW w \in ResultWorkers, worker[w].pc = "send" PROVE worker[w].result \in Results
    <3>1. worker[w] \in Holders
      BY DEF TypeOK, Holders
    <3> QED BY <2>1, <3>1, HoldersWell
  <2> QED BY <2>1 DEF Sending
<1> QED BY <1>1, <1>2, <1>3 DEF Known, Held

\* A worker that sends, and one that does not any more or not yet.
LEMMA WorkerMoves ==
    ASSUME TypeOK, NEW w \in ResultWorkers, NEW pc, NEW r, Worker(w, pc, r),
           [pc |-> pc, result |-> r] \in Holders
    PROVE  /\ worker' \in [ResultWorkers -> Holders]
           /\ Sending' \subseteq Sending \cup (IF pc = "send" THEN {r} ELSE {})
           /\ pc = "send" => r \in Sending'
           /\ Sending \subseteq Sending' \cup (IF worker[w].pc = "send" THEN {worker[w].result} ELSE {})
<1>1. worker \in [ResultWorkers -> Holders]
  BY DEF TypeOK, Holders
<1>2. worker' = [worker EXCEPT ![w] = [pc |-> pc, result |-> r]]
  BY DEF Worker
<1>3. worker' \in [ResultWorkers -> Holders]
  BY <1>1, <1>2
<1>4. /\ worker'[w].pc = pc /\ worker'[w].result = r
      /\ \A v \in ResultWorkers : v # w => worker'[v] = worker[v]
  BY <1>1, <1>2
<1> QED BY <1>3, <1>4 DEF Sending

LEMMA InitInv == Init => IInv
<1> SUFFICES ASSUME Init PROVE IInv
  OBVIOUS
<1> USE PullAssumption
<1>1. ToSet(result_queue) = {} /\ ToSet(retry_queue) = {} /\ ToSet(saved) = {}
  BY ElementsOfEmpty DEF Init
<1>2. Sending = {}
  BY DEF Init, Idle, Sending
<1>3. Known = {}
  BY <1>1, <1>2 DEF Known, Unsent, Sending
<1>4. TypeOK
  <2>1. row \in [Commands -> [state : {"scheduled", "stopped", "failed", "done"},
                              done : 0..Length, failed : 0..MaxAttempts]]
    BY DEF Init
  <2>2. commands \in [Commands -> [state : {"none", "running", "failed", "stopped", "done"},
                                   at : {"idle", "next", "queued", "running"},
                                   step : 0..Length]]
    BY DEF Init, NoSteps
  <2>3. worker \in [ResultWorkers -> Holders]
    BY DEF Init, Idle, Holders
  <2>4. ended \subseteq Commands \X Steps \X BOOLEAN /\ again \in BOOLEAN
    BY DEF Init
  <2>5. result_queue \in Seq(Results) /\ retry_queue \in Seq(Results) /\ saved \in Seq(Results)
    BY DEF Init
  <2>6. poller = "down" /\ start_polling \in BOOLEAN /\ blame = {}
    BY DEF Init
  <2>7. /\ ops \in 0..MaxOps /\ failures \in 0..MaxFailures /\ faults \in 0..MaxFaults
        /\ runs \in Nat /\ last \in 0..runs
    BY DEF Init
  <2> QED BY <2>1, <2>2, <2>3, <2>4, <2>5, <2>6, <2>7 DEF TypeOK, Holders
<1>5. Truthful /\ Deserved /\ Placed
  BY <1>3 DEF Init, Truthful, Deserved, Placed, NoSteps
<1>6. Fresh
  <2>1. 1 \notin Silent
    OBVIOUS
  <2>2. \A c \in Commands : row[c].done = 0 /\ row[c].state = "scheduled"
                            /\ commands[c].at = "idle"
    BY DEF Init, NoSteps
  <2>3. ended = {} /\ again = FALSE
    BY DEF Init
  <2> QED BY <2>1, <2>2, <2>3 DEF Fresh, Parsed, Passed, Beyond
<1> QED BY <1>4, <1>5, <1>6 DEF IInv

-----------------------------------------------------------------------------
(* Every step keeps the types. *)

Rows  == [state : {"scheduled", "stopped", "failed", "done"},
          done : 0..Length, failed : 0..MaxAttempts]
Tasks == [state : {"none", "running", "failed", "stopped", "done"},
          at : {"idle", "next", "queued", "running"}, step : 0..Length]
Blames == {"stop", "crash", "outage", "answer", "late event", "early poll"}
Places == {"down", "boot", "restored", "waiting", "polling", "stopping"}

RowsTyped   == row \in [Commands -> Rows]
TasksTyped  == commands \in [Commands -> Tasks]
QueuesTyped == /\ result_queue \in Seq(Results) /\ retry_queue \in Seq(Results)
               /\ saved \in Seq(Results)
               /\ worker \in [ResultWorkers -> Holders]
OthersTyped == /\ poller \in Places /\ start_polling \in BOOLEAN
               /\ ops \in 0..MaxOps /\ failures \in 0..MaxFailures /\ faults \in 0..MaxFaults
               /\ runs \in Nat /\ last \in 0..runs /\ blame \subseteq Blames
               /\ ended \subseteq Commands \X Steps \X BOOLEAN /\ again \in BOOLEAN

LEMMA TypeParts == TypeOK <=> RowsTyped /\ TasksTyped /\ QueuesTyped /\ OthersTyped
<1> QED BY DEF TypeOK, RowsTyped, TasksTyped, QueuesTyped, OthersTyped, Rows, Tasks,
              Holders, Blames, Places

LEMMA FaultTyped ==
    ASSUME OthersTyped, NEW what \in Blames, Fault(what)
    PROVE  /\ faults' \in 0..MaxFaults /\ blame' \subseteq Blames
           /\ ops' = ops /\ failures' = failures
<1>1. faults' \in 0..MaxFaults /\ ops' = ops /\ failures' = failures
  BY PullAssumption DEF Fault, OthersTyped
<1>2. blame' \subseteq Blames
  BY DEF Fault, OthersTyped
<1> QED BY <1>1, <1>2

\* phase_step() passes over what the scheduler parses itself, or fails there.
LEMMA OnwardStep ==
    ASSUME NEW old \in Rows, NEW new \in Onward(old)
    PROVE  /\ new \in Rows /\ old.done <= new.done /\ Parsed(new)
           /\ old.done + 1..new.done \subseteq Silent
           /\ new.state \in {old.state, "failed"} \/ (new.state = "done" /\ new.done = Length)
           /\ new.state = "failed" \/
                 \A i \in Steps : old.done + 1..i \subseteq Silent => i <= new.done
<1> USE PullAssumption
<1> DEFINE silent == {n \in old.done..Length : old.done + 1..n \subseteq Silent}
<1>1. /\ old.done \in 0..Length /\ old.failed \in 0..MaxAttempts
      /\ old.state \in {"scheduled", "stopped", "failed", "done"}
  BY DEF Rows
<1>2. ASSUME NEW n \in silent, n + 1 \notin Silent,
             new = [old EXCEPT !.done = n, !.state = IF n = Length THEN "done" ELSE @]
      PROVE  /\ new \in Rows /\ old.done <= new.done /\ Parsed(new)
             /\ old.done + 1..new.done \subseteq Silent
             /\ new.state = old.state \/ (new.state = "done" /\ new.done = Length)
             /\ \A i \in Steps : old.done + 1..i \subseteq Silent => i <= new.done
  <2>1. /\ new \in Rows /\ new.done = n
        /\ new.state = IF n = Length THEN "done" ELSE old.state
    <3>1. new = [state |-> IF n = Length THEN "done" ELSE old.state, done |-> n,
                 failed |-> old.failed]
      BY <1>2 DEF Rows
    <3>2. n \in 0..Length
      BY <1>1
    <3> QED BY <1>1, <3>1, <3>2 DEF Rows
  <2>2. ASSUME NEW i \in Steps, old.done + 1..i \subseteq Silent, ~(i <= n) PROVE FALSE
    <3>1. n + 1 \in old.done + 1..i
      BY <1>1, <2>2 DEF Steps
    <3> QED BY <1>2, <2>2, <3>1
  <2> QED BY <1>1, <1>2, <2>1, <2>2 DEF Parsed
<1>3. ASSUME NEW n \in silent \ {old.done},
             new = [old EXCEPT !.done = n - 1, !.failed = MaxAttempts, !.state = "failed"]
      PROVE  /\ new \in Rows /\ old.done <= new.done /\ Parsed(new)
             /\ old.done + 1..new.done \subseteq Silent
             /\ new.state = "failed"
  <2>1. n - 1 \in 0..Length /\ old.done <= n - 1 /\ old.done + 1..n - 1 \subseteq Silent
    BY <1>1, <1>3
  <2>2. new \in Rows /\ new.done = n - 1 /\ new.state = "failed"
    <3>1. new = [state |-> "failed", done |-> n - 1, failed |-> MaxAttempts]
      BY <1>3 DEF Rows
    <3> QED BY <2>1, <3>1 DEF Rows
  <2> QED BY <2>1, <2>2 DEF Parsed
<1>4. \/ \E n \in silent : n + 1 \notin Silent /\
           new = [old EXCEPT !.done = n, !.state = IF n = Length THEN "done" ELSE @]
      \/ \E n \in silent \ {old.done} :
           new = [old EXCEPT !.done = n - 1, !.failed = MaxAttempts, !.state = "failed"]
  BY DEF Onward
<1> HIDE DEF silent
<1> QED BY <1>2, <1>3, <1>4

\* parse_pull_phase_result().
LEMMA ParseStep ==
    ASSUME NEW old \in Rows, NEW r \in Results, Accepts(old, r), NEW new \in Parse(old, r)
    PROVE  /\ new \in Rows /\ old.done <= new.done
           /\ \A i \in old.done + 1..new.done : i \in Silent \/ (i = r.step /\ Passing(r))
           /\ old.state = "failed" => new.state = "failed" \/ new.done = Length
           /\ old.state # "stopped" =>
                 /\ new.state # "stopped" /\ (Parsed(old) => Parsed(new))
                 /\ \A i \in Steps : Covers(r, i) => i <= new.done \/ new.state = "failed"
<1> USE PullAssumption
<1> DEFINE done == [old EXCEPT !.done = @ + 1]
<1>1. /\ old.done \in 0..Length /\ old.failed \in 0..MaxAttempts
      /\ old.state \in {"scheduled", "stopped", "failed", "done"}
      /\ r.step = old.done + 1 /\ r.step \in Steps /\ r.ok \in BOOLEAN
  BY DEF Rows, Accepts, Results
<1>2. done \in Rows /\ done.done = r.step /\ done.state = old.state
  BY <1>1 DEF Rows, Steps
<1>3. CASE ~Passing(r)
  <2>1. new = [old EXCEPT !.failed = @ + (IF @ < MaxAttempts THEN 1 ELSE 0),
                          !.state = IF old.failed + 1 >= MaxAttempts THEN "failed" ELSE @]
    BY <1>3 DEF Parse, Passing
  <2>2. /\ new \in Rows /\ new.done = old.done
        /\ new.state \in {old.state, "failed"}
    <3> DEFINE state == IF old.failed + 1 >= MaxAttempts THEN "failed" ELSE old.state
               failed == old.failed + (IF old.failed < MaxAttempts THEN 1 ELSE 0)
    <3>1. new = [state |-> state, done |-> old.done, failed |-> failed]
      BY <2>1 DEF Rows
    <3>2. failed \in 0..MaxAttempts /\ state \in {old.state, "failed"}
      BY <1>1
    <3> HIDE DEF state, failed
    <3> QED BY <1>1, <3>1, <3>2 DEF Rows
  <2> QED BY <1>1, <1>3, <2>2 DEF Parsed, Covers
<1>4. CASE Passing(r) /\ old.state # "stopped"
  <2>1. new \in Onward(done)
    BY <1>4 DEF Parse, Passing
  <2> HIDE DEF done
  <2>2. /\ new \in Rows /\ done.done <= new.done /\ Parsed(new)
        /\ done.done + 1..new.done \subseteq Silent
        /\ new.state \in {done.state, "failed"} \/ (new.state = "done" /\ new.done = Length)
        /\ new.state = "failed" \/
              \A i \in Steps : done.done + 1..i \subseteq Silent => i <= new.done
    BY <1>2, <2>1, OnwardStep
  <2>3. new.done \in Nat
    BY <2>2 DEF Rows
  <2>4. \A i \in old.done + 1..new.done : i \in done.done + 1..new.done \/ i = r.step
    BY <1>1, <1>2, <2>3
  <2> QED BY <1>1, <1>2, <1>4, <2>2, <2>3, <2>4 DEF Covers
<1>5. CASE Passing(r) /\ old.state = "stopped"
  <2>1. new = old \/ new = done
    BY <1>5 DEF Parse, Passing
  <2>2. \A i \in old.done + 1..old.done + 1 : i = r.step
    BY <1>1
  <2>3. new \in Rows /\ (new.done = old.done \/ new.done = old.done + 1)
    BY <1>1, <1>2, <2>1
  <2> QED BY <1>1, <1>5, <2>2, <2>3
<1> QED BY <1>3, <1>4, <1>5

\* What a result makes of its command, taken or not.
LEMMA TellMoves ==
    ASSUME RowsTyped, NEW r \in Results, NEW taken, Told(r, taken)
    PROVE  \E new \in Rows :
             /\ row' = [row EXCEPT ![r.cmd] = new]
             /\ row[r.cmd].done <= new.done
             /\ \A i \in row[r.cmd].done + 1..new.done :
                   i \in Silent \/ (i = r.step /\ Passing(r))
             /\ row[r.cmd].state = "failed" => new.state = "failed" \/ new.done = Length
             /\ row[r.cmd].state # "stopped" =>
                   /\ new.state # "stopped" /\ (Parsed(row[r.cmd]) => Parsed(new))
                   /\ taken => \A i \in Steps :
                         Covers(r, i) => i <= new.done \/ new.state = "failed"
<1> DEFINE x == row[r.cmd]
<1>1. r.cmd \in Commands /\ x \in Rows /\ x.done \in Nat
  BY DEF RowsTyped, Results, Rows
<1>2. PICK old \in Walked(x) :
        /\ taken = Accepts(old, r)
        /\ \E new \in IF taken THEN Parse(old, r) ELSE {old} : row' = [row EXCEPT ![r.cmd] = new]
  BY DEF Told
<1>3. PICK new \in IF taken THEN Parse(old, r) ELSE {old} : row' = [row EXCEPT ![r.cmd] = new]
  BY <1>2
<1>4. /\ old \in Rows /\ x.done <= old.done /\ x.done + 1..old.done \subseteq Silent
      /\ x.state # "stopped" => old.state # "stopped" /\ (Parsed(x) => Parsed(old))
      /\ x.state = "failed" => old.state = "failed"
  <2>1. CASE x.state = "scheduled"
    <3>1. old \in Onward(x)
      BY <1>2, <2>1 DEF Walked
    <3> HIDE DEF x
    <3>2. /\ old \in Rows /\ x.done <= old.done /\ Parsed(old)
          /\ x.done + 1..old.done \subseteq Silent
          /\ old.state \in {x.state, "failed"} \/ old.state = "done"
      BY <1>1, <3>1, OnwardStep
    <3> QED BY <2>1, <3>2
  <2>2. CASE x.state # "scheduled"
    <3>1. old = x
      BY <1>2, <2>2 DEF Walked
    <3> HIDE DEF x
    <3> QED BY <1>1, <3>1
  <2> QED BY <2>1, <2>2
<1> HIDE DEF x
<1>5. old.done \in Nat
  BY <1>4 DEF Rows
<1>6. CASE taken
  <2>1. Accepts(old, r) /\ new \in Parse(old, r)
    BY <1>2, <1>3, <1>6
  <2>2. /\ new \in Rows /\ old.done <= new.done
        /\ \A i \in old.done + 1..new.done : i \in Silent \/ (i = r.step /\ Passing(r))
        /\ old.state = "failed" => new.state = "failed" \/ new.done = Length
        /\ old.state # "stopped" =>
              /\ new.state # "stopped" /\ (Parsed(old) => Parsed(new))
              /\ \A i \in Steps : Covers(r, i) => i <= new.done \/ new.state = "failed"
    BY <1>4, <2>1, ParseStep
  <2>3. new.done \in Nat
    BY <2>2 DEF Rows
  <2>4. \A i \in x.done + 1..new.done : i \in x.done + 1..old.done \/ i \in old.done + 1..new.done
    BY <1>1, <1>5, <2>3
  <2>5. x.done <= new.done
    BY <1>1, <1>4, <1>5, <2>2, <2>3
  <2> QED BY <1>3, <1>4, <2>2, <2>4, <2>5 DEF x
<1>7. CASE ~taken
  <2>1. new = old
    BY <1>3, <1>7
  <2> QED BY <1>3, <1>4, <1>7, <2>1 DEF x
<1> QED BY <1>6, <1>7

LEMMA TypeStep ==
    ASSUME IInv, Next
    PROVE  TypeOK'
<1> USE PullAssumption
<1> DEFINE Goal == (RowsTyped /\ TasksTyped /\ QueuesTyped /\ OthersTyped)'
<1> SUFFICES Goal
  BY TypeParts DEF TypeOK, RowsTyped, TasksTyped, QueuesTyped, OthersTyped, Rows, Tasks,
              Holders, Blames, Places
<1>0. RowsTyped /\ TasksTyped /\ QueuesTyped /\ OthersTyped
  BY TypeParts DEF IInv
<1>1. CASE Start \/ Stop
  BY <1>0, <1>1 DEF Start, Stop, RowsTyped, TasksTyped, QueuesTyped, OthersTyped, Places,
                   histories, Bounded
<1>2. CASE Restore
  <2>1. QueuesTyped'
    <3>1. result_queue \o saved \in Seq(Results) /\ <<>> \in Seq(Results)
      BY <1>0, ConcatProperties DEF QueuesTyped
    <3> QED BY <1>0, <1>2, <3>1 DEF Restore, QueuesTyped
  <2> QED BY <1>0, <1>2, <2>1 DEF Restore, RowsTyped, TasksTyped, OthersTyped, Places, Blames,
                                 Bounded
<1>3. CASE SaveState \/ Crash
  <2>1. QueuesTyped'
    <3>1. worker' \in [ResultWorkers -> Holders]
      BY <1>3 DEF SaveState, Crash, Ended, Idle, Holders
    <3>2. result_queue' \in Seq(Results) /\ retry_queue' \in Seq(Results)
      <4>1. result_queue' = <<>> /\ retry_queue' = <<>>
        BY <1>3 DEF SaveState, Crash, Ended
      <4> QED BY <4>1
    <3>3. saved' \in Seq(Results)
      <4>1. retry_queue \o result_queue \in Seq(Results)
        BY <1>0, ConcatProperties DEF QueuesTyped
      <4> QED BY <1>0, <1>3, <4>1 DEF SaveState, Crash, QueuesTyped
    <3> QED BY <3>1, <3>2, <3>3 DEF QueuesTyped
  <2>2. RowsTyped' /\ TasksTyped'
    BY <1>0, <1>3 DEF SaveState, Crash, Ended, RowsTyped, TasksTyped, Tasks, NoSteps
  <2>3. OthersTyped'
    <3>1. CASE SaveState
      BY <1>0, <3>1 DEF SaveState, Ended, OthersTyped, Places, Bounded, histories
    <3>2. CASE Crash
      <4>1. /\ faults' \in 0..MaxFaults /\ blame' \subseteq Blames
            /\ ops' = ops /\ failures' = failures
        BY <1>0, <3>2, FaultTyped DEF Crash, Blames
      <4> QED BY <1>0, <3>2, <4>1 DEF Crash, Ended, OthersTyped, Places
    <3> QED BY <1>3, <3>1, <3>2
  <2> QED BY <2>1, <2>2, <2>3
<1>4. ASSUME NEW c \in Commands, Agent(c) PROVE Goal
  <2>1. RowsTyped'
    BY <1>0, <1>4 DEF Agent, RowsTyped, Rows
  <2>2. TasksTyped' /\ QueuesTyped'
    BY <1>0, <1>4 DEF Agent, clientVars, TasksTyped, QueuesTyped
  <2>3. OthersTyped'
    <3>1. ops' \in 0..MaxOps
      BY <1>0, <1>4 DEF Agent, OthersTyped
    <3>2. blame' \subseteq Blames
      BY <1>0, <1>4 DEF Agent, OthersTyped, Blames
    <3> QED BY <1>0, <1>4, <3>1, <3>2 DEF Agent, clientVars, OthersTyped
  <2> QED BY <2>1, <2>2, <2>3
<1>5. ASSUME NEW c \in Commands, Poll(c) PROVE Goal
  <2>1. TasksTyped'
    BY <1>0, <1>5 DEF Poll, TasksTyped, RowsTyped, Rows, Tasks
  <2> QED BY <1>0, <1>5, <2>1 DEF Poll, RowsTyped, QueuesTyped, OthersTyped, Blames, Bounded
<1>6. ASSUME NEW c \in Commands, NextStep(c) PROVE Goal
  <2>1. ~ToDoEmpty(c) => commands[c].step + 1 \in 0..Length
    BY <1>0 DEF ToDoEmpty, TasksTyped, Tasks
  <2>2. PICK new \in Tasks : commands' = [commands EXCEPT ![c] = new]
    <3>1. commands[c] \in Tasks
      BY <1>0 DEF TasksTyped
    <3>2. /\ [commands[c] EXCEPT !.state = "done", !.at = "idle"] \in Tasks
          /\ [commands[c] EXCEPT !.state = "stopped", !.at = "idle"] \in Tasks
          /\ ~ToDoEmpty(c) => [commands[c] EXCEPT !.at = "queued", !.step = @ + 1] \in Tasks
      BY <2>1, <3>1 DEF Tasks
    <3> QED BY <1>6, <3>2 DEF NextStep, Set
  <2>3. TasksTyped'
    BY <1>0, <2>2 DEF TasksTyped
  <2>4. RowsTyped' /\ QueuesTyped'
    BY <1>0, <1>6 DEF NextStep, RowsTyped, QueuesTyped
  <2>5. OthersTyped'
    <3>1. /\ faults' \in 0..MaxFaults /\ blame' \subseteq Blames
          /\ ops' = ops /\ failures' = failures
      <4>1. CASE Fault("outage")
        BY <1>0, <4>1, FaultTyped DEF Blames
      <4>2. CASE UNCHANGED <<Bounded, blame>>
        BY <1>0, <4>2 DEF Bounded, OthersTyped
      <4> QED BY <1>6, <4>1, <4>2 DEF NextStep
    <3> QED BY <1>0, <1>6, <3>1 DEF NextStep, OthersTyped
  <2> QED BY <2>3, <2>4, <2>5
<1>7. ASSUME NEW c \in Commands, StepStart(c) PROVE Goal
  <2>1. TasksTyped'
    BY <1>0, <1>7 DEF StepStart, Set, TasksTyped, Tasks
  <2> QED BY <1>0, <1>7, <2>1 DEF StepStart, RowsTyped, QueuesTyped, OthersTyped, Bounded,
                                 histories
<1>8. ASSUME NEW c \in Commands, NEW ok \in BOOLEAN, StepEnd(c, ok) PROVE Goal
  <2>1. commands[c].step \in Steps
    BY <1>0, <1>8 DEF StepEnd, IInv, Placed, TasksTyped, Tasks, Steps
  <2>2. TasksTyped'
    <3>1. commands[c] \in Tasks
      BY <1>0 DEF TasksTyped
    <3>2. /\ [commands[c] EXCEPT !.at = "next"] \in Tasks
          /\ [commands[c] EXCEPT !.state = "failed", !.at = "idle"] \in Tasks
      BY <3>1 DEF Tasks
    <3> QED BY <1>0, <1>8, <3>2 DEF StepEnd, Set, TasksTyped
  <2>3. [cmd |-> c, step |-> commands[c].step, ok |-> ok, run |-> runs + 1] \in Results
    BY <1>0, <2>1 DEF Results, OthersTyped
  <2>4. QueuesTyped'
    BY <1>0, <1>8, <2>3, AppendProperties DEF StepEnd, QueuesTyped
  <2>5. ended' \subseteq Commands \X Steps \X BOOLEAN /\ again' \in BOOLEAN
    BY <1>0, <1>8, <2>1 DEF StepEnd, OthersTyped, Passed
  <2>6. failures' \in 0..MaxFailures
    BY <1>0, <1>8 DEF StepEnd, OthersTyped
  <2>7. /\ runs' \in Nat /\ last' \in 0..runs'
        /\ UNCHANGED <<poller, start_polling, ops, faults, blame>>
    BY <1>0, <1>8 DEF StepEnd, OthersTyped
  <2>8. OthersTyped'
    BY <1>0, <2>5, <2>6, <2>7 DEF OthersTyped
  <2> QED BY <1>0, <1>8, <2>2, <2>4, <2>8 DEF StepEnd, RowsTyped
<1>9. ASSUME NEW w \in ResultWorkers, Take(w) PROVE Goal
  <2>1. QueuesTyped'
    <3>1. CASE retry_queue # <<>>
      <4>1. Head(retry_queue) \in Results /\ Tail(retry_queue) \in Seq(Results)
        BY <1>0, <3>1, ElementsOfTail DEF QueuesTyped
      <4>2. [pc |-> "send", result |-> Head(retry_queue)] \in Holders
        BY <4>1 DEF Holders
      <4> QED BY <1>0, <1>9, <3>1, <4>1, <4>2 DEF Take, Worker, QueuesTyped
    <3>2. CASE retry_queue = <<>>
      <4>1. Head(result_queue) \in Results /\ Tail(result_queue) \in Seq(Results)
        <5>1. result_queue # <<>>
          BY <1>9, <3>2 DEF Take
        <5> QED BY <1>0, <5>1, ElementsOfTail DEF QueuesTyped
      <4>2. [pc |-> "send", result |-> Head(result_queue)] \in Holders
        BY <4>1 DEF Holders
      <4> QED BY <1>0, <1>9, <3>2, <4>1, <4>2 DEF Take, Worker, QueuesTyped
    <3> QED BY <3>1, <3>2
  <2> QED BY <1>0, <1>9, <2>1 DEF Take, RowsTyped, TasksTyped, OthersTyped, Bounded, histories
<1>10. ASSUME NEW w \in ResultWorkers, Empty(w) PROVE Goal
  <2>1. QueuesTyped'
    <3>1. /\ [pc |-> "empty", result |-> Nothing] \in Holders
          /\ [pc |-> "loop", result |-> Nothing] \in Holders
      BY DEF Holders
    <3> QED BY <1>0, <1>10, <3>1 DEF Empty, Worker, QueuesTyped
  <2> QED BY <1>0, <1>10, <2>1 DEF Empty, RowsTyped, TasksTyped, OthersTyped, Bounded, histories
<1>11. ASSUME NEW w \in ResultWorkers, Sent(w) \/ AnswerLost(w) \/ NotSent(w) PROVE Goal
  <2> DEFINE r == worker[w].result
  <2>1. worker[w].pc = "send" /\ r \in Results /\ r \in Known
    BY <1>0, <1>11, HoldersWell DEF Sent, AnswerLost, NotSent, QueuesTyped, Known, Unsent
  <2>2. r.run \in 0..runs /\ r.cmd \in Commands
    <3>1. r.run <= runs
      BY <2>1 DEF IInv, Truthful
    <3>2. r.run \in Nat /\ r.cmd \in Commands /\ runs \in Nat
      BY <1>0, <2>1 DEF Results, OthersTyped
    <3> QED BY <3>1, <3>2
  <2>3. QueuesTyped'
    <3>1. worker' \in [ResultWorkers -> Holders]
      <4>1. [pc |-> "loop", result |-> Nothing] \in Holders
        BY DEF Holders
      <4> QED BY <1>0, <1>11, <4>1 DEF Sent, AnswerLost, NotSent, Again, Worker, QueuesTyped
    <3>2. retry_queue' \in Seq(Results)
      <4>1. Append(retry_queue, r) \in Seq(Results)
        BY <1>0, <2>1, AppendProperties DEF QueuesTyped
      <4> QED BY <1>0, <1>11, <4>1 DEF Sent, AnswerLost, NotSent, Again, QueuesTyped
    <3> QED BY <1>0, <1>11, <3>1, <3>2 DEF Sent, AnswerLost, NotSent, Rest, QueuesTyped
  <2>4. RowsTyped'
    <3>1. CASE row' = row
      BY <1>0, <3>1 DEF RowsTyped
    <3>2. ASSUME NEW taken \in BOOLEAN, Told(r, taken) PROVE RowsTyped'
      <4> HIDE DEF r
      <4>1. PICK new \in Rows : row' = [row EXCEPT ![r.cmd] = new]
        BY <1>0, <2>1, <3>2, TellMoves
      <4> QED BY <1>0, <4>1 DEF RowsTyped
    <3> QED BY <1>11, <3>1, <3>2 DEF Sent, AnswerLost, NotSent
  <2>5. TasksTyped'
    BY <1>0, <1>11 DEF Sent, AnswerLost, NotSent, Rest, TasksTyped
  <2>6. OthersTyped'
    <3>1. poller' = poller /\ start_polling' = start_polling /\ runs' = runs
      BY <1>11 DEF Sent, AnswerLost, NotSent, Rest
    <3>2. UNCHANGED <<ended, again>> /\ ops' = ops /\ failures' = failures
      BY <1>11 DEF Sent, AnswerLost, NotSent, Rest, Bounded, Fault
    <3>3. faults' \in 0..MaxFaults /\ blame' \subseteq Blames
      <4>1. CASE Fault("answer")
        BY <1>0, <4>1, FaultTyped DEF Blames
      <4>2. CASE UNCHANGED <<Bounded, blame>>
        BY <1>0, <4>2 DEF Bounded, OthersTyped
      <4> QED BY <1>11, <4>1, <4>2 DEF Sent, AnswerLost, NotSent
    <3>4. last' \in 0..runs
      BY <1>0, <1>11, <2>2 DEF Sent, AnswerLost, NotSent, Told, OthersTyped
    <3> QED BY <1>0, <3>1, <3>2, <3>3, <3>4 DEF OthersTyped
  <2> QED BY <2>3, <2>4, <2>5, <2>6
<1> QED BY <1>1, <1>2, <1>3, <1>4, <1>5, <1>6, <1>7, <1>8, <1>9, <1>10, <1>11 DEF Next

-----------------------------------------------------------------------------
(* Where results go: nothing is made up, and what leaves was told. *)

LEMMA Quiet ==
    ASSUME UNCHANGED <<worker, result_queue, retry_queue>>
    PROVE  Unsent' = Unsent
<1> QED BY DEF Unsent

LEMMA RestoreMoves ==
    ASSUME TypeOK, Restore
    PROVE  Known' \subseteq Known /\ Held \subseteq Held'
<1>1. CASE poller = "boot" /\ saved # <<>>
  <2>1. /\ poller' = "restored" /\ result_queue' = result_queue \o saved
        /\ UNCHANGED <<saved, worker, retry_queue>>
    BY <1>1 DEF Restore
  <2>2. ToSet(result_queue') = ToSet(result_queue) \cup ToSet(saved)
    <3>1. result_queue \in Seq(Results) /\ saved \in Seq(Results)
      BY DEF TypeOK
    <3>2. ToSet(result_queue \o saved) = ToSet(result_queue) \cup ToSet(saved)
      BY <3>1, ElementsOfConcat
    <3> QED BY <2>1, <3>2
  <2>3. Unsent' = Unsent \cup ToSet(saved)
    BY <2>1, <2>2 DEF Unsent
  <2> QED BY <1>1, <2>1, <2>3 DEF Known, Held
<1>2. CASE poller = "restored"
  <2>1. saved' = <<>> /\ poller' = "waiting" /\ UNCHANGED <<worker, result_queue, retry_queue>>
    BY <1>2 DEF Restore
  <2> QED BY <1>2, <2>1, Quiet, ElementsOfEmpty DEF Known, Held
<1>3. CASE (poller = "boot" /\ saved = <<>>) \/ poller = "waiting"
  <2>1. poller' = "polling" /\ UNCHANGED <<saved, worker, result_queue, retry_queue>>
    BY <1>3 DEF Restore
  <2> QED BY <1>3, <2>1, Quiet, ElementsOfEmpty DEF Known, Held
<1> QED BY <1>1, <1>2, <1>3 DEF Restore

\* What ended holds nothing.
LEMMA EndedMoves ==
    ASSUME Ended
    PROVE  Unsent' = {} /\ poller' = "down"
<1>1. ToSet(result_queue') = {} /\ ToSet(retry_queue') = {}
  BY ElementsOfEmpty DEF Ended
<1>2. \A w \in ResultWorkers : worker'[w].pc = "loop"
  BY DEF Ended, Idle
<1> QED BY <1>1, <1>2 DEF Unsent, Ended

LEMMA SaveMoves ==
    ASSUME TypeOK, SaveState
    PROVE  Known' \subseteq Known /\ Held \subseteq Held'
<1>1. saved' = retry_queue \o result_queue /\ poller = "stopping" /\ Ended
  BY DEF SaveState
<1>2. ToSet(saved') = ToSet(retry_queue) \cup ToSet(result_queue)
  BY <1>1, ElementsOfConcat DEF TypeOK
<1>3. Unsent = ToSet(retry_queue) \cup ToSet(result_queue)
  BY DEF SaveState, Unsent
<1> QED BY <1>1, <1>2, <1>3, EndedMoves DEF Known, Held

LEMMA CrashMoves ==
    ASSUME Crash
    PROVE  Known' \subseteq Known
<1>1. Unsent' = {} /\ saved' = saved
  BY EndedMoves DEF Crash
<1> QED BY <1>1 DEF Known

LEMMA StepEndMoves ==
    ASSUME TypeOK, NEW c \in Commands, NEW ok \in BOOLEAN, StepEnd(c, ok), commands[c].step \in Steps
    PROVE  Unsent' = Unsent \cup
             (IF commands[c].step \in Silent THEN {}
              ELSE {[cmd |-> c, step |-> commands[c].step, ok |-> ok, run |-> runs + 1]})
<1> DEFINE r == [cmd |-> c, step |-> commands[c].step, ok |-> ok, run |-> runs + 1]
<1>1. r \in Results
  <2>1. runs \in Nat
    BY DEF TypeOK
  <2> QED BY <2>1 DEF Results
<1>2. /\ UNCHANGED <<worker, retry_queue>>
      /\ result_queue' = IF commands[c].step \in Silent THEN result_queue
                         ELSE Append(result_queue, r)
  BY DEF StepEnd
<1> HIDE DEF r
<1>3. ToSet(Append(result_queue, r)) = ToSet(result_queue) \cup {r}
  <2>1. result_queue \in Seq(Results)
    BY DEF TypeOK
  <2> QED BY <1>1, <2>1, ElementsOfAppend
<1>4. Unsent' = Unsent \cup (IF commands[c].step \in Silent THEN {} ELSE {r})
  BY <1>2, <1>3 DEF Unsent
<1> QED BY <1>4 DEF r

LEMMA TakeMoves ==
    ASSUME TypeOK, NEW w \in ResultWorkers, Take(w)
    PROVE  Unsent' = Unsent
<1>1. ASSUME NEW q \in Seq(Results), q # <<>>, Worker(w, "send", Head(q))
      PROVE  /\ ToSet(q) = {Head(q)} \cup ToSet(Tail(q))
             /\ Sending' = Sending \cup {Head(q)}
  <2>1. Head(q) \in Results /\ ToSet(q) = {Head(q)} \cup ToSet(Tail(q))
    BY <1>1, ElementsOfTail
  <2>2. [pc |-> "send", result |-> Head(q)] \in Holders
    BY <2>1 DEF Holders
  <2>3. worker[w].pc # "send"
    BY DEF Take
  <2>4. /\ Sending' \subseteq Sending \cup {Head(q)} /\ Head(q) \in Sending'
        /\ Sending \subseteq Sending'
    BY <1>1, <2>2, <2>3, WorkerMoves
  <2> QED BY <2>1, <2>4
<1>2. Unsent = Sending \cup ToSet(result_queue) \cup ToSet(retry_queue)
  BY DEF Unsent, Sending
<1>3. Unsent' = Sending' \cup ToSet(result_queue') \cup ToSet(retry_queue')
  BY DEF Unsent, Sending
<1>4. CASE retry_queue # <<>>
  <2>1. /\ Worker(w, "send", Head(retry_queue))
        /\ retry_queue' = Tail(retry_queue) /\ result_queue' = result_queue
    BY <1>4 DEF Take
  <2>2. /\ ToSet(retry_queue) = {Head(retry_queue)} \cup ToSet(retry_queue')
        /\ Sending' = Sending \cup {Head(retry_queue)}
    BY <1>1, <1>4, <2>1 DEF TypeOK
  <2> QED BY <1>2, <1>3, <2>1, <2>2
<1>5. CASE retry_queue = <<>>
  <2>1. /\ Worker(w, "send", Head(result_queue)) /\ result_queue # <<>>
        /\ result_queue' = Tail(result_queue) /\ retry_queue' = retry_queue
    BY <1>5 DEF Take
  <2>2. /\ ToSet(result_queue) = {Head(result_queue)} \cup ToSet(result_queue')
        /\ Sending' = Sending \cup {Head(result_queue)}
    BY <1>1, <2>1 DEF TypeOK
  <2> QED BY <1>2, <1>3, <2>1, <2>2
<1> QED BY <1>4, <1>5

LEMMA EmptyMoves ==
    ASSUME TypeOK, NEW w \in ResultWorkers, Empty(w)
    PROVE  Unsent' = Unsent
<1>1. PICK pc \in {"empty", "loop"} : Worker(w, pc, Nothing)
  BY DEF Empty
<1>2. [pc |-> pc, result |-> Nothing] \in Holders /\ worker[w].pc # "send"
  BY DEF Holders, Empty
<1>3. Sending' = Sending
  BY <1>1, <1>2, WorkerMoves
<1>4. result_queue' = result_queue /\ retry_queue' = retry_queue
  BY DEF Empty
<1> QED BY <1>3, <1>4 DEF Unsent, Sending

LEMMA SendMoves ==
    ASSUME TypeOK, NEW w \in ResultWorkers, worker[w].pc = "send",
           Worker(w, "loop", Nothing), result_queue' = result_queue
    PROVE  /\ worker[w].result \in Unsent /\ worker[w].result \in Results
           /\ retry_queue' = retry_queue =>
                 /\ Unsent' \subseteq Unsent
                 /\ Unsent \subseteq Unsent' \cup {worker[w].result}
           /\ Again(w) => Unsent' = Unsent
<1> DEFINE r == worker[w].result
<1>1. r \in Unsent /\ r \in Sending /\ r \in Results
  <2>1. r \in Unsent /\ r \in Sending
    BY DEF Unsent, Sending
  <2> QED BY <2>1, KnownTyped DEF Known
<1>2. [pc |-> "loop", result |-> Nothing] \in Holders
  BY DEF Holders
<1>3. Sending' \subseteq Sending /\ Sending \subseteq Sending' \cup {r}
  BY <1>2, WorkerMoves
<1>4. Unsent = Sending \cup ToSet(result_queue) \cup ToSet(retry_queue)
  BY DEF Unsent, Sending
<1>5. Unsent' = Sending' \cup ToSet(result_queue') \cup ToSet(retry_queue')
  BY DEF Unsent, Sending
<1>6. ASSUME retry_queue' = retry_queue
      PROVE  Unsent' \subseteq Unsent /\ Unsent \subseteq Unsent' \cup {r}
  BY <1>3, <1>4, <1>5, <1>6
<1>7. ASSUME Again(w) PROVE Unsent' = Unsent
  <2>1. retry_queue' = Append(retry_queue, r)
    BY <1>7 DEF Again
  <2>2. ToSet(retry_queue') = ToSet(retry_queue) \cup {r}
    <3>1. retry_queue \in Seq(Results)
      BY DEF TypeOK
    <3>2. ToSet(Append(retry_queue, r)) = ToSet(retry_queue) \cup {r}
      BY <1>1, <3>1, ElementsOfAppend
    <3> QED BY <2>1, <3>2
  <2> QED BY <1>1, <1>3, <1>4, <1>5, <2>2
<1> QED BY <1>1, <1>6, <1>7

-----------------------------------------------------------------------------
(* Every step keeps the rest of the invariant. *)

\* Steps that leave rows and histories alone, whatever becomes of the results.
LEMMA TruthKept ==
    ASSUME IInv, Known' \subseteq Known, UNCHANGED <<row, runs, ended, again>>
    PROVE  Truthful' /\ Deserved'
<1> QED BY DEF IInv, Truthful, Deserved, Passed

LEMMA TruthStep ==
    ASSUME IInv, Next
    PROVE  Truthful' /\ Deserved'
<1>0. /\ TypeOK /\ Truthful /\ Deserved
      /\ RowsTyped /\ TasksTyped /\ OthersTyped
  BY TypeParts DEF IInv
<1>1. CASE Restore \/ SaveState \/ Crash
  <2>1. Known' \subseteq Known
    BY <1>0, <1>1, RestoreMoves, SaveMoves, CrashMoves
  <2>2. UNCHANGED <<row, runs, ended, again>>
    BY <1>1 DEF Restore, SaveState, Crash, histories
  <2> QED BY <2>1, <2>2, TruthKept
<1>2. CASE Start \/ Stop \/ \E c \in Commands : Poll(c) \/ NextStep(c) \/ StepStart(c)
  <2>1. UNCHANGED <<worker, result_queue, retry_queue, saved, row, runs, ended, again>>
    BY <1>2 DEF Start, Stop, Poll, NextStep, StepStart, histories
  <2>2. Known' \subseteq Known
    BY <2>1, Quiet DEF Known
  <2> QED BY <2>1, <2>2, TruthKept
<1>3. ASSUME NEW c \in Commands, Agent(c) PROVE Truthful' /\ Deserved'
  <2>1. UNCHANGED <<worker, result_queue, retry_queue, saved, runs, ended, again>>
    BY <1>3 DEF Agent, clientVars
  <2>2. Known' = Known
    BY <2>1, Quiet DEF Known
  <2>3. \A d \in Commands : row'[d].done = row[d].done
    BY <1>0, <1>3 DEF Agent, RowsTyped, Rows
  <2> QED BY <1>0, <2>1, <2>2, <2>3 DEF Truthful, Deserved, Passed
<1>4. ASSUME NEW c \in Commands, NEW ok \in BOOLEAN, StepEnd(c, ok) PROVE Truthful' /\ Deserved'
  <2> DEFINE r == [cmd |-> c, step |-> commands[c].step, ok |-> ok, run |-> runs + 1]
  <2>1. commands[c].step \in Steps
    BY <1>0, <1>4 DEF StepEnd, IInv, Placed, TasksTyped, Tasks, Steps
  <2>2. Known' \subseteq Known \cup {r}
    <3>1. Unsent' \subseteq Unsent \cup {r} /\ saved' = saved
      BY <1>0, <1>4, <2>1, StepEndMoves DEF StepEnd
    <3> QED BY <3>1 DEF Known
  <2>3. /\ runs' = runs + 1 /\ runs \in Nat /\ row' = row
        /\ ended' = ended \cup {<<c, commands[c].step, ok>>}
    BY <1>0, <1>4 DEF StepEnd, OthersTyped
  <2>4. ASSUME NEW q \in Known' PROVE q.run <= runs' /\ <<q.cmd, q.step, q.ok>> \in ended'
    <3>1. CASE q \in Known
      <4>1. q.run <= runs /\ q.run \in Nat
        BY <1>0, <3>1, KnownTyped DEF Truthful, Results
      <4> QED BY <1>0, <2>3, <3>1, <4>1 DEF Truthful
    <3>2. CASE q = r
      BY <2>3, <3>2
    <3> QED BY <2>2, <2>4, <3>1, <3>2
  <2>5. Truthful'
    BY <2>4 DEF Truthful
  <2>6. Deserved'
    BY <1>0, <2>3 DEF Deserved, Passed
  <2> QED BY <2>5, <2>6
<1>5. ASSUME NEW w \in ResultWorkers, Take(w) \/ Empty(w) PROVE Truthful' /\ Deserved'
  <2>1. UNCHANGED <<row, runs, ended, again, saved>>
    BY <1>5 DEF Take, Empty, histories
  <2>2. Known' \subseteq Known
    BY <1>0, <1>5, <2>1, TakeMoves, EmptyMoves DEF Known
  <2> QED BY <2>1, <2>2, TruthKept
<1>6. ASSUME NEW w \in ResultWorkers, Sent(w) \/ AnswerLost(w) \/ NotSent(w)
      PROVE  Truthful' /\ Deserved'
  <2> DEFINE r == worker[w].result
  <2>1. /\ worker[w].pc = "send" /\ Worker(w, "loop", Nothing)
        /\ UNCHANGED <<result_queue, saved, runs, ended, again>>
        /\ retry_queue' = retry_queue \/ Again(w)
    BY <1>6 DEF Sent, AnswerLost, NotSent, Again, Rest
  <2>2. r \in Unsent /\ r \in Results /\ Unsent' \subseteq Unsent
    BY <1>0, <2>1, SendMoves
  <2>3. Known' \subseteq Known /\ r \in Known
    BY <2>1, <2>2 DEF Known
  <2>4. Truthful'
    BY <1>0, <2>1, <2>3 DEF Truthful
  <2>5. Deserved'
    <3>1. CASE row' = row
      BY <1>0, <2>1, <3>1 DEF Deserved, Passed
    <3>2. ASSUME NEW taken \in BOOLEAN, Told(r, taken) PROVE Deserved'
      <4>1. r.cmd \in Commands /\ row[r.cmd].done \in Nat /\ r.ok \in BOOLEAN
        BY <1>0, <2>2 DEF RowsTyped, Rows, Results
      <4>2. <<r.cmd, r.step, r.ok>> \in ended
        BY <1>0, <2>3 DEF Truthful
      <4> HIDE DEF r
      <4>3. PICK new \in Rows :
              /\ row' = [row EXCEPT ![r.cmd] = new]
              /\ \A i \in row[r.cmd].done + 1..new.done :
                    i \in Silent \/ (i = r.step /\ Passing(r))
        BY <1>0, <2>2, <3>2, TellMoves
      <4>4. /\ row'[r.cmd] = new
            /\ \A c \in Commands : c # r.cmd => row'[c] = row[c]
        BY <1>0, <4>1, <4>3 DEF RowsTyped
      <4>5. Passing(r) => Passed(r.cmd, r.step)
        BY <4>1, <4>2 DEF Passing, Passed
      <4>6. ASSUME NEW c \in Commands, NEW i \in 1..row'[c].done
            PROVE  i \in Silent \/ Passed(c, i)
        <5>1. CASE i \in 1..row[c].done
          BY <1>0, <5>1 DEF Deserved
        <5>2. CASE i \notin 1..row[c].done
          <6>1. c = r.cmd /\ new.done \in Nat
            BY <4>4, <4>6, <5>2 DEF Rows
          <6>2. i \in row[r.cmd].done + 1..new.done
            BY <4>1, <4>4, <5>2, <6>1
          <6> QED BY <4>3, <4>5, <6>1, <6>2
        <5> QED BY <5>1, <5>2
      <4>7. ended' = ended
        BY <2>1
      <4> QED BY <4>6, <4>7 DEF Deserved, Passed
    <3> QED BY <1>6, <3>1, <3>2 DEF Sent, AnswerLost, NotSent
  <2> QED BY <2>4, <2>5
<1> QED BY <1>1, <1>2, <1>3, <1>4, <1>5, <1>6 DEF Next

LEMMA PlacedStep ==
    ASSUME IInv, Next
    PROVE  Placed'
<1>0. TypeOK /\ Placed /\ RowsTyped /\ TasksTyped
  BY TypeParts DEF IInv
<1>1. poller' \in {"waiting", "polling", "stopping"} => saved' = <<>>
  <2>1. CASE Restore \/ SaveState \/ Crash
    BY <1>0, <2>1 DEF Restore, SaveState, Crash, Ended, Placed
  <2>2. CASE Start \/ Stop
    BY <1>0, <2>2 DEF Start, Stop, Placed
  <2>3. CASE \E c \in Commands :
               \/ Agent(c) \/ Poll(c) \/ NextStep(c) \/ StepStart(c)
               \/ \E ok \in BOOLEAN : StepEnd(c, ok)
    BY <1>0, <2>3 DEF Agent, Poll, NextStep, StepStart, StepEnd, Placed, clientVars
  <2>4. CASE \E w \in ResultWorkers :
               Take(w) \/ Empty(w) \/ Sent(w) \/ AnswerLost(w) \/ NotSent(w)
    BY <1>0, <2>4 DEF Take, Empty, Sent, AnswerLost, NotSent, Rest, Placed
  <2> QED BY <2>1, <2>2, <2>3, <2>4 DEF Next
<1>2. ASSUME NEW c \in Commands, commands'[c].at \in {"queued", "running"}
      PROVE  commands'[c].step > 0
  <2>1. CASE commands' = commands
    BY <1>0, <1>2, <2>1 DEF Placed
  <2>2. CASE SaveState \/ Crash
    BY <1>2, <2>2 DEF SaveState, Crash, Ended, NoSteps
  <2>3. ASSUME NEW d \in Commands,
               \/ Poll(d) \/ NextStep(d) \/ StepStart(d)
               \/ \E ok \in BOOLEAN : StepEnd(d, ok)
        PROVE  commands'[c].step > 0
    <3>1. CASE c # d
      <4>1. commands'[c] = commands[c]
        BY <1>0, <2>3, <3>1 DEF Poll, NextStep, StepStart, StepEnd, Set, TypeOK
      <4> QED BY <1>0, <1>2, <4>1 DEF Placed
    <3>2. CASE c = d
      <4>1. commands[c].step \in Nat
        BY <1>0 DEF TasksTyped, Tasks
      <4>2. CASE Poll(c) \/ \E ok \in BOOLEAN : StepEnd(c, ok)
        <5>1. commands[c] \in Tasks
          BY <1>0 DEF TasksTyped
        <5>2. /\ [commands[c] EXCEPT !.at = "next"].at = "next"
              /\ [commands[c] EXCEPT !.state = "failed", !.at = "idle"].at = "idle"
          BY <5>1 DEF Tasks
        <5>3. PICK new : commands' = [commands EXCEPT ![c] = new] /\ new.at \in {"next", "idle"}
          <6>1. CASE Poll(c)
            <7> DEFINE new == [state |-> "running", at |-> "next", step |-> row[c].done]
            <7>1. commands' = [commands EXCEPT ![c] = new] /\ new.at = "next"
              BY <6>1 DEF Poll
            <7> QED BY <7>1
          <6>2. ASSUME NEW ok \in BOOLEAN, StepEnd(c, ok)
                PROVE  \E new : /\ commands' = [commands EXCEPT ![c] = new]
                                /\ new.at \in {"next", "idle"}
            BY <5>2, <6>2 DEF StepEnd, Set
          <6> QED BY <4>2, <6>1, <6>2
        <5>4. commands'[c].at \in {"next", "idle"}
          BY <1>0, <5>3 DEF TasksTyped
        <5> QED BY <1>2, <5>4
      <4>3. CASE NextStep(c)
        <5>1. CASE commands' = [commands EXCEPT ![c] =
                                  [commands[c] EXCEPT !.at = "queued", !.step = @ + 1]]
          BY <1>0, <4>1, <5>1 DEF TasksTyped, Tasks
        <5>2. CASE commands'[c].at = "idle"
          BY <1>2, <3>2, <5>2
        <5> QED BY <1>0, <4>3, <5>1, <5>2 DEF NextStep, Set, TasksTyped, Tasks
      <4>4. CASE StepStart(c)
        BY <1>0, <1>2, <4>1, <4>4 DEF StepStart, Set, TasksTyped, Tasks, Placed
      <4> QED BY <2>3, <3>2, <4>2, <4>3, <4>4
    <3> QED BY <3>1, <3>2
  <2> QED BY <2>1, <2>2, <2>3 DEF Next, Start, Stop, Restore, Agent, clientVars,
                                  Take, Empty, Sent, AnswerLost, NotSent, Rest
<1> QED BY <1>1, <1>2 DEF Placed

-----------------------------------------------------------------------------
(* Nothing the client went on from is forgotten, and none is repeated. *)

LEMMA BlameGrows ==
    ASSUME Next
    PROVE  blame \subseteq blame'
<1>1. CASE Start \/ Restore \/ Stop \/ SaveState \/ Crash
  BY <1>1 DEF Start, Restore, Stop, SaveState, Crash, Fault, histories
<1>2. ASSUME NEW c \in Commands,
             \/ Agent(c) \/ Poll(c) \/ NextStep(c) \/ StepStart(c)
             \/ \E ok \in BOOLEAN : StepEnd(c, ok)
      PROVE  blame \subseteq blame'
  BY <1>2 DEF Agent, Poll, NextStep, StepStart, StepEnd, Fault, histories
<1>3. ASSUME NEW w \in ResultWorkers,
             Take(w) \/ Empty(w) \/ Sent(w) \/ AnswerLost(w) \/ NotSent(w)
      PROVE  blame \subseteq blame'
  BY <1>3 DEF Take, Empty, Sent, AnswerLost, NotSent, Rest, Fault, histories
<1> QED BY <1>1, <1>2, <1>3 DEF Next

\* Steps that leave rows and histories alone and keep the results.
LEMMA FreshKept ==
    ASSUME Fresh, Sound, Held \subseteq Held', UNCHANGED <<row, ended, again>>,
           \A c \in Commands, i \in Steps :
              /\ Passed(c, i) /\ Ahead(c, i) => Ahead(c, i)'
              /\ Beyond(c, i)' => Beyond(c, i) \/ Recorded(c, i)
    PROVE  Fresh'
<1>1. /\ ~again'
      /\ \A c \in Commands : row'[c].state # "stopped" /\ Parsed(row'[c])
  BY DEF Fresh
<1>2. ASSUME NEW c \in Commands, NEW i \in Steps
      PROVE  /\ Passed(c, i)' => Recorded(c, i)' /\ Ahead(c, i)'
             /\ Beyond(c, i)' => Recorded(c, i)'
  <2>1. Passed(c, i)' => Passed(c, i)
    BY DEF Passed
  <2>2. Recorded(c, i) => Recorded(c, i)'
    BY DEF Recorded
  <2>3. (Passed(c, i) => Recorded(c, i) /\ Ahead(c, i)) /\ (Beyond(c, i) => Recorded(c, i))
    BY DEF Fresh
  <2> QED BY <2>1, <2>2, <2>3
<1> QED BY <1>1, <1>2 DEF Fresh

\* The rest of the invariant after a step that keeps commands where they are.
LEMMA StillAhead ==
    ASSUME NEW c \in Commands, NEW i \in Steps, commands'[c] = commands[c]
    PROVE  Ahead(c, i)' = Ahead(c, i) /\ Beyond(c, i)' = Beyond(c, i)
BY DEF Ahead, Beyond

\* A step that ended is about to be told, and so is a silent one that comes after.
LEMMA StepEndFresh ==
    ASSUME TypeOK, Placed, Fresh, Sound, RowsTyped, TasksTyped, OthersTyped,
           NEW c \in Commands, NEW ok \in BOOLEAN, StepEnd(c, ok)
    PROVE  Fresh'
<1> USE PullAssumption
<1>0. commands[c] \in Tasks /\ commands[c].step \in Steps /\ commands[c].at = "running"
  BY DEF StepEnd, Placed, TasksTyped, Tasks, Steps
<1> PICK s \in Steps : s = commands[c].step
  BY <1>0
<1> DEFINE r == [cmd |-> c, step |-> s, ok |-> ok, run |-> runs + 1]
<1>1. /\ commands[c] \in Tasks /\ s \in Steps /\ s \in Nat
      /\ commands[c].at = "running" /\ commands[c].step = s
  BY <1>0 DEF Steps
<1>2. /\ Unsent' = Unsent \cup (IF s \in Silent THEN {} ELSE {r})
      /\ poller' = poller /\ saved' = saved /\ row' = row
      /\ ended' = ended \cup {<<c, s, ok>>} /\ again' = (again \/ Passed(c, s))
      /\ ok \/ s \notin Silent
  BY <1>1, StepEndMoves DEF StepEnd
<1>3. Held' = Held \cup (IF s \in Silent THEN {} ELSE {r})
  BY <1>2 DEF Held
<1>4. /\ \A d \in Commands : d # c => commands'[d] = commands[d]
      /\ ok \/ s \in NonFatal => commands'[c].at = "next" /\ commands'[c].step = s
      /\ ~ok /\ s \notin NonFatal => commands'[c].at = "idle"
  BY <1>1 DEF StepEnd, Set, TasksTyped, Tasks
<1>5. ~Passed(c, s)
  BY <1>1 DEF Fresh, Ahead, Beyond
<1>6. ~again' /\ \A d \in Commands : row'[d].state # "stopped" /\ Parsed(row'[d])
  BY <1>2, <1>5 DEF Fresh
<1>7. \A d \in Commands, i \in Steps : Recorded(d, i) => Recorded(d, i)'
  BY <1>2, <1>3 DEF Recorded
<1>8. ASSUME NEW d \in Commands, NEW i \in Steps
      PROVE  Passed(d, i)' => Passed(d, i) \/ (d = c /\ i = s /\ (ok \/ s \in NonFatal))
  BY <1>2 DEF Passed
<1>9. ASSUME ok \/ s \in NonFatal PROVE Recorded(c, s)'
  <2>1. CASE s \notin Silent
    <3>1. r \in Held' /\ r.cmd = c
      BY <1>3, <2>1
    <3>2. Covers(r, s)
      <4>1. r.step = s /\ r.ok = ok /\ s + 1..s = {}
        BY <1>1
      <4> QED BY <1>1, <1>9, <4>1 DEF Covers, Passing
    <3> QED BY <3>1, <3>2 DEF Recorded
  <2>2. CASE s \in Silent
    <3>1. s - 1 \in Steps /\ s - 1 < s /\ s - 1 + 1 = s
      BY <1>1, <2>2 DEF Steps
    <3>2. Recorded(c, s - 1)
      BY <1>1, <3>1 DEF Fresh, Beyond
    <3>3. CASE s - 1 <= row[c].done
      <4>1. row[c].done \in Nat
        BY DEF RowsTyped, Rows
      <4>2. s <= row[c].done \/ row[c].done + 1 = s
        BY <1>1, <3>3, <4>1
      <4>3. Recorded(c, s)
        BY <2>2, <4>2 DEF Fresh, Parsed, Recorded
      <4> QED BY <1>1, <1>7, <4>3
    <3>4. CASE row[c].state = "failed"
      BY <1>2, <3>4 DEF Recorded
    <3>5. ASSUME NEW q \in Held, q.cmd = c, Covers(q, s - 1) PROVE Recorded(c, s)'
      <4>1. q.step \in Nat
        BY <3>5, KnownTyped DEF Results, Steps
      <4>2. q.step + 1..s \subseteq (q.step + 1..s - 1) \cup {s}
        BY <1>1, <4>1
      <4>3. Covers(q, s)
        BY <1>1, <2>2, <3>5, <4>1, <4>2 DEF Covers
      <4> QED BY <1>3, <3>5, <4>3 DEF Recorded
    <3> QED BY <3>2, <3>3, <3>4, <3>5 DEF Recorded
  <2> QED BY <2>1, <2>2
<1>10. ASSUME NEW d \in Commands, NEW i \in Steps
       PROVE  /\ Passed(d, i)' => Recorded(d, i)' /\ Ahead(d, i)'
              /\ Beyond(d, i)' => Recorded(d, i)'
  <2>1. /\ Passed(d, i) => Recorded(d, i)' /\ Ahead(d, i)
        /\ Beyond(d, i) => Recorded(d, i)'
    BY <1>7 DEF Fresh
  <2>2. CASE d # c
    BY <1>4, <1>8, <2>1, <2>2, StillAhead
  <2>3. CASE d = c /\ ~ok /\ s \notin NonFatal
    BY <1>4, <1>8, <2>1, <2>3 DEF Ahead, Beyond
  <2>4. CASE d = c /\ (ok \/ s \in NonFatal)
    <3>1. i \in Nat /\ (Beyond(c, i) <=> i < s) /\ (Beyond(c, i)' <=> i <= s)
      BY <1>1, <1>4, <2>4 DEF Beyond, Steps
    <3>2. Ahead(c, i) => Beyond(c, i)
      BY <1>1 DEF Ahead
    <3>3. i < s \/ i = s => Beyond(c, i)' /\ Ahead(c, i)'
      BY <1>1, <3>1 DEF Ahead
    <3>4. i <= s => i < s \/ i = s
      BY <1>1, <3>1
    <3> QED BY <1>8, <1>9, <2>1, <2>4, <3>1, <3>2, <3>3, <3>4
  <2> QED BY <2>2, <2>3, <2>4
<1> QED BY <1>6, <1>10 DEF Fresh

\* What the scheduler takes it records; what it does not take is sent again.
LEMMA SendFresh ==
    ASSUME TypeOK, Fresh, Sound, RowsTyped,
           NEW w \in ResultWorkers, Sent(w) \/ AnswerLost(w) \/ NotSent(w)
    PROVE  Fresh'
<1> DEFINE r == worker[w].result
<1>1. /\ worker[w].pc = "send" /\ Worker(w, "loop", Nothing)
      /\ UNCHANGED <<result_queue, saved, poller, commands, ended, again>>
      /\ \/ row' = row /\ Again(w)
         \/ \E taken \in BOOLEAN : Told(r, taken) /\ Again(w)
         \/ Told(r, TRUE) /\ retry_queue' = retry_queue
  BY DEF Sent, AnswerLost, NotSent, Again, Rest
<1>2. /\ r \in Results
      /\ retry_queue' = retry_queue => Unsent \subseteq Unsent' \cup {r}
      /\ Again(w) => Unsent' = Unsent
  BY <1>1, SendMoves
<1> HIDE DEF r
<1>3. CASE row' = row /\ Again(w)
  <2>1. Held' = Held
    BY <1>1, <1>2, <1>3 DEF Held
  <2> QED BY <1>1, <1>3, <2>1, StillAhead, FreshKept
<1>4. ASSUME NEW taken \in BOOLEAN, Told(r, taken), Held \subseteq Held' \/
             (taken /\ Held \subseteq Held' \cup {r})
      PROVE  Fresh'
  <2>1. r.cmd \in Commands /\ row[r.cmd].done \in Nat
    BY <1>2 DEF Results, RowsTyped, Rows
  <2>2. row[r.cmd].state # "stopped" /\ Parsed(row[r.cmd])
    BY <2>1 DEF Fresh
  <2>3. PICK new \in Rows :
          /\ row' = [row EXCEPT ![r.cmd] = new]
          /\ row[r.cmd].done <= new.done
          /\ row[r.cmd].state = "failed" => new.state = "failed" \/ new.done = Length
          /\ new.state # "stopped" /\ Parsed(new)
          /\ taken => \A i \in Steps :
                Covers(r, i) => i <= new.done \/ new.state = "failed"
    BY <1>2, <1>4, <2>2, TellMoves
  <2>4. /\ row'[r.cmd] = new /\ new.done \in Nat
        /\ \A c \in Commands : c # r.cmd => row'[c] = row[c]
    BY <2>1, <2>3 DEF RowsTyped, Rows
  <2>5. ~again' /\ \A c \in Commands : row'[c].state # "stopped" /\ Parsed(row'[c])
    BY <1>1, <2>3, <2>4 DEF Fresh
  <2>6. ASSUME NEW c \in Commands, NEW i \in Steps, Recorded(c, i) PROVE Recorded(c, i)'
    <3>1. i \in Nat /\ i <= Length
      BY PullAssumption DEF Steps
    <3>2. CASE i <= row[c].done \/ row[c].state = "failed"
      <4>1. c = r.cmd => i <= new.done \/ new.state = "failed"
        BY <2>1, <2>3, <2>4, <3>1, <3>2
      <4> QED BY <2>4, <3>2, <4>1 DEF Recorded
    <3>3. ASSUME NEW q \in Held, q.cmd = c, Covers(q, i) PROVE Recorded(c, i)'
      <4>1. CASE q \in Held'
        BY <3>3, <4>1 DEF Recorded
      <4>2. CASE q \notin Held'
        <5>1. q = r /\ taken
          BY <1>4, <3>3, <4>2
        <5>2. i <= new.done \/ new.state = "failed"
          BY <2>3, <3>3, <5>1
        <5> QED BY <2>4, <3>3, <5>1, <5>2 DEF Recorded
      <4> QED BY <4>1, <4>2
    <3> QED BY <2>6, <3>2, <3>3 DEF Recorded
  <2>7. ASSUME NEW c \in Commands, NEW i \in Steps
        PROVE  /\ Passed(c, i)' => Recorded(c, i)' /\ Ahead(c, i)'
               /\ Beyond(c, i)' => Recorded(c, i)'
    <3>1. Passed(c, i)' = Passed(c, i)
      BY <1>1 DEF Passed
    <3>2. Ahead(c, i)' = Ahead(c, i) /\ Beyond(c, i)' = Beyond(c, i)
      BY <1>1, StillAhead
    <3>3. (Passed(c, i) => Recorded(c, i) /\ Ahead(c, i)) /\ (Beyond(c, i) => Recorded(c, i))
      BY DEF Fresh
    <3> QED BY <2>6, <3>1, <3>2, <3>3
  <2> QED BY <2>5, <2>7 DEF Fresh
<1>5. ASSUME NEW taken \in BOOLEAN, Told(r, taken), Again(w) PROVE Fresh'
  <2>1. Held' = Held
    BY <1>1, <1>2, <1>5 DEF Held
  <2> QED BY <1>4, <1>5, <2>1
<1>6. CASE Told(r, TRUE) /\ retry_queue' = retry_queue
  <2>1. Held \subseteq Held' \cup {r}
    BY <1>1, <1>2, <1>6 DEF Held
  <2> QED BY <1>4, <1>6, <2>1
<1> QED BY <1>1, <1>3, <1>5, <1>6

LEMMA FreshStep ==
    ASSUME IInv, Next, Sound'
    PROVE  Fresh'
<1>0. /\ TypeOK /\ Fresh /\ Sound /\ Placed
      /\ RowsTyped /\ TasksTyped /\ OthersTyped
  BY BlameGrows, TypeParts DEF IInv, Sound
<1>1. CASE Restore \/ Start \/ Stop
  <2>1. UNCHANGED <<row, ended, again, commands>>
    BY <1>1 DEF Restore, Start, Stop, histories
  <2>2. Held \subseteq Held'
    <3>1. CASE Start \/ Stop
      <4>1. Unsent' = Unsent
        BY <3>1, Quiet DEF Start, Stop
      <4> QED BY <3>1, <4>1 DEF Start, Stop, Held
    <3> QED BY <1>0, <1>1, <3>1, RestoreMoves
  <2> QED BY <1>0, <2>1, <2>2, StillAhead, FreshKept
<1>2. CASE SaveState \/ Crash
  <2>1. SaveState
    BY <1>2 DEF Crash, Fault, Sound
  <2>2. UNCHANGED <<row, ended, again>> /\ \A c \in Commands : commands'[c].at = "idle"
    BY <2>1 DEF SaveState, Ended, NoSteps, histories
  <2>3. Held \subseteq Held'
    BY <1>0, <2>1, SaveMoves
  <2>4. \A c \in Commands, i \in Steps : Ahead(c, i)' /\ ~Beyond(c, i)'
    BY <2>2 DEF Ahead, Beyond
  <2> QED BY <1>0, <2>2, <2>3, <2>4, FreshKept
<1>3. ASSUME NEW c \in Commands, Agent(c) PROVE FALSE
  BY <1>3 DEF Agent, Sound
<1>4. ASSUME NEW c \in Commands, Poll(c) PROVE Fresh'
  <2>1. /\ poller = "polling" /\ poller' = poller
        /\ UNCHANGED <<row, ended, again, saved, worker, result_queue, retry_queue>>
        /\ commands' = [commands EXCEPT ![c] = [state |-> "running", at |-> "next",
                                                step |-> row[c].done]]
    BY <1>4 DEF Poll
  <2>2. \A r \in Unsent : r.cmd # c
    BY <1>4 DEF Poll, Sound
  <2>3. Held = Unsent /\ Held' = Unsent
    BY <2>1, Quiet DEF Held
  <2>4. row[c].state = "scheduled"
    BY <1>4 DEF Poll, Offered
  <2>5. ASSUME NEW d \in Commands, NEW i \in Steps
        PROVE  /\ Passed(d, i) /\ Ahead(d, i) => Ahead(d, i)'
               /\ Beyond(d, i)' => Beyond(d, i) \/ Recorded(d, i)
    <3>1. CASE d = c
      <4>1. Passed(c, i) => i <= row[c].done
        BY <1>0, <2>2, <2>3, <2>4 DEF Fresh, Recorded
      <4>2. commands'[c].at = "next" /\ commands'[c].step = row[c].done
        BY <1>0, <2>1 DEF TasksTyped
      <4> QED BY <3>1, <4>1, <4>2 DEF Ahead, Beyond, Recorded
    <3>2. CASE d # c
      <4>1. commands'[d] = commands[d]
        BY <1>0, <2>1, <3>2 DEF TasksTyped
      <4> QED BY <4>1, StillAhead
    <3> QED BY <3>1, <3>2
  <2> QED BY <1>0, <2>1, <2>3, <2>5, FreshKept
<1>5. ASSUME NEW c \in Commands, NextStep(c) \/ StepStart(c) PROVE Fresh'
  <2>1. UNCHANGED <<row, ended, again, saved, worker, result_queue, retry_queue, poller>>
    BY <1>5 DEF NextStep, StepStart, histories
  <2>2. Held' = Held
    BY <2>1, Quiet DEF Held
  <2>3. commands[c] \in Tasks
    BY <1>0 DEF TasksTyped
  <2>4. /\ \A d \in Commands : d # c => commands'[d] = commands[d]
        /\ \/ commands'[c].at = "idle"
           \/ /\ commands[c].at = "next"
              /\ commands'[c].at = "queued" /\ commands'[c].step = commands[c].step + 1
           \/ /\ commands[c].at = "queued"
              /\ commands'[c].at = "running" /\ commands'[c].step = commands[c].step
    BY <1>0, <1>5, <2>3 DEF NextStep, StepStart, Set, TasksTyped, Tasks
  <2>5. ASSUME NEW d \in Commands, NEW i \in Steps
        PROVE  /\ Passed(d, i) /\ Ahead(d, i) => Ahead(d, i)'
               /\ Beyond(d, i)' => Beyond(d, i) \/ Recorded(d, i)
    <3>1. CASE d = c
      <4>1. commands[c].step \in Nat /\ i \in Nat
        BY <2>3 DEF Tasks, Steps
      <4> QED BY <2>4, <3>1, <4>1 DEF Ahead, Beyond
    <3>2. CASE d # c
      BY <2>4, <3>2, StillAhead
    <3> QED BY <3>1, <3>2
  <2> QED BY <1>0, <2>1, <2>2, <2>5, FreshKept
<1>6. ASSUME NEW c \in Commands, NEW ok \in BOOLEAN, StepEnd(c, ok) PROVE Fresh'
  BY <1>0, <1>6, StepEndFresh
<1>7. ASSUME NEW w \in ResultWorkers, Take(w) \/ Empty(w) PROVE Fresh'
  <2>1. UNCHANGED <<row, ended, again, saved, poller, commands>>
    BY <1>7 DEF Take, Empty, histories
  <2>2. Held' = Held
    BY <1>0, <1>7, <2>1, TakeMoves, EmptyMoves DEF Held
  <2> QED BY <1>0, <2>1, <2>2, StillAhead, FreshKept
<1>8. ASSUME NEW w \in ResultWorkers, Sent(w) \/ AnswerLost(w) \/ NotSent(w) PROVE Fresh'
  BY <1>0, <1>8, SendFresh
<1> QED BY <1>1, <1>2, <1>3, <1>4, <1>5, <1>6, <1>7, <1>8 DEF Next

-----------------------------------------------------------------------------
(* Theorems. *)

LEMMA StutterInv ==
    ASSUME IInv, UNCHANGED vars
    PROVE  IInv'
<1>1. /\ UNCHANGED <<row, poller, start_polling, commands, result_queue, retry_queue, worker>>
      /\ UNCHANGED <<saved, ops, failures, faults, runs, last, ended, again, blame>>
  BY DEF vars, clientVars, histories
<1>2. Unsent' = Unsent /\ Known' = Known /\ Held' = Held
  BY <1>1, Quiet DEF Known, Held
<1>3. TypeOK'
  BY <1>1 DEF IInv, TypeOK
<1>4. Truthful' /\ Deserved' /\ Placed'
  BY <1>1, <1>2 DEF IInv, Truthful, Deserved, Placed, Passed
<1>5. Fresh'
  BY <1>1, <1>2 DEF IInv, Fresh, Sound, Recorded, Ahead, Beyond, Passed
<1> QED BY <1>3, <1>4, <1>5 DEF IInv

LEMMA NextInv ==
    ASSUME IInv, [Next]_vars
    PROVE  IInv'
<1>1. CASE Next
  <2>1. Fresh'
    BY <1>1, FreshStep DEF Fresh
  <2> QED BY <1>1, <2>1, TypeStep, TruthStep, PlacedStep DEF IInv
<1>2. CASE UNCHANGED vars
  BY <1>2, StutterInv
<1> QED BY <1>1, <1>2

LEMMA Invariant == Spec => []IInv
<1>1. IInv /\ [Next]_vars => IInv'
  BY NextInv
<1> QED BY <1>1, InitInv, PTL DEF Spec

\* Every variable of the client and of the rows keeps its type.
THEOREM Typing == Spec => []TypeOK
<1>1. IInv => TypeOK
  BY DEF IInv
<1> QED BY <1>1, Invariant, PTL

\* The scheduler holds for done only what the client did with success, or failed to
\* do when it may fail, whatever is refused, lost, stored or sent twice on the way.
\* wu_parse is not the client's.
THEOREM DoneDeserved == Spec => []Deserved
<1>1. IInv => Deserved
  BY DEF IInv
<1> QED BY <1>1, Invariant, PTL

\* A step the client went on from is run again only after a crash, a stop by the agent
\* or a poll that came before the results: at every other instant its result is
\* in a queue, in the file or in the database, where the next poll sees it.
THEOREM NeverAgain == Spec => []NotAgain
<1>1. IInv => NotAgain
  BY DEF IInv, Fresh, NotAgain, Sound
<1> QED BY <1>1, Invariant, PTL

-----------------------------------------------------------------------------
(* One worker sends the results in order, and the poller waits for it.     *)

Sorted(q) == \A m, n \in DOMAIN q : m <= n => q[m].run <= q[n].run
From(a, q) == \A r \in ToSet(q) : a <= r.run
Begun(w)  == worker[w].pc = "send"

\* Commands are taken once the poller polls.
Resting == poller \notin {"polling", "stopping"} => \A c \in Commands : commands[c].at = "idle"

\* What was told last, the result that is being sent or is to be sent again, of
\* which there is one at most, and the queue follow one another.
InLine ==
    /\ Sorted(result_queue) /\ From(last, result_queue)
    /\ \A r \in ToSet(retry_queue) : last <= r.run /\ From(r.run, result_queue)
    /\ Len(retry_queue) <= 1
    /\ \A w \in ResultWorkers : Begun(w) =>
         retry_queue = <<>> /\ last <= worker[w].result.run /\ From(worker[w].result.run, result_queue)

\* Before they are restored the results are in the file, and nowhere else.
Stored ==
    poller \in {"down", "boot"} =>
        /\ result_queue = <<>> /\ retry_queue = <<>> /\ \A w \in ResultWorkers : ~Begun(w)
        /\ Sorted(saved) /\ From(last, saved)

\* A worker that found nothing, after the results were restored, was right.
Heard ==
    /\ poller = "waiting" /\ "late event" \notin blame
    /\ start_polling \/ \E w \in ResultWorkers : worker[w].pc = "empty"
    => Unsent = {}

Line == Resting /\ ("crash" \notin blame => InLine /\ Stored) /\ Heard

Lone == \A v, w \in ResultWorkers : v = w

\* Sequences of results that are in order.
LEMMA SortedEmpty == Sorted(<<>>) /\ \A a : From(a, <<>>)
<1>1. DOMAIN <<>> = {} /\ ToSet(<<>>) = {}
  BY ElementsOfEmpty DEF ToSet
<1> QED BY <1>1 DEF Sorted, From

LEMMA SortedTail ==
    ASSUME NEW q \in Seq(Results), q # <<>>, Sorted(q)
    PROVE  /\ Sorted(Tail(q)) /\ From(Head(q).run, Tail(q)) /\ Head(q) \in ToSet(q)
           /\ ToSet(Tail(q)) \subseteq ToSet(q) /\ Tail(q) \in Seq(Results)
<1> DEFINE t == Tail(q)
<1>1. /\ Len(q) \in Nat \ {0} /\ Head(q) = q[1] /\ DOMAIN q = 1..Len(q)
      /\ t \in Seq(Results) /\ Len(t) = Len(q) - 1 /\ DOMAIN t = 1..Len(t)
      /\ \A n \in 1..Len(t) : t[n] = q[n + 1]
  BY EmptySeq
<1>2. \A n \in DOMAIN t : n + 1 \in DOMAIN q /\ t[n] = q[n + 1] /\ n \in Nat
  BY <1>1
<1>3. 1 \in DOMAIN q
  BY <1>1
<1>4. ToSet(t) \subseteq ToSet(q) /\ Head(q) \in ToSet(q)
  BY ElementsOfTail
<1> HIDE DEF t
<1>5. Sorted(t)
  <2> SUFFICES ASSUME NEW m \in DOMAIN t, NEW n \in DOMAIN t, m <= n
               PROVE  t[m].run <= t[n].run
    BY DEF Sorted
  <2>1. m + 1 <= n + 1
    BY <1>2
  <2> QED BY <1>2, <2>1 DEF Sorted
<1>6. From(Head(q).run, t)
  <2> SUFFICES ASSUME NEW n \in DOMAIN t PROVE q[1].run <= t[n].run
    BY <1>1 DEF From, ToSet
  <2>1. 1 <= n + 1
    BY <1>2
  <2> QED BY <1>2, <1>3, <2>1 DEF Sorted
<1> QED BY <1>1, <1>4, <1>5, <1>6 DEF t

LEMMA SortedAppend ==
    ASSUME NEW q \in Seq(Results), NEW r \in Results, Sorted(q),
           \A x \in ToSet(q) : x.run <= r.run
    PROVE  Sorted(Append(q, r))
<1> DEFINE s == Append(q, r)
<1>1. /\ Len(q) \in Nat /\ DOMAIN q = 1..Len(q) /\ DOMAIN s = 1 .. Len(q) + 1
      /\ s[Len(q) + 1] = r /\ \A n \in 1..Len(q) : s[n] = q[n]
  OBVIOUS
<1>2. \A n \in DOMAIN q : q[n] \in ToSet(q)
  BY DEF ToSet
<1> HIDE DEF s
<1>3. r.run <= r.run
  BY DEF Results
<1> SUFFICES ASSUME NEW m \in DOMAIN s, NEW n \in DOMAIN s, m <= n
             PROVE  s[m].run <= s[n].run
  BY DEF Sorted, s
<1>4. CASE n \in 1..Len(q)
  <2>1. m \in 1..Len(q)
    BY <1>1, <1>4
  <2> QED BY <1>1, <1>4, <2>1 DEF Sorted
<1>5. CASE n = Len(q) + 1 /\ m \in 1..Len(q)
  BY <1>1, <1>2, <1>5
<1>6. CASE n = Len(q) + 1 /\ m = Len(q) + 1
  BY <1>1, <1>3, <1>6
<1> QED BY <1>1, <1>4, <1>5, <1>6

LEMMA SortedConcat ==
    ASSUME NEW p \in Seq(Results), NEW q \in Seq(Results), Sorted(p), Sorted(q),
           \A x \in ToSet(p) : From(x.run, q)
    PROVE  Sorted(p \o q)
<1> DEFINE s == p \o q
<1>1. /\ Len(p) \in Nat /\ Len(q) \in Nat /\ DOMAIN p = 1..Len(p) /\ DOMAIN q = 1..Len(q)
      /\ DOMAIN s = 1 .. Len(p) + Len(q)
      /\ \A n \in 1..Len(p) : s[n] = p[n]
      /\ \A n \in Len(p) + 1 .. Len(p) + Len(q) : s[n] = q[n - Len(p)]
  OBVIOUS
<1>2. (\A n \in DOMAIN p : p[n] \in ToSet(p)) /\ (\A n \in DOMAIN q : q[n] \in ToSet(q))
  BY DEF ToSet
<1> HIDE DEF s
<1> SUFFICES ASSUME NEW m \in DOMAIN s, NEW n \in DOMAIN s, m <= n
             PROVE  s[m].run <= s[n].run
  BY DEF Sorted, s
<1>3. CASE n \in 1..Len(p)
  <2>1. m \in 1..Len(p)
    BY <1>1, <1>3
  <2> QED BY <1>1, <1>3, <2>1 DEF Sorted
<1>4. CASE n \in Len(p) + 1 .. Len(p) + Len(q)
  <2>1. n - Len(p) \in DOMAIN q /\ s[n] = q[n - Len(p)]
    BY <1>1, <1>4
  <2>2. CASE m \in 1..Len(p)
    BY <1>1, <1>2, <2>1, <2>2 DEF From
  <2>3. CASE m \in Len(p) + 1 .. Len(p) + Len(q)
    <3>1. m - Len(p) \in DOMAIN q /\ s[m] = q[m - Len(p)] /\ m - Len(p) <= n - Len(p)
      BY <1>1, <2>3
    <3> QED BY <2>1, <3>1 DEF Sorted
  <2> QED BY <1>1, <2>2, <2>3
<1> QED BY <1>1, <1>3, <1>4

LEMMA SortedShort ==
    ASSUME NEW q \in Seq(Results), Len(q) <= 1
    PROVE  Sorted(q)
<1>1. Len(q) \in Nat /\ DOMAIN q = 1..Len(q) /\ \A n \in DOMAIN q : q[n] \in Results
  OBVIOUS
<1>2. ASSUME NEW m \in DOMAIN q, NEW n \in DOMAIN q PROVE m = n /\ q[n].run <= q[n].run
  <2>1. m = 1 /\ n = 1
    BY <1>1
  <2>2. q[n].run \in Nat
    BY <1>1 DEF Results
  <2> QED BY <2>1, <2>2
<1> QED BY <1>2 DEF Sorted

\* One that is to be sent again is taken: none is left.
LEMMA ShortTail ==
    ASSUME NEW q \in Seq(Results), Len(q) <= 1
    PROVE  /\ q # <<>> => Tail(q) = <<>>
           /\ q = <<>> => \A r \in Results : Len(Append(q, r)) <= 1
<1>1. ASSUME q # <<>> PROVE Tail(q) = <<>>
  <2>1. Len(q) = 1
    <3>1. Len(q) \in Nat \ {0}
      BY <1>1, EmptySeq
    <3> QED BY <3>1
  <2>2. Tail(q) \in Seq(Results) /\ Len(Tail(q)) = 0
    BY <1>1, <2>1
  <2> QED BY <2>2
<1> QED BY <1>1

\* What is unsent, seen by the parts.
LEMMA NoneUnsent ==
    ASSUME TypeOK, Unsent = {}
    PROVE  /\ result_queue = <<>> /\ retry_queue = <<>>
           /\ \A w \in ResultWorkers : ~Begun(w)
<1>1. ASSUME NEW q \in Seq(Results), q # <<>> PROVE ToSet(q) # {}
  BY <1>1, ElementsOfTail
<1>2. ToSet(result_queue) = {} /\ ToSet(retry_queue) = {}
  BY DEF Unsent
<1>3. result_queue = <<>> /\ retry_queue = <<>>
  <2>1. result_queue \in Seq(Results) /\ retry_queue \in Seq(Results)
    BY DEF TypeOK
  <2> QED BY <1>1, <1>2, <2>1
<1>4. \A w \in ResultWorkers : ~Begun(w)
  BY DEF Unsent, Begun
<1> QED BY <1>3, <1>4

LEMMA NothingUnsent ==
    ASSUME result_queue = <<>>, retry_queue = <<>>, \A w \in ResultWorkers : ~Begun(w)
    PROVE  Unsent = {}
BY ElementsOfEmpty DEF Unsent, Begun

LEMMA InitLine == Init => Line
<1> SUFFICES ASSUME Init PROVE Line
  OBVIOUS
<1>1. /\ result_queue = <<>> /\ retry_queue = <<>> /\ saved = <<>> /\ poller = "down"
      /\ \A w \in ResultWorkers : ~Begun(w)
      /\ \A c \in Commands : commands[c].at = "idle"
  BY DEF Init, Idle, Begun, NoSteps
<1>2. ToSet(<<>>) = {} /\ Len(<<>>) <= 1
  BY ElementsOfEmpty
<1> QED BY <1>1, <1>2, SortedEmpty DEF Line, Resting, InLine, Stored, Heard

-----------------------------------------------------------------------------
(* Every step keeps them. *)

\* Steps that leave results and workers alone.
LEMMA LineKept ==
    ASSUME Line, UNCHANGED <<result_queue, retry_queue, saved, worker, last, start_polling>>,
           blame \subseteq blame', Resting',
           poller' = poller \/ {poller, poller'} \subseteq {"waiting", "polling", "stopping"}
                            \/ {poller, poller'} \subseteq {"down", "boot"},
           poller' = "waiting" => poller = "waiting"
    PROVE  Line'
<1>1. Unsent' = Unsent
  BY Quiet
<1>2. Heard'
  BY <1>1 DEF Line, Heard
<1>3. ASSUME "crash" \notin blame' PROVE InLine' /\ Stored'
  BY <1>3 DEF Line, InLine, Stored, Begun
<1> QED BY <1>2, <1>3 DEF Line

LEMMA RestoreLine ==
    ASSUME IInv, Line, Restore
    PROVE  Line'
<1>0. /\ result_queue \in Seq(Results) /\ retry_queue \in Seq(Results) /\ saved \in Seq(Results)
      /\ worker' = worker /\ retry_queue' = retry_queue /\ last' = last /\ blame \subseteq blame'
      /\ commands' = commands
  BY DEF IInv, TypeOK, Restore
<1>1. CASE poller = "boot" /\ saved # <<>>
  <2>1. poller' = "restored" /\ result_queue' = result_queue \o saved /\ saved' = saved
    BY <1>1 DEF Restore
  <2>2. Resting'
    BY <1>0, <1>1, <2>1 DEF Line, Resting
  <2>3. ASSUME "crash" \notin blame' PROVE InLine'
    <3>1. /\ result_queue = <<>> /\ retry_queue = <<>> /\ \A w \in ResultWorkers : ~Begun(w)
          /\ Sorted(saved) /\ From(last, saved)
      BY <1>0, <1>1, <2>3 DEF Line, Stored
    <3>2. result_queue' = saved
      BY <1>0, <2>1, <3>1
    <3>3. ToSet(retry_queue) = {} /\ Len(retry_queue) <= 1
      BY <3>1, ElementsOfEmpty
    <3> QED BY <1>0, <3>1, <3>2, <3>3 DEF InLine, Begun
  <2> QED BY <2>1, <2>2, <2>3 DEF Line, Stored, Heard
<1>2. CASE poller = "restored"
  <2>1. /\ poller' = "waiting" /\ start_polling' = FALSE /\ result_queue' = result_queue
        /\ (\E w \in ResultWorkers : worker[w].pc = "empty") => "late event" \in blame'
    BY <1>2 DEF Restore
  <2>2. Resting' /\ Heard'
    BY <1>0, <1>2, <2>1 DEF Line, Resting, Heard
  <2>3. ASSUME "crash" \notin blame' PROVE InLine'
    BY <1>0, <2>1, <2>3 DEF Line, InLine, Begun
  <2> QED BY <2>1, <2>2, <2>3 DEF Line, Stored
<1>3. CASE poller \in {"boot", "waiting"} /\ poller' = "polling" /\ result_queue' = result_queue
  <2>1. ASSUME "crash" \notin blame' PROVE InLine'
    BY <1>0, <1>3, <2>1 DEF Line, InLine, Begun
  <2> QED BY <1>3, <2>1 DEF Line, Resting, Heard, Stored
<1> QED BY <1>1, <1>2, <1>3 DEF Restore

LEMMA EndedLine ==
    ASSUME IInv, Line, SaveState \/ Crash
    PROVE  Line'
<1>1. Ended /\ last' = last
  BY DEF SaveState, Crash, histories
<1>2. /\ poller' = "down" /\ result_queue' = <<>> /\ retry_queue' = <<>>
      /\ \A w \in ResultWorkers : ~Begun(w)'
      /\ \A c \in Commands : commands'[c].at = "idle"
  BY <1>1 DEF Ended, Begun, Idle, NoSteps
<1>3. Resting' /\ Heard'
  BY <1>2 DEF Resting, Heard
<1>4. ASSUME "crash" \notin blame' PROVE InLine' /\ Stored'
  <2>1. SaveState /\ blame' = blame
    BY <1>4 DEF SaveState, Crash, Fault, histories
  <2>2. /\ saved' = retry_queue \o result_queue
        /\ retry_queue \in Seq(Results) /\ result_queue \in Seq(Results)
    BY <2>1 DEF SaveState, IInv, TypeOK
  <2>3. InLine
    BY <1>4, <2>1 DEF Line
  <2>4. Sorted(saved')
    <3>1. Sorted(retry_queue)
      BY <2>2, <2>3, SortedShort DEF InLine
    <3>2. Sorted(retry_queue \o result_queue)
      BY <2>2, <2>3, <3>1, SortedConcat DEF InLine
    <3> QED BY <2>2, <3>2
  <2>5. From(last, saved')
    <3>1. ToSet(retry_queue \o result_queue) = ToSet(retry_queue) \cup ToSet(result_queue)
      BY <2>2, ElementsOfConcat
    <3> QED BY <2>2, <2>3, <3>1 DEF InLine, From
  <2>6. ToSet(<<>>) = {} /\ Len(<<>>) <= 1
    BY ElementsOfEmpty
  <2> QED BY <1>1, <1>2, <2>4, <2>5, <2>6, SortedEmpty DEF InLine, Stored
<1> QED BY <1>3, <1>4 DEF Line

LEMMA StepEndLine ==
    ASSUME IInv, Line, NEW c \in Commands, NEW ok \in BOOLEAN, StepEnd(c, ok)
    PROVE  Line'
<1> DEFINE r == [cmd |-> c, step |-> commands[c].step, ok |-> ok, run |-> runs + 1]
<1>1. TasksTyped /\ OthersTyped /\ TypeOK
  BY TypeParts DEF IInv
<1>2. poller \in {"polling", "stopping"} /\ poller' = poller
  BY DEF StepEnd, Line, Resting
<1>3. commands[c].step \in Steps
  BY <1>1 DEF StepEnd, IInv, Placed, TasksTyped, Tasks, Steps
<1>4. r \in Results /\ r.run = runs + 1 /\ runs \in Nat /\ last \in 0..runs
  BY <1>1, <1>3 DEF Results, OthersTyped
<1>5. /\ result_queue' = result_queue \/ result_queue' = Append(result_queue, r)
      /\ result_queue \in Seq(Results)
      /\ UNCHANGED <<retry_queue, worker, last, blame, start_polling, saved>>
  BY <1>1 DEF StepEnd, TypeOK
<1>6. \A x \in Unsent : x.run \in Nat /\ x.run <= runs + 1
  <2> SUFFICES ASSUME NEW x \in Unsent PROVE x.run \in Nat /\ x.run <= runs + 1
    OBVIOUS
  <2>1. x \in Known /\ x \in Results
    BY <1>1, KnownTyped DEF Known
  <2>2. x.run <= runs /\ x.run \in Nat
    BY <2>1 DEF IInv, Truthful, Results
  <2> QED BY <1>4, <2>2
<1> HIDE DEF r
<1>7. CASE result_queue' = result_queue
  BY <1>2, <1>5, <1>7, LineKept DEF Resting
<1>8. CASE result_queue' = Append(result_queue, r)
  <2>1. ToSet(result_queue') = ToSet(result_queue) \cup {r}
    BY <1>4, <1>5, <1>8, ElementsOfAppend
  <2>2. ASSUME InLine PROVE InLine'
    <3>1. Sorted(result_queue')
      <4>1. \A x \in ToSet(result_queue) : x.run <= r.run
        BY <1>4, <1>6 DEF Unsent
      <4> QED BY <1>4, <1>5, <1>8, <2>2, <4>1, SortedAppend DEF InLine
    <3>2. From(last, result_queue')
      <4>1. last <= r.run
        BY <1>4
      <4> QED BY <2>1, <2>2, <4>1 DEF InLine, From
    <3>3. \A x \in ToSet(retry_queue) : From(x.run, result_queue')
      <4>1. \A x \in ToSet(retry_queue) : x.run <= r.run
        BY <1>4, <1>6 DEF Unsent
      <4> QED BY <2>1, <2>2, <4>1 DEF InLine, From
    <3>4. \A w \in ResultWorkers : Begun(w) => From(worker[w].result.run, result_queue')
      <4> SUFFICES ASSUME NEW w \in ResultWorkers, Begun(w)
                   PROVE  From(worker[w].result.run, result_queue')
        OBVIOUS
      <4>1. worker[w].result.run <= r.run
        BY <1>4, <1>6 DEF Unsent, Begun
      <4> QED BY <2>1, <2>2, <4>1 DEF InLine, From
    <3> QED BY <1>5, <2>2, <3>1, <3>2, <3>3, <3>4 DEF InLine, Begun
  <2> QED BY <1>2, <1>5, <2>2 DEF Line, Resting, Stored, Heard
<1> QED BY <1>5, <1>7, <1>8

LEMMA TakeLine ==
    ASSUME Lone, IInv, Line, NEW w \in ResultWorkers, Take(w)
    PROVE  Line'
<1>1. /\ TypeOK /\ result_queue \in Seq(Results) /\ retry_queue \in Seq(Results)
      /\ worker \in [ResultWorkers -> Holders]
      /\ UNCHANGED <<poller, commands, last, blame, start_polling, saved>>
      /\ worker[w].pc = "loop" /\ poller \notin {"down", "stopping"}
  BY DEF IInv, TypeOK, Holders, Take, histories, Running
<1>2. Unsent' = Unsent /\ Unsent # {}
  <2>1. Unsent' = Unsent
    BY <1>1, TakeMoves
  <2>2. ASSUME Unsent = {} PROVE FALSE
    BY <1>1, <2>2, NoneUnsent DEF Take
  <2> QED BY <2>1, <2>2
<1>3. Heard'
  <2>1. PICK r : worker' = [worker EXCEPT ![w] = [pc |-> "send", result |-> r]]
    BY DEF Take, Worker
  <2>2. \A v \in ResultWorkers : worker'[v].pc = "send"
    BY <1>1, <2>1 DEF Lone
  <2> QED BY <1>1, <1>2, <2>2 DEF Line, Heard
<1>4. ASSUME "crash" \notin blame' PROVE InLine' /\ Stored'
  <2>1. InLine /\ Stored
    BY <1>1, <1>4 DEF Line
  <2>2. poller \notin {"down", "boot"}
    BY <2>1 DEF Stored, Take
  <2>3. CASE retry_queue # <<>>
    <3> DEFINE r == Head(retry_queue)
    <3>1. /\ worker' = [worker EXCEPT ![w] = [pc |-> "send", result |-> r]]
          /\ retry_queue' = Tail(retry_queue) /\ result_queue' = result_queue
      BY <2>3 DEF Take, Worker
    <3>2. retry_queue' = <<>> /\ r \in ToSet(retry_queue)
      BY <1>1, <2>1, <2>3, <3>1, ShortTail, ElementsOfTail DEF InLine
    <3>3. last <= r.run /\ From(r.run, result_queue)
      BY <2>1, <3>2 DEF InLine
    <3>4. \A v \in ResultWorkers : worker'[v].result = r
      BY <1>1, <3>1 DEF Lone
    <3>5. ToSet(retry_queue') = {} /\ Len(retry_queue') <= 1
      BY <3>2, ElementsOfEmpty
    <3> QED BY <1>1, <2>1, <2>2, <3>1, <3>2, <3>3, <3>4, <3>5 DEF InLine, Stored
  <2>4. CASE retry_queue = <<>>
    <3> DEFINE r == Head(result_queue)
    <3>1. /\ worker' = [worker EXCEPT ![w] = [pc |-> "send", result |-> r]]
          /\ result_queue' = Tail(result_queue) /\ retry_queue' = retry_queue
          /\ result_queue # <<>>
      BY <2>4 DEF Take, Worker
    <3>2. /\ Sorted(result_queue') /\ From(r.run, result_queue') /\ r \in ToSet(result_queue)
          /\ ToSet(result_queue') \subseteq ToSet(result_queue)
      BY <1>1, <2>1, <3>1, SortedTail DEF InLine
    <3>3. last <= r.run /\ From(last, result_queue')
      BY <2>1, <3>2 DEF InLine, From
    <3>4. \A v \in ResultWorkers : worker'[v].result = r
      BY <1>1, <3>1 DEF Lone
    <3>5. ToSet(retry_queue') = {} /\ Len(retry_queue') <= 1
      BY <2>4, <3>1, ElementsOfEmpty
    <3> QED BY <1>1, <2>2, <2>4, <3>1, <3>2, <3>3, <3>4, <3>5 DEF InLine, Stored
  <2> QED BY <2>3, <2>4
<1> QED BY <1>1, <1>3, <1>4 DEF Line, Resting

LEMMA EmptyLine ==
    ASSUME Lone, IInv, Line, NEW w \in ResultWorkers, Empty(w)
    PROVE  Line'
<1>1. /\ TypeOK /\ worker \in [ResultWorkers -> Holders]
      /\ UNCHANGED <<poller, commands, last, blame, saved, result_queue, retry_queue>>
      /\ worker[w].pc \in {"loop", "empty"}
  BY DEF IInv, TypeOK, Holders, Empty, histories
<1>2. PICK pc \in {"empty", "loop"} : worker' = [worker EXCEPT ![w] = [pc |-> pc, result |-> Nothing]]
  BY DEF Empty, Worker
<1>3. \A v \in ResultWorkers : ~Begun(v) /\ ~Begun(v)'
  BY <1>1, <1>2 DEF Lone, Begun
<1>4. Unsent' = Unsent
  BY <1>1, EmptyMoves
<1>5. Heard'
  <2>1. CASE worker[w].pc = "loop"
    <3>1. Unsent = {}
      BY <1>3, <2>1, NothingUnsent DEF Empty
    <3> QED BY <1>4, <3>1 DEF Heard
  <2>2. CASE worker[w].pc = "empty"
    BY <1>1, <1>4, <2>2 DEF Line, Heard
  <2> QED BY <1>1, <2>1, <2>2
<1>6. ASSUME "crash" \notin blame' PROVE InLine' /\ Stored'
  BY <1>1, <1>3, <1>6 DEF Line, InLine, Stored
<1> QED BY <1>1, <1>5, <1>6 DEF Line, Resting

LEMMA SendLine ==
    ASSUME Lone, IInv, Line, NEW w \in ResultWorkers, Sent(w) \/ AnswerLost(w) \/ NotSent(w)
    PROVE  Line'
<1> DEFINE r == worker[w].result
<1>1. /\ TypeOK /\ worker \in [ResultWorkers -> Holders] /\ worker[w].pc = "send"
      /\ Worker(w, "loop", Nothing)
      /\ UNCHANGED <<poller, start_polling, commands, result_queue, saved>>
      /\ blame \subseteq blame'
      /\ retry_queue' = retry_queue \/ Again(w)
      /\ last' \in {last, r.run}
  BY DEF IInv, TypeOK, Holders, Sent, AnswerLost, NotSent, Again, Rest, Told, Fault
<1>2. r \in Results /\ r \in Unsent /\ r.run \in Nat
  BY <1>1, SendMoves DEF Results
<1>3. \A v \in ResultWorkers : v = w /\ ~Begun(v)'
  BY <1>1 DEF Lone, Worker, Begun
<1>4. Heard'
  <2>1. \A v \in ResultWorkers : worker'[v].pc = "loop"
    BY <1>1, <1>3 DEF Worker
  <2> QED BY <1>1, <1>2, <2>1 DEF Line, Heard
<1>5. ASSUME "crash" \notin blame' PROVE InLine' /\ Stored'
  <2>1. InLine /\ Stored
    BY <1>1, <1>5 DEF Line
  <2>2. poller \notin {"down", "boot"}
    BY <1>1, <2>1 DEF Stored, Begun
  <2>3. retry_queue = <<>> /\ last <= r.run /\ From(r.run, result_queue)
    BY <1>1, <2>1 DEF InLine, Begun
  <2>4. From(last', result_queue) /\ last' <= r.run
    BY <1>1, <1>2, <2>1, <2>3 DEF InLine
  <2>5. Len(retry_queue') <= 1 /\ ToSet(retry_queue') \subseteq {r}
    <3>1. CASE retry_queue' = <<>>
      BY <3>1, ElementsOfEmpty
    <3>2. CASE retry_queue' = Append(retry_queue, r)
      <4> HIDE DEF r
      <4>1. retry_queue \in Seq(Results) /\ Len(retry_queue) <= 1
        BY <1>1, <2>1 DEF TypeOK, InLine
      <4>2. ToSet(Append(retry_queue, r)) = ToSet(retry_queue) \cup {r}
        BY <1>2, <4>1, ElementsOfAppend
      <4>3. Len(Append(retry_queue, r)) <= 1
        BY <1>2, <2>3, <4>1, ShortTail
      <4> QED BY <2>3, <3>2, <4>2, <4>3, ElementsOfEmpty
    <3> QED BY <1>1, <2>3, <3>1, <3>2 DEF Again
  <2> HIDE DEF r
  <2> QED BY <1>1, <1>3, <2>1, <2>2, <2>3, <2>4, <2>5 DEF InLine, Stored
<1> QED BY <1>1, <1>4, <1>5 DEF Line, Resting

LEMMA NextLine ==
    ASSUME Lone, IInv, Line, [Next]_vars
    PROVE  Line'
<1>0. TasksTyped
  BY TypeParts DEF IInv
<1>1. CASE UNCHANGED vars
  <2>1. UNCHANGED <<result_queue, retry_queue, saved, worker, last, start_polling, poller,
                    commands, blame>>
    BY <1>1 DEF vars, clientVars, histories
  <2> QED BY <2>1, LineKept DEF Line, Resting
<1>2. CASE Start \/ Stop
  <2>1. UNCHANGED <<result_queue, retry_queue, saved, worker, last, start_polling, commands, blame>>
    BY <1>2 DEF Start, Stop, histories
  <2> QED BY <1>2, <2>1, LineKept DEF Start, Stop, Line, Resting
<1>3. CASE Restore \/ SaveState \/ Crash
  BY <1>3, RestoreLine, EndedLine
<1>4. ASSUME NEW c \in Commands, Agent(c) \/ Poll(c) \/ NextStep(c) \/ StepStart(c)
      PROVE  Line'
  <2>1. UNCHANGED <<result_queue, retry_queue, saved, worker, last, start_polling, poller>>
    BY <1>4 DEF Agent, Poll, NextStep, StepStart, histories, clientVars
  <2>2. blame \subseteq blame'
    BY <1>4, BlameGrows DEF Next
  <2>3. Resting'
    <3>1. CASE Agent(c)
      BY <2>1, <3>1 DEF Agent, clientVars, Line, Resting
    <3>2. CASE commands[c].at # "idle" \/ poller = "polling"
      BY <2>1, <3>2 DEF Line, Resting
    <3> QED BY <1>4, <3>1, <3>2 DEF Poll, NextStep, StepStart
  <2> QED BY <2>1, <2>2, <2>3, LineKept
<1>5. ASSUME NEW c \in Commands, NEW ok \in BOOLEAN, StepEnd(c, ok) PROVE Line'
  BY <1>5, StepEndLine
<1>6. ASSUME NEW w \in ResultWorkers,
             Take(w) \/ Empty(w) \/ Sent(w) \/ AnswerLost(w) \/ NotSent(w)
      PROVE  Line'
  BY <1>6, TakeLine, EmptyLine, SendLine
<1> QED BY <1>1, <1>2, <1>3, <1>4, <1>5, <1>6 DEF Next

LEMMA StaysInLine == Lone => (Spec => [](IInv /\ Line))
<1> SUFFICES ASSUME Lone PROVE Spec => [](IInv /\ Line)
  OBVIOUS
<1>1. IInv /\ Line /\ [Next]_vars => (IInv /\ Line)'
  BY NextInv, NextLine
<1> QED BY <1>1, InitInv, InitLine, PTL DEF Spec

\* workers.py:50, "We want to send the results in the same order as the
\* execution": one result worker does, as long as the client does not die while it
\* restores them, whatever is refused, out of reach, stored or sent twice. The
\* queue of results to be sent again then never holds more than one, which is why
\* it may go first.
THEOREM SentInOrder == ASSUME Lone PROVE Spec => InOrder
<1>1. IInv /\ Line /\ [Next]_vars => [last' >= last \/ "crash" \in blame]_vars
  <2> SUFFICES ASSUME IInv, Line, Next, "crash" \notin blame PROVE last' >= last
    OBVIOUS
  <2>1. last \in Nat
    BY TypeParts DEF IInv, OthersTyped
  <2>2. CASE last' = last
    BY <2>1, <2>2
  <2>3. ASSUME NEW w \in ResultWorkers, Sent(w) \/ AnswerLost(w) PROVE last' >= last
    <3>1. worker[w].pc = "send" /\ last' = worker[w].result.run
      BY <2>3 DEF Sent, AnswerLost, Told
    <3>2. last <= worker[w].result.run
      BY <3>1 DEF Line, InLine, Begun
    <3>3. worker[w].result \in Results
      <4>1. worker[w].result \in Known
        BY <3>1 DEF Known, Unsent
      <4> QED BY <4>1, KnownTyped DEF IInv
    <3>4. worker[w].result.run \in Nat
      BY <3>3 DEF Results
    <3> QED BY <2>1, <3>1, <3>2, <3>4
  <2> QED BY <2>2, <2>3 DEF Next, Start, Restore, Stop, SaveState, Crash, Agent, Poll, NextStep,
             StepStart, StepEnd, Take, Empty, NotSent, histories
<1> QED BY <1>1, StaysInLine, PTL DEF Spec, InOrder

\* poller.py:186, "Wait to send all results before getting new commands": with one
\* result worker a client that restored results polls only once they are all sent,
\* but for the event of a worker that found nothing before they were there.
THEOREM WaitsForResults == ASSUME Lone PROVE Spec => Waits
<1>1. IInv /\ Line /\ [Next]_vars =>
        [poller = "waiting" /\ poller' = "polling" => Unsent = {} \/ "late event" \in blame]_vars
  <2> SUFFICES ASSUME IInv, Line, Next, poller = "waiting", poller' = "polling",
                      "late event" \notin blame
               PROVE  Unsent = {}
    OBVIOUS
  <2>1. Restore
    BY DEF Next, Start, Stop, SaveState, Crash, Ended, Agent, Poll, NextStep,
           StepStart, StepEnd, Take, Empty, Sent, AnswerLost, NotSent, Rest, clientVars
  <2> QED BY <2>1 DEF Restore, Line, Heard
<1> QED BY <1>1, StaysInLine, PTL DEF Spec, Waits

=============================================================================
