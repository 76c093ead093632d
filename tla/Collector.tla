----------------------------- MODULE Collector -----------------------------
(***************************************************************************)
(* The connection manager: machines send requests, the Collector queues    *)
(* them and opens a session for each, the Trigger has the endpoints called *)
(* for what is queued, one batch at a time, and the answer of a call fires *)
(* the Deferred of its session, unless the session expired meanwhile.      *)
(* A handler of the reactor is one step. A request is its uid; a uid comes *)
(* back once neither sessions nor queue nor a call refer to it.            *)
(***************************************************************************)
EXTENDS Naturals, Sequences, FiniteSets

CONSTANTS
    Uids,       \* the requests known at a time
    MaxFaults   \* bound: requests that raise, calls that fail

ASSUME CollectorAssumption == MaxFaults \in Nat

VARIABLES
    sessions,   \* the uids in Sessions.content: their Deferred is not fired
    queue,      \* Collector.queue
    kind,       \* what the call of a request will do
    pending,    \* the calls whose Deferred is not fired
    awaited,    \* those of them in the DeferredList that unlocks the trigger
    locked,     \* Trigger.locked
    told,       \* history: how the last Deferred of a uid was fired
    spoilt,     \* history: the requests whose call raised or failed
    faults      \* requests that raise and calls that fail, so far

vars == <<sessions, queue, kind, pending, awaited, locked, told, spoilt, faults>>

\* "quick" calls return a Deferred that is already fired, "bad" requests raise in
\* extract(), in call() or in the endpoint's method.
Kinds == {"quick", "slow", "bad"}

In(q) == {q[i] : i \in DOMAIN q}

Init ==
    /\ sessions = {} /\ queue = <<>> /\ pending = {} /\ awaited = {}
    /\ kind = [u \in Uids |-> "quick"]
    /\ locked = FALSE
    /\ told = [u \in Uids |-> "none"] /\ spoilt = {} /\ faults = 0

-----------------------------------------------------------------------------
(* do_calls() on the queue q, with the sessions s and the kinds k. *)

\* What ends its loop: get() returns None for a request that expired in the
\* queue, as it does for an empty queue; a bad request raises out of do_calls().
Cuts(q, s, k) == {i \in DOMAIN q : q[i] \notin s \/ k[q[i]] = "bad"}

\* How many requests it takes from the queue.
Taken(q, s, k) ==
    IF Cuts(q, s, k) = {} THEN Len(q)
    ELSE CHOOSE n \in Cuts(q, s, k) : \A i \in Cuts(q, s, k) : n <= i

\* What it calls, and what it leaves in the queue. Mutant: a cut empties the queue.
Batch(q, s, k) == {q[i] : i \in 1..Taken(q, s, k)} \cap s
MutRest(q, s, k) == <<>>
Rest(q, s, k) == SubSeq(q, Taken(q, s, k) + 1, Len(q))

Raised(q, s, k) == \E u \in Batch(q, s, k) : k[u] = "bad"

\* The lock is kept for the DeferredList, which fires at once without a pending
\* call; failed() goes on to finished(), which releases the lock as well.
\* Mutants: it does not; an empty list keeps it.
MutLocks(raised, slow)      == slow # {}
MutLocksEmpty(raised, slow) == ~raised
Locks(raised, slow)         == ~raised /\ slow # {}

\* The calls of the batch. The quick ones are answered at once, and those begun
\* before one raised are no longer awaited.
DoCalls(q, s, k, was) ==
    LET quick == {u \in Batch(q, s, k) : k[u] = "quick"}
        slow  == {u \in Batch(q, s, k) : k[u] = "slow"}
    IN  /\ queue' = Rest(q, s, k)
        /\ sessions' = s \ quick
        /\ told' = [u \in Uids |-> IF u \in quick THEN "answer" ELSE was[u]]
        /\ pending' = pending \cup slow
        /\ awaited' = IF Raised(q, s, k) THEN {} ELSE slow
        /\ locked' = Locks(Raised(q, s, k), slow)
        /\ spoilt' = spoilt \cup {u \in Batch(q, s, k) : k[u] = "bad"}

-----------------------------------------------------------------------------
(* Handlers. *)

\* The uids something refers to.
Known == sessions \cup In(queue) \cup pending

\* dataReceived(): a session and a place in the queue for the request, then
\* fire(), which does nothing while the trigger is locked.
Receive(u, what) ==
    /\ u \notin Known
    /\ what = "bad" => faults < MaxFaults
    /\ LET q   == Append(queue, u)
           s   == sessions \cup {u}
           k   == [kind EXCEPT ![u] = what]
           was == [told EXCEPT ![u] = "none"]
       IN  /\ kind' = k
           /\ IF locked
              THEN /\ queue' = q /\ sessions' = s /\ told' = was
                   /\ UNCHANGED <<pending, awaited, locked, spoilt>>
              ELSE DoCalls(q, s, k, was)
    /\ faults' = IF what = "bad" THEN faults + 1 ELSE faults

\* uid in sessions. Mutant: _reply() does not ask.
MutLive(u) == TRUE
Live(u)    == u \in sessions

\* The call of u ends: _reply() releases the session, for which pop() raises
\* when it expired; a failure is logged and nothing more. The last call of the
\* list unlocks the trigger, and nobody looks at the queue.
Return(u, ok) ==
    /\ u \in pending
    /\ pending' = pending \ {u} /\ awaited' = awaited \ {u}
    /\ locked' = (locked /\ awaited' # {})
    /\ IF ok /\ Live(u)
       THEN sessions' = sessions \ {u} /\ told' = [told EXCEPT ![u] = "answer"]
       ELSE UNCHANGED <<sessions, told>>
    /\ IF ok THEN UNCHANGED <<spoilt, faults>>
       ELSE /\ faults < MaxFaults /\ faults' = faults + 1
            /\ spoilt' = spoilt \cup ({u} \cap sessions)
    /\ UNCHANGED <<queue, kind>>

\* _expire(): the Deferred is fired with False; a queued request stays queued.
Expire(u) ==
    /\ u \in sessions
    /\ sessions' = sessions \ {u}
    /\ told' = [told EXCEPT ![u] = "expired"]
    /\ spoilt' = spoilt \ {u}
    /\ UNCHANGED <<queue, kind, pending, awaited, locked, faults>>

Next == \E u \in Uids :
    \/ \E what \in Kinds : Receive(u, what)
    \/ \E ok \in BOOLEAN : Return(u, ok)
    \/ Expire(u)

Spec == Init /\ [][Next]_vars

\* Machines send "periodically several informations" (server.py:38), endpoints
\* answer. Only the sessions that nobody will answer are assumed to expire.
FairSpec ==
    /\ Spec
    /\ WF_vars(\E u \in Uids, what \in {"quick", "slow"} : Receive(u, what))
    /\ \A u \in Uids : WF_vars(Return(u, TRUE)) /\ WF_vars(u \in spoilt /\ Expire(u))

-----------------------------------------------------------------------------
(* Properties. *)

\* Every variable has its type.
TypeOK ==
    /\ sessions \in SUBSET Uids /\ pending \in SUBSET Uids /\ spoilt \in SUBSET Uids
    /\ queue \in Seq(Uids)
    /\ kind \in [Uids -> Kinds]
    /\ awaited \in SUBSET pending
    /\ locked \in BOOLEAN
    /\ told \in [Uids -> {"none", "answer", "expired"}]
    /\ faults \in Nat

\* A session that is open has its request in the queue or a call on its way,
\* unless that call raised or failed: nobody is left to wait for the hour of the
\* timeout because of what happened to another request. None is queued twice.
Kept ==
    /\ sessions \subseteq In(queue) \cup pending \cup spoilt
    /\ \A i, j \in DOMAIN queue : queue[i] = queue[j] => i = j

\* The trigger is locked only for a call that will unlock it, whatever raised in
\* the middle of a batch: else no request would ever be taken again.
Unstuck == locked => awaited # {}

\* A Deferred is fired once, by the answer or by the timeout, whichever comes
\* first, until the uid stands for another request: a second time would raise
\* AlreadyCalledError in _reply() or _expire().
AnsweredOnce ==
    [][\A u \in Uids : \/ told[u] = "none"
                       \/ told'[u] = told[u]
                       \/ \E what \in Kinds : Receive(u, what)]_vars

\* Nothing is taken when the trigger unlocks, and a cut leaves the rest of the
\* batch behind: but as long as machines send, every request is answered or
\* expires, those apart whose call raised or failed.
Served == \A u \in Uids : u \in sessions ~> (u \notin sessions \/ u \in spoilt)
=============================================================================
