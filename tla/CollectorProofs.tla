-------------------------- MODULE CollectorProofs --------------------------
(***************************************************************************)
(* What holds of Collector for any number of requests, however they raise, *)
(* fail and expire: the trigger is never locked for nothing, no request is *)
(* lost because of another one, and no Deferred is fired twice.            *)
(***************************************************************************)
EXTENDS Collector, SequenceTheorems, FiniteSetTheorems, WellFoundedInduction, TLAPS

-----------------------------------------------------------------------------
(* Naturals.                                                               *)

\* A nonempty set of naturals has a least element: the intervals 1..n, finite
\* and ordered by inclusion, are well founded.
LEMMA Least ==
    ASSUME NEW T \in SUBSET Nat, T # {}
    PROVE  \E x \in T : \A y \in T : x <= y
<1> DEFINE I == {1..x : x \in T}
<1>1. I \subseteq FiniteSubsetsOf(Nat) /\ I # {}
  <2>1. ASSUME NEW x \in T PROVE 1..x \in SUBSET Nat /\ IsFiniteSet(1..x)
    BY FS_Interval
  <2> QED BY <2>1 DEF FiniteSubsetsOf
<1>2. IsWellFoundedOn(StrictSubsetOrdering(Nat), FiniteSubsetsOf(Nat))
  BY FS_StrictSubsetOrderingWellFounded
<1>3. PICK X \in I : \A Y \in I : ~ (<<Y, X>> \in StrictSubsetOrdering(Nat))
  <2> HIDE DEF I
  <2> QED BY <1>1, <1>2, WFMin
<1>4. PICK x \in T : X = 1..x
  BY <1>3
<1>5. ASSUME NEW y \in T, y < x PROVE FALSE
  <2>1. x \in Nat /\ y \in Nat
    OBVIOUS
  <2>2. 1..y \subseteq 1..x /\ x \in 1..x /\ x \notin 1..y
    BY <1>5, <2>1
  <2>3. <<1..y, 1..x>> \in StrictSubsetOrdering(Nat)
    BY <2>1, <2>2 DEF StrictSubsetOrdering
  <2>4. 1..y \in I
    OBVIOUS
  <2> QED BY <1>3, <1>4, <2>3, <2>4
<1>6. \A y \in T : x <= y
  BY <1>5
<1> QED BY <1>6

-----------------------------------------------------------------------------
(* do_calls(). *)

\* It takes a part of the queue from its head.
LEMMA TakenInQueue ==
    ASSUME NEW q \in Seq(Uids), NEW s, NEW k
    PROVE  Taken(q, s, k) \in 0..Len(q)
<1>1. CASE Cuts(q, s, k) = {}
  BY <1>1 DEF Taken
<1>2. CASE Cuts(q, s, k) # {}
  <2>1. Cuts(q, s, k) \in SUBSET Nat /\ Cuts(q, s, k) \subseteq 1..Len(q)
    BY DEF Cuts
  <2>2. \E n \in Cuts(q, s, k) : \A i \in Cuts(q, s, k) : n <= i
    BY <1>2, <2>1, Least
  <2>3. Taken(q, s, k) \in Cuts(q, s, k)
    BY <1>2, <2>2 DEF Taken
  <2> QED BY <2>1, <2>3
<1> QED BY <1>1, <1>2

\* What it does not take is left, in the same order.
LEMMA RestOfQueue ==
    ASSUME NEW q \in Seq(Uids), NEW s, NEW k,
           \A i, j \in DOMAIN q : q[i] = q[j] => i = j
    PROVE  /\ Rest(q, s, k) \in Seq(Uids)
           /\ In(q) = {q[i] : i \in 1..Taken(q, s, k)} \cup In(Rest(q, s, k))
           /\ \A i, j \in DOMAIN Rest(q, s, k) :
                 Rest(q, s, k)[i] = Rest(q, s, k)[j] => i = j
<1> DEFINE n == Taken(q, s, k)
           r == Rest(q, s, k)
<1>1. n \in 0..Len(q) /\ Len(q) \in Nat
  BY TakenInQueue
<1> HIDE DEF n
<1>2. \A i \in n + 1 .. Len(q) : q[i] \in Uids
  BY <1>1
<1>3. r = SubSeq(q, n + 1, Len(q))
  BY DEF Rest, n
<1> HIDE DEF r
<1>4. /\ r \in Seq(Uids)
      /\ DOMAIN r = 1 .. (Len(q) - n)
      /\ \A i \in 1 .. (Len(q) - n) : r[i] = q[n + i]
  BY <1>1, <1>2, <1>3
<1>5. DOMAIN q = 1..Len(q)
  OBVIOUS
<1>6. ASSUME NEW i \in DOMAIN r, NEW j \in DOMAIN r, r[i] = r[j]
      PROVE  i = j
  <2>1. i \in 1 .. (Len(q) - n) /\ j \in 1 .. (Len(q) - n)
    BY <1>4
  <2>2. /\ r[i] = q[n + i] /\ r[j] = q[n + j]
        /\ n + i \in DOMAIN q /\ n + j \in DOMAIN q
    BY <1>1, <1>4, <1>5, <2>1
  <2>3. n + i = n + j
    BY <1>6, <2>2
  <2> QED BY <1>1, <2>1, <2>3
<1>7. In(q) = {q[i] : i \in 1..n} \cup In(r)
  <2>1. ASSUME NEW i \in DOMAIN q
        PROVE  q[i] \in {q[j] : j \in 1..n} \cup In(r)
    <3>1. CASE i <= n
      BY <1>1, <3>1
    <3>2. CASE i > n
      <4>1. i - n \in 1 .. (Len(q) - n) /\ n + (i - n) = i
        BY <1>1, <1>5, <3>2
      <4>2. i - n \in DOMAIN r /\ r[i - n] = q[i]
        BY <1>4, <4>1
      <4> QED BY <4>2 DEF In
    <3> QED BY <1>1, <3>1, <3>2
  <2>2. ASSUME NEW i \in 1..n PROVE q[i] \in In(q)
    BY <1>1 DEF In
  <2>3. ASSUME NEW i \in DOMAIN r PROVE r[i] \in In(q)
    <3>1. i \in 1 .. (Len(q) - n) /\ r[i] = q[n + i]
      BY <1>4
    <3>2. n + i \in DOMAIN q
      BY <1>1, <1>5, <3>1
    <3> QED BY <3>1, <3>2 DEF In
  <2> QED BY <2>1, <2>2, <2>3 DEF In
<1> QED BY <1>4, <1>6, <1>7 DEF n, r

-----------------------------------------------------------------------------
(* The inductive invariant. *)

\* An open session has told nothing yet.
Untold == \A u \in sessions : told[u] = "none"

IInv == TypeOK /\ Kept /\ Unstuck /\ Untold

LEMMA InitInv == Init => IInv
<1> SUFFICES ASSUME Init PROVE IInv
  OBVIOUS
<1>1. TypeOK
  <2>1. locked \in BOOLEAN /\ awaited \in SUBSET pending
    BY DEF Init
  <2>2. kind \in [Uids -> Kinds] /\ told \in [Uids -> {"none", "answer", "expired"}]
    BY DEF Init, Kinds
  <2>3. /\ sessions \in SUBSET Uids /\ pending \in SUBSET Uids /\ spoilt \in SUBSET Uids
        /\ queue \in Seq(Uids) /\ faults \in Nat
    BY DEF Init
  <2> QED BY <2>1, <2>2, <2>3 DEF TypeOK
<1>2. DOMAIN queue = {}
  <2>1. queue = <<>>
    BY DEF Init
  <2>2. <<>> \in Seq(Uids) /\ Len(<<>>) = 0
    OBVIOUS
  <2>3. DOMAIN <<>> = 1..0
    BY <2>2
  <2> QED BY <2>1, <2>3
<1>3. Kept /\ Unstuck /\ Untold
  BY <1>2 DEF Init, Kept, Unstuck, Untold
<1> QED BY <1>1, <1>3 DEF IInv

\* A batch, from a queue, sessions and kinds that the new request joined.
LEMMA DoCallsInv ==
    ASSUME IInv, NEW q \in Seq(Uids), NEW s \in SUBSET Uids,
           NEW k \in [Uids -> Kinds], NEW was \in [Uids -> {"none", "answer", "expired"}],
           \A i, j \in DOMAIN q : q[i] = q[j] => i = j,
           s \subseteq In(q) \cup pending \cup spoilt,
           \A u \in s : was[u] = "none",
           kind' = k, faults' \in Nat,
           DoCalls(q, s, k, was)
    PROVE  IInv'
<1> DEFINE batch == Batch(q, s, k)
           quick == {u \in batch : k[u] = "quick"}
           slow  == {u \in batch : k[u] = "slow"}
           bad   == {u \in batch : k[u] = "bad"}
<1>1. /\ queue' = Rest(q, s, k) /\ sessions' = s \ quick
      /\ told' = [u \in Uids |-> IF u \in quick THEN "answer" ELSE was[u]]
      /\ pending' = pending \cup slow /\ spoilt' = spoilt \cup bad
      /\ awaited' = (IF Raised(q, s, k) THEN {} ELSE slow)
      /\ locked' = (~Raised(q, s, k) /\ slow # {})
  BY DEF DoCalls, Locks
<1>2. batch = {q[i] : i \in 1..Taken(q, s, k)} \cap s
  BY DEF Batch
<1>3. /\ Rest(q, s, k) \in Seq(Uids)
      /\ In(q) = {q[i] : i \in 1..Taken(q, s, k)} \cup In(Rest(q, s, k))
      /\ \A i, j \in DOMAIN Rest(q, s, k) :
            Rest(q, s, k)[i] = Rest(q, s, k)[j] => i = j
  BY RestOfQueue
<1> HIDE DEF batch
<1>4. batch \subseteq Uids /\ batch = quick \cup slow \cup bad
  BY <1>2 DEF Kinds
<1>5. TypeOK'
  BY <1>1, <1>3, <1>4 DEF IInv, TypeOK
<1>6. sessions' \subseteq In(queue') \cup pending' \cup spoilt'
  <2> SUFFICES ASSUME NEW u \in s \ quick
               PROVE  u \in In(queue') \cup pending' \cup spoilt'
    BY <1>1
  <2>1. CASE u \in batch
    BY <1>1, <1>4, <2>1
  <2>2. CASE u \notin batch
    BY <1>1, <1>2, <1>3, <2>2
  <2> QED BY <2>1, <2>2
<1>7. Kept'
  BY <1>1, <1>3, <1>6 DEF Kept, In
<1>8. Unstuck'
  BY <1>1 DEF Unstuck
<1>9. Untold'
  BY <1>1 DEF Untold
<1> QED BY <1>5, <1>7, <1>8, <1>9 DEF IInv

LEMMA ReceiveInv ==
    ASSUME IInv, NEW u \in Uids, NEW what \in Kinds, Receive(u, what)
    PROVE  IInv'
<1> DEFINE q   == Append(queue, u)
           s   == sessions \cup {u}
           k   == [kind EXCEPT ![u] = what]
           was == [told EXCEPT ![u] = "none"]
<1>1. /\ u \notin sessions /\ u \notin In(queue)
      /\ kind' = k
      /\ faults' = IF what = "bad" THEN faults + 1 ELSE faults
      /\ IF locked
         THEN /\ queue' = q /\ sessions' = s /\ told' = was
              /\ UNCHANGED <<pending, awaited, locked, spoilt>>
         ELSE DoCalls(q, s, k, was)
  BY DEF Receive, Known
<1>2. /\ queue \in Seq(Uids) /\ sessions \in SUBSET Uids
      /\ kind \in [Uids -> Kinds] /\ told \in [Uids -> {"none", "answer", "expired"}]
      /\ faults \in Nat
  BY DEF IInv, TypeOK
<1>3. /\ q \in Seq(Uids) /\ s \in SUBSET Uids /\ k \in [Uids -> Kinds]
      /\ was \in [Uids -> {"none", "answer", "expired"}] /\ faults' \in Nat
  BY <1>1, <1>2
<1>4. /\ Len(q) = Len(queue) + 1 /\ q[Len(queue) + 1] = u
      /\ \A i \in 1..Len(queue) : q[i] = queue[i]
  BY <1>2
<1>5. In(q) = In(queue) \cup {u}
  BY <1>2, <1>4 DEF In
<1>6. \A i, j \in DOMAIN q : q[i] = q[j] => i = j
  <2> SUFFICES ASSUME NEW i \in DOMAIN q, NEW j \in DOMAIN q, q[i] = q[j]
               PROVE  i = j
    OBVIOUS
  <2>1. \A m \in 1..Len(queue) : queue[m] # u
    BY <1>1, <1>2 DEF In
  <2>2. CASE i \in 1..Len(queue) /\ j \in 1..Len(queue)
    BY <1>2, <1>4, <2>2 DEF IInv, Kept
  <2>3. CASE i = Len(queue) + 1 \/ j = Len(queue) + 1
    BY <1>2, <1>4, <2>1, <2>3
  <2> QED BY <1>2, <1>3, <1>4, <2>2, <2>3
<1>7. s \subseteq In(q) \cup pending \cup spoilt
  BY <1>5 DEF IInv, Kept
<1>8. \A v \in s : was[v] = "none"
  BY <1>2 DEF IInv, Untold
<1> HIDE DEF q, s, k, was
<1>9. CASE locked
  <2>1. TypeOK'
    BY <1>1, <1>3, <1>9 DEF IInv, TypeOK
  <2>2. Kept' /\ Untold'
    BY <1>1, <1>6, <1>7, <1>8, <1>9 DEF Kept, Untold, In
  <2>3. Unstuck'
    BY <1>1, <1>9 DEF IInv, Unstuck
  <2> QED BY <2>1, <2>2, <2>3 DEF IInv
<1>10. CASE ~locked
  <2>1. DoCalls(q, s, k, was)
    BY <1>1, <1>10
  <2> QED BY <1>1, <1>3, <1>6, <1>7, <1>8, <2>1, DoCallsInv
<1> QED BY <1>9, <1>10

LEMMA ReturnInv ==
    ASSUME IInv, NEW u \in Uids, NEW ok \in BOOLEAN, Return(u, ok)
    PROVE  IInv'
<1>1. /\ u \in pending /\ pending' = pending \ {u} /\ awaited' = awaited \ {u}
      /\ locked' = (locked /\ awaited' # {})
      /\ IF ok /\ u \in sessions
         THEN sessions' = sessions \ {u} /\ told' = [told EXCEPT ![u] = "answer"]
         ELSE UNCHANGED <<sessions, told>>
      /\ IF ok THEN UNCHANGED <<spoilt, faults>>
         ELSE faults' = faults + 1 /\ spoilt' = spoilt \cup ({u} \cap sessions)
      /\ UNCHANGED <<queue, kind>>
  BY DEF Return, Live
<1>2. TypeOK'
  BY <1>1 DEF IInv, TypeOK
<1>3. Kept'
  BY <1>1 DEF IInv, Kept, In
<1>4. Unstuck'
  BY <1>1 DEF Unstuck
<1>5. Untold'
  BY <1>1 DEF IInv, TypeOK, Untold
<1> QED BY <1>2, <1>3, <1>4, <1>5 DEF IInv

LEMMA ExpireInv ==
    ASSUME IInv, NEW u \in Uids, Expire(u)
    PROVE  IInv'
<1>1. /\ sessions' = sessions \ {u} /\ told' = [told EXCEPT ![u] = "expired"]
      /\ spoilt' = spoilt \ {u}
      /\ UNCHANGED <<queue, kind, pending, awaited, locked, faults>>
  BY DEF Expire
<1>2. TypeOK' /\ Untold'
  BY <1>1 DEF IInv, TypeOK, Untold
<1>3. Kept' /\ Unstuck'
  BY <1>1 DEF IInv, Kept, Unstuck, In
<1> QED BY <1>2, <1>3 DEF IInv

LEMMA StepInv == IInv /\ [Next]_vars => IInv'
<1> SUFFICES ASSUME IInv, [Next]_vars PROVE IInv'
  OBVIOUS
<1>1. ASSUME NEW u \in Uids, NEW what \in Kinds, Receive(u, what) PROVE IInv'
  BY <1>1, ReceiveInv
<1>2. ASSUME NEW u \in Uids, NEW ok \in BOOLEAN, Return(u, ok) PROVE IInv'
  BY <1>2, ReturnInv
<1>3. ASSUME NEW u \in Uids, Expire(u) PROVE IInv'
  BY <1>3, ExpireInv
<1>4. CASE UNCHANGED vars
  BY <1>4 DEF vars, IInv, TypeOK, Kept, Unstuck, Untold, In
<1> QED BY <1>1, <1>2, <1>3, <1>4 DEF Next

\* IInv holds in every behaviour of the connection manager.
THEOREM Invariance == Spec => []IInv
BY InitInv, StepInv, PTL DEF Spec

-----------------------------------------------------------------------------
(* Results. *)

\* The variables of the connection manager keep their types.
THEOREM Typing == Spec => []TypeOK
<1>1. IInv => TypeOK
  BY DEF IInv
<1> QED BY <1>1, Invariance, PTL

\* A request that is open is queued or called, unless its own call went wrong.
THEOREM RequestsKept == Spec => []Kept
<1>1. IInv => Kept
  BY DEF IInv
<1> QED BY <1>1, Invariance, PTL

\* The trigger is locked only for a call that will unlock it.
THEOREM TriggerUnlocks == Spec => []Unstuck
<1>1. IInv => Unstuck
  BY DEF IInv
<1> QED BY <1>1, Invariance, PTL

\* A step changes what was told for a new request only.
LEMMA StepTellsOnce ==
    ASSUME IInv, Next, NEW u \in Uids, told[u] # "none", told'[u] # told[u]
    PROVE  \E what \in Kinds : Receive(u, what)
<1>1. u \notin sessions /\ told \in [Uids -> {"none", "answer", "expired"}]
  BY DEF IInv, TypeOK, Untold
<1>2. ASSUME NEW v \in Uids, NEW what \in Kinds, Receive(v, what), v # u
      PROVE  FALSE
  <2>1. CASE locked
    BY <1>1, <1>2, <2>1 DEF Receive
  <2>2. CASE ~locked
    <3>1. DoCalls(Append(queue, v), sessions \cup {v}, [kind EXCEPT ![v] = what],
                  [told EXCEPT ![v] = "none"])
      BY <1>2, <2>2 DEF Receive
    <3>2. told'[u] = [told EXCEPT ![v] = "none"][u]
      BY <1>1, <1>2, <3>1 DEF DoCalls, Batch
    <3> QED BY <1>1, <1>2, <3>2
  <2> QED BY <2>1, <2>2
<1>3. ASSUME NEW v \in Uids, NEW ok \in BOOLEAN, Return(v, ok) PROVE FALSE
  BY <1>1, <1>3 DEF Return, Live
<1>4. ASSUME NEW v \in Uids, Expire(v) PROVE FALSE
  BY <1>1, <1>4 DEF Expire
<1> QED BY <1>2, <1>3, <1>4 DEF Next

\* The answer and the timeout never fire the same Deferred twice.
THEOREM FiredOnce == Spec => AnsweredOnce
<1>1. IInv /\ [Next]_vars =>
        [\A u \in Uids : \/ told[u] = "none"
                         \/ told'[u] = told[u]
                         \/ \E what \in Kinds : Receive(u, what)]_vars
  BY StepTellsOnce
<1> QED BY <1>1, Invariance, PTL DEF Spec, AnsweredOnce
=============================================================================
