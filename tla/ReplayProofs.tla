---------------------------- MODULE ReplayProofs ----------------------------
(***************************************************************************)
(* What holds of Replay for every rpc_count and every bound: its types,    *)
(* that no call is lost, and that runs overlap no more than init() was     *)
(* called again (IInv); and, while the replayer was initialised once, that *)
(* calls are sent in turn and none is sent after its answer (Once).        *)
(***************************************************************************)
EXTENDS Replay, FiniteSetTheorems, WellFoundedInduction, TLAPS

\* What is in _success was carried out by the agent.
Acknowledged == \A s \in Stamps : success[s] > 0 => s \in executed

\* While no replay is marked as in progress, there is one run less.
Overlaps == Cardinality(Busy) <= budget.refreshes + (IF replaying THEN 1 ELSE 0)

\* The parts of TypeOK about the file and the runs.
FileTyped(data) ==
  /\ DOMAIN data \subseteq 1 .. failed
  /\ \A s \in DOMAIN data : data[s] \in {PENDING, INPROGRESS}
RunsTyped(rs) ==
  /\ rs \in [Runs -> [waiting : SUBSET (1 .. failed), calling : SUBSET (1 .. failed)]]
  /\ \A r \in Runs : rs[r].waiting \cap rs[r].calling = {}
  /\ \A r \in Runs : Cardinality(rs[r].waiting \cup rs[r].calling) <= Batch
BusyIn(rs) == {r \in Runs : rs[r] # Idle}

IInv == TypeOK /\ Acknowledged /\ Kept /\ Overlaps

LEMMA Constants ==
  /\ Batch \in Nat \ {0} /\ MaxCalls \in Nat /\ MaxRefreshes \in Nat
  /\ MaxFailures \in Nat /\ MaxCrashes \in Nat /\ MaxOld \in Nat
BY ReplayAssumption DEF ReplayAssumption

-----------------------------------------------------------------------------
(* Counting. *)

\* The calls that fail are finitely many.
LEMMA Sized ==
  ASSUME NEW n \in Nat, NEW S \in SUBSET (1 .. n)
  PROVE  IsFiniteSet(S) /\ Cardinality(S) \in Nat
<1>1. 1 \in Int /\ n \in Int
  OBVIOUS
<1>2. IsFiniteSet(1 .. n)
  BY <1>1, FS_Interval
<1>3. IsFiniteSet(S)
  BY <1>2, FS_Subset
<1> QED BY <1>3, FS_CardinalityType

\* A nonempty set of them has a latest one.
LEMMA Latest ==
  ASSUME NEW n \in Nat, NEW S \in SUBSET (1 .. n), S # {}
  PROVE  \E m \in S : \A s \in S : s <= m
<1> DEFINE Above(x) == {s \in S : x < s}
<1> DEFINE I == {Above(x) : x \in S}
<1>1. I \subseteq FiniteSubsetsOf(1 .. n) /\ I # {}
  <2>1. ASSUME NEW x \in S PROVE Above(x) \in SUBSET (1 .. n) /\ IsFiniteSet(Above(x))
    BY Sized
  <2> QED BY <2>1 DEF FiniteSubsetsOf
<1>2. IsWellFoundedOn(StrictSubsetOrdering(1 .. n), FiniteSubsetsOf(1 .. n))
  BY FS_StrictSubsetOrderingWellFounded
<1>3. PICK X \in I : \A Y \in I : ~ (<<Y, X>> \in StrictSubsetOrdering(1 .. n))
  <2> HIDE DEF I
  <2> QED BY <1>1, <1>2, WFMin
<1>4. PICK m \in S : X = Above(m)
  OBVIOUS
<1>5. ASSUME NEW y \in S, m < y PROVE FALSE
  <2>1. m \in Int /\ y \in Int /\ \A s \in S : s \in Int
    OBVIOUS
  <2>2. Above(y) \subseteq Above(m) /\ y \in Above(m) /\ y \notin Above(y)
    <3>1. ASSUME NEW s \in S, y < s PROVE m < s
      BY <1>5, <2>1, <3>1
    <3>2. Above(y) \subseteq Above(m)
      BY <3>1
    <3>3. y \in Above(m)
      BY <1>5
    <3>4. ~ (y < y)
      BY <2>1
    <3> QED BY <3>2, <3>3, <3>4
  <2>3. Above(y) \subseteq 1 .. n /\ Above(m) \subseteq 1 .. n
    OBVIOUS
  <2> HIDE DEF Above
  <2>4. <<Above(y), Above(m)>> \in StrictSubsetOrdering(1 .. n)
    BY <2>2, <2>3 DEF StrictSubsetOrdering
  <2> QED BY <1>3, <1>4, <2>4
<1>6. \A s \in S : s <= m
  BY <1>5
<1> QED BY <1>6

\* pop() takes rpc_count calls at most: the latest one it takes has all the
\* others before it.
LEMMA AtMostBatch ==
  ASSUME NEW n \in Nat, NEW P \in SUBSET (1 .. n),
         NEW Q, Q = {s \in P : Cardinality({t \in P : t < s}) < Batch}
  PROVE  Cardinality(Q) <= Batch
<1>1. CASE Q = {}
  <2>1. Cardinality(Q) = 0
    BY <1>1, FS_EmptySet, Zenon
  <2> QED BY <2>1, Constants
<1>2. CASE Q # {}
  <2>1. Q \in SUBSET (1 .. n)
    OBVIOUS
  <2>2. PICK m \in Q : \A s \in Q : s <= m
    BY <1>2, <2>1, Latest
  <2> DEFINE B == {t \in P : t < m}
  <2>3. B \in SUBSET (1 .. n) /\ IsFiniteSet(B) /\ Cardinality(B) \in Nat
    BY Sized
  <2>4. Q \ {m} \in SUBSET B
    BY <2>1, <2>2
  <2>5. Cardinality(Q \ {m}) <= Cardinality(B)
    BY <2>3, <2>4, FS_Subset
  <2>6. IsFiniteSet(Q) /\ Cardinality(Q) \in Nat
    BY <2>1, Sized
  <2>7. Cardinality(Q \ {m}) = Cardinality(Q) - 1
    BY <2>6, FS_RemoveElement
  <2>8. Cardinality(B) < Batch
    BY <2>2
  <2> HIDE DEF B
  <2> QED BY <2>3, <2>5, <2>6, <2>7, <2>8, Constants
<1> QED BY <1>1, <1>2

\* A set of runs with at most one run more, or with one run less.
LEMMA BusyCount ==
  ASSUME NEW A \in SUBSET Runs, NEW B \in SUBSET Runs, NEW x
  PROVE  /\ Cardinality(A) \in Nat /\ Cardinality(B) \in Nat
         /\ B \subseteq A => Cardinality(B) <= Cardinality(A)
         /\ B \subseteq A \cup {x} => Cardinality(B) <= Cardinality(A) + 1
         /\ B \subseteq A \ {x} /\ x \in A => Cardinality(B) <= Cardinality(A) - 1
<1>1. MaxRefreshes + 1 \in Nat
  BY Constants
<1>2. IsFiniteSet(A) /\ IsFiniteSet(B) /\ Cardinality(A) \in Nat /\ Cardinality(B) \in Nat
  BY <1>1, Sized DEF Runs
<1>3. IsFiniteSet(A \cup {x}) /\ IsFiniteSet(A \ {x})
  BY <1>2, FS_AddElement, FS_RemoveElement
<1>4. Cardinality(A \cup {x}) <= Cardinality(A) + 1
  <2>1. Cardinality(A \cup {x}) = IF x \in A THEN Cardinality(A) ELSE Cardinality(A) + 1
    BY <1>2, FS_AddElement
  <2> QED BY <1>2, <2>1
<1>5. x \in A => Cardinality(A \ {x}) = Cardinality(A) - 1
  BY <1>2, FS_RemoveElement
<1>6. B \subseteq A => Cardinality(B) <= Cardinality(A)
  BY <1>2, FS_Subset
<1>7. /\ B \subseteq A \cup {x} => Cardinality(B) <= Cardinality(A \cup {x})
      /\ Cardinality(A \cup {x}) \in Nat
  BY <1>3, FS_Subset, FS_CardinalityType
<1>8. /\ B \subseteq A \ {x} => Cardinality(B) <= Cardinality(A \ {x})
      /\ Cardinality(A \ {x}) \in Nat
  BY <1>3, FS_Subset, FS_CardinalityType
<1> QED BY <1>2, <1>4, <1>5, <1>6, <1>7, <1>8

-----------------------------------------------------------------------------
(* The file and the runs. *)

LEMMA TypeParts == TypeOK => FileTyped(file) /\ RunsTyped(runs) /\ failed \in Nat
BY Constants DEF TypeOK, FileTyped, RunsTyped

\* A run drops what is too old, takes rpc_count calls at most, and adds one
\* run at most.
LEMMA Starting ==
  ASSUME TypeOK, NEW data, FileTyped(data), NEW now, RunsTyped(now),
         UNCHANGED failed, StartRun(data, now)
  PROVE  /\ FileTyped(file)' /\ RunsTyped(runs)'
         /\ success' \in [Stamps -> Nat] /\ replaying' \in BOOLEAN
         /\ \A s \in Stamps : success'[s] = 0
         /\ DOMAIN file' = Valid(data)
         /\ ~replaying' => Busy' = BusyIn(now)
         /\ \E x : Busy' \subseteq BusyIn(now) \cup {x}
<1> DEFINE P == Popped(data)
<1>1. failed \in Nat
  BY TypeParts
<1>2. Pending(data) \in SUBSET (1 .. failed)
  BY DEF Pending, Valid, FileTyped
<1>3. P \in SUBSET (1 .. failed) /\ Cardinality(P) <= Batch
  BY <1>1, <1>2, AtMostBatch DEF Popped
<1>4. FileTyped(file)' /\ DOMAIN file' = Valid(data)
  BY DEF StartRun, AfterPop, Valid, FileTyped
<1>5. success' = NoSuccess /\ replaying' = (P # {})
  BY DEF StartRun
<1>6. PICK x : runs' = IF P = {} THEN now
                       ELSE [now EXCEPT ![x] = [waiting |-> P, calling |-> {}]]
  BY DEF StartRun
<1>7. \A r \in Runs : runs'[r] = now[r] \/ (r = x /\ runs'[r] = [waiting |-> P, calling |-> {}])
  BY <1>6 DEF RunsTyped
<1>8. RunsTyped(runs)'
  <2>1. [waiting |-> P, calling |-> {}] \in [waiting : SUBSET (1 .. failed), calling : SUBSET (1 .. failed)]
    BY <1>3
  <2>2. runs' \in [Runs -> [waiting : SUBSET (1 .. failed), calling : SUBSET (1 .. failed)]]
    BY <1>6, <2>1 DEF RunsTyped
  <2>3. ASSUME NEW r \in Runs
        PROVE  /\ runs'[r].waiting \cap runs'[r].calling = {}
               /\ Cardinality(runs'[r].waiting \cup runs'[r].calling) <= Batch
    <3>1. P \cup {} = P
      OBVIOUS
    <3>2. CASE runs'[r] = now[r]
      BY <3>2 DEF RunsTyped
    <3>3. CASE runs'[r] = [waiting |-> P, calling |-> {}]
      BY <3>3, <3>1, <1>3
    <3> QED BY <1>7, <3>2, <3>3
  <2> QED BY <2>2, <2>3 DEF RunsTyped
<1>9. Busy' \subseteq BusyIn(now) \cup {x}
  BY <1>7 DEF Busy, BusyIn
<1>10. ~replaying' => Busy' = BusyIn(now)
  BY <1>5, <1>6 DEF Busy, BusyIn
<1>11. success' \in [Stamps -> Nat] /\ \A s \in Stamps : success'[s] = 0
  BY <1>5 DEF NoSuccess
<1> QED BY <1>4, <1>5, <1>8, <1>9, <1>10, <1>11

\* A call that ends: its run gets shorter or ends, and what is dropped was in
\* the list.
LEMMA Ending ==
  ASSUME TypeOK, NEW r \in Runs, NEW s \in runs[r].calling,
         NEW data, FileTyped(data), NEW list,
         UNCHANGED failed, EndCall(r, s, data, list)
  PROVE  /\ FileTyped(file)' /\ RunsTyped(runs)'
         /\ success' = list /\ replaying' \in BOOLEAN
         /\ s \in 1 .. failed
         /\ \A t \in DOMAIN data : t \in DOMAIN file' \/ list[t] # 0
         /\ \/ Busy' \subseteq Busy /\ replaying' = replaying
            \/ Busy' \subseteq Busy \ {r} /\ r \in Busy /\ ~replaying'
<1> DEFINE left == [waiting |-> runs[r].waiting, calling |-> runs[r].calling \ {s}]
<1>1. /\ runs' = [runs EXCEPT ![r] = left]
      /\ success' = list
      /\ \/ left = Idle /\ file' = Discard(data, list) /\ replaying' = FALSE
         \/ left # Idle /\ file' = data /\ replaying' = replaying
  BY DEF EndCall
<1>2. RunsTyped(runs) /\ failed \in Nat
  BY TypeParts
<1>3. runs[r] \in [waiting : SUBSET (1 .. failed), calling : SUBSET (1 .. failed)]
  BY <1>2 DEF RunsTyped
<1>4. runs'[r] = left /\ \A q \in Runs : q # r => runs'[q] = runs[q]
  BY <1>1, <1>2 DEF RunsTyped
<1>5. RunsTyped(runs)'
  <2>1. left \in [waiting : SUBSET (1 .. failed), calling : SUBSET (1 .. failed)]
    BY <1>3
  <2>2. runs' \in [Runs -> [waiting : SUBSET (1 .. failed), calling : SUBSET (1 .. failed)]]
    BY <1>1, <1>2, <2>1 DEF RunsTyped
  <2>3. left.waiting \cap left.calling = {} /\ Cardinality(left.waiting \cup left.calling) <= Batch
    <3> DEFINE S == runs[r].waiting \cup runs[r].calling
    <3>1. S \in SUBSET (1 .. failed) /\ Cardinality(S) <= Batch
      BY <1>2, <1>3 DEF RunsTyped
    <3>2. IsFiniteSet(S) /\ Cardinality(S) \in Nat
      BY <1>2, <3>1, Sized
    <3>3. left.waiting \cup left.calling \in SUBSET S
      OBVIOUS
    <3>4. Cardinality(left.waiting \cup left.calling) <= Cardinality(S)
      BY <3>2, <3>3, FS_Subset
    <3>5. Cardinality(left.waiting \cup left.calling) \in Nat
      BY <3>2, <3>3, FS_Subset, FS_CardinalityType
    <3>6. left.waiting \cap left.calling = {}
      BY <1>2 DEF RunsTyped
    <3> HIDE DEF S
    <3> QED BY <3>1, <3>2, <3>4, <3>5, <3>6, Constants
  <2>4. ASSUME NEW q \in Runs
        PROVE  /\ runs'[q].waiting \cap runs'[q].calling = {}
               /\ Cardinality(runs'[q].waiting \cup runs'[q].calling) <= Batch
    BY <1>2, <1>4, <2>3 DEF RunsTyped
  <2> QED BY <2>2, <2>4 DEF RunsTyped
<1>6. r \in Busy
  BY DEF Busy, Idle
<1>7. \/ Busy' \subseteq Busy /\ replaying' = replaying
      \/ Busy' \subseteq Busy \ {r} /\ r \in Busy /\ ~replaying'
  BY <1>1, <1>4, <1>6 DEF Busy
<1>8. FileTyped(file)' /\ \A t \in DOMAIN data : t \in DOMAIN file' \/ list[t] # 0
  <2>1. CASE file' = data
    BY <2>1 DEF FileTyped
  <2>2. CASE file' = Discard(data, list)
    BY <2>2 DEF FileTyped, Discard
  <2> QED BY <1>1, <2>1, <2>2
<1>9. replaying' \in BOOLEAN
  BY <1>1 DEF TypeOK
<1>10. s \in 1 .. failed
  BY <1>3
<1> QED BY <1>1, <1>5, <1>7, <1>8, <1>9, <1>10

-----------------------------------------------------------------------------
(* The invariant. *)

LEMMA InitIInv == Init => IInv
<1> SUFFICES ASSUME Init PROVE IInv
  OBVIOUS
<1>1. failed = 0 /\ old = 0 /\ runs = [r \in Runs |-> Idle] /\ replaying = FALSE
      /\ file = NoFile /\ success = NoSuccess /\ executed = {} /\ tried = {}
      /\ acked = {} /\ torn = {}
  BY DEF Init
<1>2. budget = [refreshes |-> 0, failures |-> 0, crashes |-> 0]
  BY DEF Init
<1>3. budget \in [refreshes : 0 .. MaxRefreshes, failures : 0 .. MaxFailures,
                 crashes : 0 .. MaxCrashes] /\ budget.refreshes = 0
  BY <1>2, Constants
<1>4. RunsTyped(runs)
  <2>1. Idle \in [waiting : SUBSET (1 .. failed), calling : SUBSET (1 .. failed)]
    BY DEF Idle
  <2>2. Idle.waiting \cap Idle.calling = {} /\ Idle.waiting \cup Idle.calling = {}
    BY DEF Idle
  <2>3. Cardinality({}) <= Batch
    <3>1. Cardinality({}) = 0
      BY FS_EmptySet
    <3> QED BY <3>1, Constants
  <2> QED BY <1>1, <2>1, <2>2, <2>3 DEF RunsTyped
<1>5. FileTyped(file)
  BY <1>1 DEF FileTyped, NoFile
<1>6. success \in [Stamps -> Nat]
  BY <1>1 DEF NoSuccess
<1>7. failed \in 0 .. MaxCalls /\ old \in 0 .. failed
  BY <1>1, Constants
<1>8. TypeOK
  BY <1>1, <1>3, <1>4, <1>5, <1>6, <1>7 DEF TypeOK, FileTyped, RunsTyped
<1>9. Acknowledged
  BY <1>1 DEF Acknowledged, NoSuccess
<1>10. Kept
  <2>1. 1 .. failed = {}
    BY <1>1
  <2> QED BY <2>1 DEF Kept
<1>11. Overlaps
  <2>1. Busy = {}
    BY <1>1 DEF Busy
  <2>2. Cardinality(Busy) = 0
    BY <2>1, FS_EmptySet
  <2> QED BY <1>1, <1>3, <2>2 DEF Overlaps
<1> QED BY <1>8, <1>9, <1>10, <1>11 DEF IInv

LEMMA FirstFailsKeeps == ASSUME IInv, FirstFails PROVE IInv'
<1>1. /\ failed < MaxCalls /\ failed' = failed + 1 /\ file' = Add(file, failed + 1)
      /\ UNCHANGED <<replaying, success, runs, old, budget, executed, tried, acked, torn>>
  BY DEF FirstFails
<1>2. FileTyped(file) /\ RunsTyped(runs) /\ failed \in 0 .. MaxCalls /\ old \in 0 .. failed
  BY TypeParts DEF IInv, TypeOK
<1>3. 1 .. failed \subseteq 1 .. failed' /\ failed' \in 0 .. MaxCalls /\ old \in 0 .. failed'
      /\ failed + 1 \in 1 .. failed'
  BY <1>1, <1>2, Constants
<1>4. FileTyped(file)'
  BY <1>1, <1>2, <1>3 DEF FileTyped, Add
<1>5. RunsTyped(runs)'
  BY <1>1, <1>2, <1>3 DEF RunsTyped
<1>6. TypeOK'
  BY <1>1, <1>3, <1>4, <1>5 DEF IInv, TypeOK, FileTyped, RunsTyped
<1>7. Kept'
  <2>1. ASSUME NEW s \in 1 .. failed' PROVE s \in 1 .. failed \/ s = failed + 1
    BY <1>1, <1>2
  <2>2. DOMAIN file \subseteq DOMAIN file' /\ failed + 1 \in DOMAIN file'
    BY <1>1 DEF Add
  <2> QED BY <1>1, <2>1, <2>2 DEF IInv, Kept
<1>8. Acknowledged' /\ Overlaps'
  BY <1>1 DEF IInv, Acknowledged, Overlaps, Busy
<1> QED BY <1>6, <1>7, <1>8 DEF IInv

\* Three actions start a run: on the file as it is, or reset, beside the runs
\* under way or, after a crash, with none.
LEMMA StartingKeeps ==
  ASSUME IInv, NEW data, FileTyped(data), NEW now, RunsTyped(now),
         StartRun(data, now), TypeOK', UNCHANGED <<failed, old, executed>>,
         \A s \in DOMAIN file : s \in DOMAIN data \/ s \in torn',
         torn \subseteq torn',
         Cardinality(BusyIn(now)) <= budget'.refreshes
  PROVE  IInv'
<1>1. failed \in Nat /\ old \in Nat /\ Stamps = 1 .. MaxCalls /\ failed \in 0 .. MaxCalls
  BY DEF IInv, TypeOK, Stamps
<1>2. Acknowledged'
  BY Starting DEF IInv, Acknowledged
<1>3. Kept'
  <2> SUFFICES ASSUME NEW s \in 1 .. failed
               PROVE  s \in executed \/ s \in DOMAIN file' \/ s <= old \/ s \in torn'
    BY DEF Kept
  <2>1. s \in DOMAIN data => s \in DOMAIN file' \/ s <= old
    <3>1. DOMAIN file' = Valid(data)
      BY Starting DEF IInv
    <3>2. s > old \/ s <= old
      BY <1>1
    <3> QED BY <3>1, <3>2 DEF Valid
  <2> QED BY <2>1 DEF IInv, Kept
<1>4. Overlaps'
  <2>1. budget'.refreshes \in Nat
    BY DEF TypeOK
  <2>2. BusyIn(now) \in SUBSET Runs /\ Busy' \in SUBSET Runs
    BY DEF BusyIn, Busy
  <2>3. PICK x : Busy' \subseteq BusyIn(now) \cup {x}
    BY Starting DEF IInv
  <2>4. Cardinality(Busy') <= Cardinality(BusyIn(now)) + 1
        /\ Cardinality(Busy') \in Nat /\ Cardinality(BusyIn(now)) \in Nat
    BY <2>2, <2>3, BusyCount
  <2>5. ~replaying' => Busy' = BusyIn(now)
    BY Starting DEF IInv
  <2> QED BY <2>1, <2>4, <2>5 DEF Overlaps
<1> QED BY <1>2, <1>3, <1>4 DEF IInv

LEMMA RunKeeps == ASSUME IInv, Run PROVE IInv'
<1>1. ~replaying /\ StartRun(file, runs)
      /\ UNCHANGED <<failed, old, budget, executed, tried, acked, torn>>
  BY DEF Run
<1>2. FileTyped(file) /\ RunsTyped(runs)
  BY TypeParts DEF IInv
<1>3. FileTyped(file)' /\ RunsTyped(runs)' /\ success' \in [Stamps -> Nat] /\ replaying' \in BOOLEAN
  BY <1>1, <1>2, Starting DEF IInv
<1>4. TypeOK'
  BY <1>1, <1>3 DEF IInv, TypeOK, FileTyped, RunsTyped
<1>5. Cardinality(BusyIn(runs)) <= budget'.refreshes
  BY <1>1 DEF IInv, Overlaps, Busy, BusyIn, TypeOK
<1> QED BY <1>1, <1>2, <1>4, <1>5, StartingKeeps

LEMMA Resetting == TypeOK => FileTyped(Reset(file)) /\ DOMAIN Reset(file) = DOMAIN file
BY DEF TypeOK, FileTyped, Reset

LEMMA RefreshKeeps == ASSUME IInv, Refresh PROVE IInv'
<1>1. /\ budget.refreshes < MaxRefreshes
      /\ budget' = [budget EXCEPT !.refreshes = @ + 1]
      /\ StartRun(Reset(file), runs)
      /\ UNCHANGED <<failed, old, executed, tried, acked, torn>>
  BY DEF Refresh
<1>2. FileTyped(Reset(file)) /\ DOMAIN Reset(file) = DOMAIN file /\ RunsTyped(runs)
  BY TypeParts, Resetting DEF IInv
<1>3. FileTyped(file)' /\ RunsTyped(runs)' /\ success' \in [Stamps -> Nat] /\ replaying' \in BOOLEAN
  BY <1>1, <1>2, Starting DEF IInv
<1>4. budget \in [refreshes : 0 .. MaxRefreshes, failures : 0 .. MaxFailures,
                  crashes : 0 .. MaxCrashes]
  BY DEF IInv, TypeOK
<1>5. budget' \in [refreshes : 0 .. MaxRefreshes, failures : 0 .. MaxFailures,
                   crashes : 0 .. MaxCrashes] /\ budget'.refreshes = budget.refreshes + 1
  BY <1>1, <1>4, Constants
<1>6. TypeOK'
  BY <1>1, <1>3, <1>5 DEF IInv, TypeOK, FileTyped, RunsTyped
<1>7. Cardinality(BusyIn(runs)) <= budget'.refreshes
  <2>1. BusyIn(runs) \in SUBSET Runs
    BY DEF BusyIn
  <2>2. Cardinality(BusyIn(runs)) \in Nat
    BY <2>1, BusyCount
  <2>3. Cardinality(BusyIn(runs)) <= budget.refreshes + (IF replaying THEN 1 ELSE 0)
    BY DEF IInv, Overlaps, Busy, BusyIn
  <2> QED BY <1>4, <1>5, <2>2, <2>3
<1> QED BY <1>1, <1>2, <1>6, <1>7, StartingKeeps

LEMMA RestartKeeps == ASSUME IInv, Restart PROVE IInv'
<1> DEFINE now == [r \in Runs |-> Idle]
<1>1. PICK kept \in {file, NoFile} :
        /\ StartRun(Reset(kept), now)
        /\ torn' = torn \cup (DOMAIN file \ DOMAIN kept)
  BY DEF Restart
<1>2. /\ budget' = [budget EXCEPT !.crashes = @ + 1, !.refreshes = 0]
      /\ budget.crashes < MaxCrashes /\ acked' = {}
      /\ UNCHANGED <<failed, old, executed, tried>>
  BY DEF Restart
<1>3. FileTyped(Reset(kept)) /\ DOMAIN Reset(kept) = DOMAIN kept
  BY DEF IInv, TypeOK, FileTyped, Reset, NoFile
<1>4. RunsTyped(now)
  <2>1. Idle \in [waiting : SUBSET (1 .. failed), calling : SUBSET (1 .. failed)]
        /\ Idle.waiting \cap Idle.calling = {} /\ Idle.waiting \cup Idle.calling = {}
    BY DEF Idle
  <2>2. Cardinality({}) <= Batch
    <3>1. Cardinality({}) = 0
      BY FS_EmptySet
    <3> QED BY <3>1, Constants
  <2> QED BY <2>1, <2>2 DEF RunsTyped
<1>5. FileTyped(file)' /\ RunsTyped(runs)' /\ success' \in [Stamps -> Nat] /\ replaying' \in BOOLEAN
  <2> HIDE DEF now
  <2> QED BY <1>1, <1>2, <1>3, <1>4, Starting DEF IInv
<1>6. budget \in [refreshes : 0 .. MaxRefreshes, failures : 0 .. MaxFailures,
                  crashes : 0 .. MaxCrashes]
  BY DEF IInv, TypeOK
<1>7. budget' \in [refreshes : 0 .. MaxRefreshes, failures : 0 .. MaxFailures,
                   crashes : 0 .. MaxCrashes] /\ budget'.refreshes = 0
  <2>1. budget' = [refreshes |-> 0, failures |-> budget.failures, crashes |-> budget.crashes + 1]
    BY <1>2, <1>6
  <2>2. 0 \in 0 .. MaxRefreshes /\ budget.crashes + 1 \in 0 .. MaxCrashes
    BY <1>2, <1>6, Constants
  <2> QED BY <1>6, <2>1, <2>2
<1>8. TypeOK'
  <2>1. torn' \subseteq 1 .. failed
    BY <1>1 DEF IInv, TypeOK
  <2> QED BY <1>2, <1>5, <1>7, <2>1 DEF IInv, TypeOK, FileTyped, RunsTyped
<1>9. Cardinality(BusyIn(now)) <= budget'.refreshes
  <2>1. BusyIn(now) = {}
    BY DEF BusyIn
  <2>2. Cardinality(BusyIn(now)) = 0
    BY <2>1, FS_EmptySet
  <2> QED BY <1>7, <2>2
<1>10. torn \subseteq torn' /\ \A s \in DOMAIN file : s \in DOMAIN Reset(kept) \/ s \in torn'
  BY <1>1, <1>3
<1> HIDE DEF now
<1> QED BY <1>1, <1>2, <1>3, <1>4, <1>8, <1>9, <1>10, StartingKeeps

LEMMA SendKeeps == ASSUME IInv, NEW r \in Runs, Send(r) PROVE IInv'
<1>1. PICK s \in runs[r].waiting :
        /\ runs' = [runs EXCEPT ![r] = [waiting |-> @.waiting \ {s}, calling |-> @.calling \cup {s}]]
        /\ tried' = tried \cup {s}
  BY DEF Send
<1>2. UNCHANGED <<file, replaying, success, failed, old, budget, executed, acked, torn>>
  BY DEF Send
<1>3. RunsTyped(runs)
  BY TypeParts DEF IInv
<1> DEFINE left == [waiting |-> runs[r].waiting \ {s}, calling |-> runs[r].calling \cup {s}]
<1>4. runs[r] \in [waiting : SUBSET (1 .. failed), calling : SUBSET (1 .. failed)]
  BY <1>3 DEF RunsTyped
<1>5. runs' = [runs EXCEPT ![r] = left]
  BY <1>1
<1>6. left \in [waiting : SUBSET (1 .. failed), calling : SUBSET (1 .. failed)] /\ s \in 1 .. failed
  BY <1>4
<1>7. left.waiting \cap left.calling = {} /\ left.waiting \cup left.calling = runs[r].waiting \cup runs[r].calling
  BY <1>3 DEF RunsTyped
<1>8. runs'[r] = left /\ \A q \in Runs : q # r => runs'[q] = runs[q]
  BY <1>3, <1>5 DEF RunsTyped
<1>9. RunsTyped(runs)'
  <2>1. runs' \in [Runs -> [waiting : SUBSET (1 .. failed), calling : SUBSET (1 .. failed)]]
    BY <1>3, <1>5, <1>6 DEF RunsTyped
  <2>2. ASSUME NEW q \in Runs
        PROVE  /\ runs'[q].waiting \cap runs'[q].calling = {}
               /\ Cardinality(runs'[q].waiting \cup runs'[q].calling) <= Batch
    BY <1>3, <1>7, <1>8 DEF RunsTyped
  <2> QED BY <1>2, <2>1, <2>2 DEF RunsTyped
<1>10. TypeOK'
  BY <1>1, <1>2, <1>6, <1>9 DEF IInv, TypeOK, RunsTyped
<1>11. Busy' \subseteq Busy
  <2>1. r \in Busy
    BY DEF Busy, Idle
  <2> QED BY <1>8, <2>1 DEF Busy
<1>12. Overlaps'
  <2>1. Busy \in SUBSET Runs /\ Busy' \in SUBSET Runs
    BY DEF Busy
  <2>2. Cardinality(Busy') <= Cardinality(Busy) /\ Cardinality(Busy) \in Nat /\ Cardinality(Busy') \in Nat
    BY <1>11, <2>1, BusyCount
  <2>3. budget.refreshes \in Nat
    BY DEF IInv, TypeOK
  <2> QED BY <1>2, <2>2, <2>3 DEF IInv, Overlaps
<1> QED BY <1>2, <1>10, <1>12 DEF IInv, Acknowledged, Kept

\* Two actions end a call: what a run discards was answered.
LEMMA EndingKeeps ==
  ASSUME IInv, NEW r \in Runs, NEW s \in runs[r].calling,
         NEW data, FileTyped(data), DOMAIN file \subseteq DOMAIN data,
         NEW list \in [Stamps -> Nat],
         \A t \in Stamps : list[t] > 0 => t \in executed',
         EndCall(r, s, data, list),
         executed' \subseteq executed \cup {s}, executed \subseteq executed',
         acked' \subseteq acked \cup {s},
         budget' \in [refreshes : 0 .. MaxRefreshes, failures : 0 .. MaxFailures,
                      crashes : 0 .. MaxCrashes],
         budget'.refreshes = budget.refreshes,
         UNCHANGED <<failed, old, tried, torn>>
  PROVE  IInv'
<1>1. /\ FileTyped(file)' /\ RunsTyped(runs)'
      /\ success' = list /\ replaying' \in BOOLEAN
      /\ s \in 1 .. failed
  BY Ending DEF IInv
<1>2. \A t \in DOMAIN data : t \in DOMAIN file' \/ list[t] # 0
  BY Ending DEF IInv
<1>3. \/ Busy' \subseteq Busy /\ replaying' = replaying
      \/ Busy' \subseteq Busy \ {r} /\ r \in Busy /\ ~replaying'
  BY Ending DEF IInv
<1>4. TypeOK'
  BY <1>1 DEF IInv, TypeOK, FileTyped, RunsTyped
<1>5. Acknowledged'
  BY <1>1 DEF Acknowledged
<1>6. Kept'
  <2> SUFFICES ASSUME NEW t \in 1 .. failed
               PROVE  t \in executed' \/ t \in DOMAIN file' \/ t <= old \/ t \in torn
    BY DEF Kept
  <2>1. t \in Stamps
    BY Constants DEF IInv, TypeOK, Stamps
  <2>2. list[t] # 0 => t \in executed'
    BY <2>1
  <2> QED BY <1>2, <2>2 DEF IInv, Kept
<1>7. Overlaps'
  <2>1. Busy \in SUBSET Runs /\ Busy' \in SUBSET Runs /\ budget.refreshes \in Nat
    BY DEF Busy, IInv, TypeOK
  <2>2. Cardinality(Busy) \in Nat /\ Cardinality(Busy') \in Nat
    BY <2>1, BusyCount
  <2>3. CASE Busy' \subseteq Busy /\ replaying' = replaying
    <3>1. Cardinality(Busy') <= Cardinality(Busy)
      BY <2>1, <2>3, BusyCount
    <3> QED BY <2>1, <2>2, <2>3, <3>1 DEF IInv, Overlaps
  <2>4. CASE Busy' \subseteq Busy \ {r} /\ r \in Busy /\ ~replaying'
    <3>1. Cardinality(Busy') <= Cardinality(Busy) - 1
      BY <2>1, <2>4, BusyCount
    <3>2. Cardinality(Busy) <= budget.refreshes + 1
      BY <2>1, <2>2 DEF IInv, Overlaps
    <3> QED BY <2>1, <2>2, <2>4, <3>1, <3>2 DEF Overlaps
  <2> QED BY <1>3, <2>3, <2>4
<1> QED BY <1>4, <1>5, <1>6, <1>7 DEF IInv

LEMMA SucceedsKeeps == ASSUME IInv, NEW r \in Runs, Succeeds(r) PROVE IInv'
<1>1. PICK s \in runs[r].calling :
        /\ EndCall(r, s, file, [success EXCEPT ![s] = @ + 1])
        /\ executed' = executed \cup {s} /\ acked' = acked \cup {s}
  BY DEF Succeeds
<1>2. UNCHANGED <<failed, old, budget, tried, torn>>
  BY DEF Succeeds
<1> DEFINE list == [success EXCEPT ![s] = @ + 1]
<1>3. list \in [Stamps -> Nat] /\ \A t \in Stamps : t # s => list[t] = success[t]
  <2>1. success \in [Stamps -> Nat] /\ failed \in 0 .. MaxCalls /\ RunsTyped(runs)
    BY TypeParts DEF IInv, TypeOK
  <2>2. s \in 1 .. failed
    BY <2>1 DEF RunsTyped
  <2>3. s \in Stamps
    BY <2>1, <2>2, Constants DEF Stamps
  <2>4. success[s] + 1 \in Nat
    BY <2>1, <2>3
  <2> QED BY <2>1, <2>3, <2>4
<1>4. \A t \in Stamps : list[t] > 0 => t \in executed'
  BY <1>1, <1>3 DEF IInv, Acknowledged
<1>5. FileTyped(file)
  BY TypeParts DEF IInv
<1>6. budget' \in [refreshes : 0 .. MaxRefreshes, failures : 0 .. MaxFailures,
                   crashes : 0 .. MaxCrashes]
  BY <1>2 DEF IInv, TypeOK
<1> HIDE DEF list
<1> QED BY <1>1, <1>2, <1>3, <1>4, <1>5, <1>6, EndingKeeps DEF list

LEMMA ReplayFailsKeeps == ASSUME IInv, NEW r \in Runs, ReplayFails(r) PROVE IInv'
<1>1. PICK s \in runs[r].calling :
        /\ EndCall(r, s, Add(file, s), success)
        /\ executed' \in {executed, executed \cup {s}}
  BY DEF ReplayFails
<1>2. /\ budget.failures < MaxFailures
      /\ budget' = [budget EXCEPT !.failures = @ + 1]
      /\ UNCHANGED <<failed, old, tried, acked, torn>>
  BY DEF ReplayFails
<1>3. budget \in [refreshes : 0 .. MaxRefreshes, failures : 0 .. MaxFailures,
                  crashes : 0 .. MaxCrashes]
  BY DEF IInv, TypeOK
<1>4. budget' \in [refreshes : 0 .. MaxRefreshes, failures : 0 .. MaxFailures,
                   crashes : 0 .. MaxCrashes] /\ budget'.refreshes = budget.refreshes
  BY <1>2, <1>3, Constants
<1>5. FileTyped(file) /\ RunsTyped(runs)
  BY TypeParts DEF IInv
<1>6. s \in 1 .. failed
  BY <1>5 DEF RunsTyped
<1>7. FileTyped(Add(file, s)) /\ DOMAIN file \subseteq DOMAIN Add(file, s)
  BY <1>5, <1>6 DEF FileTyped, Add
<1>8. success \in [Stamps -> Nat] /\ \A t \in Stamps : success[t] > 0 => t \in executed'
  BY <1>1 DEF IInv, TypeOK, Acknowledged
<1> QED BY <1>1, <1>2, <1>4, <1>7, <1>8, EndingKeeps

LEMMA AgeKeeps == ASSUME IInv, Age PROVE IInv'
<1>1. old < failed /\ old' = old + 1
      /\ UNCHANGED <<file, replaying, success, runs, failed, budget, executed, tried, acked, torn>>
  BY DEF Age
<1>2. failed \in 0 .. MaxCalls /\ old \in 0 .. failed
  BY DEF IInv, TypeOK
<1>3. old' \in 0 .. failed /\ \A s \in 1 .. failed : s <= old => s <= old'
  BY <1>1, <1>2, Constants
<1>4. TypeOK'
  BY <1>1, <1>3 DEF IInv, TypeOK
<1> QED BY <1>1, <1>3, <1>4 DEF IInv, Acknowledged, Kept, Overlaps, Busy

LEMMA NextIInv == IInv /\ [Next]_vars => IInv'
<1> SUFFICES ASSUME IInv, [Next]_vars PROVE IInv'
  OBVIOUS
<1>1. CASE UNCHANGED vars
  BY <1>1 DEF vars, IInv, TypeOK, Acknowledged, Kept, Overlaps, Busy
<1>2. CASE FirstFails \/ Run \/ Refresh \/ Age \/ Restart
  BY <1>2, FirstFailsKeeps, RunKeeps, RefreshKeeps, AgeKeeps, RestartKeeps
<1>3. ASSUME NEW r \in Runs, RunStep(r) PROVE IInv'
  BY <1>3, SendKeeps, SucceedsKeeps, ReplayFailsKeeps DEF RunStep
<1> QED BY <1>1, <1>2, <1>3 DEF Next

LEMMA Invariant == Spec => []IInv
BY InitIInv, NextIInv, PTL DEF Spec

-----------------------------------------------------------------------------
(* The theorems. *)

\* Types, and a run that sends no more than rpc_count calls
\* (rpcreplay.py 110-147).
THEOREM Typing == Spec => []TypeOK
<1>1. IInv => TypeOK
  BY DEF IInv
<1> QED BY Invariant, <1>1, PTL

\* No call is lost but by its age or a torn file: what discardRPCs() drops is
\* what the agent answered, whichever run put it into _success
\* (rpcreplay.py 149-166, 262-303).
THEOREM CallsKept == Spec => []Kept
<1>1. IInv => Kept
  BY DEF IInv
<1> QED BY Invariant, <1>1, PTL

\* As many runs overlap as init() was called, and no more
\* (rpcreplay.py 197-211, 262-292).
THEOREM RunsBounded == Spec => []Overlap
<1>1. IInv => Overlap
  <2> SUFFICES ASSUME IInv PROVE Overlap
    OBVIOUS
  <2>1. Busy \in SUBSET Runs /\ budget.refreshes \in Nat
    BY DEF Busy, IInv, TypeOK
  <2>2. Cardinality(Busy) \in Nat
    BY <2>1, BusyCount
  <2> QED BY <2>1, <2>2 DEF IInv, Overlaps, Overlap
<1> QED BY Invariant, <1>1, PTL

-----------------------------------------------------------------------------
(* A replayer initialised once.                                            *)

InHand(r) == runs[r].waiting \cup runs[r].calling

\* One run, which replaying tells of.
Alone ==
  /\ \A q, r \in Busy : q = r
  /\ replaying <=> Busy # {}

\* What the run has in hand is stored and unanswered; what it was answered is
\* stored and once in the list, so that discardRPCs() finds it.
Listed ==
  /\ \A r \in Runs, s \in Stamps : s \in InHand(r) =>
       s \in DOMAIN file /\ success[s] = 0 /\ s \notin acked
  /\ Busy # {} => \A s \in Stamps : success[s] > 0 => success[s] = 1 /\ s \in DOMAIN file

\* What is marked in the file is in hand or answered, and what was answered is
\* in the file only until the run that sent it ends.
Marked ==
  \A s \in DOMAIN file :
    \/ file[s] = PENDING /\ s \notin acked
    \/ \E r \in Runs : s \in InHand(r)
    \/ Busy # {} /\ success[s] > 0

\* What comes before a call that waits, waits with it or was sent.
Turns ==
  \A r \in Runs : \A s \in runs[r].waiting : \A t \in 1 .. s :
    t \in runs[r].waiting \/ t \in tried \/ t <= old \/ t \in torn

Orderly == budget.refreshes = 0 => Alone /\ Listed /\ Marked /\ Turns

\* Only what was sent is on its way or carried out.
Sent == executed \subseteq tried /\ \A r \in Runs : runs[r].calling \subseteq tried

Once == Orderly /\ Sent

\* A run that starts while none is under way: what it takes comes before all
\* that it leaves.
LEMMA StartsAlone ==
  ASSUME IInv, Sent, NEW data, FileTyped(data), NEW now, RunsTyped(now), BusyIn(now) = {},
         StartRun(data, now), UNCHANGED <<failed, old, executed, tried>>,
         \A s \in DOMAIN data : data[s] = PENDING /\ s \notin acked',
         \A s \in 1 .. failed : s \in tried \/ s \in DOMAIN data \/ s <= old \/ s \in torn'
  PROVE  Once'
<1> DEFINE P == Popped(data)
<1>1. failed \in Nat /\ old \in Nat /\ MaxRefreshes \in Nat /\ Runs = 1 .. MaxRefreshes + 1
      /\ Stamps = 1 .. MaxCalls /\ failed \in 0 .. MaxCalls /\ MaxCalls \in Nat
  BY Constants DEF IInv, TypeOK, Runs, Stamps
<1>2. now \in [Runs -> [waiting : SUBSET (1 .. failed), calling : SUBSET (1 .. failed)]]
      /\ \A r \in Runs : now[r] = Idle
  BY DEF RunsTyped, BusyIn
<1>3. PICK f \in Runs : runs' = IF P = {} THEN now
                                ELSE [now EXCEPT ![f] = [waiting |-> P, calling |-> {}]]
  <2>1. 1 \in Runs
    BY <1>1
  <2>2. (CHOOSE r \in Runs : now[r] = Idle) \in Runs
    BY <1>2, <2>1
  <2> QED BY <2>2 DEF StartRun
<1>4. file' = AfterPop(data) /\ replaying' = (P # {}) /\ success' = NoSuccess
  BY DEF StartRun
<1>5. /\ P \subseteq DOMAIN file' /\ P \subseteq 1 .. failed /\ P \subseteq Pending(data)
      /\ DOMAIN file' = Valid(data) /\ DOMAIN file' \subseteq DOMAIN data
      /\ \A s \in DOMAIN file' : file'[s] = PENDING \/ s \in P
  BY <1>4 DEF AfterPop, Popped, Pending, Valid, FileTyped
<1>6. \A s \in Stamps : success'[s] = 0
  BY <1>4 DEF NoSuccess
<1>7. \A r \in Runs : runs'[r] = IF r = f /\ P # {} THEN [waiting |-> P, calling |-> {}]
                                 ELSE Idle
  BY <1>2, <1>3
<1>8. \A r \in Runs : /\ InHand(r)' = (IF r = f THEN P ELSE {})
                      /\ runs'[r].calling = {} /\ runs'[r].waiting \subseteq P
                      /\ runs'[r].waiting # {} => runs'[r].waiting = P
  BY <1>7 DEF InHand, Idle
<1>9. Busy' = IF P = {} THEN {} ELSE {f}
  BY <1>7 DEF Busy, Idle
<1>10. Alone'
  BY <1>4, <1>9 DEF Alone
<1>11. Listed'
  BY <1>5, <1>6, <1>8 DEF Listed
<1>12. Marked'
  BY <1>5, <1>8 DEF Marked
<1>13. Turns'
  <2> SUFFICES ASSUME NEW s \in P, NEW t \in 1 .. s
               PROVE  t \in P \/ t \in tried \/ t <= old \/ t \in torn'
    BY <1>8 DEF Turns
  <2>1. s \in 1 .. failed /\ t \in 1 .. failed
    BY <1>1, <1>5
  <2>2. CASE t \in DOMAIN data /\ t > old
    <3>1. t \in Pending(data)
      BY <2>2 DEF Pending, Valid
    <3>2. CASE t = s
      BY <3>2
    <3>3. CASE t < s
      <4> DEFINE A == {u \in Pending(data) : u < t}
                 B == {u \in Pending(data) : u < s}
      <4>1. Pending(data) \in SUBSET (1 .. failed)
        BY DEF Pending, Valid, FileTyped
      <4>2. A \in SUBSET (1 .. failed) /\ B \in SUBSET (1 .. failed) /\ A \subseteq B
        <5>1. ASSUME NEW u \in Pending(data), u < t PROVE u < s
          BY <1>1, <2>1, <3>3, <4>1, <5>1
        <5> QED BY <4>1, <5>1
      <4>3. Cardinality(B) < Batch
        BY DEF Popped
      <4> HIDE DEF A, B
      <4>4. IsFiniteSet(B) /\ Cardinality(A) \in Nat /\ Cardinality(B) \in Nat
        BY <1>1, <4>2, Sized
      <4>5. Cardinality(A) <= Cardinality(B)
        BY <4>2, <4>4, FS_Subset
      <4>6. Cardinality(A) < Batch
        BY <4>3, <4>4, <4>5, Constants
      <4> QED BY <3>1, <4>6 DEF Popped, A
    <3> QED BY <2>1, <3>2, <3>3, <1>1
  <2>3. t \in tried \/ t \in DOMAIN data \/ t <= old \/ t \in torn'
    BY <2>1
  <2>4. t > old \/ t <= old
    BY <1>1, <2>1
  <2> QED BY <2>2, <2>3, <2>4
<1>14. Sent'
  BY <1>8 DEF Sent
<1> QED BY <1>10, <1>11, <1>12, <1>13, <1>14 DEF Once, Orderly

\* Whatever starts, no call is on its way at once.
LEMMA StartsNoCall ==
  ASSUME NEW data, NEW now, RunsTyped(now), StartRun(data, now)
  PROVE  \A r \in Runs : runs'[r].calling \subseteq now[r].calling
<1>1. PICK x : runs' = IF Popped(data) = {} THEN now
                       ELSE [now EXCEPT ![x] = [waiting |-> Popped(data), calling |-> {}]]
  BY DEF StartRun
<1> QED BY <1>1 DEF RunsTyped

LEMMA FirstFailsOnce == ASSUME IInv, Once, FirstFails PROVE Once'
<1>1. /\ file' = Add(file, failed + 1) /\ failed' = failed + 1
      /\ UNCHANGED <<replaying, success, runs, old, budget, executed, tried, acked, torn>>
  BY DEF FirstFails
<1>2. /\ DOMAIN file' = DOMAIN file \cup {failed + 1} /\ file'[failed + 1] = PENDING
      /\ \A s \in DOMAIN file : s # failed + 1 => file'[s] = file[s]
  BY <1>1 DEF Add
<1>3. failed + 1 \notin acked
  BY Constants DEF IInv, TypeOK
<1>4. /\ Busy' = Busy /\ \A r \in Runs : InHand(r)' = InHand(r)
  BY <1>1 DEF Busy, InHand
<1>5. ASSUME Listed PROVE Listed'
  BY <1>1, <1>2, <1>4, <1>5 DEF Listed
<1>6. ASSUME Marked PROVE Marked'
  BY <1>1, <1>2, <1>3, <1>4, <1>6 DEF Marked
<1>7. ASSUME Turns PROVE Turns'
  BY <1>1, <1>7 DEF Turns
<1>8. ASSUME Alone PROVE Alone'
  BY <1>1, <1>4, <1>8 DEF Alone
<1> QED BY <1>1, <1>5, <1>6, <1>7, <1>8 DEF Once, Orderly, Sent

\* Nobody has anything in hand, and nothing stays marked, while no run is busy.
LEMMA NobodyBusy ==
  ASSUME IInv, Once, budget.refreshes = 0, ~replaying
  PROVE  Busy = {} /\ \A s \in DOMAIN file : file[s] = PENDING /\ s \notin acked
<1>1. Busy = {}
  BY DEF Once, Orderly, Alone
<1>2. \A r \in Runs : InHand(r) = {}
  BY <1>1 DEF Busy, InHand, Idle
<1> QED BY <1>1, <1>2 DEF Once, Orderly, Marked

LEMMA Remembered ==
  ASSUME IInv, Sent
  PROVE  \A s \in 1 .. failed : s \in tried \/ s \in DOMAIN file \/ s <= old \/ s \in torn
BY DEF IInv, Kept, Sent

LEMMA RunOnce == ASSUME IInv, Once, Run PROVE Once'
<1>1. ~replaying /\ StartRun(file, runs)
      /\ UNCHANGED <<failed, old, budget, executed, tried, acked, torn>>
  BY DEF Run
<1>2. FileTyped(file) /\ RunsTyped(runs)
  BY TypeParts DEF IInv
<1>3. CASE budget.refreshes = 0
  <2>1. BusyIn(runs) = {}
    BY <1>1, <1>3, NobodyBusy DEF Busy, BusyIn
  <2> QED BY <1>1, <1>2, <1>3, <2>1, NobodyBusy, Remembered, StartsAlone DEF Once
<1>4. CASE budget.refreshes # 0
  <2>1. Sent'
    BY <1>1, <1>2, StartsNoCall DEF Once, IInv, Sent
  <2> QED BY <1>1, <1>4, <2>1 DEF Once, Orderly
<1> QED BY <1>3, <1>4

LEMMA RefreshOnce == ASSUME IInv, Once, Refresh PROVE Once'
<1>1. /\ budget' = [budget EXCEPT !.refreshes = @ + 1] /\ StartRun(Reset(file), runs)
      /\ UNCHANGED <<failed, old, executed, tried, acked, torn>>
  BY DEF Refresh
<1>2. budget \in [refreshes : 0 .. MaxRefreshes, failures : 0 .. MaxFailures,
                  crashes : 0 .. MaxCrashes]
  BY DEF IInv, TypeOK
<1>3. budget'.refreshes # 0
  BY <1>1, <1>2, Constants
<1>4. RunsTyped(runs)
  BY TypeParts DEF IInv
<1>5. Sent'
  BY <1>1, <1>4, StartsNoCall DEF Once, Sent
<1> QED BY <1>3, <1>5 DEF Once, Orderly

LEMMA RestartOnce == ASSUME IInv, Once, Restart PROVE Once'
<1> DEFINE now == [r \in Runs |-> Idle]
<1>1. PICK kept \in {file, NoFile} :
        /\ StartRun(Reset(kept), now)
        /\ torn' = torn \cup (DOMAIN file \ DOMAIN kept)
  BY DEF Restart
<1>2. acked' = {} /\ UNCHANGED <<failed, old, executed, tried>>
  BY DEF Restart
<1>3. FileTyped(Reset(kept)) /\ DOMAIN Reset(kept) = DOMAIN kept
      /\ \A s \in DOMAIN kept : Reset(kept)[s] = PENDING
  BY DEF IInv, TypeOK, FileTyped, Reset, NoFile
<1>4. RunsTyped(now) /\ BusyIn(now) = {}
  <2>1. Idle \in [waiting : SUBSET (1 .. failed), calling : SUBSET (1 .. failed)]
        /\ Idle.waiting \cap Idle.calling = {} /\ Idle.waiting \cup Idle.calling = {}
    BY DEF Idle
  <2>2. Cardinality({}) <= Batch
    <3>1. Cardinality({}) = 0
      BY FS_EmptySet
    <3> QED BY <3>1, Constants
  <2> QED BY <2>1, <2>2 DEF RunsTyped, BusyIn
<1>5. \A s \in 1 .. failed : s \in tried \/ s \in DOMAIN Reset(kept) \/ s <= old \/ s \in torn'
  BY <1>1, <1>3, Remembered DEF Once
<1> HIDE DEF now
<1> QED BY <1>1, <1>2, <1>3, <1>4, <1>5, StartsAlone DEF Once

LEMMA SendOnce == ASSUME IInv, Once, NEW r \in Runs, Send(r) PROVE Once'
<1>1. PICK s \in runs[r].waiting :
        /\ \A t \in runs[r].waiting : s <= t
        /\ runs' = [runs EXCEPT ![r] = [waiting |-> @.waiting \ {s}, calling |-> @.calling \cup {s}]]
        /\ tried' = tried \cup {s}
  BY DEF Send
<1>2. UNCHANGED <<file, replaying, success, failed, old, budget, executed, acked, torn>>
  BY DEF Send
<1>3. RunsTyped(runs)
  BY TypeParts DEF IInv
<1>4. /\ runs'[r].waiting = runs[r].waiting \ {s}
      /\ runs'[r].calling = runs[r].calling \cup {s}
      /\ \A q \in Runs : q # r => runs'[q] = runs[q]
  BY <1>1, <1>3 DEF RunsTyped
<1>5. /\ \A q \in Runs : InHand(q)' = InHand(q)
      /\ Busy' = Busy
  <2>1. runs[r] # Idle /\ runs'[r] # Idle
    BY <1>4 DEF Idle
  <2> QED BY <1>4, <2>1 DEF InHand, Busy
<1>6. Sent'
  BY <1>1, <1>2, <1>4 DEF Once, Sent
<1>7. ASSUME Turns PROVE Turns'
  BY <1>1, <1>2, <1>4, <1>7 DEF Turns
<1>8. ASSUME Alone, Listed, Marked PROVE Alone' /\ Listed' /\ Marked'
  BY <1>2, <1>5, <1>8 DEF Alone, Listed, Marked
<1> QED BY <1>2, <1>6, <1>7, <1>8 DEF Once, Orderly

\* A call that ends leaves the hands of its run. If the run ends with it, what
\* was answered is found and dropped, and nothing stays marked.
LEMMA EndsOnce ==
  ASSUME IInv, Once, NEW r \in Runs, NEW s \in runs[r].calling,
         NEW data, DOMAIN data = DOMAIN file,
         \A t \in DOMAIN file : t # s => data[t] = file[t],
         NEW list, EndCall(r, s, data, list),
         \A t \in Stamps : t # s => list[t] = success[t],
         budget.refreshes = 0 /\ s \in Stamps /\ success[s] = 0 =>
            \/ list[s] = 1
            \/ list[s] = 0 /\ data[s] = PENDING /\ s \notin acked',
         executed' \subseteq executed \cup {s}, acked' \subseteq acked \cup {s},
         UNCHANGED <<failed, old, tried, torn>>, budget'.refreshes = budget.refreshes
  PROVE  Once'
<1> DEFINE left == [waiting |-> runs[r].waiting, calling |-> runs[r].calling \ {s}]
<1>1. /\ runs' = [runs EXCEPT ![r] = left] /\ success' = list
      /\ \/ left = Idle /\ file' = Discard(data, list) /\ replaying' = FALSE
         \/ left # Idle /\ file' = data /\ replaying' = replaying
  BY DEF EndCall
<1>2. RunsTyped(runs) /\ FileTyped(file) /\ success \in [Stamps -> Nat]
      /\ failed \in 0 .. MaxCalls /\ Stamps = 1 .. MaxCalls /\ MaxCalls \in Nat
  BY TypeParts, Constants DEF IInv, TypeOK, Stamps
<1>3. /\ runs'[r] = left /\ \A q \in Runs : q # r => runs'[q] = runs[q]
      /\ runs[r].waiting \cap runs[r].calling = {} /\ r \in Busy
  BY <1>1, <1>2 DEF RunsTyped, Busy, Idle
<1>4. s \in 1 .. failed /\ 1 .. failed \subseteq Stamps /\ s \in Stamps
      /\ \A q \in Runs : InHand(q) \subseteq 1 .. failed
  BY <1>2 DEF RunsTyped, InHand
<1>5. /\ InHand(r)' = InHand(r) \ {s} /\ s \in InHand(r)
      /\ \A q \in Runs : q # r => InHand(q)' = InHand(q)
  <2>1. InHand(r)' = left.waiting \cup left.calling
    BY <1>3 DEF InHand
  <2> QED BY <1>3, <2>1 DEF InHand
<1>6. Sent'
  <2>1. \A q \in Runs : runs'[q].calling \subseteq runs[q].calling
    BY <1>3
  <2>2. s \in tried
    BY DEF Once, Sent
  <2> QED BY <2>1, <2>2 DEF Once, Sent
<1>7. CASE budget.refreshes # 0
  BY <1>6, <1>7 DEF Once, Orderly
<1>8. CASE budget.refreshes = 0
  <2>1. Alone /\ Listed /\ Marked /\ Turns
    BY <1>8 DEF Once, Orderly
  <2>2. Busy = {r} /\ \A q \in Runs : q # r => runs[q] = Idle /\ InHand(q) = {}
    <3>1. \A q \in Runs : q # r => runs[q] = Idle
      BY <1>3, <2>1 DEF Alone, Busy
    <3> QED BY <1>3, <3>1 DEF Busy, InHand, Idle
  <2>3. s \in DOMAIN file /\ success[s] = 0 /\ s \notin acked
    BY <1>4, <1>5, <2>1 DEF Listed
  <2>4. list[s] = 1 \/ (list[s] = 0 /\ data[s] = PENDING /\ s \notin acked')
    BY <1>4, <1>8, <2>3
  <2>5. \A t \in Stamps : list[t] > 0 => list[t] = 1 /\ t \in DOMAIN data
    BY <2>1, <2>2, <2>3, <2>4 DEF Listed
  <2>6. \A t \in DOMAIN data : t \in Stamps
    BY <1>2, <1>4 DEF FileTyped
  <2>7. \A t \in DOMAIN data : \/ data[t] = PENDING /\ t \notin acked'
                               \/ t \in InHand(r)'
                               \/ list[t] > 0
    <3> SUFFICES ASSUME NEW t \in DOMAIN data, t # s
                 PROVE  \/ data[t] = PENDING /\ t \notin acked'
                        \/ t \in InHand(r)'
                        \/ list[t] > 0
      BY <2>4
    <3>1. \/ file[t] = PENDING /\ t \notin acked
          \/ t \in InHand(r)
          \/ success[t] > 0
      BY <2>1, <2>2 DEF Marked
    <3> QED BY <1>5, <2>6, <3>1
  <2>8. \A t \in InHand(r)' : t \in DOMAIN data /\ list[t] = 0 /\ t \notin acked'
    BY <1>4, <1>5, <2>1 DEF Listed
  <2>9. Turns'
    <3>1. \A q \in Runs : runs'[q].waiting = runs[q].waiting
      BY <1>3
    <3> QED BY <2>1, <3>1 DEF Turns
  <2>10. CASE left # Idle
    <3>1. Busy' = {r} /\ replaying
      BY <1>3, <2>1, <2>2, <2>10 DEF Busy, Alone
    <3>2. \A q \in Runs : q # r => InHand(q)' = {}
      BY <1>5, <2>2
    <3>3. Alone'
      BY <1>1, <2>10, <3>1 DEF Alone
    <3>4. Listed'
      BY <1>1, <2>5, <2>8, <2>10, <3>2 DEF Listed
    <3>5. Marked'
      BY <1>1, <2>7, <2>10, <3>1 DEF Marked
    <3> QED BY <1>6, <2>9, <3>3, <3>4, <3>5 DEF Once, Orderly
  <2>11. CASE left = Idle
    <3>1. Busy' = {} /\ \A q \in Runs : InHand(q)' = {}
      BY <1>3, <2>2, <2>11 DEF Busy, InHand, Idle
    <3>2. ~replaying' /\ file' = [t \in {u \in DOMAIN data : list[u] = 0} |-> data[t]]
      BY <1>1, <2>5, <2>11 DEF Discard, Removable
    <3>3. Alone'
      BY <3>1, <3>2 DEF Alone
    <3>4. Listed'
      BY <3>1 DEF Listed
    <3>5. Marked'
      <4> SUFFICES ASSUME NEW t \in DOMAIN data, list[t] = 0
                   PROVE  data[t] = PENDING /\ t \notin acked'
        BY <3>2 DEF Marked
      <4> QED BY <2>7, <3>1
    <3> QED BY <1>6, <2>9, <3>3, <3>4, <3>5 DEF Once, Orderly
  <2> QED BY <2>10, <2>11
<1> QED BY <1>7, <1>8

LEMMA SucceedsOnce == ASSUME IInv, Once, NEW r \in Runs, Succeeds(r) PROVE Once'
<1>1. PICK s \in runs[r].calling :
        /\ EndCall(r, s, file, [success EXCEPT ![s] = @ + 1])
        /\ executed' = executed \cup {s} /\ acked' = acked \cup {s}
  BY DEF Succeeds
<1>2. UNCHANGED <<failed, old, budget, tried, torn>>
  BY DEF Succeeds
<1> DEFINE list == [success EXCEPT ![s] = @ + 1]
<1>3. /\ \A t \in Stamps : t # s => list[t] = success[t]
      /\ s \in Stamps /\ success[s] = 0 => list[s] = 1
  BY DEF IInv, TypeOK
<1> HIDE DEF list
<1> QED BY <1>1, <1>2, <1>3, EndsOnce DEF list

LEMMA ReplayFailsOnce == ASSUME IInv, Once, NEW r \in Runs, ReplayFails(r) PROVE Once'
<1>1. PICK s \in runs[r].calling :
        /\ EndCall(r, s, Add(file, s), success)
        /\ executed' \in {executed, executed \cup {s}}
  BY DEF ReplayFails
<1>2. budget' = [budget EXCEPT !.failures = @ + 1]
      /\ UNCHANGED <<failed, old, tried, acked, torn>>
  BY DEF ReplayFails
<1>3. budget'.refreshes = budget.refreshes
  BY <1>2 DEF IInv, TypeOK
<1>4. CASE budget.refreshes # 0
  <2>1. RunsTyped(runs)
    BY TypeParts DEF IInv
  <2>2. \A q \in Runs : runs'[q].calling \subseteq runs[q].calling
    BY <1>1, <2>1 DEF EndCall, RunsTyped
  <2>3. s \in tried
    BY DEF Once, Sent
  <2>4. Sent'
    BY <1>1, <1>2, <2>2, <2>3 DEF Once, Sent
  <2> QED BY <1>3, <1>4, <2>4 DEF Once, Orderly
<1>5. CASE budget.refreshes = 0
  <2>1. s \in InHand(r) /\ s \in Stamps
    <3>1. s \in 1 .. failed
      BY TypeParts DEF IInv, RunsTyped
    <3> QED BY <3>1, Constants DEF InHand, IInv, TypeOK, Stamps
  <2>2. s \in DOMAIN file /\ success[s] = 0 /\ s \notin acked
    BY <1>5, <2>1 DEF Once, Orderly, Listed
  <2>3. /\ DOMAIN Add(file, s) = DOMAIN file /\ Add(file, s)[s] = PENDING
        /\ \A t \in DOMAIN file : t # s => Add(file, s)[t] = file[t]
    BY <2>2 DEF Add
  <2> QED BY <1>1, <1>2, <1>3, <2>2, <2>3, EndsOnce
<1> QED BY <1>4, <1>5

LEMMA AgeOnce == ASSUME IInv, Once, Age PROVE Once'
<1>1. old' = old + 1
      /\ UNCHANGED <<file, replaying, success, runs, failed, budget, executed, tried, acked, torn>>
  BY DEF Age
<1>2. old \in Nat /\ failed \in Nat /\ RunsTyped(runs)
  BY TypeParts DEF IInv, TypeOK
<1>3. Busy' = Busy /\ \A r \in Runs : InHand(r)' = InHand(r)
  BY <1>1 DEF Busy, InHand
<1>4. ASSUME Turns PROVE Turns'
  <2> SUFFICES ASSUME NEW r \in Runs, NEW s \in runs[r].waiting, NEW t \in 1 .. s
               PROVE  t \in runs[r].waiting \/ t \in tried \/ t <= old + 1 \/ t \in torn
    BY <1>1 DEF Turns
  <2>1. s \in Nat /\ t \in Nat
    BY <1>2 DEF RunsTyped
  <2> QED BY <1>2, <1>4, <2>1 DEF Turns
<1>5. ASSUME Alone, Listed, Marked PROVE Alone' /\ Listed' /\ Marked'
  BY <1>1, <1>3, <1>5 DEF Alone, Listed, Marked
<1> QED BY <1>1, <1>4, <1>5 DEF Once, Orderly, Sent

LEMMA NextOnce == IInv /\ Once /\ [Next]_vars => Once'
<1> SUFFICES ASSUME IInv, Once, [Next]_vars PROVE Once'
  OBVIOUS
<1>1. CASE UNCHANGED vars
  <2>1. Busy' = Busy /\ \A r \in Runs : InHand(r)' = InHand(r)
    BY <1>1 DEF vars, Busy, InHand
  <2> QED BY <1>1, <2>1 DEF vars, Once, Orderly, Sent, Alone, Listed, Marked, Turns
<1>2. CASE FirstFails \/ Run \/ Refresh \/ Age \/ Restart
  BY <1>2, FirstFailsOnce, RunOnce, RefreshOnce, AgeOnce, RestartOnce
<1>3. ASSUME NEW r \in Runs, RunStep(r) PROVE Once'
  BY <1>3, SendOnce, SucceedsOnce, ReplayFailsOnce DEF RunStep
<1> QED BY <1>1, <1>2, <1>3 DEF Next

LEMMA InitOnce == Init => Once
<1> SUFFICES ASSUME Init PROVE Once
  OBVIOUS
<1>1. \A r \in Runs : runs[r] = Idle /\ InHand(r) = {}
  BY DEF Init, InHand, Idle
<1>2. Busy = {} /\ DOMAIN file = {}
  BY <1>1 DEF Init, Busy, NoFile
<1> QED BY <1>1, <1>2 DEF Init, Once, Orderly, Sent, Alone, Listed, Marked, Turns, Idle, InHand

LEMMA StaysOnce == Spec => [](IInv /\ Once)
<1>1. IInv /\ Once /\ [Next]_vars => (IInv /\ Once)'
  BY NextIInv, NextOnce
<1> QED BY <1>1, InitIInv, InitOnce, PTL DEF Spec

\* Only Send sends.
LEMMA OnlySend ==
  ASSUME IInv, [Next]_vars, NEW q \in Runs, NEW s \in runs'[q].calling \ runs[q].calling
  PROVE  /\ s \in runs[q].waiting /\ \A t \in runs[q].waiting : s <= t
         /\ tried' = tried \cup {s}
<1>0. RunsTyped(runs)
  BY TypeParts DEF IInv
<1>1. CASE UNCHANGED vars \/ FirstFails \/ Age
  BY <1>1 DEF vars, FirstFails, Age
<1>2. CASE Run \/ Refresh
  BY <1>0, <1>2, StartsNoCall DEF Run, Refresh
<1>3. CASE Restart
  <2>1. PICK data : StartRun(data, [r \in Runs |-> Idle])
    BY <1>3 DEF Restart
  <2>2. PICK x : runs' = IF Popped(data) = {} THEN [r \in Runs |-> Idle]
                 ELSE [[r \in Runs |-> Idle] EXCEPT ![x] = [waiting |-> Popped(data), calling |-> {}]]
    BY <2>1 DEF StartRun
  <2>3. runs'[q].calling = {}
    BY <2>2 DEF Idle
  <2> QED BY <2>3
<1>4. ASSUME NEW r \in Runs, Succeeds(r) \/ ReplayFails(r) PROVE FALSE
  <2>1. PICK u : runs' = [runs EXCEPT ![r] = [waiting |-> runs[r].waiting,
                                              calling |-> runs[r].calling \ {u}]]
    BY <1>4 DEF Succeeds, ReplayFails, EndCall
  <2>2. runs'[q].calling \subseteq runs[q].calling
    BY <1>0, <2>1 DEF RunsTyped
  <2> QED BY <2>2
<1>5. ASSUME NEW r \in Runs, Send(r)
      PROVE  /\ s \in runs[q].waiting /\ \A t \in runs[q].waiting : s <= t
             /\ tried' = tried \cup {s}
  <2>1. PICK u \in runs[r].waiting :
          /\ \A t \in runs[r].waiting : u <= t
          /\ runs' = [runs EXCEPT ![r] = [waiting |-> @.waiting \ {u}, calling |-> @.calling \cup {u}]]
          /\ tried' = tried \cup {u}
    BY <1>5 DEF Send
  <2>2. q = r /\ s = u
    BY <1>0, <2>1 DEF RunsTyped
  <2> QED BY <2>1, <2>2
<1> QED BY <1>1, <1>2, <1>3, <1>4, <1>5 DEF Next, RunStep

\* In a server that initialised the replayer once, a call is sent again for the
\* first time only after the older ones were, whatever fails, grows old or dies:
\* what pop() leaves is younger than what it takes, and a run sends in order
\* (rpcreplay.py 110-147, 197-260).
THEOREM SentInTurn == Spec => InTurn
<1>1. IInv /\ Once /\ [Next]_vars =>
        [\A s \in 1 .. failed : \A t \in 1 .. s :
           budget.refreshes = 0 /\ SentAgain(s) =>
             t \in tried' \/ t <= old \/ t \in torn]_vars
  <2> SUFFICES ASSUME IInv, Once, [Next]_vars, NEW s \in 1 .. failed, NEW t \in 1 .. s,
                      budget.refreshes = 0, SentAgain(s)
               PROVE  t \in tried' \/ t <= old \/ t \in torn
    OBVIOUS
  <2>1. PICK q \in Runs : s \in runs'[q].calling \ runs[q].calling
    BY DEF SentAgain
  <2>2. /\ s \in runs[q].waiting /\ \A u \in runs[q].waiting : s <= u
        /\ tried' = tried \cup {s}
    BY <2>1, OnlySend
  <2>3. t \in runs[q].waiting \/ t \in tried \/ t <= old \/ t \in torn
    BY <2>2 DEF Once, Orderly, Turns
  <2>4. t \in runs[q].waiting => t = s
    <3>1. s \in Int /\ t \in Int /\ t <= s
      BY TypeParts DEF IInv
    <3> QED BY <2>2, <3>1
  <2> QED BY <2>2, <2>3, <2>4
<1> QED BY <1>1, StaysOnce, PTL DEF Spec, InTurn

\* In such a server a call that was answered is not sent again: what its run was
\* answered is still in the file when discardRPCs() looks for it, and once in the
\* list, although calls are stored, fail and grow old meanwhile
\* (rpcreplay.py 149-166, 262-303).
THEOREM NeverAnsweredTwice == Spec => AnsweredOnce
<1>1. IInv /\ Once /\ [Next]_vars =>
        [\A s \in acked : budget.refreshes = 0 => ~SentAgain(s)]_vars
  <2> SUFFICES ASSUME IInv, Once, [Next]_vars, NEW s \in acked,
                      budget.refreshes = 0, SentAgain(s)
               PROVE  FALSE
    OBVIOUS
  <2>1. PICK q \in Runs : s \in runs'[q].calling \ runs[q].calling
    BY DEF SentAgain
  <2>2. s \in InHand(q)
    BY <2>1, OnlySend DEF InHand
  <2>3. s \in Stamps
    BY Constants DEF IInv, TypeOK, Stamps
  <2> QED BY <2>2, <2>3 DEF Once, Orderly, Listed
<1> QED BY <1>1, StaysOnce, PTL DEF Spec, AnsweredOnce

=============================================================================
