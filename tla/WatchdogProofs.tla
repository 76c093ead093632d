--------------------------- MODULE WatchdogProofs ---------------------------
(***************************************************************************)
(* What holds of Watchdog for every set of commands and every number of    *)
(* operations and faults: its types, that cancel() never meets a timer     *)
(* that was called, and that an ended command has one timer at most.       *)
(***************************************************************************)
EXTENDS Watchdog, TLAPS

\* An entry outlives its timer only while _update_for() is at it, or because
\* an update failed.
CalledIs == \A c \in Commands : wdogs[c] = "called" => updating = c \/ failed

\* Without a thread the entries and the timers agree, and the command that is
\* updated has no timer.
Exact ==
    ~raced => /\ \A c \in Commands : timers[c] = IF wdogs[c] = "pending" THEN 1 ELSE 0
              /\ updating # NoCommand => wdogs[updating] = "called"

IInv == TypeOK /\ CalledIs /\ NeverRaises /\ Exact

LEMMA Constants == NoCommand \notin Commands /\ MaxOps \in Nat /\ MaxFaults \in Nat
BY WatchdogAssumption, Zenon DEF WatchdogAssumption

-----------------------------------------------------------------------------
(* Scheduling. *)

\* However many commands are scheduled: no entry becomes called, and entries
\* and timers still agree.
LEMMA Scheduling ==
    ASSUME TypeOK, NEW due \in SUBSET Commands, Schedule(due)
    PROVE  /\ wdogs' \in [Commands -> {"none", "pending", "called"}]
           /\ timers' \in [Commands -> Nat]
           /\ \A c \in Commands : wdogs'[c] = "pending" => timers'[c] > 0
           /\ \A c \in Commands : wdogs'[c] = "called" => wdogs[c] = "called"
           /\ \A c \in Commands :
                (timers[c] = IF wdogs[c] = "pending" THEN 1 ELSE 0)
                => (timers'[c] = IF wdogs'[c] = "pending" THEN 1 ELSE 0)
<1>1. wdogs' \in [Commands -> {"none", "pending", "called"}]
  BY DEF TypeOK, Schedule
<1>2. \A c \in Commands : wdogs'[c] = IF c \in due THEN "pending" ELSE wdogs[c]
  BY Zenon DEF Schedule
<1>0. timers \in [Commands -> Nat]
  BY DEF TypeOK
<1>3. \A c \in Commands : timers[c] \in Nat /\ timers[c] + 1 \in Nat
  BY <1>0
<1>4. timers' \in [Commands -> Nat]
  BY <1>3 DEF Schedule
<1>6. \A c \in Commands :
        timers'[c] = IF c \in due /\ wdogs[c] # "pending" THEN timers[c] + 1 ELSE timers[c]
  BY DEF Schedule
<1>7. \A c \in Commands :
        wdogs[c] \in {"none", "pending", "called"} /\ (wdogs[c] = "pending" => timers[c] > 0)
  BY DEF TypeOK
<1>5. ASSUME NEW c \in Commands
      PROVE  /\ wdogs'[c] = "pending" => timers'[c] > 0
             /\ wdogs'[c] = "called" => wdogs[c] = "called"
             /\ (timers[c] = IF wdogs[c] = "pending" THEN 1 ELSE 0)
                => (timers'[c] = IF wdogs'[c] = "pending" THEN 1 ELSE 0)
  <2>1. CASE c \in due /\ wdogs[c] # "pending"
    BY <1>2, <1>3, <1>6, <1>7, <2>1
  <2>2. CASE c \in due /\ wdogs[c] = "pending"
    BY <1>2, <1>3, <1>6, <1>7, <2>2
  <2>3. CASE c \notin due
    BY <1>2, <1>3, <1>6, <1>7, <2>3
  <2> QED BY <2>1, <2>2, <2>3
<1> QED BY <1>1, <1>4, <1>5

\* An update of the statistics schedules some commands, and tells of an
\* exception only when an entry was called.
LEMMA Updating ==
    ASSUME TypeOK, NEW who \in {"mainloop", "circuit", "agent"},
           NEW found \in SUBSET Commands, NEW last \in SUBSET Commands,
           Update(who, found, last)
    PROVE  /\ \E due \in SUBSET Commands : Schedule(due)
           /\ stats' \subseteq Commands /\ previous' \subseteq Commands
           /\ raised' \subseteq {"mainloop", "circuit", "agent"}
           /\ raised' = raised \/ \E c \in Commands : wdogs[c] = "called"
<1> DEFINE expired == Expired(found)
<1>1. expired \in SUBSET Commands
  BY DEF TypeOK, Expired
<1>2. \E due \in SUBSET Commands : Schedule(due)
  <2>1. CASE Called(expired) # {}
    BY <1>1, <2>1 DEF Update
  <2>2. CASE Called(expired) = {}
    <3>1. Schedule(expired \cup (last \ Called(last)))
      BY <2>2 DEF Update
    <3> QED BY <1>1, <3>1
  <2> QED BY <2>1, <2>2
<1>3. stats' \subseteq Commands /\ previous' \subseteq Commands
  BY DEF TypeOK, Update
<1>4. CASE Called(expired \cup last) = {}
  BY <1>2, <1>3, <1>4 DEF Update, TypeOK
<1>5. CASE Called(expired \cup last) # {}
  <2>1. \E c \in Commands : wdogs[c] = "called"
    BY <1>1, <1>5 DEF Called
  <2>2. raised' = raised \cup {who}
    BY <1>5 DEF Update, Raise
  <2> QED BY <1>2, <1>3, <2>1, <2>2 DEF TypeOK
<1> QED BY <1>4, <1>5

\* The bounds on operations and faults.
LEMMA Counting ==
    ASSUME TypeOK
    PROVE  /\ Op => ops' \in 0..MaxOps /\ faults' \in 0..MaxFaults
           /\ Fault => ops' \in 0..MaxOps /\ faults' \in 0..MaxFaults
<1>1. ops \in 0..MaxOps /\ faults \in 0..MaxFaults
  BY DEF TypeOK
<1> QED BY <1>1, Constants DEF Op, Fault

\* A step that updates the statistics, whoever does it, preserves the
\* invariant: in the main thread no entry is called unless an update failed,
\* and in a starter thread the step is a race.
LEMMA UpdateKeeps ==
    ASSUME IInv, NEW who \in {"mainloop", "circuit", "agent"},
           NEW found \in SUBSET Commands, NEW last \in SUBSET Commands,
           Update(who, found, last),
           raced' = (raced \/ ~Main), live' \subseteq Commands,
           UNCHANGED <<window, settled, updating, ops, faults, failed>>
    PROVE  IInv'
<1>1. PICK due \in SUBSET Commands : Schedule(due)
  BY Updating DEF IInv
<1>2. TypeOK'
  BY <1>1, Scheduling, Updating DEF IInv, TypeOK, Over
<1>3. CalledIs'
  BY <1>1, Scheduling DEF IInv, CalledIs
<1>4. NeverRaises'
  <2>1. CASE raised' = raised
    BY <2>1 DEF IInv, NeverRaises
  <2>2. CASE \E c \in Commands : wdogs[c] = "called"
    BY <2>2, Constants DEF IInv, CalledIs, NeverRaises, Main
  <2> QED BY <2>1, <2>2, Updating DEF IInv
<1>5. Exact'
  <2> SUFFICES ASSUME ~raced' PROVE /\ \A c \in Commands : timers'[c] = IF wdogs'[c] = "pending" THEN 1 ELSE 0
                                    /\ updating' = NoCommand
    BY DEF Exact
  <2>1. ~raced /\ Main
    OBVIOUS
  <2> QED BY <1>1, <2>1, Scheduling DEF IInv, Exact, Main
<1> QED BY <1>2, <1>3, <1>4, <1>5 DEF IInv

-----------------------------------------------------------------------------
(* The invariant. *)

LEMMA InitIInv == Init => IInv
<1> SUFFICES ASSUME Init PROVE IInv
  OBVIOUS
<1>1. wdogs \in [Commands -> {"none"}] /\ timers \in [Commands -> {0}]
  BY DEF Init
<1>0. ops = 0 /\ faults = 0
  BY DEF Init
<1>2. ops \in 0..MaxOps /\ faults \in 0..MaxFaults
  BY <1>0, Constants
<1>3. window \in [Commands -> {"to come", "open", "over"}]
  BY DEF Init
<1>4. TypeOK
  BY <1>1, <1>2, <1>3 DEF Init, TypeOK, Over
<1>5. CalledIs /\ NeverRaises /\ Exact
  BY <1>1, Constants DEF Init, CalledIs, NeverRaises, Exact
<1> QED BY <1>4, <1>5 DEF IInv

LEMMA AwakeKeeps == IInv /\ Awake => IInv'
<1> SUFFICES ASSUME IInv, Awake PROVE IInv'
  OBVIOUS
<1> DEFINE found == {c \in Commands : window[c] = "open"}
<1>1. found \in SUBSET Commands /\ {} \in SUBSET Commands
  OBVIOUS
<1>2. Update("mainloop", found, {}) /\ raced' = (raced \/ ~Main)
  BY DEF Awake, IInv, TypeOK
<1>3. live' \subseteq Commands
  BY DEF Awake, IInv, TypeOK
<1>4. UNCHANGED <<window, settled, updating, ops, faults, failed>>
  BY DEF Awake, Usual
<1> QED BY <1>1, <1>2, <1>3, <1>4, UpdateKeeps

LEMMA ProcessKeeps == ASSUME IInv, NEW c \in Commands, Process(c) PROVE IInv'
<1>1. stats \cup {c} \in SUBSET Commands /\ {} \in SUBSET Commands
  BY DEF IInv, TypeOK
<1>2. Update("circuit", stats \cup {c}, {}) /\ raced' = (raced \/ ~Main)
  BY DEF Process
<1>3. live' \subseteq Commands
  BY DEF Process, IInv, TypeOK
<1>4. UNCHANGED <<window, settled, updating, ops, faults, failed>>
  BY DEF Process, Usual
<1> QED BY <1>1, <1>2, <1>3, <1>4, UpdateKeeps

LEMMA ReleaseKeeps == ASSUME IInv, NEW c \in Commands, Release(c) PROVE IInv'
<1>1. PICK last \in {{}, {c}} : Update("circuit", stats \cup {c}, last)
  BY DEF Release
<1>2. stats \cup {c} \in SUBSET Commands /\ last \in SUBSET Commands
  BY DEF IInv, TypeOK
<1>3. live' \subseteq Commands
  BY DEF Release, IInv, TypeOK
<1>4. UNCHANGED <<window, settled, updating, ops, faults, failed>> /\ raced' = (raced \/ ~Main)
  BY DEF Release, Usual
<1> QED BY <1>1, <1>2, <1>3, <1>4, UpdateKeeps

LEMMA AgentCallKeeps == ASSUME IInv, NEW c \in Commands, AgentCall(c) PROVE IInv'
<1>1. UNCHANGED <<window, settled, live, stats, previous, updating, failed, raced>>
      /\ ops' \in 0..MaxOps /\ faults' \in 0..MaxFaults /\ Main
  BY Counting DEF AgentCall, IInv
<1>2. CASE Called({c}) = {}
  <2>1. Schedule({c}) /\ UNCHANGED raised
    BY <1>2 DEF AgentCall
  <2>2. {c} \in SUBSET Commands
    OBVIOUS
  <2> QED BY <1>1, <2>1, <2>2, Scheduling
          DEF IInv, TypeOK, Over, CalledIs, NeverRaises, Exact, Main
<1>3. CASE Called({c}) # {}
  <2>1. wdogs[c] = "called"
    BY <1>3 DEF Called
  <2>2. raised' = raised \cup {"agent"} /\ UNCHANGED <<wdogs, timers>>
    BY <1>3 DEF AgentCall, Raise
  <2>3. failed
    BY <1>1, <2>1, Constants DEF IInv, CalledIs, Main
  <2> QED BY <1>1, <2>2, <2>3 DEF IInv, TypeOK, Over, CalledIs, NeverRaises, Exact, Main
<1> QED BY <1>2, <1>3

\* A timer of an entry that is gone can only be there after a race.
LEMMA FireKeeps == ASSUME IInv, NEW c \in Commands, Fire(c) PROVE IInv'
<1>1. /\ UNCHANGED <<window, settled, live, stats, previous, ops, faults, raised, failed, raced>>
      /\ updating' = c /\ updating = NoCommand
  BY DEF Fire, Usual, Main, histories
<1>2. /\ timers[c] > 0
      /\ timers' = [timers EXCEPT ![c] = @ - 1]
      /\ \/ wdogs[c] = "pending" /\ wdogs' = [wdogs EXCEPT ![c] = "called"]
         \/ timers[c] > (IF wdogs[c] = "pending" THEN 1 ELSE 0) /\ UNCHANGED wdogs
  BY DEF Fire
<1>3. /\ timers \in [Commands -> Nat] /\ wdogs \in [Commands -> {"none", "pending", "called"}]
      /\ \A d \in Commands : wdogs[d] = "pending" => timers[d] > 0
  BY DEF IInv, TypeOK
<1>4. /\ timers' \in [Commands -> Nat] /\ wdogs' \in [Commands -> {"none", "pending", "called"}]
      /\ \A d \in Commands : wdogs'[d] = "pending" => timers'[d] > 0
  BY <1>2, <1>3
<1>5. TypeOK'
  BY <1>1, <1>4 DEF IInv, TypeOK, Over
<1>6. CalledIs'
  BY <1>1, <1>2, <1>3, Constants DEF IInv, CalledIs
<1>7. NeverRaises'
  BY <1>1 DEF IInv, NeverRaises
<1>8. Exact'
  <2> SUFFICES ASSUME ~raced PROVE /\ \A d \in Commands : timers'[d] = IF wdogs'[d] = "pending" THEN 1 ELSE 0
                                   /\ wdogs'[c] = "called"
    BY <1>1 DEF Exact
  <2>1. \A d \in Commands : timers[d] = IF wdogs[d] = "pending" THEN 1 ELSE 0
    BY DEF IInv, Exact
  <2>2. wdogs[c] = "pending" /\ wdogs' = [wdogs EXCEPT ![c] = "called"]
    BY <1>2, <1>3, <2>1
  <2> QED BY <1>2, <1>3, <2>1, <2>2
<1> QED BY <1>5, <1>6, <1>7, <1>8 DEF IInv

LEMMA FinishKeeps == ASSUME IInv, Finish PROVE IInv'
<1>1. updating \in Commands
  BY DEF Finish, Main, IInv, TypeOK
<1> QED BY <1>1, Constants
        DEF Finish, Usual, Main, IInv, TypeOK, Over, CalledIs, NeverRaises, Exact, histories

LEMMA FailureKeeps == ASSUME IInv, UpdateFails PROVE IInv'
<1>1. ops' \in 0..MaxOps /\ faults' \in 0..MaxFaults
  BY Counting DEF IInv, UpdateFails
<1>2. /\ UNCHANGED <<window, live, stats, previous, wdogs, timers, raised, raced>>
      /\ settled' \in {settled, settled \cup Over} /\ updating' = NoCommand /\ failed' = TRUE
  BY DEF UpdateFails
<1>3. TypeOK'
  BY <1>1, <1>2 DEF IInv, TypeOK, Over
<1> QED BY <1>2, <1>3 DEF IInv, CalledIs, NeverRaises, Exact

LEMMA RestartKeeps == ASSUME IInv, Restart PROVE IInv'
<1>1. ops' \in 0..MaxOps /\ faults' \in 0..MaxFaults
  BY Counting DEF IInv, Restart
<1>2. /\ UNCHANGED <<window, settled, raised, failed, raced>>
      /\ live' = {} /\ stats' = {} /\ previous' = {} /\ updating' = NoCommand
  BY DEF Restart, histories
<1>3. /\ timers' \in [Commands -> Nat] /\ wdogs' \in [Commands -> {"none", "pending", "called"}]
      /\ \A c \in Commands : wdogs'[c] = "none" /\ timers'[c] = 0
  BY DEF Restart
<1>4. TypeOK'
  BY <1>1, <1>2, <1>3 DEF IInv, TypeOK, Over
<1> QED BY <1>2, <1>3, <1>4 DEF IInv, CalledIs, NeverRaises, Exact

\* Steps that leave the watchdogs alone.
LEMMA OthersKeep ==
    ASSUME IInv, NEW c \in Commands, StartCircuit(c) \/ Time(c) \/ Extend(c)
    PROVE  IInv'
<1>1. CASE StartCircuit(c)
  BY <1>1 DEF StartCircuit, Usual, IInv, TypeOK, Over, CalledIs, NeverRaises, Exact, histories
<1>2. CASE Time(c)
  BY <1>2 DEF Time, Usual, IInv, TypeOK, Over, CalledIs, NeverRaises, Exact, memory, histories
<1>3. CASE Extend(c)
  <2>1. ops' \in 0..MaxOps /\ faults' \in 0..MaxFaults
    BY <1>3, Counting DEF IInv, Extend
  <2>2. /\ UNCHANGED <<live, stats, previous, wdogs, timers, updating, raised, failed, raced>>
        /\ window' = [window EXCEPT ![c] = "open"] /\ settled' = settled \ {c}
    BY <1>3 DEF Extend, memory, histories
  <2>3. TypeOK'
    BY <2>1, <2>2 DEF IInv, TypeOK, Over
  <2> QED BY <2>2, <2>3 DEF IInv, CalledIs, NeverRaises, Exact
<1> QED BY <1>1, <1>2, <1>3

LEMMA NextIInv == IInv /\ [Next]_vars => IInv'
<1> SUFFICES ASSUME IInv, [Next]_vars PROVE IInv'
  OBVIOUS
<1>1. CASE UNCHANGED vars
  BY <1>1 DEF vars, memory, histories, IInv, TypeOK, Over, CalledIs, NeverRaises, Exact
<1>2. CASE Awake \/ Finish \/ UpdateFails \/ Restart
  BY <1>2, AwakeKeeps, FinishKeeps, FailureKeeps, RestartKeeps
<1>3. ASSUME NEW c \in Commands,
             StartCircuit(c) \/ Process(c) \/ Release(c) \/ AgentCall(c)
             \/ Fire(c) \/ Time(c) \/ Extend(c)
      PROVE  IInv'
  BY <1>3, ProcessKeeps, ReleaseKeeps, AgentCallKeeps, FireKeeps, OthersKeep
<1> QED BY <1>1, <1>2, <1>3 DEF Next

LEMMA Invariant == Spec => []IInv
BY InitIInv, NextIInv, PTL DEF Spec

-----------------------------------------------------------------------------
(* The theorems. *)

\* Types, and an entry that waits for its timer has one (stats.py 129-137).
THEOREM Typing == Spec => []TypeOK
<1>1. IInv => TypeOK
  BY DEF IInv
<1> QED BY Invariant, <1>1, PTL

\* cancel() meets no timer that was called, unless an update failed or a
\* thread raced: watchdog_schedule() deletes no entry, but _update_for() does
\* before anything of the main thread can look at it (stats.py 100-137).
THEOREM Cancels == Spec => []NeverRaises
<1>1. IInv => NeverRaises
  BY DEF IInv
<1> QED BY Invariant, <1>1, PTL

\* The watchdogs of a command never pile up (stats.py 129-137).
THEOREM SingleTimer == Spec => []OneTimer
<1>1. IInv => OneTimer
  BY DEF IInv, Exact, OneTimer
<1> QED BY Invariant, <1>1, PTL

=============================================================================
