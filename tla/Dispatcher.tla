----------------------------- MODULE Dispatcher -----------------------------
(***************************************************************************)
(* The scheduler's dispatcher over many commands-on-host: which CoHs the   *)
(* mainloop selects, which of them wait in the container because their     *)
(* target is busy, what the starter emits, and which waiting circuit takes *)
(* the slot of a circuit that is released. What one circuit does between   *)
(* its start and its release is the matter of module Circuit.              *)
(***************************************************************************)
EXTENDS Integers, FiniteSets

CONSTANTS
    CoHs,         \* the commands-on-host
    Groups,       \* the preferred networks
    GroupOf,      \* network_address of a CoH's circuit
    TargetOf,     \* target_uuid of a CoH
    Hours,        \* the CoHs whose command has a deployment interval
    Short,        \* the CoHs whose circuit may end inside the starter's thread
    MaxSlots,     \* max_slots, over all launchers
    MaxAttempts,  \* attempts_total
    MaxOps        \* bound: stops by the agent

ASSUME DispatcherAssumption ==
    /\ IsFiniteSet(CoHs)
    /\ GroupOf \in [CoHs -> Groups]
    /\ DOMAIN TargetOf = CoHs
    /\ Hours \subseteq CoHs
    /\ Short \subseteq CoHs
    /\ MaxSlots \in Nat \ {0}
    /\ MaxAttempts \in Nat \ {0}
    /\ MaxOps \in Nat

VARIABLES
    place,    \* where the circuit of a CoH is
    todo,     \* the attempts a CoH has left, 0 once its row is final or stopped
    due,      \* the CoHs whose next_launch_date has passed
    open,     \* now is within the deployment intervals
    ops       \* stops so far

vars == <<place, todo, due, open, ops>>

\* "emit": in the list of LoopingStarter, which holds lock_start; "thread": in
\* run(), not yet appended to the container; "waiting" and "active": in the
\* container; "dead": appended, ACTIVE, after it ended inside the thread.
Places   == {"none", "emit", "thread", "waiting", "active", "dead"}
InFlight == {"emit", "thread"}
At(p, S) == {c \in CoHs : p[c] \in S}

Init ==
    /\ place = [c \in CoHs |-> "none"]
    /\ todo = [c \in CoHs |-> MaxAttempts]
    /\ due = CoHs
    /\ open \in BOOLEAN
    /\ ops = 0

-----------------------------------------------------------------------------
(* Queries on the container, of the placement p. *)

Active(p)      == At(p, {"active", "dead"})               \* self.circuits
Waiting(p)     == At(p, {"waiting"})                      \* waiting_circuits
InHours(c)     == open \/ c \notin Hours                  \* inDeploymentInterval()
Valid(p)       == {c \in Waiting(p) : InHours(c)}         \* get_valid_waitings()
MutFreeSlots(p) == MaxSlots              \* running circuits forgotten
FreeSlots(p) == MaxSlots - Cardinality(Active(p))
HasFreeSlots(p) == Cardinality(Active(p)) < MaxSlots

\* contains_running_target()
Busy(p, c) == \E d \in Active(p) : TargetOf[d] = TargetOf[c]

\* _analyze_groups()
Count(S, g) == Cardinality({c \in S : GroupOf[c] = g})

-----------------------------------------------------------------------------
(* launch_next_waiting() *)

\* min() over the groups, those without a valid waiting circuit being deleted.
Slightest(p) ==
    {g \in Groups :
        /\ Count(Valid(p), g) > 0
        /\ \A h \in Groups : Count(Valid(p), h) > 0 =>
              Count(Active(p), g) <= Count(Active(p), h)}

\* get_unprocessed_waitings(), then _get_next_waiting(): of the group, whatever
\* the deployment interval. The valid waitings it tries next are among them.
Unblocked(p, g) == {c \in Waiting(p) : GroupOf[c] = g /\ ~Busy(p, c)}

\* Who may come next. When every circuit of the slightest group is blocked, the
\* "remaining" branch starts any valid one.
Candidates(p) ==
    IF HasFreeSlots(p)
    THEN UNION {IF Unblocked(p, g) # {} THEN Unblocked(p, g) ELSE Valid(p) :
                  g \in Slightest(p)}
    ELSE {}

\* The placements it may lead to.
MutLaunched(p) == {p}                          \* a release launches nobody
Launched(p) ==
    IF Candidates(p) = {} THEN {p}
    ELSE {[p EXCEPT ![c] = "active"] : c \in Candidates(p)}

-----------------------------------------------------------------------------
(* The mainloop. *)

\* Mutant: the waiting circuits are not excluded.
MutExcluded == Active(place)
Excluded == Active(place) \cup Valid(place)

\* get_ids_to_start(): LIMIT comes before the deployment intervals.
Selectable == {c \in due : todo[c] > 0} \ Excluded

IsLimited(S, n) == Cardinality(S) <= n /\ (Cardinality(S) < n => S = Selectable)

\* _mainloop() to _run_all(), which is one turn of the reactor: no callback
\* waits for anything. As LIMIT is the number of free slots, _select_balanced()
\* has room for all: only a busy target makes a new circuit wait. A circuit that
\* is already in the container would be reactivated and run as it is.
Awake ==
    /\ At(place, InFlight) = {}
    /\ HasFreeSlots(place)
    /\ \E S \in SUBSET Selectable :
         /\ IsLimited(S, FreeSlots(place))
         /\ LET ids == {c \in S : InHours(c)}
                new == {c \in ids : place[c] = "none"}
            IN  /\ ids # {}
                /\ place' = [c \in CoHs |->
                      IF c \notin ids THEN place[c]
                      ELSE IF c \in new /\ Busy(place, c) THEN "waiting"
                      ELSE "emit"]
    /\ UNCHANGED <<todo, due, open, ops>>

\* LoopingStarter: one circuit every emitting_period, in a thread.
Emit(c) ==
    /\ place[c] = "emit"
    /\ place' = [place EXCEPT ![c] = "thread"]
    /\ UNCHANGED <<todo, due, open, ops>>

\* run() returned: the callback appends the circuit.
ThreadEnds(c) ==
    /\ place[c] = "thread"
    /\ place' = [place EXCEPT ![c] = "active"]
    /\ UNCHANGED <<todo, due, open, ops>>

\* What the row becomes when an attempt of c ends: closed, or to be retried.
Ended(c) ==
    /\ due' = due \ {c}
    /\ \E n \in {0, todo[c] - 1} : n >= 0 /\ todo' = [todo EXCEPT ![c] = n]

\* The circuit released itself in the thread: _release() does not find it, the
\* next waiting one is launched, and the callback appends it all the same.
ThreadEndsReleased(c) ==
    /\ place[c] = "thread"
    /\ c \in Short
    /\ \E q \in Launched(place) : place' = [q EXCEPT ![c] = "dead"]
    /\ Ended(c)
    /\ UNCHANGED <<open, ops>>

\* release(): _release(), then launch_next_waiting().
Release(c) ==
    /\ place[c] = "active"
    /\ place' \in Launched([place EXCEPT ![c] = "none"])
    /\ Ended(c)
    /\ UNCHANGED <<open, ops>>

\* remove_expired(): nothing came for max_command_time; the row is as it was.
RemoveExpired(c) ==
    /\ place[c] = "active"
    /\ place' \in Launched([place EXCEPT ![c] = "none"])
    /\ UNCHANGED <<todo, due, open, ops>>

\* The agent stops a CoH; stop_commands() releases what is in the container.
Stop(c) ==
    /\ ops < MaxOps
    /\ todo[c] > 0
    /\ IF place[c] \in {"waiting", "active", "dead"}
       THEN place' \in Launched([place EXCEPT ![c] = "none"])
       ELSE UNCHANGED place
    /\ todo' = [todo EXCEPT ![c] = 0]
    /\ ops' = ops + 1
    /\ UNCHANGED <<due, open>>

\* Time passes.
Due(c) ==
    /\ c \notin due
    /\ todo[c] > 0
    /\ due' = due \cup {c}
    /\ UNCHANGED <<place, todo, open, ops>>

OpenClose ==
    /\ Hours # {}
    /\ open' = ~open
    /\ UNCHANGED <<place, todo, due, ops>>

Next ==
    \/ Awake
    \/ OpenClose
    \/ \E c \in CoHs :
         Emit(c) \/ ThreadEnds(c) \/ ThreadEndsReleased(c) \/ Release(c)
           \/ RemoveExpired(c) \/ Stop(c) \/ Due(c)

Spec == Init /\ [][Next]_vars

\* The mainloop is a LoopingCall, emission another; threads end, time passes.
\* The mainloop awakes within every deployment interval. Launchers report every
\* process or its time limit: circuits do not expire over and over.
Fairness ==
    /\ SF_vars(Awake)
    /\ WF_vars(OpenClose)
    /\ WF_vars(\E c \in CoHs : Emit(c) \/ ThreadEnds(c) \/ ThreadEndsReleased(c))
    /\ WF_vars(\E c \in CoHs : Due(c))
    /\ SF_vars(\E c \in CoHs : Release(c))

FairSpec == Spec /\ Fairness

-----------------------------------------------------------------------------
(* Properties. *)

\* Every variable has its type.
TypeOK ==
    /\ place \in [CoHs -> Places]
    /\ todo \in [CoHs -> 0..MaxAttempts]
    /\ due \subseteq CoHs
    /\ open \in BOOLEAN
    /\ ops \in 0..MaxOps

\* The circuits that carry out their CoH, or are about to: all but the dead ones.
Working == At(place, InFlight \cup {"active"})

Load == Cardinality(Active(place)) + Cardinality(At(place, InFlight))

\* The slots are counted in the container only, which circuits in flight have
\* not joined: has_free_slots() may accept a waiting circuit too many. It takes
\* a stop by the agent for that, which launches the next circuit without freeing
\* a slot: each can cost one slot, and nothing else can.
Slots == Cardinality(Working) <= MaxSlots + ops

\* Dead circuits included, what holds a slot is below twice the slots: a batch is
\* as large as the free slots at most, and a launch needs a free slot in the
\* container.
Doubled == Load <= 2 * MaxSlots /\ Cardinality(At(place, InFlight)) <= MaxSlots

\* The queue is served by releases alone (launch_remaining_waitings() is
\* disabled in mainloop()): a circuit that no interval holds back must not wait
\* while nothing is on its way or holds a slot, for no release would come.
QueueServed ==
    Waiting(place) \ Hours # {} => Active(place) \cup At(place, InFlight) # {}

\* The exclusion of valid waitings and the intervals of get_ids_to_start() agree:
\* a CoH that has a circuit is never started again by start_all().
NotAgain ==
    [][\A c \in CoHs :
         place'[c] = "emit" => place[c] \in {"none", "emit"}]_vars

\* A CoH whose date has come and that no interval holds back is started or
\* stopped, unless a circuit that ended in its thread stays in its way.
Starts ==
    \A c \in CoHs \ Hours :
        (c \in due /\ todo[c] > 0)
          ~> \/ c \in Working
             \/ todo[c] = 0
             \/ At(place, {"dead"}) # {}
=============================================================================
