------------------------------ MODULE Bundles ------------------------------
(***************************************************************************)
(* The commands of a bundle are to be deployed one after the other on each *)
(* target. The scheduler keeps a reference (BundleElement) of every CoH of *)
(* a bundle it has selected, and bans those whose predecessor is not       *)
(* finished. This module is the dispatcher seen from the bundles: one      *)
(* network, no deployment interval, and circuits that end outside the      *)
(* starter's thread; see Dispatcher for these.                             *)
(***************************************************************************)
EXTENDS Integers, SequencesExt

CONSTANTS
    CoHs,         \* the commands-on-host
    NoBundle,     \* fk_bundle of a command that is not part of a bundle
    BundleOf,     \* fk_bundle of a CoH's command
    OrderOf,      \* order_in_bundle, from 1; 0 outside of bundles
    Orders,       \* all CoHs by order_in_bundle: one sequence or one per way
                  \* to break ties
    TargetOf,     \* target_uuid of a CoH
    MaxSlots,     \* max_slots
    MaxAttempts,  \* attempts_total
    CanStop       \* bound: the CoHs the agent may stop

ASSUME BundlesAssumption ==
    /\ IsFiniteSet(CoHs)
    /\ DOMAIN BundleOf = CoHs /\ DOMAIN TargetOf = CoHs
    /\ OrderOf \in [CoHs -> Nat]
    /\ \A c \in CoHs : BundleOf[c] = NoBundle <=> OrderOf[c] = 0
    /\ Orders # {}
    /\ \A rows \in Orders :
         /\ rows \in Seq(CoHs) /\ ToSet(rows) = CoHs /\ IsInjective(rows)
         /\ \A i, j \in DOMAIN rows : i < j => OrderOf[rows[i]] <= OrderOf[rows[j]]
    /\ MaxSlots \in Nat \ {0}
    /\ MaxAttempts \in Nat \ {0}
    /\ CanStop \subseteq CoHs

VARIABLES
    place,   \* where the circuit of a CoH is
    queue,   \* the waiting circuits, in the order of the container
    refs,    \* BundleReferences.content
    row,     \* what the CoH's row comes to
    todo,    \* the attempts it has left
    due      \* the CoHs whose next_launch_date has passed

vars == <<place, queue, refs, row, todo, due>>

Places  == {"none", "flight", "waiting", "active"}    \* flight: see Dispatcher
Element == [coh : CoHs, finished : BOOLEAN]

Init ==
    /\ place = [c \in CoHs |-> "none"]
    /\ queue = <<>>
    /\ refs = <<>>
    /\ row = [c \in CoHs |-> "scheduled"]
    /\ todo = [c \in CoHs |-> MaxAttempts]
    /\ due = CoHs

\* What is left of the sequence q: its elements at the positions K, those in S.
Pick(q, K)  == [n \in 1..Cardinality(K) |->
                  q[CHOOSE i \in K : Cardinality({j \in K : j <= i}) = n]]
Among(q, S) == Pick(q, {i \in DOMAIN q : q[i] \in S})

At(p, where) == {c \in CoHs : p[c] = where}
Busy(p, c)   == \E d \in At(p, "active") : TargetOf[d] = TargetOf[c]
FreeSlots    == MaxSlots - Cardinality(At(place, "active"))

-----------------------------------------------------------------------------
(* BundleReferences. *)

\* get(id=, target_uuid=, order=): c comes just before d.
Precedes(c, d) ==
    /\ BundleOf[c] = BundleOf[d]
    /\ BundleOf[c] # NoBundle
    /\ TargetOf[c] = TargetOf[d]
    /\ OrderOf[c] + 1 = OrderOf[d]

Tracked(r)    == {x.coh : x \in ToSet(r)}
Unfinished(r) == {x.coh : x \in {y \in ToSet(r) : ~y.finished}}

\* A predecessor without reference counts as finished.
IsPreviousFinished(r, c) == \A d \in Unfinished(r) : ~Precedes(d, c)
Banned(r) == {c \in Tracked(r) : ~IsPreviousFinished(r, c)}

\* Mutant: a CoH selected again gets a second reference.
MutUpdated(r, new) == r \o [i \in DOMAIN new |-> [coh |-> new[i], finished |-> FALSE]]

\* _class_bundles(): update() for every new circuit.
Updated(r, new) ==
    LET again(x) == IF x.coh \in ToSet(new) THEN [x EXCEPT !.finished = FALSE] ELSE x
        first    == Among(new, {c \in CoHs \ Tracked(r) : BundleOf[c] # NoBundle})
    IN  [i \in DOMAIN r |-> again(r[i])]
          \o [i \in DOMAIN first |-> [coh |-> first[i], finished |-> FALSE]]

\* Mutant: what no bundle runs any more is kept.
MutCleanUpRemaining(r, ids) == r

\* clean_up_remaining() removes from the list it iterates over: the element
\* after a removed one is passed over.
CleanUpRemaining(r, ids) ==
    LET gone[i \in 0..Len(r)] ==
          i > 0 /\ ~gone[i - 1] /\ BundleOf[r[i].coh] \notin ids
    IN  Pick(r, {i \in DOMAIN r : ~gone[i]})

\* finish() and clean_up(coh_id=).
Finish(r, c)  == [i \in DOMAIN r |->
                    IF r[i].coh = c THEN [r[i] EXCEPT !.finished = TRUE] ELSE r[i]]
CleanUp(r, c) == Pick(r, {i \in DOMAIN r : r[i].coh # c})

-----------------------------------------------------------------------------
(* The dispatcher. *)

\* launch_next_waiting(), of the placement p and the waiting circuits q: the
\* first that is neither banned nor blocked, or else the first that is not
\* banned. Circuits are told by their positions in q.
MutLaunchable(p, q, r) == {i \in DOMAIN q : ~Busy(p, q[i])}    \* banned or not
MutLaunchNone(p, q, r) == {}                                   \* nobody
Launchable(p, q, r) ==
    LET valid == {i \in DOMAIN q : q[i] \notin Banned(r)}
        free  == {i \in valid : ~Busy(p, q[i])}
    IN  IF free # {} THEN free ELSE valid

LaunchNext(p, q, r) ==
    LET candidates == IF Cardinality(At(p, "active")) < MaxSlots
                      THEN Launchable(p, q, r) ELSE {}
    IN  \/ candidates = {} /\ place' = p /\ queue' = q
        \/ \E i \in candidates :
              /\ \A j \in candidates : i <= j
              /\ place' = [p EXCEPT ![q[i]] = "active"]
              /\ queue' = Among(q, CoHs \ {q[i]})

\* get_ids_to_start(): neither active nor a valid waiting circuit.
Selectable ==
    {c \in due : /\ row[c] = "scheduled"
                 /\ \/ place[c] = "none"
                    \/ place[c] = "waiting" /\ c \in Banned(refs)}

\* ORDER BY order_in_bundle, LIMIT the free slots; start_all() then drops the
\* banned ones.
Selections ==
    {LET s == Among(rows, Selectable)
         n == IF Len(s) > FreeSlots THEN FreeSlots ELSE Len(s)
     IN  Among(SubSeq(s, 1, n), CoHs \ Banned(refs)) : rows \in Orders}

\* update_stats() drops the references of the bundles that have no circuit active
\* in the container, where those handed to the starter are not yet.
Swept(r) == CleanUpRemaining(r, {BundleOf[c] : c \in At(place, "active")})

\* Mutant: _class_all() starts what is banned too.
MutStartable(r, new) == {c \in ToSet(new) : ~Busy(place, c)}

\* _class_bundles() and _class_all(), of the references r and the new circuits.
Startable(r, new) == {c \in ToSet(new) \ Banned(r) : ~Busy(place, c)}

\* mainloop(): start_all(), then update_stats().
Awake ==
    /\ At(place, "flight") = {}
    /\ \E new \in Selections :
         \E start \in {Startable(Updated(refs, new), new)} :
            /\ place' = [c \in CoHs |->
                   IF c \in start THEN "flight"
                   ELSE IF c \in ToSet(new) THEN "waiting" ELSE place[c]]
            /\ queue' = queue \o Among(new, CoHs \ start)
            /\ refs' = Swept(Updated(refs, new))
    /\ UNCHANGED <<row, todo, due>>

\* mainloop() while the lock of the previous batch is held: update_stats() alone.
AwakeLocked ==
    /\ At(place, "flight") # {}
    /\ refs' = Swept(refs)
    /\ UNCHANGED <<place, queue, row, todo, due>>

\* The starter's callback.
ThreadEnds(c) ==
    /\ place[c] = "flight"
    /\ place' = [place EXCEPT ![c] = "active"]
    /\ UNCHANGED <<queue, refs, row, todo, due>>

Released(c, r) == LaunchNext([place EXCEPT ![c] = "none"], queue, r) /\ refs' = r

Ends(c, state) ==
    /\ row' = [row EXCEPT ![c] = state]
    /\ UNCHANGED <<todo, due>>

\* The done phase.
Done(c) ==
    /\ place[c] = "active"
    /\ Released(c, Finish(refs, c))
    /\ Ends(c, "done")

\* switch_phase_failed(): a later attempt, or none is left.
Failed(c) ==
    /\ place[c] = "active"
    /\ Released(c, refs)
    /\ todo' = [todo EXCEPT ![c] = @ - 1]
    /\ row' = IF todo[c] = 1 THEN [row EXCEPT ![c] = "failed"] ELSE row
    /\ due' = due \ {c}

\* DIRECTIVE.OVER_TIMED: the validity window is over.
OverTimed(c) ==
    /\ place[c] = "active"
    /\ Released(c, CleanUp(refs, c))
    /\ Ends(c, "over_timed")

\* remove_expired(): nothing came for max_command_time; the row is as it was.
Expired(c) ==
    /\ place[c] = "active"
    /\ Released(c, refs)
    /\ UNCHANGED <<row, todo, due>>

\* The agent stops a CoH whose circuit is in the container.
Stop(c) ==
    /\ c \in CanStop
    /\ place[c] \in {"active", "waiting"}
    /\ LaunchNext([place EXCEPT ![c] = "none"], Among(queue, CoHs \ {c}), refs)
    /\ UNCHANGED refs
    /\ Ends(c, "stopped")

Due(c) ==
    /\ c \notin due
    /\ row[c] = "scheduled"
    /\ due' = due \cup {c}
    /\ UNCHANGED <<place, queue, refs, row, todo>>

Next ==
    \/ Awake
    \/ AwakeLocked
    \/ \E c \in CoHs :
         \/ ThreadEnds(c) \/ Due(c) \/ Stop(c)
         \/ Done(c) \/ Failed(c) \/ OverTimed(c) \/ Expired(c)

Spec == Init /\ [][Next]_vars

\* The mainloop awakes, threads end, time passes; circuits do not expire over and
\* over, for the window of a command ends.
Fairness ==
    /\ WF_vars(Awake)
    /\ WF_vars(\E c \in CoHs : ThreadEnds(c))
    /\ WF_vars(\E c \in CoHs : Due(c))
    /\ SF_vars(\E c \in CoHs : Done(c) \/ Failed(c) \/ OverTimed(c))

FairSpec == Spec /\ Fairness
-----------------------------------------------------------------------------
(* Properties. *)

\* Every variable has its type.
TypeOK ==
    /\ place \in [CoHs -> Places]
    /\ queue \in Seq(CoHs)
    /\ refs \in Seq(Element)
    /\ row \in [CoHs -> {"scheduled", "done", "failed", "over_timed", "stopped"}]
    /\ todo \in [CoHs -> 0..MaxAttempts]
    /\ due \subseteq CoHs

\* Container and references are well typed and agree with themselves and with
\* the rows: each waiting circuit is queued once, each CoH has one reference at most (update(),
\* finish() and is_last() give up on several), and only done ones are finished.
Books ==
    /\ TypeOK
    /\ ToSet(queue) = At(place, "waiting") /\ IsInjective(queue)
    /\ Cardinality(Tracked(refs)) = Len(refs)
    /\ \A c \in Tracked(refs) \ Unfinished(refs) : row[c] = "done"

Starts(c) == place[c] \in {"none", "waiting"} /\ place'[c] \in {"flight", "active"}

\* As long as the reference of its unfinished predecessor is there, and its own
\* was before the step or is after it, a circuit starts by none of the three ways:
\* start_all() with _class_all(), which may just have made either reference,
\* and launch_next_waiting() with its fallback.
Held ==
    [][\A c, d \in CoHs :
         /\ Precedes(d, c)
         /\ c \in Tracked(refs) \cup Tracked(refs')
         /\ d \in Unfinished(refs')
         => ~Starts(c)]_vars

\* A ban ends: whatever becomes of the predecessor (retried, failed, stopped,
\* over-timed), its reference is finished or dropped one day.
Unbanned ==
    \A c \in {d \in CoHs : OrderOf[d] > 1} : c \in Banned(refs) ~> c \notin Banned(refs)

\* What no bundle holds back is served.
FirstServed ==
    \A c \in {d \in CoHs : OrderOf[d] <= 1} :
        c \in due /\ row[c] = "scheduled"
          ~> place[c] \in {"flight", "active"} \/ row[c] # "scheduled"
=============================================================================
