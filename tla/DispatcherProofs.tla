-------------------------- MODULE DispatcherProofs --------------------------
(***************************************************************************)
(* What holds of Dispatcher for every set of CoHs, groups, targets and     *)
(* number of slots: its types, the two bounds on what runs at once, and    *)
(* that a circuit never waits while nothing is on its way or holds a slot. *)
(***************************************************************************)
EXTENDS Dispatcher, FiniteSetTheorems, WellFoundedInduction, TLAPS

-----------------------------------------------------------------------------
(* Naturals.                                                               *)

\* A nonempty set of naturals has a least element: the intervals 1..n, finite
\* and ordered by inclusion, are well founded.
LEMMA Least ==
    ASSUME NEW T \in SUBSET Nat, T # {}
    PROVE  \E x \in T : \A y \in T : x <= y
<1> DEFINE I == {1..x : x \in T}
<1>1. I \subseteq FiniteSubsetsOf(Nat) /\ I # {}
  <2>1. ASSUME NEW x \in T PROVE 1..x \in SUBSET Nat /\ IsFiniteSet(1..x)
    BY FS_Interval
  <2> QED BY <2>1 DEF FiniteSubsetsOf
<1>2. IsWellFoundedOn(StrictSubsetOrdering(Nat), FiniteSubsetsOf(Nat))
  BY FS_StrictSubsetOrderingWellFounded
<1>3. PICK X \in I : \A Y \in I : ~ (<<Y, X>> \in StrictSubsetOrdering(Nat))
  <2> HIDE DEF I
  <2> QED BY <1>1, <1>2, WFMin
<1>4. PICK x \in T : X = 1..x
  BY <1>3
<1>5. ASSUME NEW y \in T, y < x PROVE FALSE
  <2>1. x \in Nat /\ y \in Nat
    OBVIOUS
  <2>2. 1..y \subseteq 1..x /\ x \in 1..x /\ x \notin 1..y
    BY <1>5, <2>1
  <2>3. <<1..y, 1..x>> \in StrictSubsetOrdering(Nat)
    BY <2>1, <2>2 DEF StrictSubsetOrdering
  <2>4. 1..y \in I
    OBVIOUS
  <2> QED BY <1>3, <1>4, <2>3, <2>4
<1>6. \A y \in T : x <= y
  BY <1>5
<1> QED BY <1>6

-----------------------------------------------------------------------------
(* Counting circuits. *)

\* A set of CoHs is finite and has a size.
LEMMA Sized ==
    ASSUME NEW S \in SUBSET CoHs
    PROVE  IsFiniteSet(S) /\ Cardinality(S) \in Nat
BY DispatcherAssumption, FS_Subset, FS_CardinalityType

\* A set with one element more, or one less.
LEMMA OneMore ==
    ASSUME NEW S \in SUBSET CoHs, NEW c \in CoHs
    PROVE  /\ Cardinality(S \cup {c}) = IF c \in S THEN Cardinality(S)
                                        ELSE Cardinality(S) + 1
           /\ Cardinality(S \ {c}) = IF c \in S THEN Cardinality(S) - 1
                                     ELSE Cardinality(S)
BY Sized, FS_AddElement, FS_RemoveElement

\* A subset is not larger.
LEMMA Smaller ==
    ASSUME NEW S \in SUBSET CoHs, NEW T \in SUBSET S
    PROVE  Cardinality(T) <= Cardinality(S)
BY Sized, FS_Subset

LEMMA NoneIsZero ==
    ASSUME NEW S \in SUBSET CoHs
    PROVE  Cardinality(S) = 0 <=> S = {}
BY Sized, FS_EmptySet

\* Among the groups of a set, one has the fewest running circuits.
LEMMA LeastLoaded ==
    ASSUME NEW p, NEW G, G # {}
    PROVE  \E g \in G : \A h \in G : Count(Active(p), g) <= Count(Active(p), h)
<1> DEFINE N(g) == Count(Active(p), g)
           T == {N(g) : g \in G}
<1>1. \A g \in G : N(g) \in Nat
  <2> TAKE g \in G
  <2>1. {c \in Active(p) : GroupOf[c] = g} \in SUBSET CoHs
    BY DEF Active, At
  <2> QED BY <2>1, Sized DEF Count
<1>2. T \in SUBSET Nat /\ T # {}
  BY <1>1
<1>3. PICK x \in T : \A y \in T : x <= y
  <2> HIDE DEF T
  <2> QED BY <1>2, Least
<1>4. PICK g \in G : x = N(g)
  BY <1>3
<1>5. \A h \in G : N(g) <= N(h)
  BY <1>3, <1>4
<1> QED BY <1>5

-----------------------------------------------------------------------------
(* launch_next_waiting() *)

\* Working, of the placement p.
WorkingIn(p) == At(p, InFlight \cup {"active"})

\* It activates one waiting circuit when a slot is free, or does nothing.
LEMMA LaunchedIs ==
    ASSUME NEW p \in [CoHs -> Places], NEW q \in Launched(p)
    PROVE  /\ q \in [CoHs -> Places]
           /\ At(q, InFlight) = At(p, InFlight)
           /\ \/ q = p /\ Candidates(p) = {}
              \/ /\ HasFreeSlots(p)
                 /\ \E c \in Waiting(p) :
                      /\ q = [p EXCEPT ![c] = "active"]
                      /\ Active(q) = Active(p) \cup {c}
                      /\ WorkingIn(q) = WorkingIn(p) \cup {c}
<1>1. CASE Candidates(p) = {}
  BY <1>1 DEF Launched
<1>2. CASE Candidates(p) # {}
  <2>1. PICK c \in Candidates(p) : q = [p EXCEPT ![c] = "active"]
    BY <1>2 DEF Launched
  <2>2. HasFreeSlots(p) /\ c \in Waiting(p)
    BY <2>1 DEF Candidates, Unblocked, Valid
  <2>3. c \in CoHs /\ p[c] = "waiting"
    BY <2>2 DEF Waiting, At
  <2>4. q \in [CoHs -> Places]
    BY <2>1, <2>3 DEF Places
  <2>5. /\ At(q, InFlight) = At(p, InFlight)
        /\ Active(q) = Active(p) \cup {c}
        /\ WorkingIn(q) = WorkingIn(p) \cup {c}
    BY <2>1, <2>3, <2>4 DEF At, InFlight, Active, WorkingIn
  <2> QED BY <2>1, <2>2, <2>4, <2>5
<1> QED BY <1>1, <1>2

\* What runs grows by one at most, and only below the slots.
LEMMA LaunchedLoad ==
    ASSUME NEW p \in [CoHs -> Places], NEW q \in Launched(p)
    PROVE  /\ Cardinality(Active(p)) \in Nat /\ Cardinality(Active(q)) \in Nat
           /\ \/ Cardinality(Active(q)) = Cardinality(Active(p))
              \/ /\ Cardinality(Active(q)) = Cardinality(Active(p)) + 1
                 /\ Cardinality(Active(p)) < MaxSlots
<1>1. Active(p) \in SUBSET CoHs /\ Active(q) \in SUBSET CoHs
  BY DEF Active, At
<1>2. Cardinality(Active(p)) \in Nat /\ Cardinality(Active(q)) \in Nat
  BY <1>1, Sized
<1>3. CASE q = p
  BY <1>2, <1>3
<1>4. ASSUME HasFreeSlots(p), NEW c \in Waiting(p), Active(q) = Active(p) \cup {c}
      PROVE  /\ Cardinality(Active(q)) = Cardinality(Active(p)) + 1
             /\ Cardinality(Active(p)) < MaxSlots
  <2>1. c \in CoHs /\ c \notin Active(p)
    BY DEF Waiting, Active, At
  <2> QED BY <1>1, <1>4, <2>1, OneMore DEF HasFreeSlots
<1> QED BY <1>2, <1>3, <1>4, LaunchedIs

\* At most one circuit more works.
LEMMA LaunchedWorking ==
    ASSUME NEW p \in [CoHs -> Places], NEW q \in Launched(p)
    PROVE  /\ Cardinality(WorkingIn(p)) \in Nat /\ Cardinality(WorkingIn(q)) \in Nat
           /\ Cardinality(WorkingIn(q)) <= Cardinality(WorkingIn(p)) + 1
<1>1. WorkingIn(p) \in SUBSET CoHs /\ WorkingIn(q) \in SUBSET CoHs
  BY DEF WorkingIn, At
<1>2. Cardinality(WorkingIn(p)) \in Nat /\ Cardinality(WorkingIn(q)) \in Nat
  BY <1>1, Sized
<1>3. CASE q = p
  BY <1>2, <1>3
<1>4. ASSUME NEW c \in Waiting(p), WorkingIn(q) = WorkingIn(p) \cup {c}
      PROVE  Cardinality(WorkingIn(q)) <= Cardinality(WorkingIn(p)) + 1
  <2>1. c \in CoHs
    BY DEF Waiting, At
  <2>2. Cardinality(WorkingIn(p) \cup {c}) =
           IF c \in WorkingIn(p) THEN Cardinality(WorkingIn(p))
           ELSE Cardinality(WorkingIn(p)) + 1
    BY <1>1, <2>1, OneMore
  <2> QED BY <1>2, <1>4, <2>2
<1>5. q = p \/ \E c \in Waiting(p) : WorkingIn(q) = WorkingIn(p) \cup {c}
  BY LaunchedIs
<1> QED BY <1>2, <1>3, <1>4, <1>5

\* With a circuit waiting that no interval holds back, a free slot is taken.
LEMMA LaunchedSome ==
    ASSUME NEW p \in [CoHs -> Places], Waiting(p) \ Hours # {}, HasFreeSlots(p)
    PROVE  Candidates(p) # {}
<1>1. Waiting(p) \ Hours \subseteq Valid(p)
  BY DEF Valid, InHours, Waiting, At
<1> DEFINE G == {g \in Groups : Count(Valid(p), g) > 0}
<1>2. G # {}
  <2>1. PICK c \in Waiting(p) \ Hours : TRUE
    OBVIOUS
  <2>2. c \in CoHs /\ GroupOf[c] \in Groups
    BY DispatcherAssumption DEF Waiting, At
  <2> DEFINE S == {d \in Valid(p) : GroupOf[d] = GroupOf[c]}
  <2>3. S \in SUBSET CoHs /\ c \in S
    BY <1>1, <2>1, <2>2 DEF Valid, Waiting, At
  <2>4. Cardinality(S) \in Nat /\ Cardinality(S) # 0
    BY <2>3, Sized, NoneIsZero
  <2> QED BY <2>2, <2>4 DEF Count
<1>3. PICK g \in G : \A h \in G : Count(Active(p), g) <= Count(Active(p), h)
  <2> HIDE DEF G
  <2> QED BY <1>2, LeastLoaded
<1>4. g \in Slightest(p)
  BY <1>3 DEF Slightest
<1>5. (IF Unblocked(p, g) # {} THEN Unblocked(p, g) ELSE Valid(p)) # {}
  BY <1>1
<1> QED BY <1>4, <1>5 DEF Candidates

-----------------------------------------------------------------------------
(* The inductive invariant. *)

IInv == TypeOK /\ Slots /\ Doubled /\ QueueServed

LEMMA Sizes ==
    /\ Cardinality(Active(place)) \in Nat /\ Cardinality(At(place, InFlight)) \in Nat
    /\ Cardinality(Active(place)') \in Nat /\ Cardinality(At(place, InFlight)') \in Nat
    /\ Cardinality(Working) \in Nat /\ Cardinality(Working') \in Nat
<1>1. /\ Active(place) \in SUBSET CoHs /\ At(place, InFlight) \in SUBSET CoHs
      /\ Active(place)' \in SUBSET CoHs /\ At(place, InFlight)' \in SUBSET CoHs
      /\ Working \in SUBSET CoHs /\ Working' \in SUBSET CoHs
  BY DEF Active, At, Working
<1> QED BY <1>1, Sized

LEMMA InitInv == Init => IInv
<1> SUFFICES ASSUME Init PROVE IInv
  OBVIOUS
<1>1. TypeOK
  BY DispatcherAssumption DEF Init, TypeOK, Places
<1>2. /\ Active(place) = {} /\ At(place, InFlight) = {} /\ Waiting(place) = {}
      /\ Working = {}
  BY DEF Init, Active, Waiting, At, InFlight, Working
<1>3. Load = 0 /\ Cardinality(At(place, InFlight)) = 0 /\ Cardinality(Working) = 0
  BY <1>2, FS_EmptySet DEF Load
<1>4. Slots /\ Doubled
  BY <1>3, DispatcherAssumption DEF Slots, Doubled, Init
<1> QED BY <1>1, <1>2, <1>4 DEF IInv, QueueServed

\* A circuit leaves the container and the next one is launched. Only when c did
\* not hold a slot may more of them work.
LEMMA LeaveAndLaunch ==
    ASSUME IInv, NEW c \in CoHs, place[c] \in {"waiting", "active", "dead"},
           place' \in Launched([place EXCEPT ![c] = "none"])
    PROVE  /\ place' \in [CoHs -> Places]
           /\ At(place', InFlight) = At(place, InFlight)
           /\ Cardinality(Working') <=
                 Cardinality(Working) + (IF place[c] = "active" THEN 0 ELSE 1)
           /\ Load' <= 2 * MaxSlots
           /\ QueueServed'
<1> DEFINE p == [place EXCEPT ![c] = "none"]
<1>1. place \in [CoHs -> Places]
  BY DEF IInv, TypeOK
<1>2. /\ p \in [CoHs -> Places]
      /\ At(p, InFlight) = At(place, InFlight)
      /\ Active(p) = Active(place) \ {c}
      /\ WorkingIn(p) = Working \ {c}
  BY <1>1 DEF Places, At, InFlight, Active, Working, WorkingIn
<1>3. place' \in Launched(p)
  OBVIOUS
<1>4. /\ Active(place) \in SUBSET CoHs /\ Working \in SUBSET CoHs
      /\ place[c] = "active" => c \in Working
  BY DEF Active, At, Working
<1> HIDE DEF p
<1>5. /\ Cardinality(Active(p)) <= Cardinality(Active(place))
      /\ Cardinality(WorkingIn(p)) <=
            Cardinality(Working) - (IF place[c] = "active" THEN 1 ELSE 0)
  <2>1. /\ Cardinality(Active(place) \ {c}) = IF c \in Active(place)
              THEN Cardinality(Active(place)) - 1 ELSE Cardinality(Active(place))
        /\ Cardinality(Working \ {c}) = IF c \in Working
              THEN Cardinality(Working) - 1 ELSE Cardinality(Working)
    BY <1>4, OneMore
  <2> QED BY <1>2, <1>4, <2>1, Sizes
<1>6. /\ place' \in [CoHs -> Places]
      /\ At(place', InFlight) = At(place, InFlight)
  BY <1>2, <1>3, LaunchedIs
<1>7. /\ Cardinality(Active(p)) \in Nat
      /\ \/ Cardinality(Active(place')) = Cardinality(Active(p))
         \/ /\ Cardinality(Active(place')) = Cardinality(Active(p)) + 1
            /\ Cardinality(Active(p)) < MaxSlots
  BY <1>2, <1>3, LaunchedLoad
<1>8. Load' = Cardinality(Active(place')) + Cardinality(At(place, InFlight))
  BY <1>6 DEF Load
<1>9. Cardinality(Working') <=
         Cardinality(Working) + (IF place[c] = "active" THEN 0 ELSE 1)
  <2>1. Working' = WorkingIn(place')
    BY DEF Working, WorkingIn
  <2>2. /\ Cardinality(WorkingIn(p)) \in Nat /\ Cardinality(WorkingIn(place')) \in Nat
        /\ Cardinality(WorkingIn(place')) <= Cardinality(WorkingIn(p)) + 1
    BY <1>2, <1>3, LaunchedWorking
  <2> QED BY <1>5, <2>1, <2>2, Sizes
<1>10. Load' <= 2 * MaxSlots
  <2>1. Load <= 2 * MaxSlots /\ Cardinality(At(place, InFlight)) <= MaxSlots
    BY DEF IInv, Doubled
  <2> QED BY <1>5, <1>7, <1>8, <2>1, Sizes, DispatcherAssumption DEF Load
<1>11. QueueServed'
  <2> SUFFICES ASSUME Waiting(place') \ Hours # {}
               PROVE  Active(place') # {}
    BY DEF QueueServed
  <2>1. CASE place' = p /\ Candidates(p) = {}
    <3>1. ~HasFreeSlots(p)
      BY <1>2, <2>1, LaunchedSome
    <3>2. Cardinality(Active(p)) # 0
      BY <1>7, <3>1, DispatcherAssumption DEF HasFreeSlots
    <3> QED BY <2>1, <3>2, FS_EmptySet
  <2>2. CASE \E d \in Waiting(p) : Active(place') = Active(p) \cup {d}
    BY <2>2
  <2> QED BY <1>2, <1>3, <2>1, <2>2, LaunchedIs
<1> QED BY <1>6, <1>9, <1>10, <1>11

\* What the row becomes keeps its type.
LEMMA EndedType ==
    ASSUME TypeOK, NEW c \in CoHs, Ended(c)
    PROVE  todo' \in [CoHs -> 0..MaxAttempts] /\ due' \subseteq CoHs
BY DispatcherAssumption DEF TypeOK, Ended

LEMMA RemoveExpiredInv ==
    ASSUME IInv, NEW c \in CoHs, RemoveExpired(c)
    PROVE  IInv'
<1>1. place[c] = "active" /\ todo' = todo /\ due' = due /\ open' = open /\ ops' = ops
      /\ place' \in Launched([place EXCEPT ![c] = "none"])
  BY DEF RemoveExpired
<1>2. /\ place' \in [CoHs -> Places]
      /\ At(place', InFlight) = At(place, InFlight)
      /\ Cardinality(Working') <= Cardinality(Working)
      /\ Load' <= 2 * MaxSlots /\ QueueServed'
  BY <1>1, Sizes, LeaveAndLaunch
<1>3. TypeOK'
  BY <1>1, <1>2 DEF IInv, TypeOK
<1>4. Slots'
  <2>1. ops \in Nat
    BY DispatcherAssumption DEF IInv, TypeOK
  <2> QED BY <1>1, <1>2, <2>1, Sizes, DispatcherAssumption DEF IInv, Slots
<1>5. Doubled'
  BY <1>2 DEF IInv, Doubled
<1> QED BY <1>2, <1>3, <1>4, <1>5 DEF IInv

LEMMA ReleaseInv ==
    ASSUME IInv, NEW c \in CoHs, Release(c)
    PROVE  IInv'
<1>1. place[c] = "active" /\ Ended(c) /\ open' = open /\ ops' = ops
      /\ place' \in Launched([place EXCEPT ![c] = "none"])
  BY DEF Release
<1>2. /\ place' \in [CoHs -> Places]
      /\ At(place', InFlight) = At(place, InFlight)
      /\ Cardinality(Working') <= Cardinality(Working)
      /\ Load' <= 2 * MaxSlots /\ QueueServed'
  BY <1>1, Sizes, LeaveAndLaunch
<1>3. TypeOK'
  BY <1>1, <1>2, EndedType DEF IInv, TypeOK
<1>4. Slots'
  <2>1. ops \in Nat
    BY DispatcherAssumption DEF IInv, TypeOK
  <2> QED BY <1>1, <1>2, <2>1, Sizes, DispatcherAssumption DEF IInv, Slots
<1>5. Doubled'
  BY <1>2 DEF IInv, Doubled
<1> QED BY <1>2, <1>3, <1>4, <1>5 DEF IInv

LEMMA StopInv ==
    ASSUME IInv, NEW c \in CoHs, Stop(c)
    PROVE  IInv'
<1>1. todo' = [todo EXCEPT ![c] = 0] /\ ops < MaxOps /\ ops' = ops + 1
      /\ due' = due /\ open' = open
  BY DEF Stop
<1>2. /\ place' \in [CoHs -> Places]
      /\ At(place', InFlight) = At(place, InFlight)
      /\ Cardinality(Working') <= Cardinality(Working) + 1
      /\ Load' <= 2 * MaxSlots /\ QueueServed'
  <2>2. CASE place[c] \in {"waiting", "active", "dead"}
    <3>1. place' \in Launched([place EXCEPT ![c] = "none"])
      BY <2>2 DEF Stop
    <3> QED BY <2>2, <3>1, Sizes, LeaveAndLaunch
  <2>3. CASE place[c] \notin {"waiting", "active", "dead"}
    <3>1. place' = place
      BY <2>3 DEF Stop
    <3> QED BY <3>1, Sizes DEF IInv, TypeOK, Load, Working, Doubled, QueueServed
  <2> QED BY <2>2, <2>3
<1>3. TypeOK'
  <2>1. todo \in [CoHs -> 0..MaxAttempts] /\ ops \in 0..MaxOps
        /\ due \subseteq CoHs /\ open \in BOOLEAN
    BY DEF IInv, TypeOK
  <2>2. todo' \in [CoHs -> 0..MaxAttempts]
    BY <1>1, <2>1, DispatcherAssumption
  <2>3. ops' \in 0..MaxOps
    BY <1>1, <2>1, DispatcherAssumption
  <2> QED BY <1>1, <1>2, <2>1, <2>2, <2>3 DEF TypeOK
<1>4. Slots'
  <2>1. ops \in Nat
    BY DispatcherAssumption DEF IInv, TypeOK
  <2> QED BY <1>1, <1>2, <2>1, Sizes, DispatcherAssumption DEF IInv, Slots
<1>5. Doubled'
  BY <1>2 DEF IInv, Doubled
<1> QED BY <1>2, <1>3, <1>4, <1>5 DEF IInv

\* The mainloop adds no more than the slots that are free.
LEMMA AwakeInv ==
    ASSUME IInv, Awake
    PROVE  IInv'
<1>1. /\ At(place, InFlight) = {} /\ HasFreeSlots(place)
      /\ todo' = todo /\ due' = due /\ open' = open /\ ops' = ops
  BY DEF Awake
<1>2. place \in [CoHs -> Places]
  BY DEF IInv, TypeOK
<1> DEFINE new(S) == {c \in {d \in S : InHours(d)} : place[c] = "none"}
<1>3. PICK S \in SUBSET Selectable :
        /\ IsLimited(S, FreeSlots(place))
        /\ place' = [c \in CoHs |->
              IF c \notin {d \in S : InHours(d)} THEN place[c]
              ELSE IF c \in new(S) /\ Busy(place, c) THEN "waiting"
              ELSE "emit"]
  BY DEF Awake
<1> HIDE DEF new
<1>4. \A c \in S : c \in CoHs /\ c \notin Active(place) /\ c \notin Valid(place)
  BY DEF IInv, TypeOK, Selectable, Excluded
<1>5. \A c \in S : InHours(c) => place[c] = "none"
  <2> SUFFICES ASSUME NEW c \in S, InHours(c) PROVE place[c] = "none"
    OBVIOUS
  <2>1. place[c] \in Places /\ c \in CoHs
    BY <1>2, <1>4
  <2> QED BY <1>1, <1>4, <2>1 DEF Places, Active, Valid, Waiting, At, InFlight
<1>6. \A c \in CoHs :
        \/ place'[c] = place[c]
        \/ /\ c \in S /\ place[c] = "none"
           /\ place'[c] = "emit" \/ (place'[c] = "waiting" /\ Busy(place, c))
  BY <1>3, <1>5 DEF new
<1>7. place' \in [CoHs -> Places]
  BY <1>2, <1>3 DEF Places
<1>8. /\ Active(place') = Active(place)
      /\ At(place', InFlight) \in SUBSET S
  BY <1>1, <1>6 DEF Active, At, InFlight
<1>9. Cardinality(S) <= MaxSlots - Cardinality(Active(place))
  BY <1>3 DEF IsLimited, FreeSlots
<1>10. Cardinality(At(place', InFlight)) <= Cardinality(S) /\ Cardinality(S) \in Nat
  <2>1. S \in SUBSET CoHs
    BY <1>4
  <2> QED BY <1>8, <2>1, Smaller, Sized
<1>11. Load' <= MaxSlots /\ Cardinality(At(place', InFlight)) <= MaxSlots
  <2>1. Load' = Cardinality(Active(place)) + Cardinality(At(place', InFlight))
    BY <1>8 DEF Load
  <2> QED BY <1>9, <1>10, <2>1, Sizes, DispatcherAssumption
<1>12. Doubled'
  BY <1>11, Sizes, DispatcherAssumption DEF Load, Doubled
<1>13. Slots'
  <2>1. Working' \subseteq Active(place) \cup S
    BY <1>1, <1>6 DEF Working, Active, At, InFlight
  <2>2. S \in SUBSET CoHs /\ Active(place) \in SUBSET CoHs
    BY <1>4 DEF Active, At
  <2>3. Cardinality(Working') <= Cardinality(Active(place) \cup S)
    BY <2>1, <2>2, Smaller
  <2>4. Cardinality(Active(place) \cup S) <= Cardinality(Active(place)) + Cardinality(S)
    <3>1. IsFiniteSet(Active(place)) /\ IsFiniteSet(S) /\ IsFiniteSet(Active(place) \cap S)
      BY <2>2, Sized, FS_Intersection
    <3>2. Cardinality(Active(place) \cup S) =
             Cardinality(Active(place)) + Cardinality(S) - Cardinality(Active(place) \cap S)
      BY <3>1, FS_Union
    <3> QED BY <1>10, <3>1, <3>2, FS_CardinalityType, Sizes
  <2>5. ops \in Nat /\ Cardinality(Active(place) \cup S) \in Nat
    BY <2>2, Sized, DispatcherAssumption DEF IInv, TypeOK
  <2> QED BY <1>1, <1>9, <1>10, <2>3, <2>4, <2>5, Sizes, DispatcherAssumption DEF Slots
<1>14. QueueServed'
  <2> SUFFICES ASSUME NEW c \in CoHs \ Hours, place'[c] = "waiting"
               PROVE  Active(place) # {}
    BY <1>8 DEF QueueServed, Waiting, At
  <2>1. CASE place[c] = "waiting"
    BY <1>1, <2>1 DEF IInv, QueueServed, Waiting, At
  <2>2. CASE Busy(place, c)
    BY <2>2 DEF Busy
  <2> QED BY <1>6, <2>1, <2>2
<1>15. TypeOK'
  BY <1>1, <1>7 DEF IInv, TypeOK
<1> QED BY <1>12, <1>13, <1>14, <1>15 DEF IInv

\* A circuit in flight stays in flight.
LEMMA EmitInv ==
    ASSUME IInv, NEW c \in CoHs, Emit(c)
    PROVE  IInv'
<1>1. /\ place[c] = "emit" /\ place' = [place EXCEPT ![c] = "thread"]
      /\ todo' = todo /\ due' = due /\ open' = open /\ ops' = ops
      /\ place \in [CoHs -> Places]
  BY DEF Emit, IInv, TypeOK
<1>2. TypeOK'
  BY <1>1 DEF IInv, TypeOK, Places
<1>3. /\ Active(place') = Active(place)
      /\ At(place', InFlight) = At(place, InFlight)
      /\ Waiting(place') = Waiting(place)
      /\ Working' = Working
  BY <1>1 DEF Active, At, InFlight, Waiting, Working
<1>4. Load' = Load
  BY <1>3 DEF Load
<1> QED
  BY <1>1, <1>2, <1>3, <1>4
     DEF IInv, Slots, Doubled, QueueServed

\* A circuit joins the container: what runs is the same.
LEMMA Joins ==
    ASSUME NEW p \in [CoHs -> Places], NEW c \in CoHs, p[c] = "thread",
           NEW s \in {"active", "dead"}, NEW q, q = [p EXCEPT ![c] = s]
    PROVE  /\ q \in [CoHs -> Places]
           /\ Cardinality(Active(q)) = Cardinality(Active(p)) + 1
           /\ Cardinality(At(q, InFlight)) = Cardinality(At(p, InFlight)) - 1
<1>1. q \in [CoHs -> Places]
  BY DEF Places
<1>2. /\ Active(q) = Active(p) \cup {c} /\ c \notin Active(p)
      /\ At(q, InFlight) = At(p, InFlight) \ {c} /\ c \in At(p, InFlight)
  BY <1>1 DEF Active, At, InFlight
<1>3. Active(p) \in SUBSET CoHs /\ At(p, InFlight) \in SUBSET CoHs
  BY DEF Active, At
<1>4. Cardinality(Active(p) \cup {c}) = Cardinality(Active(p)) + 1
  BY <1>2, <1>3, OneMore
<1>5. Cardinality(At(p, InFlight) \ {c}) = Cardinality(At(p, InFlight)) - 1
  BY <1>2, <1>3, OneMore
<1> QED BY <1>1, <1>2, <1>4, <1>5

LEMMA ThreadEndsInv ==
    ASSUME IInv, NEW c \in CoHs, ThreadEnds(c)
    PROVE  IInv'
<1>1. /\ place[c] = "thread" /\ place' = [place EXCEPT ![c] = "active"]
      /\ todo' = todo /\ due' = due /\ open' = open /\ ops' = ops
      /\ place \in [CoHs -> Places]
  BY DEF ThreadEnds, IInv, TypeOK
<1>2. /\ place' \in [CoHs -> Places]
      /\ Cardinality(Active(place')) = Cardinality(Active(place)) + 1
      /\ Cardinality(At(place', InFlight)) = Cardinality(At(place, InFlight)) - 1
  BY <1>1, Joins
<1>3. Load' = Load
  BY <1>2, Sizes DEF Load
<1>4. Working' = Working
  BY <1>1 DEF Working, At, InFlight
<1>5. Slots' /\ Doubled'
  BY <1>1, <1>2, <1>3, <1>4, Sizes, DispatcherAssumption DEF IInv, Slots, Doubled
<1>6. TypeOK'
  BY <1>1, <1>2 DEF IInv, TypeOK
<1>7. QueueServed'
  BY <1>1, <1>2 DEF QueueServed, Active, At
<1> QED BY <1>5, <1>6, <1>7 DEF IInv

LEMMA ThreadEndsReleasedInv ==
    ASSUME IInv, NEW c \in CoHs, ThreadEndsReleased(c)
    PROVE  IInv'
<1>1. /\ place[c] = "thread" /\ c \in Short /\ Ended(c)
      /\ open' = open /\ ops' = ops /\ place \in [CoHs -> Places]
  BY DEF ThreadEndsReleased, IInv, TypeOK
<1>2. PICK q \in Launched(place) : place' = [q EXCEPT ![c] = "dead"]
  BY DEF ThreadEndsReleased
<1>4. /\ q \in [CoHs -> Places] /\ q[c] = "thread"
      /\ At(q, InFlight) = At(place, InFlight)
  <2>1. q \in [CoHs -> Places] /\ At(q, InFlight) = At(place, InFlight)
    BY <1>1, <1>2, LaunchedIs
  <2>2. CASE q = place
    BY <1>1, <2>1, <2>2
  <2>3. ASSUME NEW d \in Waiting(place), q = [place EXCEPT ![d] = "active"]
        PROVE  q[c] = "thread"
    BY <1>1, <2>3 DEF Waiting, At
  <2> QED BY <1>1, <1>2, <2>1, <2>2, <2>3, LaunchedIs
<1>5. /\ place' \in [CoHs -> Places]
      /\ Cardinality(Active(place')) = Cardinality(Active(q)) + 1
      /\ Cardinality(At(place', InFlight)) = Cardinality(At(place, InFlight)) - 1
  <2>1. /\ place' \in [CoHs -> Places]
        /\ Cardinality(Active(place')) = Cardinality(Active(q)) + 1
        /\ Cardinality(At(place', InFlight)) = Cardinality(At(q, InFlight)) - 1
    BY <1>2, <1>4, Joins
  <2> QED BY <1>4, <2>1
<1>6. \/ Cardinality(Active(q)) = Cardinality(Active(place))
      \/ /\ Cardinality(Active(q)) = Cardinality(Active(place)) + 1
         /\ Cardinality(Active(place)) < MaxSlots
  BY <1>1, <1>2, LaunchedLoad
<1>7. Doubled'
  <2>1. Load <= 2 * MaxSlots /\ Cardinality(At(place, InFlight)) <= MaxSlots
    BY DEF IInv, Doubled
  <2>2. Load' = Cardinality(Active(place')) + Cardinality(At(place', InFlight))
    BY DEF Load
  <2> QED
    BY <1>5, <1>6, <2>1, <2>2, Sizes, DispatcherAssumption DEF Load, Doubled
<1>8. TypeOK'
  BY <1>1, <1>5, EndedType DEF IInv, TypeOK
<1>9. Slots'
  <2>1. Working' = WorkingIn(q) \ {c} /\ c \in WorkingIn(q)
    BY <1>2, <1>4 DEF Working, WorkingIn, At, InFlight
  <2>2. /\ Cardinality(WorkingIn(q)) \in Nat
        /\ Cardinality(WorkingIn(q)) <= Cardinality(Working) + 1
    BY <1>1, <1>2, LaunchedWorking DEF Working, WorkingIn
  <2>3. WorkingIn(q) \in SUBSET CoHs
    BY DEF WorkingIn, At
  <2>4. Cardinality(Working') = Cardinality(WorkingIn(q)) - 1
    BY <2>1, <2>3, OneMore
  <2>5. ops \in Nat
    BY DispatcherAssumption DEF IInv, TypeOK
  <2> QED BY <1>1, <2>2, <2>4, <2>5, Sizes, DispatcherAssumption DEF IInv, Slots
<1>10. QueueServed'
  <2>1. c \in Active(place')
    BY <1>2, <1>4, <1>5 DEF Active, At
  <2> QED BY <2>1 DEF QueueServed
<1> QED BY <1>7, <1>8, <1>9, <1>10 DEF IInv

\* Steps that leave circuits and stops alone.
LEMMA IdleInv ==
    ASSUME IInv, place' = place, ops' = ops, TypeOK'
    PROVE  IInv'
<1>1. Load' = Load /\ Working' = Working
  BY DEF Load, Working
<1> QED BY <1>1 DEF IInv, Slots, Doubled, QueueServed

LEMMA StepInv == IInv /\ [Next]_vars => IInv'
<1> SUFFICES ASSUME IInv, [Next]_vars PROVE IInv'
  OBVIOUS
<1>1. CASE Awake
  BY <1>1, AwakeInv
<1>2. CASE OpenClose
  <2>1. TypeOK'
    BY <1>2 DEF OpenClose, IInv, TypeOK
  <2> QED BY <1>2, <2>1, IdleInv DEF OpenClose
<1>3. ASSUME NEW c \in CoHs, Emit(c) PROVE IInv'
  BY <1>3, EmitInv
<1>4. ASSUME NEW c \in CoHs, ThreadEnds(c) PROVE IInv'
  BY <1>4, ThreadEndsInv
<1>5. ASSUME NEW c \in CoHs, ThreadEndsReleased(c) PROVE IInv'
  BY <1>5, ThreadEndsReleasedInv
<1>6. ASSUME NEW c \in CoHs, Release(c) PROVE IInv'
  BY <1>6, ReleaseInv
<1>7. ASSUME NEW c \in CoHs, Stop(c) PROVE IInv'
  BY <1>7, StopInv
<1>8. ASSUME NEW c \in CoHs, Due(c) PROVE IInv'
  <2>1. TypeOK'
    BY <1>8 DEF Due, IInv, TypeOK
  <2> QED BY <1>8, <2>1, IdleInv DEF Due
<1>9. ASSUME NEW c \in CoHs, RemoveExpired(c) PROVE IInv'
  BY <1>9, RemoveExpiredInv
<1>10. CASE UNCHANGED vars
  <2>1. TypeOK'
    BY <1>10 DEF vars, IInv, TypeOK
  <2> QED BY <1>10, <2>1, IdleInv DEF vars
<1> QED BY <1>1, <1>2, <1>3, <1>4, <1>5, <1>6, <1>7, <1>8, <1>9, <1>10 DEF Next

\* IInv holds in every behaviour of the dispatcher.
THEOREM Invariance == Spec => []IInv
BY InitInv, StepInv, PTL DEF Spec

-----------------------------------------------------------------------------
(* Results. *)

\* The dispatcher's variables keep their types.
THEOREM Typing == Spec => []TypeOK
<1>1. IInv => TypeOK
  BY DEF IInv
<1> QED BY <1>1, Invariance, PTL

\* mainloop() and launch_next_waiting() together put no more circuits to work
\* than there are slots, but for one by stop of the agent.
THEOREM SlotsKept == Spec => []Slots
<1>1. IInv => Slots
  BY DEF IInv
<1> QED BY <1>1, Invariance, PTL

\* With the circuits that ended in their thread, at most twice the slots are held.
THEOREM NeverMoreThanTwice == Spec => []Doubled
<1>1. IInv => Doubled
  BY DEF IInv
<1> QED BY <1>1, Invariance, PTL

\* The queue is served: while a circuit waits that no interval holds back, some
\* circuit is on its way or holds a slot, whose release will launch it.
THEOREM QueueAlwaysServed == Spec => []QueueServed
<1>1. IInv => QueueServed
  BY DEF IInv
<1> QED BY <1>1, Invariance, PTL

\* Of a step of the dispatcher, what NotAgain says.
LEMMA StepStartsNew ==
    ASSUME TypeOK, Next, NEW c \in CoHs, place'[c] = "emit"
    PROVE  place[c] \in {"none", "emit"}
<1>1. place \in [CoHs -> Places]
  BY DEF TypeOK
<1>2. CASE Awake
  <2>1. PICK S \in SUBSET Selectable : c \in {d \in S : InHours(d)} \/ place'[c] = place[c]
    BY <1>2 DEF Awake
  <2>2. CASE c \in Selectable /\ InHours(c)
    <3>1. c \notin Active(place) /\ c \notin Valid(place) /\ c \notin At(place, InFlight)
      BY <1>2, <2>2 DEF Awake, Selectable, Excluded
    <3> QED BY <1>1, <2>2, <3>1 DEF Places, Active, Valid, Waiting, At, InFlight
  <2> QED BY <2>1, <2>2
<1>3. ASSUME NEW d \in CoHs, NEW p, p \in {place, [place EXCEPT ![d] = "none"]},
             NEW q \in Launched(p), q[c] = "emit"
      PROVE  place[c] = "emit"
  <2>1. p \in [CoHs -> Places] /\ (p[c] = "emit" => place[c] = "emit")
    BY <1>1, <1>3 DEF Places
  <2>2. At(q, InFlight) = At(p, InFlight) /\ q \in [CoHs -> Places]
    BY <2>1, LaunchedIs
  <2>3. q = p \/ \E e \in Waiting(p) : q = [p EXCEPT ![e] = "active"]
    BY <2>1, LaunchedIs
  <2> QED BY <1>3, <2>1, <2>3
<1>4. ASSUME NEW d \in CoHs, Emit(d) \/ ThreadEnds(d) PROVE place[c] = "emit"
  BY <1>1, <1>4 DEF Emit, ThreadEnds
<1>5. ASSUME NEW d \in CoHs, ThreadEndsReleased(d) PROVE place[c] = "emit"
  <2>1. PICK q \in Launched(place) : place' = [q EXCEPT ![d] = "dead"]
    BY <1>5 DEF ThreadEndsReleased
  <2>2. q \in [CoHs -> Places]
    BY <1>1, LaunchedIs
  <2>3. q[c] = "emit"
    BY <2>1, <2>2
  <2> QED BY <1>3, <2>3
<1>6. ASSUME NEW d \in CoHs, Release(d) \/ RemoveExpired(d) \/ Stop(d)
      PROVE  place[c] = "emit"
  <2>1. place' = place \/ place' \in Launched([place EXCEPT ![d] = "none"])
    BY <1>6 DEF Release, RemoveExpired, Stop
  <2> QED BY <1>3, <2>1
<1>7. CASE OpenClose \/ \E d \in CoHs : Due(d)
  BY <1>7 DEF OpenClose, Due
<1> QED BY <1>2, <1>4, <1>5, <1>6, <1>7 DEF Next

\* start_all() never emits again a circuit that runs or waits: what is selected
\* and the intervals of get_ids_to_start() agree, for every placement.
THEOREM NeverAgain == Spec => NotAgain
<1>1. IInv /\ [Next]_vars =>
        [\A c \in CoHs : place'[c] = "emit" => place[c] \in {"none", "emit"}]_vars
  BY StepStartsNew DEF IInv
<1> QED BY <1>1, Invariance, PTL DEF Spec, NotAgain
=============================================================================
