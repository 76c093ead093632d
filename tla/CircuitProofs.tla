--------------------------- MODULE CircuitProofs ---------------------------
(***************************************************************************)
(* What holds of Circuit for every value of its constants: its types, the  *)
(* agreement of the container with the circuits, and the bounds of the     *)
(* attempts.  One inductive invariant, IInv, carries the three.            *)
(* Six more carry what holds when less interferes: Solo, when starter      *)
(* threads keep up; Blamed and Led, when the agent leaves the CoH alone,   *)
(* whatever fails; Quiet, and OnceLate on top of it, when the agent acts   *)
(* once, nothing fails and the phases are fetched in phase_order; CalmInv, *)
(* when the agent does not act either, and then Circuit implements         *)
(* Deployment.                                                             *)
(***************************************************************************)
EXTENDS CircuitStop, FiniteSetTheorems, TLAPS

-----------------------------------------------------------------------------
(* Sequences without repetition. *)

Once(q) == \A m, n \in DOMAIN q : q[m] = q[n] => m = n

LEMMA AppendMembers ==
    ASSUME NEW S, NEW q \in Seq(S), NEW c \in S, c \notin Members(q), Once(q)
    PROVE  /\ Append(q, c) \in Seq(S)
           /\ Members(Append(q, c)) = Members(q) \cup {c}
           /\ Once(Append(q, c))
<1> DEFINE r == Append(q, c)
<1>1. r \in Seq(S) /\ Len(r) = Len(q) + 1 /\ r[Len(q) + 1] = c
      /\ \A n \in 1..Len(q) : r[n] = q[n]
  OBVIOUS
<1>2. DOMAIN r = 1..(Len(q) + 1) /\ DOMAIN q = 1..Len(q)
  BY <1>1
<1> HIDE DEF r
<1>3. Members(r) = Members(q) \cup {c}
  BY <1>1, <1>2 DEF Members
<1>4. Once(r)
  BY <1>1, <1>2 DEF Once, Members
<1> QED BY <1>1, <1>3, <1>4 DEF r

LEMMA TailMembers ==
    ASSUME NEW S, NEW q \in Seq(S), q # <<>>, Once(q)
    PROVE  /\ Tail(q) \in Seq(S)
           /\ Members(Tail(q)) = Members(q) \ {Head(q)}
           /\ Once(Tail(q))
<1> DEFINE r == Tail(q)
<1>1. r \in Seq(S) /\ Len(r) = Len(q) - 1 /\ \A n \in 1..Len(r) : r[n] = q[n + 1]
  OBVIOUS
<1>2. DOMAIN r = 1..(Len(q) - 1) /\ DOMAIN q = 1..Len(q) /\ Len(q) > 0
      /\ Head(q) = q[1]
  BY <1>1
<1> HIDE DEF r
<1>3. Members(r) = Members(q) \ {q[1]}
  <2>1. ASSUME NEW x \in Members(r) PROVE x \in Members(q) \ {q[1]}
    BY <1>1, <1>2 DEF Members, Once
  <2>2. ASSUME NEW x \in Members(q), x # q[1] PROVE x \in Members(r)
    <3>1. PICK n \in 1..Len(q) : x = q[n] /\ n # 1
      BY <1>2, <2>2 DEF Members
    <3>2. n - 1 \in 1..Len(r) /\ r[n - 1] = x
      BY <1>1, <1>2, <3>1
    <3> QED BY <1>1, <1>2, <3>2 DEF Members
  <2> QED BY <2>1, <2>2
<1>4. ASSUME NEW m \in DOMAIN r, NEW n \in DOMAIN r, r[m] = r[n] PROVE m = n
  <2>1. m \in Int /\ n \in Int /\ m + 1 \in DOMAIN q /\ n + 1 \in DOMAIN q
    BY <1>1, <1>2
  <2>2. r[m] = q[m + 1] /\ r[n] = q[n + 1]
    BY <1>1, <1>2
  <2>3. m + 1 = n + 1
    BY <2>1, <2>2, <1>4 DEF Once
  <2> QED BY <2>1, <2>3
<1>5. Once(r)
  BY <1>4 DEF Once
<1> QED BY <1>1, <1>2, <1>3, <1>5 DEF r

-----------------------------------------------------------------------------
(* Rows. *)

LEMMA Constants ==
    /\ MaxAttempts \in Nat \ {0}
    /\ Workflow \in Seq(Remote \cup Local) /\ Len(Workflow) \in Nat \ {0}
    /\ Steps = 1..Len(Workflow)
BY CircuitAssumption DEF CircuitAssumption, Steps

\* Flush() writes attribute by attribute.
LEMMA FlushRow ==
    ASSUME coh \in Row, NEW old \in Row, NEW new \in Row
    PROVE  /\ Flush(old, new) \in Row
           /\ Flush(old, new).window \in {coh.window, new.window}
           /\ Flush(old, new).attempts_failed \in {coh.attempts_failed, new.attempts_failed}
           /\ old.window = new.window => Flush(old, new).window = coh.window
BY DEF Flush, Row

\* An attempt charged keeps the window of the copy and stays within its bound.
LEMMA ChargedRow ==
    ASSUME NEW row \in Row, row.attempts_failed <= MaxAttempts
    PROVE  /\ Charged(row) \in Row
           /\ Charged(row).window = row.window
           /\ Charged(row).attempts_failed <= MaxAttempts
<1> DEFINE n == IF Exhausted(row) THEN row.attempts_failed ELSE row.attempts_failed + 1
<1>1. MaxAttempts \in Nat /\ row.attempts_failed \in Nat /\ row.window \in Nat
      /\ row.state \in CoHStates
  BY Constants DEF Row
<1>2. n \in Nat /\ n <= MaxAttempts
  BY <1>1 DEF Exhausted
<1>3. Charged(row) = [row EXCEPT !.attempts_failed = n,
                                !.state = IF n >= MaxAttempts THEN "failed" ELSE @]
  BY DEF Charged
<1> HIDE DEF n
<1>4. Charged(row) \in Row
  BY <1>1, <1>2, <1>3 DEF Row, CoHStates
<1>5. Charged(row).window = row.window /\ Charged(row).attempts_failed = n
  BY <1>3 DEF Row
<1> QED BY <1>2, <1>4, <1>5

\* A phase row keeps its type.
LEMMA FlushPhaseType ==
    ASSUME phase \in [Steps -> PhaseStates], NEW i, NEW old, NEW new \in PhaseStates
    PROVE  /\ FlushPhase(i, old, new) \in [Steps -> PhaseStates]
           /\ [phase EXCEPT ![i] = new] \in [Steps -> PhaseStates]
BY DEF FlushPhase

-----------------------------------------------------------------------------
(* The invariant. *)

\* What an object looks like, whatever the others do.
Form(o) ==
    /\ o \in Object
    /\ o.pc \notin {"unused", "queued", "waiting", "released"} => o.step \in Steps
    /\ o.recurrent => o.pc \in {"walk", "parse"}
    /\ o.result # "none" => o.recurrent
    /\ o.thread => o.pc = "walk"
    /\ o.seen.attempts_failed <= MaxAttempts

\* How the object o of circuit c and the container q agree.
Place(c, o, q) ==
    /\ o.pc \in {"waiting", "out", "released"} => c \in Members(q)
    /\ c \in Members(q) => /\ o.pc \notin {"unused", "queued", "parse"}
                           /\ ~o.thread /\ ~o.recurrent

ObjInv ==
    /\ obj \in [Circuits -> Object]
    /\ container \in Seq(Circuits)
    /\ Once(container)
    /\ \A c \in Circuits : Form(obj[c]) /\ Place(c, obj[c], container)

RowInv ==
    /\ coh \in Row
    /\ coh.attempts_failed <= MaxAttempts
    /\ \A c \in Circuits : obj[c].seen.window <= coh.window

RestInv ==
    /\ phase \in [Steps -> PhaseStates]
    /\ lapsed \in Nat
    /\ tracked \in BOOLEAN
    /\ order \in [status : {"none", "running", "zombie"}, step : Steps]
    /\ results \in SUBSET Steps
    /\ calls \in SUBSET {"stop", "start"}
    /\ ops \in Nat
    /\ faults \in Nat

IInv == ObjInv /\ RowInv /\ RestInv

\* The container and the circuits agree: a circuit that waits, that gave up or
\* that ended without being forgotten is in _circuits; what is in _circuits was
\* started, is out of the starter's thread, and is there once.
Agreement ==
    /\ \A c \in Circuits : obj[c].pc \in {"waiting", "out", "released"}
                              => c \in Members(container)
    /\ \A c \in Members(container) :
          /\ obj[c].pc \notin {"unused", "queued", "parse"}
          /\ ~obj[c].thread /\ ~obj[c].recurrent
    /\ \A m, n \in DOMAIN container : container[m] = container[n] => m = n

LEMMA IInvImplies == IInv => TypeOK /\ Agreement /\ Charges
<1> SUFFICES ASSUME IInv PROVE TypeOK /\ Agreement /\ Charges
  OBVIOUS
<1>1. TypeOK
  BY DEF IInv, ObjInv, RowInv, RestInv, Form, TypeOK
<1>2. Agreement
  <2>1. \A c \in Members(container) : c \in Circuits
    BY DEF IInv, ObjInv, Members
  <2> QED BY <2>1 DEF IInv, ObjInv, Place, Once, Agreement
<1>3. Charges
  BY DEF IInv, ObjInv, RowInv, Form, Charges
<1> QED BY <1>1, <1>2, <1>3

\* What a step may hand to Walk, Settle or Release as the new record of c.
Able(c, self) ==
    /\ self \in Object
    /\ self.recurrent => self.step \in Steps
    /\ self.thread \/ self.recurrent => c \notin Members(container)
    /\ self.result # "none" => self.recurrent
    /\ self.seen.attempts_failed <= MaxAttempts

LEMMA UnusedForm == Form(Unused) /\ ~Unused.thread /\ ~Unused.recurrent
                    /\ Unused.pc = "unused" /\ Unused.seen = FirstRow
BY Constants DEF Form, Object, Unused, FirstRow, Row, CoHStates, PhaseStates, PC

LEMMA DroppedForm ==
    ASSUME NEW o, Form(o)
    PROVE  /\ Form(Dropped(o))
           /\ Dropped(o).pc \notin {"waiting", "out", "released"}
           /\ Dropped(o).seen \in {o.seen, FirstRow}
BY UnusedForm DEF Dropped

\* The step leaves every copy of the row as it was, but that of c.
Copies(self) == \A d \in Circuits : obj'[d].seen \in {obj[d].seen, self.seen, FirstRow}

LEMMA WalkInv ==
    ASSUME ObjInv, NEW c \in Circuits, NEW self, Able(c, self), self.step \in Steps,
           Walk(c, self)
    PROVE  ObjInv' /\ Copies(self) /\ tracked' \in BOOLEAN
<1> DEFINE o == [self EXCEPT !.pc = "walk"]
<1>1. /\ obj' = [obj EXCEPT ![c] = o] /\ container' = container
      /\ tracked' \in BOOLEAN
  BY DEF Walk
<1>2. Form(o) /\ o.seen = self.seen /\ o.thread = self.thread
      /\ o.recurrent = self.recurrent /\ o.pc = "walk"
  BY DEF Able, Form, Object, PC
<1>3. Place(c, o, container)
  BY <1>2 DEF Able, Place
<1> HIDE DEF o
<1>4. \A d \in Circuits : obj'[d] = IF d = c THEN o ELSE obj[d]
  BY <1>1 DEF ObjInv
<1>5. obj' \in [Circuits -> Object]
  BY <1>1, <1>2 DEF ObjInv, Form
<1>6. ObjInv'
  BY <1>1, <1>2, <1>3, <1>4, <1>5 DEF ObjInv
<1> QED BY <1>1, <1>2, <1>4, <1>6 DEF Copies

LEMMA SettleInv ==
    ASSUME ObjInv, NEW c \in Circuits, NEW self, Able(c, self), self.step \in Steps,
           NEW pc \in {"asked", "wol", "out"},
           self.recurrent => pc = "out" /\ ~self.thread,
           Settle(c, self, pc)
    PROVE  ObjInv' /\ Copies(self) /\ tracked' \in BOOLEAN
<1> DEFINE q == IF self.thread THEN Append(container, c) ELSE container
           s == [self EXCEPT !.pc = pc, !.thread = FALSE]
           o == IF pc = "out" /\ c \notin Members(q) THEN Unused ELSE s
<1>1. container' = q /\ obj' = [obj EXCEPT ![c] = o] /\ tracked' = TRUE
  BY DEF Settle
<1>2. /\ q \in Seq(Circuits) /\ Once(q)
      /\ Members(q) = IF self.thread THEN Members(container) \cup {c}
                      ELSE Members(container)
  <2>1. container \in Seq(Circuits) /\ Once(container)
    BY DEF ObjInv
  <2>2. CASE self.thread
    <3>1. c \notin Members(container) /\ q = Append(container, c)
      BY <2>2 DEF Able
    <3> QED BY <2>1, <2>2, <3>1, AppendMembers
  <2>3. CASE ~self.thread
    BY <2>1, <2>3
  <2> QED BY <2>2, <2>3
<1>3. /\ s \in Object /\ s.pc = pc /\ s.seen = self.seen /\ s.step = self.step
      /\ s.thread = FALSE /\ s.recurrent = self.recurrent /\ s.result = self.result
  BY DEF Able, Object, PC
<1>4. self.recurrent => c \notin Members(q)
  BY <1>2 DEF Able
<1>5. Form(o) /\ o.seen \in {self.seen, FirstRow} /\ Place(c, o, q)
  <2>1. CASE pc = "out" /\ c \notin Members(q)
    BY <2>1, UnusedForm DEF Place
  <2>2. CASE ~(pc = "out" /\ c \notin Members(q))
    <3>1. o = s /\ ~self.recurrent
      BY <2>2, <1>4
    <3>2. Form(s)
      BY <1>3, <3>1 DEF Able, Form
    <3>3. Place(c, s, q)
      BY <1>3, <3>1, <2>2 DEF Place
    <3> QED BY <1>3, <3>1, <3>2, <3>3
  <2> QED BY <2>1, <2>2
<1> HIDE DEF q, s, o
<1>6. \A d \in Circuits : obj'[d] = IF d = c THEN o ELSE obj[d]
  BY <1>1 DEF ObjInv
<1>7. obj' \in [Circuits -> Object]
  BY <1>1, <1>5 DEF ObjInv, Form
<1>8. \A d \in Circuits \ {c} : Place(d, obj[d], q)
  BY <1>2 DEF ObjInv, Place
<1>9. ObjInv'
  BY <1>1, <1>2, <1>5, <1>6, <1>7, <1>8 DEF ObjInv
<1> QED BY <1>1, <1>5, <1>6, <1>9 DEF Copies

\* The container once its head has left and, from the thread, c has joined it.
LEMMA ReleaseContainer ==
    ASSUME ObjInv, NEW c \in Circuits, NEW self, Able(c, self), Release(c, self)
    PROVE  /\ container' \in Seq(Circuits) /\ Once(container')
           /\ Members(container') \subseteq Members(container) \cup {c}
           /\ self.recurrent => c \notin Members(container')
<1> DEFINE popped == IF self.recurrent \/ container = <<>> THEN container
                     ELSE Tail(container)
           joined == IF self.thread /\ ~self.recurrent THEN Append(popped, c) ELSE popped
<1>1. container' = joined
  BY DEF Release
<1>2. /\ popped \in Seq(Circuits) /\ Once(popped)
      /\ Members(popped) \subseteq Members(container)
  BY TailMembers DEF ObjInv
<1> HIDE DEF popped
<1>3. CASE self.thread /\ ~self.recurrent
  <2>1. c \notin Members(popped)
    BY <1>2, <1>3 DEF Able
  <2> QED BY <1>1, <1>2, <1>3, <2>1, AppendMembers
<1>4. CASE ~(self.thread /\ ~self.recurrent)
  BY <1>1, <1>2, <1>4 DEF Able
<1> QED BY <1>3, <1>4

LEMMA ReleaseInv ==
    ASSUME ObjInv, NEW c \in Circuits, NEW self, Able(c, self), Release(c, self)
    PROVE  ObjInv' /\ Copies(self) /\ tracked' \in BOOLEAN
<1> DEFINE q == container'
           p == [self EXCEPT !.pc = "parse", !.thread = FALSE]
           r == [self EXCEPT !.pc = "released", !.thread = FALSE]
           mine == IF self.recurrent /\ self.result # "none" THEN p
                   ELSE IF c \in Members(q) THEN r ELSE Unused
<1>1. /\ tracked' = FALSE
      /\ obj' = [d \in Circuits |->
                   IF d = c THEN mine
                   ELSE IF d \in Members(container) \ Members(q)
                   THEN Dropped(obj[d]) ELSE obj[d]]
  BY DEF Release
<1>2. /\ q \in Seq(Circuits) /\ Once(q)
      /\ Members(q) \subseteq Members(container) \cup {c}
      /\ self.recurrent => c \notin Members(q)
  BY ReleaseContainer
<1>3. /\ p \in Object /\ p.pc = "parse" /\ p.seen = self.seen /\ p.step = self.step
      /\ p.thread = FALSE /\ p.recurrent = self.recurrent /\ p.result = self.result
      /\ r \in Object /\ r.pc = "released" /\ r.seen = self.seen
      /\ r.thread = FALSE /\ r.recurrent = self.recurrent /\ r.result = self.result
  BY DEF Able, Object, PC
<1> HIDE DEF q, p, r
<1>4. Form(mine) /\ mine.seen \in {self.seen, FirstRow} /\ Place(c, mine, q)
  <2>1. CASE self.recurrent /\ self.result # "none"
    <3>1. mine = p
      BY <2>1
    <3> QED BY <1>2, <1>3, <2>1, <3>1 DEF Able, Form, Place
  <2>2. CASE ~(self.recurrent /\ self.result # "none") /\ c \in Members(q)
    <3>1. mine = r /\ ~self.recurrent
      BY <1>2, <2>2
    <3> QED BY <1>2, <1>3, <2>2, <3>1 DEF Able, Form, Place
  <2>3. CASE ~(self.recurrent /\ self.result # "none") /\ c \notin Members(q)
    <3>1. mine = Unused
      BY <2>3
    <3> QED BY <2>3, <3>1, UnusedForm DEF Place
  <2> QED BY <2>1, <2>2, <2>3
<1> HIDE DEF mine
<1>5. ASSUME NEW d \in Circuits \ {c}
      PROVE  Form(obj'[d]) /\ obj'[d].seen \in {obj[d].seen, FirstRow}
             /\ Place(d, obj'[d], q)
  <2>1. CASE d \in Members(container) \ Members(q)
    <3>1. obj'[d] = Dropped(obj[d])
      BY <1>1, <2>1
    <3> QED BY <2>1, <3>1, DroppedForm DEF ObjInv, Place
  <2>2. CASE d \notin Members(container) \ Members(q)
    <3>1. obj'[d] = obj[d] /\ (d \in Members(q) <=> d \in Members(container))
      BY <1>1, <1>2, <2>2
    <3> QED BY <3>1 DEF ObjInv, Place
  <2> QED BY <2>1, <2>2
<1>6. obj'[c] = mine
  BY <1>1
<1>7. obj' \in [Circuits -> Object]
  <2>1. \A d \in Circuits : obj'[d] \in Object
    BY <1>4, <1>5, <1>6 DEF Form
  <2> QED BY <1>1, <2>1
<1>8. ObjInv'
  BY <1>2, <1>4, <1>5, <1>6, <1>7 DEF ObjInv, q
<1> QED BY <1>1, <1>4, <1>5, <1>6, <1>8 DEF Copies

-----------------------------------------------------------------------------
(* What the parts of an action keep.                                        *)

\* The row is written within its bounds.
Written ==
    /\ coh' \in Row /\ coh'.attempts_failed <= MaxAttempts
    /\ coh'.window = coh.window

LEMMA StateWritten ==
    ASSUME RowInv, NEW s \in CoHStates,
           coh' = coh \/ coh' = [coh EXCEPT !.state = s]
    PROVE  Written
BY DEF RowInv, Row, Written

LEMMA FlushWritten ==
    ASSUME RowInv, NEW old \in Row, NEW new \in Row, new.window = old.window,
           new.attempts_failed <= MaxAttempts, coh' = Flush(old, new)
    PROVE  Written
BY FlushRow DEF RowInv, Written

\* Copies are as old as the row at most.
LEMMA CopiesInv ==
    ASSUME RowInv, ObjInv', Written, NEW self, Copies(self),
           self.seen.window <= coh.window
    PROVE  RowInv'
<1>1. \A d \in Circuits : obj'[d].seen.window <= coh.window
  <2>1. FirstRow.window = 0 /\ coh.window \in Nat
    BY DEF FirstRow, RowInv, Row
  <2> QED BY <2>1 DEF Copies, RowInv
<1> QED BY <1>1 DEF RowInv, Written

\* The circuits and the row after a step of c.
After == ObjInv' /\ RowInv' /\ tracked' \in BOOLEAN

LEMMA WalkAfter ==
    ASSUME ObjInv, RowInv, NEW c \in Circuits, NEW self, Able(c, self),
           self.step \in Steps, self.seen.window <= coh.window, Written, Walk(c, self)
    PROVE  After
BY WalkInv, CopiesInv DEF After

LEMMA SettleAfter ==
    ASSUME ObjInv, RowInv, NEW c \in Circuits, NEW self, Able(c, self),
           self.step \in Steps, self.seen.window <= coh.window, Written,
           NEW pc \in {"asked", "wol", "out"},
           self.recurrent => pc = "out" /\ ~self.thread, Settle(c, self, pc)
    PROVE  After
BY SettleInv, CopiesInv DEF After

LEMMA ReleaseAfter ==
    ASSUME ObjInv, RowInv, NEW c \in Circuits, NEW self, Able(c, self),
           self.seen.window <= coh.window, Written, Release(c, self)
    PROVE  After
BY ReleaseInv, CopiesInv DEF After

\* What is known of a circuit under way.
LEMMA UnderWay ==
    ASSUME ObjInv, RowInv, NEW c \in Circuits
    PROVE  /\ obj[c] \in Object /\ obj[c].seen \in Row
           /\ obj[c].seen.attempts_failed <= MaxAttempts
           /\ obj[c].seen.window <= coh.window
           /\ obj[c].pc \in {"walk", "asked", "wol", "out", "released", "parse"}
                 => Able(c, obj[c])
           /\ obj[c].pc \in {"walk", "asked", "wol", "out", "parse"}
                 => obj[c].step \in Steps
           /\ obj[c].pc # "walk" => ~obj[c].thread
           /\ obj[c].pc \notin {"walk", "parse"} => ~obj[c].recurrent
<1>1. Form(obj[c]) /\ Place(c, obj[c], container) /\ obj[c] \in Object
  BY DEF ObjInv, Form
<1>2. obj[c].seen \in Row
  BY <1>1 DEF Object
<1> QED BY <1>1, <1>2 DEF Form, Place, Able, RowInv

LEMMA GiveUpAfter ==
    ASSUME ObjInv, RowInv, NEW c \in Circuits, NEW self, Able(c, self),
           self.step \in Steps, self.seen.window <= coh.window,
           self.recurrent => ~self.thread, GiveUp(c, self)
    PROVE  After
<1>1. Written
  BY StateWritten DEF GiveUp, CoHStates
<1> QED BY <1>1, ReleaseAfter, SettleAfter DEF GiveUp

LEMMA FailPhaseAfter ==
    ASSUME ObjInv, RowInv, phase \in [Steps -> PhaseStates],
           NEW c \in Circuits, Able(c, obj[c]),
           NEW row \in Row, row.attempts_failed <= MaxAttempts,
           row.window = obj[c].seen.window, FailPhase(c, row)
    PROVE  After /\ phase' \in [Steps -> PhaseStates]
<1> DEFINE k == IF obj[c].kept = "running" THEN "failed" ELSE obj[c].kept
<1>1. k \in PhaseStates
  BY UnderWay DEF Object, PhaseStates
<1>2. Charged(row) \in Row /\ Charged(row).window = obj[c].seen.window
      /\ Charged(row).attempts_failed <= MaxAttempts
  BY ChargedRow
<1>3. /\ coh' = Flush(obj[c].seen, Charged(row))
      /\ phase' = FlushPhase(obj[c].step, obj[c].kept, k)
      /\ Release(c, [obj[c] EXCEPT !.seen = Charged(row), !.kept = k, !.result = "none"])
  BY DEF FailPhase
<1> HIDE DEF k
<1>4. Written
  BY <1>2, <1>3, UnderWay, FlushWritten
<1> DEFINE o == [obj[c] EXCEPT !.seen = Charged(row), !.kept = k, !.result = "none"]
<1>5. Able(c, o) /\ o.seen = Charged(row)
  BY <1>1, <1>2 DEF Able, Object
<1>6. o.seen.window <= coh.window
  BY <1>2, <1>5, UnderWay
<1>7. Release(c, o)
  BY <1>3
<1> HIDE DEF o
<1>8. After
  BY <1>4, <1>5, <1>6, <1>7, ReleaseAfter
<1> QED BY <1>1, <1>3, <1>8, FlushPhaseType

\* The next phase is built on the row as it is before the step.
LEMMA NextPhaseAfter ==
    ASSUME ObjInv, RowInv, phase \in [Steps -> PhaseStates],
           NEW c \in Circuits, Able(c, obj[c]), Written, NextPhase(c)
    PROVE  After
<1>1. CASE obj[c].todo = {}
  BY <1>1, UnderWay, ReleaseAfter DEF NextPhase
<1>2. CASE obj[c].todo # {}
  <2>1. PICK i \in obj[c].todo :
          Walk(c, [obj[c] EXCEPT !.step = i, !.todo = @ \ {i},
                                 !.seen = coh, !.kept = phase[i]])
    BY <1>2 DEF NextPhase
  <2> DEFINE o == [obj[c] EXCEPT !.step = i, !.todo = @ \ {i},
                                 !.seen = coh, !.kept = phase[i]]
  <2>2. obj[c] \in Object /\ i \in Steps /\ phase[i] \in PhaseStates
    BY UnderWay DEF Object
  <2>3. Able(c, o) /\ o.step = i /\ o.seen = coh
    BY <2>2 DEF Able, Object, RowInv
  <2>4. o.seen.window <= coh.window
    BY <2>3 DEF RowInv, Row
  <2> HIDE DEF o
  <2>5. Walk(c, o)
    BY <2>1 DEF o
  <2> QED BY <2>2, <2>3, <2>4, <2>5, WalkAfter
<1> QED BY <1>1, <1>2

LEMMA AfterIInv ==
    ASSUME RestInv, After, phase' \in [Steps -> PhaseStates],
           UNCHANGED <<lapsed, order, results, calls, ops, faults>>
    PROVE  IInv'
BY DEF IInv, RestInv, After

-----------------------------------------------------------------------------
(* The dispatcher. *)

LEMMA SelectInv == ASSUME IInv, NEW c \in Circuits, Select(c) PROVE IInv'
<1>1. PICK pc \in {"queued", "waiting"} :
        /\ obj' = [obj EXCEPT ![c] = [Unused EXCEPT !.pc = pc, !.todo = Undone, !.seen = coh]]
        /\ container' = IF pc = "waiting" THEN <<c>> ELSE container
        /\ tracked' = IF pc = "queued" THEN TRUE ELSE tracked
  BY DEF Select
<1>2. container = <<>> /\ UNCHANGED <<coh, phase, lapsed, order, results, calls, ops, faults>>
  BY DEF Select
<1> DEFINE o == [Unused EXCEPT !.pc = pc, !.todo = Undone, !.seen = coh]
<1>3. coh \in Row /\ coh.attempts_failed <= MaxAttempts /\ coh.window \in Nat
      /\ Undone \in SUBSET Steps
  BY DEF IInv, RowInv, Row, Undone
<1>4. Form(o) /\ o.pc = pc /\ o.seen = coh /\ ~o.thread /\ ~o.recurrent
  BY <1>3, Constants DEF Form, Object, Unused, PhaseStates, PC
<1>5. /\ container' \in Seq(Circuits) /\ Once(container')
      /\ \A d \in Circuits : d \in Members(container') <=> pc = "waiting" /\ d = c
  BY <1>1, <1>2 DEF Once, Members
<1>6. \A d \in Circuits : obj[d].pc \notin {"waiting", "out", "released"}
  BY <1>2 DEF IInv, ObjInv, Place, Members
<1> HIDE DEF o
<1>7. \A d \in Circuits : obj'[d] = IF d = c THEN o ELSE obj[d]
  BY <1>1 DEF IInv, ObjInv, o
<1>8. obj' \in [Circuits -> Object]
  BY <1>1, <1>4 DEF IInv, ObjInv, Form, o
<1>9. \A d \in Circuits : Form(obj'[d]) /\ Place(d, obj'[d], container')
  BY <1>4, <1>5, <1>6, <1>7 DEF IInv, ObjInv, Place
<1>10. ObjInv' /\ RowInv'
  BY <1>2, <1>3, <1>4, <1>5, <1>7, <1>8, <1>9 DEF IInv, ObjInv, RowInv
<1>11. tracked' \in BOOLEAN
  BY <1>1 DEF IInv, RestInv
<1> QED BY <1>2, <1>10, <1>11, AfterIInv DEF IInv, RestInv, After

LEMMA RunInv == ASSUME IInv, NEW c \in Circuits, Run(c) PROVE IInv'
<1> DEFINE self == [obj[c] EXCEPT !.thread = obj[c].pc = "queued"]
<1> USE DEF IInv
<1>1. obj[c] \in Object /\ ~obj[c].recurrent /\ obj[c].result = "none"
      /\ obj[c].seen \in Row /\ obj[c].seen.attempts_failed <= MaxAttempts
      /\ (obj[c].pc = "queued" => c \notin Members(container))
  BY DEF Run, ObjInv, Form, Place, Object
<1>2. Able(c, self) /\ self.seen = obj[c].seen /\ self.todo = obj[c].todo
  BY <1>1 DEF Able, Object
<1>3. UNCHANGED <<phase, lapsed, order, results, calls, ops, faults>>
  BY DEF Run
<1>4. self.seen.window <= coh.window
  BY <1>2, UnderWay
<1> HIDE DEF self
<1>5. CASE self.todo = {}
  <2>1. coh' = Flush(self.seen, [self.seen EXCEPT !.state = "done"]) /\ Release(c, self)
    BY <1>5 DEF Run, self
  <2>2. [self.seen EXCEPT !.state = "done"] \in Row
        /\ [self.seen EXCEPT !.state = "done"].window = self.seen.window
        /\ [self.seen EXCEPT !.state = "done"].attempts_failed = self.seen.attempts_failed
    BY <1>1, <1>2 DEF Row, CoHStates
  <2>3. Written
    BY <1>1, <1>2, <2>1, <2>2, FlushWritten
  <2> QED BY <1>2, <1>3, <1>4, <2>1, <2>3, ReleaseAfter, AfterIInv DEF RestInv
<1>6. CASE self.todo # {}
  <2>1. PICK i \in self.todo :
          Walk(c, [self EXCEPT !.step = i, !.todo = @ \ {i}, !.kept = phase[i]])
    BY <1>6 DEF Run, self
  <2>2. coh' = coh
    BY <1>6 DEF Run, self
  <2> DEFINE o == [self EXCEPT !.step = i, !.todo = @ \ {i}, !.kept = phase[i]]
  <2>3. self \in Object /\ i \in Steps /\ phase[i] \in PhaseStates
    BY <1>2 DEF Able, Object, RestInv
  <2>4. Able(c, o) /\ o.step = i /\ o.seen = self.seen
    BY <1>2, <2>3 DEF Able, Object
  <2>5. Walk(c, o)
    BY <2>1
  <2> HIDE DEF o
  <2>6. Written
    BY <2>2, StateWritten DEF CoHStates
  <2>7. After
    BY <1>4, <2>3, <2>4, <2>5, <2>6, WalkAfter
  <2> QED BY <1>3, <2>7, AfterIInv DEF RestInv
<1> QED BY <1>5, <1>6

LEMMA RemoveExpiredInv == ASSUME IInv, NEW c \in Circuits, RemoveExpired(c) PROVE IInv'
<1>1. Written
  BY StateWritten DEF IInv, RemoveExpired, CoHStates
<1>2. After
  <2>1. CASE obj[c].pc \in {"out", "released"}
    BY <1>1, <2>1, UnderWay, ReleaseAfter DEF IInv, RemoveExpired
  <2>2. CASE obj[c].pc \in {"asked", "wol"}
    <3>1. /\ obj' = obj /\ container' = Tail(container) /\ tracked' = FALSE
          /\ container # <<>> /\ c = Head(container) /\ coh' = coh
      BY <2>2 DEF RemoveExpired
    <3>2. /\ container' \in Seq(Circuits) /\ Once(container')
          /\ Members(container') = Members(container) \ {c}
      BY <3>1, TailMembers DEF IInv, ObjInv
    <3>3. ASSUME NEW d \in Circuits PROVE Place(d, obj[d], container')
      BY <2>2, <3>2 DEF IInv, ObjInv, Place
    <3> QED BY <1>1, <3>1, <3>2, <3>3 DEF IInv, ObjInv, RowInv, After
  <2> QED BY <2>1, <2>2 DEF RemoveExpired
<1>3. faults' \in Nat
  BY DEF IInv, RemoveExpired, RestInv
<1>4. UNCHANGED <<phase, lapsed, order, results, calls, ops>>
  BY DEF RemoveExpired
<1> QED BY <1>2, <1>3, <1>4 DEF IInv, RestInv, After

LEMMA ProcessNonValidInv == ASSUME IInv, ProcessNonValid PROVE IInv'
<1>1. coh' = [coh EXCEPT !.state = "failed"] \/ coh' = [coh EXCEPT !.state = "over_timed"]
  BY DEF ProcessNonValid
<1>2. Written
  BY <1>1, StateWritten DEF IInv, CoHStates
<1>3. After
  BY <1>2 DEF IInv, ProcessNonValid, After, Written, ObjInv, RowInv, RestInv
<1> QED BY <1>3, AfterIInv DEF IInv, ProcessNonValid, RestInv

-----------------------------------------------------------------------------
(* The walk.                                                                *)

LEMMA SkipInv == ASSUME IInv, NEW c \in Circuits, Skip(c) PROVE IInv'
<1> DEFINE seen == obj[c].seen
           next == [seen EXCEPT !.state = "scheduled"]
<1> USE DEF IInv
<1>1. next \in Row /\ next.window = seen.window /\ next.attempts_failed = seen.attempts_failed
  BY UnderWay DEF Row, CoHStates
<1>2. coh' = coh \/ coh' = Flush(seen, next)
  BY DEF Skip
<1>3. Written
  <2>1. CASE coh' = coh
    BY <2>1, StateWritten DEF CoHStates
  <2>2. CASE coh' = Flush(seen, next)
    BY <1>1, <2>2, UnderWay, FlushWritten
  <2> QED BY <1>2, <2>1, <2>2
<1>4. phase' \in [Steps -> PhaseStates]
  BY FlushPhaseType DEF Skip, RestInv, PhaseStates
<1>5. After
  BY <1>3, UnderWay, NextPhaseAfter DEF Skip, Walking, RestInv
<1> QED BY <1>4, <1>5, AfterIInv DEF Skip

\* Advance and ForcedFinish.
LEMMA ToNextInv ==
    ASSUME IInv, NEW c \in Circuits, Walking(c), NextPhase(c),
           UNCHANGED <<coh, phase, lapsed, order, results, calls, ops, faults>>
    PROVE  IInv'
<1>1. Written
  BY StateWritten DEF IInv, CoHStates
<1>2. After
  BY <1>1, UnderWay, NextPhaseAfter DEF IInv, Walking, RestInv
<1> QED BY <1>2, AfterIInv DEF IInv, RestInv

\* StopSeen, OverTimed and OutOfAttempts, which write the row and release.
LEMMA EndWalkInv ==
    ASSUME IInv, NEW c \in Circuits, Walking(c), Written, Release(c, obj[c]),
           UNCHANGED <<phase, lapsed, order, results, calls, ops, faults>>
    PROVE  IInv'
<1>1. After
  BY UnderWay, ReleaseAfter DEF IInv, Walking
<1> QED BY <1>1, AfterIInv DEF IInv, RestInv

LEMMA EndsInv ==
    ASSUME IInv, NEW c \in Circuits,
           Advance(c) \/ ForcedFinish(c) \/ StopSeen(c) \/ OverTimed(c) \/ OutOfAttempts(c)
    PROVE  IInv'
<1>1. CASE Advance(c)
  BY <1>1, ToNextInv DEF Advance, Finished, InTime, General
<1>2. CASE ForcedFinish(c)
  BY <1>2, ToNextInv DEF ForcedFinish, TooLate, General
<1>3. CASE StopSeen(c)
  <2>1. Written
    BY <1>3, StateWritten DEF IInv, StopSeen, CoHStates
  <2> QED BY <1>3, <2>1, EndWalkInv DEF StopSeen, Stopped, General
<1>4. CASE OverTimed(c)
  <2>1. coh' = [coh EXCEPT !.state = "failed"] \/ coh' = [coh EXCEPT !.state = "over_timed"]
    BY <1>4 DEF OverTimed
  <2>2. Written
    BY <2>1, StateWritten DEF IInv, CoHStates
  <2> QED BY <1>4, <2>2, EndWalkInv DEF OverTimed, TooLate, General
<1>5. CASE OutOfAttempts(c)
  <2> DEFINE new == [obj[c].seen EXCEPT !.state = "failed"]
  <2>1. /\ new \in Row /\ new.window = obj[c].seen.window
        /\ new.attempts_failed = obj[c].seen.attempts_failed
    BY UnderWay DEF IInv, Row, CoHStates
  <2>2. coh' = Flush(obj[c].seen, new)
    BY <1>5 DEF OutOfAttempts
  <2>3. Written
    BY <2>1, <2>2, UnderWay, FlushWritten DEF IInv
  <2> QED BY <1>5, <2>3, EndWalkInv DEF OutOfAttempts, GivenUp, InTime, General
<1> QED BY <1>1, <1>2, <1>3, <1>4, <1>5

LEMMA PerformInv ==
    ASSUME IInv, NEW c \in Circuits, Perform(c) \/ PerformWOL(c)
    PROVE  IInv'
<1> DEFINE o == [obj[c] EXCEPT !.kept = "running"]
<1> USE DEF IInv
<1>1. /\ Walking(c) /\ Host(c) /\ coh' = coh
      /\ phase' = FlushPhase(obj[c].step, obj[c].kept, "running")
      /\ Settle(c, o, "asked") \/ Settle(c, o, "wol")
      /\ UNCHANGED <<lapsed, order, results, calls, ops, faults>>
  BY DEF Perform, PerformWOL, ToPerform, InTime, General
<1>2. /\ obj[c] \in Object /\ Able(c, obj[c]) /\ ~obj[c].recurrent
      /\ obj[c].step \in Steps /\ obj[c].seen.window <= coh.window
  BY <1>1, UnderWay DEF Host, Walking
<1>3. Able(c, o) /\ o.seen = obj[c].seen /\ o.step = obj[c].step /\ ~o.recurrent
  BY <1>2 DEF Able, Object, PhaseStates
<1>4. Written
  BY <1>1, StateWritten DEF CoHStates
<1>5. phase' \in [Steps -> PhaseStates]
  BY <1>1, FlushPhaseType DEF RestInv, PhaseStates
<1> HIDE DEF o
<1>6. After
  BY <1>1, <1>2, <1>3, <1>4, SettleAfter
<1> QED BY <1>1, <1>5, <1>6, AfterIInv

LEMMA PerformWithoutHostInv ==
    ASSUME IInv, NEW c \in Circuits, PerformWithoutHost(c)
    PROVE  IInv'
<1> DEFINE row == Charged(obj[c].seen)
           o == [obj[c] EXCEPT !.seen = row, !.kept = "failed"]
<1> USE DEF IInv
<1>1. /\ Walking(c) /\ coh' = Flush(obj[c].seen, row) /\ Release(c, o)
      /\ phase' = [phase EXCEPT ![obj[c].step] = "failed"]
      /\ UNCHANGED <<lapsed, order, results, calls, ops, faults>>
  BY DEF PerformWithoutHost, ToPerform, InTime, General
<1>2. row \in Row /\ row.window = obj[c].seen.window /\ row.attempts_failed <= MaxAttempts
  BY UnderWay, ChargedRow
<1>3. Able(c, obj[c]) /\ obj[c].seen \in Row /\ obj[c].seen.window <= coh.window
  BY <1>1, UnderWay DEF Walking
<1>4. Able(c, o) /\ o.seen = row
  BY <1>2, <1>3 DEF Able, Object, PhaseStates
<1> HIDE DEF row, o
<1>5. Written
  BY <1>1, <1>2, <1>3, FlushWritten
<1>6. After
  BY <1>1, <1>2, <1>3, <1>4, <1>5, ReleaseAfter
<1>7. phase' \in [Steps -> PhaseStates]
  BY <1>1, FlushPhaseType DEF RestInv, PhaseStates
<1> QED BY <1>1, <1>6, <1>7, AfterIInv

LEMMA PerformWUParseInv ==
    ASSUME IInv, NEW c \in Circuits, PerformWUParse(c)
    PROVE  IInv'
<1> USE DEF IInv
<1>1. /\ Walking(c) /\ UNCHANGED <<lapsed, order, results, calls, ops, faults>>
  BY DEF PerformWUParse, ToPerform, InTime, General
<1>2. /\ Able(c, obj[c]) /\ obj[c].step \in Steps
      /\ obj[c].seen \in Row /\ obj[c].seen.window <= coh.window
  BY <1>1, UnderWay DEF Walking
<1>3. CASE /\ phase' = [phase EXCEPT ![obj[c].step] = "done"]
           /\ Walk(c, [obj[c] EXCEPT !.kept = "done"])
           /\ UNCHANGED coh
  <2> DEFINE o == [obj[c] EXCEPT !.kept = "done"]
  <2>1. Able(c, o) /\ o.seen = obj[c].seen /\ o.step = obj[c].step
    BY <1>2 DEF Able, Object, PhaseStates
  <2>2. Walk(c, o)
    BY <1>3
  <2> HIDE DEF o
  <2>3. Written
    BY <1>3, StateWritten DEF CoHStates
  <2>4. After
    BY <1>2, <2>1, <2>2, <2>3, WalkAfter
  <2>5. phase' \in [Steps -> PhaseStates]
    BY <1>3, FlushPhaseType DEF RestInv, PhaseStates
  <2> QED BY <1>1, <2>4, <2>5, AfterIInv
<1>4. CASE /\ coh' = Flush(obj[c].seen, Charged(obj[c].seen))
           /\ phase' = [phase EXCEPT ![obj[c].step] = "failed"]
           /\ Walk(c, [obj[c] EXCEPT !.seen = Charged(obj[c].seen), !.kept = "failed"])
  <2> DEFINE row == Charged(obj[c].seen)
             o == [obj[c] EXCEPT !.seen = row, !.kept = "failed"]
  <2>1. row \in Row /\ row.window = obj[c].seen.window /\ row.attempts_failed <= MaxAttempts
    BY UnderWay, ChargedRow
  <2>2. Able(c, o) /\ o.seen = row /\ o.step = obj[c].step
    BY <1>2, <2>1 DEF Able, Object, PhaseStates
  <2>3. Walk(c, o) /\ coh' = Flush(obj[c].seen, row)
    BY <1>4
  <2> HIDE DEF row, o
  <2>4. Written
    BY <1>2, <2>1, <2>3, FlushWritten
  <2>5. After
    BY <1>2, <2>1, <2>2, <2>3, <2>4, WalkAfter
  <2>6. phase' \in [Steps -> PhaseStates]
    BY <1>4, FlushPhaseType DEF RestInv, PhaseStates
  <2> QED BY <1>1, <2>5, <2>6, AfterIInv
<1> QED BY <1>3, <1>4 DEF PerformWUParse

LEMMA PerformDoneInv ==
    ASSUME IInv, NEW c \in Circuits, PerformDone(c)
    PROVE  IInv'
<1> DEFINE new == [obj[c].seen EXCEPT !.state = "done"]
<1> USE DEF IInv
<1> DEFINE o == [obj[c] EXCEPT !.seen.state = "done", !.kept = "done"]
<1>1. /\ Walking(c) /\ coh' = Flush(obj[c].seen, new)
      /\ Release(c, obj[c]) \/ Walk(c, o)
      /\ phase' = [phase EXCEPT ![obj[c].step] = "done"]
      /\ UNCHANGED <<lapsed, order, results, calls, ops, faults>>
  BY DEF PerformDone, ToPerform, InTime, General
<1>2. /\ new \in Row /\ new.window = obj[c].seen.window
      /\ new.attempts_failed = obj[c].seen.attempts_failed
  BY UnderWay DEF Row, CoHStates
<1>3. Written
  BY <1>1, <1>2, UnderWay, FlushWritten
<1>4. After
  <2>1. CASE Release(c, obj[c])
    BY <1>1, <1>3, <2>1, UnderWay, ReleaseAfter DEF Walking
  <2>2. CASE Walk(c, o)
    <3>1. obj[c] \in Object /\ Able(c, obj[c]) /\ obj[c].step \in Steps
      BY <1>1, UnderWay DEF Walking
    <3>2. o = [obj[c] EXCEPT !.seen = new, !.kept = "done"]
      BY <3>1 DEF Object
    <3>3. Able(c, o) /\ o.seen = new /\ o.step = obj[c].step
      BY <1>2, <3>1, <3>2, UnderWay DEF Able, Object, PhaseStates
    <3>4. o.seen.window <= coh.window
      BY <1>2, <3>3, UnderWay
    <3> HIDE DEF o
    <3> QED BY <1>3, <2>2, <3>1, <3>3, <3>4, WalkAfter
  <2> QED BY <1>1, <2>1, <2>2
<1>5. phase' \in [Steps -> PhaseStates]
  BY <1>1, FlushPhaseType DEF RestInv, PhaseStates
<1> QED BY <1>1, <1>4, <1>5, AfterIInv

-----------------------------------------------------------------------------
(* Answers and results.                                                     *)

LEMMA AskedInv ==
    ASSUME IInv, NEW c \in Circuits, OrderTaken(c) \/ OrderRefused(c) \/ CallFailed(c)
    PROVE  IInv'
<1> USE DEF IInv
<1>1. obj[c].pc = "asked"
  BY DEF OrderTaken, OrderRefused, CallFailed, Asked
<1>2. /\ Able(c, obj[c]) /\ obj[c].step \in Steps /\ ~obj[c].recurrent
      /\ obj[c].seen \in Row /\ obj[c].seen.window <= coh.window
      /\ obj[c].seen.attempts_failed <= MaxAttempts
  BY <1>1, UnderWay
<1>3. CASE OrderTaken(c)
  <2>1. After
    BY <1>2, <1>3, GiveUpAfter DEF OrderTaken
  <2>2. order' \in [status : {"none", "running", "zombie"}, step : Steps]
    BY <1>2, <1>3 DEF OrderTaken
  <2> QED BY <1>3, <2>1, <2>2 DEF OrderTaken, RestInv, After
<1>4. CASE OrderRefused(c) /\ obj[c].seen.state = "stopped"
  <2>1. After
    BY <1>2, <1>4, GiveUpAfter DEF OrderRefused
  <2> QED BY <1>4, <2>1, AfterIInv DEF OrderRefused, RestInv
<1>5. CASE OrderRefused(c) /\ obj[c].seen.state # "stopped"
  <2> DEFINE row == [obj[c].seen EXCEPT !.state = "scheduled"]
  <2>1. /\ row \in Row /\ row.window = obj[c].seen.window
        /\ row.attempts_failed = obj[c].seen.attempts_failed
    BY <1>2 DEF Row, CoHStates
  <2>2. FailPhase(c, row)
    BY <1>5 DEF OrderRefused
  <2>3. After /\ phase' \in [Steps -> PhaseStates]
    BY <1>2, <2>1, <2>2, FailPhaseAfter DEF RestInv
  <2> QED BY <1>5, <2>3, AfterIInv DEF OrderRefused
<1>6. CASE CallFailed(c)
  <2>1. After /\ phase' \in [Steps -> PhaseStates]
    BY <1>2, <1>6, FailPhaseAfter DEF RestInv, CallFailed
  <2>2. order' \in [status : {"none", "running", "zombie"}, step : Steps]
    BY <1>2, <1>6 DEF CallFailed, RestInv
  <2>3. faults' \in Nat /\ UNCHANGED <<lapsed, results, calls, ops>>
    BY <1>6 DEF CallFailed, RestInv
  <2> QED BY <2>1, <2>2, <2>3 DEF RestInv, After
<1> QED BY <1>3, <1>4, <1>5, <1>6

LEMMA WOLInv ==
    ASSUME IInv, NEW c \in Circuits,
           WOLUseless(c) \/ WOLSlept(c) \/ WOLUnanswered(c) \/ WOLFailed(c)
    PROVE  IInv'
<1> USE DEF IInv
<1> DEFINE seen == obj[c].seen
           next == [seen EXCEPT !.state = "scheduled"]
<1>1. obj[c].pc = "wol"
  BY DEF WOLUseless, WOLSlept, WOLUnanswered, WOLFailed, InWOL
<1>2. /\ Able(c, obj[c]) /\ obj[c].step \in Steps /\ ~obj[c].recurrent
      /\ seen \in Row /\ seen.window <= coh.window
      /\ seen.attempts_failed <= MaxAttempts
  BY <1>1, UnderWay
<1>3. /\ next \in Row /\ next.window = seen.window
      /\ next.attempts_failed = seen.attempts_failed
  BY <1>2 DEF Row, CoHStates
<1> HIDE DEF next
<1>4. CASE WOLUseless(c)
  <2> DEFINE row == IF seen.state = "stopped" THEN seen ELSE next
             o == [obj[c] EXCEPT !.seen = row, !.kept = "done"]
  <2>1. /\ coh' = Flush(seen, row) /\ Walk(c, o)
        /\ phase' = FlushPhase(obj[c].step, obj[c].kept, "done")
        /\ UNCHANGED <<lapsed, order, results, calls, ops, faults>>
    BY <1>4 DEF WOLUseless, next
  <2>2. row \in Row /\ row.window = seen.window
        /\ row.attempts_failed = seen.attempts_failed
    BY <1>2, <1>3
  <2>3. Able(c, o) /\ o.seen = row /\ o.step = obj[c].step
    BY <1>2, <2>2 DEF Able, Object, PhaseStates
  <2> HIDE DEF row, o
  <2>4. Written
    BY <1>2, <2>1, <2>2, FlushWritten
  <2>5. After
    BY <1>2, <2>1, <2>2, <2>3, <2>4, WalkAfter
  <2>6. phase' \in [Steps -> PhaseStates]
    BY <2>1, FlushPhaseType DEF RestInv, PhaseStates
  <2> QED BY <2>1, <2>5, <2>6, AfterIInv
<1>5. CASE WOLSlept(c)
  <2> DEFINE o == [obj[c] EXCEPT !.kept = "done"]
  <2>1. /\ coh' = coh /\ Walk(c, o)
        /\ phase' = FlushPhase(obj[c].step, obj[c].kept, "done")
        /\ UNCHANGED <<lapsed, order, results, calls, ops, faults>>
    BY <1>5 DEF WOLSlept
  <2>2. Able(c, o) /\ o.seen = seen /\ o.step = obj[c].step
    BY <1>2 DEF Able, Object, PhaseStates
  <2> HIDE DEF o
  <2>3. Written
    BY <2>1, StateWritten DEF CoHStates
  <2>4. After
    BY <1>2, <2>1, <2>2, <2>3, WalkAfter
  <2>5. phase' \in [Steps -> PhaseStates]
    BY <2>1, FlushPhaseType DEF RestInv, PhaseStates
  <2> QED BY <2>1, <2>4, <2>5, AfterIInv
<1>6. CASE WOLUnanswered(c) /\ seen.state = "stopped"
  <2>1. After
    BY <1>2, <1>6, GiveUpAfter DEF WOLUnanswered
  <2> QED BY <1>6, <2>1, AfterIInv DEF WOLUnanswered, RestInv
<1>7. CASE WOLUnanswered(c) /\ seen.state # "stopped"
  <2> DEFINE o == [obj[c] EXCEPT !.seen = next, !.kept = "ready"]
  <2>1. /\ coh' = Flush(seen, next) /\ Settle(c, o, "out")
        /\ phase' = FlushPhase(obj[c].step, obj[c].kept, "ready")
        /\ UNCHANGED <<lapsed, order, results, calls, ops, faults>>
    BY <1>7 DEF WOLUnanswered, next
  <2>2. Able(c, o) /\ o.seen = next /\ o.step = obj[c].step /\ ~o.recurrent
    BY <1>2, <1>3 DEF Able, Object, PhaseStates
  <2> HIDE DEF o
  <2>3. Written
    BY <1>2, <1>3, <2>1, FlushWritten
  <2>4. After
    BY <1>2, <1>3, <2>1, <2>2, <2>3, SettleAfter
  <2>5. phase' \in [Steps -> PhaseStates]
    BY <2>1, FlushPhaseType DEF RestInv, PhaseStates
  <2> QED BY <2>1, <2>4, <2>5, AfterIInv
<1>8. CASE WOLFailed(c)
  <2>1. After /\ phase' \in [Steps -> PhaseStates]
    BY <1>2, <1>8, FailPhaseAfter DEF RestInv, WOLFailed
  <2> QED BY <1>8, <2>1, AfterIInv DEF WOLFailed
<1> QED BY <1>4, <1>5, <1>6, <1>7, <1>8

\* Parsing a result, by a circuit of the container or by a recurrent one.
LEMMA ParseAfter ==
    ASSUME ObjInv, RowInv, phase \in [Steps -> PhaseStates],
           NEW c \in Circuits, NEW result, Parse(c, result),
           obj[c].pc \in {"out", "released", "parse"}, obj[c].step \in Steps
    PROVE  After /\ phase' \in [Steps -> PhaseStates]
<1>1. /\ Able(c, obj[c]) /\ obj[c] \in Object /\ ~obj[c].thread
      /\ obj[c].seen \in Row /\ obj[c].seen.window <= coh.window
      /\ obj[c].seen.attempts_failed <= MaxAttempts
  BY UnderWay
<1> DEFINE o == [obj[c] EXCEPT !.result = "none"]
           d == [obj[c] EXCEPT !.kept = "done", !.result = "none"]
<1>2. /\ Able(c, o) /\ o.seen = obj[c].seen /\ o.step = obj[c].step
      /\ o.thread = obj[c].thread
      /\ Able(c, d) /\ d.seen = obj[c].seen /\ d.step = obj[c].step
  BY <1>1 DEF Able, Object, PhaseStates
<1>3. coh' = coh => Written
  BY StateWritten DEF CoHStates
<1>4. CASE ParseSuccess(c)
  <2>1. \/ Release(c, o) /\ UNCHANGED <<coh, phase>>
        \/ Walk(c, d) /\ phase' = [phase EXCEPT ![obj[c].step] = "done"] /\ UNCHANGED coh
        \/ GiveUp(c, o) /\ UNCHANGED phase
    <3>1. d = [o EXCEPT !.kept = "done"] /\ o.step = obj[c].step
      BY <1>1 DEF Object
    <3> QED BY <1>4, <3>1 DEF ParseSuccess
  <2> HIDE DEF o, d
  <2>2. CASE Release(c, o) /\ UNCHANGED <<coh, phase>>
    BY <1>1, <1>2, <1>3, <2>2, ReleaseAfter
  <2>3. CASE Walk(c, d) /\ phase' = [phase EXCEPT ![obj[c].step] = "done"] /\ UNCHANGED coh
    <3>1. After
      BY <1>1, <1>2, <1>3, <2>3, WalkAfter
    <3> QED BY <2>3, <3>1, FlushPhaseType DEF PhaseStates
  <2>4. CASE GiveUp(c, o) /\ UNCHANGED phase
    BY <1>1, <1>2, <2>4, GiveUpAfter
  <2> QED BY <2>1, <2>2, <2>3, <2>4
<1>5. CASE ParseFailure(c) /\ Name(c) \in NonFatal \ {"upload"}
  <2>1. /\ Walk(c, d) /\ UNCHANGED coh
        /\ phase' = FlushPhase(obj[c].step, obj[c].kept, "done")
    BY <1>5 DEF ParseFailure
  <2> HIDE DEF d
  <2>2. After
    BY <1>1, <1>2, <1>3, <2>1, WalkAfter
  <2> QED BY <2>1, <2>2, FlushPhaseType DEF PhaseStates
<1>6. CASE ParseFailure(c) /\ Name(c) \notin NonFatal \ {"upload"}
  <2>1. FailPhase(c, obj[c].seen)
    BY <1>6 DEF ParseFailure
  <2> QED BY <1>1, <2>1, FailPhaseAfter
<1> QED BY <1>4, <1>5, <1>6 DEF Parse

LEMMA ResultInv ==
    ASSUME IInv, NEW c \in Circuits, NEW step, NEW result, Result(c, step, result)
    PROVE  IInv'
<1> USE DEF IInv
<1>1. obj[c].pc \in {"out", "released", "parse"} /\ obj[c].step \in Steps
  BY DEF Result, RestInv
<1>2. After /\ phase' \in [Steps -> PhaseStates]
  BY <1>1, ParseAfter DEF Result, RestInv
<1>3. results' \in SUBSET Steps
  BY DEF Result, RestInv
<1> QED BY <1>2, <1>3 DEF Result, RestInv, After

LEMMA ResultOutsideInv ==
    ASSUME IInv, NEW c \in Circuits, NEW step, NEW result \in {"ok", "ko"},
           ResultOutside(c, step, result)
    PROVE  IInv'
<1> USE DEF IInv
<1> DEFINE self == [Unused EXCEPT !.seen = coh, !.thread = TRUE, !.recurrent = TRUE,
                                  !.result = result, !.of = step]
<1>1. /\ container = <<>> /\ UNCHANGED <<phase, lapsed, order, calls, ops, faults>>
      /\ results' = results \ {step} /\ step \in Steps
  BY DEF ResultOutside, RestInv
<1>2. results' \in SUBSET Steps
  BY <1>1 DEF RestInv
<1>3. coh \in Row /\ coh.attempts_failed <= MaxAttempts /\ coh.window \in Nat
  BY DEF RowInv, Row
<1>4. CASE Undone = {}
  <2>1. coh' = [coh EXCEPT !.state = "done"] /\ tracked' = FALSE
        /\ UNCHANGED <<obj, container>>
    BY <1>4 DEF ResultOutside
  <2>2. Written
    BY <2>1, StateWritten DEF CoHStates
  <2> QED BY <1>1, <1>2, <2>1, <2>2 DEF Written, ObjInv, RowInv, RestInv
<1>5. CASE Undone # {}
  <2>1. PICK i \in Undone :
          Walk(c, [self EXCEPT !.step = i, !.todo = Undone \ {i}, !.kept = phase[i]])
    BY <1>5 DEF ResultOutside
  <2>2. coh' = coh
    BY <1>5 DEF ResultOutside
  <2> DEFINE o == [self EXCEPT !.step = i, !.todo = Undone \ {i}, !.kept = phase[i]]
  <2>3. i \in Steps /\ phase[i] \in PhaseStates /\ Undone \in SUBSET Steps
    BY DEF Undone, RestInv
  <2>4. c \notin Members(container)
    BY <1>1 DEF Members
  <2>5. Able(c, o) /\ o.step = i /\ o.seen = coh
    BY <1>1, <1>3, <2>3, <2>4 DEF Able, Object, Unused, PC
  <2>6. Walk(c, o)
    BY <2>1
  <2> HIDE DEF o
  <2>7. Written
    BY <2>2, StateWritten DEF CoHStates
  <2>8. After
    BY <1>3, <2>3, <2>5, <2>6, <2>7, WalkAfter
  <2> QED BY <1>1, <1>2, <2>8 DEF RestInv, After
<1> QED BY <1>4, <1>5

LEMMA ParseOutsideInv ==
    ASSUME IInv, NEW c \in Circuits, ParseOutside(c)
    PROVE  IInv'
<1> USE DEF IInv
<1>1. obj[c].pc = "parse" /\ UNCHANGED <<lapsed, order, results, calls, ops, faults>>
  BY DEF ParseOutside
<1>3. CASE obj[c].step = obj[c].of
  <2>1. Parse(c, obj[c].result)
    BY <1>3 DEF ParseOutside
  <2>2. After /\ phase' \in [Steps -> PhaseStates]
    BY <1>1, <2>1, UnderWay, ParseAfter DEF RestInv
  <2> QED BY <1>1, <2>2 DEF RestInv, After
<1>4. CASE obj[c].step # obj[c].of
  <2>1. obj' = [obj EXCEPT ![c] = Unused] /\ UNCHANGED <<coh, phase, container, tracked>>
    BY <1>4 DEF ParseOutside
  <2>2. \A d \in Circuits : obj'[d] = IF d = c THEN Unused ELSE obj[d]
    BY <2>1 DEF ObjInv
  <2>3. c \notin Members(container) /\ Unused \in Object
    BY <1>1, UnusedForm DEF ObjInv, Place, Form
  <2>4. \A d \in Circuits : Form(obj'[d]) /\ Place(d, obj'[d], container)
    BY <2>2, <2>3, UnusedForm DEF ObjInv, Place
  <2>5. ObjInv'
    BY <2>1, <2>3, <2>4 DEF ObjInv
  <2>6. RowInv'
    BY <2>1, <2>2, UnusedForm DEF RowInv, Row, FirstRow
  <2> QED BY <1>1, <2>1, <2>5, <2>6 DEF RestInv
<1> QED BY <1>3, <1>4

-----------------------------------------------------------------------------
(* The agent, time and crashes.                                             *)

LEMMA AgentInv ==
    ASSUME IInv, AgentStop \/ AgentStart \/ AgentExtend
    PROVE  IInv'
<1> USE DEF IInv
<1>1. /\ coh' \in Row /\ coh'.attempts_failed <= MaxAttempts
      /\ coh.window \in Nat /\ coh'.window \in {coh.window, coh.window + 1}
  BY Constants DEF AgentStop, AgentStart, AgentExtend, RowInv, Row, CoHStates
<1>2. UNCHANGED <<phase, lapsed, obj, container, tracked, order, results, faults>>
  BY DEF AgentStop, AgentStart, AgentExtend
<1>3. \A d \in Circuits : obj[d].seen.window \in Nat
  BY UnderWay DEF Row
<1>4. RowInv'
  BY <1>1, <1>2, <1>3 DEF RowInv
<1>5. ObjInv'
  BY <1>2 DEF ObjInv
<1>6. ops' \in Nat /\ calls' \in SUBSET {"stop", "start"}
  BY DEF AgentStop, AgentStart, AgentExtend, RestInv
<1> QED BY <1>2, <1>4, <1>5, <1>6 DEF RestInv

LEMMA HandleStopInv == ASSUME IInv, HandleStop PROVE IInv'
<1> USE DEF IInv
<1>1. /\ container' = <<>> /\ UNCHANGED <<coh, phase, lapsed, order, results, ops, faults>>
      /\ calls' = calls \ {"stop"} /\ tracked' = (tracked /\ container = <<>>)
      /\ obj' = [c \in Circuits |-> IF c \in Members(container) THEN Dropped(obj[c])
                                    ELSE obj[c]]
  BY DEF HandleStop
<1>2. container' \in Seq(Circuits) /\ Once(container') /\ Members(container') = {}
  BY <1>1 DEF Once, Members
<1>3. ASSUME NEW d \in Circuits
      PROVE  /\ Form(obj'[d]) /\ Place(d, obj'[d], container')
             /\ obj'[d].seen \in {obj[d].seen, FirstRow}
  <2>1. CASE d \in Members(container)
    <3>1. obj'[d] = Dropped(obj[d])
      BY <1>1, <2>1
    <3> QED BY <1>2, <3>1, DroppedForm DEF ObjInv, Place
  <2>2. CASE d \notin Members(container)
    <3>1. obj'[d] = obj[d]
      BY <1>1, <2>2
    <3> QED BY <1>2, <2>2, <3>1 DEF ObjInv, Place
  <2> QED BY <2>1, <2>2
<1>4. obj' \in [Circuits -> Object]
  <2>1. \A d \in Circuits : obj'[d] \in Object
    BY <1>3 DEF Form
  <2> QED BY <1>1, <2>1
<1>5. ObjInv'
  BY <1>2, <1>3, <1>4 DEF ObjInv
<1>6. RowInv'
  BY <1>1, <1>3 DEF RowInv, Row, FirstRow
<1>7. tracked' \in BOOLEAN
  BY <1>1
<1> QED BY <1>1, <1>5, <1>6, <1>7 DEF RestInv

LEMMA HandleStartInv == ASSUME IInv, HandleStart PROVE IInv'
<1> USE DEF IInv
<1>1. coh' = [coh EXCEPT !.state = coh.state] \/ coh' = [coh EXCEPT !.state = "scheduled"]
  BY DEF HandleStart
<1>2. Written
  BY <1>1, StateWritten DEF CoHStates, RowInv, Row
<1> QED BY <1>2 DEF HandleStart, Written, ObjInv, RowInv, RestInv

LEMMA SchedulerRestartInv == ASSUME IInv, SchedulerRestart PROVE IInv'
<1> USE DEF IInv
<1>1. /\ obj' = [c \in Circuits |-> Unused] /\ container' = <<>> /\ tracked' = FALSE
      /\ calls' = {} /\ UNCHANGED <<coh, phase, lapsed, order, results, ops>> /\ faults' = faults + 1
  BY DEF SchedulerRestart
<1>2. /\ order' \in [status : {"none", "running", "zombie"}, step : Steps]
      /\ results' \in SUBSET Steps
  BY DEF SchedulerRestart, RestInv
<1>3. container' \in Seq(Circuits) /\ Once(container') /\ Members(container') = {}
  BY <1>1 DEF Once, Members
<1>4. Unused \in Object /\ \A d \in Circuits : Place(d, Unused, container')
  BY <1>3, UnusedForm DEF Form, Place
<1>5. ObjInv'
  BY <1>1, <1>3, <1>4, UnusedForm DEF ObjInv
<1>6. RowInv'
  BY <1>1, UnusedForm DEF RowInv, Row, FirstRow
<1>7. tracked' \in BOOLEAN /\ calls' \in SUBSET {"stop", "start"} /\ faults' \in Nat
  <2>1. faults' \in Nat
    BY <1>1 DEF RestInv
  <2>2. tracked' \in BOOLEAN
    BY <1>1
  <2>3. calls' \in SUBSET {"stop", "start"}
    BY <1>1
  <2> QED BY <2>1, <2>2, <2>3
<1>8. phase' \in [Steps -> PhaseStates] /\ lapsed' \in Nat /\ ops' \in Nat
  BY <1>1 DEF RestInv
<1>9. RestInv'
  BY <1>2, <1>7, <1>8 DEF RestInv
<1> QED BY <1>5, <1>6, <1>9

\* Steps that leave the scheduler's own state alone.
LEMMA OutsideInv ==
    ASSUME IInv, NEW c,
           \/ ProcessEnded \/ SendFailed \/ Resend \/ LoseResult
           \/ \E step \in results : ResultRejected(c, step)
           \/ LoseCall \/ Lapse \/ LauncherRestart
    PROVE  IInv'
<1> USE DEF IInv
<1> USE DEF ProcessEnded, SendFailed, Resend, LoseResult, ResultRejected, LoseCall, Lapse,
            LauncherRestart
<1>1. UNCHANGED <<coh, phase, obj, container, tracked, ops>>
  OBVIOUS
<1>2. ObjInv' /\ RowInv'
  BY <1>1 DEF ObjInv, RowInv
<1>3. order' \in [status : {"none", "running", "zombie"}, step : Steps]
  BY Constants DEF NoOrder, RestInv
<1>4. results' \in SUBSET Steps
  BY DEF RestInv
<1>5. lapsed' \in Nat /\ faults' \in Nat /\ calls' \in SUBSET {"stop", "start"}
  BY DEF RestInv
<1> QED BY <1>1, <1>2, <1>3, <1>4, <1>5 DEF RestInv

-----------------------------------------------------------------------------
(* The theorems.                                                            *)

LEMMA InitIInv == Init => IInv
<1> SUFFICES ASSUME Init PROVE IInv
  OBVIOUS
<1>1. container \in Seq(Circuits) /\ Once(container) /\ Members(container) = {}
  BY DEF Init, Once, Members
<1>2. Unused \in Object /\ \A c \in Circuits : Place(c, Unused, container)
  BY <1>1, UnusedForm DEF Form, Place
<1>3. ObjInv
  BY <1>1, <1>2, UnusedForm DEF Init, ObjInv
<1>4. RowInv
  BY Constants, UnusedForm DEF Init, RowInv, Row, FirstRow, CoHStates
<1>5. RestInv
  <2>1. order \in [status : {"none", "running", "zombie"}, step : Steps]
    BY Constants DEF Init, NoOrder
  <2>2. phase \in [Steps -> PhaseStates]
    BY DEF Init, PhaseStates
  <2>3. tracked \in BOOLEAN /\ calls \in SUBSET {"stop", "start"}
    BY DEF Init
  <2> QED BY <2>1, <2>2, <2>3 DEF Init, RestInv
<1> QED BY <1>3, <1>4, <1>5 DEF IInv

LEMMA NextIInv == IInv /\ [Next]_vars => IInv'
<1> SUFFICES ASSUME IInv, [Next]_vars PROVE IInv'
  OBVIOUS
<1>1. CASE UNCHANGED vars
  BY <1>1 DEF vars, IInv, ObjInv, RowInv, RestInv
<1>2. ASSUME NEW c \in Circuits, Select(c) \/ Run(c) \/ RemoveExpired(c) PROVE IInv'
  BY <1>2, SelectInv, RunInv, RemoveExpiredInv
<1>3. ASSUME NEW c \in Circuits, Step(c) PROVE IInv'
  BY <1>3, SkipInv, EndsInv, PerformInv, PerformWithoutHostInv, PerformWUParseInv,
     PerformDoneInv DEF Step
<1>4. ASSUME NEW c \in Circuits, Answer(c) PROVE IInv'
  BY <1>4, AskedInv, WOLInv DEF Answer
<1>5. ASSUME NEW c \in Circuits, Handle(c) PROVE IInv'
  BY <1>5, ResultInv, ResultOutsideInv, OutsideInv DEF Handle
<1>6. ASSUME NEW c \in Circuits, ParseOutside(c) PROVE IInv'
  BY <1>6, ParseOutsideInv
<1>7. CASE \/ ProcessEnded \/ SendFailed \/ Resend \/ LoseResult \/ ProcessNonValid
           \/ AgentStop \/ AgentStart \/ AgentExtend
           \/ HandleStop \/ HandleStart \/ LoseCall
           \/ Lapse \/ SchedulerRestart \/ LauncherRestart
  BY <1>7, OutsideInv, ProcessNonValidInv, AgentInv, HandleStopInv, HandleStartInv,
     SchedulerRestartInv
<1> QED BY <1>1, <1>2, <1>3, <1>4, <1>5, <1>6, <1>7 DEF Next

LEMMA Invariance == Spec => []IInv
BY InitIInv, NextIInv, PTL DEF Spec

\* Whatever the workflow, the bounds and the number of circuits, the state of
\* the scheduler, of the launcher and of the rows keeps its types.
THEOREM Typing == Spec => []TypeOK
BY Invariance, IInvImplies, PTL

\* However stale the copies that reSchedule() works on, no row and no copy ever
\* counts more failures than attempts, nor is a copy newer than the row.
THEOREM AttemptsBounded == Spec => []Charges
BY Invariance, IInvImplies, PTL

-----------------------------------------------------------------------------
(* A CoH that nobody extends has failed for a reason.                       *)

\* What fails was charged, on the row, and no copy knows of more.
Blamed ==
    /\ (\E i \in Steps : phase[i] = "failed") \/ coh.state = "failed"
          => coh.attempts_failed > 0
    /\ \A c \in Circuits : obj[c].seen.attempts_failed > 0 => coh.attempts_failed > 0

\* A step charges an attempt,
Charging == coh'.attempts_failed > 0

\* or leaves the count alone and fails nothing without a reason.
Sparing ==
    /\ coh'.attempts_failed = coh.attempts_failed
    /\ coh'.state = "failed" =>
          \/ coh.state = "failed" \/ \E i \in Steps : phase[i] = "failed"
          \/ coh.attempts_failed > 0
          \/ \E c \in Circuits : obj[c].seen.attempts_failed > 0
    /\ \A i \in Steps : phase'[i] = "failed" => phase[i] = "failed"
    /\ \A c \in Circuits : \/ obj'[c].seen.attempts_failed \in {0, coh.attempts_failed}
                           \/ \E d \in Circuits : obj'[c].seen.attempts_failed
                                                    = obj[d].seen.attempts_failed

LEMMA BlamedStays == ASSUME IInv, Blamed, Charging \/ Sparing PROVE Blamed'
<1>1. CASE Charging
  BY <1>1 DEF Charging, Blamed
<1>2. CASE Sparing
  <2>1. coh.attempts_failed \in Nat
    BY DEF IInv, RowInv, Row
  <2>2. CASE coh.attempts_failed > 0
    BY <1>2, <2>2 DEF Sparing, Blamed
  <2>3. CASE ~(coh.attempts_failed > 0)
    BY <1>2, <2>1, <2>3 DEF Sparing, Blamed
  <2> QED BY <2>2, <2>3
<1> QED BY <1>1, <1>2

\* What becomes of the copies, whichever way the step ends.
LEMMA SeenAfter ==
    ASSUME obj \in [Circuits -> Object], NEW c \in Circuits, NEW self \in Object, NEW pc \in PC,
           Walk(c, self) \/ Settle(c, self, pc) \/ Release(c, self)
    PROVE  Copies(self)
<1>1. Unused.seen = FirstRow /\ \A d \in Circuits : obj[d] \in Object
      /\ Dropped(obj[d]).seen \in {obj[d].seen, FirstRow}
  BY DEF Unused, Dropped
<1>2. CASE Walk(c, self)
  BY <1>2 DEF Walk, Object, Copies
<1>3. CASE Settle(c, self, pc)
  BY <1>1, <1>3 DEF Settle, Object, Copies
<1>4. CASE Release(c, self)
  <2> DEFINE p == [self EXCEPT !.pc = "parse", !.thread = FALSE]
             r == [self EXCEPT !.pc = "released", !.thread = FALSE]
  <2>1. p.seen = self.seen /\ r.seen = self.seen
    BY DEF Object
  <2>2. obj'[c] \in {p, r, Unused}
    BY <1>4 DEF Release
  <2> HIDE DEF p, r
  <2>3. \A d \in Circuits \ {c} : obj'[d] \in {obj[d], Dropped(obj[d])}
    BY <1>4 DEF Release
  <2> QED BY <1>1, <2>1, <2>2, <2>3 DEF Copies
<1> QED BY <1>2, <1>3, <1>4

LEMMA ChargedCounts ==
    ASSUME IInv, Blamed, NEW c \in Circuits, NEW row \in Row,
           row.attempts_failed = obj[c].seen.attempts_failed,
           coh' = Flush(obj[c].seen, Charged(row))
    PROVE  Charging
<1>1. /\ row.attempts_failed \in Nat /\ MaxAttempts \in Nat \ {0}
      /\ coh.attempts_failed \in Nat /\ coh \in Row /\ obj[c].seen \in Row
  BY Constants, UnderWay DEF IInv, RowInv, Row
<1> DEFINE n == IF Exhausted(row) THEN row.attempts_failed ELSE row.attempts_failed + 1
<1>2. Charged(row).attempts_failed = n
  BY DEF Charged, Row
<1>3. coh'.attempts_failed = IF n = row.attempts_failed THEN coh.attempts_failed ELSE n
  BY <1>1, <1>2 DEF Flush, Row
<1>4. CASE Exhausted(row)
  BY <1>1, <1>3, <1>4 DEF Exhausted, Blamed, Charging
<1>5. CASE ~Exhausted(row)
  BY <1>1, <1>3, <1>5 DEF Charging
<1> QED BY <1>4, <1>5

\* The row keeps its count, and the phases get no failure.
Spared(state) ==
    /\ coh'.attempts_failed = coh.attempts_failed
    /\ coh'.state \in {coh.state, state}
    /\ \A i \in Steps : phase'[i] = "failed" => phase[i] = "failed"

LEMMA FlushSpares ==
    ASSUME IInv, NEW old \in Row, NEW s \in CoHStates, coh' = Flush(old, [old EXCEPT !.state = s])
    PROVE  coh'.attempts_failed = coh.attempts_failed /\ coh'.state \in {coh.state, s}
BY DEF IInv, RowInv, Row, Flush

LEMMA FlushPhaseSpares ==
    ASSUME IInv, NEW i, NEW old, NEW new \in {"ready", "running", "done"},
           phase' = FlushPhase(i, old, new) \/ phase' = [phase EXCEPT ![i] = new]
    PROVE  \A j \in Steps : phase'[j] = "failed" => phase[j] = "failed"
BY DEF IInv, RestInv, FlushPhase

LEMMA EndSpares ==
    ASSUME IInv, NEW c \in Circuits, NEW self \in Object, NEW pc \in PC,
           Walk(c, self) \/ Settle(c, self, pc) \/ Release(c, self),
           self.seen.attempts_failed \in {coh.attempts_failed, obj[c].seen.attempts_failed},
           NEW state, Spared(state),
           state = "failed" => coh.attempts_failed > 0 \/ AnyFailed
                               \/ \E d \in Circuits : obj[d].seen.attempts_failed > 0
    PROVE  Sparing
<1>1. Copies(self)
  BY SeenAfter DEF IInv, ObjInv
<1>2. FirstRow.attempts_failed = 0
  BY DEF FirstRow
<1>3. AnyFailed => \E i \in Steps : phase[i] = "failed"
  BY DEF AnyFailed
<1> QED BY <1>1, <1>2, <1>3 DEF Sparing, Spared, Copies

\* GiveUp, FailPhase and NextPhase, in the words of the two lemmas above.
LEMMA GiveUpSpares ==
    ASSUME IInv, NEW c \in Circuits, NEW self \in Object,
           self.seen = obj[c].seen, GiveUp(c, self), phase' = phase
    PROVE  Sparing
<1>1. Spared("stopped")
  BY DEF GiveUp, Spared, IInv, RowInv, Row
<1>2. Settle(c, self, "out") \/ Release(c, self)
  BY DEF GiveUp
<1> QED BY <1>1, <1>2, EndSpares DEF PC

LEMMA NextPhaseSpares ==
    ASSUME IInv, NEW c \in Circuits, NextPhase(c), NEW state \in CoHStates \ {"failed"},
           Spared(state)
    PROVE  Sparing
<1>1. CASE obj[c].todo = {}
  BY <1>1, EndSpares, UnderWay DEF NextPhase, IInv, PC
<1>2. CASE obj[c].todo # {}
  <2>1. PICK i \in obj[c].todo :
          Walk(c, [obj[c] EXCEPT !.step = i, !.todo = @ \ {i},
                                 !.seen = coh, !.kept = phase[i]])
    BY <1>2 DEF NextPhase
  <2> DEFINE o == [obj[c] EXCEPT !.step = i, !.todo = @ \ {i},
                                 !.seen = coh, !.kept = phase[i]]
  <2>2. obj[c] \in Object /\ i \in Steps /\ phase[i] \in PhaseStates /\ coh \in Row
    BY UnderWay DEF Object, IInv, RestInv, RowInv
  <2>3. o \in Object /\ o.seen = coh
    BY <2>2 DEF Object
  <2>4. Walk(c, o)
    BY <2>1
  <2> HIDE DEF o
  <2> QED BY <2>3, <2>4, EndSpares DEF PC
<1> QED BY <1>1, <1>2

LEMMA FailPhaseCharges ==
    ASSUME IInv, Blamed, NEW c \in Circuits, NEW row \in Row,
           row.attempts_failed = obj[c].seen.attempts_failed, FailPhase(c, row)
    PROVE  Charging
BY ChargedCounts DEF FailPhase

LEMMA WalkBlames ==
    ASSUME IInv, Blamed, NEW c \in Circuits, Step(c)
    PROVE  Charging \/ Sparing
<1> DEFINE seen == obj[c].seen
<1>1. /\ Walking(c) /\ obj[c] \in Object /\ seen \in Row /\ MaxAttempts \in Nat \ {0}
      /\ UNCHANGED <<lapsed, order, results, calls, ops, faults>>
      /\ coh.attempts_failed \in Nat /\ seen.attempts_failed \in Nat
  <2>1. Walking(c) /\ UNCHANGED <<lapsed, order, results, calls, ops, faults>>
    BY DEF Step, Skip, Advance, StopSeen, ForcedFinish, OverTimed, OutOfAttempts, Perform,
           PerformWithoutHost, PerformWOL, PerformWUParse, PerformDone, Finished, Stopped,
           TooLate, GivenUp, ToPerform, InTime, General
  <2> QED BY <2>1, UnderWay, Constants DEF IInv, RowInv, Row
<1>2. CASE Skip(c)
  <2>1. coh' \in {coh, Flush(seen, [seen EXCEPT !.state = "scheduled"])}
    BY <1>2 DEF Skip
  <2>2. \A j \in Steps : phase'[j] = "failed" => phase[j] = "failed"
    BY <1>2, FlushPhaseSpares DEF Skip
  <2>3. Spared("scheduled")
    BY <1>1, <2>1, <2>2, FlushSpares DEF Spared, CoHStates
  <2> QED BY <1>2, <2>3, NextPhaseSpares DEF Skip, CoHStates
<1>3. CASE Advance(c) \/ ForcedFinish(c)
  <2>1. Spared("scheduled") /\ NextPhase(c)
    BY <1>3 DEF Advance, ForcedFinish, Spared
  <2> QED BY <2>1, NextPhaseSpares DEF CoHStates
<1>4. CASE StopSeen(c)
  <2>1. Spared("stopped") /\ Release(c, obj[c])
    BY <1>4 DEF StopSeen, Spared, IInv, RowInv, Row
  <2> QED BY <1>1, <2>1, EndSpares DEF PC
<1>5. CASE OverTimed(c)
  <2>1. /\ coh' = [coh EXCEPT !.state =
                 IF AnyFailed \/ seen.attempts_failed > 0 THEN "failed" ELSE "over_timed"]
        /\ Release(c, obj[c]) /\ phase' = phase
    BY <1>5 DEF OverTimed
  <2>2. CASE AnyFailed \/ seen.attempts_failed > 0
    <3>1. Spared("failed")
      BY <2>1, <2>2 DEF Spared, IInv, RowInv, Row
    <3> QED BY <1>1, <2>1, <2>2, <3>1, EndSpares DEF PC
  <2>3. CASE ~(AnyFailed \/ seen.attempts_failed > 0)
    <3>1. Spared("over_timed")
      BY <2>1, <2>3 DEF Spared, IInv, RowInv, Row
    <3> QED BY <1>1, <2>1, <3>1, EndSpares DEF PC
  <2> QED BY <2>2, <2>3
<1>6. CASE OutOfAttempts(c)
  <2>1. /\ coh' = Flush(seen, [seen EXCEPT !.state = "failed"])
        /\ Release(c, obj[c]) /\ phase' = phase /\ seen.attempts_failed >= MaxAttempts
    BY <1>6 DEF OutOfAttempts, GivenUp, Exhausted
  <2>2. Spared("failed")
    BY <1>1, <2>1, FlushSpares DEF Spared, CoHStates
  <2>3. seen.attempts_failed > 0
    BY <1>1, <2>1
  <2> QED BY <1>1, <2>1, <2>2, <2>3, EndSpares DEF PC
<1>7. CASE Perform(c) \/ PerformWOL(c)
  <2> DEFINE o == [obj[c] EXCEPT !.kept = "running"]
  <2>1. /\ coh' = coh /\ phase' = FlushPhase(obj[c].step, obj[c].kept, "running")
        /\ Settle(c, o, "asked") \/ Settle(c, o, "wol")
    BY <1>7 DEF Perform, PerformWOL
  <2>2. o \in Object /\ o.seen = seen
    BY <1>1 DEF Object, PhaseStates
  <2> HIDE DEF o
  <2>3. Spared("scheduled")
    BY <2>1, FlushPhaseSpares DEF Spared
  <2> QED BY <2>1, <2>2, <2>3, EndSpares DEF PC
<1>8. CASE PerformWithoutHost(c)
  BY <1>1, <1>8, ChargedCounts DEF PerformWithoutHost
<1>9. CASE PerformWUParse(c)
  <2>1. CASE coh' = Flush(seen, Charged(seen))
    BY <1>1, <2>1, ChargedCounts
  <2>2. CASE coh' # Flush(seen, Charged(seen))
    <3> DEFINE o == [obj[c] EXCEPT !.kept = "done"]
    <3>1. coh' = coh /\ Walk(c, o) /\ phase' = [phase EXCEPT ![obj[c].step] = "done"]
      BY <1>9, <2>2 DEF PerformWUParse
    <3>2. o \in Object /\ o.seen = seen
      BY <1>1 DEF Object, PhaseStates
    <3> HIDE DEF o
    <3>3. Spared("scheduled")
      BY <3>1, FlushPhaseSpares DEF Spared
    <3> QED BY <3>1, <3>2, <3>3, EndSpares DEF PC
  <2> QED BY <2>1, <2>2
<1>10. CASE PerformDone(c)
  <2> DEFINE o == [obj[c] EXCEPT !.seen.state = "done", !.kept = "done"]
  <2>1. /\ coh' = Flush(seen, [seen EXCEPT !.state = "done"])
        /\ Release(c, obj[c]) \/ Walk(c, o)
        /\ phase' = [phase EXCEPT ![obj[c].step] = "done"]
    BY <1>10 DEF PerformDone
  <2>2. Spared("done")
    BY <1>1, <2>1, FlushSpares, FlushPhaseSpares DEF Spared, CoHStates
  <2>3. o \in Object /\ o.seen.attempts_failed = seen.attempts_failed
    BY <1>1 DEF Object, Row, CoHStates, PhaseStates
  <2> HIDE DEF o
  <2> QED BY <1>1, <2>1, <2>2, <2>3, EndSpares DEF PC
<1> QED BY <1>2, <1>3, <1>4, <1>5, <1>6, <1>7, <1>8, <1>9, <1>10 DEF Step

LEMMA AnswerBlames ==
    ASSUME IInv, Blamed, NEW c \in Circuits, Answer(c)
    PROVE  Charging \/ Sparing
<1> DEFINE seen == obj[c].seen
           next == [seen EXCEPT !.state = "scheduled"]
<1>1. /\ obj[c] \in Object /\ seen \in Row
      /\ next \in Row /\ next.attempts_failed = seen.attempts_failed
  BY UnderWay DEF IInv, Row, CoHStates
<1>2. CASE OrderTaken(c)
  BY <1>1, <1>2, GiveUpSpares DEF OrderTaken
<1>3. CASE OrderRefused(c)
  <2>1. CASE seen.state = "stopped"
    BY <1>1, <1>3, <2>1, GiveUpSpares DEF OrderRefused
  <2>2. CASE seen.state # "stopped"
    <3>1. FailPhase(c, next)
      BY <1>3, <2>2 DEF OrderRefused
    <3> QED BY <1>1, <3>1, FailPhaseCharges
  <2> QED BY <2>1, <2>2
<1>4. CASE CallFailed(c) \/ WOLFailed(c)
  BY <1>1, <1>4, FailPhaseCharges DEF CallFailed, WOLFailed
<1>5. CASE WOLUseless(c)
  <2> DEFINE row == IF seen.state = "stopped" THEN seen ELSE next
             o == [obj[c] EXCEPT !.seen = row, !.kept = "done"]
  <2>1. /\ coh' = Flush(seen, row) /\ Walk(c, o)
        /\ phase' = FlushPhase(obj[c].step, obj[c].kept, "done")
    BY <1>5 DEF WOLUseless
  <2>2. o \in Object /\ o.seen = row /\ row.attempts_failed = seen.attempts_failed
    BY <1>1 DEF Object, PhaseStates
  <2>3. row = [seen EXCEPT !.state = seen.state] \/ row = next
    BY <1>1 DEF Row
  <2> HIDE DEF o, row
  <2>4. \E s \in {seen.state, "scheduled"} : row = [seen EXCEPT !.state = s]
    BY <2>3
  <2>5. coh'.attempts_failed = coh.attempts_failed
        /\ coh'.state \in {coh.state, seen.state, "scheduled"}
    BY <1>1, <2>1, <2>4, FlushSpares DEF Row, CoHStates
  <2>6. coh'.state \in {coh.state, "scheduled"}
    BY <1>1, <2>1, <2>3 DEF Flush, Row, IInv, RowInv
  <2>7. Spared("scheduled")
    BY <2>1, <2>5, <2>6, FlushPhaseSpares DEF Spared
  <2> QED BY <2>1, <2>2, <2>7, EndSpares DEF PC
<1>6. CASE WOLSlept(c)
  <2> DEFINE o == [obj[c] EXCEPT !.kept = "done"]
  <2>1. coh' = coh /\ Walk(c, o) /\ phase' = FlushPhase(obj[c].step, obj[c].kept, "done")
    BY <1>6 DEF WOLSlept
  <2>2. o \in Object /\ o.seen = seen
    BY <1>1 DEF Object, PhaseStates
  <2> HIDE DEF o
  <2>3. Spared("scheduled")
    BY <2>1, FlushPhaseSpares DEF Spared
  <2> QED BY <2>1, <2>2, <2>3, EndSpares DEF PC
<1>7. CASE WOLUnanswered(c)
  <2>1. CASE seen.state = "stopped"
    BY <1>1, <1>7, <2>1, GiveUpSpares DEF WOLUnanswered
  <2>2. CASE seen.state # "stopped"
    <3> DEFINE o == [obj[c] EXCEPT !.seen = next, !.kept = "ready"]
    <3>1. /\ coh' = Flush(seen, next) /\ Settle(c, o, "out")
          /\ phase' = FlushPhase(obj[c].step, obj[c].kept, "ready")
      BY <1>7, <2>2 DEF WOLUnanswered
    <3>2. o \in Object /\ o.seen = next
      BY <1>1 DEF Object, PhaseStates
    <3> HIDE DEF o
    <3>3. Spared("scheduled")
      BY <1>1, <3>1, FlushSpares, FlushPhaseSpares DEF Spared, CoHStates
    <3> QED BY <1>1, <3>1, <3>2, <3>3, EndSpares DEF PC
  <2> QED BY <2>1, <2>2
<1> QED BY <1>2, <1>3, <1>4, <1>5, <1>6, <1>7 DEF Answer

LEMMA ParseBlames ==
    ASSUME IInv, Blamed, NEW c \in Circuits, NEW result, Parse(c, result)
    PROVE  Charging \/ Sparing
<1> DEFINE seen == obj[c].seen
           o == [obj[c] EXCEPT !.result = "none"]
           d == [obj[c] EXCEPT !.kept = "done", !.result = "none"]
<1>1. /\ obj[c] \in Object /\ seen \in Row
      /\ o \in Object /\ o.seen = seen /\ o.step = obj[c].step
      /\ d \in Object /\ d.seen = seen /\ d = [o EXCEPT !.kept = "done"]
  BY UnderWay DEF IInv, Object, PhaseStates
<1>2. CASE ParseSuccess(c)
  <2>1. \/ Release(c, o) /\ UNCHANGED <<coh, phase>>
        \/ Walk(c, d) /\ phase' = [phase EXCEPT ![obj[c].step] = "done"] /\ UNCHANGED coh
        \/ GiveUp(c, o) /\ UNCHANGED phase
    BY <1>1, <1>2 DEF ParseSuccess
  <2> HIDE DEF o, d
  <2>2. CASE GiveUp(c, o) /\ UNCHANGED phase
    BY <1>1, <2>2, GiveUpSpares
  <2>3. CASE ~(GiveUp(c, o) /\ UNCHANGED phase)
    <3>1. Spared("scheduled")
      BY <2>1, <2>3, FlushPhaseSpares DEF Spared
    <3> QED BY <1>1, <2>1, <2>3, <3>1, EndSpares DEF PC
  <2> QED BY <2>2, <2>3
<1>3. CASE ParseFailure(c) /\ Name(c) \in NonFatal \ {"upload"}
  <2>1. /\ Walk(c, d) /\ UNCHANGED coh
        /\ phase' = FlushPhase(obj[c].step, obj[c].kept, "done")
    BY <1>3 DEF ParseFailure
  <2> HIDE DEF d
  <2>2. Spared("scheduled")
    BY <2>1, FlushPhaseSpares DEF Spared
  <2> QED BY <1>1, <2>1, <2>2, EndSpares DEF PC
<1>4. CASE ParseFailure(c) /\ Name(c) \notin NonFatal \ {"upload"}
  BY <1>1, <1>4, FailPhaseCharges DEF ParseFailure
<1> QED BY <1>2, <1>3, <1>4 DEF Parse

LEMMA OutsideBlames ==
    ASSUME IInv, NEW c \in Circuits, NEW step, NEW result \in {"ok", "ko"},
           ResultOutside(c, step, result)
    PROVE  Sparing
<1> DEFINE self == [Unused EXCEPT !.seen = coh, !.thread = TRUE, !.recurrent = TRUE,
                                  !.result = result, !.of = step]
<1>1. coh \in Row /\ phase' = phase /\ step \in Steps
  BY DEF IInv, RowInv, RestInv, ResultOutside
<1>2. CASE Undone = {}
  BY <1>1, <1>2 DEF ResultOutside, Sparing, Row
<1>3. CASE Undone # {}
  <2>1. PICK i \in Undone :
          Walk(c, [self EXCEPT !.step = i, !.todo = Undone \ {i}, !.kept = phase[i]])
    BY <1>3 DEF ResultOutside
  <2> DEFINE o == [self EXCEPT !.step = i, !.todo = Undone \ {i}, !.kept = phase[i]]
  <2>2. i \in Steps /\ phase[i] \in PhaseStates /\ Undone \in SUBSET Steps
    BY DEF Undone, IInv, RestInv
  <2>3. o \in Object /\ o.seen = coh
    BY <1>1, <2>2 DEF Object, Unused, PC
  <2>4. Walk(c, o)
    BY <2>1
  <2> HIDE DEF o
  <2>5. coh' = coh
    BY <1>3 DEF ResultOutside
  <2>6. Spared("scheduled")
    BY <1>1, <2>5 DEF Spared
  <2> QED BY <2>3, <2>4, <2>6, EndSpares DEF PC
<1> QED BY <1>2, <1>3

LEMMA DispatchBlames ==
    ASSUME IInv, NEW c \in Circuits, Select(c) \/ Run(c) \/ RemoveExpired(c)
    PROVE  Sparing
<1>1. obj[c] \in Object /\ obj[c].seen \in Row /\ coh \in Row /\ phase' = phase
  BY UnderWay DEF IInv, RowInv, Select, Run, RemoveExpired
<1>2. CASE Select(c)
  <2>1. \E pc \in {"queued", "waiting"} :
          obj' = [obj EXCEPT ![c] = [Unused EXCEPT !.pc = pc, !.todo = Undone, !.seen = coh]]
    BY <1>2 DEF Select
  <2>2. \A d \in Circuits : obj'[d].seen \in {obj[d].seen, coh}
    BY <2>1 DEF Unused, IInv, ObjInv
  <2>3. coh' = coh
    BY <1>2 DEF Select
  <2> QED BY <1>1, <2>2, <2>3 DEF Sparing
<1>3. CASE Run(c)
  <2> DEFINE self == [obj[c] EXCEPT !.thread = obj[c].pc = "queued"]
  <2>1. self \in Object /\ self.seen = obj[c].seen /\ self.todo = obj[c].todo
    BY <1>1 DEF Object
  <2> HIDE DEF self
  <2>2. CASE self.todo = {}
    <3>1. coh' = Flush(self.seen, [self.seen EXCEPT !.state = "done"]) /\ Release(c, self)
      BY <1>3, <2>2 DEF Run, self
    <3>2. Spared("done")
      BY <1>1, <2>1, <3>1, FlushSpares DEF Spared, CoHStates
    <3> QED BY <2>1, <3>1, <3>2, EndSpares DEF PC
  <2>3. CASE self.todo # {}
    <3>1. PICK i \in self.todo :
            Walk(c, [self EXCEPT !.step = i, !.todo = @ \ {i}, !.kept = phase[i]])
      BY <1>3, <2>3 DEF Run, self
    <3> DEFINE o == [self EXCEPT !.step = i, !.todo = @ \ {i}, !.kept = phase[i]]
    <3>2. i \in Steps /\ phase[i] \in PhaseStates
      BY <2>1 DEF Object, IInv, RestInv
    <3>3. o \in Object /\ o.seen = self.seen
      BY <2>1, <3>2 DEF Object
    <3>4. Walk(c, o) /\ coh' = coh
      BY <1>3, <2>3, <3>1 DEF Run, self
    <3> HIDE DEF o
    <3>5. Spared("scheduled")
      BY <1>1, <3>4 DEF Spared
    <3> QED BY <2>1, <3>3, <3>4, <3>5, EndSpares DEF PC
  <2> QED BY <2>2, <2>3
<1>4. CASE RemoveExpired(c)
  <2>1. (Release(c, obj[c]) \/ obj' = obj) /\ coh' = coh
    BY <1>4 DEF RemoveExpired
  <2>2. Spared("scheduled")
    BY <1>1, <2>1 DEF Spared
  <2>3. obj' = obj => Sparing
    BY <1>1, <2>1 DEF Sparing
  <2> QED BY <1>1, <2>1, <2>2, <2>3, EndSpares DEF PC
<1> QED BY <1>2, <1>3, <1>4

\* Steps that touch no circuit, or only forget some.
LEMMA RestBlames ==
    ASSUME IInv, MaxOps = 0,
           \/ ProcessEnded \/ SendFailed \/ Resend \/ LoseResult \/ ProcessNonValid
           \/ AgentStop \/ AgentStart \/ AgentExtend
           \/ HandleStop \/ HandleStart \/ LoseCall
           \/ Lapse \/ SchedulerRestart \/ LauncherRestart
    PROVE  Sparing
<1>1. coh \in Row /\ ops \in Nat /\ Unused.seen.attempts_failed = 0
      /\ \A d \in Circuits : Dropped(obj[d]).seen \in {obj[d].seen, Unused.seen}
  BY DEF IInv, RowInv, RestInv, Unused, FirstRow, Dropped
<1>2. phase' = phase
  BY <1>1 DEF ProcessEnded, SendFailed, Resend, LoseResult, ProcessNonValid, AgentStop,
         AgentStart, AgentExtend, HandleStop, HandleStart, LoseCall, Lapse,
         SchedulerRestart, LauncherRestart
<1>3. \A d \in Circuits : obj'[d].seen \in {obj[d].seen, Unused.seen}
  <2>1. CASE HandleStop
    BY <1>1, <2>1 DEF HandleStop
  <2>2. CASE SchedulerRestart
    BY <2>2 DEF SchedulerRestart
  <2>3. CASE ~HandleStop /\ ~SchedulerRestart
    <3>1. obj' = obj
      BY <2>3 DEF ProcessEnded, SendFailed, Resend, LoseResult, ProcessNonValid, AgentStop,
           AgentStart, AgentExtend, HandleStart, LoseCall, Lapse, LauncherRestart
    <3> QED BY <3>1
  <2> QED BY <2>1, <2>2, <2>3
<1>4. CASE ProcessNonValid
  <2>1. coh' = [coh EXCEPT !.state = IF AnyFailed \/ coh.attempts_failed > 0
                                     THEN "failed" ELSE "over_timed"]
    BY <1>4 DEF ProcessNonValid
  <2>2. coh'.attempts_failed = coh.attempts_failed
    BY <1>1, <2>1 DEF Row
  <2>3. coh'.state = "failed" => AnyFailed \/ coh.attempts_failed > 0
    BY <1>1, <2>1 DEF Row
  <2> QED BY <1>1, <1>2, <1>3, <2>2, <2>3 DEF Sparing, AnyFailed
<1>5. CASE ~ProcessNonValid
  <2>1. /\ ~AgentStop /\ ~AgentStart /\ ~AgentExtend
    BY <1>1 DEF AgentStop, AgentStart, AgentExtend
  <2>2. coh' = coh \/ HandleStart
    BY <1>5, <2>1 DEF ProcessEnded, SendFailed, Resend, LoseResult,
           HandleStop, LoseCall, Lapse, SchedulerRestart, LauncherRestart
  <2>3. coh'.attempts_failed = coh.attempts_failed /\ coh'.state \in {coh.state, "scheduled"}
    BY <1>1, <2>2 DEF HandleStart, Row
  <2> QED BY <1>1, <1>2, <1>3, <2>3 DEF Sparing
<1> QED BY <1>4, <1>5

LEMMA NextBlamed == ASSUME MaxOps = 0, IInv, Blamed, [Next]_vars PROVE Blamed'
<1>1. CASE UNCHANGED vars
  BY <1>1 DEF vars, Blamed
<1>2. ASSUME NEW c \in Circuits, Select(c) \/ Run(c) \/ RemoveExpired(c) PROVE Sparing
  BY <1>2, DispatchBlames
<1>3. ASSUME NEW c \in Circuits, Step(c) PROVE Charging \/ Sparing
  BY <1>3, WalkBlames
<1>4. ASSUME NEW c \in Circuits, Answer(c) PROVE Charging \/ Sparing
  BY <1>4, AnswerBlames
<1>5. ASSUME NEW c \in Circuits, Handle(c) PROVE Charging \/ Sparing
  <2>1. CASE \E step \in results : ResultRejected(c, step)
    BY <2>1 DEF ResultRejected, Sparing
  <2>2. CASE \E step \in results, result \in {"ok", "ko"} : Result(c, step, result)
    BY <2>2, ParseBlames DEF Result
  <2>3. CASE \E step \in results, result \in {"ok", "ko"} : ResultOutside(c, step, result)
    BY <2>3, OutsideBlames
  <2> QED BY <1>5, <2>1, <2>2, <2>3 DEF Handle
<1>6. ASSUME NEW c \in Circuits, ParseOutside(c) PROVE Charging \/ Sparing
  <2>1. CASE obj[c].step = obj[c].of
    BY <1>6, <2>1, ParseBlames DEF ParseOutside
  <2>2. CASE obj[c].step # obj[c].of
    <3>1. obj' = [obj EXCEPT ![c] = Unused] /\ UNCHANGED <<coh, phase>>
      BY <1>6, <2>2 DEF ParseOutside
    <3>2. Unused.seen.attempts_failed = 0
      BY DEF Unused, FirstRow
    <3>3. \A d \in Circuits : obj'[d] \in {obj[d], Unused}
      BY <3>1 DEF IInv, ObjInv
    <3> QED BY <3>1, <3>2, <3>3 DEF Sparing
  <2> QED BY <2>1, <2>2
<1>7. CASE \/ ProcessEnded \/ SendFailed \/ Resend \/ LoseResult \/ ProcessNonValid
           \/ AgentStop \/ AgentStart \/ AgentExtend
           \/ HandleStop \/ HandleStart \/ LoseCall
           \/ Lapse \/ SchedulerRestart \/ LauncherRestart
  BY <1>7, RestBlames, BlamedStays
<1> QED BY <1>1, <1>2, <1>3, <1>4, <1>5, <1>6, <1>7, BlamedStays DEF Next

\* Without the agent, and whatever restarts, is lost or comes late: a CoH that
\* has failed (scheduler/checks.py, phases and types.py write it) was charged an
\* attempt or has a failed phase.
THEOREM FailuresDeserved == ASSUME MaxOps = 0 PROVE Spec => []FailedDeserved
<1>1. Init => Blamed
  BY DEF Init, Blamed, Unused, FirstRow
<1>2. IInv /\ Blamed /\ [Next]_vars => Blamed'
  BY NextBlamed
<1>3. Blamed => FailedDeserved
  BY DEF Blamed, FailedDeserved
<1> QED BY <1>1, <1>2, <1>3, Invariance, PTL DEF Spec

-----------------------------------------------------------------------------
(* Two circuits never lead the same CoH, as long as nobody stops it.        *)

Used(c)    == obj[c].pc # "unused"
Leading(c) == Used(c) /\ ~obj[c].recurrent

\* One circuit leads at most, and the container has it as soon as it is neither
\* with the starter nor in its thread.
Led ==
    /\ \A c, d \in Circuits : Leading(c) /\ Leading(d) => c = d
    /\ \A c \in Circuits : Leading(c) /\ obj[c].pc # "queued" /\ ~obj[c].thread
                              => c \in Members(container)
    /\ calls = {}

\* How a step of c leaves the circuits, self being what it makes of c.
Moved(c, self) ==
    \/ Walk(c, self)
    \/ Release(c, self)
    \/ \E pc \in {"asked", "wol", "out"} :
          Settle(c, self, pc) /\ (self.recurrent => pc = "out" /\ ~self.thread)

Moves(c) ==
    \E self \in Object : /\ Moved(c, self)
                         /\ self.thread = obj[c].thread
                         /\ self.recurrent = obj[c].recurrent

\* The container holds the leading circuit, or nothing.
LEMMA HoldsLeader ==
    ASSUME IInv, Led, NEW c \in Circuits, Leading(c)
    PROVE  /\ Members(container) \subseteq {c}
           /\ c \notin Members(container) => container = <<>>
           /\ container # <<>> => container = <<c>> /\ Tail(container) = <<>>
<1>1. \A d \in Members(container) : d \in Circuits /\ Leading(d)
  BY DEF IInv, ObjInv, Members, Place, Leading, Used
<1>2. Members(container) \subseteq {c}
  BY <1>1 DEF Led
<1>3. container \in Seq(Circuits) /\ Once(container) /\ DOMAIN container = 1..Len(container)
  BY DEF IInv, ObjInv
<1>4. CASE container # <<>>
  <2>1. Len(container) \in Nat /\ Len(container) > 0
    BY <1>3, <1>4
  <2>2. \A n \in 1..Len(container) : container[n] = c
    BY <1>2, <1>3 DEF Members
  <2>3. Len(container) = 1
    <3>1. Len(container) > 1 => 1 \in DOMAIN container /\ 2 \in DOMAIN container
      BY <1>3, <2>1
    <3>2. Len(container) > 1 => container[1] = c /\ container[2] = c
      BY <1>3, <2>2, <3>1
    <3> QED BY <2>1, <3>1, <3>2, <1>3 DEF Once
  <2>4. container[1] = c
    BY <2>2, <2>3
  <2>5. container = <<c>>
    BY <1>3, <2>3, <2>4
  <2>6. Tail(container) = <<>>
    BY <2>5
  <2>7. c \in Members(container)
    BY <1>3, <2>3, <2>4 DEF Members
  <2> QED BY <1>2, <2>5, <2>6, <2>7
<1> QED BY <1>2, <1>4

LEMMA OthersStay ==
    ASSUME IInv, Led, NEW c \in Circuits, NEW self \in Object, Moved(c, self),
           ~self.recurrent => Leading(c)
    PROVE  \A d \in Circuits \ {c} : obj'[d] = obj[d]
<1>1. CASE Walk(c, self)
  BY <1>1 DEF Walk, IInv, ObjInv
<1>2. CASE \E pc \in {"asked", "wol", "out"} : Settle(c, self, pc)
  BY <1>2 DEF Settle, IInv, ObjInv
<1>3. CASE Release(c, self)
  <2>1. Members(container) \ Members(container') \subseteq {c}
    <3>1. CASE self.recurrent
      BY <1>3, <3>1 DEF Release
    <3>2. CASE ~self.recurrent
      BY <3>2, HoldsLeader
    <3> QED BY <3>1, <3>2
  <2>2. \A d \in Circuits \ {c} : d \notin Members(container) \ Members(container')
    BY <2>1
  <2>3. \A d \in Circuits \ {c} :
          obj'[d] = IF d \in Members(container) \ Members(container')
                    THEN Dropped(obj[d]) ELSE obj[d]
    BY <1>3 DEF Release
  <2> QED BY <2>2, <2>3
<1> QED BY <1>1, <1>2, <1>3 DEF Moved

LEMMA LeaderPlaced ==
    ASSUME IInv, Led, NEW c \in Circuits, NEW self \in Object, Moved(c, self),
           self.thread \/ self.recurrent \/ c \in Members(container),
           self.thread \/ self.recurrent => c \notin Members(container),
           ~self.recurrent => Leading(c), calls' = calls
    PROVE  Led'
<1>1. \A d \in Circuits \ {c} : obj'[d] = obj[d]
  BY OthersStay
<1>2. obj \in [Circuits -> Object] /\ container \in Seq(Circuits) /\ Once(container)
  BY DEF IInv, ObjInv
<1>3. Unused.pc = "unused"
  BY DEF Unused
<1>4. CASE self.recurrent
  <2>1. container' = container
    BY <1>4 DEF Moved, Walk, Settle, Release
  <2>2. obj'[c].recurrent \/ obj'[c].pc = "unused"
    <3>1. CASE Walk(c, self)
      BY <1>2, <1>4, <3>1 DEF Walk, Object
    <3>2. CASE \E pc \in {"asked", "wol", "out"} : Settle(c, self, pc)
      BY <1>2, <1>3, <1>4, <3>2 DEF Settle, Object
    <3>3. CASE Release(c, self)
      <4>1. obj'[c] \in {[self EXCEPT !.pc = "parse", !.thread = FALSE],
                         [self EXCEPT !.pc = "released", !.thread = FALSE], Unused}
        BY <3>3 DEF Release
      <4> QED BY <1>3, <1>4, <4>1 DEF Object
    <3> QED BY <3>1, <3>2, <3>3 DEF Moved
  <2> QED BY <1>1, <2>1, <2>2 DEF Led, Leading, Used
<1>5. CASE ~self.recurrent
  <2>1. \A d \in Circuits \ {c} : ~Leading(d)'
    BY <1>1, <1>5 DEF Led, Leading, Used
  <2>2. obj'[c].thread \/ c \in Members(container') \/ obj'[c].pc = "unused"
    <3>1. CASE Walk(c, self)
      BY <1>2, <3>1, <1>5 DEF Walk, Object
    <3>2. CASE \E pc \in {"asked", "wol", "out"} : Settle(c, self, pc)
      <4>1. CASE self.thread
        BY <1>2, <1>5, <3>2, <4>1, AppendMembers DEF Settle
      <4>2. CASE ~self.thread
        BY <1>5, <3>2, <4>2 DEF Settle
      <4> QED BY <4>1, <4>2
    <3>3. CASE Release(c, self)
      BY <1>3, <1>5, <3>3 DEF Release
    <3> QED BY <3>1, <3>2, <3>3 DEF Moved
  <2> QED BY <2>1, <2>2 DEF Led, Leading, Used
<1> QED BY <1>4, <1>5

LEMMA MovesLed ==
    ASSUME IInv, Led, NEW c \in Circuits, Moves(c), calls' = calls,
           obj[c].pc \in {"walk", "asked", "wol", "out", "released", "parse"}
    PROVE  Led'
<1>1. PICK self \in Object : /\ Moved(c, self)
                             /\ self.thread = obj[c].thread
                             /\ self.recurrent = obj[c].recurrent
  BY DEF Moves
<1>2. Able(c, obj[c]) /\ (~obj[c].recurrent => Leading(c))
  BY UnderWay DEF IInv, Leading, Used
<1>3. ~obj[c].recurrent /\ ~obj[c].thread => c \in Members(container)
  BY <1>2 DEF Led
<1> QED BY <1>1, <1>2, <1>3, LeaderPlaced DEF Able

LEMMA GiveUpMoves ==
    ASSUME NEW c \in Circuits, NEW self \in Object, GiveUp(c, self),
           self.thread = obj[c].thread, self.recurrent = obj[c].recurrent,
           self.recurrent => ~self.thread
    PROVE  Moves(c)
BY DEF GiveUp, Moves, Moved

LEMMA FailPhaseMoves ==
    ASSUME IInv, NEW c \in Circuits, NEW row \in Row, row.attempts_failed <= MaxAttempts,
           FailPhase(c, row)
    PROVE  Moves(c)
<1> DEFINE k == IF obj[c].kept = "running" THEN "failed" ELSE obj[c].kept
           o == [obj[c] EXCEPT !.seen = Charged(row), !.kept = k, !.result = "none"]
<1>1. obj[c] \in Object /\ Charged(row) \in Row
  BY ChargedRow, UnderWay DEF IInv
<1>2. o \in Object /\ o.thread = obj[c].thread /\ o.recurrent = obj[c].recurrent
  BY <1>1 DEF Object, PhaseStates
<1>3. Release(c, o)
  BY DEF FailPhase
<1> HIDE DEF o
<1> QED BY <1>2, <1>3 DEF Moves, Moved

LEMMA NextPhaseMoves ==
    ASSUME IInv, NEW c \in Circuits, NextPhase(c)
    PROVE  Moves(c)
<1>1. obj[c] \in Object /\ coh \in Row /\ phase \in [Steps -> PhaseStates]
  BY UnderWay DEF IInv, RowInv, RestInv
<1>2. CASE obj[c].todo = {}
  BY <1>1, <1>2 DEF NextPhase, Moves, Moved
<1>3. CASE obj[c].todo # {}
  <2>1. PICK i \in obj[c].todo :
          Walk(c, [obj[c] EXCEPT !.step = i, !.todo = @ \ {i},
                                 !.seen = coh, !.kept = phase[i]])
    BY <1>3 DEF NextPhase
  <2> DEFINE o == [obj[c] EXCEPT !.step = i, !.todo = @ \ {i},
                                 !.seen = coh, !.kept = phase[i]]
  <2>2. o \in Object /\ o.thread = obj[c].thread /\ o.recurrent = obj[c].recurrent
    BY <1>1 DEF Object
  <2>3. Walk(c, o)
    BY <2>1
  <2> HIDE DEF o
  <2> QED BY <2>2, <2>3 DEF Moves, Moved
<1> QED BY <1>2, <1>3

LEMMA StepMoves ==
    ASSUME IInv, NEW c \in Circuits, Step(c)
    PROVE  Moves(c) /\ Walking(c) /\ calls' = calls
<1>1. Walking(c) /\ calls' = calls
  BY DEF Step, Skip, Advance, StopSeen, ForcedFinish, OverTimed, OutOfAttempts, Perform,
         PerformWithoutHost, PerformWOL, PerformWUParse, PerformDone, Finished, Stopped,
         TooLate, GivenUp, ToPerform, InTime, General
<1> SUFFICES Moves(c)
  BY <1>1
<1>2. obj[c] \in Object /\ obj[c].seen \in Row /\ obj[c].seen.attempts_failed <= MaxAttempts
  BY UnderWay DEF IInv
<1>3. CASE Skip(c) \/ Advance(c) \/ ForcedFinish(c)
  BY <1>3, NextPhaseMoves DEF Skip, Advance, ForcedFinish
<1>4. CASE StopSeen(c) \/ OverTimed(c) \/ OutOfAttempts(c)
  BY <1>2, <1>4 DEF StopSeen, OverTimed, OutOfAttempts, Moves, Moved
<1>5. CASE Perform(c) \/ PerformWOL(c)
  <2> DEFINE o == [obj[c] EXCEPT !.kept = "running"]
  <2>1. o \in Object /\ o.thread = obj[c].thread /\ o.recurrent = obj[c].recurrent
    BY <1>2 DEF Object, PhaseStates
  <2>2. (Settle(c, o, "asked") \/ Settle(c, o, "wol")) /\ ~o.recurrent
    BY <1>5, <2>1 DEF Perform, PerformWOL, Host
  <2> HIDE DEF o
  <2> QED BY <2>1, <2>2 DEF Moves, Moved
<1>6. CASE PerformWithoutHost(c)
  <2> DEFINE o == [obj[c] EXCEPT !.seen = Charged(obj[c].seen), !.kept = "failed"]
  <2>1. o \in Object /\ o.thread = obj[c].thread /\ o.recurrent = obj[c].recurrent
    BY <1>2, ChargedRow DEF Object, PhaseStates
  <2>2. Release(c, o)
    BY <1>6 DEF PerformWithoutHost
  <2> HIDE DEF o
  <2> QED BY <2>1, <2>2 DEF Moves, Moved
<1>7. CASE PerformWUParse(c)
  <2> DEFINE o == [obj[c] EXCEPT !.seen = Charged(obj[c].seen), !.kept = "failed"]
             d == [obj[c] EXCEPT !.kept = "done"]
  <2>1. /\ o \in Object /\ o.thread = obj[c].thread /\ o.recurrent = obj[c].recurrent
        /\ d \in Object /\ d.thread = obj[c].thread /\ d.recurrent = obj[c].recurrent
    BY <1>2, ChargedRow DEF Object, PhaseStates
  <2>2. Walk(c, o) \/ Walk(c, d)
    BY <1>7 DEF PerformWUParse
  <2> HIDE DEF o, d
  <2> QED BY <2>1, <2>2 DEF Moves, Moved
<1>8. CASE PerformDone(c)
  <2> DEFINE o == [obj[c] EXCEPT !.seen.state = "done", !.kept = "done"]
  <2>1. o \in Object /\ o.thread = obj[c].thread /\ o.recurrent = obj[c].recurrent
    BY <1>2 DEF Object, Row, CoHStates, PhaseStates
  <2>2. Release(c, obj[c]) \/ Walk(c, o)
    BY <1>8 DEF PerformDone
  <2> HIDE DEF o
  <2> QED BY <1>2, <2>1, <2>2 DEF Moves, Moved
<1> QED BY <1>3, <1>4, <1>5, <1>6, <1>7, <1>8 DEF Step

LEMMA AnswerMoves ==
    ASSUME IInv, NEW c \in Circuits, Answer(c)
    PROVE  Moves(c) /\ obj[c].pc \in {"asked", "wol"} /\ calls' = calls
<1> DEFINE next == [obj[c].seen EXCEPT !.state = "scheduled"]
<1>1. obj[c].pc \in {"asked", "wol"} /\ calls' = calls
  BY DEF Answer, OrderTaken, OrderRefused, CallFailed, WOLUseless, WOLSlept,
         WOLUnanswered, WOLFailed, Asked, InWOL
<1> SUFFICES Moves(c)
  BY <1>1
<1>2. /\ obj[c] \in Object /\ obj[c].seen \in Row /\ obj[c].seen.attempts_failed <= MaxAttempts
      /\ next \in Row /\ next.attempts_failed = obj[c].seen.attempts_failed
      /\ ~obj[c].recurrent /\ ~obj[c].thread
  BY <1>1, UnderWay DEF IInv, Row, CoHStates
<1>3. CASE GiveUp(c, obj[c])
  BY <1>2, <1>3, GiveUpMoves
<1>4. CASE FailPhase(c, obj[c].seen) \/ FailPhase(c, next)
  BY <1>2, <1>4, FailPhaseMoves
<1>5. CASE WOLUseless(c) \/ WOLSlept(c)
  <2> DEFINE row == IF obj[c].seen.state = "stopped" THEN obj[c].seen ELSE next
             o == [obj[c] EXCEPT !.seen = row, !.kept = "done"]
             d == [obj[c] EXCEPT !.kept = "done"]
  <2>1. /\ o \in Object /\ o.thread = obj[c].thread /\ o.recurrent = obj[c].recurrent
        /\ d \in Object /\ d.thread = obj[c].thread /\ d.recurrent = obj[c].recurrent
    BY <1>2 DEF Object, PhaseStates
  <2>2. Walk(c, o) \/ Walk(c, d)
    BY <1>5 DEF WOLUseless, WOLSlept
  <2> HIDE DEF o, d
  <2> QED BY <2>1, <2>2 DEF Moves, Moved
<1>6. CASE WOLUnanswered(c) /\ ~GiveUp(c, obj[c])
  <2> DEFINE o == [obj[c] EXCEPT !.seen = next, !.kept = "ready"]
  <2>1. o \in Object /\ o.thread = obj[c].thread /\ o.recurrent = obj[c].recurrent
    BY <1>2 DEF Object, PhaseStates
  <2>2. Settle(c, o, "out")
    BY <1>6 DEF WOLUnanswered
  <2> HIDE DEF o
  <2> QED BY <1>2, <2>1, <2>2 DEF Moves, Moved
<1> QED BY <1>3, <1>4, <1>5, <1>6 DEF Answer, OrderTaken, OrderRefused, CallFailed,
           WOLFailed, WOLUnanswered

LEMMA ParseMoves ==
    ASSUME IInv, NEW c \in Circuits, NEW result, Parse(c, result),
           ~obj[c].thread
    PROVE  Moves(c)
<1> DEFINE o == [obj[c] EXCEPT !.result = "none"]
           d == [obj[c] EXCEPT !.kept = "done", !.result = "none"]
<1>1. /\ obj[c] \in Object /\ obj[c].seen \in Row /\ obj[c].seen.attempts_failed <= MaxAttempts
      /\ o \in Object /\ o.thread = obj[c].thread /\ o.recurrent = obj[c].recurrent
      /\ d \in Object /\ d.thread = obj[c].thread /\ d.recurrent = obj[c].recurrent
      /\ d = [o EXCEPT !.kept = "done"]
  BY UnderWay DEF IInv, Object, PhaseStates
<1>2. Release(c, o) \/ Walk(c, d) \/ GiveUp(c, o) \/ FailPhase(c, obj[c].seen)
  BY <1>1 DEF Parse, ParseSuccess, ParseFailure
<1> HIDE DEF o, d
<1>3. CASE GiveUp(c, o)
  BY <1>1, <1>3, GiveUpMoves
<1>4. CASE FailPhase(c, obj[c].seen)
  BY <1>1, <1>4, FailPhaseMoves
<1>5. CASE Release(c, o) \/ Walk(c, d)
  BY <1>1, <1>5 DEF Moves, Moved
<1> QED BY <1>2, <1>3, <1>4, <1>5

LEMMA DispatchLed ==
    ASSUME PoolKeepsUp, ~LateAnswers, IInv, Led,
           NEW c \in Circuits, Select(c) \/ Run(c) \/ RemoveExpired(c)
    PROVE  Led'
<1>1. /\ obj[c] \in Object /\ obj \in [Circuits -> Object] /\ calls' = calls
      /\ container \in Seq(Circuits) /\ Form(obj[c]) /\ Place(c, obj[c], container)
      /\ phase \in [Steps -> PhaseStates]
  BY UnderWay DEF IInv, ObjInv, RestInv, Select, Run, RemoveExpired
<1>2. CASE Select(c)
  <2>1. PICK pc \in {"queued", "waiting"} :
          /\ obj' = [obj EXCEPT ![c] = [Unused EXCEPT !.pc = pc, !.todo = Undone, !.seen = coh]]
          /\ container' = IF pc = "waiting" THEN <<c>> ELSE container
    BY <1>2 DEF Select
  <2>2. \A d \in Circuits : ~Leading(d)
    <3>1. container = <<>> /\ \A d \in Circuits : obj[d].pc # "queued" /\ ~obj[d].thread
      BY <1>2 DEF Select, ThreadsEnded
    <3>2. Members(container) = {}
      BY <3>1 DEF Members
    <3> QED BY <3>1, <3>2 DEF Led
  <2>3. obj'[c].pc = pc /\ \A d \in Circuits \ {c} : obj'[d] = obj[d]
    BY <1>1, <2>1 DEF Unused
  <2>4. c \in Members(<<c>>)
    <3>1. 1 \in DOMAIN <<c>> /\ <<c>>[1] = c
      OBVIOUS
    <3> QED BY <3>1 DEF Members
  <2> QED BY <1>1, <2>1, <2>2, <2>3, <2>4 DEF Led, Leading, Used
<1>3. CASE Run(c)
  <2> DEFINE self == [obj[c] EXCEPT !.thread = obj[c].pc = "queued"]
  <2>1. /\ obj[c].pc \in {"queued", "waiting"} /\ ~obj[c].recurrent /\ Leading(c)
        /\ obj[c].pc = "queued" <=> c \notin Members(container)
    BY <1>1, <1>3 DEF Run, Form, Place, Leading, Used
  <2>2. /\ self \in Object /\ self.thread = (obj[c].pc = "queued") /\ ~self.recurrent
        /\ self.todo = obj[c].todo
    BY <1>1, <2>1 DEF Object
  <2> HIDE DEF self
  <2>3. \E o \in Object : Moved(c, o) /\ ~o.recurrent /\ o.thread = (obj[c].pc = "queued")
    <3>1. CASE self.todo = {}
      BY <1>3, <2>2, <3>1 DEF Run, self, Moved
    <3>2. CASE self.todo # {}
      <4>1. PICK i \in self.todo :
              Walk(c, [self EXCEPT !.step = i, !.todo = @ \ {i}, !.kept = phase[i]])
        BY <1>3, <3>2 DEF Run, self
      <4> DEFINE o == [self EXCEPT !.step = i, !.todo = @ \ {i}, !.kept = phase[i]]
      <4>2. o \in Object /\ o.thread = self.thread /\ o.recurrent = self.recurrent
        BY <1>1, <2>2 DEF Object
      <4>3. Walk(c, o)
        BY <4>1
      <4> HIDE DEF o
      <4> QED BY <2>2, <4>2, <4>3 DEF Moved
    <3> QED BY <3>1, <3>2
  <2> QED BY <1>1, <2>1, <2>3, LeaderPlaced
<1>4. CASE RemoveExpired(c)
  <2>1. obj[c].pc \in {"out", "released"} /\ Release(c, obj[c])
    BY <1>4 DEF RemoveExpired
  <2>2. Moves(c)
    BY <1>1, <2>1 DEF Moves, Moved
  <2> QED BY <1>1, <2>1, <2>2, MovesLed
<1> QED BY <1>2, <1>3, <1>4

LEMMA ResultsLed ==
    ASSUME IInv, Led, NEW c \in Circuits, Handle(c) \/ ParseOutside(c)
    PROVE  Led'
<1>1. /\ obj[c] \in Object /\ obj \in [Circuits -> Object] /\ calls' = calls
      /\ Form(obj[c]) /\ phase \in [Steps -> PhaseStates] /\ coh \in Row
  BY UnderWay DEF IInv, ObjInv, RowInv, RestInv, Handle, ResultRejected, Result, ResultOutside,
     ParseOutside
<1>2. ASSUME NEW step \in results, ResultRejected(c, step) PROVE Led'
  BY <1>2 DEF ResultRejected, Led, Leading, Used
<1>3. ASSUME NEW step \in results, NEW result \in {"ok", "ko"}, Result(c, step, result)
      PROVE  Led'
  <2>1. Parse(c, result) /\ obj[c].pc \in {"out", "released"} /\ ~obj[c].thread
    BY <1>1, <1>3 DEF Result, Form
  <2> QED BY <1>1, <2>1, ParseMoves, MovesLed
<1>4. ASSUME NEW step \in results, NEW result \in {"ok", "ko"}, ResultOutside(c, step, result)
      PROVE  Led'
  <2>1. CASE Undone = {}
    BY <1>1, <1>4, <2>1 DEF ResultOutside, Led, Leading, Used
  <2>2. CASE Undone # {}
    <3> DEFINE self == [Unused EXCEPT !.seen = coh, !.thread = TRUE, !.recurrent = TRUE,
                                      !.result = result, !.of = step]
    <3>1. PICK i \in Undone :
            Walk(c, [self EXCEPT !.step = i, !.todo = Undone \ {i}, !.kept = phase[i]])
      BY <1>4, <2>2 DEF ResultOutside
    <3> DEFINE o == [self EXCEPT !.step = i, !.todo = Undone \ {i}, !.kept = phase[i]]
    <3>2. o.recurrent
      BY DEF Unused
    <3>3. Walk(c, o)
      BY <3>1
    <3> HIDE DEF o
    <3>4. container' = container /\ \A d \in Circuits :
            obj'[d] = IF d = c THEN [o EXCEPT !.pc = "walk"] ELSE obj[d]
      BY <1>1, <3>3 DEF Walk
    <3>5. o.recurrent = [o EXCEPT !.pc = "walk"].recurrent
      OBVIOUS
    <3>6. obj'[c].recurrent
      BY <3>2, <3>4, <3>5
    <3> QED BY <1>1, <3>4, <3>6 DEF Led, Leading, Used
  <2> QED BY <2>1, <2>2
<1>5. CASE ParseOutside(c)
  <2>1. CASE obj[c].step = obj[c].of
    BY <1>1, <1>5, <2>1, ParseMoves, MovesLed DEF ParseOutside, Form
  <2>2. CASE obj[c].step # obj[c].of
    <3>1. obj' = [obj EXCEPT ![c] = Unused] /\ container' = container
      BY <1>5, <2>2 DEF ParseOutside
    <3>2. Unused.pc = "unused"
      BY DEF Unused
    <3> QED BY <1>1, <3>1, <3>2 DEF Led, Leading, Used
  <2> QED BY <2>1, <2>2
<1> QED BY <1>2, <1>3, <1>4, <1>5 DEF Handle

LEMMA NextLed ==
    ASSUME PoolKeepsUp, ~LateAnswers, MaxOps = 0, IInv, Led, [Next]_vars
    PROVE  Led'
<1>1. ops \in Nat /\ calls = {}
  BY DEF IInv, RestInv, Led
<1>2. CASE UNCHANGED vars
  BY <1>2 DEF vars, Led, Leading, Used
<1>3. ASSUME NEW c \in Circuits, Select(c) \/ Run(c) \/ RemoveExpired(c) PROVE Led'
  BY <1>3, DispatchLed
<1>4. ASSUME NEW c \in Circuits, Step(c) \/ Answer(c) PROVE Led'
  BY <1>4, StepMoves, AnswerMoves, MovesLed DEF Walking
<1>5. ASSUME NEW c \in Circuits, Handle(c) \/ ParseOutside(c) PROVE Led'
  BY <1>5, ResultsLed
<1>6. CASE \/ ProcessEnded \/ SendFailed \/ Resend \/ LoseResult \/ ProcessNonValid
           \/ Lapse \/ LauncherRestart
  <2>1. UNCHANGED <<obj, container, calls>>
    BY <1>6 DEF ProcessEnded, SendFailed, Resend, LoseResult, ProcessNonValid, Lapse,
           LauncherRestart
  <2> QED BY <2>1 DEF Led, Leading, Used
<1>7. CASE SchedulerRestart
  BY <1>7 DEF SchedulerRestart, Led, Leading, Used, Unused
<1>8. ~AgentStop /\ ~AgentStart /\ ~AgentExtend /\ ~HandleStop /\ ~HandleStart /\ ~LoseCall
  BY <1>1 DEF AgentStop, AgentStart, AgentExtend, HandleStop, HandleStart, LoseCall
<1> QED BY <1>2, <1>3, <1>4, <1>5, <1>6, <1>7, <1>8 DEF Next

\* Whatever restarts or is lost, however late a result comes and in whatever
\* order the phases are fetched, provided that starter threads end before the
\* next awake of the mainloop (scheduler/control.py) and calls to a launcher before
\* max_command_time: two circuits never carry out at once a CoH that the agent
\* leaves alone.
THEOREM OneLeaderAlone ==
    ASSUME PoolKeepsUp, ~LateAnswers, MaxOps = 0
    PROVE  Spec => []OneLeader
<1>1. Init => Led
  BY DEF Init, Led, Leading, Used, Unused
<1>2. IInv /\ Led /\ [Next]_vars => Led'
  BY NextLed
<1>3. IInv /\ Led => OneLeader
  BY DEF Led, Leading, Used, OneLeader, Busy
<1> QED BY <1>1, <1>2, <1>3, Invariance, PTL DEF Spec

-----------------------------------------------------------------------------
(* The container never has the CoH twice, whoever stops it.                 *)

\* With the starter or in its thread: about to enter the container.
Incoming(c) == obj[c].pc = "queued" \/ (obj[c].thread /\ ~obj[c].recurrent)

\* What is about to enter finds the container empty, and is alone.
Solo ==
    /\ Len(container) <= 1
    /\ \A c \in Circuits : Incoming(c) => container = <<>>
    /\ \A c, d \in Circuits : Incoming(c) /\ Incoming(d) => c = d

LEMMA Lengths ==
    ASSUME NEW q \in Seq(Circuits), Len(q) <= 1, NEW c \in Circuits
    PROVE  /\ q # <<>> => Tail(q) = <<>>
           /\ Len(<<>>) <= 1 /\ Len(<<c>>) <= 1 /\ Append(<<>>, c) = <<c>>
<1>1. q # <<>> => Len(q) = 1
  <2> SUFFICES ASSUME q # <<>> PROVE Len(q) = 1
    OBVIOUS
  <2> DEFINE n == Len(q)
  <2>1. n \in Nat /\ n > 0 /\ n <= 1
    OBVIOUS
  <2> HIDE DEF n
  <2>2. n = 1
    BY <2>1
  <2> QED BY <2>2 DEF n
<1>2. q # <<>> => Tail(q) \in Seq(Circuits) /\ Len(Tail(q)) = 0
  BY <1>1
<1> QED BY <1>2

\* How the step of c leaves the container: as it was, empty, or with c alone when
\* c was about to enter it. Nobody else is about to enter who was not.
LEMMA MovedSolo ==
    ASSUME IInv, Solo, NEW c \in Circuits, NEW self \in Object, Moved(c, self),
           self.thread /\ ~self.recurrent => Incoming(c)
    PROVE  Solo'
<1>1. /\ obj \in [Circuits -> Object] /\ container \in Seq(Circuits)
      /\ Unused.pc = "unused" /\ ~Unused.thread
  BY UnusedForm DEF IInv, ObjInv
<1>2. CASE Walk(c, self)
  <2>1. \A d \in Circuits : Incoming(d)' => Incoming(d)
    BY <1>1, <1>2 DEF Walk, Incoming, Object
  <2> QED BY <1>2, <2>1 DEF Walk, Solo
<1>3. CASE \E pc \in {"asked", "wol", "out"} :
             Settle(c, self, pc) /\ (self.recurrent => pc = "out" /\ ~self.thread)
  <2>1. /\ container' = IF self.thread THEN Append(container, c) ELSE container
        /\ self.thread => Incoming(c)
    BY <1>3 DEF Settle, Object
  <2>2. \A d \in Circuits : Incoming(d)' => d # c /\ Incoming(d)
    BY <1>1, <1>3 DEF Settle, Incoming, Object
  <2>3. CASE self.thread
    <3>1. Incoming(c)
      BY <2>1, <2>3
    <3>2. container = <<>> /\ \A d \in Circuits : Incoming(d) => d = c
      BY <3>1 DEF Solo
    <3>3. \A d \in Circuits : ~Incoming(d)'
      BY <2>2, <3>2
    <3>4. container' = <<c>>
      BY <2>1, <2>3, <3>2
    <3> QED BY <3>3, <3>4 DEF Solo
  <2>4. CASE ~self.thread
    BY <2>1, <2>2, <2>4 DEF Solo
  <2> QED BY <2>3, <2>4
<1>4. CASE Release(c, self)
  <2>1. container' = LET popped == IF self.recurrent \/ container = <<>> THEN container
                                   ELSE Tail(container)
                     IN  IF self.thread /\ ~self.recurrent THEN Append(popped, c) ELSE popped
    BY <1>4 DEF Release
  <2>2. \A d \in Circuits : Incoming(d)' => d # c /\ Incoming(d)
    <3> DEFINE p == [self EXCEPT !.pc = "parse", !.thread = FALSE]
               r == [self EXCEPT !.pc = "released", !.thread = FALSE]
    <3>1. p.pc = "parse" /\ ~p.thread /\ r.pc = "released" /\ ~r.thread
      BY DEF Object
    <3>2. obj'[c] \in {p, r, Unused}
      BY <1>4 DEF Release
    <3> HIDE DEF p, r
    <3>3. \A d \in Circuits \ {c} : obj'[d] \in {obj[d], Unused}
      BY <1>4 DEF Release, Dropped
    <3> QED BY <1>1, <3>1, <3>2, <3>3 DEF Incoming
  <2>3. CASE self.thread /\ ~self.recurrent
    <3>1. Incoming(c)
      BY <2>1, <2>3
    <3>2. container = <<>> /\ \A d \in Circuits : Incoming(d) => d = c
      BY <3>1 DEF Solo
    <3>3. \A d \in Circuits : ~Incoming(d)'
      BY <2>2, <3>2
    <3>4. container' = <<c>>
      BY <2>1, <2>3, <3>2
    <3> QED BY <3>3, <3>4 DEF Solo
  <2>4. CASE ~(self.thread /\ ~self.recurrent)
    <3>1. container' = container \/ container' = <<>>
      BY <1>1, <2>1, <2>4, Lengths DEF Solo
    <3> QED BY <1>1, <2>2, <3>1, Lengths DEF Solo
  <2> QED BY <2>3, <2>4
<1> QED BY <1>2, <1>3, <1>4 DEF Moved

LEMMA MovesSolo ==
    ASSUME IInv, Solo, NEW c \in Circuits, Moves(c)
    PROVE  Solo'
<1>1. PICK self \in Object : /\ Moved(c, self)
                             /\ self.thread = obj[c].thread
                             /\ self.recurrent = obj[c].recurrent
  BY DEF Moves
<1> QED BY <1>1, MovedSolo DEF Incoming

LEMMA DispatchSolo ==
    ASSUME PoolKeepsUp, IInv, Solo, NEW c \in Circuits,
           Select(c) \/ Run(c) \/ RemoveExpired(c)
    PROVE  Solo'
<1>1. /\ obj[c] \in Object /\ obj \in [Circuits -> Object] /\ container \in Seq(Circuits)
      /\ Form(obj[c]) /\ phase \in [Steps -> PhaseStates]
  BY UnderWay DEF IInv, ObjInv, RestInv
<1>2. CASE Select(c)
  <2>1. PICK pc \in {"queued", "waiting"} :
          /\ obj' = [obj EXCEPT ![c] = [Unused EXCEPT !.pc = pc, !.todo = Undone, !.seen = coh]]
          /\ container' = IF pc = "waiting" THEN <<c>> ELSE container
    BY <1>2 DEF Select
  <2>2. container = <<>> /\ \A d \in Circuits : obj[d].pc # "queued" /\ ~obj[d].thread
    BY <1>2 DEF Select, ThreadsEnded
  <2>3. \A d \in Circuits \ {c} : ~Incoming(d)'
    BY <1>1, <2>1, <2>2 DEF Incoming
  <2>4. obj'[c].pc = pc /\ ~obj'[c].thread
    BY <1>1, <2>1 DEF Unused
  <2>5. Incoming(c)' => container' = <<>>
    BY <2>1, <2>2, <2>4 DEF Incoming
  <2>6. Len(container') <= 1
    BY <1>1, <2>1, <2>2, Lengths DEF Solo
  <2> QED BY <2>3, <2>5, <2>6 DEF Solo
<1>3. CASE Run(c)
  <2> DEFINE self == [obj[c] EXCEPT !.thread = obj[c].pc = "queued"]
  <2>1. self \in Object /\ self.thread = (obj[c].pc = "queued") /\ self.todo = obj[c].todo
    BY <1>1 DEF Object
  <2> HIDE DEF self
  <2>2. \E o \in Object : Moved(c, o) /\ o.thread = (obj[c].pc = "queued")
    <3>1. CASE self.todo = {}
      BY <1>3, <2>1, <3>1 DEF Run, self, Moved
    <3>2. CASE self.todo # {}
      <4>1. PICK i \in self.todo :
              Walk(c, [self EXCEPT !.step = i, !.todo = @ \ {i}, !.kept = phase[i]])
        BY <1>3, <3>2 DEF Run, self
      <4> DEFINE o == [self EXCEPT !.step = i, !.todo = @ \ {i}, !.kept = phase[i]]
      <4>2. o \in Object /\ o.thread = self.thread
        BY <1>1, <2>1 DEF Object
      <4>3. Walk(c, o)
        BY <4>1
      <4> HIDE DEF o
      <4> QED BY <2>1, <4>2, <4>3 DEF Moved
    <3> QED BY <3>1, <3>2
  <2> QED BY <2>2, MovedSolo DEF Incoming
<1>4. CASE RemoveExpired(c)
  <2>1. CASE Release(c, obj[c])
    BY <1>1, <2>1, MovesSolo DEF Moves, Moved
  <2>2. CASE ~Release(c, obj[c])
    <3>1. container' = Tail(container) /\ container # <<>> /\ obj' = obj
      BY <1>4, <2>2 DEF RemoveExpired
    <3> QED BY <1>1, <3>1, Lengths DEF Solo, Incoming
  <2> QED BY <2>1, <2>2
<1> QED BY <1>2, <1>3, <1>4

LEMMA ResultsSolo ==
    ASSUME IInv, Solo, NEW c \in Circuits, Handle(c) \/ ParseOutside(c)
    PROVE  Solo'
<1>1. /\ obj[c] \in Object /\ obj \in [Circuits -> Object] /\ Form(obj[c])
  BY UnderWay DEF IInv, ObjInv
<1>2. ASSUME NEW step \in results, ResultRejected(c, step) PROVE Solo'
  BY <1>2 DEF ResultRejected, Solo, Incoming
<1>3. ASSUME NEW step \in results, NEW result \in {"ok", "ko"}, Result(c, step, result)
      PROVE  Solo'
  <2>1. Parse(c, result) /\ ~obj[c].thread
    BY <1>1, <1>3 DEF Result, Form
  <2> QED BY <2>1, ParseMoves, MovesSolo
<1>4. ASSUME NEW step \in results, NEW result \in {"ok", "ko"}, ResultOutside(c, step, result)
      PROVE  Solo'
  <2>1. CASE Undone = {}
    BY <1>4, <2>1 DEF ResultOutside, Solo, Incoming
  <2>2. CASE Undone # {}
    <3> DEFINE self == [Unused EXCEPT !.seen = coh, !.thread = TRUE, !.recurrent = TRUE,
                                      !.result = result, !.of = step]
    <3>1. PICK i \in Undone :
            Walk(c, [self EXCEPT !.step = i, !.todo = Undone \ {i}, !.kept = phase[i]])
      BY <1>4, <2>2 DEF ResultOutside
    <3> DEFINE o == [[self EXCEPT !.step = i, !.todo = Undone \ {i}, !.kept = phase[i]]
                       EXCEPT !.pc = "walk"]
    <3>2. o.recurrent /\ o.pc = "walk"
      BY DEF Unused
    <3>3. container' = container /\ obj' = [obj EXCEPT ![c] = o]
      BY <3>1 DEF Walk
    <3> HIDE DEF o
    <3>4. \A d \in Circuits : Incoming(d)' => Incoming(d)
      BY <1>1, <3>2, <3>3 DEF Incoming
    <3> QED BY <3>3, <3>4 DEF Solo
  <2> QED BY <2>1, <2>2
<1>5. CASE ParseOutside(c)
  <2>1. CASE obj[c].step = obj[c].of
    BY <1>1, <1>5, <2>1, ParseMoves, MovesSolo DEF ParseOutside, Form
  <2>2. CASE obj[c].step # obj[c].of
    BY <1>1, <1>5, <2>2, UnusedForm DEF ParseOutside, Solo, Incoming
  <2> QED BY <2>1, <2>2
<1> QED BY <1>2, <1>3, <1>4, <1>5 DEF Handle

LEMMA NextSolo ==
    ASSUME PoolKeepsUp, IInv, Solo, [Next]_vars
    PROVE  Solo'
<1>1. CASE UNCHANGED vars
  BY <1>1 DEF vars, Solo, Incoming
<1>2. ASSUME NEW c \in Circuits, Select(c) \/ Run(c) \/ RemoveExpired(c) PROVE Solo'
  BY <1>2, DispatchSolo
<1>3. ASSUME NEW c \in Circuits, Step(c) \/ Answer(c) PROVE Solo'
  BY <1>3, StepMoves, AnswerMoves, MovesSolo
<1>4. ASSUME NEW c \in Circuits, Handle(c) \/ ParseOutside(c) PROVE Solo'
  BY <1>4, ResultsSolo
<1>5. CASE \/ ProcessEnded \/ SendFailed \/ Resend \/ LoseResult \/ ProcessNonValid
           \/ AgentStop \/ AgentStart \/ AgentExtend \/ HandleStart \/ LoseCall
           \/ Lapse \/ LauncherRestart
  <2>1. UNCHANGED <<obj, container>>
    BY <1>5 DEF ProcessEnded, SendFailed, Resend, LoseResult, ProcessNonValid, AgentStop,
           AgentStart, AgentExtend, HandleStart, LoseCall, Lapse, LauncherRestart
  <2> QED BY <2>1 DEF Solo, Incoming
<1>6. CASE HandleStop
  <2>1. container' = <<>> /\ \A d \in Circuits : obj'[d] \in {obj[d], Unused}
    BY <1>6 DEF HandleStop, Dropped
  <2>2. \A d \in Circuits : Incoming(d)' => Incoming(d)
    BY <2>1, UnusedForm DEF Incoming
  <2> QED BY <2>1, <2>2 DEF Solo
<1>7. CASE SchedulerRestart
  BY <1>7, UnusedForm DEF SchedulerRestart, Solo, Incoming
<1> QED BY <1>1, <1>2, <1>3, <1>4, <1>5, <1>6, <1>7 DEF Next

\* Provided that starter threads end before the next awake of the mainloop
\* (scheduler/control.py), and whatever the agent does, fails, restarts, is lost or
\* comes late: MscContainer never has two circuits of one CoH.
THEOREM OnceInside ==
    ASSUME PoolKeepsUp
    PROVE  Spec => []OnceInContainer
<1>1. Init => Solo
  BY UnusedForm DEF Init, Solo, Incoming
<1>2. IInv /\ Solo /\ [Next]_vars => Solo'
  BY NextSolo
<1>3. Solo => OnceInContainer
  BY DEF Solo, OnceInContainer
<1> QED BY <1>1, <1>2, <1>3, Invariance, PTL DEF Spec

-----------------------------------------------------------------------------
(* One operation of the agent, and nothing that fails.                      *)

LastStep == Len(Workflow)
InHand   == {"walk", "asked", "wol", "out", "parse"}
Live     == InHand \cup {"queued", "waiting"}
Pending  == order.status # "none" \/ results # {}

\* The first rules end a walk on such a copy.
Ended(row) == row.state = "stopped" \/ Expired(row)

\* The one operation was a stop: no window opens again, no call starts the CoH.
Halted ==
    /\ ops = 1 /\ coh.window = 0 /\ "start" \notin calls
    /\ coh.state = "scheduled" => Expired(coh)

\* A failure of wu_parse used up the attempts: the next rules release it.
GaveIn(o) ==
    /\ o.pc = "walk" /\ o.kept = "failed" /\ Workflow[o.step] = "wu_parse"
    /\ Exhausted(o.seen)

\* The object has its phase in hand: no other writes it.
Held(o) ==
    o.pc \in InHand =>
        /\ o.kept = phase[o.step]
        /\ \A j \in o.todo : o.step < j
        /\ Workflow[o.step] = "wol" /\ ~o.recurrent => o.seen.state = "scheduled"

\* Before an extension, row and copy are final only for a known reason.
Fresh(o) ==
    o.pc \in Live /\ coh.window = 0 =>
        /\ o.seen.state \in Final => lapsed > 0 \/ GaveIn(o)
        /\ coh.state \in Final => lapsed > 0 \/ GaveIn(o)

\* What a launcher was asked is marked running, and was not stopped before.
Sent(o) ==
    /\ o.pc \in {"asked", "wol"} => o.kept = "running"
    /\ o.pc = "wol" => Workflow[o.step] = "wol"
    /\ o.pc \in {"asked", "wol", "out"} =>
          /\ o.seen.state # "stopped" /\ o.step # LastStep
          /\ coh.window = 0 => o.seen.state \notin Final
    /\ o.pc \in {"queued", "waiting"} => o.seen.state = "scheduled"

\* The last phase is ahead of whoever carries out the CoH.
Open(o) ==
    o.pc \in Live =>
        /\ phase[LastStep] # "done" /\ coh.state # "done" /\ o.seen.state # "done"
        /\ LastStep \in o.todo \/ (o.pc \in InHand /\ o.step = LastStep)

\* A recurrent circuit finds the CoH ended.
Astray(o) ==
    /\ o.recurrent => Halted /\ Ended(o.seen) /\ Ended(coh) /\ o.of # LastStep
    /\ o.pc = "parse" => o.recurrent

Fit(o) == Held(o) /\ Fresh(o) /\ Sent(o) /\ Open(o) /\ Astray(o)

\* Out of the container, only what a stop threw out goes on.
Placed(c) ==
    /\ Used(c) /\ obj[c].pc # "queued" /\ ~obj[c].thread /\ c \notin Members(container)
          => Halted
    /\ c \in Members(container) /\ Busy(c) => tracked

\* An order or its result has the circuit that gave it, or a stop threw it out.
Orders ==
    /\ order.status # "none" => results = {}
    /\ \A s, t \in results : s = t
    /\ Pending =>
          /\ \A c \in Circuits : Used(c) =>
                /\ obj[c].pc = "out" /\ c \in Members(container) /\ obj[c].kept = "running"
                /\ order.status # "none" => order.step = obj[c].step
                /\ results \subseteq {obj[c].step}
          /\ container = <<>> => Halted /\ Ended(coh)
          /\ phase[LastStep] # "done" /\ coh.state # "done" /\ LastStep \notin results
          /\ order.status # "none" => order.step # LastStep

Closed == phase[LastStep] = "done" => coh.state = "done" \/ Halted

Called ==
    /\ "stop" \in calls => Halted
    /\ ops = 0 => calls = {} /\ coh.window = 0
    /\ ops <= 1 /\ faults = 0

Sole == \A c, d \in Circuits : Used(c) /\ Used(d) => c = d

\* What the theorems ask of the constants is part of it.
Quiet ==
    /\ RowsInOrder /\ MaxFaults = 0
    /\ Sole
    /\ \A c \in Circuits : Fit(obj[c]) /\ Placed(c)
    /\ Orders /\ Closed /\ Called

\* What a step of a circuit leaves as it is.
Steady ==
    /\ UNCHANGED <<lapsed, calls, ops, faults>>
    /\ coh'.window = coh.window
    /\ Halted /\ coh'.state = "scheduled" => Expired(coh)

KeepsDone == \A i \in Steps : phase[i] = "done" => phase'[i] = "done"

LEMMA SteadyHalted ==
    ASSUME IInv, Steady
    PROVE  (Halted => Halted') /\ (Called => Called') /\ (Expired(coh) => Expired(coh)')
BY DEF Steady, Halted, Called, Expired

\* It is enough to look at the circuit that moved.
LEMMA Alone ==
    ASSUME IInv, IInv', Quiet, NEW c \in Circuits,
           \A d \in Circuits \ {c} : obj'[d].pc = "unused",
           Fit(obj[c])', Placed(c)', Steady, ~Pending',
           phase'[LastStep] = "done" => coh'.state = "done" \/ Halted'
    PROVE  Quiet'
<1>1. Sole'
  BY DEF Sole, Used
<1>2. ASSUME NEW d \in Circuits \ {c} PROVE Fit(obj[d])' /\ Placed(d)'
  <2>1. obj'[d].pc = "unused" /\ ~obj'[d].recurrent /\ d \notin Members(container')
    BY DEF IInv, ObjInv, Form, Place
  <2> QED BY <2>1 DEF Fit, Held, Fresh, Sent, Open, Astray, Placed, Used, InHand, Live
<1>3. Orders'
  BY DEF Orders, Pending
<1>4. Called'
  BY SteadyHalted DEF Quiet
<1> QED BY <1>1, <1>2, <1>3, <1>4 DEF Quiet, Closed

\* What is known of a circuit that has a phase in hand, before its step.
LEMMA AtHand ==
    ASSUME IInv, Quiet, NEW c \in Circuits, obj[c].pc \in Live
    PROVE  /\ \A d \in Circuits \ {c} : obj[d].pc = "unused"
           /\ obj[c].pc # "out" => ~Pending
           /\ Fit(obj[c]) /\ Placed(c)
           /\ obj[c] \in Object /\ obj[c].seen \in Row /\ coh \in Row
           /\ phase \in [Steps -> PhaseStates] /\ obj[c].kept \in PhaseStates
           /\ obj[c].seen.window <= coh.window /\ obj[c].seen.window \in Nat
           /\ coh.window \in Nat /\ lapsed \in Nat
           /\ LastStep \in Steps /\ Steps = 1..LastStep
<1>1. obj[c] \in Object /\ obj[c].seen \in Row /\ obj[c].seen.window <= coh.window
  BY UnderWay DEF IInv
<1>2. Used(c)
  BY DEF Used, Live, InHand
<1>3. \A d \in Circuits \ {c} : obj[d].pc = "unused"
  BY <1>2 DEF Quiet, Sole, Used
<1>4. obj[c].pc # "out" => ~Pending
  BY <1>2 DEF Quiet, Orders
<1> QED BY <1>1, <1>3, <1>4, Constants DEF Quiet, LastStep, IInv, RowInv, RestInv, Row, Object

\* The others, whichever way the step of c ends.
LEMMA OthersUnused ==
    ASSUME IInv, NEW c \in Circuits, NEW self \in Object,
           \A d \in Circuits \ {c} : obj[d].pc = "unused",
           \/ Walk(c, self) \/ Release(c, self)
           \/ \E pc \in {"asked", "wol", "out"} : Settle(c, self, pc)
    PROVE  \A d \in Circuits \ {c} : obj'[d].pc = "unused"
<1>1. obj \in [Circuits -> Object]
  BY DEF IInv, ObjInv
<1>2. CASE Walk(c, self) \/ \E pc \in {"asked", "wol", "out"} : Settle(c, self, pc)
  BY <1>1, <1>2 DEF Walk, Settle
<1>3. CASE Release(c, self)
  <2>1. \A d \in Circuits \ {c} : obj'[d] \in {obj[d], Dropped(obj[d])}
    BY <1>3 DEF Release
  <2>2. \A d \in Circuits \ {c} : Dropped(obj[d]) = obj[d]
    BY DEF Dropped
  <2> QED BY <2>1, <2>2
<1> QED BY <1>2, <1>3

LEMMA Releases ==
    ASSUME IInv, IInv', Quiet, NEW c \in Circuits, obj[c].pc \in Live \cup {"released"},
           NEW self \in Object, Release(c, self), self.recurrent => c \notin Members(container),
           Steady, ~Pending',
           phase'[LastStep] = "done" => coh'.state = "done" \/ Halted',
           self.recurrent /\ self.result # "none" =>
              /\ obj[c].recurrent /\ self.of = obj[c].of
              /\ self.kept = phase'[self.step] /\ \A j \in self.todo : self.step < j
              /\ Ended(self.seen) /\ Ended(coh)'
              /\ phase'[LastStep] # "done" /\ coh'.state # "done" /\ self.seen.state # "done"
              /\ LastStep \in self.todo \/ self.step = LastStep
    PROVE  Quiet'
<1> DEFINE p == [self EXCEPT !.pc = "parse", !.thread = FALSE]
           r == [self EXCEPT !.pc = "released", !.thread = FALSE]
<1>1. /\ p.pc = "parse" /\ p.thread = FALSE /\ p.step = self.step /\ p.todo = self.todo
      /\ p.seen = self.seen /\ p.kept = self.kept /\ p.recurrent = self.recurrent
      /\ p.of = self.of /\ r.pc = "released" /\ r.recurrent = self.recurrent
  BY DEF Object
<1>2. /\ obj'[c] = IF self.recurrent /\ self.result # "none" THEN p
                   ELSE IF c \in Members(container') THEN r ELSE Unused
      /\ self.recurrent => container' = container
  BY DEF Release
<1> HIDE DEF p, r
<1>3. \A d \in Circuits \ {c} : obj[d].pc = "unused"
  BY DEF Quiet, Sole, Used, Live, InHand
<1>4. \A d \in Circuits \ {c} : obj'[d].pc = "unused"
  BY <1>3, OthersUnused
<1>5. CASE ~(self.recurrent /\ self.result # "none")
  <2>1. /\ obj'[c].pc = "unused" \/ (obj'[c].pc = "released" /\ c \in Members(container'))
        /\ ~obj'[c].recurrent
    <3>1. CASE c \in Members(container')
      <4>1. obj'[c] = r /\ ~self.recurrent
        BY <1>2, <1>5, <3>1
      <4> QED BY <1>1, <3>1, <4>1
    <3>2. CASE c \notin Members(container')
      <4>1. obj'[c] = Unused
        BY <1>2, <1>5, <3>2
      <4> QED BY <4>1, UnusedForm
    <3> QED BY <3>1, <3>2
  <2>2. Fit(obj[c])' /\ Placed(c)'
    BY <2>1 DEF Fit, Held, Fresh, Sent, Open, Astray, Placed, Used, Busy, InHand, Live
  <2> QED BY <1>4, <2>2, Alone
<1>6. CASE self.recurrent /\ self.result # "none"
  <2>1. obj'[c] = p /\ c \notin Members(container')
    BY <1>2, <1>6
  <2>2. Halted' /\ obj[c].of # LastStep
    BY <1>6, SteadyHalted DEF Quiet, Fit, Astray
  <2>3. lapsed' = lapsed /\ coh'.window \in Nat /\ self.seen.window \in Nat
        /\ lapsed \in Nat
    BY DEF Steady, IInv, RestInv, RowInv, Row, Object
  <2>4. Ended(self.seen)'
    BY <1>6, <2>3 DEF Ended, Expired
  <2>5. self.seen.state \in Final => lapsed > 0
    BY <1>6, <2>3 DEF Ended, Expired, Final
  <2>6. coh'.state \in Final => lapsed > 0
    BY <1>6, <2>3 DEF Ended, Expired, Final
  <2>7. Fit(obj[c])' /\ Placed(c)'
    BY <1>1, <1>6, <2>1, <2>2, <2>3, <2>4, <2>5, <2>6
       DEF Fit, Held, Fresh, Sent, Open, Astray, Placed, Used, Busy, InHand, Live, Ended, Expired
  <2> QED BY <1>4, <2>7, Alone
<1> QED BY <1>5, <1>6

LEMMA Walks ==
    ASSUME IInv, IInv', Quiet, NEW c \in Circuits, obj[c].pc \in Live,
           NEW self \in Object, Walk(c, self), self.recurrent = obj[c].recurrent,
           self.thread = IF obj[c].pc = "queued" THEN TRUE ELSE obj[c].thread,
           Steady, ~Pending',
           self.of = obj[c].of,
           self.kept = phase'[self.step] /\ \A j \in self.todo : self.step < j,
           Workflow[self.step] = "wol" /\ ~self.recurrent => self.seen.state = "scheduled",
           coh.window = 0 =>
              /\ self.seen.state \in Final => lapsed > 0 \/ GaveIn([self EXCEPT !.pc = "walk"])
              /\ coh'.state \in Final => lapsed > 0 \/ GaveIn([self EXCEPT !.pc = "walk"]),
           phase'[LastStep] # "done" /\ coh'.state # "done" /\ self.seen.state # "done",
           LastStep \in self.todo \/ self.step = LastStep,
           self.recurrent => Ended(self.seen) /\ Ended(coh)'
    PROVE  Quiet'
<1> DEFINE p == [self EXCEPT !.pc = "walk"]
<1>1. /\ p.pc = "walk" /\ p.thread = self.thread /\ p.step = self.step /\ p.todo = self.todo
      /\ p.seen = self.seen /\ p.kept = self.kept /\ p.recurrent = self.recurrent
      /\ p.of = self.of
  BY DEF Object
<1>2. obj'[c] = p /\ container' = container /\ tracked' = TRUE
  BY DEF Walk, IInv, ObjInv
<1>3. coh.window = 0 =>
              /\ self.seen.state \in Final => lapsed > 0 \/ GaveIn(p)
              /\ coh'.state \in Final => lapsed > 0 \/ GaveIn(p)
  OBVIOUS
<1> HIDE DEF p
<1>4. \A d \in Circuits \ {c} : obj'[d].pc = "unused"
  BY AtHand, OthersUnused
<1>5. lapsed' = lapsed /\ coh'.window = coh.window /\ (Halted => Halted')
  BY SteadyHalted DEF Steady
<1>6. Fit(obj[c]) /\ Placed(c)
  BY AtHand
<1>7. Ended(self.seen) => Ended(self.seen)'
  BY <1>5 DEF Ended, Expired
<1>8. Fit(obj[c])'
  <2>1. Held(obj[c])' /\ Sent(obj[c])' /\ Open(obj[c])'
    BY <1>1, <1>2 DEF Held, Sent, Open, Live, InHand
  <2>2. Fresh(obj[c])'
    BY <1>1, <1>2, <1>3, <1>5 DEF Fresh, GaveIn, Exhausted
  <2>3. Astray(obj[c])'
    BY <1>1, <1>2, <1>5, <1>6, <1>7 DEF Astray, Fit, Ended, Expired
  <2> QED BY <2>1, <2>2, <2>3 DEF Fit
<1>9. Placed(c)'
  BY <1>1, <1>2, <1>5, <1>6 DEF Placed, Used, Live, InHand
<1> QED BY <1>4, <1>8, <1>9, Alone

\* The circuit gives up its turn, and no order is under way.
LEMMA Settles ==
    ASSUME IInv, IInv', Quiet, NEW c \in Circuits, obj[c].pc \in InHand,
           NEW self \in Object, NEW pc \in {"asked", "wol", "out"}, Settle(c, self, pc),
           self.recurrent = obj[c].recurrent, self.recurrent => pc = "out" /\ ~self.thread,
           self.thread = obj[c].thread,
           Steady, ~Pending', c \in Members(container) => ~self.recurrent,
           self.kept = phase'[self.step] /\ \A j \in self.todo : self.step < j,
           Workflow[self.step] = "wol" /\ ~self.recurrent => self.seen.state = "scheduled",
           ~self.recurrent =>
              /\ coh.window = 0 => self.seen.state \notin Final /\ (coh'.state \in Final => lapsed > 0)
              /\ pc # "out" => self.kept = "running"
              /\ pc = "wol" => Workflow[self.step] = "wol"
              /\ self.seen.state # "stopped" /\ self.step # LastStep,
           phase'[LastStep] # "done" /\ coh'.state # "done" /\ self.seen.state # "done",
           LastStep \in self.todo \/ self.step = LastStep
    PROVE  Quiet'
<1> DEFINE p == [self EXCEPT !.pc = pc, !.thread = FALSE]
           q == IF self.thread THEN Append(container, c) ELSE container
<1>1. /\ p.pc = pc /\ p.thread = FALSE /\ p.step = self.step /\ p.todo = self.todo
      /\ p.seen = self.seen /\ p.kept = self.kept /\ p.recurrent = self.recurrent
      /\ p.of = self.of
  BY DEF Object
<1>2. /\ obj'[c] = IF pc = "out" /\ c \notin Members(q) THEN Unused ELSE p
      /\ container' = q /\ tracked' = TRUE
  BY DEF Settle, IInv, ObjInv
<1> HIDE DEF p
<1>3. self.thread => c \in Members(q)
  <2>1. /\ container \in Seq(Circuits) /\ Once(container)
        /\ self.thread => c \notin Members(container)
    BY DEF IInv, ObjInv, Place
  <2> QED BY <2>1, AppendMembers
<1>4. \A d \in Circuits \ {c} : obj'[d].pc = "unused"
  BY AtHand, OthersUnused DEF Live
<1>5. lapsed' = lapsed /\ coh'.window = coh.window /\ (Halted => Halted')
  BY SteadyHalted DEF Steady
<1>6. Fit(obj[c]) /\ Placed(c)
  BY AtHand DEF Live
<1>7. CASE pc = "out" /\ c \notin Members(q)
  <2>1. obj'[c].pc = "unused" /\ ~obj'[c].recurrent /\ c \notin Members(container')
    BY <1>2, <1>7 DEF Unused
  <2>2. Fit(obj[c])' /\ Placed(c)'
    BY <2>1 DEF Fit, Held, Fresh, Sent, Open, Astray, Placed, Used, Busy, InHand, Live
  <2> QED BY <1>4, <2>2, Alone
<1>8. CASE ~(pc = "out" /\ c \notin Members(q))
  <2>1. obj'[c] = p /\ ~self.recurrent
    BY <1>2, <1>8
  <2>2. Held(obj[c])' /\ Sent(obj[c])' /\ Open(obj[c])' /\ Fresh(obj[c])' /\ Astray(obj[c])'
    BY <1>1, <1>5, <2>1 DEF Held, Sent, Open, Fresh, Astray, Live, InHand
  <2>3. Placed(c)'
    BY <1>1, <1>2, <1>3, <1>5, <1>6, <2>1 DEF Placed, Used, Live, InHand
  <2> QED BY <1>4, <2>2, <2>3, Alone DEF Fit
<1> QED BY <1>7, <1>8

LEMMA PhaseWritten ==
    ASSUME IInv, NEW i \in Steps, NEW new \in PhaseStates,
           phase' = FlushPhase(i, phase[i], new) \/ phase' = [phase EXCEPT ![i] = new]
    PROVE  phase'[i] = new /\ \A j \in Steps \ {i} : phase'[j] = phase[j]
BY DEF IInv, RestInv, FlushPhase

LEMMA StateFlushed ==
    ASSUME IInv, NEW old \in Row, NEW s \in CoHStates, coh' = Flush(old, [old EXCEPT !.state = s])
    PROVE  /\ coh'.window = coh.window /\ coh'.attempts_failed = coh.attempts_failed
           /\ coh'.state = IF s = old.state THEN coh.state ELSE s
BY DEF IInv, RowInv, Row, Flush

LEMMA StateSet ==
    ASSUME IInv, NEW s, coh' = [coh EXCEPT !.state = s]
    PROVE  /\ coh'.window = coh.window /\ coh'.attempts_failed = coh.attempts_failed
           /\ coh'.state = s
BY DEF IInv, RowInv, Row

LEMMA ChargeFlushed ==
    ASSUME IInv, NEW old \in Row, NEW row \in Row, row.window = old.window,
           coh' = Flush(old, Charged(row))
    PROVE  /\ coh'.window = coh.window
           /\ Charged(row).state \in {row.state, "failed"}
           /\ Charged(row).state = "failed" => row.state = "failed" \/ Exhausted(Charged(row))
           /\ coh'.state = IF Charged(row).state = old.state THEN coh.state
                           ELSE Charged(row).state
<1> DEFINE n == IF Exhausted(row) THEN row.attempts_failed ELSE row.attempts_failed + 1
<1>1. Charged(row) = [row EXCEPT !.attempts_failed = n,
                                 !.state = IF n >= MaxAttempts THEN "failed" ELSE @]
  BY DEF Charged
<1> HIDE DEF n
<1>2. /\ Charged(row).window = row.window /\ Charged(row).attempts_failed = n
      /\ Charged(row).state = IF n >= MaxAttempts THEN "failed" ELSE row.state
  BY <1>1 DEF Row
<1> QED BY <1>2 DEF Flush, Row, IInv, RowInv, Exhausted

\* On to the next phase, whose copy is the row.
LEMMA Nexts ==
    ASSUME IInv, IInv', Quiet, NEW c \in Circuits, Walking(c), NextPhase(c), Steady,
           UNCHANGED <<order, results>>,
           \A j \in Steps \ {obj[c].step} : phase'[j] = phase[j],
           obj[c].todo = {} => phase' = phase,
           phase'[LastStep] # "done",
           coh'.state \in {coh.state, "scheduled"},
           GaveIn(obj[c]) => lapsed > 0,
           obj[c].recurrent => Ended(coh)'
    PROVE  Quiet'
<1>1. obj[c].pc = "walk" /\ obj[c].pc \in Live /\ obj[c].pc \in InHand
  BY DEF Walking, Live, InHand
<1>2. /\ ~Pending' /\ Fit(obj[c]) /\ obj[c] \in Object /\ Able(c, obj[c])
      /\ phase \in [Steps -> PhaseStates] /\ coh \in Row /\ obj[c].step \in Steps
      /\ LastStep \in Steps /\ Steps = 1..LastStep
      /\ \A i \in Steps : Workflow[i] = "wol" => i = 1
  BY <1>1, AtHand, UnderWay, CircuitAssumption DEF IInv, Pending, CircuitAssumption
<1>3. /\ obj[c].kept = phase[obj[c].step] /\ \A j \in obj[c].todo : obj[c].step < j
      /\ coh.state # "done" /\ obj[c].seen.state # "done"
      /\ LastStep \in obj[c].todo \/ obj[c].step = LastStep
      /\ coh.window = 0 /\ coh.state \in Final => lapsed > 0
      /\ obj[c].recurrent => Ended(obj[c].seen) /\ Ended(coh)
      /\ obj[c].todo \subseteq Steps
  BY <1>1, <1>2 DEF Fit, Held, Open, Fresh, Astray, Object
<1>4. CASE obj[c].todo = {}
  <2>1. Release(c, obj[c])
    BY <1>4 DEF NextPhase
  <2> QED BY <1>1, <1>2, <1>3, <1>4, <2>1, Releases DEF Able
<1>5. CASE obj[c].todo # {}
  <2>1. PICK i \in obj[c].todo :
          /\ IsFirst(i, obj[c].todo)
          /\ Walk(c, [obj[c] EXCEPT !.step = i, !.todo = @ \ {i},
                                    !.seen = coh, !.kept = phase[i]])
    BY <1>5 DEF NextPhase
  <2> DEFINE p == [obj[c] EXCEPT !.step = i, !.todo = @ \ {i},
                                 !.seen = coh, !.kept = phase[i]]
  <2>2. i \in Steps /\ obj[c].step < i /\ phase[i] \in PhaseStates
    BY <1>2, <1>3
  <2>3. /\ p \in Object /\ p.step = i /\ p.todo = obj[c].todo \ {i} /\ p.seen = coh
        /\ p.kept = phase[i] /\ p.recurrent = obj[c].recurrent /\ p.thread = obj[c].thread
        /\ p.of = obj[c].of
    BY <1>2, <2>2 DEF Object
  <2>4. Walk(c, p)
    BY <2>1
  <2> HIDE DEF p
  <2>5. p.kept = phase'[p.step] /\ \A j \in p.todo : p.step < j
    BY <1>2, <1>3, <2>1, <2>2, <2>3 DEF IsFirst, Quiet
  <2>6. Workflow[i] # "wol"
    BY <1>2, <2>2
  <2>7. LastStep \in p.todo \/ p.step = LastStep
    BY <1>2, <1>3, <2>2, <2>3
  <2>8. coh'.state \in Final => coh.state \in Final
    BY DEF Final
  <2>9. coh'.state # "done"
    BY <1>3
  <2> QED BY <1>1, <1>2, <1>3, <2>3, <2>4, <2>5, <2>6, <2>7, <2>8, <2>9, Walks
<1> QED BY <1>4, <1>5

LEMMA SkipQuiet ==
    ASSUME IInv, IInv', Quiet, NEW c \in Circuits, Skip(c)
    PROVE  Quiet' /\ KeepsDone
<1> DEFINE seen == obj[c].seen
           i == obj[c].step
<1>1. /\ Walking(c) /\ obj[c].pc = "walk" /\ obj[c].pc \in Live /\ obj[c].pc \in InHand
      /\ UNCHANGED <<lapsed, order, results, calls, ops, faults>> /\ NextPhase(c)
  BY DEF Skip, Walking, Live, InHand
<1>2. /\ Fit(obj[c]) /\ seen \in Row /\ i \in Steps /\ seen.window \in Nat
      /\ coh.window \in Nat /\ lapsed \in Nat /\ LastStep \in Steps
  BY <1>1, AtHand, UnderWay DEF IInv
<1>3. Name(c) \in {"upload", "execute", "delete", "wol"} /\ Workflow[LastStep] = "done"
      /\ Name(c) = Workflow[i]
  BY <1>2, CircuitAssumption DEF CircuitAssumption, Skip, LastStep, Name
<1>4. phase[LastStep] # "done" /\ i # LastStep /\ obj[c].kept = phase[i] /\ LastStep \in obj[c].todo
  BY <1>1, <1>2, <1>3 DEF Fit, Held, Open
<1>5. /\ \A j \in Steps \ {i} : phase'[j] = phase[j]
      /\ phase'[i] = "done" \/ phase'[i] = phase[i]
  BY <1>2, <1>4, PhaseWritten DEF Skip, PhaseStates
<1>6. /\ coh'.window = coh.window
      /\ coh' = coh \/ (/\ Name(c) = "wol" /\ seen.state \notin {"stopped", "scheduled"}
                       /\ coh'.state = "scheduled")
      /\ coh'.state \in {coh.state, "scheduled"}
  <2>1. CASE Name(c) = "wol" /\ seen.state # "stopped"
    <3>1. coh' = Flush(seen, [seen EXCEPT !.state = "scheduled"])
      BY <2>1 DEF Skip
    <3>2. CASE seen.state = "scheduled"
      <4>1. coh' = coh
        BY <1>2, <3>1, <3>2 DEF Flush, IInv, RowInv, Row
      <4> QED BY <4>1
    <3>3. CASE seen.state # "scheduled"
      BY <1>2, <2>1, <3>1, <3>3, StateFlushed DEF CoHStates
    <3> QED BY <3>2, <3>3
  <2>2. CASE ~(Name(c) = "wol" /\ seen.state # "stopped")
    BY <2>2 DEF Skip
  <2> QED BY <2>1, <2>2
<1>7. coh' # coh => Expired(seen) /\ (Halted => Expired(coh)) /\ obj[c].recurrent
  <2> SUFFICES ASSUME coh' # coh
               PROVE  Expired(seen) /\ (Halted => Expired(coh)) /\ obj[c].recurrent
    OBVIOUS
  <2>1. Workflow[i] = "wol" /\ seen.state \notin {"stopped", "scheduled"}
    BY <1>3, <1>6
  <2>2. obj[c].recurrent
    BY <1>1, <1>2, <2>1 DEF Fit, Held
  <2>3. Expired(seen)
    BY <1>2, <2>1, <2>2 DEF Fit, Astray, Ended
  <2> QED BY <1>2, <2>2, <2>3 DEF Expired, Halted
<1>8. Steady
  BY <1>1, <1>6, <1>7 DEF Steady, Halted
<1>9. obj[c].recurrent => Ended(coh)'
  <2> SUFFICES ASSUME obj[c].recurrent PROVE Ended(coh)'
    OBVIOUS
  <2>1. Halted /\ Ended(coh)
    BY <1>2 DEF Fit, Astray
  <2> QED BY <1>1, <1>6, <1>7, <2>1 DEF Ended, Expired
<1>10. ~GaveIn(obj[c])
  BY <1>3 DEF GaveIn
<1>11. Quiet'
  BY <1>1, <1>2, <1>4, <1>5, <1>6, <1>8, <1>9, <1>10, Nexts
<1>12. KeepsDone
  BY <1>5 DEF KeepsDone
<1> QED BY <1>11, <1>12

\* A circuit that walks.
LEMMA Walker ==
    ASSUME IInv, Quiet, NEW c \in Circuits, Walking(c)
    PROVE  /\ obj[c].pc = "walk" /\ obj[c].pc \in Live /\ obj[c].pc \in InHand /\ ~Pending
           /\ obj[c] \in Object /\ obj[c].seen \in Row /\ obj[c].seen.window \in Nat
           /\ obj[c].seen.window <= coh.window /\ coh.window \in Nat /\ lapsed \in Nat
           /\ obj[c].step \in Steps /\ LastStep \in Steps
           /\ Workflow[obj[c].step] = "done" => obj[c].step = LastStep
           /\ obj[c].kept = phase[obj[c].step] /\ \A j \in obj[c].todo : obj[c].step < j
           /\ phase[LastStep] # "done" /\ coh.state # "done" /\ obj[c].seen.state # "done"
           /\ LastStep \in obj[c].todo \/ obj[c].step = LastStep
           /\ obj[c].recurrent => c \notin Members(container) /\ obj[c].of # LastStep
                                  /\ Halted /\ Ended(obj[c].seen) /\ Ended(coh)
           /\ Workflow[obj[c].step] = "wol" /\ ~obj[c].recurrent
                 => obj[c].seen.state = "scheduled"
           /\ coh.window = 0 => /\ obj[c].seen.state \in Final => lapsed > 0 \/ GaveIn(obj[c])
                                /\ coh.state \in Final => lapsed > 0 \/ GaveIn(obj[c])
<1>1. obj[c].pc = "walk" /\ obj[c].pc \in Live /\ obj[c].pc \in InHand
  BY DEF Walking, Live, InHand
<1>2. Able(c, obj[c]) /\ obj[c].step \in Steps /\ Fit(obj[c])
  BY <1>1, UnderWay, AtHand DEF IInv
<1>3. Workflow[obj[c].step] = "done" => obj[c].step = LastStep
  BY <1>2, CircuitAssumption DEF CircuitAssumption, LastStep
<1> QED BY <1>1, <1>2, <1>3, AtHand DEF Fit, Held, Open, Astray, Fresh, Able

\* The general rules let it go on: it is nobody's recurrent circuit, and nothing
\* is final before an extension.
LEMMA OnTime ==
    ASSUME IInv, Quiet, NEW c \in Circuits, InTime(c)
    PROVE  /\ Walking(c) /\ ~obj[c].recurrent /\ obj[c].seen.state # "stopped"
           /\ coh.window = 0 /\ ~GaveIn(obj[c])
                 => lapsed = 0 /\ obj[c].seen.state \notin Final /\ coh.state \notin Final
           /\ coh.window = 0 => lapsed = 0
<1>1. Walking(c) /\ obj[c].seen.state # "stopped" /\ ~Expired(obj[c].seen)
  BY DEF InTime, General, Stopped
<1>2. ~obj[c].recurrent
  BY <1>1, Walker DEF Ended
<1>3. coh.window = 0 => lapsed = 0
  BY <1>1, Walker DEF Expired
<1> QED BY <1>1, <1>2, <1>3, Walker

LEMMA EndsQuiet ==
    ASSUME IInv, IInv', Quiet, NEW c \in Circuits,
           Advance(c) \/ StopSeen(c) \/ ForcedFinish(c) \/ OverTimed(c) \/ OutOfAttempts(c)
    PROVE  Quiet' /\ KeepsDone
<1> DEFINE seen == obj[c].seen
<1>1. /\ Walking(c) /\ UNCHANGED <<phase, lapsed, order, results, calls, ops, faults>>
      /\ (~Pending => ~Pending')
  BY DEF Advance, StopSeen, ForcedFinish, OverTimed, OutOfAttempts, Finished, Stopped,
         TooLate, GivenUp, InTime, General, Pending
<1>2. KeepsDone
  BY <1>1 DEF KeepsDone
<1>3. Expired(seen) => lapsed > 0 /\ (coh.window = 0 => Expired(coh))
  BY <1>1, Walker DEF Expired
<1>4. CASE Advance(c)
  <2>1. NextPhase(c) /\ coh' = coh /\ obj[c].kept = "done"
    BY <1>4 DEF Advance, Finished
  <2>2. Steady /\ (Ended(coh) => Ended(coh)')
    BY <1>1, <2>1 DEF Steady, Halted, Ended, Expired
  <2> QED BY <1>1, <1>2, <2>1, <2>2, Walker, Nexts DEF GaveIn
<1>5. CASE ForcedFinish(c)
  <2>1. NextPhase(c) /\ coh' = coh /\ Expired(seen)
    BY <1>5 DEF ForcedFinish, TooLate
  <2>2. Steady /\ (Ended(coh) => Ended(coh)')
    BY <1>1, <2>1 DEF Steady, Halted, Ended, Expired
  <2> QED BY <1>1, <1>2, <1>3, <2>1, <2>2, Walker, Nexts
<1>6. CASE StopSeen(c)
  <2>1. Release(c, obj[c]) /\ coh'.state = "stopped" /\ coh'.window = coh.window
    BY <1>6, StateSet DEF StopSeen
  <2>2. Steady /\ Ended(coh)'
    BY <1>1, <2>1 DEF Steady, Ended
  <2> QED BY <1>1, <1>2, <2>1, <2>2, Walker, Releases
<1>7. CASE OverTimed(c)
  <2>1. /\ Release(c, obj[c]) /\ Expired(seen) /\ coh'.window = coh.window
        /\ coh'.state \in {"failed", "over_timed"}
    BY <1>7, StateSet DEF OverTimed, TooLate
  <2>2. Steady
    BY <1>1, <2>1 DEF Steady
  <2>3. obj[c].recurrent => Ended(coh)'
    BY <1>1, <1>3, <2>1, Walker DEF Ended, Expired, Halted
  <2> QED BY <1>1, <1>2, <2>1, <2>2, <2>3, Walker, Releases
<1>8. CASE OutOfAttempts(c)
  <2>1. Release(c, obj[c]) /\ InTime(c) /\ coh' = Flush(seen, [seen EXCEPT !.state = "failed"])
    BY <1>8 DEF OutOfAttempts, GivenUp
  <2>2. coh'.window = coh.window /\ coh'.state \in {coh.state, "failed"}
    BY <1>1, <2>1, StateFlushed, Walker DEF CoHStates
  <2>3. Steady /\ ~obj[c].recurrent
    BY <1>1, <2>1, <2>2, OnTime DEF Steady, Halted
  <2> QED BY <1>1, <1>2, <2>1, <2>2, <2>3, Walker, Releases
<1> QED BY <1>4, <1>5, <1>6, <1>7, <1>8

LEMMA PerformQuiet ==
    ASSUME IInv, IInv', Quiet, NEW c \in Circuits, Perform(c) \/ PerformWOL(c)
    PROVE  Quiet' /\ KeepsDone
<1> DEFINE i == obj[c].step
           o == [obj[c] EXCEPT !.kept = "running"]
<1>1. /\ Walking(c) /\ ~obj[c].recurrent /\ obj[c].kept # "done"
      /\ UNCHANGED <<coh, lapsed, order, results, calls, ops, faults>>
      /\ phase' = FlushPhase(i, obj[c].kept, "running")
      /\ Settle(c, o, "asked") \/ Settle(c, o, "wol")
      /\ Workflow[i] \in Remote \cup {"wol"}
      /\ Perform(c) => InTime(c) /\ Workflow[i] \in Remote
      /\ PerformWOL(c) => Workflow[i] = "wol"
      /\ Settle(c, o, "asked") \/ Workflow[i] = "wol"
  BY DEF Perform, PerformWOL, ToPerform, InTime, General, Host, Name, Walking
<1>2. (~Pending => ~Pending') /\ Steady
  BY <1>1 DEF Pending, Steady, Halted
<1>3. o \in Object /\ o.step = i /\ o.todo = obj[c].todo /\ o.seen = obj[c].seen
      /\ o.kept = "running" /\ o.recurrent = obj[c].recurrent /\ o.thread = obj[c].thread
  BY <1>1, Walker DEF Object, PhaseStates
<1> HIDE DEF o
<1>4. i # LastStep
  <2>1. Workflow[LastStep] = "done"
    BY <1>1, Walker, CircuitAssumption DEF CircuitAssumption, LastStep
  <2> QED BY <1>1, <2>1 DEF Remote
<1>5. phase'[i] = "running" /\ \A j \in Steps \ {i} : phase'[j] = phase[j]
  BY <1>1, Walker, PhaseWritten DEF PhaseStates
<1>6. KeepsDone
  BY <1>1, <1>5, Walker DEF KeepsDone
<1>7. /\ obj[c].seen.state # "stopped"
      /\ coh.window = 0 => obj[c].seen.state \notin Final /\ (coh'.state \in Final => lapsed > 0)
  <2>1. ~GaveIn(obj[c])
    BY <1>1 DEF GaveIn, Remote
  <2>2. CASE Perform(c)
    BY <1>1, <2>1, <2>2, OnTime
  <2>3. CASE PerformWOL(c)
    BY <1>1, <2>1, <2>3, Walker DEF Final
  <2> QED BY <2>2, <2>3
<1> QED BY <1>1, <1>2, <1>3, <1>4, <1>5, <1>6, <1>7, Walker, Settles

LEMMA PerformWithoutHostQuiet ==
    ASSUME IInv, IInv', Quiet, NEW c \in Circuits, PerformWithoutHost(c)
    PROVE  Quiet' /\ KeepsDone
<1> DEFINE i == obj[c].step
           seen == obj[c].seen
           o == [obj[c] EXCEPT !.seen = Charged(seen), !.kept = "failed"]
<1>1. /\ InTime(c) /\ obj[c].kept # "done" /\ Workflow[i] \in Remote
      /\ UNCHANGED <<lapsed, order, results, calls, ops, faults>>
      /\ coh' = Flush(seen, Charged(seen)) /\ phase' = [phase EXCEPT ![i] = "failed"]
      /\ Release(c, o)
  BY DEF PerformWithoutHost, ToPerform, Name
<1>2. Walking(c) /\ ~obj[c].recurrent
  BY <1>1, OnTime
<1>3. o \in Object /\ o.recurrent = obj[c].recurrent
  BY <1>2, Walker, ChargedRow, UnderWay DEF Object, PhaseStates, IInv
<1> HIDE DEF o
<1>4. phase'[i] = "failed" /\ \A j \in Steps \ {i} : phase'[j] = phase[j]
  BY <1>1, <1>2, Walker, PhaseWritten DEF PhaseStates
<1>5. Charged(seen) \in Row
  BY <1>2, Walker, ChargedRow, UnderWay DEF IInv
<1>6. coh'.window = coh.window /\ coh'.state \in {coh.state, "failed"}
  BY <1>1, <1>2, <1>5, Walker, ChargeFlushed
<1>7. Steady /\ (~Pending => ~Pending')
  BY <1>1, <1>6 DEF Steady, Halted, Pending
<1>8. KeepsDone
  BY <1>1, <1>2, <1>4, Walker DEF KeepsDone
<1>9. phase'[LastStep] # "done"
  BY <1>2, <1>4, Walker
<1> QED BY <1>1, <1>2, <1>3, <1>6, <1>7, <1>8, <1>9, Walker, Releases

LEMMA PerformDoneQuiet ==
    ASSUME IInv, IInv', Quiet, NEW c \in Circuits, PerformDone(c)
    PROVE  Quiet' /\ KeepsDone
<1> DEFINE i == obj[c].step
           seen == obj[c].seen
<1>1. /\ InTime(c) /\ Workflow[i] = "done"
      /\ obj[c].todo = {} => Release(c, obj[c])
      /\ UNCHANGED <<lapsed, order, results, calls, ops, faults>>
      /\ coh' = Flush(seen, [seen EXCEPT !.state = "done"])
      /\ phase' = [phase EXCEPT ![i] = "done"]
  BY DEF PerformDone, ToPerform, Name
<1>2. Walking(c) /\ ~obj[c].recurrent /\ Release(c, obj[c])
  <2>1. Walking(c) /\ ~obj[c].recurrent
    BY <1>1, OnTime
  <2>2. /\ i = LastStep /\ obj[c].todo \subseteq Steps
        /\ \A j \in obj[c].todo : i < j
    BY <1>1, <2>1, Walker, CircuitAssumption DEF CircuitAssumption, LastStep, Object
  <2>3. obj[c].todo = {}
    BY <2>2, Constants DEF LastStep
  <2> QED BY <1>1, <2>1, <2>3
<1>3. coh'.window = coh.window /\ coh'.state = "done"
  BY <1>1, <1>2, Walker, StateFlushed DEF CoHStates
<1>4. Steady /\ (~Pending => ~Pending')
  BY <1>1, <1>3 DEF Steady, Pending
<1>5. KeepsDone
  BY <1>1, <1>2, Walker, PhaseWritten DEF KeepsDone, PhaseStates
<1> QED BY <1>1, <1>2, <1>3, <1>4, <1>5, Walker, Releases

LEMMA WUParseQuiet ==
    ASSUME IInv, IInv', Quiet, NEW c \in Circuits, PerformWUParse(c)
    PROVE  Quiet' /\ KeepsDone
<1> DEFINE i == obj[c].step
           seen == obj[c].seen
           d == [obj[c] EXCEPT !.kept = "done"]
           o == [obj[c] EXCEPT !.seen = Charged(seen), !.kept = "failed"]
<1>1. /\ InTime(c) /\ ~GivenUp(c) /\ obj[c].kept # "done" /\ Workflow[i] = "wu_parse"
      /\ UNCHANGED <<lapsed, order, results, calls, ops, faults>>
      /\ \/ phase' = [phase EXCEPT ![i] = "done"] /\ Walk(c, d) /\ coh' = coh
         \/ /\ coh' = Flush(seen, Charged(seen)) /\ phase' = [phase EXCEPT ![i] = "failed"]
            /\ Walk(c, o)
  BY DEF PerformWUParse, ToPerform, Name
<1>2. Walking(c) /\ ~obj[c].recurrent /\ i # LastStep /\ ~GaveIn(obj[c])
  <2>1. Workflow[LastStep] = "done"
    BY <1>1, OnTime, Walker, CircuitAssumption DEF CircuitAssumption, LastStep
  <2> QED BY <1>1, <2>1, OnTime DEF GaveIn, GivenUp
<1>3. /\ coh.window = 0 => /\ seen.state \notin Final /\ coh.state \notin Final
      /\ (~Pending => ~Pending')
  BY <1>1, <1>2, OnTime DEF Pending
<1>4. Charged(seen) \in Row
  BY <1>2, Walker, ChargedRow, UnderWay DEF IInv
<1>5. /\ d \in Object /\ d.step = i /\ d.todo = obj[c].todo /\ d.seen = seen /\ d.of = obj[c].of
      /\ d.kept = "done" /\ d.recurrent = obj[c].recurrent /\ d.thread = obj[c].thread
      /\ o \in Object /\ o.step = i /\ o.todo = obj[c].todo /\ o.seen = Charged(seen)
      /\ o.kept = "failed" /\ o.recurrent = obj[c].recurrent /\ o.thread = obj[c].thread
      /\ o.of = obj[c].of
  BY <1>2, <1>4, Walker DEF Object, PhaseStates
<1>6. [o EXCEPT !.pc = "walk"].pc = "walk" /\ [o EXCEPT !.pc = "walk"].kept = "failed"
      /\ [o EXCEPT !.pc = "walk"].step = i /\ [o EXCEPT !.pc = "walk"].seen = Charged(seen)
  BY <1>5 DEF Object
<1> HIDE DEF d, o
<1>7. CASE phase' = [phase EXCEPT ![i] = "done"] /\ Walk(c, d) /\ coh' = coh
  <2>1. phase'[i] = "done" /\ \A j \in Steps \ {i} : phase'[j] = phase[j]
    BY <1>2, <1>7, Walker, PhaseWritten DEF PhaseStates
  <2>2. KeepsDone
    BY <2>1 DEF KeepsDone
  <2>3. Steady
    BY <1>1, <1>7 DEF Steady, Halted
  <2>4. /\ phase'[LastStep] # "done" /\ coh'.state # "done" /\ d.seen.state # "done"
        /\ d.kept = phase'[d.step] /\ \A j \in d.todo : d.step < j
        /\ LastStep \in d.todo \/ d.step = LastStep
        /\ Workflow[d.step] # "wol" /\ ~d.recurrent
        /\ d.thread = IF obj[c].pc = "queued" THEN TRUE ELSE obj[c].thread
        /\ obj[c].pc \in Live /\ ~Pending'
        /\ coh.window = 0 => d.seen.state \notin Final /\ coh'.state \notin Final
    BY <1>1, <1>2, <1>3, <1>5, <1>7, <2>1, Walker
  <2> QED BY <1>2, <1>3, <1>5, <1>7, <2>2, <2>3, <2>4, Walks
<1>8. CASE /\ coh' = Flush(seen, Charged(seen)) /\ phase' = [phase EXCEPT ![i] = "failed"]
           /\ Walk(c, o)
  <2>1. phase'[i] = "failed" /\ \A j \in Steps \ {i} : phase'[j] = phase[j]
    BY <1>2, <1>8, Walker, PhaseWritten DEF PhaseStates
  <2>2. KeepsDone
    BY <1>1, <1>2, <2>1, Walker DEF KeepsDone
  <2>3. /\ coh'.window = coh.window /\ coh'.state \in {coh.state, Charged(seen).state}
        /\ Charged(seen).state \in {seen.state, "failed"}
        /\ Charged(seen).state = "failed" => seen.state = "failed" \/ Exhausted(Charged(seen))
        /\ coh'.state = IF Charged(seen).state = seen.state THEN coh.state
                        ELSE Charged(seen).state
    BY <1>2, <1>4, <1>8, Walker, ChargeFlushed
  <2>4. Steady
    BY <1>1, <2>3 DEF Steady, Halted
  <2>5. Exhausted(Charged(seen)) => GaveIn([o EXCEPT !.pc = "walk"])
    BY <1>1, <1>6 DEF GaveIn
  <2>6. coh.window = 0 =>
          /\ o.seen.state \in Final => GaveIn([o EXCEPT !.pc = "walk"])
          /\ coh'.state \in Final => GaveIn([o EXCEPT !.pc = "walk"])
    BY <1>3, <1>5, <2>3, <2>5 DEF Final
  <2>7. Workflow[o.step] # "wol" /\ phase'[LastStep] # "done"
        /\ coh'.state # "done" /\ o.seen.state # "done"
    BY <1>1, <1>2, <1>5, <2>1, <2>3, Walker
  <2> QED BY <1>1, <1>2, <1>3, <1>5, <1>8, <2>1, <2>2, <2>4, <2>6, <2>7, Walker, Walks
<1> QED BY <1>1, <1>7, <1>8

LEMMA StepQuiet ==
    ASSUME IInv, IInv', Quiet, NEW c \in Circuits, Step(c)
    PROVE  Quiet' /\ KeepsDone
BY SkipQuiet, EndsQuiet, PerformQuiet, PerformWithoutHostQuiet, WUParseQuiet, PerformDoneQuiet
   DEF Step

\* A circuit that had to wait.
LEMMA Waiter ==
    ASSUME IInv, Quiet, NEW c \in Circuits, obj[c].pc \in {"asked", "wol", "out", "parse"}
    PROVE  /\ obj[c].pc \in Live /\ obj[c].pc \in InHand
           /\ obj[c].pc # "out" => ~Pending
           /\ obj[c] \in Object /\ obj[c].seen \in Row /\ ~obj[c].thread
           /\ obj[c].seen.attempts_failed <= MaxAttempts
           /\ coh.window \in Nat /\ lapsed \in Nat
           /\ obj[c].step \in Steps /\ LastStep \in Steps
           /\ obj[c].kept = phase[obj[c].step] /\ \A j \in obj[c].todo : obj[c].step < j
           /\ phase[LastStep] # "done" /\ coh.state # "done" /\ obj[c].seen.state # "done"
           /\ LastStep \in obj[c].todo \/ obj[c].step = LastStep
           /\ obj[c].recurrent => c \notin Members(container) /\ obj[c].of # LastStep
                                  /\ Halted /\ Ended(obj[c].seen) /\ Ended(coh)
           /\ Workflow[obj[c].step] = "wol" /\ ~obj[c].recurrent
                 => obj[c].seen.state = "scheduled"
           /\ coh.window = 0 => /\ obj[c].seen.state \in Final => lapsed > 0
                                /\ coh.state \in Final => lapsed > 0
           /\ ~GaveIn(obj[c])
           /\ obj[c].pc = "parse" => obj[c].recurrent
           /\ obj[c].pc # "parse" =>
                 /\ ~obj[c].recurrent /\ obj[c].seen.state # "stopped" /\ obj[c].step # LastStep
                 /\ coh.window = 0 => obj[c].seen.state \notin Final
           /\ obj[c].pc \in {"asked", "wol"} => obj[c].kept = "running"
           /\ obj[c].pc = "wol" => obj[c].seen.state = "scheduled"
           /\ \A d \in Circuits \ {c} : obj[d].pc = "unused"
<1>1. obj[c].pc \in Live /\ obj[c].pc \in InHand /\ obj[c].pc # "walk" /\ ~GaveIn(obj[c])
  BY DEF Live, InHand, GaveIn
<1>2. /\ Able(c, obj[c]) /\ obj[c].step \in Steps /\ ~obj[c].thread
      /\ obj[c].pc # "parse" => ~obj[c].recurrent
  BY <1>1, UnderWay DEF IInv
<1>3. Fit(obj[c]) /\ Placed(c)
  BY <1>1, AtHand
<1> QED BY <1>1, <1>2, <1>3, AtHand, UnderWay DEF Fit, Held, Sent, Open, Astray, Fresh, Able, IInv

\* The phase is done, and its rules are applied once more.
LEMMA AgainQuiet ==
    ASSUME IInv, IInv', Quiet, NEW c \in Circuits, obj[c].pc \in {"asked", "wol", "out", "parse"},
           NEW self \in Object, Walk(c, self),
           self.step = obj[c].step /\ self.todo = obj[c].todo /\ self.seen = obj[c].seen,
           self.recurrent = obj[c].recurrent /\ self.thread = obj[c].thread,
           self.of = obj[c].of /\ self.kept = "done", obj[c].step # LastStep,
           \/ phase' = FlushPhase(obj[c].step, obj[c].kept, "done")
           \/ phase' = [phase EXCEPT ![obj[c].step] = "done"],
           UNCHANGED <<coh, lapsed, calls, ops, faults>>, ~Pending'
    PROVE  Quiet' /\ KeepsDone
<1>1. phase'[obj[c].step] = "done" /\ \A j \in Steps \ {obj[c].step} : phase'[j] = phase[j]
  BY Waiter, PhaseWritten DEF PhaseStates
<1>2. KeepsDone
  BY <1>1 DEF KeepsDone
<1>3. Steady /\ (Ended(coh) => Ended(coh)')
  BY DEF Steady, Halted, Ended, Expired
<1>4. phase'[LastStep] # "done" /\ coh'.state # "done" /\ self.seen.state # "done"
  BY <1>1, Waiter
<1>5. coh.window = 0 => /\ self.seen.state \in Final => lapsed > 0
                        /\ coh'.state \in Final => lapsed > 0
  BY Waiter
<1>6. /\ self.kept = phase'[self.step] /\ \A j \in self.todo : self.step < j
      /\ Workflow[self.step] = "wol" /\ ~self.recurrent => self.seen.state = "scheduled"
      /\ LastStep \in self.todo \/ self.step = LastStep
      /\ self.recurrent => Ended(self.seen) /\ Ended(coh)'
      /\ self.thread = IF obj[c].pc = "queued" THEN TRUE ELSE obj[c].thread
      /\ obj[c].pc \in Live
  BY <1>1, <1>3, Waiter
<1> QED BY <1>2, <1>3, <1>4, <1>5, <1>6, Walks

LEMMA FailQuiet ==
    ASSUME IInv, IInv', Quiet, NEW c \in Circuits, obj[c].pc \in {"asked", "wol", "out", "parse"},
           NEW row \in Row, row.window = obj[c].seen.window,
           row.attempts_failed = obj[c].seen.attempts_failed,
           row.state = obj[c].seen.state \/ (row.state = "scheduled" /\ ~Halted),
           FailPhase(c, row), UNCHANGED <<lapsed, calls, ops, faults>>, ~Pending'
    PROVE  Quiet' /\ KeepsDone
<1> DEFINE i == obj[c].step
           seen == obj[c].seen
           k == IF obj[c].kept = "running" THEN "failed" ELSE obj[c].kept
           o == [obj[c] EXCEPT !.seen = Charged(row), !.kept = k, !.result = "none"]
<1>1. /\ coh' = Flush(seen, Charged(row)) /\ phase' = FlushPhase(i, obj[c].kept, k)
      /\ Release(c, o)
  BY DEF FailPhase
<1>2. Charged(row) \in Row /\ k \in PhaseStates
  BY Waiter, ChargedRow DEF Object, PhaseStates
<1>3. o \in Object /\ o.recurrent = obj[c].recurrent /\ o.result = "none"
  BY <1>2, Waiter DEF Object
<1>4. obj[c].kept = phase[i] /\ i \in Steps /\ (k = "done" => phase[i] = "done")
      /\ (phase[i] = "done" => k = "done")
  BY Waiter
<1> HIDE DEF o, k
<1>5. phase'[i] = k /\ \A j \in Steps \ {i} : phase'[j] = phase[j]
  BY <1>1, <1>2, <1>4, PhaseWritten
<1>6. KeepsDone /\ phase'[LastStep] # "done"
  BY <1>4, <1>5, Waiter DEF KeepsDone
<1>7. /\ coh'.window = coh.window /\ Charged(row).state \in {row.state, "failed"}
      /\ coh'.state = IF Charged(row).state = seen.state THEN coh.state ELSE Charged(row).state
  BY <1>1, <1>2, Waiter, ChargeFlushed
<1>8. Halted /\ coh'.state = "scheduled" => Expired(coh)
  BY <1>7 DEF Halted
<1>9. Steady
  BY <1>7, <1>8 DEF Steady
<1> QED BY <1>1, <1>3, <1>6, <1>7, <1>9, Waiter, Releases

\* The order is taken: from now on the circuit waits for its result.
LEMMA TakenQuiet ==
    ASSUME IInv, IInv', Quiet, NEW c \in Circuits, OrderTaken(c)
    PROVE  Quiet' /\ KeepsDone /\ phase[order'.step] # "done"
<1> DEFINE p == [obj[c] EXCEPT !.pc = "out", !.thread = FALSE]
<1>1. obj[c].pc = "asked" /\ obj[c].pc \in {"asked", "wol", "out", "parse"}
  BY DEF OrderTaken, Asked
<1>2. /\ order' = [status |-> "running", step |-> obj[c].step]
      /\ UNCHANGED <<coh, phase, lapsed, results, calls, ops, faults>>
      /\ Settle(c, obj[c], "out")
  BY <1>1, Waiter DEF OrderTaken, GiveUp
<1>3. /\ order'.status = "running" /\ order'.step = obj[c].step /\ results = {}
      /\ results' = {} /\ Pending'
  BY <1>1, <1>2, Waiter DEF Pending
<1>4. /\ obj'[c] = IF c \notin Members(container) THEN Unused ELSE p
      /\ container' = container /\ tracked' = TRUE
  BY <1>1, <1>2, Waiter DEF Settle, IInv, ObjInv
<1>5. /\ p.pc = "out" /\ p.thread = FALSE /\ p.step = obj[c].step /\ p.todo = obj[c].todo
      /\ p.seen = obj[c].seen /\ p.kept = obj[c].kept /\ p.recurrent = obj[c].recurrent
      /\ p.of = obj[c].of
  BY <1>1, Waiter DEF Object
<1> HIDE DEF p
<1>6. \A d \in Circuits \ {c} : obj'[d].pc = "unused"
  BY <1>1, <1>2, Waiter, OthersUnused
<1>7. (Halted <=> Halted') /\ (Ended(coh) <=> Ended(coh)') /\ (Called => Called')
  BY <1>2 DEF Halted, Ended, Expired, Called
<1>8. Halted => Ended(coh)
  <2>1. coh.state \in CoHStates
    BY DEF IInv, RowInv, Row
  <2> QED BY <1>1, <2>1, Waiter DEF Halted, Ended, Expired, Final, CoHStates
<1>9. Fit(obj[c]) /\ Placed(c)
  BY <1>1, AtHand DEF Live, InHand
<1>10. Unused.pc = "unused" /\ Unused.recurrent = FALSE
  BY DEF Unused
<1>11. ASSUME NEW d \in Circuits PROVE Fit(obj[d])' /\ Placed(d)'
  <2>1. CASE d = c /\ c \in Members(container)
    <3>1. obj'[c] = p
      BY <1>4, <2>1
    <3>2. Held(obj[c])' /\ Sent(obj[c])' /\ Open(obj[c])' /\ Fresh(obj[c])' /\ Astray(obj[c])'
      BY <1>1, <1>2, <1>5, <3>1, Waiter DEF Held, Sent, Open, Fresh, Astray, Live, InHand
    <3>3. Placed(c)'
      BY <1>4, <2>1, <3>1 DEF Placed
    <3> QED BY <2>1, <3>2, <3>3 DEF Fit
  <2>2. CASE ~(d = c /\ c \in Members(container))
    <3>1. obj'[d].pc = "unused"
      BY <1>4, <1>6, <1>10, <2>2
    <3>2. ~obj'[d].recurrent /\ d \notin Members(container')
      BY <3>1 DEF IInv, ObjInv, Form, Place
    <3> QED BY <3>1, <3>2 DEF Fit, Held, Fresh, Sent, Open, Astray, Placed, Used, InHand, Live
  <2> QED BY <2>1, <2>2
<1>12. Sole'
  BY <1>6 DEF Sole, Used
<1>13. container = <<>> => c \notin Members(container)
  BY DEF Members
<1>14. Orders'
  <2>1. ASSUME NEW d \in Circuits, Used(d)'
        PROVE  d = c /\ c \in Members(container) /\ obj'[c] = p
    BY <1>4, <1>6, <1>10, <2>1 DEF Used
  <2>2. ASSUME NEW d \in Circuits, Used(d)'
        PROVE  /\ obj'[d].pc = "out" /\ d \in Members(container') /\ obj'[d].kept = "running"
               /\ order'.step = obj'[d].step /\ results' \subseteq {obj'[d].step}
    BY <1>1, <1>3, <1>4, <1>5, <2>1, <2>2, Waiter
  <2>3. container' = <<>> => Halted' /\ Ended(coh)'
    BY <1>1, <1>4, <1>7, <1>8, <1>9, <1>13, Waiter DEF Placed, Used
  <2>4. phase'[LastStep] # "done" /\ coh'.state # "done" /\ LastStep \notin results' /\ order'.step # LastStep
    BY <1>1, <1>2, <1>3, Waiter
  <2> QED BY <1>3, <2>2, <2>3, <2>4 DEF Orders
<1>15. Closed'
  BY <1>2, <1>7 DEF Quiet, Closed
<1>16. KeepsDone /\ phase[order'.step] # "done"
  BY <1>1, <1>2, <1>3, Waiter DEF KeepsDone
<1> QED BY <1>7, <1>11, <1>12, <1>14, <1>15, <1>16 DEF Quiet

LEMMA AnswerQuiet ==
    ASSUME IInv, IInv', Quiet, NEW c \in Circuits, Answer(c)
    PROVE  Quiet' /\ KeepsDone
<1> DEFINE seen == obj[c].seen
           next == [seen EXCEPT !.state = "scheduled"]
           d == [obj[c] EXCEPT !.kept = "done"]
<1>1. CASE OrderTaken(c)
  BY <1>1, TakenQuiet
<1>2. CASE ~OrderTaken(c)
  <2>1. /\ obj[c].pc \in {"asked", "wol"} /\ obj[c].pc \in {"asked", "wol", "out", "parse"}
        /\ UNCHANGED <<lapsed, order, results, calls, ops, faults>>
        /\ obj[c].pc = "wol" \/ OrderRefused(c) \/ CallFailed(c)
    BY <1>2 DEF Answer, OrderRefused, CallFailed, WOLUseless, WOLSlept, WOLUnanswered, WOLFailed,
         Asked, InWOL, Quiet, Called
  <2>2. ~Pending' /\ seen \in Row /\ seen.state # "stopped"
    BY <2>1, Waiter DEF Pending
  <2>3. /\ next \in Row /\ next.state = "scheduled" /\ next.window = seen.window
        /\ next.attempts_failed = seen.attempts_failed
    BY <2>2 DEF Row, CoHStates
  <2>4. CASE OrderRefused(c)
    <3>1. FailPhase(c, next)
      BY <2>2, <2>4 DEF OrderRefused
    <3>2. Halted => seen.state = "scheduled"
      BY <2>1, <2>2, Waiter DEF Halted, Row, CoHStates, Final
    <3> QED BY <2>1, <2>2, <2>3, <3>1, <3>2, FailQuiet
  <2>5. CASE CallFailed(c) \/ WOLFailed(c)
    BY <2>1, <2>2, <2>5, FailQuiet DEF CallFailed, WOLFailed
  <2>6. CASE WOLUseless(c) \/ WOLSlept(c)
    <3>1. seen.state = "scheduled" /\ obj[c].step # LastStep
      BY <2>1, <2>6, Waiter DEF WOLUseless, WOLSlept, InWOL
    <3>2. next = seen
      BY <2>2, <3>1 DEF Row
    <3>3. Flush(seen, seen) = coh
      BY <2>2 DEF Flush, IInv, RowInv, Row
    <3>4. [obj[c] EXCEPT !.seen = seen, !.kept = "done"] = d
      BY <2>1, Waiter DEF Object
    <3>5. coh' = coh /\ phase' = FlushPhase(obj[c].step, obj[c].kept, "done") /\ Walk(c, d)
      BY <2>2, <2>6, <3>2, <3>3, <3>4 DEF WOLUseless, WOLSlept
    <3>6. /\ d \in Object /\ d.step = obj[c].step /\ d.todo = obj[c].todo /\ d.seen = seen
          /\ d.recurrent = obj[c].recurrent /\ d.thread = obj[c].thread
          /\ d.of = obj[c].of /\ d.kept = "done"
      BY <2>1, Waiter DEF Object, PhaseStates
    <3> HIDE DEF d
    <3> QED BY <2>1, <2>2, <3>1, <3>5, <3>6, AgainQuiet
  <2>7. CASE WOLUnanswered(c)
    <3> DEFINE r == [obj[c] EXCEPT !.seen = next, !.kept = "ready"]
    <3>1. seen.state = "scheduled" /\ obj[c].step # LastStep
      BY <2>1, <2>7, Waiter DEF WOLUnanswered, InWOL
    <3>2. next = seen
      BY <2>2, <3>1 DEF Row
    <3>3. Flush(seen, seen) = coh
      BY <2>2 DEF Flush, IInv, RowInv, Row
    <3>4. coh' = coh /\ phase' = FlushPhase(obj[c].step, obj[c].kept, "ready")
          /\ Settle(c, r, "out")
      BY <2>2, <2>7, <3>2, <3>3 DEF WOLUnanswered
    <3>5. /\ r \in Object /\ r.step = obj[c].step /\ r.todo = obj[c].todo /\ r.seen = seen
          /\ r.recurrent = obj[c].recurrent /\ r.thread = obj[c].thread
          /\ r.of = obj[c].of /\ r.kept = "ready"
      BY <2>1, <2>2, <3>2, Waiter DEF Object, PhaseStates
    <3> HIDE DEF r
    <3>6. phase'[obj[c].step] = "ready" /\ \A j \in Steps \ {obj[c].step} : phase'[j] = phase[j]
      BY <2>1, <3>4, Waiter, PhaseWritten DEF PhaseStates
    <3>7. KeepsDone
      BY <2>1, <3>6, Waiter DEF KeepsDone
    <3>8. Steady
      BY <2>1, <3>4 DEF Steady, Halted
    <3>9. phase'[LastStep] # "done"
      BY <2>1, <3>1, <3>6, Waiter
    <3>10. /\ obj[c].pc \in InHand /\ ~r.recurrent
           /\ coh.window = 0 => r.seen.state \notin Final /\ (coh'.state \in Final => lapsed > 0)
      BY <2>1, <3>1, <3>4, <3>5, Waiter DEF Final
    <3> QED BY <2>1, <2>2, <3>1, <3>4, <3>5, <3>6, <3>7, <3>8, <3>9, <3>10, Waiter, Settles
  <2> QED BY <1>2, <2>4, <2>5, <2>6, <2>7 DEF Answer
<1> QED BY <1>1, <1>2

\* A result is parsed, by the circuit in the container or outside of it.
LEMMA ParseQuiet ==
    ASSUME IInv, IInv', Quiet, NEW c \in Circuits, obj[c].pc \in {"out", "parse"},
           NEW result, Parse(c, result), obj[c].step # LastStep,
           obj[c].pc = "out" => obj[c].kept = "running",
           UNCHANGED <<lapsed, calls, ops, faults>>, ~Pending'
    PROVE  Quiet' /\ KeepsDone
<1> DEFINE seen == obj[c].seen
           o == [obj[c] EXCEPT !.result = "none"]
           d == [obj[c] EXCEPT !.kept = "done", !.result = "none"]
<1>1. obj[c].pc \in {"asked", "wol", "out", "parse"}
  OBVIOUS
<1>2. /\ o \in Object /\ o.recurrent = obj[c].recurrent /\ o.result = "none" /\ o.seen = seen
      /\ o.thread = obj[c].thread /\ o.kept = obj[c].kept
      /\ d \in Object /\ d.step = obj[c].step /\ d.todo = obj[c].todo /\ d.seen = seen
      /\ d.recurrent = obj[c].recurrent /\ d.thread = obj[c].thread
      /\ d.of = obj[c].of /\ d.kept = "done" /\ d = [o EXCEPT !.kept = "done"]
      /\ o.step = obj[c].step
  BY <1>1, Waiter DEF Object, PhaseStates
<1>3. CASE ParseSuccess(c)
  <2>1. \/ Release(c, o) /\ UNCHANGED <<coh, phase>>
        \/ Walk(c, d) /\ phase' = [phase EXCEPT ![obj[c].step] = "done"] /\ UNCHANGED coh
        \/ GiveUp(c, o) /\ UNCHANGED phase /\ obj[c].kept # "running"
    BY <1>2, <1>3 DEF ParseSuccess
  <2> HIDE DEF o, d
  <2>2. CASE Walk(c, d) /\ phase' = [phase EXCEPT ![obj[c].step] = "done"] /\ UNCHANGED coh
    BY <1>1, <1>2, <2>2, AgainQuiet
  <2>3. CASE Release(c, o) /\ UNCHANGED <<coh, phase>>
    <3>1. KeepsDone /\ Steady
      BY <2>3 DEF KeepsDone, Steady, Halted
    <3> QED BY <1>1, <1>2, <2>3, <3>1, Waiter, Releases
  <2>4. CASE GiveUp(c, o) /\ UNCHANGED phase /\ obj[c].kept # "running"
    <3>1. KeepsDone /\ obj[c].pc = "parse"
      BY <2>4 DEF KeepsDone
    <3>2. CASE seen.state = "stopped"
      <4>1. Release(c, o) /\ coh'.state = "stopped" /\ coh'.window = coh.window
        BY <1>2, <2>4, <3>2, StateSet DEF GiveUp
      <4>2. Steady
        BY <4>1 DEF Steady
      <4> QED BY <1>1, <1>2, <2>4, <3>1, <4>1, <4>2, Waiter, Releases
    <3>3. CASE seen.state # "stopped"
      <4>1. Settle(c, o, "out") /\ UNCHANGED coh
        BY <1>2, <2>4, <3>3 DEF GiveUp
      <4>2. c \notin Members(container) /\ ~o.thread
        BY <1>1, <1>2, <3>1, Waiter DEF IInv, ObjInv, Place
      <4>3. obj'[c] = Unused /\ container' = container
        BY <4>1, <4>2 DEF Settle, IInv, ObjInv
      <4>4. obj'[c].pc = "unused" /\ ~obj'[c].recurrent
        BY <4>3, UnusedForm
      <4>5. Steady
        BY <4>1 DEF Steady, Halted
      <4>6. Fit(obj[c])' /\ Placed(c)'
        BY <4>2, <4>3, <4>4
           DEF Fit, Held, Fresh, Sent, Open, Astray, Placed, Used, Busy, InHand, Live
      <4>7. \A e \in Circuits \ {c} : obj'[e].pc = "unused"
        BY <1>1, <1>2, <4>1, Waiter, OthersUnused
      <4>8. phase'[LastStep] # "done"
        BY <1>1, <2>4, Waiter
      <4> QED BY <3>1, <4>5, <4>6, <4>7, <4>8, Alone
    <3> QED BY <3>2, <3>3
  <2> QED BY <2>1, <2>2, <2>3, <2>4
<1>4. CASE ParseFailure(c) /\ Name(c) \in NonFatal \ {"upload"}
  <2>1. /\ Walk(c, d) /\ UNCHANGED coh
        /\ phase' = FlushPhase(obj[c].step, obj[c].kept, "done")
    BY <1>4 DEF ParseFailure
  <2> HIDE DEF d
  <2> QED BY <1>1, <1>2, <2>1, AgainQuiet
<1>5. CASE ParseFailure(c) /\ Name(c) \notin NonFatal \ {"upload"}
  <2>1. FailPhase(c, seen)
    BY <1>5 DEF ParseFailure
  <2> QED BY <1>1, <2>1, Waiter, FailQuiet
<1> QED BY <1>3, <1>4, <1>5 DEF Parse

LEMMA OutsideQuiet ==
    ASSUME IInv, IInv', Quiet, NEW c \in Circuits, NEW step, NEW result \in {"ok", "ko"},
           ResultOutside(c, step, result)
    PROVE  Quiet' /\ KeepsDone
<1> DEFINE self == [Unused EXCEPT !.seen = coh, !.thread = TRUE, !.recurrent = TRUE,
                                  !.result = result, !.of = step]
<1>1. /\ step \in results /\ container = <<>> /\ results' = results \ {step}
      /\ UNCHANGED <<phase, lapsed, order, calls, ops, faults>>
  BY DEF ResultOutside
<1>2. /\ Pending /\ order.status = "none" /\ results' = {} /\ ~Pending'
      /\ Halted /\ Ended(coh) /\ phase[LastStep] # "done" /\ coh.state # "done" /\ step # LastStep
  BY <1>1 DEF Quiet, Orders, Pending
<1>3. \A d \in Circuits : obj[d].pc = "unused"
  <2>1. Members(container) = {}
    BY <1>1 DEF Members
  <2> QED BY <1>2, <2>1 DEF Quiet, Orders, Used
<1>4. /\ LastStep \in Steps /\ Steps = 1..LastStep /\ coh \in Row /\ phase \in [Steps -> PhaseStates]
      /\ lapsed \in Nat /\ coh.window \in Nat /\ step \in Steps
      /\ obj \in [Circuits -> Object]
  BY <1>1, Constants DEF LastStep, IInv, ObjInv, RowInv, RestInv, Row
<1>5. LastStep \in Undone
  BY <1>2, <1>4 DEF Undone
<1>6. PICK i \in Undone :
        /\ IsFirst(i, Undone)
        /\ Walk(c, [self EXCEPT !.step = i, !.todo = Undone \ {i}, !.kept = phase[i]])
  BY <1>5 DEF ResultOutside
<1> DEFINE p == [[self EXCEPT !.step = i, !.todo = Undone \ {i}, !.kept = phase[i]]
                    EXCEPT !.pc = "walk"]
<1>7. coh' = coh
  BY <1>5 DEF ResultOutside
<1>8. /\ p.pc = "walk" /\ p.thread /\ p.step = i /\ p.todo = Undone \ {i}
      /\ p.seen = coh /\ p.kept = phase[i] /\ p.recurrent /\ p.of = step
  BY DEF Unused
<1>9. obj'[c] = p /\ container' = container /\ \A d \in Circuits \ {c} : obj'[d] = obj[d]
  BY <1>4, <1>6 DEF Walk
<1> HIDE DEF p, self
<1>10. Steady /\ (Halted => Halted') /\ (Ended(coh) => Ended(coh)')
  BY <1>1, <1>7 DEF Steady, Halted, Ended, Expired
<1>11. KeepsDone
  BY <1>1 DEF KeepsDone
<1>12. \A d \in Circuits \ {c} : obj'[d].pc = "unused"
  BY <1>3, <1>9
<1>13. coh.state \in Final => lapsed > 0
  BY <1>2, <1>4 DEF Ended, Expired, Final
<1>14. Fit(obj[c])' /\ Placed(c)'
  <2>1. Held(obj[c])' /\ Sent(obj[c])' /\ Astray(obj[c])' /\ Fresh(obj[c])'
    BY <1>1, <1>2, <1>4, <1>6, <1>7, <1>8, <1>9, <1>10, <1>13
       DEF Held, Sent, Astray, Fresh, IsFirst, Undone, Ended, Expired, Quiet
  <2>2. Open(obj[c])'
    BY <1>1, <1>2, <1>4, <1>5, <1>7, <1>8, <1>9 DEF Open, InHand
  <2>3. Placed(c)'
    BY <1>8, <1>9, <1>2, <1>10 DEF Placed, Busy
  <2> QED BY <2>1, <2>2, <2>3 DEF Fit
<1> QED BY <1>1, <1>2, <1>10, <1>11, <1>12, <1>14, Alone

LEMMA ResultsQuiet ==
    ASSUME IInv, IInv', Quiet, NEW c \in Circuits, Handle(c) \/ ParseOutside(c)
    PROVE  Quiet' /\ KeepsDone
<1>1. ASSUME NEW step \in results, ResultRejected(c, step) PROVE Quiet' /\ KeepsDone
  <2>1. /\ results' \subseteq results
        /\ UNCHANGED <<coh, phase, lapsed, obj, container, tracked, order, calls, ops, faults>>
    BY <1>1 DEF ResultRejected
  <2>2. Orders'
    BY <2>1 DEF Quiet, Orders, Pending, Used, Halted, Ended, Expired
  <2> QED BY <2>1, <2>2 DEF Quiet, Sole, Fit, Held, Fresh, Sent, Open, Astray, Placed, Used, Busy,
          Closed, Called, Halted, Ended, Expired, GaveIn, Exhausted, KeepsDone
<1>2. ASSUME NEW step \in results, NEW result \in {"ok", "ko"}, Result(c, step, result)
      PROVE  Quiet' /\ KeepsDone
  <2>1. /\ Parse(c, result) /\ obj[c].step = step /\ obj[c].pc \in {"out", "released"}
        /\ results' = results \ {step} /\ UNCHANGED <<lapsed, order, calls, ops, faults>>
    BY <1>2 DEF Result
  <2>2. Pending /\ Used(c) /\ order.status = "none" /\ results' = {} /\ ~Pending'
    BY <2>1 DEF Quiet, Orders, Pending, Used
  <2>3. obj[c].pc = "out" /\ obj[c].kept = "running" /\ step # LastStep
    BY <2>2 DEF Quiet, Orders
  <2> QED BY <2>1, <2>2, <2>3, ParseQuiet
<1>3. CASE ParseOutside(c)
  <2>1. /\ obj[c].pc = "parse" /\ obj[c].pc \in {"asked", "wol", "out", "parse"}
        /\ UNCHANGED <<lapsed, order, results, calls, ops, faults>>
    BY <1>3 DEF ParseOutside
  <2>2. ~Pending'
    BY <2>1, Waiter DEF Pending
  <2>3. CASE obj[c].step = obj[c].of
    <3>1. Parse(c, obj[c].result)
      BY <1>3, <2>3 DEF ParseOutside
    <3>2. obj[c].step # LastStep
      BY <2>1, <2>3, Waiter
    <3> QED BY <2>1, <2>2, <3>1, <3>2, ParseQuiet
  <2>4. CASE obj[c].step # obj[c].of
    <3>1. obj' = [obj EXCEPT ![c] = Unused] /\ UNCHANGED <<coh, phase, container, tracked>>
      BY <1>3, <2>4 DEF ParseOutside
    <3>2. obj'[c].pc = "unused" /\ ~obj'[c].recurrent
          /\ \A d \in Circuits \ {c} : obj'[d] = obj[d]
      BY <3>1, UnusedForm DEF IInv, ObjInv
    <3>3. c \notin Members(container')
      BY <3>2 DEF IInv, ObjInv, Place
    <3>4. Fit(obj[c])' /\ Placed(c)'
      BY <3>2, <3>3 DEF Fit, Held, Fresh, Sent, Open, Astray, Placed, Used, Busy, InHand, Live
    <3>5. Steady /\ KeepsDone
      BY <2>1, <3>1 DEF Steady, Halted, KeepsDone
    <3>6. \A d \in Circuits \ {c} : obj'[d].pc = "unused"
      BY <2>1, <3>2, Waiter
    <3>7. phase'[LastStep] # "done"
      BY <2>1, <3>1, Waiter
    <3> QED BY <2>2, <3>4, <3>5, <3>6, <3>7, Alone
  <2> QED BY <2>3, <2>4
<1> QED BY <1>1, <1>2, <1>3, OutsideQuiet DEF Handle

LEMMA SelectQuiet ==
    ASSUME PoolKeepsUp, IInv, IInv', Quiet, NEW c \in Circuits, Select(c)
    PROVE  Quiet' /\ KeepsDone
<1>1. PICK pc \in {"queued", "waiting"} :
        /\ obj' = [obj EXCEPT ![c] = [Unused EXCEPT !.pc = pc, !.todo = Undone, !.seen = coh]]
        /\ container' = IF pc = "waiting" THEN <<c>> ELSE container
  BY DEF Select
<1>2. /\ container = <<>> /\ UNCHANGED <<coh, phase, lapsed, order, results, calls, ops, faults>>
      /\ \A d \in Circuits : obj[d].pc # "queued" /\ ~obj[d].thread
      /\ coh.state \notin Final \cup {"stopped"} /\ ~Expired(coh)
  BY DEF Select, ThreadsEnded
<1>3. coh \in Row /\ LastStep \in Steps /\ phase \in [Steps -> PhaseStates]
      /\ obj \in [Circuits -> Object]
  BY Constants DEF LastStep, IInv, ObjInv, RowInv, RestInv
<1>4. coh.state = "scheduled"
  BY <1>2, <1>3 DEF Row, CoHStates, Final
<1>5. ~Halted
  BY <1>2, <1>4 DEF Halted
<1>6. ~Pending
  BY <1>2, <1>5 DEF Quiet, Orders
<1>7. \A d \in Circuits : obj[d].pc = "unused"
  <2>1. Members(container) = {}
    BY <1>2 DEF Members
  <2> QED BY <1>2, <1>5, <2>1 DEF Quiet, Placed, Used
<1>8. phase[LastStep] # "done" /\ LastStep \in Undone
  BY <1>3, <1>4, <1>5 DEF Quiet, Closed, Undone
<1> DEFINE p == [Unused EXCEPT !.pc = pc, !.todo = Undone, !.seen = coh]
<1>9. p.pc = pc /\ p.todo = Undone /\ p.seen = coh /\ ~p.recurrent
  BY DEF Unused
<1>10. obj'[c] = p /\ \A d \in Circuits \ {c} : obj'[d].pc = "unused"
  BY <1>1, <1>3, <1>7
<1> HIDE DEF p
<1>11. ~Pending' /\ Steady /\ KeepsDone
  BY <1>2, <1>6 DEF Pending, Steady, Halted, KeepsDone
<1>12. Fit(obj[c])'
  BY <1>2, <1>4, <1>8, <1>9, <1>10
     DEF Fit, Held, Fresh, Sent, Open, Astray, InHand, Live, Final
<1>13. Placed(c)'
  <2>1. pc = "waiting" => c \in Members(container')
    <3>1. 1 \in DOMAIN <<c>> /\ <<c>>[1] = c
      OBVIOUS
    <3> QED BY <1>1, <3>1 DEF Members
  <2> QED BY <1>9, <1>10, <2>1 DEF Placed, Busy
<1> QED BY <1>2, <1>8, <1>10, <1>11, <1>12, <1>13, Alone

LEMMA RunQuiet ==
    ASSUME IInv, IInv', Quiet, NEW c \in Circuits, Run(c)
    PROVE  Quiet' /\ KeepsDone
<1> DEFINE self == [obj[c] EXCEPT !.thread = obj[c].pc = "queued"]
<1>1. /\ obj[c].pc \in {"queued", "waiting"} /\ obj[c].pc \in Live
      /\ UNCHANGED <<phase, lapsed, order, results, calls, ops, faults>>
  BY DEF Run, Live
<1>2. /\ Fit(obj[c]) /\ obj[c] \in Object /\ ~obj[c].recurrent /\ ~Pending'
      /\ LastStep \in Steps /\ Steps = 1..LastStep /\ obj[c].todo \subseteq Steps
      /\ phase \in [Steps -> PhaseStates] /\ ~obj[c].thread
      /\ \A i \in Steps : Workflow[i] = "wol" => i = 1
  BY <1>1, AtHand, UnderWay, CircuitAssumption DEF Pending, IInv, Object, CircuitAssumption
<1>3. /\ LastStep \in obj[c].todo /\ obj[c].seen.state = "scheduled"
      /\ phase[LastStep] # "done" /\ coh.state # "done"
      /\ coh.window = 0 /\ coh.state \in Final => lapsed > 0
  BY <1>1, <1>2 DEF Fit, Open, Fresh, Sent, GaveIn, InHand
<1>4. /\ self \in Object /\ self.thread = (obj[c].pc = "queued") /\ ~self.recurrent
      /\ self.todo = obj[c].todo /\ self.seen = obj[c].seen /\ self.of = obj[c].of
  BY <1>2 DEF Object
<1>5. PICK i \in obj[c].todo :
        /\ IsFirst(i, obj[c].todo)
        /\ Walk(c, [self EXCEPT !.step = i, !.todo = @ \ {i}, !.kept = phase[i]])
        /\ UNCHANGED coh
  BY <1>3, <1>4 DEF Run
<1> DEFINE o == [self EXCEPT !.step = i, !.todo = @ \ {i}, !.kept = phase[i]]
<1> HIDE DEF self
<1>6. /\ o \in Object /\ o.step = i /\ o.todo = obj[c].todo \ {i} /\ o.kept = phase[i]
      /\ o.thread = (obj[c].pc = "queued") /\ ~o.recurrent /\ o.seen = obj[c].seen
      /\ o.of = obj[c].of
  BY <1>2, <1>4, <1>5 DEF Object
<1>7. Walk(c, o)
  BY <1>5
<1> HIDE DEF o
<1>8. Steady /\ KeepsDone
  BY <1>1, <1>5 DEF Steady, Halted, KeepsDone
<1>9. \A j \in o.todo : o.step < j
  BY <1>2, <1>5, <1>6 DEF IsFirst, Quiet
<1>10. o.thread = IF obj[c].pc = "queued" THEN TRUE ELSE obj[c].thread
  <2>1. o.thread \in BOOLEAN /\ obj[c].thread \in BOOLEAN
    BY <1>2, <1>6 DEF Object
  <2>2. CASE obj[c].pc = "queued"
    <3>1. o.thread
      BY <1>6, <2>2
    <3> QED BY <2>1, <2>2, <3>1, Zenon
  <2>3. CASE obj[c].pc # "queued"
    <3>1. ~o.thread
      BY <1>6, <2>3
    <3> QED BY <1>2, <2>1, <2>3, <3>1, Zenon
  <2> QED BY <2>2, <2>3
<1>11. o.recurrent = obj[c].recurrent
  <2>1. o.recurrent \in BOOLEAN /\ obj[c].recurrent \in BOOLEAN
    BY <1>2, <1>6 DEF Object
  <2> QED BY <1>2, <1>6, <2>1, Zenon
<1>12. /\ o.kept = phase'[o.step] /\ o.seen.state = "scheduled"
       /\ phase'[LastStep] # "done" /\ coh'.state # "done"
       /\ LastStep \in o.todo \/ o.step = LastStep
       /\ coh.window = 0 => o.seen.state \notin Final /\ (coh'.state \in Final => lapsed > 0)
  BY <1>1, <1>3, <1>5, <1>6 DEF Final
<1> QED BY <1>1, <1>2, <1>6, <1>7, <1>8, <1>9, <1>10, <1>11, <1>12, Walks DEF Final

LEMMA RemoveExpiredQuiet ==
    ASSUME MaxFaults = 0, IInv, IInv', Quiet, NEW c \in Circuits, RemoveExpired(c)
    PROVE  Quiet' /\ KeepsDone
<1>1. /\ obj[c].pc \in {"out", "released"} /\ Release(c, obj[c]) /\ ~Pending /\ ~Pending'
      /\ UNCHANGED <<coh, phase, lapsed, order, results, calls, ops, faults>>
  BY DEF RemoveExpired, Pending, Quiet, Called
<1>2. obj[c] \in Object /\ ~obj[c].recurrent
  BY <1>1, UnderWay DEF IInv
<1>3. Steady /\ KeepsDone /\ (Halted => Halted')
  BY <1>1 DEF Steady, KeepsDone, Halted, Expired
<1>4. phase'[LastStep] = "done" => coh'.state = "done" \/ Halted'
  BY <1>1, <1>3 DEF Quiet, Closed
<1> QED BY <1>1, <1>2, <1>3, <1>4, Releases DEF Live, InHand

\* Steps that leave the circuits and the launcher alone.
LEMMA RowQuiet ==
    ASSUME IInv, IInv', Quiet, UNCHANGED <<phase, obj, container, tracked, order, results>>,
           Called', Halted => Halted', lapsed' >= lapsed,
           Halted /\ Ended(coh) => Ended(coh)',
           coh'.window = 0 => coh.window = 0 /\ (coh'.state \in Final => coh.state \in Final \/ lapsed' > 0),
           coh'.state = "done" => coh.state = "done",
           coh.state = "done" => coh'.state = "done" \/ Halted'
    PROVE  Quiet' /\ KeepsDone
<1>1. lapsed \in Nat /\ lapsed' \in Nat
  BY DEF IInv, RestInv
<1>2. ASSUME NEW c \in Circuits PROVE Fit(obj[c])' /\ Placed(c)'
  <2>1. Fit(obj[c]) /\ Placed(c) /\ obj'[c] = obj[c] /\ obj[c].seen.window \in Nat
    BY AtHand, UnderWay DEF Quiet, IInv, Row
  <2>2. Ended(obj[c].seen) => Ended(obj[c].seen)'
    BY <1>1, <2>1 DEF Ended, Expired
  <2>3. Held(obj[c])' /\ Sent(obj[c])' /\ Open(obj[c])'
    BY <2>1 DEF Fit, Held, Sent, Open
  <2>4. Fresh(obj[c])'
    BY <1>1, <2>1 DEF Fit, Fresh, GaveIn, Exhausted
  <2>5. Astray(obj[c])'
    BY <2>1, <2>2 DEF Fit, Astray
  <2> QED BY <2>1, <2>3, <2>4, <2>5 DEF Fit, Placed, Used, Busy
<1>3. Orders'
  BY DEF Quiet, Orders, Pending, Used
<1>4. Sole' /\ Closed' /\ KeepsDone
  BY DEF Quiet, Sole, Used, Closed, KeepsDone
<1> QED BY <1>2, <1>3, <1>4 DEF Quiet

LEMMA RowStepsQuiet ==
    ASSUME MaxOps \in {0, 1}, IInv, IInv', Quiet,
           \/ ProcessNonValid \/ AgentStop \/ AgentStart \/ AgentExtend
           \/ HandleStart \/ LoseCall \/ Lapse
    PROVE  Quiet' /\ KeepsDone
<1>1. /\ UNCHANGED <<phase, obj, container, tracked, order, results, faults>>
      /\ lapsed \in Nat /\ coh \in Row /\ coh.window \in Nat /\ ops \in Nat /\ Called
  BY DEF ProcessNonValid, AgentStop, AgentStart, AgentExtend, HandleStart, LoseCall, Lapse,
         IInv, RestInv, RowInv, Row, Quiet
<1>2. CASE ProcessNonValid
  <2>1. /\ coh'.state \in {"failed", "over_timed"} /\ coh'.window = coh.window
        /\ Expired(coh) /\ coh.state # "done" /\ UNCHANGED <<lapsed, calls, ops>>
    BY <1>2, StateSet DEF ProcessNonValid, Final
  <2>2. (Halted => Halted') /\ Ended(coh)' /\ Called' /\ (coh.window = 0 => lapsed > 0)
    BY <1>1, <2>1 DEF Halted, Ended, Expired, Called
  <2> QED BY <1>1, <2>1, <2>2, RowQuiet
<1>3. CASE AgentStop
  <2>1. /\ coh'.state = "stopped" /\ coh'.window = coh.window /\ ops = 0 /\ ops' = 1
        /\ calls' = calls \cup {"stop"} /\ lapsed' = lapsed
    BY <1>1, <1>3, StateSet DEF AgentStop
  <2>2. Halted' /\ Called'
    BY <1>1, <2>1 DEF Halted, Called
  <2> QED BY <1>1, <2>1, <2>2, RowQuiet DEF Final, Ended
<1>4. CASE AgentStart
  <2>1. /\ coh'.state = "scheduled" /\ coh'.window = coh.window /\ ops = 0 /\ ops' = 1
        /\ calls' = calls \cup {"start"} /\ lapsed' = lapsed /\ coh.state # "done"
    BY <1>1, <1>4, StateSet DEF AgentStart
  <2>2. ~Halted /\ Called'
    BY <1>1, <2>1 DEF Halted, Called
  <2> QED BY <1>1, <2>1, <2>2, RowQuiet DEF Final
<1>5. CASE AgentExtend
  <2>1. /\ coh'.state = "scheduled" /\ coh'.window = coh.window + 1 /\ ops = 0 /\ ops' = 1
        /\ calls' = calls /\ lapsed' = lapsed /\ coh.state # "done"
    BY <1>1, <1>5 DEF AgentExtend
  <2>2. ~Halted /\ Called'
    BY <1>1, <2>1 DEF Halted, Called
  <2> QED BY <1>1, <2>1, <2>2, RowQuiet
<1>6. CASE HandleStart
  <2>1. /\ coh'.state = IF coh.state \in Final THEN coh.state ELSE "scheduled"
        /\ coh'.window = coh.window /\ "start" \in calls
        /\ calls' = calls \ {"start"} /\ UNCHANGED <<lapsed, ops>>
    BY <1>1, <1>6 DEF HandleStart, Row
  <2>2. ~Halted /\ Called'
    BY <1>1, <2>1 DEF Halted, Called
  <2> QED BY <1>1, <2>1, <2>2, RowQuiet DEF Final
<1>7. CASE LoseCall \/ Lapse
  <2>1. /\ coh' = coh /\ ops' = ops /\ calls' \subseteq calls /\ lapsed' >= lapsed
    BY <1>1, <1>7 DEF LoseCall, Lapse
  <2>2. lapsed' \in Nat
    BY DEF IInv, RestInv
  <2>3. (Halted => Halted') /\ (Ended(coh) => Ended(coh)')
    BY <1>1, <2>1, <2>2 DEF Halted, Ended, Expired
  <2>4. Called'
    BY <1>1, <2>1, <2>3 DEF Called
  <2> QED BY <1>1, <2>1, <2>3, <2>4, RowQuiet
<1> QED BY <1>2, <1>3, <1>4, <1>5, <1>6, <1>7

\* The launcher's process ends, or its result is on its way.
LEMMA OrdersQuiet ==
    ASSUME MaxFaults = 0, IInv, IInv', Quiet, ProcessEnded \/ SendFailed \/ Resend
    PROVE  Quiet' /\ KeepsDone
<1>1. /\ UNCHANGED <<coh, phase, lapsed, obj, container, tracked, calls, ops, faults>>
      /\ Pending /\ results = {}
      /\ \/ order'.status = "none" /\ results' = {order.step}
         \/ order'.status = "zombie" /\ order'.step = order.step /\ results' = {}
  BY DEF ProcessEnded, SendFailed, Resend, NoOrder, Quiet, Called, Orders, Pending,
         IInv, RestInv
<1>2. order.status # "none"
  BY DEF ProcessEnded, SendFailed, Resend
<1>3. Orders'
  BY <1>1, <1>2 DEF Quiet, Orders, Pending, Used, Halted, Ended, Expired
<1> QED BY <1>1, <1>3 DEF Quiet, Sole, Fit, Held, Fresh, Sent, Open, Astray, Placed, Used, Busy,
           Closed, Called, Halted, Ended, Expired, GaveIn, Exhausted, KeepsDone

LEMMA HandleStopQuiet ==
    ASSUME IInv, IInv', Quiet, HandleStop
    PROVE  Quiet' /\ KeepsDone
<1>1. /\ container' = <<>> /\ calls' = calls \ {"stop"} /\ Halted
      /\ UNCHANGED <<coh, phase, lapsed, order, results, ops, faults>>
  BY DEF HandleStop, Quiet, Called
<1>2. Halted' /\ Called' /\ KeepsDone /\ (Ended(coh) => Ended(coh)')
  BY <1>1 DEF Halted, Expired, Called, Quiet, KeepsDone, Ended
<1>3. ASSUME NEW c \in Circuits PROVE obj'[c].pc = "unused" \/ obj'[c] = obj[c]
  BY UnusedForm DEF HandleStop, Dropped
<1>4. Members(container') = {}
  BY <1>1 DEF Members
<1>5. ASSUME NEW c \in Circuits PROVE Fit(obj[c])' /\ Placed(c)'
  <2>1. CASE obj'[c].pc = "unused"
    <3>1. ~obj'[c].recurrent
      BY <2>1 DEF IInv, ObjInv, Form
    <3> QED BY <1>4, <2>1, <3>1
        DEF Fit, Held, Fresh, Sent, Open, Astray, Placed, Used, InHand, Live
  <2>2. CASE obj'[c] = obj[c]
    <3>1. Fit(obj[c])
      BY DEF Quiet
    <3> QED BY <1>1, <1>2, <1>4, <2>2, <3>1
        DEF Fit, Held, Fresh, Sent, Open, Astray, Placed, GaveIn, Exhausted, Ended, Expired
  <2> QED BY <1>3, <2>1, <2>2
<1>6. Sole'
  BY <1>3 DEF Quiet, Sole, Used
<1>7. Orders'
  <2>1. ASSUME Pending, NEW c \in Circuits PROVE obj'[c].pc = "unused"
    <3>1. CASE Used(c)
      <4>1. obj[c].pc = "out" /\ c \in Members(container)
        BY <2>1, <3>1 DEF Quiet, Orders
      <4> QED BY <4>1, UnusedForm DEF HandleStop, Dropped
    <3>2. CASE ~Used(c)
      BY <1>3, <3>2 DEF Used
    <3> QED BY <3>1, <3>2
  <2>2. Pending => Ended(coh)
    <3>1. CASE container = <<>>
      BY <3>1 DEF Quiet, Orders
    <3>2. CASE container # <<>>
      <4>1. PICK c \in Circuits : c \in Members(container)
        <5>1. Len(container) > 0 /\ container[1] \in Circuits /\ DOMAIN container = 1..Len(container)
              /\ Len(container) \in Nat
          BY <3>2 DEF IInv, ObjInv
        <5> QED BY <5>1 DEF Members
      <4>2. Used(c)
        BY <4>1 DEF IInv, ObjInv, Place, Used
      <4>3. ASSUME Pending PROVE Ended(coh)
        <5>1. obj[c].pc = "out"
          BY <4>2, <4>3 DEF Quiet, Orders
        <5>2. coh.state \in Final => lapsed > 0
          BY <1>1, <5>1, Waiter DEF Halted
        <5>3. coh.state \in CoHStates
          BY DEF IInv, RowInv, Row
        <5> QED BY <1>1, <5>2, <5>3 DEF Halted, Ended, Expired, Final, CoHStates
      <4> QED BY <4>3
    <3> QED BY <3>1, <3>2
  <2> QED BY <1>1, <1>2, <2>1, <2>2 DEF Quiet, Orders, Pending, Used
<1>8. Closed'
  BY <1>2 DEF Closed
<1> QED BY <1>2, <1>5, <1>6, <1>7, <1>8 DEF Quiet

LEMMA NextQuiet ==
    ASSUME PoolKeepsUp, MaxOps \in {0, 1}, MaxFaults = 0, IInv, IInv', Quiet, [Next]_vars
    PROVE  Quiet' /\ KeepsDone
<1>1. faults = 0
  BY DEF Quiet, Called
<1>2. CASE UNCHANGED vars
  <2>1. UNCHANGED <<coh, phase, lapsed, obj, container, tracked, order, results, calls, ops, faults>>
    BY <1>2 DEF vars
  <2> QED BY <2>1 DEF Quiet, Sole, Fit, Held, Fresh, Sent, Open, Astray, Placed, Orders, Closed,
             Called, Pending, Used, Busy, Halted, Ended, Expired, GaveIn, Exhausted, KeepsDone
<1>3. ASSUME NEW c \in Circuits, Select(c) \/ Run(c) \/ RemoveExpired(c)
      PROVE  Quiet' /\ KeepsDone
  BY <1>3, SelectQuiet, RunQuiet, RemoveExpiredQuiet
<1>4. ASSUME NEW c \in Circuits, Step(c) \/ Answer(c) PROVE Quiet' /\ KeepsDone
  BY <1>4, StepQuiet, AnswerQuiet
<1>5. ASSUME NEW c \in Circuits, Handle(c) \/ ParseOutside(c) PROVE Quiet' /\ KeepsDone
  BY <1>5, ResultsQuiet
<1>6. CASE ProcessEnded \/ SendFailed \/ Resend
  BY <1>6, OrdersQuiet
<1>7. CASE \/ ProcessNonValid \/ AgentStop \/ AgentStart \/ AgentExtend
           \/ HandleStart \/ LoseCall \/ Lapse
  BY <1>7, RowStepsQuiet
<1>8. CASE HandleStop
  BY <1>8, HandleStopQuiet
<1>9. ~LoseResult /\ ~SchedulerRestart /\ ~LauncherRestart
  BY <1>1 DEF LoseResult, SchedulerRestart, LauncherRestart
<1> QED BY <1>2, <1>3, <1>4, <1>5, <1>6, <1>7, <1>8, <1>9 DEF Next

LEMMA InitQuiet == ASSUME RowsInOrder, MaxFaults = 0 PROVE Init => Quiet
<1> SUFFICES ASSUME Init PROVE Quiet
  OBVIOUS
<1>1. \A c \in Circuits : obj[c].pc = "unused" /\ ~obj[c].recurrent
  BY DEF Init, Unused
<1>2. coh.state = "scheduled" /\ coh.window = 0 /\ LastStep \in Steps /\ Members(container) = {}
  BY Constants DEF Init, FirstRow, LastStep, Members
<1>3. Sole /\ \A c \in Circuits : Fit(obj[c]) /\ Placed(c)
  BY <1>1, <1>2 DEF Sole, Used, Fit, Held, Fresh, Sent, Open, Astray, Placed, InHand, Live
<1>4. Orders /\ Closed /\ Called
  BY <1>2 DEF Init, Orders, Closed, Called, Pending, NoOrder
<1> QED BY <1>3, <1>4 DEF Quiet

LEMMA StaysQuiet ==
    ASSUME PoolKeepsUp, RowsInOrder, MaxOps \in {0, 1}, MaxFaults = 0
    PROVE  Spec => [](IInv /\ Quiet)
<1>1. IInv /\ Quiet /\ [Next]_vars => (IInv /\ Quiet)'
  BY NextIInv, NextQuiet
<1> QED BY <1>1, InitIInv, InitQuiet, PTL DEF Spec

\* Only the launcher's answer makes its order run.
LEMMA OnlyTaken ==
    ASSUME MaxFaults = 0, IInv, [Next]_vars, Taken
    PROVE  \E c \in Circuits : OrderTaken(c)
<1>1. order' # order
  BY DEF Taken
<1>2. ~UNCHANGED vars
  BY <1>1 DEF vars
<1>3. ASSUME NEW c \in Circuits, Step(c) PROVE FALSE
  BY <1>1, <1>3 DEF Step, Skip, Advance, StopSeen, ForcedFinish, OverTimed, OutOfAttempts, Perform,
     PerformWithoutHost, PerformWOL, PerformWUParse, PerformDone
<1>4. ASSUME NEW c \in Circuits, Select(c) \/ Run(c) \/ RemoveExpired(c) \/ ParseOutside(c)
      PROVE  FALSE
  BY <1>1, <1>4 DEF Select, Run, RemoveExpired, ParseOutside
<1>5. ASSUME NEW c \in Circuits, Handle(c) PROVE FALSE
  BY <1>1, <1>5 DEF Handle, Result, ResultRejected, ResultOutside
<1>6. ASSUME NEW c \in Circuits, Answer(c), ~OrderTaken(c) PROVE FALSE
  BY <1>1, <1>6 DEF Answer, OrderRefused, CallFailed, WOLUseless, WOLSlept, WOLUnanswered,
     WOLFailed, IInv, RestInv
<1>7. ~(ProcessEnded \/ SendFailed \/ Resend \/ LoseResult \/ ProcessNonValid \/ AgentStop
        \/ AgentStart \/ AgentExtend \/ HandleStop \/ HandleStart \/ LoseCall \/ Lapse
        \/ SchedulerRestart \/ LauncherRestart)
  BY <1>1 DEF Taken, ProcessEnded, SendFailed, Resend, LoseResult, ProcessNonValid, AgentStop,
     AgentStart, AgentExtend, HandleStop, HandleStart, LoseCall, Lapse, SchedulerRestart,
     LauncherRestart, NoOrder
<1> QED BY <1>2, <1>3, <1>4, <1>5, <1>6, <1>7 DEF Next

\* In the four theorems that follow starter threads keep up, nothing fails, the
\* agent stops, starts or extends the CoH at most once, at any instant, and the
\* database returns phases in phase_order, which get_phases() does not ask for
\* (queries.py): the last phase performed first ends the CoH while its circuit
\* goes on, out of reach of a stop.
\*
\* Two circuits never carry out the CoH at once: stop_commands() may throw out of
\* the container a circuit that goes on, but _mainloop() then finds nothing to
\* select, and a start or an extension leaves the circuit in the container.
THEOREM OneLeaderOperated ==
    ASSUME PoolKeepsUp, RowsInOrder, MaxOps \in {0, 1}, MaxFaults = 0
    PROVE  Spec => []OneLeader
<1>1. Quiet => OneLeader
  BY DEF Quiet, Sole, Used, OneLeader, Busy
<1> QED BY <1>1, StaysQuiet, PTL

\* Whatever is carried out in the container is in started_track, so that
\* remove_expired() gives it up if its launcher never answers.
THEOREM WatchedOperated ==
    ASSUME PoolKeepsUp, RowsInOrder, MaxOps \in {0, 1}, MaxFaults = 0
    PROVE  Spec => []Watched
<1>1. IInv /\ Quiet => Watched
  <2> SUFFICES ASSUME IInv, Quiet, NEW c \in Members(container), Busy(c) PROVE tracked
    BY DEF Watched
  <2>1. c \in Circuits
    BY DEF IInv, ObjInv, Members
  <2> QED BY <2>1 DEF Quiet, Placed
<1> QED BY <1>1, StaysQuiet, PTL

\* A phase that is done stays done: no flush() of a phase or of a row, however
\* old the copy and whatever the agent wrote meanwhile, undoes it.
THEOREM PhasesStayDone ==
    ASSUME PoolKeepsUp, RowsInOrder, MaxOps \in {0, 1}, MaxFaults = 0
    PROVE  Spec => DoneKept
<1>1. IInv /\ IInv' /\ Quiet /\ [Next]_vars
        => [\A i \in Steps : phase[i] = "done" => phase'[i] = "done"]_vars
  BY NextQuiet DEF KeepsDone
<1> QED BY <1>1, StaysQuiet, PTL DEF Spec, DoneKept

\* The launcher never takes an order for a phase that is done, even when the
\* agent put the CoH back to scheduled while its circuit was under way.
THEOREM NeverOrderedAgain ==
    ASSUME PoolKeepsUp, RowsInOrder, MaxOps \in {0, 1}, MaxFaults = 0
    PROVE  Spec => NotRepeated
<1>1. IInv /\ IInv' /\ Quiet /\ [Next]_vars => [Taken => phase[order'.step] # "done"]_vars
  BY OnlyTaken, TakenQuiet
<1> QED BY <1>1, StaysQuiet, PTL DEF Spec, NotRepeated

-----------------------------------------------------------------------------
(* What leaves for a launcher after a stop.                                 *)

\* No launcher will be asked: what walks on has its phase done, and reads the
\* row before the next one, or knows of the stop.
Barred(o) ==
    \/ o.pc \in {"unused", "out", "released", "parse"}
    \/ o.recurrent
    \/ /\ o.pc = "walk"
       /\ o.kept = "done" \/ (o.seen.state = "stopped" /\ Workflow[o.step] # "wol")

NoneAsks == \A c \in Circuits : Barred(obj[c])

\* Once an order left although the row was stopped, none follows.
OnceLate ==
    /\ late \in {0, 1}
    /\ late = 1 => coh.state = "stopped" /\ NoneAsks

LEMMA WalkBars ==
    ASSUME IInv, NoneAsks, NEW c \in Circuits, NEW self \in Object, Walk(c, self),
           \/ self.recurrent \/ self.kept = "done"
           \/ self.seen.state = "stopped" /\ Workflow[self.step] # "wol"
    PROVE  NoneAsks'
<1>1. obj' = [obj EXCEPT ![c] = [self EXCEPT !.pc = "walk"]]
  BY DEF Walk
<1>2. Barred([self EXCEPT !.pc = "walk"])
  BY DEF Barred, Object
<1> QED BY <1>1, <1>2 DEF NoneAsks, IInv, ObjInv

LEMMA SettleBars ==
    ASSUME IInv, NoneAsks, NEW c \in Circuits, NEW self \in Object, Settle(c, self, "out")
    PROVE  NoneAsks'
<1> DEFINE s == [self EXCEPT !.pc = "out", !.thread = FALSE]
<1>1. obj' = [obj EXCEPT ![c] = Unused] \/ obj' = [obj EXCEPT ![c] = s]
  BY DEF Settle
<1>2. Barred(s) /\ Barred(Unused)
  BY UnusedForm DEF Barred, Object
<1> HIDE DEF s
<1> QED BY <1>1, <1>2 DEF NoneAsks, IInv, ObjInv

LEMMA DroppedBarred == ASSUME NEW o, Barred(o) PROVE Barred(Dropped(o))
BY UnusedForm DEF Dropped, Barred

LEMMA ReleaseBars ==
    ASSUME IInv, NoneAsks, NEW c \in Circuits, NEW self \in Object, Release(c, self)
    PROVE  NoneAsks'
<1> DEFINE p == [self EXCEPT !.pc = "parse", !.thread = FALSE]
           r == [self EXCEPT !.pc = "released", !.thread = FALSE]
<1>1. Barred(p) /\ Barred(r) /\ Barred(Unused)
  BY UnusedForm DEF Barred, Object
<1>2. PICK mine \in {p, r, Unused}, S \in SUBSET Circuits :
        obj' = [d \in Circuits |-> IF d = c THEN mine
                                   ELSE IF d \in S THEN Dropped(obj[d]) ELSE obj[d]]
  <2>1. Members(container) \subseteq Circuits
    BY DEF IInv, ObjInv, Members
  <2> HIDE DEF p, r
  <2>2. PICK mine \in {p, r, Unused} :
          obj' = [d \in Circuits |->
                    IF d = c THEN mine
                    ELSE IF d \in Members(container) \ Members(container')
                    THEN Dropped(obj[d]) ELSE obj[d]]
    BY DEF Release, p, r
  <2> QED BY <2>1, <2>2
<1> HIDE DEF p, r
<1>3. Barred(mine)
  BY <1>1, <1>2
<1> QED BY <1>2, <1>3, DroppedBarred DEF NoneAsks

LEMMA NextPhaseWalks ==
    ASSUME NEW c, NextPhase(c), obj[c].todo # {}
    PROVE  \E i \in obj[c].todo :
              Walk(c, [obj[c] EXCEPT !.step = i, !.todo = @ \ {i}, !.seen = coh,
                                     !.kept = phase[i]])
BY DEF NextPhase

LEMMA NextPhaseBars ==
    ASSUME IInv, Quiet, NoneAsks, coh.state = "stopped", NEW c \in Circuits, Walking(c),
           NextPhase(c)
    PROVE  NoneAsks'
<1>1. obj[c] \in Object /\ coh \in Row /\ phase \in [Steps -> PhaseStates]
  BY UnderWay DEF IInv, RowInv, RestInv
<1>2. CASE obj[c].todo = {}
  BY <1>1, <1>2, ReleaseBars DEF NextPhase
<1>3. CASE obj[c].todo # {}
  <2>1. PICK i \in obj[c].todo :
          Walk(c, [obj[c] EXCEPT !.step = i, !.todo = @ \ {i}, !.seen = coh, !.kept = phase[i]])
    BY <1>3, NextPhaseWalks
  <2> DEFINE self == [obj[c] EXCEPT !.step = i, !.todo = @ \ {i}, !.seen = coh,
                                    !.kept = phase[i]]
  <2>2. obj[c].todo \subseteq Steps
    BY <1>1 DEF Object
  <2>3. self \in Object /\ self.seen = coh /\ self.step = i
    BY <1>1, <2>1, <2>2 DEF Object
  <2>4. Workflow[i] # "wol"
    BY <2>1, <2>2, Walker, Constants, CircuitAssumption
  <2> HIDE DEF self
  <2> QED BY <2>1, <2>3, <2>4, WalkBars DEF self
<1> QED BY <1>2, <1>3

LEMMA GiveUpBars ==
    ASSUME IInv, NoneAsks, NEW c \in Circuits, NEW self \in Object, GiveUp(c, self)
    PROVE  NoneAsks'
BY ReleaseBars, SettleBars DEF GiveUp

LEMMA FailPhaseBars ==
    ASSUME IInv, NoneAsks, NEW c \in Circuits, NEW row \in Row,
           row.attempts_failed <= MaxAttempts, FailPhase(c, row)
    PROVE  NoneAsks'
<1> DEFINE kept == IF obj[c].kept = "running" THEN "failed" ELSE obj[c].kept
           self == [obj[c] EXCEPT !.seen = Charged(row), !.kept = kept, !.result = "none"]
<1>1. obj[c] \in Object /\ Charged(row) \in Row
  BY UnderWay, ChargedRow DEF IInv
<1>2. self \in Object
  BY <1>1 DEF Object, PhaseStates
<1>3. Release(c, self)
  BY DEF FailPhase
<1> HIDE DEF self
<1> QED BY <1>2, <1>3, ReleaseBars

LEMMA ParseBars ==
    ASSUME IInv, NoneAsks, NEW c \in Circuits, NEW result, Parse(c, result)
    PROVE  NoneAsks'
<1> DEFINE self == [obj[c] EXCEPT !.result = "none"]
           done == [self EXCEPT !.kept = "done"]
<1>1. obj[c] \in Object /\ obj[c].seen \in Row /\ obj[c].seen.attempts_failed <= MaxAttempts
  BY UnderWay DEF IInv
<1>2. self \in Object /\ done \in Object /\ done.kept = "done"
      /\ done = [obj[c] EXCEPT !.kept = "done", !.result = "none"]
  BY <1>1 DEF Object, PhaseStates
<1>3. \/ Release(c, self) \/ GiveUp(c, self) \/ Walk(c, done)
      \/ FailPhase(c, obj[c].seen)
  BY <1>2 DEF Parse, ParseSuccess, ParseFailure
<1> HIDE DEF self, done
<1> QED BY <1>1, <1>2, <1>3, ReleaseBars, GiveUpBars, WalkBars, FailPhaseBars

\* Where no circuit asks, none is about to: the rules find a phase done or a
\* stop.
LEMMA StepBars ==
    ASSUME IInv, Quiet, NoneAsks, coh.state = "stopped", NEW c \in Circuits, Step(c)
    PROVE  NoneAsks'
<1>1. /\ Walking(c) /\ obj[c] \in Object /\ obj[c].seen \in Row
      /\ obj[c].seen.attempts_failed <= MaxAttempts
      /\ obj[c].recurrent => ~Host(c)
  <2>1. Walking(c)
    BY DEF Step, Skip, Advance, Finished, StopSeen, Stopped, ForcedFinish, OverTimed, TooLate,
           OutOfAttempts, GivenUp, Perform, PerformWithoutHost, PerformWUParse, PerformDone,
           ToPerform, InTime, General, PerformWOL
  <2> QED BY <2>1, UnderWay DEF IInv, Host
<1>2. \/ obj[c].recurrent \/ obj[c].kept = "done"
      \/ obj[c].seen.state = "stopped" /\ Name(c) # "wol"
  BY <1>1 DEF NoneAsks, Barred, Walking, Name
<1>3. CASE Skip(c) \/ Advance(c) \/ ForcedFinish(c)
  BY <1>1, <1>3, NextPhaseBars DEF Skip, Advance, ForcedFinish
<1>4. CASE StopSeen(c) \/ OverTimed(c) \/ OutOfAttempts(c)
  BY <1>1, <1>4, ReleaseBars DEF StopSeen, OverTimed, OutOfAttempts
<1>5. CASE PerformWithoutHost(c)
  <2> DEFINE self == [obj[c] EXCEPT !.seen = Charged(obj[c].seen), !.kept = "failed"]
  <2>1. self \in Object
    BY <1>1, ChargedRow DEF Object, PhaseStates
  <2>2. Release(c, self)
    BY <1>5 DEF PerformWithoutHost
  <2> HIDE DEF self
  <2> QED BY <2>1, <2>2, ReleaseBars
<1>6. CASE PerformWUParse(c)
  <2> DEFINE done == [obj[c] EXCEPT !.kept = "done"]
             self == [obj[c] EXCEPT !.seen = Charged(obj[c].seen), !.kept = "failed"]
  <2>1. obj[c].recurrent
    BY <1>2, <1>6 DEF PerformWUParse, ToPerform, InTime, Stopped
  <2>2. /\ done \in Object /\ done.recurrent = obj[c].recurrent
        /\ self \in Object /\ self.recurrent = obj[c].recurrent
    BY <1>1, ChargedRow DEF Object, PhaseStates
  <2>3. Walk(c, done) \/ Walk(c, self)
    BY <1>6 DEF PerformWUParse
  <2> HIDE DEF done, self
  <2> QED BY <2>1, <2>2, <2>3, WalkBars
<1>7. ~Perform(c) /\ ~PerformWOL(c)
  BY <1>1, <1>2 DEF Perform, PerformWOL, ToPerform, InTime, Stopped
<1>8. CASE PerformDone(c)
  <2> DEFINE o == [obj[c] EXCEPT !.seen.state = "done", !.kept = "done"]
  <2>1. o \in Object /\ o.kept = "done"
    BY <1>1 DEF Object, Row, CoHStates, PhaseStates
  <2>2. Release(c, obj[c]) \/ Walk(c, o)
    BY <1>8 DEF PerformDone
  <2> HIDE DEF o
  <2> QED BY <1>1, <2>1, <2>2, ReleaseBars, WalkBars
<1> QED BY <1>3, <1>4, <1>5, <1>6, <1>7, <1>8 DEF Step

LEMMA AnswerBars ==
    ASSUME IInv, NoneAsks, NEW c \in Circuits
    PROVE  ~Answer(c) /\ ~OrderTaken(c)
<1>1. obj[c].pc \notin {"asked", "wol"}
  BY DEF NoneAsks, Barred, IInv, ObjInv, Form
<1> QED BY <1>1 DEF Answer, OrderTaken, OrderRefused, CallFailed, Asked, WOLUseless, WOLSlept,
                    WOLUnanswered, WOLFailed, InWOL

LEMMA HandleBars ==
    ASSUME IInv, NoneAsks, NEW c \in Circuits, Handle(c)
    PROVE  NoneAsks'
<1>1. PICK step \in results :
        \/ ResultRejected(c, step)
        \/ \E result \in {"ok", "ko"} : Result(c, step, result) \/ ResultOutside(c, step, result)
  BY DEF Handle
<1>2. CASE ResultRejected(c, step)
  BY <1>2 DEF ResultRejected, NoneAsks
<1>3. ASSUME NEW result \in {"ok", "ko"}, Result(c, step, result) PROVE NoneAsks'
  BY <1>3, ParseBars DEF Result
<1>4. ASSUME NEW result \in {"ok", "ko"}, ResultOutside(c, step, result) PROVE NoneAsks'
  <2> DEFINE self == [Unused EXCEPT !.seen = coh, !.thread = TRUE, !.recurrent = TRUE,
                                    !.result = result, !.of = step]
  <2>1. CASE Undone = {}
    BY <1>4, <2>1 DEF ResultOutside, NoneAsks
  <2>2. CASE Undone # {}
    <3>1. PICK i \in Undone :
            Walk(c, [self EXCEPT !.step = i, !.todo = Undone \ {i}, !.kept = phase[i]])
      BY <1>4, <2>2 DEF ResultOutside
    <3> DEFINE o == [self EXCEPT !.step = i, !.todo = Undone \ {i}, !.kept = phase[i]]
    <3>2. o.recurrent
      BY DEF Unused
    <3>3. Walk(c, o)
      BY <3>1
    <3>4. obj' = [obj EXCEPT ![c] = [o EXCEPT !.pc = "walk"]]
      BY <3>3 DEF Walk
    <3>5. [o EXCEPT !.pc = "walk"].recurrent
      BY DEF Unused
    <3> HIDE DEF o
    <3>6. Barred([o EXCEPT !.pc = "walk"])
      BY <3>5 DEF Barred
    <3> QED BY <3>4, <3>6 DEF NoneAsks, IInv, ObjInv
  <2> QED BY <2>1, <2>2
<1> QED BY <1>1, <1>2, <1>3, <1>4

\* The row stays stopped, or the count starts again.
LEMMA NextBars ==
    ASSUME IInv, Quiet, NoneAsks, coh.state = "stopped", Next
    PROVE  NoneAsks' /\ ~Taken
<1>1. ~Taken
  <2>1. [Next]_vars
    OBVIOUS
  <2> QED BY <2>1, OnlyTaken, AnswerBars DEF Quiet
<1>2. ASSUME NEW c \in Circuits, Select(c) \/ Run(c) \/ RemoveExpired(c) PROVE NoneAsks'
  <2>1. obj[c].pc \notin {"queued", "waiting"}
    BY DEF NoneAsks, Barred, IInv, ObjInv, Form
  <2>2. RemoveExpired(c)
    <3>1. ~Select(c)
      BY DEF Select
    <3>2. Run(c) => obj[c].pc = "queued" \/ obj[c].pc = "waiting"
      BY DEF Run
    <3> QED BY <1>2, <2>1, <3>1, <3>2
  <2>3. obj[c] \in Object /\ Release(c, obj[c])
    BY <2>2, UnderWay DEF RemoveExpired, IInv, RestInv, Quiet, Called
  <2> QED BY <2>3, ReleaseBars
<1>3. ASSUME NEW c \in Circuits, Step(c) \/ Answer(c) \/ Handle(c) PROVE NoneAsks'
  BY <1>3, StepBars, AnswerBars, HandleBars
<1>4. ASSUME NEW c \in Circuits, ParseOutside(c) PROVE NoneAsks'
  <2>1. CASE obj[c].step = obj[c].of
    BY <1>4, <2>1, ParseBars DEF ParseOutside
  <2>2. CASE obj[c].step # obj[c].of
    BY <1>4, <2>2, UnusedForm DEF ParseOutside, NoneAsks, Barred, IInv, ObjInv
  <2> QED BY <2>1, <2>2
<1>5. CASE \/ ProcessEnded \/ SendFailed \/ Resend \/ LoseResult \/ ProcessNonValid
           \/ AgentStop \/ AgentStart \/ AgentExtend \/ HandleStart \/ LoseCall
           \/ Lapse \/ LauncherRestart
  <2>1. obj' = obj
    BY <1>5 DEF ProcessEnded, SendFailed, Resend, LoseResult, ProcessNonValid, AgentStop,
       AgentStart, AgentExtend, HandleStart, LoseCall, Lapse, LauncherRestart
  <2> QED BY <1>1, <2>1 DEF NoneAsks
<1>6. CASE HandleStop
  <2>1. obj' = [d \in Circuits |-> IF d \in Members(container) THEN Dropped(obj[d]) ELSE obj[d]]
    BY <1>6 DEF HandleStop
  <2> QED BY <1>1, <2>1, DroppedBarred DEF NoneAsks
<1>7. CASE SchedulerRestart
  <2>1. obj' = [d \in Circuits |-> Unused]
    BY <1>7 DEF SchedulerRestart
  <2> QED BY <1>1, <2>1, UnusedForm DEF NoneAsks, Barred
<1> QED BY <1>1, <1>2, <1>3, <1>4, <1>5, <1>6, <1>7 DEF Next

\* The order that leaves after the stop: its circuit gave up, and there is no
\* other.
LEMMA TakenBars ==
    ASSUME IInv, IInv', Quiet, NEW c \in Circuits, OrderTaken(c)
    PROVE  NoneAsks'
<1>1. obj[c].pc = "asked"
  BY DEF OrderTaken, Asked
<1>2. \A d \in Circuits \ {c} : obj[d].pc = "unused"
  BY <1>1 DEF Quiet, Sole, Used
<1>3. obj[c] \in Object /\ Settle(c, obj[c], "out")
  BY <1>1, Waiter DEF OrderTaken, GiveUp
<1>4. \A d \in Circuits \ {c} : obj'[d].pc = "unused"
  BY <1>2, <1>3 DEF Settle, IInv, ObjInv
<1>5. obj'[c].pc \in {"out", "unused"}
  <2>1. [obj[c] EXCEPT !.pc = "out", !.thread = FALSE].pc = "out"
    BY <1>3 DEF Object
  <2> QED BY <1>3, <2>1, UnusedForm DEF Settle, IInv, ObjInv
<1> QED BY <1>4, <1>5 DEF NoneAsks, Barred

LEMMA NextOnceLate ==
    ASSUME IInv, IInv', Quiet, OnceLate, [Next /\ Late]_<<vars, late>>
    PROVE  OnceLate'
<1>1. CASE UNCHANGED <<vars, late>>
  BY <1>1 DEF OnceLate, NoneAsks, vars
<1>2. CASE Next /\ Late /\ coh'.state # "stopped"
  BY <1>2 DEF Late, OnceLate
<1>3. CASE Next /\ Late /\ coh'.state = "stopped" /\ late = 1
  <2>1. NoneAsks' /\ ~Taken
    BY <1>3, NextBars DEF OnceLate
  <2> QED BY <1>3, <2>1 DEF Late, OnceLate
<1>4. CASE Next /\ Late /\ coh'.state = "stopped" /\ late = 0
  <2>1. CASE Taken /\ coh.state = "stopped"
    <3>1. [Next]_vars
      BY <1>4
    <3>2. NoneAsks'
      BY <2>1, <3>1, OnlyTaken, TakenBars DEF Quiet
    <3> QED BY <1>4, <2>1, <3>2 DEF Late, OnceLate
  <2>2. CASE ~(Taken /\ coh.state = "stopped")
    BY <1>4, <2>2 DEF Late, OnceLate
  <2> QED BY <2>1, <2>2
<1> QED BY <1>1, <1>2, <1>3, <1>4 DEF OnceLate

\* Under the same hypotheses, at most one order leaves for a launcher while the
\* CoH is recorded as stopped: the one a circuit was asking for, on a copy of
\* the row from before the stop, while the agent wrote it. No circuit is given up
\* in a call then, so that the bound is one.
THEOREM OneOrderAfterStop ==
    ASSUME PoolKeepsUp, RowsInOrder, MaxOps \in {0, 1}, MaxFaults = 0
    PROVE  StopSpec => [](StopBound /\ late <= 1)
<1> DEFINE Kept == IInv /\ Quiet /\ OnceLate /\ adrift = 0
<1>1. StopInit => Kept
  BY InitIInv, InitQuiet DEF StopInit, OnceLate
<1>2. Kept /\ [Next /\ Late /\ Adrift]_<<vars, late, adrift>> => Kept'
  <2> SUFFICES ASSUME IInv, Quiet, OnceLate, adrift = 0,
                      [Next /\ Late /\ Adrift]_<<vars, late, adrift>>
               PROVE  Kept'
    OBVIOUS
  <2>1. [Next]_vars /\ [Next /\ Late]_<<vars, late>>
    OBVIOUS
  <2>2. IInv' /\ Quiet'
    BY <2>1, NextIInv, NextQuiet
  <2>3. OnceLate'
    BY <2>1, <2>2, NextOnceLate
  <2>4. adrift' = 0
    <3>1. faults \in Nat
      BY DEF IInv, RestInv
    <3>2. ASSUME NEW c \in Circuits, obj[c].pc \in {"asked", "wol"}, RemoveExpired(c)
          PROVE  FALSE
      <4>1. faults < MaxFaults
        BY <3>2 DEF RemoveExpired
      <4> QED BY <3>1, <4>1
    <3>3. ~LeftAsking
      BY <3>2 DEF LeftAsking
    <3> QED BY <3>3 DEF Adrift
  <2> QED BY <2>2, <2>3, <2>4
<1>3. Kept => StopBound /\ late <= 1
  BY DEF OnceLate, StopBound
<1> QED BY <1>1, <1>2, <1>3, PTL DEF StopSpec

-----------------------------------------------------------------------------
(* A CoH left alone lives the life that Deployment promises.                *)

Allowed == Promise!DNext \/ UNCHANGED Promise!dvars

\* Every phase that has something to do is done, ahead or in hand.
Left(o) == \A j \in Steps : phase[j] = "done" \/ j \in Optional \/ j \in o.todo \/ j = o.step

\* A window that ended sent it to the last phase, where it will be released.
Over(o) == lapsed > 0 /\ o.step = LastStep

\* A circuit knows what was charged, and no one else charges.
Calm(o) ==
    /\ o.seen.attempts_failed = coh.attempts_failed
    /\ o.seen.state # "stopped"
    /\ o.pc \in {"queued", "waiting"} => o.step = 0
    /\ Left(o) \/ Over(o)
    /\ coh.attempts_failed < MaxAttempts \/ GaveIn(o) \/ Over(o)
    /\ GaveIn(o) => coh.state = "failed"
    /\ coh.state = "over_timed" => coh.attempts_failed = 0

\* What the row owes to the promise.
Kept ==
    /\ coh.state # "stopped"
    /\ coh.state = "scheduled" => coh.attempts_failed < MaxAttempts
    /\ DoneComplete

CalmInv ==
    /\ ops = 0 /\ Blamed /\ Kept
    /\ \A c \in Circuits : obj[c].pc \in Live => Calm(obj[c])

LEMMA SameAllowed ==
    ASSUME coh'.state = coh.state, coh'.attempts_failed = coh.attempts_failed,
           \A i \in Steps : phase'[i] = "done" <=> phase[i] = "done"
    PROVE  Allowed
<1>1. {i \in Steps : phase[i] = "done"}' = {i \in Steps : phase[i] = "done"}
  OBVIOUS
<1> QED BY <1>1 DEF Allowed, Promise!dvars

LEMMA FinishAllowed ==
    ASSUME NEW i \in Steps, i # LastStep, Steps = 1..LastStep, LastStep \in Steps,
           coh' = coh, coh.state # "done", phase[i] # "done", phase'[i] = "done",
           \A j \in Steps \ {i} : phase'[j] = phase[j],
           \A j \in Steps : j < i => phase[j] = "done" \/ j \in Optional
    PROVE  Allowed
<1>1. {j \in Steps : phase[j] = "done"}' = {j \in Steps : phase[j] = "done"} \cup {i}
  OBVIOUS
<1>2. i \in 1..(Len(Workflow) - 1)
  BY DEF LastStep
<1>3. Promise!Passed(i)
  BY DEF Promise!Passed
<1>4. Promise!Finish(i)
  BY <1>1, <1>3 DEF Promise!Finish
<1> QED BY <1>2, <1>4 DEF Allowed, Promise!DNext

LEMMA ChargeAllowed ==
    ASSUME coh.state # "done", coh.attempts_failed < MaxAttempts,
           coh'.attempts_failed = coh.attempts_failed + 1,
           coh'.state = IF coh'.attempts_failed = MaxAttempts THEN "failed" ELSE coh.state,
           \A i \in Steps : phase'[i] = "done" <=> phase[i] = "done"
    PROVE  Allowed
<1>1. {i \in Steps : phase[i] = "done"}' = {i \in Steps : phase[i] = "done"}
  OBVIOUS
<1>2. Promise!Charge
  BY <1>1 DEF Promise!Charge
<1> QED BY <1>2 DEF Allowed, Promise!DNext

LEMMA CompleteAllowed ==
    ASSUME LastStep \in Steps, Steps = 1..LastStep, coh.state = "scheduled", coh'.state = "done",
           coh'.attempts_failed = coh.attempts_failed, phase'[LastStep] = "done",
           \A j \in Steps \ {LastStep} : phase'[j] = phase[j],
           \A j \in Steps : j < LastStep => phase[j] = "done" \/ j \in Optional
    PROVE  Allowed
<1>1. {j \in Steps : phase[j] = "done"}' = {j \in Steps : phase[j] = "done"} \cup {Len(Workflow)}
  BY DEF LastStep
<1>2. Promise!Passed(Len(Workflow))
  BY DEF Promise!Passed, LastStep
<1>3. Promise!Complete
  BY <1>1, <1>2 DEF Promise!Complete
<1> QED BY <1>3 DEF Allowed, Promise!DNext

LEMMA CloseAllowed ==
    ASSUME coh.state = "scheduled", coh'.attempts_failed = coh.attempts_failed,
           coh'.state = IF coh.attempts_failed > 0 THEN "failed" ELSE "over_timed",
           phase' = phase
    PROVE  Allowed
<1>1. Promise!Close
  BY DEF Promise!Close
<1> QED BY <1>1 DEF Allowed, Promise!DNext

LEMMA KeptStays ==
    ASSUME IInv, Kept, Allowed
    PROVE  Kept'
<1>1. LastStep \in Steps /\ Steps = 1..LastStep /\ LastStep = Len(Workflow)
      /\ MaxAttempts \in Nat /\ coh \in Row
  BY Constants, CircuitAssumption DEF LastStep, CircuitAssumption, IInv, RowInv
<1> DEFINE F == {i \in Steps : phase[i] = "done"}
<1>2. (\A i \in Steps : i \in F <=> phase[i] = "done")
      /\ (\A i \in Steps : i \in F' <=> phase'[i] = "done")
  OBVIOUS
<1> HIDE DEF F
<1>3. CASE UNCHANGED Promise!dvars
  <2>1. coh'.state = coh.state /\ coh'.attempts_failed = coh.attempts_failed /\ F' = F
    BY <1>3 DEF Promise!dvars, F
  <2> QED BY <1>2, <2>1 DEF Kept, DoneComplete
<1>4. ASSUME NEW i \in 1..(Len(Workflow) - 1), Promise!Finish(i) PROVE Kept'
  <2>1. /\ coh'.state = coh.state /\ coh'.attempts_failed = coh.attempts_failed
        /\ F' = F \cup {i} /\ coh.state # "done"
    BY <1>4 DEF Promise!Finish, F
  <2> QED BY <2>1 DEF Kept, DoneComplete
<1>5. CASE Promise!Charge
  <2>1. /\ coh'.state = IF coh'.attempts_failed = MaxAttempts THEN "failed" ELSE coh.state
        /\ coh'.attempts_failed = coh.attempts_failed + 1
        /\ coh.attempts_failed < MaxAttempts /\ coh.state # "done"
    BY <1>5 DEF Promise!Charge
  <2> QED BY <1>1, <2>1 DEF Kept, DoneComplete, Row
<1>6. CASE Promise!Complete
  <2>1. /\ coh'.state = "done" /\ F' = F \cup {Len(Workflow)} /\ Promise!Passed(Len(Workflow))
    BY <1>6 DEF Promise!Complete, F
  <2>2. \A i \in Steps : i < LastStep => i \in F \cup Optional
    BY <1>1, <2>1 DEF Promise!Passed, F
  <2>3. \A i \in Steps : phase'[i] = "done" \/ i \in Optional
    <3> TAKE i \in Steps
    <3>1. i \in F' \/ i \in Optional
      BY <1>1, <2>1, <2>2
    <3> QED BY <1>2, <3>1
  <2> QED BY <2>1, <2>3 DEF Kept, DoneComplete
<1>7. CASE Promise!Close
  BY <1>7 DEF Promise!Close, Kept, DoneComplete
<1> QED BY <1>3, <1>4, <1>5, <1>6, <1>7 DEF Allowed, Promise!DNext

\* No agent, no fault: the window is the first one, and nobody is astray.
LEMMA Peace ==
    ASSUME IInv, Quiet, CalmInv
    PROVE  /\ calls = {} /\ coh.window = 0 /\ ~Halted /\ faults = 0 /\ lapsed \in Nat
           /\ coh \in Row /\ coh.state \in CoHStates /\ coh.state # "stopped"
           /\ coh.attempts_failed \in Nat
           /\ \A c \in Circuits : ~obj[c].recurrent
<1>1. \A c \in Circuits : ~obj[c].recurrent
  BY DEF Quiet, Fit, Astray, CalmInv, Halted
<1> QED BY <1>1 DEF IInv, RowInv, RestInv, Row, Quiet, Called, CalmInv, Halted, Kept

\* A circuit under way, in a life without agent or fault.
LEMMA Peaceful ==
    ASSUME IInv, Quiet, CalmInv, NEW c \in Circuits, obj[c].pc \in Live
    PROVE  /\ Calm(obj[c]) /\ obj[c] \in Object /\ obj[c].seen \in Row
           /\ ~obj[c].recurrent /\ obj[c].pc # "parse" /\ coh.state # "done"
           /\ Expired(obj[c].seen) <=> lapsed > 0
           /\ obj[c].seen.state \in Final => lapsed > 0 \/ GaveIn(obj[c])
           /\ coh.state \in Final => lapsed > 0 \/ GaveIn(obj[c])
           /\ obj[c].pc \in {"asked", "wol", "out"} => obj[c].seen.state = "scheduled"
           /\ obj[c].pc \in InHand => \A j \in obj[c].todo : obj[c].step < j
           /\ \A d \in Circuits \ {c} : obj[d].pc = "unused"
           /\ LastStep \in Steps /\ Steps = 1..LastStep /\ MaxAttempts \in Nat \ {0}
           /\ coh.attempts_failed \in Nat /\ obj[c].seen.attempts_failed \in Nat
           /\ phase[LastStep] # "done"
<1>1. /\ Calm(obj[c]) /\ Fit(obj[c]) /\ obj[c] \in Object /\ obj[c].seen \in Row
      /\ obj[c].seen.window <= coh.window /\ obj[c].seen.window \in Nat
      /\ LastStep \in Steps /\ Steps = 1..LastStep
      /\ \A d \in Circuits \ {c} : obj[d].pc = "unused"
  BY AtHand DEF CalmInv
<1>2. ~obj[c].recurrent /\ coh.window = 0 /\ lapsed \in Nat
  BY Peace
<1>3. Expired(obj[c].seen) <=> lapsed > 0
  BY <1>1, <1>2 DEF Expired
<1>4. obj[c].pc \in {"asked", "wol", "out"} => obj[c].seen.state = "scheduled"
  BY <1>1, <1>2 DEF Fit, Sent, Row, CoHStates, Final, Calm
<1> QED BY <1>1, <1>2, <1>3, <1>4, Peace, CircuitAssumption
        DEF Fit, Held, Fresh, Open, Astray, Row, CircuitAssumption

\* Whoever carries out the CoH after the step is calm.
Lively == \A d \in Circuits : obj'[d].pc \in Live => Calm(obj[d])'

Spent(o) == o.kept = "failed" /\ Workflow[o.step] = "wu_parse" /\ Exhausted(o.seen)

LEMMA WalksOn ==
    ASSUME IInv, Quiet, CalmInv, NEW c \in Circuits, obj[c].pc \in Live,
           NEW self \in Object, Walk(c, self), lapsed' = lapsed,
           self.seen.attempts_failed = coh'.attempts_failed, self.seen.state # "stopped",
           \/ \A j \in Steps : \/ phase'[j] = "done" \/ j \in Optional
                               \/ j \in self.todo \/ j = self.step
           \/ Over(self),
           coh'.attempts_failed < MaxAttempts \/ Spent(self) \/ Over(self),
           Spent(self) => coh'.state = "failed",
           coh'.state = "over_timed" => coh'.attempts_failed = 0
    PROVE  Lively
<1> DEFINE p == [self EXCEPT !.pc = "walk"]
<1>1. /\ p.pc = "walk" /\ p.step = self.step /\ p.todo = self.todo /\ p.seen = self.seen
      /\ p.kept = self.kept
  BY DEF Object
<1>2. obj'[c] = p
  BY DEF Walk, IInv, ObjInv
<1> HIDE DEF p
<1>3. \A d \in Circuits \ {c} : obj'[d].pc = "unused"
  BY Peaceful, OthersUnused
<1>4. GaveIn(obj[c])' <=> Spent(self)
  BY <1>1, <1>2 DEF GaveIn, Spent, Exhausted
<1>5. Over(self) => Over(obj[c])'
  BY <1>1, <1>2 DEF Over
<1>6. Calm(obj[c])'
  BY <1>1, <1>2, <1>4, <1>5 DEF Calm, Left
<1> QED BY <1>3, <1>6 DEF Lively, Live, InHand

LEMMA SettlesCalm ==
    ASSUME IInv, Quiet, CalmInv, NEW c \in Circuits, obj[c].pc \in Live, ~GaveIn(obj[c]),
           NEW self \in Object, NEW pc \in {"asked", "wol", "out"}, Settle(c, self, pc),
           self.seen = obj[c].seen, self.todo = obj[c].todo, self.step = obj[c].step,
           UNCHANGED <<coh, lapsed>>,
           \A i \in Steps : phase'[i] = "done" <=> phase[i] = "done"
    PROVE  Allowed /\ Lively
<1> DEFINE p == [self EXCEPT !.pc = pc, !.thread = FALSE]
<1>1. p.pc = pc /\ p.step = self.step /\ p.todo = self.todo /\ p.seen = self.seen
  BY DEF Object
<1>2. obj'[c] = p \/ obj'[c] = Unused
  BY DEF Settle, IInv, ObjInv
<1> HIDE DEF p
<1>3. \A d \in Circuits \ {c} : obj'[d].pc = "unused"
  BY Peaceful, OthersUnused
<1>4. Unused.pc \notin Live
  BY DEF Unused, Live, InHand
<1>5. ASSUME obj'[c] = p PROVE Calm(obj[c])'
  <2>1. Calm(obj[c])
    BY Peaceful
  <2>2. ~GaveIn(obj[c])'
    BY <1>1, <1>5 DEF GaveIn
  <2>3. (Over(obj[c]) => Over(obj[c])') /\ (Left(obj[c]) => Left(obj[c])')
    BY <1>1, <1>5 DEF Over, Left
  <2> QED BY <1>1, <1>5, <2>1, <2>2, <2>3 DEF Calm
<1>6. Allowed
  BY SameAllowed
<1> QED BY <1>2, <1>3, <1>4, <1>5, <1>6 DEF Lively, Live, InHand

LEMMA ReleasesCalm ==
    ASSUME IInv, Quiet, CalmInv, NEW c \in Circuits, obj[c].pc \in Live \cup {"released"},
           NEW self \in Object, ~self.recurrent, Release(c, self)
    PROVE  Lively
<1> DEFINE r == [self EXCEPT !.pc = "released", !.thread = FALSE]
<1>1. r.pc = "released" /\ r.pc \notin Live /\ Unused.pc \notin Live
  BY DEF Object, Unused, Live, InHand
<1>2. obj'[c] = r \/ obj'[c] = Unused
  BY DEF Release
<1>3. \A d \in Circuits \ {c} : obj[d].pc = "unused"
  BY DEF Quiet, Sole, Used, Live, InHand
<1>4. \A d \in Circuits \ {c} : obj'[d].pc = "unused"
  BY <1>3, OthersUnused
<1> HIDE DEF r
<1> QED BY <1>1, <1>2, <1>4 DEF Lively, Live, InHand

LEMMA FailureCharged ==
    ASSUME IInv, NEW old \in Row, NEW row \in Row,
           old.state = "scheduled", row.state = "scheduled", row.window = old.window,
           row.attempts_failed = coh.attempts_failed, old.attempts_failed = coh.attempts_failed,
           coh.attempts_failed < MaxAttempts, coh'= Flush(old, Charged(row))
    PROVE  /\ coh'.attempts_failed = coh.attempts_failed + 1
           /\ coh'.state = IF coh'.attempts_failed = MaxAttempts THEN "failed" ELSE coh.state
           /\ Charged(row) \in Row
           /\ Charged(row).attempts_failed = coh'.attempts_failed
           /\ Charged(row).state = IF coh'.attempts_failed = MaxAttempts THEN "failed"
                                   ELSE "scheduled"
<1> DEFINE n == IF Exhausted(row) THEN row.attempts_failed ELSE row.attempts_failed + 1
           r == Charged(row)
<1>1. coh.attempts_failed \in Nat /\ coh \in Row /\ MaxAttempts \in Nat
      /\ n = coh.attempts_failed + 1
  BY CircuitAssumption DEF IInv, RowInv, Row, CircuitAssumption, Exhausted
<1>2. r = [row EXCEPT !.attempts_failed = n,
                      !.state = IF n >= MaxAttempts THEN "failed" ELSE @]
  BY DEF Charged
<1> HIDE DEF n, r
<1>3. /\ r \in Row /\ r.attempts_failed = coh.attempts_failed + 1 /\ r.window = old.window
      /\ r.state = IF coh.attempts_failed + 1 = MaxAttempts THEN "failed" ELSE "scheduled"
  <2>1. /\ r.attempts_failed = n /\ r.window = row.window
        /\ r.state = IF n >= MaxAttempts THEN "failed" ELSE row.state
    BY <1>2 DEF Row
  <2>2. r \in Row
    BY <1>1, ChargedRow DEF r
  <2> QED BY <1>1, <2>1, <2>2
<1>4. /\ coh'.attempts_failed = r.attempts_failed
      /\ coh'.state = IF r.state = "scheduled" THEN coh.state ELSE r.state
  BY <1>1, <1>3 DEF Flush, Row, r
<1> QED BY <1>1, <1>3, <1>4 DEF r

\* On to the next phase: what is left behind is done, has nothing to do, or the
\* window has ended and the last phase comes next.
LEMMA NextsCalm ==
    ASSUME IInv, Quiet, CalmInv, NEW c \in Circuits, Walking(c), NextPhase(c),
           UNCHANGED <<coh, lapsed>>,
           \A j \in Steps \ {obj[c].step} : phase'[j] = phase[j],
           \/ ~GaveIn(obj[c]) /\ (phase'[obj[c].step] = "done" \/ obj[c].step \in Optional)
           \/ lapsed > 0 /\ Cardinality(obj[c].todo) <= 1
    PROVE  Lively
<1>1. obj[c].pc = "walk" /\ obj[c].pc \in Live /\ obj[c].pc \in InHand
  BY DEF Walking, Live, InHand
<1>2. /\ Calm(obj[c]) /\ obj[c] \in Object /\ ~obj[c].recurrent /\ coh \in Row
      /\ phase \in [Steps -> PhaseStates] /\ obj[c].step \in Steps
      /\ LastStep \in Steps /\ Steps = 1..LastStep /\ coh.state # "stopped"
      /\ \A j \in obj[c].todo : obj[c].step < j
      /\ obj[c].todo \subseteq Steps
      /\ LastStep \in obj[c].todo \/ obj[c].step = LastStep
      /\ coh.attempts_failed \in Nat /\ MaxAttempts \in Nat
  BY <1>1, Peaceful, Peace, Walker DEF IInv, RestInv, Object
<1>3. CASE obj[c].todo = {}
  BY <1>1, <1>2, <1>3, ReleasesCalm DEF NextPhase
<1>4. CASE obj[c].todo # {}
  <2>1. PICK i \in obj[c].todo :
          /\ IsFirst(i, obj[c].todo)
          /\ Walk(c, [obj[c] EXCEPT !.step = i, !.todo = @ \ {i},
                                    !.seen = coh, !.kept = phase[i]])
    BY <1>4 DEF NextPhase
  <2> DEFINE p == [obj[c] EXCEPT !.step = i, !.todo = @ \ {i},
                                 !.seen = coh, !.kept = phase[i]]
  <2>2. /\ p \in Object /\ p.step = i /\ p.todo = obj[c].todo \ {i} /\ p.seen = coh
        /\ p.kept = phase[i] /\ p.pc = "walk" /\ i \in Steps /\ Walk(c, p)
    BY <1>1, <1>2, <2>1 DEF Object
  <2> HIDE DEF p
  <2>3. obj[c].step # LastStep /\ LastStep \in obj[c].todo
    BY <1>2, <2>1, <2>2
  <2>4. Left(obj[c]) /\ (GaveIn(obj[c]) \/ coh.attempts_failed < MaxAttempts)
    BY <1>2, <2>3 DEF Calm, Over
  <2>5. coh.state = "over_timed" => coh.attempts_failed = 0
    BY <1>2 DEF Calm
  <2>6. CASE ~GaveIn(obj[c]) /\ (phase'[obj[c].step] = "done" \/ obj[c].step \in Optional)
    <3>1. \A j \in Steps : \/ phase'[j] = "done" \/ j \in Optional
                           \/ j \in p.todo \/ j = p.step
      BY <2>2, <2>4, <2>6 DEF Left
    <3>2. coh.attempts_failed < MaxAttempts /\ ~Spent(p)
      BY <1>2, <2>2, <2>4, <2>6 DEF Spent, Exhausted
    <3> QED BY <1>1, <1>2, <2>2, <2>5, <3>1, <3>2, WalksOn
  <2>7. CASE lapsed > 0 /\ Cardinality(obj[c].todo) <= 1
    <3>1. IsFiniteSet(obj[c].todo)
      <4>1. LastStep \in Int /\ IsFiniteSet(1..LastStep)
        BY <1>2, FS_Interval
      <4> QED BY <1>2, <4>1, FS_Subset
    <3>2. ASSUME i # LastStep PROVE FALSE
      <4>1. Cardinality({i, LastStep}) = 2 /\ IsFiniteSet({i, LastStep})
        <5>1. IsFiniteSet({i}) /\ Cardinality({i}) = 1
          BY FS_Singleton
        <5>2. /\ IsFiniteSet({i} \cup {LastStep})
              /\ Cardinality({i} \cup {LastStep}) = Cardinality({i}) + 1
          BY <3>2, <5>1, FS_AddElement
        <5>3. {i} \cup {LastStep} = {i, LastStep}
          OBVIOUS
        <5> QED BY <5>1, <5>2, <5>3
      <4>2. Cardinality({i, LastStep}) <= Cardinality(obj[c].todo)
        BY <2>1, <2>3, <3>1, FS_Subset
      <4>3. Cardinality(obj[c].todo) \in Nat
        BY <3>1, FS_CardinalityType
      <4> QED BY <2>7, <4>1, <4>2, <4>3
    <3>3. Over(p) /\ Workflow[LastStep] = "done"
      BY <1>2, <2>2, <2>7, <3>2, CircuitAssumption DEF Over, CircuitAssumption, LastStep
    <3>4. ~Spent(p)
      BY <2>2, <3>2, <3>3 DEF Spent
    <3> QED BY <1>1, <1>2, <2>2, <2>5, <3>3, <3>4, WalksOn
  <2> QED BY <2>6, <2>7
<1> QED BY <1>3, <1>4

LEMMA InTimeCalm ==
    ASSUME IInv, Quiet, CalmInv, NEW c \in Circuits, InTime(c)
    PROVE  /\ Walking(c) /\ obj[c].pc = "walk" /\ obj[c].pc \in Live /\ lapsed = 0
           /\ Left(obj[c]) /\ ~obj[c].recurrent
           /\ ~GaveIn(obj[c]) => /\ obj[c].seen.state = "scheduled" /\ coh.state = "scheduled"
                                 /\ coh.attempts_failed < MaxAttempts
           /\ GaveIn(obj[c]) => coh.state = "failed"
<1>1. Walking(c) /\ obj[c].pc = "walk" /\ obj[c].pc \in Live /\ ~Expired(obj[c].seen)
  BY DEF InTime, General, Walking, Live, InHand
<1>2. lapsed = 0
  BY <1>1, Peaceful, Peace
<1>3. Calm(obj[c]) /\ ~Over(obj[c])
  BY <1>1, <1>2, Peaceful DEF Over
<1>4. ~GaveIn(obj[c]) => obj[c].seen.state \notin Final /\ coh.state \notin Final
  BY <1>1, <1>2, Peaceful
<1>5. obj[c].seen.state \in CoHStates /\ coh.state \in CoHStates /\ coh.state # "stopped"
  BY <1>1, Peaceful, Peace DEF Row
<1> QED BY <1>1, <1>2, <1>3, <1>4, <1>5, Peaceful DEF Calm, Final, CoHStates

\* A phase that only changes from one state that is not done to another.
LEMMA PhaseUndone ==
    ASSUME IInv, NEW i \in Steps, NEW new \in PhaseStates, new # "done", phase[i] # "done",
           phase' = FlushPhase(i, phase[i], new) \/ phase' = [phase EXCEPT ![i] = new]
    PROVE  \A j \in Steps : phase'[j] = "done" <=> phase[j] = "done"
<1>1. phase'[i] = new /\ \A j \in Steps \ {i} : phase'[j] = phase[j]
  BY PhaseWritten
<1> QED BY <1>1

\* The phase in hand is done,
LEMMA InHandDone ==
    ASSUME IInv, Quiet, CalmInv, NEW c \in Circuits, obj[c].pc \in InHand,
           obj[c].kept = phase[obj[c].step], obj[c].step \in Steps,
           obj[c].kept # "done", obj[c].step # LastStep,
           \/ phase' = FlushPhase(obj[c].step, obj[c].kept, "done")
           \/ phase' = [phase EXCEPT ![obj[c].step] = "done"],
           UNCHANGED coh
    PROVE  /\ Allowed /\ phase'[obj[c].step] = "done"
           /\ \A j \in Steps \ {obj[c].step} : phase'[j] = phase[j]
<1>1. /\ phase'[obj[c].step] = "done"
      /\ \A j \in Steps \ {obj[c].step} : phase'[j] = phase[j]
  BY PhaseWritten DEF PhaseStates
<1>2. obj[c].pc \in Live
  BY DEF Live
<1>3. Left(obj[c])
  BY <1>2, Peaceful DEF Calm, Over
<1>4. \A j \in Steps : j < obj[c].step => j \notin obj[c].todo /\ j # obj[c].step
  <2>1. Steps = 1..LastStep /\ LastStep \in Steps /\ \A j \in obj[c].todo : obj[c].step < j
    BY <1>2, Peaceful
  <2> QED BY <2>1
<1>5. \A j \in Steps : j < obj[c].step => phase[j] = "done" \/ j \in Optional
  BY <1>3, <1>4 DEF Left
<1> QED BY <1>1, <1>2, <1>5, Peaceful, FinishAllowed

\* ... and its rules are applied once more.
LEMMA AgainCalm ==
    ASSUME IInv, Quiet, CalmInv, NEW c \in Circuits, obj[c].pc \in InHand,
           obj[c].kept = phase[obj[c].step], obj[c].step \in Steps,
           obj[c].kept # "done", obj[c].step # LastStep, ~GaveIn(obj[c]),
           NEW self \in Object, Walk(c, self), self.seen = obj[c].seen,
           self.step = obj[c].step, self.todo = obj[c].todo, self.kept = "done",
           \/ phase' = FlushPhase(obj[c].step, obj[c].kept, "done")
           \/ phase' = [phase EXCEPT ![obj[c].step] = "done"],
           UNCHANGED <<coh, lapsed>>
    PROVE  Allowed /\ Lively
<1>1. obj[c].pc \in Live
  BY DEF Live
<1>2. /\ Allowed /\ phase'[obj[c].step] = "done"
      /\ \A j \in Steps \ {obj[c].step} : phase'[j] = phase[j]
  BY InHandDone
<1>3. Calm(obj[c])
  BY <1>1, Peaceful
<1>4. \/ \A j \in Steps : \/ phase'[j] = "done" \/ j \in Optional
                          \/ j \in self.todo \/ j = self.step
      \/ Over(self)
  BY <1>2, <1>3 DEF Calm, Left, Over
<1>5. ~Spent(self)
  BY DEF Spent
<1>6. coh.attempts_failed < MaxAttempts \/ Over(self)
  BY <1>3 DEF Calm, Over
<1> QED BY <1>1, <1>2, <1>3, <1>4, <1>5, <1>6, WalksOn DEF Calm

\* The phase in hand fails: an attempt is charged, and the circuit is released.
LEMMA FailCalm ==
    ASSUME IInv, Quiet, CalmInv, NEW c \in Circuits, obj[c].pc \in {"asked", "wol", "out"},
           NEW row \in Row, row.state = "scheduled", row.window = obj[c].seen.window,
           row.attempts_failed = obj[c].seen.attempts_failed, FailPhase(c, row)
    PROVE  Allowed /\ Lively
<1> DEFINE i == obj[c].step
           seen == obj[c].seen
           k == IF obj[c].kept = "running" THEN "failed" ELSE obj[c].kept
           o == [obj[c] EXCEPT !.seen = Charged(row), !.kept = k, !.result = "none"]
<1>1. /\ coh' = Flush(seen, Charged(row)) /\ phase' = FlushPhase(i, obj[c].kept, k)
      /\ Release(c, o)
  BY DEF FailPhase
<1>2. /\ obj[c].pc \in {"asked", "wol", "out", "parse"} /\ obj[c].pc \in Live
      /\ Calm(obj[c]) /\ ~GaveIn(obj[c]) /\ ~Over(obj[c]) /\ seen.state = "scheduled"
      /\ coh.state # "done" /\ obj[c].kept = phase[i] /\ i \in Steps
      /\ obj[c] \in Object /\ seen \in Row
  BY Waiter, Peaceful DEF Over
<1>3. coh.attempts_failed < MaxAttempts /\ seen.attempts_failed = coh.attempts_failed
  BY <1>2 DEF Calm
<1>4. /\ coh'.attempts_failed = coh.attempts_failed + 1
      /\ coh'.state = IF coh'.attempts_failed = MaxAttempts THEN "failed" ELSE coh.state
      /\ Charged(row) \in Row
  BY <1>1, <1>2, <1>3, FailureCharged
<1>5. k \in PhaseStates /\ (k = "done" <=> phase[i] = "done")
  BY <1>2 DEF Object, PhaseStates
<1>6. o \in Object /\ ~o.recurrent
  BY <1>2, <1>4, <1>5, Peaceful DEF Object
<1> HIDE DEF o, k
<1>7. \A j \in Steps : phase'[j] = "done" <=> phase[j] = "done"
  <2>1. phase'[i] = k /\ \A j \in Steps \ {i} : phase'[j] = phase[j]
    BY <1>1, <1>2, <1>5, PhaseWritten
  <2> QED BY <1>5, <2>1
<1>8. Allowed
  BY <1>2, <1>3, <1>4, <1>7, ChargeAllowed
<1>9. Lively
  BY <1>1, <1>2, <1>6, ReleasesCalm
<1> QED BY <1>8, <1>9

LEMMA SkipCalm ==
    ASSUME IInv, Quiet, CalmInv, NEW c \in Circuits, Skip(c)
    PROVE  Allowed /\ Lively
<1> DEFINE i == obj[c].step
           seen == obj[c].seen
<1>1. /\ Walking(c) /\ NextPhase(c) /\ lapsed' = lapsed
      /\ Name(c) \in Nothing \cup {"wol"} /\ Name(c) = Workflow[i]
  BY DEF Skip, Name
<1>2. obj[c].pc \in InHand /\ obj[c].pc \in Live /\ i \in Steps /\ seen \in Row
      /\ LastStep \in Steps /\ obj[c].kept = phase[i]
  BY <1>1, Walker
<1>3. i \in Optional /\ i # LastStep /\ ~GaveIn(obj[c])
  BY <1>1, <1>2, CircuitAssumption DEF Optional, CircuitAssumption, LastStep, GaveIn
<1>4. coh' = coh
  <2>1. CASE Name(c) = "wol"
    <3>1. seen.state = "scheduled"
      BY <1>1, <1>2, <2>1, Walker, Peaceful
    <3>2. coh' = Flush(seen, [seen EXCEPT !.state = "scheduled"])
      BY <2>1, <3>1 DEF Skip
    <3> QED BY <1>2, <3>1, <3>2 DEF Flush, IInv, RowInv, Row
  <2>2. CASE Name(c) # "wol"
    BY <2>2 DEF Skip
  <2> QED BY <2>1, <2>2
<1>5. \/ phase' = phase
      \/ obj[c].kept # "done" /\ phase' = FlushPhase(i, obj[c].kept, "done")
  BY DEF Skip, FlushPhase
<1>6. CASE phase' = phase
  BY <1>1, <1>3, <1>4, <1>6, SameAllowed, NextsCalm
<1>7. CASE obj[c].kept # "done" /\ phase' = FlushPhase(i, obj[c].kept, "done")
  <2>1. Allowed /\ \A j \in Steps \ {i} : phase'[j] = phase[j]
    BY <1>2, <1>3, <1>4, <1>7, InHandDone
  <2> QED BY <1>1, <1>3, <1>4, <2>1, NextsCalm
<1> QED BY <1>5, <1>6, <1>7

LEMMA EndsCalm ==
    ASSUME IInv, Quiet, CalmInv, NEW c \in Circuits,
           Advance(c) \/ StopSeen(c) \/ ForcedFinish(c) \/ OverTimed(c) \/ OutOfAttempts(c)
    PROVE  Allowed /\ Lively
<1> DEFINE seen == obj[c].seen
<1>1. Walking(c) /\ obj[c].pc \in Live /\ phase' = phase /\ lapsed' = lapsed
  BY DEF Advance, StopSeen, ForcedFinish, OverTimed, OutOfAttempts, Finished, Stopped,
         TooLate, GivenUp, InTime, General, Walking, Live, InHand
<1>2. /\ Calm(obj[c]) /\ seen \in Row /\ ~obj[c].recurrent /\ obj[c] \in Object
      /\ coh.state # "done" /\ coh.state \in CoHStates /\ coh.state # "stopped"
      /\ obj[c].kept = phase[obj[c].step]
      /\ coh.attempts_failed \in Nat /\ coh \in Row
  BY <1>1, Peaceful, Peace, Walker
<1>3. ~StopSeen(c)
  BY <1>2 DEF StopSeen, Stopped, Calm
<1>4. CASE Advance(c)
  <2>1. NextPhase(c) /\ coh' = coh /\ obj[c].kept = "done"
    BY <1>4 DEF Advance, Finished
  <2> QED BY <1>1, <1>2, <2>1, SameAllowed, NextsCalm DEF GaveIn
<1>5. CASE ForcedFinish(c)
  <2>1. NextPhase(c) /\ coh' = coh /\ lapsed > 0 /\ Cardinality(obj[c].todo) <= 1
    BY <1>1, <1>5, Peaceful DEF ForcedFinish, TooLate
  <2> QED BY <1>1, <2>1, SameAllowed, NextsCalm
<1>6. CASE OverTimed(c)
  <2>1. /\ Release(c, obj[c]) /\ coh'.attempts_failed = coh.attempts_failed
        /\ coh'.state = IF AnyFailed \/ seen.attempts_failed > 0
                        THEN "failed" ELSE "over_timed"
    BY <1>6, StateSet DEF OverTimed
  <2>2. /\ seen.attempts_failed = coh.attempts_failed
        /\ AnyFailed \/ coh.state = "failed" => coh.attempts_failed > 0
        /\ coh.state = "over_timed" => coh.attempts_failed = 0
    BY <1>2 DEF Calm, CalmInv, Blamed, AnyFailed
  <2>3. coh'.state = IF coh.attempts_failed > 0 THEN "failed" ELSE "over_timed"
    BY <2>1, <2>2
  <2>4. Allowed
    BY <1>1, <1>2, <2>1, <2>2, <2>3, CloseAllowed, SameAllowed DEF CoHStates
  <2> QED BY <1>1, <1>2, <2>1, <2>4, ReleasesCalm
<1>7. CASE OutOfAttempts(c)
  <2>1. /\ Release(c, obj[c]) /\ InTime(c) /\ Exhausted(seen)
        /\ coh' = Flush(seen, [seen EXCEPT !.state = "failed"])
    BY <1>7 DEF OutOfAttempts, GivenUp
  <2>2. coh.state = "failed"
    BY <1>2, <2>1, InTimeCalm, CircuitAssumption DEF Exhausted, Calm, CircuitAssumption
  <2>3. coh'.state = coh.state /\ coh'.attempts_failed = coh.attempts_failed
    BY <1>2, <2>1, <2>2, StateFlushed DEF CoHStates
  <2> QED BY <1>1, <1>2, <2>1, <2>3, SameAllowed, ReleasesCalm
<1> QED BY <1>3, <1>4, <1>5, <1>6, <1>7

LEMMA PerformCalm ==
    ASSUME IInv, Quiet, CalmInv, NEW c \in Circuits, Perform(c) \/ PerformWOL(c)
    PROVE  Allowed /\ Lively
<1> DEFINE i == obj[c].step
           o == [obj[c] EXCEPT !.kept = "running"]
<1>1. /\ Walking(c) /\ obj[c].kept # "done" /\ UNCHANGED <<coh, lapsed>>
      /\ phase' = FlushPhase(i, obj[c].kept, "running")
      /\ Settle(c, o, "asked") \/ Settle(c, o, "wol")
      /\ Workflow[i] \in Remote \cup {"wol"}
  BY DEF Perform, PerformWOL, ToPerform, InTime, General, Name
<1>2. o \in Object /\ o.step = i /\ o.todo = obj[c].todo /\ o.seen = obj[c].seen
  BY <1>1, Walker DEF Object, PhaseStates
<1> HIDE DEF o
<1>3. \A j \in Steps : phase'[j] = "done" <=> phase[j] = "done"
  BY <1>1, Walker, PhaseUndone DEF PhaseStates
<1>4. ~GaveIn(obj[c])
  BY <1>1 DEF GaveIn, Remote
<1> QED BY <1>1, <1>2, <1>3, <1>4, Walker, SettlesCalm

LEMMA PerformWithoutHostCalm ==
    ASSUME IInv, Quiet, CalmInv, NEW c \in Circuits, PerformWithoutHost(c)
    PROVE  Allowed /\ Lively
<1> DEFINE i == obj[c].step
           seen == obj[c].seen
           o == [obj[c] EXCEPT !.seen = Charged(seen), !.kept = "failed"]
<1>1. /\ InTime(c) /\ obj[c].kept # "done" /\ Workflow[i] \in Remote
      /\ coh' = Flush(seen, Charged(seen)) /\ phase' = [phase EXCEPT ![i] = "failed"]
      /\ Release(c, o)
  BY DEF PerformWithoutHost, ToPerform, Name
<1>2. ~GaveIn(obj[c])
  BY <1>1 DEF GaveIn, Remote
<1>3. /\ Walking(c) /\ obj[c].pc \in Live /\ seen.state = "scheduled" /\ coh.state = "scheduled"
      /\ coh.attempts_failed < MaxAttempts /\ seen.attempts_failed = coh.attempts_failed
      /\ ~obj[c].recurrent /\ seen \in Row /\ obj[c] \in Object
  BY <1>1, <1>2, InTimeCalm, Peaceful DEF Calm
<1>4. /\ coh'.attempts_failed = coh.attempts_failed + 1
      /\ coh'.state = IF coh'.attempts_failed = MaxAttempts THEN "failed" ELSE coh.state
      /\ Charged(seen) \in Row
  BY <1>1, <1>3, FailureCharged
<1>5. o \in Object /\ ~o.recurrent
  BY <1>3, <1>4 DEF Object, PhaseStates
<1> HIDE DEF o
<1>6. \A j \in Steps : phase'[j] = "done" <=> phase[j] = "done"
  BY <1>1, <1>3, Walker, PhaseUndone DEF PhaseStates
<1>7. Allowed
  BY <1>3, <1>4, <1>6, ChargeAllowed
<1> QED BY <1>1, <1>3, <1>5, <1>7, ReleasesCalm

LEMMA WUParseCalm ==
    ASSUME IInv, Quiet, CalmInv, NEW c \in Circuits, PerformWUParse(c)
    PROVE  Allowed /\ Lively
<1> DEFINE i == obj[c].step
           seen == obj[c].seen
           d == [obj[c] EXCEPT !.kept = "done"]
           o == [obj[c] EXCEPT !.seen = Charged(seen), !.kept = "failed"]
<1>1. /\ InTime(c) /\ ~GivenUp(c) /\ obj[c].kept # "done" /\ Workflow[i] = "wu_parse"
      /\ lapsed' = lapsed
      /\ \/ phase' = [phase EXCEPT ![i] = "done"] /\ Walk(c, d) /\ coh' = coh
         \/ /\ coh' = Flush(seen, Charged(seen)) /\ phase' = [phase EXCEPT ![i] = "failed"]
            /\ Walk(c, o)
  BY DEF PerformWUParse, ToPerform, Name
<1>2. ~GaveIn(obj[c])
  BY <1>1 DEF GaveIn, GivenUp
<1>3. /\ Walking(c) /\ obj[c].pc \in Live /\ obj[c].pc \in InHand
      /\ seen.state = "scheduled" /\ coh.state = "scheduled"
      /\ coh.attempts_failed < MaxAttempts /\ seen.attempts_failed = coh.attempts_failed
      /\ seen \in Row /\ obj[c] \in Object /\ obj[c].kept = phase[i] /\ i \in Steps
      /\ Left(obj[c]) /\ LastStep \in Steps
  BY <1>1, <1>2, InTimeCalm, Walker, Peaceful DEF Calm
<1>4. i # LastStep
  BY <1>1, <1>3, CircuitAssumption DEF CircuitAssumption, LastStep
<1>5. CASE phase' = [phase EXCEPT ![i] = "done"] /\ Walk(c, d) /\ coh' = coh
  <2>1. d \in Object /\ d.step = i /\ d.todo = obj[c].todo /\ d.seen = seen /\ d.kept = "done"
    BY <1>3 DEF Object, PhaseStates
  <2> HIDE DEF d
  <2> QED BY <1>1, <1>2, <1>3, <1>4, <1>5, <2>1, AgainCalm
<1>6. CASE /\ coh' = Flush(seen, Charged(seen)) /\ phase' = [phase EXCEPT ![i] = "failed"]
           /\ Walk(c, o)
  <2>1. /\ coh'.attempts_failed = coh.attempts_failed + 1
        /\ coh'.state = IF coh'.attempts_failed = MaxAttempts THEN "failed" ELSE coh.state
        /\ Charged(seen) \in Row /\ Charged(seen).attempts_failed = coh'.attempts_failed
        /\ Charged(seen).state = IF coh'.attempts_failed = MaxAttempts THEN "failed"
                                 ELSE "scheduled"
    BY <1>3, <1>6, FailureCharged
  <2>2. /\ o \in Object /\ o.step = i /\ o.todo = obj[c].todo /\ o.seen = Charged(seen)
        /\ o.kept = "failed"
    BY <1>3, <2>1 DEF Object, PhaseStates
  <2> HIDE DEF o
  <2>3. \A j \in Steps : phase'[j] = "done" <=> phase[j] = "done"
    BY <1>1, <1>3, <1>6, PhaseUndone DEF PhaseStates
  <2>4. Allowed
    BY <1>3, <2>1, <2>3, ChargeAllowed
  <2>5. coh.attempts_failed \in Nat /\ MaxAttempts \in Nat
    BY <1>3, Peaceful
  <2>6. /\ coh'.attempts_failed < MaxAttempts \/ Spent(o)
        /\ Spent(o) => coh'.state = "failed"
    BY <1>1, <1>3, <2>1, <2>2, <2>5 DEF Spent, Exhausted
  <2>7. \A j \in Steps : phase'[j] = "done" \/ j \in Optional \/ j \in o.todo \/ j = o.step
    BY <1>3, <2>2, <2>3 DEF Left
  <2>8. coh'.state # "over_timed" /\ o.seen.state # "stopped"
    BY <1>3, <2>1, <2>2
  <2>9. Lively
    BY <1>1, <1>3, <1>6, <2>1, <2>2, <2>6, <2>7, <2>8, WalksOn
  <2> QED BY <2>4, <2>9
<1> QED BY <1>1, <1>5, <1>6

LEMMA PerformDoneCalm ==
    ASSUME IInv, Quiet, CalmInv, NEW c \in Circuits, PerformDone(c)
    PROVE  Allowed /\ Lively
<1> DEFINE i == obj[c].step
           seen == obj[c].seen
<1>1. /\ InTime(c) /\ Workflow[i] = "done"
      /\ obj[c].todo = {} => Release(c, obj[c])
      /\ coh' = Flush(seen, [seen EXCEPT !.state = "done"])
      /\ phase' = [phase EXCEPT ![i] = "done"]
  BY DEF PerformDone, ToPerform, Name
<1>2. ~GaveIn(obj[c])
  BY <1>1 DEF GaveIn
<1>3. /\ Walking(c) /\ obj[c].pc \in Live /\ seen.state = "scheduled" /\ coh.state = "scheduled"
      /\ ~obj[c].recurrent /\ seen \in Row /\ obj[c] \in Object /\ Left(obj[c])
      /\ LastStep \in Steps /\ Steps = 1..LastStep
  BY <1>1, <1>2, InTimeCalm, Peaceful
<1>4. i = LastStep /\ (\A j \in obj[c].todo : i < j) /\ Release(c, obj[c])
  <2>1. i = LastStep /\ \A j \in obj[c].todo : i < j
    BY <1>1, <1>3, Walker
  <2>2. obj[c].todo = {}
    BY <1>3, <2>1, Constants DEF Object, LastStep
  <2> QED BY <1>1, <2>1, <2>2
<1>5. coh'.state = "done" /\ coh'.attempts_failed = coh.attempts_failed
  BY <1>1, <1>3, StateFlushed DEF CoHStates
<1>6. phase'[LastStep] = "done" /\ \A j \in Steps \ {LastStep} : phase'[j] = phase[j]
  BY <1>1, <1>3, <1>4, PhaseWritten DEF PhaseStates
<1>7. \A j \in Steps : j < LastStep => phase[j] = "done" \/ j \in Optional
  BY <1>3, <1>4 DEF Left
<1>8. Allowed
  BY <1>3, <1>5, <1>6, <1>7, CompleteAllowed
<1> QED BY <1>3, <1>4, <1>8, ReleasesCalm

LEMMA StepCalm ==
    ASSUME IInv, Quiet, CalmInv, NEW c \in Circuits, Step(c)
    PROVE  Allowed /\ Lively
BY SkipCalm, EndsCalm, PerformCalm, PerformWithoutHostCalm, WUParseCalm, PerformDoneCalm DEF Step

LEMMA AnswerCalm ==
    ASSUME IInv, Quiet, CalmInv, NEW c \in Circuits, Answer(c)
    PROVE  Allowed /\ Lively
<1> DEFINE i == obj[c].step
           seen == obj[c].seen
           next == [seen EXCEPT !.state = "scheduled"]
           d == [obj[c] EXCEPT !.kept = "done"]
           r == [obj[c] EXCEPT !.kept = "ready"]
<1>1. /\ obj[c].pc \in {"asked", "wol"} /\ obj[c].pc \in {"asked", "wol", "out", "parse"}
      /\ obj[c].pc \in {"asked", "wol", "out"} /\ lapsed' = lapsed
  BY DEF Answer, OrderTaken, OrderRefused, CallFailed, WOLUseless, WOLSlept, WOLUnanswered,
         WOLFailed, Asked, InWOL
<1>2. /\ obj[c].pc \in Live /\ obj[c].pc \in InHand /\ obj[c] \in Object /\ seen \in Row
      /\ seen.state = "scheduled" /\ obj[c].kept = phase[i] /\ obj[c].kept = "running"
      /\ i \in Steps /\ i # LastStep /\ ~GaveIn(obj[c])
  BY <1>1, Waiter, Peaceful
<1>3. next = seen /\ Flush(seen, seen) = coh
  BY <1>2 DEF Row, Flush, IInv, RowInv
<1>4. /\ d \in Object /\ d.step = i /\ d.todo = obj[c].todo /\ d.seen = seen /\ d.kept = "done"
      /\ r \in Object /\ r.step = i /\ r.todo = obj[c].todo /\ r.seen = seen
      /\ [obj[c] EXCEPT !.seen = seen, !.kept = "done"] = d
      /\ [obj[c] EXCEPT !.seen = seen, !.kept = "ready"] = r
  BY <1>2 DEF Object, PhaseStates
<1> HIDE DEF d, r
<1>5. CASE OrderTaken(c)
  <2>1. Settle(c, obj[c], "out") /\ UNCHANGED <<coh, phase>>
    BY <1>2, <1>5 DEF OrderTaken, GiveUp
  <2> QED BY <1>1, <1>2, <2>1, SettlesCalm
<1>6. CASE OrderRefused(c) \/ CallFailed(c) \/ WOLFailed(c)
  <2>1. FailPhase(c, seen)
    BY <1>2, <1>3, <1>6 DEF OrderRefused, CallFailed, WOLFailed
  <2> QED BY <1>1, <1>2, <2>1, FailCalm
<1>7. CASE WOLUseless(c) \/ WOLSlept(c)
  <2>1. coh' = coh /\ phase' = FlushPhase(i, obj[c].kept, "done") /\ Walk(c, d)
    BY <1>2, <1>3, <1>4, <1>7 DEF WOLUseless, WOLSlept, d
  <2> QED BY <1>1, <1>2, <1>4, <2>1, AgainCalm
<1>8. CASE WOLUnanswered(c)
  <2>1. coh' = coh /\ phase' = FlushPhase(i, obj[c].kept, "ready") /\ Settle(c, r, "out")
    BY <1>2, <1>3, <1>4, <1>8 DEF WOLUnanswered
  <2>2. \A j \in Steps : phase'[j] = "done" <=> phase[j] = "done"
    BY <1>2, <2>1, PhaseUndone DEF PhaseStates
  <2> QED BY <1>1, <1>2, <1>4, <2>1, <2>2, SettlesCalm
<1> QED BY <1>5, <1>6, <1>7, <1>8 DEF Answer

LEMMA SelectCalm ==
    ASSUME PoolKeepsUp, IInv, Quiet, CalmInv, NEW c \in Circuits, Select(c)
    PROVE  Allowed /\ Lively
<1>1. PICK pc \in {"queued", "waiting"} :
        obj' = [obj EXCEPT ![c] = [Unused EXCEPT !.pc = pc, !.todo = Undone, !.seen = coh]]
  BY DEF Select
<1>2. /\ container = <<>> /\ UNCHANGED <<coh, phase, lapsed>>
      /\ \A d \in Circuits : obj[d].pc # "queued" /\ ~obj[d].thread
      /\ coh.state \notin Final \cup {"stopped"}
  BY DEF Select, ThreadsEnded
<1>3. coh.state = "scheduled" /\ obj \in [Circuits -> Object] /\ ~Halted
  BY <1>2, Peace DEF CoHStates, Final, IInv, ObjInv
<1>4. \A d \in Circuits : obj[d].pc = "unused"
  <2>1. Members(container) = {}
    BY <1>2 DEF Members
  <2> QED BY <1>2, <1>3, <2>1 DEF Quiet, Placed, Used
<1> DEFINE p == [Unused EXCEPT !.pc = pc, !.todo = Undone, !.seen = coh]
<1>5. p.pc = pc /\ p.step = 0 /\ p.todo = Undone /\ p.seen = coh
  BY DEF Unused
<1>6. obj'[c] = p /\ \A d \in Circuits \ {c} : obj'[d].pc = "unused"
  BY <1>1, <1>3, <1>4
<1> HIDE DEF p
<1>7. coh.attempts_failed < MaxAttempts
  BY <1>3 DEF CalmInv, Kept
<1>8. Left(obj[c])' /\ ~GaveIn(obj[c])'
  BY <1>2, <1>5, <1>6 DEF Left, Undone, GaveIn
<1>9. Calm(obj[c])'
  BY <1>2, <1>3, <1>5, <1>6, <1>7, <1>8 DEF Calm
<1>10. Allowed
  BY <1>2, SameAllowed
<1> QED BY <1>6, <1>9, <1>10 DEF Lively, Live, InHand

LEMMA RunCalm ==
    ASSUME IInv, Quiet, CalmInv, NEW c \in Circuits, Run(c)
    PROVE  Allowed /\ Lively
<1> DEFINE self == [obj[c] EXCEPT !.thread = obj[c].pc = "queued"]
<1>1. obj[c].pc \in {"queued", "waiting"} /\ obj[c].pc \in Live /\ UNCHANGED <<phase, lapsed>>
  BY DEF Run, Live
<1>2. /\ Fit(obj[c]) /\ obj[c] \in Object /\ Calm(obj[c]) /\ LastStep \in Steps
      /\ phase \in [Steps -> PhaseStates] /\ obj[c].todo \subseteq Steps
      /\ Steps = 1..LastStep /\ obj[c].seen \in Row /\ MaxAttempts \in Nat /\ coh.attempts_failed \in Nat
  BY <1>1, AtHand, Peaceful DEF IInv, RestInv, Object
<1>3. /\ LastStep \in obj[c].todo /\ obj[c].seen.state = "scheduled" /\ ~GaveIn(obj[c])
  BY <1>1, <1>2 DEF Fit, Open, Sent, GaveIn, InHand
<1>4. self \in Object /\ self.todo = obj[c].todo /\ self.seen = obj[c].seen
  BY <1>2 DEF Object
<1>5. PICK i \in obj[c].todo :
        /\ IsFirst(i, obj[c].todo)
        /\ Walk(c, [self EXCEPT !.step = i, !.todo = @ \ {i}, !.kept = phase[i]])
        /\ UNCHANGED coh
  BY <1>3, <1>4 DEF Run
<1> DEFINE o == [self EXCEPT !.step = i, !.todo = @ \ {i}, !.kept = phase[i]]
<1> HIDE DEF self
<1>6. /\ o \in Object /\ o.step = i /\ o.todo = obj[c].todo \ {i} /\ o.seen = obj[c].seen
      /\ Walk(c, o)
  BY <1>2, <1>4, <1>5 DEF Object
<1> HIDE DEF o
<1>7. /\ Left(obj[c]) /\ obj[c].step = 0 /\ 0 \notin Steps
      /\ coh.attempts_failed < MaxAttempts /\ obj[c].seen.state # "stopped"
      /\ coh.state = "over_timed" => coh.attempts_failed = 0
      /\ obj[c].seen.attempts_failed = coh.attempts_failed
  BY <1>1, <1>2, <1>3 DEF Calm, Over
<1>8. \A j \in Steps : phase'[j] = "done" \/ j \in Optional \/ j \in o.todo \/ j = o.step
  BY <1>1, <1>6, <1>7 DEF Left
<1>9. ~Spent(o)
  BY <1>2, <1>6, <1>7 DEF Spent, Exhausted
<1>10. Lively
  BY <1>1, <1>5, <1>6, <1>7, <1>8, <1>9, WalksOn
<1> QED BY <1>1, <1>5, <1>10, SameAllowed

LEMMA RemoveExpiredCalm ==
    ASSUME IInv, Quiet, CalmInv, NEW c \in Circuits, RemoveExpired(c)
    PROVE  Allowed /\ Lively
<1>1. /\ obj[c].pc \in {"out", "released"} /\ Release(c, obj[c]) /\ UNCHANGED <<coh, phase>>
  BY DEF RemoveExpired, Quiet, Called
<1>2. obj[c] \in Object /\ ~obj[c].recurrent /\ obj[c].pc \in Live \cup {"released"}
  BY <1>1, Peace DEF IInv, ObjInv, Live, InHand
<1> QED BY <1>1, <1>2, SameAllowed, ReleasesCalm

LEMMA ParseCalm ==
    ASSUME IInv, Quiet, CalmInv, NEW c \in Circuits, obj[c].pc = "out", obj[c].kept = "running",
           NEW result, Parse(c, result), lapsed' = lapsed
    PROVE  Allowed /\ Lively
<1> DEFINE seen == obj[c].seen
           d == [obj[c] EXCEPT !.kept = "done", !.result = "none"]
           o == [obj[c] EXCEPT !.result = "none"]
<1>1. /\ obj[c].pc \in {"asked", "wol", "out"} /\ obj[c].pc \in {"asked", "wol", "out", "parse"}
  OBVIOUS
<1>2. /\ obj[c].pc \in InHand /\ obj[c] \in Object /\ seen \in Row
      /\ seen.state = "scheduled" /\ obj[c].kept = phase[obj[c].step]
      /\ obj[c].step \in Steps /\ obj[c].step # LastStep /\ ~GaveIn(obj[c])
  BY <1>1, Waiter, Peaceful
<1>3. /\ d \in Object /\ d.step = obj[c].step /\ d.todo = obj[c].todo /\ d.seen = seen
      /\ d.kept = "done" /\ d = [o EXCEPT !.kept = "done"]
      /\ o.seen = seen /\ o.kept = "running" /\ o.step = obj[c].step
  BY <1>2 DEF Object, PhaseStates
<1>4. CASE ParseSuccess(c)
  <2>1. /\ Walk(c, d) /\ phase' = [phase EXCEPT ![obj[c].step] = "done"] /\ coh' = coh
    BY <1>2, <1>3, <1>4 DEF ParseSuccess
  <2> HIDE DEF d, o
  <2> QED BY <1>2, <1>3, <2>1, AgainCalm
<1>5. CASE ParseFailure(c) /\ Name(c) \in NonFatal \ {"upload"}
  <2>1. /\ Walk(c, d) /\ coh' = coh /\ phase' = FlushPhase(obj[c].step, obj[c].kept, "done")
    BY <1>5 DEF ParseFailure
  <2> HIDE DEF d, o
  <2> QED BY <1>2, <1>3, <2>1, AgainCalm
<1>6. CASE ParseFailure(c) /\ Name(c) \notin NonFatal \ {"upload"}
  <2>1. FailPhase(c, seen)
    BY <1>6 DEF ParseFailure
  <2> QED BY <1>1, <1>2, <2>1, FailCalm
<1> QED BY <1>4, <1>5, <1>6 DEF Parse

\* Nobody looks at the circuits.
LEMMA StillCalm ==
    ASSUME IInv, CalmInv, obj' = obj, phase' = phase, lapsed > 0 => lapsed' > 0,
           coh'.attempts_failed = coh.attempts_failed,
           \A c \in Circuits : obj[c].pc \in Live /\ GaveIn(obj[c]) => coh'.state = "failed",
           coh'.state = "over_timed" => coh'.attempts_failed = 0 \/ coh.state = "over_timed"
    PROVE  Lively
<1> SUFFICES ASSUME NEW c \in Circuits, obj'[c].pc \in Live PROVE Calm(obj[c])'
  BY DEF Lively
<1>1. obj'[c] = obj[c] /\ Calm(obj[c]) /\ obj[c].pc \in Live
  BY DEF CalmInv
<1>2. (Over(obj[c]) => Over(obj[c])') /\ (Left(obj[c]) => Left(obj[c])')
      /\ (GaveIn(obj[c]) <=> GaveIn(obj[c])')
  BY <1>1 DEF Over, Left, GaveIn, Exhausted
<1> QED BY <1>1, <1>2 DEF Calm

LEMMA ResultsCalm ==
    ASSUME IInv, Quiet, CalmInv, NEW c \in Circuits, Handle(c) \/ ParseOutside(c)
    PROVE  Allowed /\ Lively
<1>1. ASSUME NEW step \in results, ResultRejected(c, step) PROVE Allowed /\ Lively
  <2>1. UNCHANGED <<coh, phase, lapsed, obj>>
    BY <1>1 DEF ResultRejected
  <2>2. \A d \in Circuits : obj[d].pc \in Live /\ GaveIn(obj[d]) => coh'.state = "failed"
    BY <2>1 DEF CalmInv, Calm
  <2> QED BY <2>1, <2>2, SameAllowed, StillCalm
<1>2. ASSUME NEW step \in results, NEW result \in {"ok", "ko"}, Result(c, step, result)
      PROVE  Allowed /\ Lively
  <2>1. Parse(c, result) /\ obj[c].pc \in {"out", "released"} /\ lapsed' = lapsed
    BY <1>2 DEF Result
  <2>2. Pending /\ Used(c)
    BY <2>1 DEF Pending, Used
  <2>3. obj[c].pc = "out" /\ obj[c].kept = "running"
    BY <2>2 DEF Quiet, Orders
  <2> QED BY <2>1, <2>3, ParseCalm
<1>3. ASSUME NEW step \in results, NEW result \in {"ok", "ko"}, ResultOutside(c, step, result)
      PROVE  FALSE
  <2>1. Pending /\ container = <<>>
    BY <1>3 DEF ResultOutside, Pending
  <2> QED BY <2>1, Peace DEF Quiet, Orders
<1>4. ~ParseOutside(c)
  BY Peaceful DEF ParseOutside, Live, InHand
<1> QED BY <1>1, <1>2, <1>3, <1>4 DEF Handle

LEMMA NoOperation ==
    ASSUME MaxOps = 0, IInv, Quiet, CalmInv, [Next]_vars
    PROVE  /\ ops' = 0
           /\ ~(AgentStop \/ AgentStart \/ AgentExtend \/ HandleStop \/ HandleStart \/ LoseCall)
<1>1. ~(AgentStop \/ AgentStart \/ AgentExtend \/ HandleStop \/ HandleStart \/ LoseCall)
  BY Peace DEF CalmInv, AgentStop, AgentStart, AgentExtend, HandleStop, HandleStart, LoseCall
<1>2. ASSUME NEW c \in Circuits, Step(c) PROVE ops' = ops
  BY <1>2 DEF Step, Skip, Advance, StopSeen, ForcedFinish, OverTimed, OutOfAttempts, Perform,
     PerformWithoutHost, PerformWOL, PerformWUParse, PerformDone
<1>3. ASSUME NEW c \in Circuits, Answer(c) PROVE ops' = ops
  BY <1>3 DEF Answer, OrderTaken, OrderRefused, CallFailed, WOLUseless, WOLSlept, WOLUnanswered,
     WOLFailed
<1>4. ASSUME NEW c \in Circuits,
             Select(c) \/ Run(c) \/ RemoveExpired(c) \/ Handle(c) \/ ParseOutside(c)
      PROVE  ops' = ops
  BY <1>4 DEF Select, Run, RemoveExpired, Handle, Result, ResultRejected, ResultOutside,
     ParseOutside
<1>5. CASE \/ ProcessEnded \/ SendFailed \/ Resend \/ LoseResult \/ ProcessNonValid \/ Lapse
           \/ SchedulerRestart \/ LauncherRestart
  BY <1>1, <1>5 DEF ProcessEnded, SendFailed, Resend, LoseResult, ProcessNonValid, Lapse,
     SchedulerRestart, LauncherRestart, CalmInv
<1>6. CASE UNCHANGED vars
  BY <1>1, <1>6 DEF vars, CalmInv
<1> QED BY <1>1, <1>2, <1>3, <1>4, <1>5, <1>6 DEF Next, CalmInv

LEMMA NextAllowed ==
    ASSUME PoolKeepsUp, MaxOps = 0, MaxFaults = 0, IInv, Quiet, CalmInv, [Next]_vars
    PROVE  Allowed /\ Lively
<1>1. faults = 0 /\ lapsed \in Nat
  BY Peace
<1>2. /\ ops' = 0
      /\ ~(AgentStop \/ AgentStart \/ AgentExtend \/ HandleStop \/ HandleStart \/ LoseCall)
  BY NoOperation
<1>3. CASE ProcessEnded \/ SendFailed \/ Resend \/ UNCHANGED vars
  <2>1. coh' = coh /\ phase' = phase /\ lapsed' = lapsed /\ obj' = obj
    BY <1>3 DEF ProcessEnded, SendFailed, Resend, vars
  <2>2. \A c \in Circuits : obj[c].pc \in Live /\ GaveIn(obj[c]) => coh'.state = "failed"
    BY <2>1 DEF CalmInv, Calm
  <2> QED BY <2>1, <2>2, SameAllowed, StillCalm
<1>4. ASSUME NEW c \in Circuits,
             \/ Select(c) \/ Run(c) \/ RemoveExpired(c) \/ Step(c) \/ Answer(c)
             \/ Handle(c) \/ ParseOutside(c)
      PROVE  Allowed /\ Lively
  BY <1>4, SelectCalm, RunCalm, RemoveExpiredCalm, StepCalm, AnswerCalm, ResultsCalm
<1>5. CASE ProcessNonValid
  <2>1. /\ UNCHANGED <<phase, lapsed, obj>> /\ coh.state \notin Final
        /\ coh'.attempts_failed = coh.attempts_failed
        /\ coh'.state = IF AnyFailed \/ coh.attempts_failed > 0 THEN "failed" ELSE "over_timed"
    BY <1>5, StateSet DEF ProcessNonValid
  <2>2. coh.state = "scheduled" /\ coh.attempts_failed \in Nat
    BY <2>1, Peace DEF CoHStates, Final
  <2>3. AnyFailed => coh.attempts_failed > 0
    BY DEF CalmInv, Blamed, AnyFailed
  <2>4. coh'.state = IF coh.attempts_failed > 0 THEN "failed" ELSE "over_timed"
    BY <2>1, <2>3
  <2>5. \A c \in Circuits : obj[c].pc \in Live => ~GaveIn(obj[c])
    BY <2>2, Peaceful DEF Calm
  <2>6. coh'.state = "over_timed" => coh'.attempts_failed = 0
    BY <2>1, <2>2, <2>4
  <2> QED BY <1>1, <2>1, <2>2, <2>4, <2>5, <2>6, CloseAllowed, StillCalm
<1>6. CASE Lapse
  <2>1. UNCHANGED <<coh, phase, obj>> /\ lapsed' = lapsed + 1
    BY <1>6 DEF Lapse
  <2>2. \A c \in Circuits : obj[c].pc \in Live /\ GaveIn(obj[c]) => coh'.state = "failed"
    BY <2>1 DEF CalmInv, Calm
  <2> QED BY <1>1, <2>1, <2>2, SameAllowed, StillCalm
<1>7. ~LoseResult /\ ~SchedulerRestart /\ ~LauncherRestart
  BY <1>1 DEF LoseResult, SchedulerRestart, LauncherRestart
<1> QED BY <1>2, <1>3, <1>4, <1>5, <1>6, <1>7 DEF Next

LEMMA NextCalm ==
    ASSUME PoolKeepsUp, MaxOps = 0, MaxFaults = 0, IInv, Quiet, CalmInv, [Next]_vars
    PROVE  CalmInv'
<1>1. ops' = 0 /\ Blamed'
  BY NoOperation, NextBlamed DEF CalmInv
<1>2. Kept'
  BY NextAllowed, KeptStays DEF CalmInv
<1> QED BY <1>1, <1>2, NextAllowed DEF CalmInv, Lively

LEMMA InitCalm == Init => CalmInv
<1> SUFFICES ASSUME Init PROVE CalmInv
  OBVIOUS
<1>1. \A c \in Circuits : obj[c].pc \notin Live
  BY DEF Init, Unused, Live, InHand
<1>2. Blamed
  BY DEF Init, Blamed, Unused, FirstRow
<1>3. Kept
  BY CircuitAssumption DEF Init, Kept, FirstRow, DoneComplete, CircuitAssumption
<1> QED BY <1>1, <1>2, <1>3 DEF Init, CalmInv

LEMMA StaysCalm ==
    ASSUME PoolKeepsUp, RowsInOrder, MaxOps = 0, MaxFaults = 0
    PROVE  Spec => [](IInv /\ Quiet /\ CalmInv)
<1>1. IInv /\ Quiet /\ CalmInv /\ [Next]_vars => (IInv /\ Quiet /\ CalmInv)'
  BY NextIInv, NextQuiet, NextCalm
<1> QED BY <1>1, InitIInv, InitQuiet, InitCalm, PTL DEF Spec

\* In the three theorems that follow threads keep up, nothing fails, the agent
\* leaves the CoH alone and the database returns phases in phase_order, without
\* which none of the three holds; the CoH's window may end at any instant.
\*
\* The last phase writes the CoH down as done only if every phase that had
\* something to do is done: neither a forced NEXT nor a failure can skip one.
THEOREM DoneIsComplete ==
    ASSUME PoolKeepsUp, RowsInOrder, MaxOps = 0, MaxFaults = 0
    PROVE  Spec => []DoneComplete
<1>1. CalmInv => DoneComplete
  BY DEF CalmInv, Kept
<1> QED BY <1>1, StaysCalm, PTL

\* A walk that takes the phases in phase_order hands them to a launcher in that
\* order too: retries, expired windows, forced NEXTs and phases that skip
\* themselves never put one before another that is still to be done.
THEOREM OrdersInOrder ==
    ASSUME PoolKeepsUp, RowsInOrder, MaxOps = 0, MaxFaults = 0
    PROVE  Spec => InOrder
<1>1. ASSUME IInv, Quiet, CalmInv, NEW c \in Circuits, OrderTaken(c)
      PROVE  \A j \in 1..(order'.step - 1) : phase[j] = "done" \/ j \in Optional
  <2>1. /\ obj[c].pc = "asked" /\ obj[c].pc \in Live /\ obj[c].pc \in InHand
        /\ obj[c].pc \in {"asked", "wol", "out", "parse"} /\ order'.step = obj[c].step
    BY <1>1 DEF OrderTaken, Asked, Live, InHand
  <2>2. /\ Left(obj[c]) /\ obj[c].step \in Steps /\ Steps = 1..LastStep /\ LastStep \in Steps
        /\ \A j \in obj[c].todo : obj[c].step < j
    BY <1>1, <2>1, Waiter, Peaceful DEF Calm, Over
  <2>3. \A j \in Steps : j < obj[c].step => j \notin obj[c].todo
    BY <2>2
  <2> QED BY <2>1, <2>2, <2>3 DEF Left
<1>2. IInv /\ Quiet /\ CalmInv /\ [Next]_vars =>
        [Taken => \A j \in 1..(order'.step - 1) : phase[j] = "done" \/ j \in Optional]_vars
  BY <1>1, OnlyTaken
<1> QED BY <1>2, StaysCalm, PTL DEF Spec, InOrder

\* However many circuits, copies and flushes there are, the row and its phases
\* only change the way Deployment allows: a phase ends in its turn, an attempt is
\* charged, or the CoH ends, one at a time and never back.
THEOREM ImplementsDeployment ==
    ASSUME PoolKeepsUp, RowsInOrder, MaxOps = 0, MaxFaults = 0
    PROVE  Spec => Implements
<1>1. Init => Promise!DInit
  <2> SUFFICES ASSUME Init PROVE Promise!DInit
    OBVIOUS
  <2>1. {i \in Steps : phase[i] = "done"} = {}
    BY DEF Init
  <2> QED BY <2>1 DEF Init, FirstRow, Promise!DInit
<1>2. IInv /\ Quiet /\ CalmInv /\ [Next]_vars => [Promise!DNext]_(Promise!dvars)
  BY NextAllowed DEF Allowed
<1> QED BY <1>1, <1>2, StaysCalm, PTL DEF Spec, Implements, Promise!DSpec

=============================================================================
