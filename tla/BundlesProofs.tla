--------------------------- MODULE BundlesProofs ---------------------------
(***************************************************************************)
(* What holds of Bundles for every value of its constants: that container, *)
(* references and rows agree (Books), with the invariant BooksInv, and     *)
(* that what a reference holds back is not started (Held).                 *)
(***************************************************************************)
EXTENDS Bundles, SequenceTheorems, FiniteSetTheorems, TLAPS

-----------------------------------------------------------------------------
(* Parts of a sequence. *)

\* The places that the positions K take in what is left are those up to their
\* number, each once: f is Pick's choice.
LEMMA PickPlaces ==
    ASSUME NEW S, NEW q \in Seq(S), NEW K \in SUBSET DOMAIN q
    PROVE  /\ Cardinality(K) \in Nat
           /\ \E f \in [1..Cardinality(K) -> K] :
                 /\ Pick(q, K) = [n \in 1..Cardinality(K) |-> q[f[n]]]
                 /\ \A m, n \in 1..Cardinality(K) : f[m] = f[n] => m = n
                 /\ \A i \in K : \E n \in 1..Cardinality(K) : f[n] = i
<1> DEFINE below(i) == {j \in K : j <= i}
           rank == [i \in K |-> Cardinality(below(i))]
           N == 1..Cardinality(K)
           f == [n \in N |-> CHOOSE i \in K : Cardinality(below(i)) = n]
<1>1. K \subseteq Int /\ IsFiniteSet(K)
  <2>1. DOMAIN q = 1..Len(q) /\ Len(q) \in Nat
    OBVIOUS
  <2>2. IsFiniteSet(1..Len(q))
    BY <2>1, FS_Interval
  <2> QED BY <2>1, <2>2, FS_Subset
<1>2. Cardinality(K) \in Nat /\ IsFiniteSet(N) /\ Cardinality(N) = Cardinality(K)
  <2>1. Cardinality(K) \in Nat
    BY <1>1, FS_CardinalityType
  <2> QED BY <2>1, FS_Interval
<1>3. ASSUME NEW i \in K
      PROVE  /\ IsFiniteSet(below(i)) /\ below(i) \subseteq K /\ i \in below(i)
             /\ Cardinality(below(i)) \in N
  <2>1. IsFiniteSet(below(i)) /\ Cardinality(below(i)) <= Cardinality(K)
        /\ Cardinality(below(i)) \in Nat
    BY <1>1, FS_Subset, FS_CardinalityType
  <2>2. i \in below(i)
    BY <1>1
  <2>3. Cardinality(below(i)) # 0
    <3> HIDE DEF below
    <3> QED BY <2>1, <2>2, FS_EmptySet
  <2> QED BY <1>2, <2>1, <2>2, <2>3
<1>4. ASSUME NEW i \in K, NEW j \in K, i < j
      PROVE  Cardinality(below(i)) # Cardinality(below(j))
  <2>1. below(i) \subseteq below(j) /\ j \in below(j) /\ j \notin below(i)
    BY <1>1, <1>4
  <2>2. IsFiniteSet(below(j))
    BY <1>3
  <2> HIDE DEF below
  <2>3. below(i) # below(j)
    BY <2>1
  <2> QED BY <2>1, <2>2, <2>3, FS_Subset
<1>5. ASSUME NEW i \in K, NEW j \in K, Cardinality(below(i)) = Cardinality(below(j))
      PROVE  i = j
  <2>1. i < j \/ j < i \/ i = j
    BY <1>1
  <2> QED BY <1>4, <1>5, <2>1
<1>6. rank \in [K -> N] /\ \A i, j \in K : rank[i] = rank[j] => i = j
  BY <1>3, <1>5
<1> HIDE DEF below
<1>7. \A n \in N : \E i \in K : rank[i] = n
  <2>1. rank \in Injection(K, N)
    BY <1>6 DEF Injection, IsInjective
  <2>2. rank \in Surjection(K, N)
    <3> HIDE DEF rank, N
    <3> QED BY <1>2, <2>1, FS_Injection
  <2> QED BY <2>2 DEF Surjection
<1>8. \A n \in N : f[n] \in K /\ Cardinality(below(f[n])) = n
  BY <1>7
<1>9. f \in [N -> K]
  BY <1>8
<1>10. \A m, n \in N : f[m] = f[n] => m = n
  BY <1>8
<1>11. \A i \in K : \E n \in N : f[n] = i
  BY <1>3, <1>5, <1>8
<1>12. Pick(q, K) = [n \in N |-> q[f[n]]]
  BY DEF Pick, below
<1> QED BY <1>2, <1>9, <1>10, <1>11, <1>12

LEMMA PickElements ==
    ASSUME NEW S, NEW q \in Seq(S), NEW K \in SUBSET DOMAIN q
    PROVE  /\ Pick(q, K) \in Seq(S)
           /\ ToSet(Pick(q, K)) = {q[i] : i \in K}
           /\ \A m, n \in DOMAIN Pick(q, K) : m # n =>
                 \E i, j \in K : i # j /\ Pick(q, K)[m] = q[i] /\ Pick(q, K)[n] = q[j]
<1> DEFINE N == 1..Cardinality(K)
<1>1. Cardinality(K) \in Nat
  BY PickPlaces
<1>2. PICK f \in [N -> K] :
        /\ Pick(q, K) = [n \in N |-> q[f[n]]]
        /\ \A m, n \in N : f[m] = f[n] => m = n
        /\ \A i \in K : \E n \in N : f[n] = i
  BY PickPlaces
<1>3. \A i \in K : q[i] \in S
  OBVIOUS
<1>4. Pick(q, K) \in Seq(S) /\ DOMAIN Pick(q, K) = N
  BY <1>1, <1>2, <1>3
<1>5. ToSet(Pick(q, K)) = {q[i] : i \in K}
  BY <1>2, <1>4 DEF ToSet
<1>6. \A m, n \in N : m # n => f[m] # f[n] /\ Pick(q, K)[m] = q[f[m]] /\ Pick(q, K)[n] = q[f[n]]
  BY <1>2
<1> HIDE DEF N
<1> QED BY <1>2, <1>4, <1>5, <1>6

LEMMA AmongElements ==
    ASSUME NEW S, NEW q \in Seq(S), NEW T
    PROVE  /\ Among(q, T) \in Seq(S)
           /\ ToSet(Among(q, T)) = ToSet(q) \cap T
           /\ IsInjective(q) => IsInjective(Among(q, T))
<1> DEFINE K == {i \in DOMAIN q : q[i] \in T}
<1>1. Among(q, T) = Pick(q, K) /\ K \in SUBSET DOMAIN q
  BY DEF Among
<1>2. {q[i] : i \in K} = ToSet(q) \cap T
  BY DEF ToSet
<1> HIDE DEF K
<1>3. IsInjective(q) => IsInjective(Pick(q, K))
  BY <1>1, PickElements DEF IsInjective
<1> QED BY <1>1, <1>2, <1>3, PickElements

LEMMA ConcatElements ==
    ASSUME NEW S, NEW s \in Seq(S), NEW t \in Seq(S)
    PROVE  ToSet(s \o t) = ToSet(s) \cup ToSet(t)
<1>1. Range(s \o t) = Range(s) \cup Range(t)
  BY RangeConcatenation
<1> QED BY <1>1 DEF Range, ToSet

LEMMA ConcatInjective ==
    ASSUME NEW S, NEW s \in Seq(S), NEW t \in Seq(S),
           IsInjective(s), IsInjective(t), ToSet(s) \cap ToSet(t) = {}
    PROVE  s \o t \in Seq(S) /\ IsInjective(s \o t)
<1> DEFINE r == s \o t
<1>1. /\ Len(s) \in Nat /\ Len(t) \in Nat /\ r \in Seq(S)
      /\ DOMAIN s = 1..Len(s) /\ DOMAIN t = 1..Len(t)
      /\ DOMAIN r = 1 .. Len(s) + Len(t)
      /\ \A i \in DOMAIN r : i \in 1..Len(s) => r[i] = s[i]
      /\ \A i \in DOMAIN r : i \notin 1..Len(s) => i - Len(s) \in 1..Len(t) /\ r[i] = t[i - Len(s)]
  OBVIOUS
<1> HIDE DEF r
<1>2. ASSUME NEW i \in DOMAIN r, NEW j \in DOMAIN r, r[i] = r[j] PROVE i = j
  <2>1. CASE i \in 1..Len(s) /\ j \in 1..Len(s)
    BY <1>1, <1>2, <2>1 DEF IsInjective
  <2>2. CASE i \notin 1..Len(s) /\ j \notin 1..Len(s)
    <3>1. i - Len(s) = j - Len(s)
      BY <1>1, <1>2, <2>2 DEF IsInjective
    <3> QED BY <1>1, <3>1
  <2>3. CASE i \in 1..Len(s) /\ j \notin 1..Len(s)
    BY <1>1, <1>2, <2>3 DEF ToSet
  <2>4. CASE i \notin 1..Len(s) /\ j \in 1..Len(s)
    BY <1>1, <1>2, <2>4 DEF ToSet
  <2> QED BY <2>1, <2>2, <2>3, <2>4
<1> QED BY <1>1, <1>2 DEF IsInjective, r

LEMMA FirstElements ==
    ASSUME NEW S, NEW s \in Seq(S), NEW n \in Int, n <= Len(s)
    PROVE  /\ SubSeq(s, 1, n) \in Seq(S)
           /\ ToSet(SubSeq(s, 1, n)) \subseteq ToSet(s)
           /\ IsInjective(s) => IsInjective(SubSeq(s, 1, n))
<1> DEFINE q == SubSeq(s, 1, n)
<1>1. Len(s) \in Nat /\ DOMAIN s = 1..Len(s) /\ \A i \in 1..n : s[i] \in S
  OBVIOUS
<1>2. /\ q \in Seq(S) /\ Len(q) = IF 1 <= n THEN n - 1 + 1 ELSE 0
      /\ \A i \in 1 .. n - 1 + 1 : q[i] = s[1 + i - 1]
  BY <1>1, SubSeqProperties
<1> HIDE DEF q
<1>3. DOMAIN q \subseteq DOMAIN s /\ \A i \in DOMAIN q : q[i] = s[i]
  <2>1. DOMAIN q = 1..Len(q)
    BY <1>2
  <2> QED BY <1>1, <1>2, <2>1
<1>4. ToSet(q) \subseteq ToSet(s)
  BY <1>3 DEF ToSet
<1>5. IsInjective(s) => IsInjective(q)
  BY <1>3 DEF IsInjective
<1> QED BY <1>2, <1>4, <1>5 DEF q

-----------------------------------------------------------------------------
(* The references. *)

\* One reference per CoH.
Single(r) == \A m, n \in DOMAIN r : r[m].coh = r[n].coh => m = n

\* Finished references tell of CoHs that are done.
Truthful(r, ended) == \A x \in ToSet(r) : x.finished => ended[x.coh] = "done"

References(r) == r \in Seq(Element) /\ Single(r)

LEMMA ReferenceTyped ==
    ASSUME NEW r \in Seq(Element), NEW x \in ToSet(r)
    PROVE  x \in Element /\ x.coh \in CoHs /\ x.finished \in BOOLEAN
<1>1. PICK i \in DOMAIN r : x = r[i]
  BY DEF ToSet
<1>2. x \in Element
  BY <1>1
<1> QED BY <1>2 DEF Element

\* What is left of the references.
LEMMA PickReferences ==
    ASSUME NEW r, References(r), NEW K \in SUBSET DOMAIN r
    PROVE  /\ References(Pick(r, K))
           /\ ToSet(Pick(r, K)) \subseteq ToSet(r)
           /\ \A i \in K : r[i].coh \in Tracked(Pick(r, K))
           /\ \A x \in ToSet(r) : (\A i \in DOMAIN r : r[i] = x => i \in K)
                                     => x \in ToSet(Pick(r, K))
<1>1. /\ Pick(r, K) \in Seq(Element)
      /\ ToSet(Pick(r, K)) = {r[i] : i \in K}
      /\ \A m, n \in DOMAIN Pick(r, K) : m # n =>
            \E i, j \in K : i # j /\ Pick(r, K)[m] = r[i] /\ Pick(r, K)[n] = r[j]
  BY PickElements DEF References
<1>2. Single(Pick(r, K))
  BY <1>1 DEF References, Single
<1> QED BY <1>1, <1>2 DEF References, ToSet, Tracked

LEMMA CleanUpRemainingReferences ==
    ASSUME NEW r, References(r), NEW ids
    PROVE  /\ References(CleanUpRemaining(r, ids))
           /\ ToSet(CleanUpRemaining(r, ids)) \subseteq ToSet(r)
<1>1. PICK K \in SUBSET DOMAIN r : CleanUpRemaining(r, ids) = Pick(r, K)
  BY DEF CleanUpRemaining
<1> QED BY <1>1, PickReferences

LEMMA CleanUpReferences ==
    ASSUME NEW r, References(r), NEW c
    PROVE  /\ References(CleanUp(r, c))
           /\ ToSet(CleanUp(r, c)) \subseteq ToSet(r)
           /\ Tracked(r) \ {c} \subseteq Tracked(CleanUp(r, c))
<1> DEFINE K == {i \in DOMAIN r : r[i].coh # c}
<1>1. CleanUp(r, c) = Pick(r, K) /\ K \in SUBSET DOMAIN r
  BY DEF CleanUp
<1>2. \A d \in Tracked(r) \ {c} : \E i \in K : d = r[i].coh
  BY DEF Tracked, ToSet
<1> HIDE DEF K
<1> QED BY <1>1, <1>2, PickReferences

LEMMA FinishReferences ==
    ASSUME NEW r, References(r), NEW c
    PROVE  /\ References(Finish(r, c))
           /\ Tracked(Finish(r, c)) = Tracked(r)
           /\ \A x \in ToSet(Finish(r, c)) : x \in ToSet(r) \/ x.coh = c
           /\ Unfinished(Finish(r, c)) \subseteq Unfinished(r)
<1> DEFINE f == Finish(r, c)
           fin(x) == IF x.coh = c THEN [x EXCEPT !.finished = TRUE] ELSE x
<1>1. r \in Seq(Element) /\ DOMAIN r = 1..Len(r) /\ Len(r) \in Nat
  BY DEF References
<1>2. \A i \in DOMAIN r : r[i] \in Element
  BY <1>1
<1>3. ASSUME NEW x \in Element
      PROVE  /\ fin(x) \in Element /\ fin(x).coh = x.coh
             /\ fin(x) = x \/ (x.coh = c /\ fin(x).finished = TRUE)
  BY DEF Element
<1>4. f = [i \in DOMAIN r |-> fin(r[i])]
  BY DEF Finish
<1> HIDE DEF f, fin
<1>5. f \in Seq(Element) /\ DOMAIN f = DOMAIN r
      /\ \A i \in DOMAIN r : f[i] = fin(r[i]) /\ f[i].coh = r[i].coh
  <2>1. \A i \in DOMAIN r : fin(r[i]) \in Element /\ fin(r[i]).coh = r[i].coh
    BY <1>2, <1>3
  <2>2. f \in [1..Len(r) -> Element]
    BY <1>1, <1>4, <2>1
  <2>3. f \in Seq(Element)
    BY <1>1, <2>2
  <2> QED BY <1>1, <1>4, <2>1, <2>2, <2>3
<1>6. Single(f)
  BY <1>5 DEF References, Single
<1>7. Tracked(f) = Tracked(r)
  BY <1>5 DEF Tracked, ToSet
<1>8. ASSUME NEW x \in ToSet(f)
      PROVE  (x \in ToSet(r) \/ x.coh = c) /\ (~x.finished => x \in ToSet(r))
  <2>1. PICK i \in DOMAIN r : x = fin(r[i])
    BY <1>5 DEF ToSet
  <2>2. r[i] \in Element /\ r[i] \in ToSet(r)
    BY <1>2 DEF ToSet
  <2>3. x = r[i] \/ (x.coh = c /\ x.finished = TRUE)
    BY <1>3, <2>1, <2>2
  <2> QED BY <1>3, <2>1, <2>2, <2>3
<1>9. Unfinished(f) \subseteq Unfinished(r)
  BY <1>8 DEF Unfinished
<1> QED BY <1>5, <1>6, <1>7, <1>8, <1>9 DEF References, f

\* update(): a reference is kept, what was selected is unfinished again, and has a
\* reference if it is of a bundle.
LEMMA UpdatedReferences ==
    ASSUME NEW r, References(r), NEW new \in Seq(CoHs), IsInjective(new)
    PROVE  /\ References(Updated(r, new))
           /\ Tracked(r) \subseteq Tracked(Updated(r, new))
           /\ Unfinished(r) \subseteq Unfinished(Updated(r, new))
           /\ \A x \in ToSet(Updated(r, new)) : x.finished => x \in ToSet(r)
           /\ \A c \in ToSet(new) : BundleOf[c] # NoBundle => c \in Tracked(Updated(r, new))
<1> DEFINE again(x) == IF x.coh \in ToSet(new) THEN [x EXCEPT !.finished = FALSE] ELSE x
           T        == {c \in CoHs \ Tracked(r) : BundleOf[c] # NoBundle}
           first    == Among(new, T)
           head     == [i \in DOMAIN r |-> again(r[i])]
           tail     == [i \in DOMAIN first |-> [coh |-> first[i], finished |-> FALSE]]
<1>1. r \in Seq(Element) /\ DOMAIN r = 1..Len(r) /\ Len(r) \in Nat
  BY DEF References
<1>2. \A i \in DOMAIN r : r[i] \in Element
  BY <1>1
<1>3. first \in Seq(CoHs) /\ ToSet(first) = ToSet(new) \cap T /\ IsInjective(first)
  <2> HIDE DEF T
  <2> QED BY AmongElements
<1>4. Updated(r, new) = head \o tail
  BY DEF Updated
<1>5. ASSUME NEW x \in Element
      PROVE  /\ again(x) \in Element /\ again(x).coh = x.coh
             /\ again(x) = x \/ again(x).finished = FALSE
             /\ x.finished = FALSE => again(x).finished = FALSE
  BY DEF Element
<1> HIDE DEF again, first
<1>6. head \in Seq(Element) /\ DOMAIN head = DOMAIN r
      /\ \A i \in DOMAIN r : head[i] = again(r[i]) /\ head[i].coh = r[i].coh
  <2>1. \A i \in DOMAIN r : again(r[i]) \in Element /\ again(r[i]).coh = r[i].coh
    BY <1>2, <1>5
  <2>2. head \in [1..Len(r) -> Element]
    BY <1>1, <2>1
  <2>3. head \in Seq(Element)
    <3> HIDE DEF head
    <3> QED BY <1>1, <2>2
  <2> QED BY <1>1, <2>1, <2>2, <2>3
<1>7. /\ tail \in Seq(Element) /\ DOMAIN tail = DOMAIN first
      /\ \A i \in DOMAIN first : tail[i].coh = first[i] /\ tail[i].finished = FALSE
  <2>1. DOMAIN first = 1..Len(first) /\ Len(first) \in Nat /\ \A i \in DOMAIN first : first[i] \in CoHs
    BY <1>3
  <2>2. \A i \in DOMAIN first : [coh |-> first[i], finished |-> FALSE] \in Element
    BY <2>1 DEF Element
  <2> QED BY <2>1, <2>2
<1> HIDE DEF head, tail, T
<1>8. ToSet(head \o tail) = ToSet(head) \cup ToSet(tail)
  BY <1>6, <1>7, ConcatElements
<1>9. head \o tail \in Seq(Element)
  BY <1>6, <1>7
<1>10. \A i \in DOMAIN r, j \in DOMAIN first : head[i].coh # tail[j].coh
  <2> SUFFICES ASSUME NEW i \in DOMAIN r, NEW j \in DOMAIN first PROVE r[i].coh # first[j]
    BY <1>6, <1>7
  <2>1. first[j] \in T
    BY <1>3 DEF ToSet
  <2>2. r[i].coh \in Tracked(r)
    BY DEF Tracked, ToSet
  <2> QED BY <2>1, <2>2 DEF T
<1>11. Single(head \o tail)
  <2> DEFINE q == head \o tail
  <2>1. /\ Len(head) \in Nat /\ Len(tail) \in Nat
        /\ DOMAIN head = 1..Len(head) /\ DOMAIN tail = 1..Len(tail)
        /\ DOMAIN q = 1 .. Len(head) + Len(tail)
        /\ \A i \in DOMAIN q : i \in 1..Len(head) => q[i] = head[i]
        /\ \A i \in DOMAIN q : i \notin 1..Len(head)
              => i - Len(head) \in 1..Len(tail) /\ q[i] = tail[i - Len(head)]
    BY <1>6, <1>7
  <2> HIDE DEF q
  <2>2. ASSUME NEW i \in DOMAIN q, NEW j \in DOMAIN q, q[i].coh = q[j].coh PROVE i = j
    <3>1. CASE i \in 1..Len(head) /\ j \in 1..Len(head)
      BY <1>6, <2>1, <2>2, <3>1 DEF References, Single
    <3>2. CASE i \notin 1..Len(head) /\ j \notin 1..Len(head)
      <4>1. i - Len(head) = j - Len(head)
        BY <1>3, <1>7, <2>1, <2>2, <3>2 DEF IsInjective
      <4> QED BY <2>1, <4>1
    <3>3. CASE i \in 1..Len(head) /\ j \notin 1..Len(head)
      BY <1>6, <1>7, <1>10, <2>1, <2>2, <3>3
    <3>4. CASE i \notin 1..Len(head) /\ j \in 1..Len(head)
      BY <1>6, <1>7, <1>10, <2>1, <2>2, <3>4
    <3> QED BY <3>1, <3>2, <3>3, <3>4
  <2> QED BY <2>2 DEF Single, q
<1>12. ASSUME NEW x \in ToSet(r)
       PROVE  \E y \in ToSet(head) : y.coh = x.coh /\ (x.finished = FALSE => y.finished = FALSE)
  <2>1. PICK i \in DOMAIN r : x = r[i]
    BY DEF ToSet
  <2>2. r[i] \in Element /\ head[i] = again(r[i]) /\ head[i] \in ToSet(head)
    BY <1>2, <1>6 DEF ToSet
  <2> QED BY <1>5, <2>1, <2>2
<1>13. \A x \in ToSet(r) : x.finished \in BOOLEAN
  BY <1>1, ReferenceTyped
<1>14. Tracked(r) \subseteq Tracked(head \o tail)
  BY <1>8, <1>12 DEF Tracked
<1>15. Unfinished(r) \subseteq Unfinished(head \o tail)
  BY <1>8, <1>12, <1>13 DEF Unfinished
<1>16. ASSUME NEW x \in ToSet(head \o tail), x.finished PROVE x \in ToSet(r)
  <2>1. CASE x \in ToSet(tail)
    BY <1>7, <1>16, <2>1 DEF ToSet
  <2>2. CASE x \in ToSet(head)
    <3>1. PICK i \in DOMAIN r : x = again(r[i])
      BY <1>6, <2>2 DEF ToSet
    <3>2. x = r[i]
      BY <1>2, <1>5, <1>16, <3>1
    <3> QED BY <3>2 DEF ToSet
  <2> QED BY <1>8, <2>1, <2>2
<1>17. ASSUME NEW c \in ToSet(new), BundleOf[c] # NoBundle
       PROVE  c \in Tracked(head \o tail)
  <2>1. CASE c \in Tracked(r)
    BY <1>14, <2>1
  <2>2. CASE c \notin Tracked(r)
    <3>1. c \in CoHs
      BY DEF ToSet
    <3>2. c \in ToSet(first)
      BY <1>3, <1>17, <2>2, <3>1 DEF T
    <3>3. PICK i \in DOMAIN first : first[i] = c
      BY <3>2 DEF ToSet
    <3>4. tail[i].coh = c /\ tail[i] \in ToSet(tail)
      BY <1>7, <3>3 DEF ToSet
    <3> QED BY <1>8, <3>4 DEF Tracked
  <2> QED BY <2>1, <2>2
<1> QED BY <1>4, <1>9, <1>11, <1>14, <1>15, <1>16, <1>17 DEF References

-----------------------------------------------------------------------------
(* The invariant. *)

\* A circuit is in the scheduler for a CoH that is to be deployed, which has an
\* attempt left.
CoHInv ==
    /\ place \in [CoHs -> Places]
    /\ row \in [CoHs -> {"scheduled", "done", "failed", "over_timed", "stopped"}]
    /\ todo \in [CoHs -> 0..MaxAttempts]
    /\ due \subseteq CoHs
    /\ \A c \in CoHs : place[c] # "none" => row[c] = "scheduled"
    /\ \A c \in CoHs : row[c] = "scheduled" => todo[c] # 0

\* The queue q has the waiting circuits of the placement p, each once.
Queues(p, q) ==
    /\ q \in Seq(CoHs) /\ IsInjective(q)
    /\ ToSet(q) = At(p, "waiting")

RefsInv == References(refs) /\ Truthful(refs, row)

BooksInv == CoHInv /\ Queues(place, queue) /\ RefsInv

LEMMA SingleCounts ==
    ASSUME NEW r, References(r)
    PROVE  Cardinality(Tracked(r)) = Len(r)
<1> DEFINE f == [i \in DOMAIN r |-> r[i].coh]
<1>1. DOMAIN r = 1..Len(r) /\ Len(r) \in Nat
  BY DEF References
<1>2. IsFiniteSet(DOMAIN r) /\ Cardinality(DOMAIN r) = Len(r)
  <2>1. \A n \in Nat : IsFiniteSet(1..n) /\ Cardinality(1..n) = n
    BY FS_Interval
  <2> QED BY <1>1, <2>1
<1>3. Tracked(r) = {r[i].coh : i \in DOMAIN r}
  BY DEF Tracked, ToSet
<1>4. f \in Surjection(DOMAIN r, Tracked(r))
  BY <1>3 DEF Surjection
<1>5. f \in Injection(DOMAIN r, Tracked(r))
  BY <1>3 DEF Injection, IsInjective, References, Single
<1> HIDE DEF f
<1> QED BY <1>2, <1>4, <1>5, FS_Surjection

LEMMA InvImpliesBooks == BooksInv => Books
<1> SUFFICES ASSUME BooksInv PROVE Books
  OBVIOUS
<1>1. TypeOK
  BY DEF BooksInv, CoHInv, Queues, RefsInv, References, TypeOK
<1>2. Cardinality(Tracked(refs)) = Len(refs)
  BY SingleCounts DEF BooksInv, RefsInv
<1>3. ASSUME NEW c \in Tracked(refs) \ Unfinished(refs) PROVE row[c] = "done"
  <2>1. PICK x \in ToSet(refs) : x.coh = c
    BY DEF Tracked
  <2>2. x.finished
    BY <1>3, <2>1 DEF Unfinished
  <2> QED BY <2>1, <2>2 DEF BooksInv, RefsInv, Truthful
<1> QED BY <1>1, <1>2, <1>3 DEF BooksInv, Queues, Books

LEMMA InitInv == Init => BooksInv
<1> SUFFICES ASSUME Init PROVE BooksInv
  OBVIOUS
<1>1. MaxAttempts \in Nat \ {0}
  BY BundlesAssumption
<1>2. <<>> \in Seq(CoHs) /\ <<>> \in Seq(Element) /\ DOMAIN <<>> = {}
  <2>1. <<>> \in Seq({}) /\ Len(<<>>) = 0 /\ 1..0 = {}
    OBVIOUS
  <2> QED BY <2>1
<1>3. CoHInv
  BY <1>1 DEF Init, CoHInv, Places
<1>4. Queues(place, queue)
  BY <1>2 DEF Init, Queues, At, ToSet, IsInjective
<1>5. RefsInv
  BY <1>2 DEF Init, RefsInv, References, Single, Truthful, ToSet
<1> QED BY <1>3, <1>4, <1>5 DEF BooksInv

-----------------------------------------------------------------------------
(* launch_next_waiting(). *)

\* From the placement p and its queue q, one waiting circuit starts, which the
\* references do not hold back, or none.
LEMMA LaunchNextInv ==
    ASSUME NEW p \in [CoHs -> Places], NEW q, Queues(p, q), NEW r, LaunchNext(p, q, r)
    PROVE  /\ place' \in [CoHs -> Places]
           /\ Queues(place, queue)'
           /\ \A c \in CoHs : \/ place'[c] = p[c]
                              \/ /\ p[c] = "waiting" /\ place'[c] = "active"
                                 /\ c \notin Banned(r)
<1>1. CASE place' = p /\ queue' = q
  BY <1>1 DEF Queues, At
<1>2. ASSUME NEW i \in DOMAIN q, q[i] \notin Banned(r),
             place' = [p EXCEPT ![q[i]] = "active"],
             queue' = Among(q, CoHs \ {q[i]})
      PROVE  /\ place' \in [CoHs -> Places]
             /\ Queues(place, queue)'
             /\ \A c \in CoHs : \/ place'[c] = p[c]
                                \/ /\ p[c] = "waiting" /\ place'[c] = "active"
                                   /\ c \notin Banned(r)
  <2>1. q[i] \in CoHs /\ q[i] \in At(p, "waiting")
    BY DEF Queues, ToSet
  <2>2. p[q[i]] = "waiting" /\ place' \in [CoHs -> Places]
    BY <1>2, <2>1 DEF At, Places
  <2>3. At(place', "waiting") = At(p, "waiting") \cap (CoHs \ {q[i]})
    BY <1>2, <2>1, <2>2 DEF At
  <2>4. /\ queue' \in Seq(CoHs) /\ IsInjective(queue')
        /\ ToSet(queue') = ToSet(q) \cap (CoHs \ {q[i]})
    BY <1>2, AmongElements DEF Queues
  <2>5. Queues(place, queue)'
    BY <2>3, <2>4 DEF Queues, At
  <2> QED BY <1>2, <2>1, <2>2, <2>5
<1>3. Launchable(p, q, r) \subseteq {i \in DOMAIN q : q[i] \notin Banned(r)}
  BY DEF Launchable
<1>4. CASE ~(place' = p /\ queue' = q)
  <2>1. PICK i \in Launchable(p, q, r) :
          place' = [p EXCEPT ![q[i]] = "active"] /\ queue' = Among(q, CoHs \ {q[i]})
    BY <1>4 DEF LaunchNext
  <2> QED BY <1>2, <1>3, <2>1
<1> QED BY <1>1, <1>4

-----------------------------------------------------------------------------
(* The actions. *)

\* When the circuit of c leaves the container and the queue q is left.
LEMMA ReleaseInv ==
    ASSUME BooksInv, NEW c \in CoHs, NEW q, NEW r,
           Queues([place EXCEPT ![c] = "none"], q),
           LaunchNext([place EXCEPT ![c] = "none"], q, r)
    PROVE  /\ place' \in [CoHs -> Places]
           /\ Queues(place, queue)'
           /\ place'[c] = "none"
           /\ \A d \in CoHs \ {c} :
                 \/ place'[d] = place[d]
                 \/ place[d] = "waiting" /\ place'[d] = "active" /\ d \notin Banned(r)
<1> DEFINE p == [place EXCEPT ![c] = "none"]
<1>1. p \in [CoHs -> Places] /\ p[c] = "none" /\ \A d \in CoHs \ {c} : p[d] = place[d]
  BY DEF BooksInv, CoHInv, Places
<1> HIDE DEF p
<1>2. /\ place' \in [CoHs -> Places] /\ Queues(place, queue)'
      /\ \A d \in CoHs : \/ place'[d] = p[d]
                         \/ p[d] = "waiting" /\ place'[d] = "active" /\ d \notin Banned(r)
  BY <1>1, LaunchNextInv DEF p
<1> QED BY <1>1, <1>2

LEMMA ActiveLeaves ==
    ASSUME BooksInv, NEW c \in CoHs, place[c] = "active"
    PROVE  Queues([place EXCEPT ![c] = "none"], queue)
<1>1. At([place EXCEPT ![c] = "none"], "waiting") = At(place, "waiting")
  BY DEF BooksInv, CoHInv, At
<1> QED BY <1>1 DEF BooksInv, Queues

LEMMA AnyLeaves ==
    ASSUME BooksInv, NEW c \in CoHs
    PROVE  Queues([place EXCEPT ![c] = "none"], Among(queue, CoHs \ {c}))
<1>1. At([place EXCEPT ![c] = "none"], "waiting") = At(place, "waiting") \ {c}
  BY DEF BooksInv, CoHInv, At
<1>2. queue \in Seq(CoHs) /\ IsInjective(queue) /\ ToSet(queue) = At(place, "waiting")
  BY DEF BooksInv, Queues
<1>3. /\ Among(queue, CoHs \ {c}) \in Seq(CoHs) /\ IsInjective(Among(queue, CoHs \ {c}))
      /\ ToSet(Among(queue, CoHs \ {c})) = ToSet(queue) \cap (CoHs \ {c})
  BY <1>2, AmongElements
<1>4. At(place, "waiting") \subseteq CoHs
  BY DEF At
<1> QED BY <1>1, <1>2, <1>3, <1>4 DEF Queues

\* Fewer references, or finished ones of CoHs that are done.
LEMMA TruthKept ==
    ASSUME NEW r, NEW s, NEW ended, NEW after, Truthful(r, ended),
           \A x \in ToSet(s) : x.finished => x \in ToSet(r) \/ after[x.coh] = "done",
           \A x \in ToSet(r) : ended[x.coh] = "done" => after[x.coh] = "done"
    PROVE  Truthful(s, after)
BY DEF Truthful

LEMMA DoneInv ==
    ASSUME BooksInv, NEW c \in CoHs, Done(c)
    PROVE  BooksInv'
<1>1. place[c] = "active" /\ row[c] = "scheduled"
  BY DEF Done, BooksInv, CoHInv
<1>2. /\ place' \in [CoHs -> Places] /\ Queues(place, queue)' /\ place'[c] = "none"
      /\ \A d \in CoHs \ {c} : place'[d] # "none" => place[d] # "none"
  BY <1>1, ActiveLeaves, ReleaseInv DEF Done, Released
<1>3. refs' = Finish(refs, c) /\ row' = [row EXCEPT ![c] = "done"]
      /\ todo' = todo /\ due' = due
  BY DEF Done, Released, Ends
<1>4. CoHInv'
  BY <1>1, <1>2, <1>3 DEF BooksInv, CoHInv
<1>5. /\ References(refs')
      /\ \A x \in ToSet(refs') : x \in ToSet(refs) \/ x.coh = c
  BY <1>3, FinishReferences DEF BooksInv, RefsInv
<1>6. row'[c] = "done" /\ \A d \in CoHs : row[d] = "done" => row'[d] = "done"
  BY <1>3 DEF BooksInv, CoHInv
<1>7. \A x \in ToSet(refs) : x.coh \in CoHs
  BY ReferenceTyped DEF BooksInv, RefsInv, References
<1>8. Truthful(refs', row')
  BY <1>5, <1>6, <1>7, TruthKept DEF BooksInv, RefsInv
<1> QED BY <1>2, <1>4, <1>5, <1>8 DEF BooksInv, RefsInv

LEMMA FailedInv ==
    ASSUME BooksInv, NEW c \in CoHs, Failed(c)
    PROVE  BooksInv'
<1>1. place[c] = "active" /\ row[c] = "scheduled" /\ todo[c] \in 1..MaxAttempts
      /\ MaxAttempts \in Nat
  BY BundlesAssumption DEF Failed, BooksInv, CoHInv
<1>2. /\ place' \in [CoHs -> Places] /\ Queues(place, queue)' /\ place'[c] = "none"
      /\ \A d \in CoHs \ {c} : place'[d] # "none" => place[d] # "none"
  BY <1>1, ActiveLeaves, ReleaseInv DEF Failed, Released
<1>3. refs' = refs /\ todo' = [todo EXCEPT ![c] = @ - 1] /\ due' = due \ {c}
      /\ row' = IF todo[c] = 1 THEN [row EXCEPT ![c] = "failed"] ELSE row
  BY DEF Failed, Released
<1>4. todo[c] - 1 \in 0..MaxAttempts /\ (todo[c] # 1 => todo[c] - 1 # 0)
  BY <1>1
<1>5. /\ todo' \in [CoHs -> 0..MaxAttempts] /\ todo'[c] = todo[c] - 1
      /\ \A d \in CoHs \ {c} : todo'[d] = todo[d] /\ row'[d] = row[d]
      /\ row' \in [CoHs -> {"scheduled", "done", "failed", "over_timed", "stopped"}]
      /\ row'[c] = "scheduled" => todo[c] # 1
  BY <1>3, <1>4 DEF BooksInv, CoHInv
<1>6. CoHInv'
  BY <1>2, <1>3, <1>4, <1>5 DEF BooksInv, CoHInv
<1>7. \A x \in ToSet(refs) : x.coh \in CoHs
  BY ReferenceTyped DEF BooksInv, RefsInv, References
<1>8. Truthful(refs', row')
  BY <1>1, <1>3, <1>5, <1>7, TruthKept DEF BooksInv, RefsInv
<1> QED BY <1>2, <1>3, <1>6, <1>8 DEF BooksInv, RefsInv

LEMMA OverTimedInv ==
    ASSUME BooksInv, NEW c \in CoHs, OverTimed(c)
    PROVE  BooksInv'
<1>1. place[c] = "active" /\ row[c] = "scheduled"
  BY DEF OverTimed, BooksInv, CoHInv
<1>2. /\ place' \in [CoHs -> Places] /\ Queues(place, queue)' /\ place'[c] = "none"
      /\ \A d \in CoHs \ {c} : place'[d] # "none" => place[d] # "none"
  BY <1>1, ActiveLeaves, ReleaseInv DEF OverTimed, Released
<1>3. refs' = CleanUp(refs, c) /\ row' = [row EXCEPT ![c] = "over_timed"]
      /\ todo' = todo /\ due' = due
  BY DEF OverTimed, Released, Ends
<1>4. CoHInv'
  BY <1>1, <1>2, <1>3 DEF BooksInv, CoHInv
<1>5. References(refs') /\ ToSet(refs') \subseteq ToSet(refs)
  BY <1>3, CleanUpReferences DEF BooksInv, RefsInv
<1>6. \A d \in CoHs : row[d] = "done" => row'[d] = "done"
  BY <1>1, <1>3 DEF BooksInv, CoHInv
<1>7. \A x \in ToSet(refs) : x.coh \in CoHs
  BY ReferenceTyped DEF BooksInv, RefsInv, References
<1>8. Truthful(refs', row')
  BY <1>5, <1>6, <1>7, TruthKept DEF BooksInv, RefsInv
<1> QED BY <1>2, <1>4, <1>5, <1>8 DEF BooksInv, RefsInv

LEMMA ExpiredInv ==
    ASSUME BooksInv, NEW c \in CoHs, Expired(c)
    PROVE  BooksInv'
<1>1. place[c] = "active"
  BY DEF Expired
<1>2. /\ place' \in [CoHs -> Places] /\ Queues(place, queue)' /\ place'[c] = "none"
      /\ \A d \in CoHs \ {c} : place'[d] # "none" => place[d] # "none"
  BY <1>1, ActiveLeaves, ReleaseInv DEF Expired, Released
<1>3. UNCHANGED <<refs, row, todo, due>>
  BY DEF Expired, Released
<1> QED BY <1>2, <1>3 DEF BooksInv, CoHInv, RefsInv

LEMMA StopInv ==
    ASSUME BooksInv, NEW c \in CoHs, Stop(c)
    PROVE  BooksInv'
<1>1. place[c] \in {"active", "waiting"} /\ row[c] = "scheduled"
  BY DEF Stop, BooksInv, CoHInv
<1>2. /\ place' \in [CoHs -> Places] /\ Queues(place, queue)' /\ place'[c] = "none"
      /\ \A d \in CoHs \ {c} : place'[d] # "none" => place[d] # "none"
  BY AnyLeaves, ReleaseInv DEF Stop
<1>3. refs' = refs /\ row' = [row EXCEPT ![c] = "stopped"] /\ todo' = todo /\ due' = due
  BY DEF Stop, Ends
<1>4. CoHInv'
  BY <1>1, <1>2, <1>3 DEF BooksInv, CoHInv
<1>5. \A d \in CoHs : row[d] = "done" => row'[d] = "done"
  BY <1>1, <1>3 DEF BooksInv, CoHInv
<1>6. \A x \in ToSet(refs) : x.coh \in CoHs
  BY ReferenceTyped DEF BooksInv, RefsInv, References
<1>7. Truthful(refs', row')
  BY <1>3, <1>5, <1>6 DEF BooksInv, RefsInv, Truthful
<1> QED BY <1>2, <1>3, <1>4, <1>7 DEF BooksInv, RefsInv

LEMMA ThreadEndsInv ==
    ASSUME BooksInv, NEW c \in CoHs, ThreadEnds(c)
    PROVE  BooksInv'
<1>1. At(place', "waiting") = At(place, "waiting")
  BY DEF ThreadEnds, BooksInv, CoHInv, At
<1>2. CoHInv'
  BY DEF ThreadEnds, BooksInv, CoHInv, Places
<1> QED BY <1>1, <1>2 DEF ThreadEnds, BooksInv, Queues, RefsInv

\* A batch has each of its CoHs once; they are to be deployed and have no circuit.
LEMMA SelectionsElements ==
    ASSUME BooksInv, NEW new \in Selections
    PROVE  /\ new \in Seq(CoHs) /\ IsInjective(new)
           /\ \A c \in ToSet(new) :
                 c \in CoHs /\ place[c] = "none" /\ row[c] = "scheduled"
<1>1. PICK rows \in Orders :
        new = LET s == Among(rows, Selectable)
                  n == IF Len(s) > FreeSlots THEN FreeSlots ELSE Len(s)
              IN  Among(SubSeq(s, 1, n), CoHs \ Banned(refs))
  BY DEF Selections
<1> DEFINE s == Among(rows, Selectable)
           n == IF Len(s) > FreeSlots THEN FreeSlots ELSE Len(s)
           q == SubSeq(s, 1, n)
<1>2. rows \in Seq(CoHs) /\ IsInjective(rows)
  BY BundlesAssumption
<1>3. s \in Seq(CoHs) /\ IsInjective(s) /\ ToSet(s) = ToSet(rows) \cap Selectable
  BY <1>2, AmongElements
<1>4. FreeSlots \in Int
  <2>1. IsFiniteSet(At(place, "active"))
    BY BundlesAssumption, FS_Subset DEF At
  <2>2. Cardinality(At(place, "active")) \in Nat
    BY <2>1, FS_CardinalityType
  <2> QED BY <2>2, BundlesAssumption DEF FreeSlots
<1> HIDE DEF s
<1>5. Len(s) \in Nat
  BY <1>3
<1>6. n \in Int /\ n <= Len(s)
  BY <1>4, <1>5
<1> HIDE DEF n
<1>7. q \in Seq(CoHs) /\ IsInjective(q) /\ ToSet(q) \subseteq ToSet(s)
  BY <1>3, <1>6, FirstElements
<1> HIDE DEF q
<1>8. new = Among(q, CoHs \ Banned(refs))
  BY <1>1 DEF s, n, q
<1>9. new \in Seq(CoHs) /\ IsInjective(new) /\ ToSet(new) = ToSet(q) \cap (CoHs \ Banned(refs))
  BY <1>7, <1>8, AmongElements
<1>10. \A c \in ToSet(new) : c \in Selectable /\ c \in CoHs /\ c \notin Banned(refs)
  BY <1>3, <1>7, <1>9
<1> QED BY <1>9, <1>10 DEF Selectable

LEMMA AwakeInv ==
    ASSUME BooksInv, Awake
    PROVE  BooksInv'
<1>1. PICK new \in Selections :
        \E start \in {Startable(Updated(refs, new), new)} :
           /\ place' = [c \in CoHs |->
                  IF c \in start THEN "flight"
                  ELSE IF c \in ToSet(new) THEN "waiting" ELSE place[c]]
           /\ queue' = queue \o Among(new, CoHs \ start)
           /\ refs' = Swept(Updated(refs, new))
  BY DEF Awake
<1>2. PICK start \in SUBSET ToSet(new) :
        /\ place' = [c \in CoHs |->
               IF c \in start THEN "flight"
               ELSE IF c \in ToSet(new) THEN "waiting" ELSE place[c]]
        /\ queue' = queue \o Among(new, CoHs \ start)
  BY <1>1 DEF Startable
<1>3. UNCHANGED <<row, todo, due>>
  BY DEF Awake
<1>4. /\ new \in Seq(CoHs) /\ IsInjective(new)
      /\ \A c \in ToSet(new) : c \in CoHs /\ place[c] = "none" /\ row[c] = "scheduled"
  BY SelectionsElements
<1>5. CoHInv'
  BY <1>2, <1>3, <1>4 DEF BooksInv, CoHInv, Places
<1>6. /\ queue \in Seq(CoHs) /\ IsInjective(queue)
      /\ ToSet(queue) = At(place, "waiting")
  BY DEF BooksInv, Queues
<1>7. /\ Among(new, CoHs \ start) \in Seq(CoHs) /\ IsInjective(Among(new, CoHs \ start))
      /\ ToSet(Among(new, CoHs \ start)) = ToSet(new) \cap (CoHs \ start)
  BY <1>4, AmongElements
<1>8. ToSet(queue) \cap ToSet(Among(new, CoHs \ start)) = {}
  BY <1>4, <1>6, <1>7 DEF At
<1>9. /\ queue' \in Seq(CoHs) /\ IsInjective(queue')
      /\ ToSet(queue') = ToSet(queue) \cup (ToSet(new) \cap (CoHs \ start))
  <2>1. /\ queue \o Among(new, CoHs \ start) \in Seq(CoHs)
        /\ IsInjective(queue \o Among(new, CoHs \ start))
    BY <1>6, <1>7, <1>8, ConcatInjective
  <2>2. ToSet(queue \o Among(new, CoHs \ start))
          = ToSet(queue) \cup ToSet(Among(new, CoHs \ start))
    BY <1>6, <1>7, ConcatElements
  <2> QED BY <1>2, <1>7, <2>1, <2>2
<1>10. At(place', "waiting") = At(place, "waiting") \cup (ToSet(new) \cap (CoHs \ start))
  BY <1>2, <1>4 DEF At
<1>11. Queues(place, queue)'
  BY <1>6, <1>9, <1>10 DEF Queues, At
<1>12. /\ References(Updated(refs, new))
       /\ \A x \in ToSet(Updated(refs, new)) : x.finished => x \in ToSet(refs)
  BY <1>4, UpdatedReferences DEF BooksInv, RefsInv
<1>13. References(refs') /\ ToSet(refs') \subseteq ToSet(Updated(refs, new))
  <2>1. refs' = Swept(Updated(refs, new))
    BY <1>1
  <2> QED BY <1>12, <2>1, CleanUpRemainingReferences DEF Swept
<1>14. Truthful(refs', row')
  BY <1>3, <1>12, <1>13 DEF BooksInv, RefsInv, Truthful
<1> QED BY <1>5, <1>11, <1>13, <1>14 DEF BooksInv, RefsInv

LEMMA AwakeLockedInv ==
    ASSUME BooksInv, AwakeLocked
    PROVE  BooksInv'
<1>1. refs' = Swept(refs) /\ UNCHANGED <<place, queue, row, todo, due>>
  BY DEF AwakeLocked
<1>2. References(refs') /\ ToSet(refs') \subseteq ToSet(refs)
  BY <1>1, CleanUpRemainingReferences DEF Swept, BooksInv, RefsInv
<1>3. Truthful(refs', row')
  BY <1>1, <1>2 DEF BooksInv, RefsInv, Truthful
<1> QED BY <1>1, <1>2, <1>3 DEF BooksInv, CoHInv, Queues, RefsInv, At

\* Every step keeps the invariant.
LEMMA StepInv == BooksInv /\ [Next]_vars => BooksInv'
<1> SUFFICES ASSUME BooksInv, [Next]_vars PROVE BooksInv'
  OBVIOUS
<1>1. CASE Awake
  BY <1>1, AwakeInv
<1>2. CASE AwakeLocked
  BY <1>2, AwakeLockedInv
<1>3. ASSUME NEW c \in CoHs, ThreadEnds(c) PROVE BooksInv'
  BY <1>3, ThreadEndsInv
<1>4. ASSUME NEW c \in CoHs, Due(c) PROVE BooksInv'
  BY <1>4 DEF Due, BooksInv, CoHInv, Queues, RefsInv, At
<1>5. ASSUME NEW c \in CoHs, Stop(c) PROVE BooksInv'
  BY <1>5, StopInv
<1>6. ASSUME NEW c \in CoHs, Done(c) PROVE BooksInv'
  BY <1>6, DoneInv
<1>7. ASSUME NEW c \in CoHs, Failed(c) PROVE BooksInv'
  BY <1>7, FailedInv
<1>8. ASSUME NEW c \in CoHs, OverTimed(c) PROVE BooksInv'
  BY <1>8, OverTimedInv
<1>9. ASSUME NEW c \in CoHs, Expired(c) PROVE BooksInv'
  BY <1>9, ExpiredInv
<1>10. CASE UNCHANGED vars
  BY <1>10 DEF vars, BooksInv, CoHInv, Queues, RefsInv, At
<1> QED BY <1>1, <1>2, <1>3, <1>4, <1>5, <1>6, <1>7, <1>8, <1>9, <1>10 DEF Next

\* BooksInv holds in every behaviour of the dispatcher.
THEOREM Invariance == Spec => []BooksInv
BY InitInv, StepInv, PTL DEF Spec

-----------------------------------------------------------------------------
(* Results. *)

\* Each waiting circuit is queued once, each CoH has one reference at most, and
\* only the references of CoHs that are done are finished.
THEOREM BooksKept == Spec => []Books
BY InvImpliesBooks, Invariance, PTL

LEMMA BannedByReferences ==
    ASSUME NEW r, NEW c, NEW d, Precedes(d, c), c \in Tracked(r), d \in Unfinished(r)
    PROVE  c \in Banned(r)
BY DEF Banned, IsPreviousFinished

LEMMA StepHolds ==
    ASSUME BooksInv, [Next]_vars, NEW c \in CoHs, NEW d \in CoHs, Precedes(d, c),
           c \in Tracked(refs) \cup Tracked(refs'), d \in Unfinished(refs')
    PROVE  ~Starts(c)
<1> SUFFICES ASSUME Starts(c) PROVE FALSE
  OBVIOUS
<1>1. place[c] \in {"none", "waiting"} /\ place'[c] \in {"flight", "active"}
  BY DEF Starts
<1>2. BundleOf[c] # NoBundle
  BY DEF Precedes
<1>3. CASE Awake
  <2>1. PICK new \in Selections :
          /\ c \in ToSet(new) /\ c \notin Banned(Updated(refs, new))
          /\ refs' = Swept(Updated(refs, new))
    BY <1>1, <1>3 DEF Awake, Startable
  <2>2. new \in Seq(CoHs) /\ IsInjective(new)
    BY SelectionsElements
  <2>3. /\ References(Updated(refs, new))
        /\ c \in Tracked(Updated(refs, new))
    BY <1>2, <2>1, <2>2, UpdatedReferences DEF BooksInv, RefsInv
  <2>4. ToSet(refs') \subseteq ToSet(Updated(refs, new))
    BY <2>1, <2>3, CleanUpRemainingReferences DEF Swept
  <2>5. d \in Unfinished(Updated(refs, new))
    BY <2>4 DEF Unfinished
  <2> QED BY <2>1, <2>3, <2>5, BannedByReferences
<1>4. ASSUME NEW e \in CoHs, place[e] = "active", Released(e, refs'),
             c \in Tracked(refs')
      PROVE  FALSE
  <2>1. c \in Banned(refs')
    BY <1>4, BannedByReferences
  <2> QED BY <1>1, <1>4, <2>1, ActiveLeaves, ReleaseInv DEF Released
<1>5. ASSUME NEW e \in CoHs, Done(e) PROVE FALSE
  <2>1. refs' = Finish(refs, e) /\ Released(e, refs') /\ place[e] = "active"
    BY <1>5 DEF Done, Released
  <2>2. c \in Tracked(refs')
    BY <2>1, FinishReferences DEF BooksInv, RefsInv
  <2> QED BY <1>4, <2>1, <2>2
<1>6. ASSUME NEW e \in CoHs, OverTimed(e) PROVE FALSE
  <2>1. refs' = CleanUp(refs, e) /\ Released(e, refs') /\ place[e] = "active"
    BY <1>6 DEF OverTimed, Released
  <2>2. c \in Tracked(refs')
    BY <1>1, <2>1, CleanUpReferences DEF BooksInv, RefsInv
  <2> QED BY <1>4, <2>1, <2>2
<1>7. ASSUME NEW e \in CoHs, Failed(e) \/ Expired(e) PROVE FALSE
  <2>1. refs' = refs /\ Released(e, refs') /\ place[e] = "active"
    BY <1>7 DEF Failed, Expired, Released
  <2> QED BY <1>4, <2>1
<1>8. ASSUME NEW e \in CoHs, Stop(e) PROVE FALSE
  <2>1. refs' = refs /\ c \in Banned(refs)
    BY <1>8, BannedByReferences DEF Stop
  <2> QED BY <1>1, <1>8, <2>1, AnyLeaves, ReleaseInv DEF Stop
<1>9. ASSUME NEW e \in CoHs, ThreadEnds(e) \/ Due(e) PROVE FALSE
  <2>1. refs' = refs
    BY <1>9 DEF ThreadEnds, Due
  <2> QED BY <1>1, <1>9 DEF ThreadEnds, Due, BooksInv, CoHInv
<1>10. CASE AwakeLocked \/ UNCHANGED vars
  BY <1>1, <1>10 DEF AwakeLocked, vars
<1> QED BY <1>3, <1>5, <1>6, <1>7, <1>8, <1>9, <1>10 DEF Next

\* A circuit is not started by any of the three ways while the unfinished reference
\* of its predecessor is there and its own is, or was before the step.
THEOREM HeldBack == Spec => Held
<1>1. BooksInv /\ [Next]_vars =>
        [\A c, d \in CoHs :
           /\ Precedes(d, c)
           /\ c \in Tracked(refs) \cup Tracked(refs')
           /\ d \in Unfinished(refs')
           => ~Starts(c)]_vars
  BY StepHolds
<1> QED BY <1>1, Invariance, PTL DEF Spec, Held
=============================================================================
