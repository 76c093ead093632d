--------------------------- MODULE DeliveryProofs ---------------------------
(***************************************************************************)
(* What holds of Delivery for any number of CoHs, slots, orders and faults *)
(* and whatever frames meet on the socket: a result that was taken is kept *)
(* by somebody until it is handled, unless it was lost in one of the ways  *)
(* Kept names; and none is handled more often than it was accepted.        *)
(***************************************************************************)
EXTENDS Delivery, SequenceTheorems, FiniteSetTheorems, TLAPS

-----------------------------------------------------------------------------
(* The elements of a sequence that grows or shrinks.                       *)

LEMMA ElementsOfEmpty == ToSet(<<>>) = {}
<1>1. <<>> \in Seq({}) /\ Len(<<>>) = 0
  OBVIOUS
<1>2. DOMAIN <<>> = 1..0
  BY <1>1
<1> QED BY <1>2 DEF ToSet

LEMMA ElementsOfConcat ==
    ASSUME NEW S, NEW s \in Seq(S), NEW t \in Seq(S)
    PROVE  ToSet(s \o t) = ToSet(s) \cup ToSet(t)
<1>1. Range(s \o t) = Range(s) \cup Range(t)
  BY RangeConcatenation
<1> QED BY <1>1 DEF Range, ToSet

LEMMA ElementsOfAppend ==
    ASSUME NEW S, NEW s \in Seq(S), NEW e \in S
    PROVE  ToSet(Append(s, e)) = ToSet(s) \cup {e}
<1>1. Append(s, e) = s \o <<e>> /\ <<e>> \in Seq(S)
  OBVIOUS
<1>2. DOMAIN <<e>> = {1} /\ <<e>>[1] = e
  OBVIOUS
<1>3. ToSet(<<e>>) = {e}
  BY <1>2 DEF ToSet
<1>4. ToSet(s \o <<e>>) = ToSet(s) \cup ToSet(<<e>>)
  BY <1>1, ElementsOfConcat
<1> QED BY <1>1, <1>3, <1>4

LEMMA ElementsOfSeq ==
    ASSUME NEW S, NEW s \in Seq(S)
    PROVE  ToSet(s) = {s[i] : i \in 1..Len(s)}
<1>1. DOMAIN s = 1..Len(s)
  OBVIOUS
<1> QED BY <1>1 DEF ToSet

LEMMA ElementsOfSubSeq ==
    ASSUME NEW S, NEW s \in Seq(S), NEW m \in Nat \ {0}, NEW n \in Nat, n <= Len(s)
    PROVE  /\ SubSeq(s, m, n) \in Seq(S)
           /\ ToSet(SubSeq(s, m, n)) = {s[i] : i \in m..n}
<1> DEFINE q == SubSeq(s, m, n)
<1>1. Len(s) \in Nat /\ \A i \in 1..Len(s) : s[i] \in S
  OBVIOUS
<1>2. m \in Int /\ n \in Int /\ \A i \in m..n : s[i] \in S
  BY <1>1
<1>3. /\ q \in Seq(S)
      /\ Len(q) = IF m <= n THEN n - m + 1 ELSE 0
      /\ \A i \in 1 .. n - m + 1 : q[i] = s[m + i - 1]
  BY <1>2, SubSeqProperties
<1> HIDE DEF q
<1>4. CASE m > n
  <2>1. m..n = {} /\ Len(q) = 0
    BY <1>2, <1>3, <1>4
  <2>2. ToSet(q) = {q[i] : i \in 1..0}
    <3>1. ToSet(q) = {q[i] : i \in 1..Len(q)}
      BY <1>3, ElementsOfSeq
    <3> QED BY <2>1, <3>1
  <2> QED BY <1>3, <2>1, <2>2 DEF q
<1>5. CASE m <= n
  <2>1. Len(q) = n - m + 1 /\ ToSet(q) = {q[i] : i \in 1 .. n - m + 1}
    <3>1. Len(q) = n - m + 1
      BY <1>3, <1>5
    <3>2. ToSet(q) = {q[i] : i \in 1..Len(q)}
      BY <1>3, ElementsOfSeq
    <3> QED BY <3>1, <3>2
  <2>2. ASSUME NEW i \in 1 .. n - m + 1 PROVE q[i] \in {s[k] : k \in m..n}
    <3>1. m + i - 1 \in m..n /\ q[i] = s[m + i - 1]
      BY <1>2, <1>3
    <3> QED BY <3>1
  <2>3. ASSUME NEW k \in m..n PROVE s[k] \in {q[i] : i \in 1 .. n - m + 1}
    <3>1. k - m + 1 \in 1 .. n - m + 1 /\ m + (k - m + 1) - 1 = k
      BY <1>2
    <3>2. q[k - m + 1] = s[m + (k - m + 1) - 1]
      BY <1>3, <3>1
    <3> QED BY <3>1, <3>2
  <2>4. ToSet(q) = {s[k] : k \in m..n}
    BY <2>1, <2>2, <2>3
  <2> QED BY <1>3, <2>4 DEF q
<1>6. m > n \/ m <= n
  BY <1>2
<1> QED BY <1>4, <1>5, <1>6

LEMMA ElementsOfRemove ==
    ASSUME NEW S, NEW s \in Seq(S), NEW n \in 1..Len(s)
    PROVE  /\ RemoveAt(s, n) \in Seq(S) /\ s[n] \in S
           /\ ToSet(s) = ToSet(RemoveAt(s, n)) \cup {s[n]}
<1>1. /\ Len(s) \in Nat /\ n \in Nat \ {0} /\ n <= Len(s)
      /\ n - 1 \in Nat /\ n - 1 <= Len(s) /\ n + 1 \in Nat \ {0} /\ 1 \in Nat \ {0}
  <2>1. Len(s) \in Nat
    OBVIOUS
  <2> QED BY <2>1
<1>2. /\ SubSeq(s, 1, n - 1) \in Seq(S)
      /\ ToSet(SubSeq(s, 1, n - 1)) = {s[i] : i \in 1 .. n - 1}
  <2>1. \A m \in Nat : m <= Len(s) =>
          /\ SubSeq(s, 1, m) \in Seq(S) /\ ToSet(SubSeq(s, 1, m)) = {s[i] : i \in 1..m}
    BY <1>1, ElementsOfSubSeq
  <2> QED BY <1>1, <2>1
<1>3. /\ SubSeq(s, n + 1, Len(s)) \in Seq(S)
      /\ ToSet(SubSeq(s, n + 1, Len(s))) = {s[i] : i \in n + 1 .. Len(s)}
  BY <1>1, ElementsOfSubSeq
<1>4. /\ RemoveAt(s, n) \in Seq(S)
      /\ ToSet(RemoveAt(s, n)) = {s[i] : i \in 1 .. n - 1} \cup {s[i] : i \in n + 1 .. Len(s)}
  <2>1. RemoveAt(s, n) = SubSeq(s, 1, n - 1) \o SubSeq(s, n + 1, Len(s))
    BY DEF RemoveAt
  <2>2. ToSet(SubSeq(s, 1, n - 1) \o SubSeq(s, n + 1, Len(s)))
          = ToSet(SubSeq(s, 1, n - 1)) \cup ToSet(SubSeq(s, n + 1, Len(s)))
    BY <1>2, <1>3, ElementsOfConcat
  <2>3. SubSeq(s, 1, n - 1) \o SubSeq(s, n + 1, Len(s)) \in Seq(S)
    BY <1>2, <1>3
  <2> QED BY <1>2, <1>3, <2>1, <2>2, <2>3
<1>5. 1..Len(s) = (1 .. n - 1) \cup {n} \cup (n + 1 .. Len(s))
  BY <1>1
<1>6. ToSet(s) = {s[i] : i \in 1..Len(s)}
  BY ElementsOfSeq
<1> QED BY <1>4, <1>5, <1>6

LEMMA ElementsOfTail ==
    ASSUME NEW S, NEW s \in Seq(S), s # <<>>
    PROVE  /\ Head(s) \in S /\ Tail(s) \in Seq(S)
           /\ ToSet(s) = {Head(s)} \cup ToSet(Tail(s))
<1>1. Len(s) \in Nat \ {0} /\ Head(s) = s[1] /\ Head(s) \in S /\ Tail(s) \in Seq(S)
  BY EmptySeq
<1>2. Tail(s) = SubSeq(s, 2, Len(s)) /\ Len(s) <= Len(s) /\ 2 \in Nat \ {0}
  BY <1>1, TailIsSubSeq
<1>3. ToSet(Tail(s)) = {s[i] : i \in 2..Len(s)}
  <2>1. ToSet(SubSeq(s, 2, Len(s))) = {s[i] : i \in 2..Len(s)}
    BY <1>1, <1>2, ElementsOfSubSeq
  <2> QED BY <1>2, <2>1
<1>4. ToSet(s) = {s[i] : i \in 1..Len(s)}
  BY ElementsOfSeq
<1>5. 1..Len(s) = {1} \cup (2..Len(s))
  BY <1>1
<1> QED BY <1>1, <1>3, <1>4, <1>5

-----------------------------------------------------------------------------
(* How often an element is in a sequence that grows or shrinks.            *)

Positions(q, e) == {i \in DOMAIN q : q[i] = e}
Times(q, e) == Cardinality(Positions(q, e))
One(x, e) == IF x = e THEN 1 ELSE 0

LEMMA TimesType ==
    ASSUME NEW S, NEW s \in Seq(S), NEW e
    PROVE  /\ Positions(s, e) \subseteq 1..Len(s) /\ IsFiniteSet(Positions(s, e))
           /\ Times(s, e) \in Nat
<1>1. Len(s) \in Nat /\ DOMAIN s = 1..Len(s)
  OBVIOUS
<1>2. IsFiniteSet(1..Len(s))
  BY <1>1, FS_Interval
<1>3. Positions(s, e) \subseteq 1..Len(s)
  BY <1>1 DEF Positions
<1>4. IsFiniteSet(Positions(s, e))
  BY <1>2, <1>3, FS_Subset
<1> QED BY <1>3, <1>4, FS_CardinalityType DEF Times

\* Integers that are shifted into a finite set are no more than its elements.
LEMMA Shifted ==
    ASSUME NEW A \in SUBSET Int, NEW B \in SUBSET Int, IsFiniteSet(B), NEW d \in Int,
           \A i \in A : i + d \in B
    PROVE  Cardinality(A) <= Cardinality(B)
<1> DEFINE f == [i \in A |-> i + d]
<1>1. f \in [A -> B] /\ \A i, j \in A : f[i] = f[j] => i = j
  OBVIOUS
<1>2. f \in Injection(A, B)
  BY <1>1 DEF Injection, IsInjective
<1> QED BY <1>2, FS_Injection

LEMMA TimesOfEmpty == \A e : Times(<<>>, e) = 0
<1> SUFFICES ASSUME NEW e PROVE Times(<<>>, e) = 0
  OBVIOUS
<1>1. <<>> \in Seq({}) /\ Len(<<>>) = 0 /\ 1..0 = {}
  OBVIOUS
<1>2. Positions(<<>>, e) = {}
  BY <1>1, TimesType
<1> QED BY <1>2, FS_EmptySet DEF Times

LEMMA TimesOfConcat ==
    ASSUME NEW S, NEW s \in Seq(S), NEW t \in Seq(S), NEW e
    PROVE  Times(s \o t, e) <= Times(s, e) + Times(t, e)
<1> DEFINE T == {j \in Len(s) + 1 .. Len(s) + Len(t) : (s \o t)[j] = e}
<1>1. /\ Len(s) \in Nat /\ Len(t) \in Nat /\ s \o t \in Seq(S)
      /\ DOMAIN s = 1..Len(s) /\ DOMAIN t = 1..Len(t)
      /\ DOMAIN (s \o t) = 1 .. Len(s) + Len(t)
      /\ \A i \in 1..Len(s) : (s \o t)[i] = s[i]
      /\ \A i \in Len(s) + 1 .. Len(s) + Len(t) : (s \o t)[i] = t[i - Len(s)]
  OBVIOUS
<1>2. Positions(s \o t, e) = Positions(s, e) \cup T
  BY <1>1 DEF Positions
<1>3. IsFiniteSet(T)
  <2>1. IsFiniteSet(Len(s) + 1 .. Len(s) + Len(t))
    BY <1>1, FS_Interval
  <2> QED BY <2>1, FS_Subset
<1>4. Cardinality(T) <= Times(t, e)
  <2>1. T \in SUBSET Int /\ Positions(t, e) \in SUBSET Int /\ 0 - Len(s) \in Int
    BY <1>1 DEF Positions
  <2>2. \A i \in T : i + (0 - Len(s)) \in Positions(t, e)
    BY <1>1 DEF Positions
  <2>3. IsFiniteSet(Positions(t, e))
    BY TimesType
  <2> HIDE DEF T
  <2>4. Cardinality(T) <= Cardinality(Positions(t, e))
    BY <2>1, <2>2, <2>3, Shifted
  <2> QED BY <2>4 DEF Times
<1> HIDE DEF T
<1>5. /\ IsFiniteSet(Positions(s, e)) /\ Times(s, e) \in Nat /\ Times(t, e) \in Nat
      /\ Cardinality(T) \in Nat /\ Cardinality(Positions(s, e) \cap T) \in Nat
  BY <1>3, TimesType, FS_CardinalityType, FS_Intersection
<1>6. Times(s \o t, e)
      = Times(s, e) + Cardinality(T) - Cardinality(Positions(s, e) \cap T)
  BY <1>2, <1>3, <1>5, FS_Union DEF Times
<1> QED BY <1>4, <1>5, <1>6

LEMMA TimesOfOne ==
    ASSUME NEW S, NEW x \in S, NEW e
    PROVE  <<x>> \in Seq(S) /\ Times(<<x>>, e) = One(x, e)
<1>1. <<x>> \in Seq(S) /\ DOMAIN <<x>> = {1} /\ <<x>>[1] = x
  OBVIOUS
<1>2. Positions(<<x>>, e) = IF x = e THEN {1} ELSE {}
  BY <1>1 DEF Positions
<1> QED BY <1>1, <1>2, FS_Singleton, FS_EmptySet DEF Times, One

LEMMA TimesOfAppend ==
    ASSUME NEW S, NEW s \in Seq(S), NEW x \in S, NEW e
    PROVE  Times(Append(s, x), e) <= Times(s, e) + One(x, e)
<1>1. Append(s, x) = s \o <<x>> /\ <<x>> \in Seq(S)
  OBVIOUS
<1>2. Times(s \o <<x>>, e) <= Times(s, e) + Times(<<x>>, e)
  BY <1>1, TimesOfConcat
<1> QED BY <1>1, <1>2, TimesOfOne

\* All but the element at n.
LEMMA TimesWithout ==
    ASSUME NEW S, NEW s \in Seq(S), NEW n \in 1..Len(s), NEW e,
           NEW A, Cardinality(A) <= Cardinality(Positions(s, e) \ {n}),
           Cardinality(A) \in Nat
    PROVE  Cardinality(A) + One(s[n], e) <= Times(s, e)
<1>1. DOMAIN s = 1..Len(s) /\ (n \in Positions(s, e) <=> s[n] = e)
  BY DEF Positions
<1>2. IsFiniteSet(Positions(s, e)) /\ Times(s, e) \in Nat
  BY TimesType
<1>3. Cardinality(Positions(s, e) \ {n}) = Times(s, e) - One(s[n], e)
  <2>1. Cardinality(Positions(s, e) \ {n})
          = IF n \in Positions(s, e) THEN Times(s, e) - 1 ELSE Times(s, e)
    BY <1>2, FS_RemoveElement DEF Times
  <2> QED BY <1>1, <1>2, <2>1 DEF One
<1>4. One(s[n], e) \in Nat
  BY DEF One
<1> QED BY <1>2, <1>3, <1>4

\* What follows the first m elements.
LEMMA TimesOfRest ==
    ASSUME NEW S, NEW s \in Seq(S), NEW m \in 1..Len(s), NEW e
    PROVE  /\ SubSeq(s, m + 1, Len(s)) \in Seq(S) /\ s[1] \in S
           /\ Times(SubSeq(s, m + 1, Len(s)), e) + One(s[1], e) <= Times(s, e)
<1> DEFINE q == SubSeq(s, m + 1, Len(s))
<1>1. /\ Len(s) \in Nat /\ DOMAIN s = 1..Len(s) /\ 1 \in 1..Len(s)
      /\ m \in Nat \ {0} /\ m <= Len(s)
      /\ \A i \in 1..Len(s) : s[i] \in S
  OBVIOUS
<1>2. m + 1 \in Int /\ Len(s) \in Int /\ \A i \in m + 1 .. Len(s) : s[i] \in S
  BY <1>1
<1>3. /\ q \in Seq(S)
      /\ Len(q) = IF m + 1 <= Len(s) THEN Len(s) - (m + 1) + 1 ELSE 0
      /\ \A i \in 1 .. Len(s) - (m + 1) + 1 : q[i] = s[m + 1 + i - 1]
  BY <1>2, SubSeqProperties
<1> HIDE DEF q
<1>4. DOMAIN q = 1 .. Len(s) - m
  <2>1. DOMAIN q = 1..Len(q)
    BY <1>3
  <2>2. Len(q) = IF m + 1 <= Len(s) THEN Len(s) - (m + 1) + 1 ELSE 0
    BY <1>3
  <2>3. \A k \in Nat : m <= k => (IF m + 1 <= k THEN k - (m + 1) + 1 ELSE 0) = k - m
    BY <1>1
  <2>4. Len(q) = Len(s) - m
    BY <1>1, <2>2, <2>3
  <2> QED BY <2>1, <2>4
<1>5. \A i \in Positions(q, e) : i + m \in Positions(s, e) \ {1}
  <2> SUFFICES ASSUME NEW i \in 1 .. Len(s) - m, q[i] = e
               PROVE  i + m \in 1..Len(s) /\ s[i + m] = e /\ i + m # 1
    BY <1>1, <1>4 DEF Positions
  <2>1. i \in 1 .. Len(s) - (m + 1) + 1 /\ m + 1 + i - 1 = i + m /\ i + m \in 1..Len(s)
        /\ i + m # 1
    BY <1>1
  <2> QED BY <1>3, <2>1
<1>6. /\ Positions(q, e) \in SUBSET Int /\ Positions(s, e) \ {1} \in SUBSET Int
      /\ m \in Int
  BY <1>1, <1>4 DEF Positions
<1>7. IsFiniteSet(Positions(s, e) \ {1})
  BY TimesType, FS_Subset
<1>8. Cardinality(Positions(q, e)) <= Cardinality(Positions(s, e) \ {1})
  BY <1>5, <1>6, <1>7, Shifted
<1>9. Cardinality(Positions(q, e)) \in Nat
  BY <1>3, TimesType DEF Times
<1>10. Times(q, e) + One(s[1], e) <= Times(s, e)
  <2>1. Cardinality(Positions(q, e)) + One(s[1], e) <= Times(s, e)
    BY <1>1, <1>8, <1>9, TimesWithout
  <2> QED BY <2>1 DEF Times
<1> QED BY <1>1, <1>3, <1>10 DEF q

LEMMA TimesOfRemove ==
    ASSUME NEW S, NEW s \in Seq(S), NEW n \in 1..Len(s), NEW e
    PROVE  Times(RemoveAt(s, n), e) + One(s[n], e) <= Times(s, e)
<1> DEFINE q == RemoveAt(s, n)
           f == [i \in Positions(q, e) |-> IF i < n THEN i ELSE i + 1]
<1>1. /\ Len(s) \in Nat /\ n \in Nat \ {0} /\ n <= Len(s) /\ DOMAIN s = 1..Len(s)
      /\ \A i \in 1..Len(s) : s[i] \in S
  OBVIOUS
<1>2. /\ SubSeq(s, 1, n - 1) \in Seq(S) /\ Len(SubSeq(s, 1, n - 1)) = n - 1
      /\ \A i \in 1 .. n - 1 : SubSeq(s, 1, n - 1)[i] = s[i]
  <2>1. 1 \in Int /\ n - 1 \in Int /\ \A i \in 1 .. n - 1 : s[i] \in S
    BY <1>1
  <2>2. /\ SubSeq(s, 1, n - 1) \in Seq(S)
        /\ Len(SubSeq(s, 1, n - 1)) = IF 1 <= n - 1 THEN n - 1 - 1 + 1 ELSE 0
        /\ \A i \in 1 .. n - 1 - 1 + 1 : SubSeq(s, 1, n - 1)[i] = s[1 + i - 1]
    BY <2>1, SubSeqProperties
  <2>3. /\ n - 1 - 1 + 1 = n - 1 /\ \A i \in 1 .. n - 1 : 1 + i - 1 = i
        /\ ~(1 <= n - 1) => n - 1 = 0
    BY <1>1
  <2>4. \A i \in 1 .. n - 1 : SubSeq(s, 1, n - 1)[i] = s[i]
    BY <2>2, <2>3
  <2> QED BY <2>2, <2>3, <2>4
<1>3. /\ SubSeq(s, n + 1, Len(s)) \in Seq(S) /\ Len(SubSeq(s, n + 1, Len(s))) = Len(s) - n
      /\ \A i \in 1 .. Len(s) - n : SubSeq(s, n + 1, Len(s))[i] = s[n + i]
  <2>1. n + 1 \in Int /\ Len(s) \in Int /\ \A i \in n + 1 .. Len(s) : s[i] \in S
    BY <1>1
  <2>2. /\ SubSeq(s, n + 1, Len(s)) \in Seq(S)
        /\ Len(SubSeq(s, n + 1, Len(s)))
             = IF n + 1 <= Len(s) THEN Len(s) - (n + 1) + 1 ELSE 0
        /\ \A i \in 1 .. Len(s) - (n + 1) + 1 :
              SubSeq(s, n + 1, Len(s))[i] = s[n + 1 + i - 1]
    BY <2>1, SubSeqProperties
  <2>3. \A k \in Nat : n <= k => /\ k - (n + 1) + 1 = k - n
                                /\ \A i \in 1 .. k - n : n + 1 + i - 1 = n + i
                                /\ ~(n + 1 <= k) => k - n = 0
    BY <1>1
  <2>4. \A i \in 1 .. Len(s) - n : SubSeq(s, n + 1, Len(s))[i] = s[n + i]
    BY <1>1, <2>2, <2>3
  <2>5. Len(SubSeq(s, n + 1, Len(s))) = Len(s) - n
    <3>1. CASE n + 1 <= Len(s)
      <4>1. Len(SubSeq(s, n + 1, Len(s))) = Len(s) - (n + 1) + 1
        BY <2>2, <3>1
      <4> QED BY <1>1, <2>3, <4>1
    <3>2. CASE ~(n + 1 <= Len(s))
      <4>1. Len(SubSeq(s, n + 1, Len(s))) = 0
        BY <2>2, <3>2
      <4>2. \A k \in Nat : n <= k /\ ~(n + 1 <= k) => k - n = 0
        BY <1>1
      <4> QED BY <1>1, <3>2, <4>1, <4>2
    <3> QED BY <3>1, <3>2
  <2> QED BY <2>2, <2>4, <2>5
<1>4. /\ q \in Seq(S) /\ DOMAIN q = 1 .. Len(s) - 1
      /\ \A i \in 1 .. Len(s) - 1 : q[i] = IF i < n THEN s[i] ELSE s[i + 1]
  <2>1. PICK a \in Seq(S) : a = SubSeq(s, 1, n - 1)
    BY <1>2
  <2>2. PICK b \in Seq(S) : b = SubSeq(s, n + 1, Len(s))
    BY <1>3
  <2>3. q = a \o b
    BY <2>1, <2>2 DEF RemoveAt
  <2>4. /\ Len(a) = n - 1 /\ Len(b) = Len(s) - n
        /\ \A i \in 1 .. n - 1 : a[i] = s[i]
        /\ \A i \in 1 .. Len(s) - n : b[i] = s[n + i]
    BY <1>2, <1>3, <2>1, <2>2
  <2> HIDE DEF q
  <2>5. /\ q \in Seq(S) /\ DOMAIN q = 1 .. Len(s) - 1
        /\ \A i \in 1 .. n - 1 : q[i] = a[i]
        /\ \A i \in n .. Len(s) - 1 : q[i] = b[i - (n - 1)]
    <3>1. /\ q \in Seq(S) /\ DOMAIN q = 1 .. Len(a) + Len(b)
          /\ \A i \in 1 .. Len(a) : q[i] = a[i]
          /\ \A i \in Len(a) + 1 .. Len(a) + Len(b) : q[i] = b[i - Len(a)]
      BY <2>3
    <3>2. Len(a) + Len(b) = Len(s) - 1 /\ Len(a) + 1 = n
      BY <1>1, <2>4
    <3> QED BY <2>4, <3>1, <3>2
  <2>6. ASSUME NEW i \in 1 .. Len(s) - 1 PROVE q[i] = IF i < n THEN s[i] ELSE s[i + 1]
    <3>1. CASE i < n
      <4>1. i \in 1 .. n - 1
        BY <1>1, <3>1
      <4> QED BY <2>4, <2>5, <3>1, <4>1
    <3>2. CASE ~(i < n)
      <4>1. i \in n .. Len(s) - 1 /\ i - (n - 1) \in 1 .. Len(s) - n
            /\ n + (i - (n - 1)) = i + 1
        BY <1>1, <3>2
      <4> QED BY <2>4, <2>5, <3>2, <4>1
    <3> QED BY <3>1, <3>2
  <2> QED BY <2>5, <2>6
<1> HIDE DEF q
<1>5. /\ f \in [Positions(q, e) -> Positions(s, e) \ {n}]
      /\ \A i, j \in Positions(q, e) : f[i] = f[j] => i = j
  <2>1. Positions(q, e) \subseteq 1 .. Len(s) - 1
    BY <1>4 DEF Positions
  <2>2. ASSUME NEW i \in Positions(q, e) PROVE f[i] \in Positions(s, e) \ {n}
    BY <1>1, <1>4, <2>1 DEF Positions
  <2>3. ASSUME NEW i \in Positions(q, e), NEW j \in Positions(q, e), f[i] = f[j] PROVE i = j
    BY <1>1, <2>1, <2>3
  <2> QED BY <2>2, <2>3
<1> HIDE DEF f
<1>6. f \in Injection(Positions(q, e), Positions(s, e) \ {n})
  BY <1>5 DEF Injection, IsInjective
<1>7. IsFiniteSet(Positions(s, e) \ {n})
  BY TimesType, FS_Subset
<1>8. Cardinality(Positions(q, e)) <= Cardinality(Positions(s, e) \ {n})
  BY <1>6, <1>7, FS_Injection
<1>9. Cardinality(Positions(q, e)) \in Nat
  BY <1>4, TimesType DEF Times
<1>10. Cardinality(Positions(q, e)) + One(s[n], e) <= Times(s, e)
  BY <1>8, <1>9, TimesWithout
<1> QED BY <1>10 DEF q, Times

-----------------------------------------------------------------------------
(* Types. *)

ListTyped ==
    /\ \A id \in DOMAIN processArr :
          /\ id \in Cohs /\ processArr[id] \in Process
          /\ processArr[id].isnotifyingparent => processArr[id].state = "done"
    /\ Cardinality(DOMAIN processArr) <= Slots
ProxyTyped ==
    /\ stage \in Stages
    /\ packets \in Seq(Results) /\ backup \in Seq(Results)
    /\ send_locked \in BOOLEAN /\ spoilt \in BOOLEAN
    /\ request \in Calls \cup {NoRequest} /\ asking \in SUBSET Calls
SocketTyped == wire \in Seq(Frames) /\ serving \in Seq(Frames) /\ back \in Seq(Frames)
CountsTyped ==
    /\ orders \in [Cohs -> 0..MaxOrders]
    /\ accepted \in [Results -> Nat] /\ handled \in [Results -> Nat]
    /\ agentCalls \in 0..MaxAgentCalls /\ faults \in 0..MaxFaults

LEMMA TypeParts == TypeOK <=> ListTyped /\ ProxyTyped /\ SocketTyped /\ CountsTyped
<1> QED BY DEF TypeOK, ListTyped, ProxyTyped, SocketTyped, CountsTyped

LEMMA TypePartsNext ==
    ASSUME ListTyped', ProxyTyped', SocketTyped', CountsTyped'
    PROVE  TypeOK'
<1> QED BY DEF TypeOK, ListTyped, ProxyTyped, SocketTyped, CountsTyped

LEMMA InitTyped == Init => TypeOK
<1> SUFFICES ASSUME Init PROVE TypeOK
  OBVIOUS
<1>1. ListTyped
  <2>1. DOMAIN processArr = {}
    <3>1. processArr = <<>>
      BY DEF Init, LauncherInit
    <3>2. <<>> \in Seq({}) /\ Len(<<>>) = 0 /\ DOMAIN <<>> = 1..0
      OBVIOUS
    <3> QED BY <3>1, <3>2
  <2>2. Cardinality({}) = 0
    BY FS_EmptySet
  <2> QED BY <2>1, <2>2, LauncherAssumption DEF ListTyped
<1>2. ProxyTyped
  <2>1. <<>> \in Seq(Results)
    OBVIOUS
  <2> QED BY <2>1 DEF Init, ProxyInit, ProxyTyped, Stages
<1>3. SocketTyped
  BY DEF Init, ProxyInit, SocketTyped
<1>4. CountsTyped
  BY DeliveryAssumption DEF Init, CountsTyped
<1> QED BY <1>1, <1>2, <1>3, <1>4, TypeParts

-----------------------------------------------------------------------------
(* The launcher's list. *)

LEMMA ForkTyped ==
    ASSUME ListTyped, NEW id \in Cohs, NEW n \in Nat, commandForker(id, n)
    PROVE  /\ ListTyped'
           /\ DOMAIN processArr' = DOMAIN processArr \cup {id}
           /\ processArr'[id].order = n
           /\ \A x \in DOMAIN processArr : processArr'[x] = processArr[x] /\ x # id
<1> DEFINE p == [order |-> n, state |-> "running", isnotifyingparent |-> FALSE]
<1>1. /\ DOMAIN processArr' = DOMAIN processArr \cup {id}
      /\ \A x \in DOMAIN processArr' :
            processArr'[x] = IF x # id THEN processArr[x] ELSE p
      /\ id \notin DOMAIN processArr /\ Cardinality(DOMAIN processArr) < Slots
  BY DEF commandForker, existsProcess, isOneSlotFree
<1>2. IsFiniteSet(DOMAIN processArr)
  BY LauncherAssumption, FS_Subset DEF ListTyped
<1>3. /\ Cardinality(DOMAIN processArr') = Cardinality(DOMAIN processArr) + 1
      /\ Cardinality(DOMAIN processArr) \in Nat
  BY <1>1, <1>2, FS_AddElement, FS_CardinalityType
<1>4. p \in Process /\ p.order = n /\ p.isnotifyingparent = FALSE
  BY DEF Process
<1>5. Cardinality(DOMAIN processArr') <= Slots
  BY <1>1, <1>3, LauncherAssumption
<1>6. ASSUME NEW x \in DOMAIN processArr'
      PROVE  /\ x \in Cohs /\ processArr'[x] \in Process
             /\ processArr'[x].isnotifyingparent => processArr'[x].state = "done"
  BY <1>1, <1>4 DEF ListTyped
<1>7. ListTyped'
  BY <1>5, <1>6 DEF ListTyped
<1> QED BY <1>1, <1>4, <1>7

\* The processes that change do so without leaving the list or their orders.
LEMMA ChangeTyped ==
    ASSUME ListTyped, NEW new, DOMAIN new = DOMAIN processArr,
           \A x \in DOMAIN new :
              /\ new[x] \in Process /\ new[x].order = processArr[x].order
              /\ new[x].isnotifyingparent => new[x].state = "done",
           processArr' = new
    PROVE  /\ ListTyped'
           /\ DOMAIN processArr' = DOMAIN processArr
           /\ \A x \in DOMAIN processArr : processArr'[x].order = processArr[x].order
<1> QED BY DEF ListTyped

LEMMA ProcessWell ==
    ASSUME ListTyped, NEW id \in DOMAIN processArr
    PROVE  /\ processArr[id] \in Process
           /\ \A b \in BOOLEAN :
                 LET p == [processArr[id] EXCEPT !.isnotifyingparent = b]
                 IN  p \in Process /\ p.order = processArr[id].order
                     /\ p.isnotifyingparent = b /\ p.state = processArr[id].state
           /\ \A b \in BOOLEAN :
                 LET p == [processArr[id] EXCEPT !.state = "done", !.isnotifyingparent = b]
                 IN  p \in Process /\ p.order = processArr[id].order /\ p.state = "done"
<1> QED BY DEF ListTyped, Process

LEMMA EndedTyped ==
    ASSUME ListTyped, NEW id \in Cohs, processEnded(id)
    PROVE  /\ ListTyped'
           /\ DOMAIN processArr' = DOMAIN processArr
           /\ \A x \in DOMAIN processArr : processArr'[x].order = processArr[x].order
<1> DEFINE p == [processArr[id] EXCEPT !.state = "done", !.isnotifyingparent = ~DeferResults]
           new == [processArr EXCEPT ![id] = p]
<1>1. id \in DOMAIN processArr /\ processArr' = new
  BY DEF processEnded, getRunningIds
<1>2. p \in Process /\ p.order = processArr[id].order /\ p.state = "done"
  BY <1>1, ProcessWell, LauncherAssumption
<1> HIDE DEF p
<1>3. \A x \in DOMAIN new : new[x] = IF x = id THEN p ELSE processArr[x]
  OBVIOUS
<1>4. DOMAIN new = DOMAIN processArr
  OBVIOUS
<1> HIDE DEF new
<1>5. \A x \in DOMAIN new :
         /\ new[x] \in Process /\ new[x].order = processArr[x].order
         /\ new[x].isnotifyingparent => new[x].state = "done"
  BY <1>2, <1>3, <1>4 DEF ListTyped
<1> QED BY <1>1, <1>4, <1>5, ChangeTyped

LEMMA UnnotifiedTyped ==
    ASSUME ListTyped, NEW id \in DOMAIN processArr, unnotified(id)
    PROVE  /\ ListTyped'
           /\ DOMAIN processArr' = DOMAIN processArr
           /\ \A x \in DOMAIN processArr : processArr'[x].order = processArr[x].order
<1> DEFINE p == [processArr[id] EXCEPT !.isnotifyingparent = FALSE]
           new == [processArr EXCEPT ![id] = p]
<1>1. processArr' = new
  BY DEF unnotified
<1>2. p \in Process /\ p.order = processArr[id].order /\ p.isnotifyingparent = FALSE
  BY ProcessWell
<1> HIDE DEF p
<1>3. \A x \in DOMAIN new : new[x] = IF x = id THEN p ELSE processArr[x]
  OBVIOUS
<1>4. DOMAIN new = DOMAIN processArr
  OBVIOUS
<1> HIDE DEF new
<1>5. \A x \in DOMAIN new :
         /\ new[x] \in Process /\ new[x].order = processArr[x].order
         /\ new[x].isnotifyingparent => new[x].state = "done"
  BY <1>2, <1>3, <1>4 DEF ListTyped
<1> QED BY <1>1, <1>4, <1>5, ChangeTyped

LEMMA ZombiesTyped ==
    ASSUME ListTyped, processArr' = notifyZombies(processArr)
    PROVE  /\ ListTyped'
           /\ DOMAIN processArr' = DOMAIN processArr
           /\ \A x \in DOMAIN processArr : processArr'[x].order = processArr[x].order
<1> DEFINE new == notifyZombies(processArr)
<1>1. DOMAIN new = DOMAIN processArr
  BY DEF notifyZombies
<1>2. \A x \in DOMAIN new :
         /\ new[x] \in Process /\ new[x].order = processArr[x].order
         /\ new[x].isnotifyingparent => new[x].state = "done"
  <2> SUFFICES ASSUME NEW x \in DOMAIN processArr
               PROVE  /\ new[x] \in Process /\ new[x].order = processArr[x].order
                      /\ new[x].isnotifyingparent => new[x].state = "done"
    BY <1>1
  <2>1. new[x] = IF processArr[x].state = "done"
                 THEN [processArr[x] EXCEPT !.isnotifyingparent = TRUE] ELSE processArr[x]
    BY DEF notifyZombies
  <2> QED BY <2>1, ProcessWell DEF ListTyped
<1> HIDE DEF new
<1>3. processArr' = new
  BY DEF new
<1> QED BY <1>1, <1>2, <1>3, ChangeTyped

LEMMA NotifiedTyped ==
    ASSUME ListTyped, NEW id \in DOMAIN processArr, notified(id)
    PROVE  /\ ListTyped'
           /\ DOMAIN processArr' = DOMAIN processArr \ {id}
           /\ \A x \in DOMAIN processArr' : processArr'[x] = processArr[x]
<1>1. /\ DOMAIN processArr' = DOMAIN processArr \ {id}
      /\ \A x \in DOMAIN processArr' : processArr'[x] = processArr[x]
  BY DEF notified, Restrict
<1>2. IsFiniteSet(DOMAIN processArr)
  BY LauncherAssumption, FS_Subset DEF ListTyped
<1>3. Cardinality(DOMAIN processArr') <= Cardinality(DOMAIN processArr)
  BY <1>1, <1>2, FS_Subset
<1>4. /\ Cardinality(DOMAIN processArr') \in Nat /\ Cardinality(DOMAIN processArr) \in Nat
  BY <1>1, <1>2, FS_Subset, FS_CardinalityType
<1>5. Cardinality(DOMAIN processArr') <= Slots
  BY <1>3, <1>4, LauncherAssumption DEF ListTyped
<1> QED BY <1>1, <1>5 DEF ListTyped

-----------------------------------------------------------------------------
(* The proxy and the socket: what waits goes on waiting, or was lost. *)

Reasons == {"cut", "merged", "failed", "stopped", "crashed", "forgotten"}

ProxySafe ==
    /\ ProxyTyped' /\ SocketTyped' /\ lost \subseteq lost'
    /\ \A r \in Results \cap Waiting : r \in Waiting' \/ Dropped(r)'

LEMMA LoseDrops ==
    ASSUME NEW q, NEW why \in Reasons, Lose(q, why)
    PROVE  /\ lost \subseteq lost'
           /\ \A r \in Results \cap ToSet(q) : Dropped(r)'
<1>1. lost \subseteq lost' /\ \A r \in Results \cap ToSet(q) : <<r, why>> \in lost'
  BY DEF Lose
<1>2. ASSUME NEW r \in Results \cap ToSet(q) PROVE Dropped(r)'
  <2>1. <<r, why>> \in lost'
    BY <1>1
  <2> QED BY <2>1 DEF Dropped, Reasons
<1> QED BY <1>1, <1>2

LEMMA FramesHold == Results \subseteq Frames /\ Calls \subseteq Frames
<1> QED BY DEF Frames

\* A frame that is written, or lost because the connection is.
LEMMA WriteMoves ==
    ASSUME ProxyTyped, SocketTyped, NEW g \in Frames, Write(g)
    PROVE  /\ wire' \in Seq(Frames) /\ lost \subseteq lost'
           /\ ToSet(wire) \subseteq ToSet(wire')
           /\ g \in Results => g \in ToSet(wire') \/ Dropped(g)'
<1>1. CASE Linked
  <2>1. wire' = Append(wire, g) /\ lost' = lost
    BY <1>1 DEF Write
  <2>2. Append(wire, g) \in Seq(Frames) /\ ToSet(Append(wire, g)) = ToSet(wire) \cup {g}
    BY ElementsOfAppend DEF SocketTyped
  <2> QED BY <2>1, <2>2
<1>2. CASE ~Linked
  <2>1. wire' = wire /\ Lose(<<g>>, "cut")
    BY <1>2 DEF Write
  <2>2. g \in ToSet(<<g>>)
    <3>1. DOMAIN <<g>> = {1} /\ <<g>>[1] = g
      OBVIOUS
    <3> QED BY <3>1 DEF ToSet
  <2>3. lost \subseteq lost' /\ (g \in Results => Dropped(g)')
    BY <2>1, <2>2, LoseDrops DEF Reasons
  <2> QED BY <2>1, <2>3 DEF SocketTyped
<1> QED BY <1>1, <1>2

LEMMA BufferSafe ==
    ASSUME ProxyTyped, SocketTyped, NEW r \in Results, Buffer(r)
    PROVE  ProxySafe /\ r \in Waiting'
<1>1. /\ packets' = Append(packets, r)
      /\ UNCHANGED <<stage, backup, send_locked, request, asking, lost, wire, spoilt, serving, back>>
  BY DEF Buffer, socketVars
<1>2. packets' \in Seq(Results) /\ ToSet(packets') = ToSet(packets) \cup {r}
  <2>1. Append(packets, r) \in Seq(Results) /\ ToSet(Append(packets, r)) = ToSet(packets) \cup {r}
    BY ElementsOfAppend DEF ProxyTyped
  <2> QED BY <1>1, <2>1
<1>3. ProxyTyped' /\ SocketTyped'
  BY <1>1, <1>2 DEF ProxyTyped, SocketTyped
<1>4. Waiting' = Waiting \cup {r}
  BY <1>1, <1>2 DEF Waiting
<1> QED BY <1>1, <1>3, <1>4 DEF ProxySafe

LEMMA ForwardSafe ==
    ASSUME ProxyTyped, SocketTyped, NEW c \in Calls, Forward(c)
    PROVE  ProxySafe
<1>1. /\ request' = c /\ asking' = asking \cup {c} /\ Write(c) /\ send_locked' = TRUE
      /\ UNCHANGED <<stage, packets, backup, spoilt, serving, back>>
  BY DEF Forward, Write
<1>2. /\ wire' \in Seq(Frames) /\ lost \subseteq lost'
      /\ ToSet(wire) \subseteq ToSet(wire')
  BY <1>1, WriteMoves, FramesHold
<1>3. ProxyTyped' /\ SocketTyped'
  BY <1>1, <1>2 DEF ProxyTyped, SocketTyped
<1>4. Waiting \subseteq Waiting'
  BY <1>1, <1>2 DEF Waiting
<1> QED BY <1>2, <1>3, <1>4 DEF ProxySafe

LEMMA SendSafe ==
    ASSUME ProxyTyped, SocketTyped, Send
    PROVE  ProxySafe
<1>1. /\ packets # <<>> /\ Write(Head(packets)) /\ packets' = Tail(packets)
      /\ send_locked' = TRUE
      /\ UNCHANGED <<stage, backup, request, asking, spoilt, serving, back>>
  BY DEF Send, Write
<1>2. /\ Head(packets) \in Results /\ packets' \in Seq(Results)
      /\ ToSet(packets) = {Head(packets)} \cup ToSet(packets')
  BY <1>1, ElementsOfTail DEF ProxyTyped
<1>3. PICK h \in Results : h = Head(packets)
  BY <1>2
<1>4. Write(h) /\ ToSet(packets) = {h} \cup ToSet(packets')
  BY <1>1, <1>2, <1>3
<1>5. /\ wire' \in Seq(Frames) /\ lost \subseteq lost'
      /\ ToSet(wire) \subseteq ToSet(wire')
      /\ h \in ToSet(wire') \/ Dropped(h)'
  BY <1>4, WriteMoves, FramesHold
<1>6. ProxyTyped' /\ SocketTyped'
  BY <1>1, <1>2, <1>5 DEF ProxyTyped, SocketTyped
<1>7. ASSUME NEW r \in Results \cap Waiting PROVE r \in Waiting' \/ Dropped(r)'
  <2>1. CASE r = h
    BY <1>5, <2>1 DEF Waiting
  <2>2. CASE r # h
    BY <1>1, <1>4, <1>5, <1>7, <2>2 DEF Waiting
  <2> QED BY <2>1, <2>2
<1> QED BY <1>5, <1>6, <1>7 DEF ProxySafe

LEMMA DataReceivedSafe ==
    ASSUME ProxyTyped, SocketTyped, NEW n \in 1..Len(back), DataReceived(n)
    PROVE  ProxySafe
<1>1. /\ back' = SubSeq(back, n + 1, Len(back))
      /\ send_locked' = FALSE /\ asking' \subseteq asking
      /\ stage' \in Stages
      /\ UNCHANGED <<packets, backup, request, wire, spoilt, serving, lost>>
  BY DEF DataReceived, ProxyTyped, Stages
<1>2. back' \in Seq(Frames)
  <2>1. n + 1 \in Nat \ {0} /\ Len(back) \in Nat /\ back \in Seq(Frames)
    BY DEF SocketTyped
  <2>2. SubSeq(back, n + 1, Len(back)) \in Seq(Frames)
    BY <2>1, ElementsOfSubSeq
  <2> QED BY <1>1, <2>2
<1>3. ProxyTyped' /\ SocketTyped'
  BY <1>1, <1>2 DEF ProxyTyped, SocketTyped
<1>4. Waiting' = Waiting
  BY <1>1 DEF Waiting
<1> QED BY <1>1, <1>3, <1>4 DEF ProxySafe

LEMMA AbandonSafe ==
    ASSUME ProxyTyped, SocketTyped, NEW c \in Calls, Abandon(c)
    PROVE  ProxySafe
<1>1. /\ asking' \subseteq asking
      /\ UNCHANGED <<stage, packets, backup, send_locked, request, lost, wire, spoilt, serving, back>>
  BY DEF Abandon, socketVars
<1> QED BY <1>1 DEF ProxySafe, ProxyTyped, SocketTyped, Waiting

\* The frames that came with the first one are dropped; the rest stays.
LEMMA ReadSafe ==
    ASSUME ProxyTyped, SocketTyped, NEW n \in 1..Len(wire), NEW part \in BOOLEAN, Read(n, part)
    PROVE  ProxySafe
<1> DEFINE gone == IF part THEN n + 1 ELSE n
<1>1. /\ wire' = SubSeq(wire, gone + 1, Len(wire)) /\ Lose(SubSeq(wire, 2, gone), "merged")
      /\ serving' = Append(serving, wire[1]) /\ spoilt' = part
      /\ UNCHANGED <<stage, packets, backup, send_locked, request, asking, back>>
  BY DEF Read
<1>2. gone \in 1..Len(wire) /\ Len(wire) \in Nat /\ wire \in Seq(Frames)
  BY DEF Read, SocketTyped
<1> HIDE DEF gone
<1>3. /\ gone \in Nat /\ gone <= Len(wire) /\ Len(wire) <= Len(wire)
      /\ gone + 1 \in Nat \ {0} /\ 2 \in Nat \ {0} /\ wire[1] \in Frames
  BY <1>2
<1>4. ToSet(SubSeq(wire, 2, gone)) = {wire[i] : i \in 2..gone}
  BY <1>2, <1>3, ElementsOfSubSeq
<1>5. wire' \in Seq(Frames) /\ ToSet(wire') = {wire[i] : i \in gone + 1 .. Len(wire)}
  <2>1. /\ SubSeq(wire, gone + 1, Len(wire)) \in Seq(Frames)
        /\ ToSet(SubSeq(wire, gone + 1, Len(wire))) = {wire[i] : i \in gone + 1 .. Len(wire)}
    BY <1>2, <1>3, ElementsOfSubSeq
  <2> QED BY <1>1, <2>1
<1>6. serving' \in Seq(Frames) /\ ToSet(serving') = ToSet(serving) \cup {wire[1]}
  <2>1. /\ Append(serving, wire[1]) \in Seq(Frames)
        /\ ToSet(Append(serving, wire[1])) = ToSet(serving) \cup {wire[1]}
    BY <1>3, ElementsOfAppend DEF SocketTyped
  <2> QED BY <1>1, <2>1
<1>7. ToSet(wire) = {wire[1]} \cup ToSet(SubSeq(wire, 2, gone)) \cup ToSet(wire')
  <2>1. ToSet(wire) = {wire[i] : i \in 1..Len(wire)}
    BY <1>2, ElementsOfSeq
  <2>2. 1..Len(wire) = {1} \cup (2..gone) \cup (gone + 1 .. Len(wire))
    BY <1>2
  <2> QED BY <1>4, <1>5, <2>1, <2>2
<1>8. lost \subseteq lost' /\ \A r \in Results \cap ToSet(SubSeq(wire, 2, gone)) : Dropped(r)'
  BY <1>1, LoseDrops DEF Reasons
<1>9. ProxyTyped' /\ SocketTyped'
  BY <1>1, <1>5, <1>6 DEF ProxyTyped, SocketTyped
<1>10. ASSUME NEW r \in Results \cap Waiting PROVE r \in Waiting' \/ Dropped(r)'
  BY <1>1, <1>6, <1>7, <1>8 DEF Waiting
<1> QED BY <1>8, <1>9, <1>10 DEF ProxySafe

LEMMA SwallowSafe ==
    ASSUME ProxyTyped, SocketTyped, Swallow
    PROVE  ProxySafe
<1>1. /\ Lose(wire, "merged") /\ wire' = <<>>
      /\ UNCHANGED <<stage, packets, backup, send_locked, request, asking, spoilt, serving, back>>
  BY DEF Swallow
<1>2. lost \subseteq lost' /\ \A r \in Results \cap ToSet(wire) : Dropped(r)'
  BY <1>1, LoseDrops DEF Reasons
<1>3. <<>> \in Seq(Frames)
  OBVIOUS
<1>4. ProxyTyped' /\ SocketTyped'
  BY <1>1, <1>3 DEF ProxyTyped, SocketTyped
<1> QED BY <1>1, <1>2, <1>4 DEF ProxySafe, Waiting

\* The answer of a method; its result is the only one that stops waiting.
LEMMA RespondSafe ==
    ASSUME ProxyTyped, SocketTyped, NEW n \in 1..Len(serving), Respond(n)
    PROVE  /\ ProxyTyped' /\ SocketTyped' /\ lost' = lost /\ serving[n] \in Frames
           /\ \A r \in Waiting : r \in Waiting' \/ r = serving[n]
<1>1. /\ back' = Append(back, serving[n]) /\ serving' = RemoveAt(serving, n)
      /\ UNCHANGED <<stage, packets, backup, send_locked, request, asking, wire, spoilt, lost>>
  BY DEF Respond
<1>2. /\ RemoveAt(serving, n) \in Seq(Frames) /\ serving[n] \in Frames
      /\ ToSet(serving) = ToSet(RemoveAt(serving, n)) \cup {serving[n]}
  BY ElementsOfRemove DEF SocketTyped
<1>3. Append(back, serving[n]) \in Seq(Frames)
  BY <1>2, ElementsOfAppend DEF SocketTyped
<1>4. ProxyTyped' /\ SocketTyped'
  BY <1>1, <1>2, <1>3 DEF ProxyTyped, SocketTyped
<1> QED BY <1>1, <1>2, <1>4 DEF Waiting

LEMMA MethodFailsSafe ==
    ASSUME ProxyTyped, SocketTyped, NEW n \in 1..Len(serving), MethodFails(n)
    PROVE  ProxySafe
<1>1. /\ Lose(<<serving[n]>>, "failed") /\ serving' = RemoveAt(serving, n)
      /\ UNCHANGED <<stage, packets, backup, send_locked, request, asking, wire, spoilt, back>>
  BY DEF MethodFails
<1>2. /\ RemoveAt(serving, n) \in Seq(Frames) /\ serving[n] \in Frames
      /\ ToSet(serving) = ToSet(RemoveAt(serving, n)) \cup {serving[n]}
  BY ElementsOfRemove DEF SocketTyped
<1>3. PICK f \in Frames : f = serving[n]
  BY <1>2
<1>4. f \in ToSet(<<f>>)
  <2>1. DOMAIN <<f>> = {1} /\ <<f>>[1] = f
    OBVIOUS
  <2> QED BY <2>1 DEF ToSet
<1>5. Lose(<<f>>, "failed") /\ ToSet(serving) = ToSet(serving') \cup {f}
  BY <1>1, <1>2, <1>3
<1>6. lost \subseteq lost' /\ (f \in Results => Dropped(f)')
  BY <1>4, <1>5, LoseDrops DEF Reasons
<1>7. ProxyTyped' /\ SocketTyped'
  BY <1>1, <1>2 DEF ProxyTyped, SocketTyped
<1>8. ASSUME NEW r \in Results \cap Waiting PROVE r \in Waiting' \/ Dropped(r)'
  <2>1. CASE r = f
    BY <1>6, <1>8, <2>1
  <2>2. CASE r # f
    BY <1>1, <1>5, <1>8, <2>2 DEF Waiting
  <2> QED BY <2>1, <2>2
<1> QED BY <1>6, <1>7, <1>8 DEF ProxySafe

LEMMA ElementsOfThree ==
    ASSUME NEW S, NEW s \in Seq(S), NEW t \in Seq(S), NEW u \in Seq(S)
    PROVE  ToSet(s \o t \o u) = ToSet(s) \cup ToSet(t) \cup ToSet(u)
<1> DEFINE st == s \o t
<1>1. st \in Seq(S) /\ ToSet(st) = ToSet(s) \cup ToSet(t)
  BY ElementsOfConcat
<1> HIDE DEF st
<1>2. ToSet(st \o u) = ToSet(s) \cup ToSet(t) \cup ToSet(u)
  BY <1>1, ElementsOfConcat
<1>3. s \o t \o u = st \o u
  BY DEF st
<1> QED BY <1>2, <1>3

\* What stops loses what is on its way, and keeps what it saved.
LEMMA HaltTyped ==
    ASSUME ProxyTyped, SocketTyped, Halt, backup' \in Seq(Results)
    PROVE  /\ ProxyTyped' /\ SocketTyped'
           /\ packets' = <<>> /\ wire' = <<>> /\ serving' = <<>>
<1>1. <<>> \in Seq(Results) /\ <<>> \in Seq(Frames)
  OBVIOUS
<1> QED BY <1>1 DEF Halt, ProxyTyped, SocketTyped, Stages

LEMMA CleanUpSafe ==
    ASSUME ProxyTyped, SocketTyped, CleanUp
    PROVE  ProxySafe
<1>1. Halt /\ backup' \in Seq(Results)
  BY DEF CleanUp, ProxyTyped
<1>2. ProxyTyped' /\ SocketTyped' /\ packets' = <<>> /\ wire' = <<>> /\ serving' = <<>>
  BY <1>1, HaltTyped
<1>3. /\ packets \in Seq(Frames) /\ backup \in Seq(Frames) /\ wire \in Seq(Frames)
      /\ serving \in Seq(Frames)
  BY FramesHold DEF ProxyTyped, SocketTyped
<1>4. /\ wire \o serving \in Seq(Frames)
      /\ ToSet(wire \o serving) = ToSet(wire) \cup ToSet(serving)
  BY <1>3, ElementsOfConcat
<1>5. CASE packets = <<>>
  <2>1. backup' = backup /\ Lose(wire \o serving, "stopped") /\ ToSet(packets) = {}
    BY <1>5, ElementsOfEmpty DEF CleanUp
  <2>2. lost \subseteq lost' /\ \A r \in Results \cap ToSet(wire \o serving) : Dropped(r)'
    BY <2>1, LoseDrops DEF Reasons
  <2> QED BY <1>2, <1>4, <2>1, <2>2 DEF ProxySafe, Waiting
<1>6. CASE packets # <<>>
  <2>1. backup' = packets /\ Lose(wire \o serving \o backup, "stopped")
    BY <1>6 DEF CleanUp
  <2>2. ToSet(wire \o serving \o backup) = ToSet(wire) \cup ToSet(serving) \cup ToSet(backup)
    BY <1>3, ElementsOfThree
  <2>3. /\ lost \subseteq lost'
        /\ \A r \in Results \cap ToSet(wire \o serving \o backup) : Dropped(r)'
    BY <2>1, LoseDrops DEF Reasons
  <2> QED BY <1>2, <2>1, <2>2, <2>3 DEF ProxySafe, Waiting
<1> QED BY <1>5, <1>6

LEMMA CrashSafe ==
    ASSUME ProxyTyped, SocketTyped, Crash
    PROVE  ProxySafe
<1>1. Halt /\ backup' = backup /\ Lose(packets \o wire \o serving, "crashed")
  BY DEF Crash
<1>2. ProxyTyped' /\ SocketTyped' /\ packets' = <<>> /\ wire' = <<>> /\ serving' = <<>>
  BY <1>1, HaltTyped DEF ProxyTyped
<1>3. packets \in Seq(Frames) /\ wire \in Seq(Frames) /\ serving \in Seq(Frames)
  BY FramesHold DEF ProxyTyped, SocketTyped
<1>4. ToSet(packets \o wire \o serving)
      = ToSet(packets) \cup ToSet(wire) \cup ToSet(serving)
  BY <1>3, ElementsOfThree
<1>5. /\ lost \subseteq lost'
      /\ \A r \in Results \cap ToSet(packets \o wire \o serving) : Dropped(r)'
  BY <1>1, LoseDrops DEF Reasons
<1> QED BY <1>1, <1>2, <1>4, <1>5 DEF ProxySafe, Waiting

LEMMA StartSafe ==
    ASSUME ProxyTyped, SocketTyped, Start \/ StartEmitting
    PROVE  ProxySafe
<1>1. CASE Start
  <2>1. /\ stage' \in Stages
        /\ UNCHANGED <<packets, backup, send_locked, request, asking, lost, wire, spoilt, serving, back>>
    BY <1>1 DEF Start, Stages, socketVars
  <2> QED BY <2>1 DEF ProxySafe, ProxyTyped, SocketTyped, Waiting
<1>2. CASE StartEmitting
  <2>1. /\ stage' \in Stages /\ packets' = packets \o backup /\ backup' = <<>>
        /\ UNCHANGED <<send_locked, request, asking, lost, wire, spoilt, serving, back>>
    BY <1>2 DEF StartEmitting, Stages, socketVars
  <2>2. /\ packets \o backup \in Seq(Results)
        /\ ToSet(packets \o backup) = ToSet(packets) \cup ToSet(backup)
    BY ElementsOfConcat DEF ProxyTyped
  <2>3. <<>> \in Seq(Results)
    OBVIOUS
  <2>4. ProxyTyped' /\ SocketTyped'
    BY <2>1, <2>2, <2>3 DEF ProxyTyped, SocketTyped
  <2>5. Waiting \subseteq Waiting'
    BY <2>1, <2>2 DEF Waiting
  <2> QED BY <2>1, <2>4, <2>5 DEF ProxySafe
<1> QED BY <1>1, <1>2

LEMMA StillSafe ==
    ASSUME ProxyTyped, SocketTyped, UNCHANGED proxyVars
    PROVE  ProxySafe
<1>1. UNCHANGED <<stage, packets, backup, send_locked, request, asking, wire, spoilt,
                  serving, back, lost>>
  BY DEF proxyVars, proxyState, socketVars
<1> QED BY <1>1 DEF ProxySafe, ProxyTyped, SocketTyped, Waiting

-----------------------------------------------------------------------------
(* The invariant.  Kept needs that the launcher's list never names an      *)
(* order that was not given: what it notifies is then a result.            *)

OrdersKnown == \A id \in DOMAIN processArr : processArr[id].order \in 1..orders[id]
IInv == TypeOK /\ OrdersKnown /\ Kept

LEMMA InitHolds == Init => IInv
<1> SUFFICES ASSUME Init PROVE IInv
  OBVIOUS
<1>1. TypeOK
  BY InitTyped
<1>2. DOMAIN processArr = {}
  <2>1. processArr = <<>>
    BY DEF Init, LauncherInit
  <2>2. <<>> \in Seq({}) /\ Len(<<>>) = 0 /\ DOMAIN <<>> = 1..0
    OBVIOUS
  <2> QED BY <2>1, <2>2
<1>3. \A r \in Results : ~Taken(r)
  BY DeliveryAssumption DEF Init, Taken
<1> QED BY <1>1, <1>2, <1>3 DEF IInv, OrdersKnown, Kept

\* What was taken stays known as long as each of the four hands hands over.
LEMMA KeptStep ==
    ASSUME Kept, orders' = orders, lost \subseteq lost',
           \A r \in Results : handled[r] > 0 => handled'[r] > 0,
           \A r \in Results : Listed(r) => Listed(r)' \/ r \in Waiting' \/ Dropped(r)',
           \A r \in Results \cap Waiting : r \in Waiting' \/ handled'[r] > 0 \/ Dropped(r)'
    PROVE  Kept'
<1> SUFFICES ASSUME NEW r \in Results, Taken(r)'
             PROVE  Listed(r)' \/ r \in Waiting' \/ handled'[r] > 0 \/ Dropped(r)'
  BY DEF Kept
<1>1. Taken(r)
  BY DEF Taken
<1>2. Dropped(r) => Dropped(r)'
  BY DEF Dropped
<1>3. Listed(r) \/ r \in Waiting \/ handled[r] > 0 \/ Dropped(r)
  BY <1>1 DEF Kept
<1> QED BY <1>2, <1>3

SameList ==
    /\ ListTyped'
    /\ DOMAIN processArr' = DOMAIN processArr
    /\ \A x \in DOMAIN processArr : processArr'[x].order = processArr[x].order

LEMMA UnchangedList ==
    ASSUME ListTyped, UNCHANGED processArr
    PROVE  SameList
<1> QED BY DEF SameList, ListTyped

\* The steps that leave orders and handled results alone.
LEMMA SafeStep ==
    ASSUME IInv, ProxySafe, CountsTyped', SameList, orders' = orders, handled' = handled
    PROVE  IInv'
<1>1. TypeOK'
  BY TypePartsNext DEF SameList, ProxySafe
<1>2. OrdersKnown'
  BY DEF SameList, OrdersKnown, IInv
<1>3. \A r \in Results : Listed(r) => Listed(r)'
  BY DEF SameList, Listed
<1>4. Kept'
  BY <1>3, KeptStep DEF IInv, ProxySafe
<1> QED BY <1>1, <1>2, <1>4 DEF IInv

LEMMA CountsStay ==
    ASSUME CountsTyped, Fault \/ NoFault, UNCHANGED <<orders, histories>>
    PROVE  CountsTyped'
<1> QED BY DeliveryAssumption DEF CountsTyped, Fault, NoFault, histories

-----------------------------------------------------------------------------
(* The steps. *)

LEMMA OrderSafe ==
    ASSUME IInv, NEW c \in Cohs, Order(c)
    PROVE  IInv'
<1>1. ListTyped /\ ProxyTyped /\ SocketTyped /\ CountsTyped
  BY TypeParts DEF IInv
<1>2. /\ orders[c] \in Nat /\ orders[c] < MaxOrders /\ orders \in [Cohs -> 0..MaxOrders]
      /\ orders' = [orders EXCEPT ![c] = @ + 1]
      /\ commandForker(c, orders[c] + 1)
      /\ UNCHANGED <<proxyVars, accepted, handled, faults, agentCalls>>
  BY <1>1, DeliveryAssumption DEF Order, CountsTyped, histories, NoFault
<1>3. PICK n \in Nat : n = orders[c] + 1
  BY <1>2
<1>4. n \in 1..MaxOrders /\ orders'[c] = n /\ commandForker(c, n)
      /\ \A x \in Cohs \ {c} : orders'[x] = orders[x]
  BY <1>2, <1>3, DeliveryAssumption
<1>5. /\ ListTyped'
      /\ DOMAIN processArr' = DOMAIN processArr \cup {c}
      /\ processArr'[c].order = n
      /\ \A x \in DOMAIN processArr : processArr'[x] = processArr[x] /\ x # c
  BY <1>1, <1>4, ForkTyped
<1>6. orders' \in [Cohs -> 0..MaxOrders]
  BY <1>2, <1>4, DeliveryAssumption
<1>7. CountsTyped'
  BY <1>1, <1>2, <1>6 DEF CountsTyped
<1>8. ProxySafe
  BY <1>1, <1>2, StillSafe
<1>9. TypeOK'
  BY <1>5, <1>7, <1>8, TypePartsNext DEF ProxySafe
<1>10. OrdersKnown'
  <2>1. ASSUME NEW id \in DOMAIN processArr PROVE processArr'[id].order \in 1..orders'[id]
    BY <1>1, <1>4, <1>5 DEF IInv, OrdersKnown, ListTyped
  <2>2. processArr'[c].order \in 1..orders'[c]
    BY <1>4, <1>5
  <2> QED BY <1>5, <2>1, <2>2 DEF OrdersKnown
<1>11. ASSUME NEW r \in Results, Taken(r)'
       PROVE  Listed(r)' \/ r \in Waiting' \/ handled'[r] > 0 \/ Dropped(r)'
  <2>1. r[1] \in Cohs /\ r[2] \in 1..MaxOrders /\ r[2] <= orders'[r[1]]
    BY <1>11, DeliveryAssumption DEF Taken
  <2>2. CASE r[1] = c /\ r[2] = n
    BY <1>5, <2>2 DEF Listed
  <2>3. CASE ~(r[1] = c /\ r[2] = n)
    <3>1. Taken(r)
      BY <1>2, <1>3, <1>4, <2>1, <2>3 DEF Taken
    <3>2. Listed(r) => Listed(r)'
      BY <1>5 DEF Listed
    <3>3. Dropped(r) => Dropped(r)'
      BY <1>8 DEF Dropped, ProxySafe
    <3>4. r \in Waiting => r \in Waiting' \/ Dropped(r)'
      BY <1>8 DEF ProxySafe
    <3> QED BY <1>2, <3>1, <3>2, <3>3, <3>4 DEF Kept, IInv
  <2> QED BY <2>2, <2>3
<1>12. Kept'
  BY <1>11 DEF Kept
<1> QED BY <1>9, <1>10, <1>12 DEF IInv

\* What the list has, or tells of, is a result.
LEMMA ResultKnown ==
    ASSUME ListTyped, CountsTyped, OrdersKnown, NEW c \in DOMAIN processArr
    PROVE  ResultOf(c) \in Results
<1>1. c \in Cohs /\ processArr[c].order \in 1..orders[c] /\ orders[c] \in 0..MaxOrders
  BY DEF ListTyped, CountsTyped, OrdersKnown
<1>2. processArr[c].order \in 1..MaxOrders
  BY <1>1, DeliveryAssumption
<1> QED BY <1>1, <1>2, DeliveryAssumption DEF ResultOf

LEMMA AcceptCounts ==
    ASSUME CountsTyped, NEW r \in Results, Accept(r), Fault \/ NoFault,
           UNCHANGED <<orders, handled>>
    PROVE  CountsTyped'
<1>1. accepted' \in [Results -> Nat]
  BY DEF CountsTyped, Accept
<1> QED BY <1>1, DeliveryAssumption DEF CountsTyped, Fault, NoFault

LEMMA NotifySafe ==
    ASSUME IInv, NEW c \in Cohs, Notify(c)
    PROVE  IInv'
<1>1. ListTyped /\ ProxyTyped /\ SocketTyped /\ CountsTyped /\ OrdersKnown /\ Kept
  BY TypeParts DEF IInv
<1>2. /\ c \in DOMAIN processArr /\ notified(c) /\ Accept(ResultOf(c)) /\ NoFault
      /\ UNCHANGED <<orders, handled>>
  BY DEF Notify
<1>3. PICK g \in Results : g = ResultOf(c)
  BY <1>1, <1>2, ResultKnown
<1>4. Accept(g) /\ Buffer(g)
  BY <1>2, <1>3 DEF Accept
<1>5. CountsTyped'
  BY <1>1, <1>2, <1>4, AcceptCounts
<1>6. ProxySafe /\ g \in Waiting'
  BY <1>1, <1>4, BufferSafe
<1>7. /\ ListTyped'
      /\ DOMAIN processArr' = DOMAIN processArr \ {c}
      /\ \A x \in DOMAIN processArr' : processArr'[x] = processArr[x]
  BY <1>1, <1>2, NotifiedTyped
<1>8. TypeOK'
  BY <1>5, <1>6, <1>7, TypePartsNext DEF ProxySafe
<1>9. OrdersKnown'
  BY <1>1, <1>2, <1>7 DEF OrdersKnown
<1>10. ASSUME NEW r \in Results, Listed(r) PROVE Listed(r)' \/ r \in Waiting'
  <2>1. CASE r[1] = c
    <3>1. r = <<r[1], r[2]>>
      BY DeliveryAssumption
    <3>2. r = g
      BY <1>3, <1>10, <2>1, <3>1 DEF Listed, ResultOf
    <3> QED BY <1>6, <3>2
  <2>2. CASE r[1] # c
    BY <1>7, <1>10, <2>2 DEF Listed
  <2> QED BY <2>1, <2>2
<1>11. Kept'
  BY <1>1, <1>2, <1>6, <1>10, KeptStep DEF ProxySafe
<1> QED BY <1>8, <1>9, <1>11 DEF IInv

LEMMA AnswerLostSafe ==
    ASSUME IInv, NEW c \in Cohs, AnswerLost(c)
    PROVE  IInv'
<1>1. ListTyped /\ ProxyTyped /\ SocketTyped /\ CountsTyped /\ OrdersKnown /\ Kept
  BY TypeParts DEF IInv
<1>2. /\ c \in DOMAIN processArr /\ unnotified(c) /\ Accept(ResultOf(c)) /\ Fault
      /\ UNCHANGED <<orders, handled>>
  BY DEF AnswerLost
<1>3. PICK g \in Results : g = ResultOf(c)
  BY <1>1, <1>2, ResultKnown
<1>4. Accept(g) /\ Buffer(g)
  BY <1>2, <1>3 DEF Accept
<1>5. CountsTyped'
  BY <1>1, <1>2, <1>4, AcceptCounts
<1>6. ProxySafe
  BY <1>1, <1>4, BufferSafe
<1>7. SameList
  BY <1>1, <1>2, UnnotifiedTyped DEF SameList
<1> QED BY <1>2, <1>5, <1>6, <1>7, SafeStep

LEMMA NotifyFailsSafe ==
    ASSUME IInv, NEW c \in Cohs, NotifyFails(c)
    PROVE  IInv'
<1>1. ListTyped /\ ProxyTyped /\ SocketTyped /\ CountsTyped
  BY TypeParts DEF IInv
<1>2. /\ c \in DOMAIN processArr /\ unnotified(c) /\ (Fault \/ NoFault)
      /\ UNCHANGED <<proxyVars, orders, histories>>
  BY DEF NotifyFails
<1>3. CountsTyped' /\ orders' = orders /\ handled' = handled
  BY <1>1, <1>2, CountsStay DEF histories
<1>4. ProxySafe
  BY <1>1, <1>2, StillSafe
<1>5. SameList
  BY <1>1, <1>2, UnnotifiedTyped DEF SameList
<1> QED BY <1>3, <1>4, <1>5, SafeStep

LEMMA LauncherStepSafe ==
    ASSUME IInv, LauncherStep
    PROVE  IInv'
<1>1. ListTyped /\ ProxyTyped /\ SocketTyped /\ CountsTyped
  BY TypeParts DEF IInv
<1>2. PICK c \in Cohs : processEnded(c)
  BY DEF LauncherStep
<1>3. NoFault /\ UNCHANGED <<proxyVars, orders, histories>>
  BY DEF LauncherStep
<1>4. CountsTyped' /\ orders' = orders /\ handled' = handled
  BY <1>1, <1>3, CountsStay DEF histories
<1>5. ProxySafe
  BY <1>1, <1>3, StillSafe
<1>6. SameList
  BY <1>1, <1>2, EndedTyped DEF SameList
<1> QED BY <1>4, <1>5, <1>6, SafeStep

LEMMA LauncherRestartSafe ==
    ASSUME IInv, LauncherRestart
    PROVE  IInv'
<1>1. ListTyped /\ ProxyTyped /\ SocketTyped /\ CountsTyped /\ Kept
  BY TypeParts DEF IInv
<1>2. /\ processArr' = <<>>
      /\ lost' = lost \cup {<<ResultOf(c), "forgotten">> : c \in DOMAIN processArr}
      /\ Fault /\ UNCHANGED <<proxyState, orders, histories>>
  BY DEF LauncherRestart
<1>3. CountsTyped' /\ orders' = orders /\ handled' = handled
  BY <1>1, <1>2, CountsStay DEF histories
<1>4. ProxyTyped' /\ SocketTyped' /\ Waiting' = Waiting
  <2>1. UNCHANGED <<stage, packets, backup, send_locked, request, asking, wire, spoilt,
                    serving, back>>
    BY <1>2 DEF proxyState, socketVars
  <2> QED BY <1>1, <2>1 DEF ProxyTyped, SocketTyped, Waiting
<1>5. DOMAIN processArr' = {}
  <2>1. <<>> \in Seq({}) /\ Len(<<>>) = 0 /\ DOMAIN <<>> = 1..0
    OBVIOUS
  <2> QED BY <1>2, <2>1
<1>6. ListTyped'
  <2>1. Cardinality({}) = 0
    BY FS_EmptySet
  <2> QED BY <1>5, <2>1, LauncherAssumption DEF ListTyped
<1>7. TypeOK'
  BY <1>3, <1>4, <1>6, TypePartsNext
<1>8. OrdersKnown'
  BY <1>5 DEF OrdersKnown
<1>9. ASSUME NEW r \in Results, Listed(r) PROVE Dropped(r)'
  <2>1. r = <<r[1], r[2]>>
    BY DeliveryAssumption
  <2>2. r[1] \in DOMAIN processArr /\ r = ResultOf(r[1])
    BY <1>9, <2>1 DEF Listed, ResultOf
  <2>3. <<r, "forgotten">> \in lost'
    BY <1>2, <2>2
  <2> QED BY <2>3 DEF Dropped
<1>10. Kept'
  BY <1>1, <1>2, <1>3, <1>4, <1>9, KeptStep
<1> QED BY <1>7, <1>8, <1>10 DEF IInv

\* A method that answers handles the result.
LEMMA ServeSafe ==
    ASSUME IInv, NEW n \in 1..Len(serving), Serve(n)
    PROVE  IInv'
<1>1. ListTyped /\ ProxyTyped /\ SocketTyped /\ CountsTyped /\ OrdersKnown /\ Kept
  BY TypeParts DEF IInv
<1>2. /\ Respond(n) /\ NoFault /\ UNCHANGED <<processArr, orders, accepted>>
      /\ IF serving[n] \in Results
         THEN handled' = [handled EXCEPT ![serving[n]] = @ + 1]
         ELSE UNCHANGED handled
  BY DEF Serve
<1>3. /\ ProxyTyped' /\ SocketTyped' /\ lost' = lost /\ serving[n] \in Frames
      /\ \A r \in Waiting : r \in Waiting' \/ r = serving[n]
  BY <1>1, <1>2, RespondSafe
<1>4. handled \in [Results -> Nat]
  BY <1>1 DEF CountsTyped
<1>5. handled' \in [Results -> Nat]
  BY <1>2, <1>4
<1>6. \A r \in Results : handled[r] > 0 => handled'[r] > 0
  BY <1>2, <1>4
<1>7. serving[n] \in Results => handled'[serving[n]] > 0
  BY <1>2, <1>4
<1>8. CountsTyped'
  BY <1>1, <1>2, <1>5, DeliveryAssumption DEF CountsTyped, NoFault
<1>9. SameList
  BY <1>1, <1>2, UnchangedList
<1>10. TypeOK'
  BY <1>3, <1>8, <1>9, TypePartsNext DEF SameList
<1>11. OrdersKnown'
  BY <1>1, <1>2 DEF OrdersKnown
<1>12. \A r \in Results : Listed(r) => Listed(r)'
  BY <1>2 DEF Listed
<1>13. \A r \in Results \cap Waiting : r \in Waiting' \/ handled'[r] > 0
  BY <1>3, <1>7
<1>14. Kept'
  BY <1>1, <1>2, <1>3, <1>6, <1>12, <1>13, KeptStep
<1> QED BY <1>10, <1>11, <1>14 DEF IInv

\* The other steps of the proxy, the socket and the scheduler.
LEMMA CallSafe ==
    ASSUME IInv, NEW c \in Calls, Call(c)
    PROVE  IInv'
<1>1. ListTyped /\ ProxyTyped /\ SocketTyped /\ CountsTyped
  BY TypeParts DEF IInv
<1>2. ProxySafe
  BY <1>1, ForwardSafe DEF Call
<1>3. CountsTyped' /\ UNCHANGED <<processArr, orders, handled>>
  <2>1. UNCHANGED <<processArr, orders, accepted, handled, faults>>
    BY DEF Call, histories
  <2>2. agentCalls' \in 0..MaxAgentCalls
    BY <1>1, DeliveryAssumption DEF Call, CountsTyped
  <2> QED BY <1>1, <2>1, <2>2 DEF CountsTyped
<1>4. SameList
  BY <1>1, <1>3, UnchangedList
<1> QED BY <1>2, <1>3, <1>4, SafeStep

LEMMA AnsweredSafe ==
    ASSUME IInv, NEW n \in 1..Len(back), Answered(n)
    PROVE  IInv'
<1>1. ListTyped /\ ProxyTyped /\ SocketTyped /\ CountsTyped
  BY TypeParts DEF IInv
<1>2. /\ DataReceived(n) /\ NoFault /\ UNCHANGED <<orders, histories>>
      /\ processArr' = notifyZombies(processArr) \/ processArr' = processArr
  BY DEF Answered
<1>3. ProxySafe
  BY <1>1, <1>2, DataReceivedSafe
<1>4. CountsTyped' /\ orders' = orders /\ handled' = handled
  BY <1>1, <1>2, CountsStay DEF histories
<1>5. SameList
  <2>1. CASE processArr' = notifyZombies(processArr)
    BY <1>1, <2>1, ZombiesTyped DEF SameList
  <2>2. CASE processArr' = processArr
    BY <1>1, <2>2, UnchangedList
  <2> QED BY <1>2, <2>1, <2>2
<1> QED BY <1>3, <1>4, <1>5, SafeStep

\* The rest neither takes orders, nor handles results, nor tells the launcher.
LEMMA QuietSafe ==
    ASSUME IInv, ProxySafe, Fault \/ NoFault, UNCHANGED <<processArr, orders, histories>>
    PROVE  IInv'
<1>1. ListTyped /\ CountsTyped
  BY TypeParts DEF IInv
<1>2. CountsTyped' /\ orders' = orders /\ handled' = handled
  BY <1>1, CountsStay DEF histories
<1>3. SameList
  BY <1>1, UnchangedList
<1> QED BY <1>2, <1>3, SafeStep

LEMMA NextHolds == IInv /\ [Next]_vars => IInv'
<1> SUFFICES ASSUME IInv, [Next]_vars PROVE IInv'
  OBVIOUS
<1>1. ListTyped /\ ProxyTyped /\ SocketTyped /\ CountsTyped
  BY TypeParts DEF IInv
<1>2. CASE \E c \in Cohs : Order(c)
  BY <1>2, OrderSafe
<1>3. CASE \E c \in Cohs : Notify(c) \/ AnswerLost(c) \/ NotifyFails(c)
  BY <1>3, NotifySafe, AnswerLostSafe, NotifyFailsSafe
<1>4. CASE LauncherStep
  BY <1>4, LauncherStepSafe
<1>5. CASE LauncherRestart
  BY <1>5, LauncherRestartSafe
<1>6. CASE \E c \in Calls : Call(c)
  BY <1>6, CallSafe
<1>7. CASE \E c \in Calls : GiveUpCall(c)
  <2>1. PICK c \in Calls : GiveUpCall(c)
    BY <1>7
  <2>2. ProxySafe
    BY <1>1, <2>1, AbandonSafe DEF GiveUpCall
  <2> QED BY <2>1, <2>2, QuietSafe DEF GiveUpCall
<1>8. CASE SendResult
  <2>1. ProxySafe
    BY <1>1, <1>8, SendSafe DEF SendResult
  <2> QED BY <1>8, <2>1, QuietSafe DEF SendResult
<1>9. CASE Receive
  <2>1. ProxySafe
    <3>1. CASE \E n \in 1..Len(wire), part \in BOOLEAN : Read(n, part)
      BY <1>1, <3>1, ReadSafe
    <3>2. CASE Swallow
      BY <1>1, <3>2, SwallowSafe
    <3> QED BY <1>9, <3>1, <3>2 DEF Receive
  <2> QED BY <1>9, <2>1, QuietSafe DEF Receive
<1>10. CASE \E n \in 1..Len(serving) : Serve(n)
  BY <1>10, ServeSafe
<1>11. CASE \E n \in 1..Len(serving) : ServeFails(n)
  <2>1. PICK n \in 1..Len(serving) : ServeFails(n)
    BY <1>11
  <2>2. ProxySafe
    BY <1>1, <2>1, MethodFailsSafe DEF ServeFails
  <2> QED BY <2>1, <2>2, QuietSafe DEF ServeFails
<1>12. CASE \E n \in 1..Len(back) : Answered(n)
  BY <1>12, AnsweredSafe
<1>13. CASE Stop
  <2>1. ProxySafe
    BY <1>1, <1>13, CleanUpSafe, CrashSafe DEF Stop
  <2> QED BY <1>13, <2>1, QuietSafe DEF Stop
<1>14. CASE SetUp
  <2>1. ProxySafe
    BY <1>1, <1>14, StartSafe DEF SetUp
  <2> QED BY <1>14, <2>1, QuietSafe DEF SetUp
<1>15. CASE UNCHANGED vars
  <2>1. UNCHANGED proxyVars /\ UNCHANGED <<processArr, orders, histories>> /\ NoFault
    BY <1>15 DEF vars, histories, NoFault
  <2>2. ProxySafe
    BY <1>1, <2>1, StillSafe
  <2> QED BY <2>1, <2>2, QuietSafe
<1> QED
  BY <1>2, <1>3, <1>4, <1>5, <1>6, <1>7, <1>8, <1>9, <1>10, <1>11, <1>12, <1>13, <1>14,
     <1>15 DEF Next

-----------------------------------------------------------------------------

LEMMA Invariance == Spec => []IInv
<1> QED BY InitHolds, NextHolds, PTL DEF Spec

\* Every variable keeps its type, the launcher its slots, and it only notifies
\* of what is done.
THEOREM Typing == Spec => []TypeOK
<1>1. IInv => TypeOK
  BY DEF IInv
<1> QED BY <1>1, Invariance, PTL

\* No result that the launcher took on disappears without a reason: it is
\* listed, on its way, handled, or lost in one of the ways lost names.
THEOREM ResultsKept == Spec => []Kept
<1>1. IInv => Kept
  BY DEF IInv
<1> QED BY <1>1, Invariance, PTL

-----------------------------------------------------------------------------
(* How often a result is handled.  What is handled and what waits to be    *)
(* were accepted: NotInvented is not inductive without the latter.         *)

Copies(r) == Times(packets, r) + Times(backup, r) + Times(wire, r) + Times(serving, r)
Spent     == \A r \in Results : handled[r] + Copies(r) <= accepted[r]

LEMMA CopiesTyped ==
    ASSUME ProxyTyped, SocketTyped, NEW r
    PROVE  /\ Times(packets, r) \in Nat /\ Times(backup, r) \in Nat
           /\ Times(wire, r) \in Nat /\ Times(serving, r) \in Nat
<1> QED BY TimesType DEF ProxyTyped, SocketTyped

LEMMA CopiesTypedNext ==
    ASSUME ProxyTyped', SocketTyped', NEW r
    PROVE  /\ Times(packets', r) \in Nat /\ Times(backup', r) \in Nat
           /\ Times(wire', r) \in Nat /\ Times(serving', r) \in Nat
<1> QED BY TimesType DEF ProxyTyped, SocketTyped

\* A sequence of its own, none of which is copied, and nothing joins it.
LEMMA FewerCopies ==
    ASSUME ProxyTyped, SocketTyped, ProxyTyped', SocketTyped', NEW r,
           Times(packets', r) + Times(backup', r) <= Times(packets, r) + Times(backup, r),
           Times(wire', r) + Times(serving', r) <= Times(wire, r) + Times(serving, r)
    PROVE  Copies(r)' <= Copies(r)
<1> QED BY CopiesTyped, CopiesTypedNext DEF Copies

LEMMA WriteCopies ==
    ASSUME ProxyTyped, SocketTyped, NEW g \in Frames, NEW r, Write(g)
    PROVE  Times(wire', r) <= Times(wire, r) + One(g, r)
<1>1. CASE Linked
  <2>1. wire' = Append(wire, g) /\ wire \in Seq(Frames)
    BY <1>1 DEF Write, SocketTyped
  <2> QED BY <2>1, TimesOfAppend
<1>2. CASE ~Linked
  <2>1. wire' = wire
    BY <1>2 DEF Write
  <2> QED BY <2>1, CopiesTyped DEF One
<1> QED BY <1>1, <1>2

\* A packet that is sent leaves the buffer.
LEMMA SendCopies ==
    ASSUME ProxyTyped, SocketTyped, ProxyTyped', SocketTyped', NEW r, Send
    PROVE  Copies(r)' <= Copies(r)
<1>1. /\ packets # <<>> /\ Write(Head(packets)) /\ packets' = Tail(packets)
      /\ backup' = backup /\ serving' = serving /\ packets \in Seq(Results)
  BY DEF Send, ProxyTyped
<1>2. /\ Len(packets) \in Nat \ {0} /\ 1 \in 1..Len(packets) /\ Head(packets) = packets[1]
      /\ packets[1] \in Results
  BY <1>1, EmptySeq
<1>3. Tail(packets) = SubSeq(packets, 2, Len(packets)) /\ 1 + 1 = 2
  BY <1>1, TailIsSubSeq
<1>4. Times(packets', r) + One(packets[1], r) <= Times(packets, r)
  BY <1>1, <1>2, <1>3, TimesOfRest
<1>5. Times(wire', r) <= Times(wire, r) + One(packets[1], r)
  BY <1>1, <1>2, FramesHold, WriteCopies
<1>6. One(packets[1], r) \in Nat
  BY DEF One
<1>7. Times(backup', r) = Times(backup, r) /\ Times(serving', r) = Times(serving, r)
  BY <1>1
<1> QED BY <1>4, <1>5, <1>6, <1>7, CopiesTyped, CopiesTypedNext DEF Copies

LEMMA ForwardCopies ==
    ASSUME ProxyTyped, SocketTyped, ProxyTyped', SocketTyped', NEW r \in Results,
           NEW c \in Calls, Forward(c)
    PROVE  Copies(r)' <= Copies(r)
<1>1. Write(c) /\ UNCHANGED <<packets, backup, serving>>
  BY DEF Forward
<1>2. One(c, r) = 0
  BY ProxyAssumption DEF One
<1>3. Times(wire', r) <= Times(wire, r) + One(c, r)
  BY <1>1, FramesHold, WriteCopies
<1>4. /\ Times(packets', r) = Times(packets, r) /\ Times(backup', r) = Times(backup, r)
      /\ Times(serving', r) = Times(serving, r)
  BY <1>1
<1> QED BY <1>2, <1>3, <1>4, CopiesTyped, CopiesTypedNext, FewerCopies

\* Of the frames that are read together, the first is served.
LEMMA ReadCopies ==
    ASSUME ProxyTyped, SocketTyped, ProxyTyped', SocketTyped', NEW r,
           NEW n \in 1..Len(wire), NEW part \in BOOLEAN, Read(n, part)
    PROVE  Copies(r)' <= Copies(r)
<1> DEFINE gone == IF part THEN n + 1 ELSE n
<1>1. /\ wire' = SubSeq(wire, gone + 1, Len(wire)) /\ serving' = Append(serving, wire[1])
      /\ UNCHANGED <<packets, backup>>
  BY DEF Read
<1>2. gone \in 1..Len(wire) /\ wire \in Seq(Frames) /\ serving \in Seq(Frames)
  BY DEF Read, SocketTyped
<1> HIDE DEF gone
<1>3. wire[1] \in Frames /\ Times(wire', r) + One(wire[1], r) <= Times(wire, r)
  BY <1>1, <1>2, TimesOfRest
<1>4. Times(serving', r) <= Times(serving, r) + One(wire[1], r)
  BY <1>1, <1>2, <1>3, TimesOfAppend
<1>5. One(wire[1], r) \in Nat
  BY DEF One
<1>6. Times(packets', r) = Times(packets, r) /\ Times(backup', r) = Times(backup, r)
  BY <1>1
<1> QED BY <1>3, <1>4, <1>5, <1>6, CopiesTyped, CopiesTypedNext, FewerCopies

LEMMA SwallowCopies ==
    ASSUME ProxyTyped, SocketTyped, ProxyTyped', SocketTyped', NEW r, Swallow
    PROVE  Copies(r)' <= Copies(r)
<1>1. wire' = <<>> /\ UNCHANGED <<packets, backup, serving>>
  BY DEF Swallow
<1>2. /\ Times(wire', r) = 0 /\ Times(packets', r) = Times(packets, r)
      /\ Times(backup', r) = Times(backup, r) /\ Times(serving', r) = Times(serving, r)
  BY <1>1, TimesOfEmpty
<1> QED BY <1>2, CopiesTyped, CopiesTypedNext, FewerCopies

\* A frame leaves those that are served, once.
LEMMA ServedCopies ==
    ASSUME ProxyTyped, SocketTyped, ProxyTyped', SocketTyped', NEW r,
           NEW n \in 1..Len(serving), serving' = RemoveAt(serving, n),
           UNCHANGED <<packets, backup, wire>>
    PROVE  Copies(r)' + One(serving[n], r) <= Copies(r)
<1>1. Times(serving', r) + One(serving[n], r) <= Times(serving, r)
  BY TimesOfRemove DEF SocketTyped
<1>2. /\ Times(packets', r) = Times(packets, r) /\ Times(backup', r) = Times(backup, r)
      /\ Times(wire', r) = Times(wire, r)
  OBVIOUS
<1>3. One(serving[n], r) \in Nat
  BY DEF One
<1> QED BY <1>1, <1>2, <1>3, CopiesTyped, CopiesTypedNext DEF Copies

LEMMA StopCopies ==
    ASSUME ProxyTyped, SocketTyped, ProxyTyped', SocketTyped', NEW r, CleanUp \/ Crash
    PROVE  Copies(r)' <= Copies(r)
<1>1. /\ packets' = <<>> /\ wire' = <<>> /\ serving' = <<>>
      /\ backup' = backup \/ backup' = packets
  BY DEF CleanUp, Crash, Halt
<1>2. Times(packets', r) = 0 /\ Times(wire', r) = 0 /\ Times(serving', r) = 0
  BY <1>1, TimesOfEmpty
<1>3. Times(backup', r) <= Times(packets, r) + Times(backup, r)
  <2>1. CASE backup' = backup
    BY <2>1, CopiesTyped
  <2>2. CASE backup' = packets
    BY <2>2, CopiesTyped
  <2> QED BY <1>1, <2>1, <2>2
<1> QED BY <1>2, <1>3, CopiesTyped, CopiesTypedNext, FewerCopies

LEMMA StartCopies ==
    ASSUME ProxyTyped, SocketTyped, ProxyTyped', SocketTyped', NEW r, Start \/ StartEmitting
    PROVE  Copies(r)' <= Copies(r)
<1>1. UNCHANGED <<wire, serving>>
  BY DEF Start, StartEmitting, socketVars
<1>2. Times(packets', r) + Times(backup', r) <= Times(packets, r) + Times(backup, r)
  <2>1. CASE Start
    <3>1. UNCHANGED <<packets, backup>>
      BY <2>1 DEF Start
    <3> QED BY <3>1, CopiesTyped
  <2>2. CASE StartEmitting
    <3>1. packets' = packets \o backup /\ backup' = <<>>
      BY <2>2 DEF StartEmitting
    <3>2. Times(packets \o backup, r) <= Times(packets, r) + Times(backup, r)
      BY TimesOfConcat DEF ProxyTyped
    <3>3. Times(backup', r) = 0
      BY <3>1, TimesOfEmpty
    <3> QED BY <3>1, <3>2, <3>3, CopiesTyped, CopiesTypedNext
  <2> QED BY <2>1, <2>2
<1>3. Times(wire', r) = Times(wire, r) /\ Times(serving', r) = Times(serving, r)
  BY <1>1
<1> QED BY <1>2, <1>3, CopiesTyped, CopiesTypedNext, FewerCopies

LEMMA StillCopies ==
    ASSUME NEW r, UNCHANGED <<packets, backup, wire, serving>>
    PROVE  Copies(r)' = Copies(r)
<1> QED BY DEF Copies

\* The launcher's results come with their count, the answers of methods go with
\* theirs, and no other step makes a copy.
LEMMA SpentNext ==
    ASSUME TypeOK, TypeOK', OrdersKnown, Spent, [Next]_vars
    PROVE  Spent'
<1>1. ListTyped /\ ProxyTyped /\ SocketTyped /\ CountsTyped
  BY TypeParts
<1>2. ProxyTyped' /\ SocketTyped' /\ CountsTyped'
  BY DEF TypeOK, ProxyTyped, SocketTyped, CountsTyped
<1> SUFFICES ASSUME NEW r \in Results PROVE (handled[r] + Copies(r) <= accepted[r])'
  BY DEF Spent
<1>3. /\ handled[r] \in Nat /\ accepted[r] \in Nat /\ handled'[r] \in Nat
      /\ accepted'[r] \in Nat
  BY <1>1, <1>2 DEF CountsTyped
<1>4. Copies(r) \in Nat /\ Copies(r)' \in Nat
  BY <1>1, <1>2, CopiesTyped, CopiesTypedNext DEF Copies
<1>5. handled[r] + Copies(r) <= accepted[r]
  BY DEF Spent
<1>6. ASSUME UNCHANGED histories, Copies(r)' <= Copies(r)
      PROVE  (handled[r] + Copies(r) <= accepted[r])'
  BY <1>3, <1>4, <1>5, <1>6 DEF histories
<1>7. ASSUME UNCHANGED <<packets, backup, wire, serving>>, UNCHANGED histories
      PROVE  (handled[r] + Copies(r) <= accepted[r])'
  BY <1>4, <1>6, <1>7, StillCopies
<1>8. ASSUME NEW g \in Results, Accept(g), handled' = handled
      PROVE  (handled[r] + Copies(r) <= accepted[r])'
  <2>1. /\ packets' = Append(packets, g) /\ UNCHANGED <<backup, wire, serving>>
        /\ accepted' = [accepted EXCEPT ![g] = @ + 1]
    BY <1>8 DEF Accept, Buffer, socketVars
  <2>2. Times(packets', r) <= Times(packets, r) + One(g, r)
    BY <1>1, <2>1, TimesOfAppend DEF ProxyTyped
  <2>3. /\ Times(backup', r) = Times(backup, r) /\ Times(wire', r) = Times(wire, r)
        /\ Times(serving', r) = Times(serving, r)
    BY <2>1
  <2>4. One(g, r) \in Nat /\ accepted'[r] = accepted[r] + One(g, r)
    BY <1>1, <1>3, <2>1 DEF CountsTyped, One
  <2>5. Copies(r)' <= Copies(r) + One(g, r)
    BY <1>1, <1>2, <2>2, <2>3, <2>4, CopiesTyped, CopiesTypedNext DEF Copies
  <2> QED BY <1>3, <1>4, <1>5, <1>8, <2>4, <2>5
<1>9. CASE \E c \in Cohs : Order(c)
  BY <1>7, <1>9 DEF Order, proxyVars, proxyState, socketVars
<1>10. CASE \E c \in Cohs : Notify(c) \/ AnswerLost(c)
  <2>1. PICK c \in DOMAIN processArr : Accept(ResultOf(c)) /\ handled' = handled
    BY <1>10 DEF Notify, AnswerLost
  <2>2. ResultOf(c) \in Results
    BY <1>1, ResultKnown
  <2> QED BY <1>8, <2>1, <2>2
<1>11. CASE \E c \in Cohs : NotifyFails(c)
  BY <1>7, <1>11 DEF NotifyFails, proxyVars, proxyState, socketVars
<1>12. CASE LauncherStep \/ LauncherRestart
  BY <1>7, <1>12 DEF LauncherStep, LauncherRestart, proxyVars, proxyState, socketVars
<1>13. CASE \E c \in Calls : Call(c) \/ GiveUpCall(c)
  <2>1. PICK c \in Calls : Call(c) \/ GiveUpCall(c)
    BY <1>13
  <2>2. CASE Call(c)
    <3>1. Forward(c) /\ UNCHANGED histories
      BY <2>2 DEF Call
    <3> QED BY <1>1, <1>2, <1>6, <3>1, ForwardCopies
  <2>3. CASE GiveUpCall(c)
    BY <1>7, <2>3 DEF GiveUpCall, Abandon, socketVars
  <2> QED BY <2>1, <2>2, <2>3
<1>14. CASE SendResult
  <2>1. Send /\ UNCHANGED histories
    BY <1>14 DEF SendResult
  <2> QED BY <1>1, <1>2, <1>6, <2>1, SendCopies
<1>15. CASE Receive
  <2>1. UNCHANGED histories
    BY <1>15 DEF Receive
  <2>2. Copies(r)' <= Copies(r)
    BY <1>1, <1>2, <1>15, ReadCopies, SwallowCopies DEF Receive
  <2> QED BY <1>6, <2>1, <2>2
<1>16. CASE \E n \in 1..Len(serving) : Serve(n)
  <2>1. PICK n \in 1..Len(serving) : Serve(n)
    BY <1>16
  <2>2. Respond(n) /\ UNCHANGED accepted
    BY <2>1 DEF Serve
  <2>3. Copies(r)' + One(serving[n], r) <= Copies(r)
    BY <1>1, <1>2, <2>2, ServedCopies DEF Respond
  <2>4. handled'[r] = handled[r] + One(serving[n], r) /\ One(serving[n], r) \in Nat
    <3>1. IF serving[n] \in Results
          THEN handled' = [handled EXCEPT ![serving[n]] = @ + 1] ELSE handled' = handled
      BY <2>1 DEF Serve
    <3>2. handled \in [Results -> Nat]
      BY <1>1 DEF CountsTyped
    <3>3. CASE serving[n] = r
      BY <3>1, <3>2, <3>3 DEF One
    <3>4. CASE serving[n] # r
      BY <1>3, <3>1, <3>2, <3>4 DEF One
    <3> QED BY <3>3, <3>4
  <2> QED BY <1>3, <1>4, <1>5, <2>2, <2>3, <2>4
<1>17. CASE \E n \in 1..Len(serving) : ServeFails(n)
  <2>1. PICK n \in 1..Len(serving) : ServeFails(n)
    BY <1>17
  <2>2. MethodFails(n) /\ UNCHANGED histories
    BY <2>1 DEF ServeFails
  <2>3. Copies(r)' + One(serving[n], r) <= Copies(r)
    BY <1>1, <1>2, <2>2, ServedCopies DEF MethodFails
  <2>4. One(serving[n], r) \in Nat
    BY DEF One
  <2>5. Copies(r)' <= Copies(r)
    BY <1>4, <2>3, <2>4
  <2> QED BY <1>6, <2>2, <2>5
<1>18. CASE \E n \in 1..Len(back) : Answered(n)
  BY <1>7, <1>18 DEF Answered, DataReceived
<1>19. CASE Stop
  <2>1. UNCHANGED histories /\ (CleanUp \/ Crash)
    BY <1>19 DEF Stop
  <2> QED BY <1>1, <1>2, <1>6, <2>1, StopCopies
<1>20. CASE SetUp
  <2>1. UNCHANGED histories /\ (Start \/ StartEmitting)
    BY <1>20 DEF SetUp
  <2> QED BY <1>1, <1>2, <1>6, <2>1, StartCopies
<1>21. CASE UNCHANGED vars
  BY <1>7, <1>21 DEF vars, histories, proxyVars, proxyState, socketVars
<1> QED BY <1>9, <1>10, <1>11, <1>12, <1>13, <1>14, <1>15, <1>16, <1>17, <1>18, <1>19,
           <1>20, <1>21 DEF Next

LEMMA SpentInit == Init => Spent
<1> SUFFICES ASSUME Init, NEW r \in Results PROVE handled[r] + Copies(r) <= accepted[r]
  BY DEF Spent
<1>1. /\ packets = <<>> /\ backup = <<>> /\ wire = <<>> /\ serving = <<>>
      /\ handled[r] = 0 /\ accepted[r] = 0
  BY DEF Init, ProxyInit
<1>2. Copies(r) = 0
  BY <1>1, TimesOfEmpty DEF Copies
<1> QED BY <1>1, <1>2

\* A result is handled no more often than the proxy accepted it: no stop, crash,
\* restored file or frame read in part has a method called once more.
THEOREM NoneInvented == Spec => []NotInvented
<1>1. IInv /\ Spent /\ [Next]_vars => IInv' /\ Spent'
  <2> SUFFICES ASSUME IInv, Spent, [Next]_vars PROVE IInv' /\ Spent'
    OBVIOUS
  <2>1. IInv'
    BY NextHolds
  <2>2. TypeOK /\ TypeOK' /\ OrdersKnown
    BY <2>1 DEF IInv
  <2> QED BY <2>1, <2>2, SpentNext
<1>2. IInv /\ Spent => NotInvented
  <2> SUFFICES ASSUME IInv, Spent, NEW r \in Results PROVE handled[r] <= accepted[r]
    BY DEF NotInvented
  <2>1. ProxyTyped /\ SocketTyped /\ CountsTyped
    BY TypeParts DEF IInv
  <2>2. handled[r] \in Nat /\ accepted[r] \in Nat /\ Copies(r) \in Nat
    BY <2>1, CopiesTyped DEF CountsTyped, Copies
  <2> QED BY <2>2 DEF Spent
<1> QED BY <1>1, <1>2, InitHolds, SpentInit, PTL DEF Spec
=============================================================================
