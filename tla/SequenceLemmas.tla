------------------------------ MODULE SequenceLemmas ------------------------------
(***************************************************************************)
(* What the sequence operators the models use return: elements are lost    *)
(* only where they are removed.                                            *)
(***************************************************************************)
EXTENDS SequencesExt, Integers, SequenceTheorems, FiniteSetTheorems,
        WellFoundedInduction, TLAPS

\* A non-empty set of naturals has a least element: CHOOSE finds the first match.
LEMMA LeastElement ==
    ASSUME NEW I \in SUBSET Nat, I # {}
    PROVE  \E i \in I : \A j \in I : i <= j
<1>1. PICK i \in I : \A j \in I : ~(<<j, i>> \in OpToRel(<, Nat))
  BY NatLessThanWellFounded, WFMin
<1>2. \A j \in I : ~(j < i)
  BY <1>1 DEF OpToRel
<1> QED  BY <1>2

\* Append adds its element and keeps the others.
LEMMA AppendElements ==
    ASSUME NEW S, NEW s \in Seq(S), NEW x \in S
    PROVE  /\ Append(s, x) \in Seq(S)
           /\ ToSet(Append(s, x)) = ToSet(s) \cup {x}
<1>1. /\ Append(s, x) \in Seq(S)
      /\ DOMAIN Append(s, x) = 1..(Len(s) + 1)
      /\ DOMAIN s = 1..Len(s)
      /\ \A i \in 1..Len(s) : Append(s, x)[i] = s[i]
      /\ Append(s, x)[Len(s) + 1] = x
      /\ Len(s) \in Nat
  BY AppendProperties, LenProperties
<1> QED  BY <1>1 DEF ToSet

\* RemoveAt moves what comes after the index one place forward.
LEMMA RemoveAtPlaces ==
    ASSUME NEW S, NEW s \in Seq(S), NEW i \in 1..Len(s)
    PROVE  /\ RemoveAt(s, i) \in Seq(S)
           /\ DOMAIN RemoveAt(s, i) = 1..(Len(s) - 1)
           /\ \A j \in 1..(Len(s) - 1) : RemoveAt(s, i)[j] = IF j < i THEN s[j] ELSE s[j + 1]
<1> DEFINE a == SubSeq(s, 1, i - 1)
           b == SubSeq(s, i + 1, Len(s))
<1>1. /\ Len(s) \in Nat
      /\ DOMAIN s = 1..Len(s)
      /\ \A j \in 1..Len(s) : s[j] \in S
  BY LenProperties, ElementOfSeq
<1>2. /\ a \in Seq(S)
      /\ Len(a) = i - 1
      /\ \A j \in 1..(i - 1) : a[j] = s[j]
  <2>1. \A j \in 1..(i - 1) : s[j] \in S
    BY <1>1
  <2> QED  BY <1>1, <2>1, SubSeqProperties
<1>3. /\ b \in Seq(S)
      /\ Len(b) = Len(s) - i
      /\ \A j \in 1..(Len(s) - i) : b[j] = s[i + j]
  <2>1. \A j \in (i + 1)..Len(s) : s[j] \in S
    BY <1>1
  <2>2. /\ b \in Seq(S)
        /\ Len(b) = IF i + 1 <= Len(s) THEN Len(s) - (i + 1) + 1 ELSE 0
        /\ \A j \in 1..(Len(s) - (i + 1) + 1) : b[j] = s[i + 1 + j - 1]
    BY <1>1, <2>1, SubSeqProperties
  <2> HIDE DEF b
  <2>3. ASSUME NEW j \in 1..(Len(s) - i)
        PROVE  b[j] = s[i + j]
    <3>1. j \in 1..(Len(s) - (i + 1) + 1) /\ i + 1 + j - 1 = i + j
      BY <1>1
    <3> QED  BY <2>2, <3>1
  <2>4. Len(b) = Len(s) - i
    <3>1. Len(b) = IF i + 1 <= Len(s) THEN Len(s) - (i + 1) + 1 ELSE 0
      BY <2>2
    <3>2. Len(s) \in Nat /\ i \in Int /\ i <= Len(s)
      BY <1>1
    <3> QED  BY <3>1, <3>2
  <2> QED  BY <2>2, <2>3, <2>4
<1>4. /\ a \o b \in Seq(S)
      /\ DOMAIN (a \o b) = 1..(Len(s) - 1)
      /\ \A j \in 1..(Len(s) - 1) : (a \o b)[j] = IF j <= i - 1 THEN a[j] ELSE b[j - (i - 1)]
  <2> HIDE DEF a, b
  <2>1. Len(a) + Len(b) = Len(s) - 1
    BY <1>1, <1>2, <1>3
  <2>2. /\ a \o b \in Seq(S)
        /\ Len(a \o b) = Len(a) + Len(b)
        /\ \A j \in 1..(Len(a) + Len(b)) : (a \o b)[j] = IF j <= Len(a) THEN a[j] ELSE b[j - Len(a)]
    BY <1>2, <1>3, ConcatProperties
  <2> QED  BY <1>1, <1>2, <2>1, <2>2, LenProperties
<1>5. ASSUME NEW j \in 1..(Len(s) - 1)
      PROVE  (a \o b)[j] = IF j < i THEN s[j] ELSE s[j + 1]
  <2> HIDE DEF a, b
  <2>1. CASE j < i
    <3>1. j \in 1..(i - 1) /\ j <= i - 1
      BY <1>1, <2>1
    <3> QED  BY <1>2, <1>4, <2>1, <3>1
  <2>2. CASE ~(j < i)
    <3>1. ~(j <= i - 1) /\ j - (i - 1) \in 1..(Len(s) - i) /\ i + (j - (i - 1)) = j + 1
      BY <1>1, <2>2
    <3>2. (a \o b)[j] = b[j - (i - 1)]
      BY <1>4, <3>1
    <3>3. b[j - (i - 1)] = s[i + (j - (i - 1))]
      BY <1>3, <3>1
    <3> QED  BY <2>2, <3>1, <3>2, <3>3
  <2> QED  BY <2>1, <2>2
<1> HIDE DEF a, b
<1>6. RemoveAt(s, i) = a \o b
  BY DEF RemoveAt, a, b
<1> QED  BY <1>4, <1>5, <1>6

\* RemoveAt loses at most the element at the index.
LEMMA RemoveAtElements ==
    ASSUME NEW S, NEW s \in Seq(S), NEW i \in 1..Len(s)
    PROVE  /\ RemoveAt(s, i) \in Seq(S)
           /\ \A x \in ToSet(s) : x # s[i] => x \in ToSet(RemoveAt(s, i))
<1> DEFINE q == RemoveAt(s, i)
<1>1. /\ q \in Seq(S) /\ DOMAIN q = 1..(Len(s) - 1)
      /\ \A j \in 1..(Len(s) - 1) : q[j] = IF j < i THEN s[j] ELSE s[j + 1]
  BY RemoveAtPlaces
<1> HIDE DEF q
<1>2. Len(s) \in Nat /\ DOMAIN s = 1..Len(s)
  BY LenProperties
<1>3. ASSUME NEW j \in 1..Len(s), j # i PROVE \E k \in DOMAIN q : q[k] = s[j]
  <2>1. CASE j < i
    <3>1. j \in 1..(Len(s) - 1)
      BY <1>2, <2>1
    <3> QED  BY <1>1, <2>1, <3>1
  <2>2. CASE j > i
    <3>1. j - 1 \in 1..(Len(s) - 1) /\ ~(j - 1 < i) /\ (j - 1) + 1 = j
      BY <1>2, <2>2
    <3>2. q[j - 1] = s[(j - 1) + 1]
      BY <1>1, <3>1
    <3> QED  BY <1>1, <3>1, <3>2
  <2>3. j < i \/ j > i
    BY <1>2, <1>3
  <2> QED  BY <2>1, <2>2, <2>3
<1>4. ASSUME NEW x \in ToSet(s), x # s[i] PROVE x \in ToSet(q)
  <2>1. PICK j \in 1..Len(s) : s[j] = x
    BY <1>2 DEF ToSet
  <2> QED  BY <1>3, <1>4, <2>1 DEF ToSet
<1> QED  BY <1>1, <1>4 DEF q

\* A sequence that holds no element twice.
Distinct(s) == \A i, j \in DOMAIN s : s[i] = s[j] => i = j

\* Removing an element of such a sequence removes it altogether.
LEMMA RemoveAtDistinct ==
    ASSUME NEW S, NEW s \in Seq(S), Distinct(s), NEW i \in 1..Len(s)
    PROVE  /\ Distinct(RemoveAt(s, i))
           /\ ToSet(RemoveAt(s, i)) = ToSet(s) \ {s[i]}
<1> DEFINE q == RemoveAt(s, i)
           to(j) == IF j < i THEN j ELSE j + 1
<1>1. /\ DOMAIN q = 1..(Len(s) - 1)
      /\ \A j \in 1..(Len(s) - 1) : q[j] = IF j < i THEN s[j] ELSE s[j + 1]
  BY RemoveAtPlaces
<1>2. Len(s) \in Nat /\ DOMAIN s = 1..Len(s)
  BY LenProperties
<1>3. \A x \in ToSet(s) : x # s[i] => x \in ToSet(q)
  BY RemoveAtElements
<1> HIDE DEF q
<1>4. \A j \in DOMAIN q : to(j) \in 1..Len(s) /\ to(j) # i /\ q[j] = s[to(j)]
  <2> TAKE j \in DOMAIN q
  <2>1. j \in 1..(Len(s) - 1)
    BY <1>1
  <2>2. q[j] = s[to(j)]
    BY <1>1, <2>1
  <2>3. to(j) \in 1..Len(s) /\ to(j) # i
    BY <1>2, <2>1
  <2> QED  BY <2>2, <2>3
<1>5. \A j, k \in DOMAIN q : to(j) = to(k) => j = k
  BY <1>1, <1>2
<1> HIDE DEF to
<1>6. Distinct(q)
  BY <1>2, <1>4, <1>5 DEF Distinct
<1>7. ASSUME NEW x \in ToSet(q) PROVE x \in ToSet(s) \ {s[i]}
  <2>1. PICK j \in DOMAIN q : q[j] = x
    BY DEF ToSet
  <2> QED  BY <1>2, <1>4, <2>1 DEF Distinct, ToSet
<1> QED  BY <1>3, <1>6, <1>7 DEF q

\* Adding a new element.
LEMMA AppendDistinct ==
    ASSUME NEW S, NEW s \in Seq(S), Distinct(s), NEW x \in S, x \notin ToSet(s)
    PROVE  Distinct(Append(s, x))
<1>1. /\ DOMAIN Append(s, x) = 1..(Len(s) + 1) /\ DOMAIN s = 1..Len(s) /\ Len(s) \in Nat
      /\ \A i \in 1..Len(s) : Append(s, x)[i] = s[i]
      /\ Append(s, x)[Len(s) + 1] = x
  BY AppendProperties, LenProperties
<1>2. \A i \in 1..(Len(s) + 1) : i \in 1..Len(s) \/ i = Len(s) + 1
  BY <1>1
<1>3. \A i \in 1..Len(s) : s[i] # x
  BY <1>1 DEF ToSet
<1> QED  BY <1>1, <1>2, <1>3 DEF Distinct

\* Front and Tail return elements of the sequence.
LEMMA FrontTailType ==
    ASSUME NEW S, NEW s \in Seq(S)
    PROVE  Front(s) \in Seq(S) /\ (s # <<>> => Tail(s) \in Seq(S))
<1>1. Len(s) \in Nat /\ \A i \in 1..Len(s) : s[i] \in S
  BY LenProperties, ElementOfSeq
<1>2. \A i \in 1..(Len(s) - 1) : s[i] \in S
  BY <1>1
<1>3. SubSeq(s, 1, Len(s) - 1) \in Seq(S)
  BY <1>1, <1>2, SubSeqProperties
<1> QED  BY <1>3, HeadTailProperties DEF Front

\* RemoveFirst loses no other element.
LEMMA RemoveFirstElements ==
    ASSUME NEW S, NEW s \in Seq(S), NEW e
    PROVE  /\ RemoveFirst(s, e) \in Seq(S)
           /\ \A x \in ToSet(s) : x # e => x \in ToSet(RemoveFirst(s, e))
           /\ Distinct(s) => /\ Distinct(RemoveFirst(s, e))
                            /\ ToSet(RemoveFirst(s, e)) = ToSet(s) \ {e}
<1>1. CASE ~\E i \in 1..Len(s) : s[i] = e
  BY <1>1, LenProperties DEF RemoveFirst, ToSet
<1>2. CASE \E i \in 1..Len(s) : s[i] = e
  <2> DEFINE I == {i \in 1..Len(s) : s[i] = e}
             m == Min(I)
  <2>1. I \in SUBSET Nat /\ I # {}
    BY <1>2, LenProperties
  <2>2. m \in I
    BY <2>1, LeastElement DEF Min
  <2>3. SelectInSeq(s, LAMBDA v : v = e) = m
    BY <2>1 DEF SelectInSeq
  <2>4. RemoveFirst(s, e) = RemoveAt(s, m)
    BY <1>2, <2>3 DEF RemoveFirst
  <2> HIDE DEF m
  <2> QED  BY <2>2, <2>4, RemoveAtElements, RemoveAtDistinct
<1> QED  BY <1>1, <1>2

\* The orders of a finite set hold its elements and nothing else.
LEMMA OrdersOfSet ==
    ASSUME NEW S, IsFiniteSet(S), NEW q \in SetToSeqs(S)
    PROVE  q \in Seq(S) /\ ToSet(q) = S /\ Distinct(q)
<1> DEFINE n == Cardinality(S)
<1>1. n \in Nat
  BY FS_CardinalityType
<1>2. q \in Injection(1..n, S)
  BY DEF SetToSeqs, Injection, IsInjective
<1>3. Cardinality(1..n) = n
  BY <1>1, FS_Interval
<1>4. q \in Surjection(1..n, S)
  BY <1>1, <1>2, <1>3, FS_Injection
<1>5. q \in [1..n -> S]
  BY <1>2 DEF Injection
<1>6. Distinct(q)
  BY <1>5 DEF SetToSeqs, Distinct
<1> QED  BY <1>1, <1>4, <1>5, <1>6 DEF Surjection, ToSet

\* A concatenation has the elements of both sequences.
LEMMA ConcatElements ==
    ASSUME NEW S, NEW s \in Seq(S), NEW t \in Seq(S)
    PROVE  /\ s \o t \in Seq(S)
           /\ ToSet(s \o t) = ToSet(s) \cup ToSet(t)
<1>1. /\ s \o t \in Seq(S)
      /\ DOMAIN (s \o t) = 1..(Len(s) + Len(t))
      /\ \A i \in 1..(Len(s) + Len(t)) : (s \o t)[i] = IF i <= Len(s) THEN s[i] ELSE t[i - Len(s)]
      /\ DOMAIN s = 1..Len(s) /\ DOMAIN t = 1..Len(t)
      /\ Len(s) \in Nat /\ Len(t) \in Nat
  BY ConcatProperties, LenProperties
<1>2. \A i \in 1..Len(s) : i \in 1..(Len(s) + Len(t)) /\ (s \o t)[i] = s[i]
  BY <1>1
<1>3. ASSUME NEW i \in 1..Len(t)
      PROVE  Len(s) + i \in 1..(Len(s) + Len(t)) /\ (s \o t)[Len(s) + i] = t[i]
  <2>1. Len(s) + i \in 1..(Len(s) + Len(t)) /\ ~(Len(s) + i <= Len(s)) /\ Len(s) + i - Len(s) = i
    BY <1>1
  <2> QED  BY <1>1, <2>1
<1>4. ASSUME NEW i \in 1..(Len(s) + Len(t))
      PROVE  (s \o t)[i] \in ToSet(s) \cup ToSet(t)
  <2>1. CASE i <= Len(s)
    BY <1>1, <2>1 DEF ToSet
  <2>2. CASE ~(i <= Len(s))
    <3>1. i - Len(s) \in 1..Len(t)
      BY <1>1, <2>2
    <3> QED  BY <1>1, <2>2, <3>1 DEF ToSet
  <2> QED  BY <2>1, <2>2
<1>5. ToSet(s) \subseteq ToSet(s \o t)
  BY <1>1, <1>2 DEF ToSet
<1>6. ToSet(t) \subseteq ToSet(s \o t)
  <2> SUFFICES ASSUME NEW i \in 1..Len(t) PROVE t[i] \in ToSet(s \o t)
    BY <1>1 DEF ToSet
  <2> QED  BY <1>1, <1>3 DEF ToSet
<1>7. ToSet(s \o t) \subseteq ToSet(s) \cup ToSet(t)
  <2> SUFFICES ASSUME NEW x \in ToSet(s \o t) PROVE x \in ToSet(s) \cup ToSet(t)
    OBVIOUS
  <2>1. PICK i \in 1..(Len(s) + Len(t)) : x = (s \o t)[i]
    BY <1>1 DEF ToSet
  <2> QED  BY <1>4, <2>1
<1> QED  BY <1>1, <1>5, <1>6, <1>7

\* A concatenation has the first sequence in its place, and the second behind it.
LEMMA ConcatPlaces ==
    ASSUME NEW S, NEW s \in Seq(S), NEW t \in Seq(S)
    PROVE  /\ \A i \in DOMAIN s : i \in DOMAIN (s \o t) /\ (s \o t)[i] = s[i]
           /\ \A i \in DOMAIN (s \o t) :
                \/ i \in DOMAIN s /\ (s \o t)[i] = s[i]
                \/ i \in Nat /\ i > Len(s) /\ (s \o t)[i] \in ToSet(t)
           /\ \A i \in DOMAIN t :
                /\ Len(s) + i \in DOMAIN (s \o t) /\ (s \o t)[Len(s) + i] = t[i]
                /\ \A j \in DOMAIN s : Len(s) + i > j
           /\ DOMAIN s = 1..Len(s) /\ Len(s) \in Nat
<1>1. /\ DOMAIN (s \o t) = 1..(Len(s) + Len(t))
      /\ \A i \in 1..(Len(s) + Len(t)) : (s \o t)[i] = IF i <= Len(s) THEN s[i] ELSE t[i - Len(s)]
      /\ DOMAIN s = 1..Len(s) /\ DOMAIN t = 1..Len(t)
      /\ Len(s) \in Nat /\ Len(t) \in Nat
  BY ConcatProperties, LenProperties
<1>2. \A i \in 1..Len(s) : i \in 1..(Len(s) + Len(t)) /\ (s \o t)[i] = s[i]
  BY <1>1
<1>3. ASSUME NEW i \in 1..Len(t)
      PROVE  /\ Len(s) + i \in 1..(Len(s) + Len(t)) /\ (s \o t)[Len(s) + i] = t[i]
             /\ \A j \in 1..Len(s) : Len(s) + i > j
  <2>1. Len(s) + i \in 1..(Len(s) + Len(t)) /\ ~(Len(s) + i <= Len(s)) /\ Len(s) + i - Len(s) = i
    BY <1>1
  <2> QED  BY <1>1, <2>1
<1>4. ASSUME NEW i \in 1..(Len(s) + Len(t)), i \notin 1..Len(s)
      PROVE  i > Len(s) /\ (s \o t)[i] \in ToSet(t)
  <2>1. i - Len(s) \in 1..Len(t) /\ ~(i <= Len(s))
    BY <1>1, <1>4
  <2>2. (s \o t)[i] = t[i - Len(s)]
    BY <1>1, <2>1
  <2> QED  BY <1>1, <2>1, <2>2 DEF ToSet
<1> QED  BY <1>1, <1>2, <1>3, <1>4

\* The elements of a sequence are its head and those of its tail.
LEMMA HeadTailElements ==
    ASSUME NEW S, NEW s \in Seq(S), s # <<>>
    PROVE  /\ Head(s) \in S /\ Tail(s) \in Seq(S)
           /\ Len(Tail(s)) = Len(s) - 1
           /\ Head(s) = s[1] /\ \A i \in 1..Len(Tail(s)) : Tail(s)[i] = s[i + 1]
           /\ ToSet(s) = {Head(s)} \cup ToSet(Tail(s))
<1>1. /\ Head(s) \in S /\ Tail(s) \in Seq(S)
      /\ Len(Tail(s)) = Len(s) - 1
      /\ Head(s) = s[1] /\ \A i \in 1..Len(Tail(s)) : Tail(s)[i] = s[i + 1]
      /\ DOMAIN s = 1..Len(s) /\ DOMAIN Tail(s) = 1..Len(Tail(s))
      /\ Len(s) \in Nat /\ Len(s) > 0
  BY HeadTailProperties, LenProperties, EmptySeq
<1>2. ASSUME NEW x \in ToSet(s) PROVE x \in {Head(s)} \cup ToSet(Tail(s))
  <2>1. PICK i \in 1..Len(s) : x = s[i]
    BY <1>1 DEF ToSet
  <2>2. CASE i = 1
    BY <1>1, <2>1, <2>2
  <2>3. CASE i # 1
    <3>1. i - 1 \in 1..Len(Tail(s)) /\ (i - 1) + 1 = i
      BY <1>1, <2>3
    <3>2. Tail(s)[i - 1] = s[i]
      BY <1>1, <3>1
    <3> QED  BY <1>1, <2>1, <3>1, <3>2 DEF ToSet
  <2> QED  BY <2>2, <2>3
<1>3. ASSUME NEW x \in {Head(s)} \cup ToSet(Tail(s)) PROVE x \in ToSet(s)
  <2>1. CASE x = Head(s)
    BY <1>1, <2>1 DEF ToSet
  <2>2. CASE x \in ToSet(Tail(s))
    <3>1. PICK i \in 1..Len(Tail(s)) : x = Tail(s)[i]
      BY <1>1, <2>2 DEF ToSet
    <3>2. i + 1 \in 1..Len(s) /\ x = s[i + 1]
      BY <1>1, <3>1
    <3> QED  BY <1>1, <3>2 DEF ToSet
  <2> QED  BY <2>1, <2>2
<1> QED  BY <1>1, <1>2, <1>3

\* A sequence that is cut has its elements in the two parts.
LEMMA CutElements ==
    ASSUME NEW S, NEW s \in Seq(S), NEW n \in 0..Len(s)
    PROVE  /\ SubSeq(s, 1, n) \in Seq(S) /\ SubSeq(s, n + 1, Len(s)) \in Seq(S)
           /\ Len(SubSeq(s, 1, n)) = n /\ Len(SubSeq(s, n + 1, Len(s))) = Len(s) - n
           /\ ToSet(SubSeq(s, 1, n)) \subseteq ToSet(s)
           /\ ToSet(SubSeq(s, n + 1, Len(s))) \subseteq ToSet(s)
<1> DEFINE a == SubSeq(s, 1, n)
           b == SubSeq(s, n + 1, Len(s))
<1>1. /\ Len(s) \in Nat /\ n \in Int
      /\ DOMAIN s = 1..Len(s)
      /\ \A i \in 1..Len(s) : s[i] \in S
  BY LenProperties, ElementOfSeq
<1>2. /\ a \in Seq(S) /\ Len(a) = n
      /\ \A i \in 1..n : a[i] = s[i]
  <2>1. \A i \in 1..n : s[i] \in S
    BY <1>1
  <2>2. /\ a \in Seq(S) /\ Len(a) = IF 1 <= n THEN n - 1 + 1 ELSE 0
        /\ \A i \in 1..(n - 1 + 1) : a[i] = s[1 + i - 1]
    BY <1>1, <2>1, SubSeqProperties
  <2> QED  BY <1>1, <2>2
<1>3. /\ b \in Seq(S) /\ Len(b) = Len(s) - n
      /\ \A i \in 1..Len(b) : n + i \in 1..Len(s) /\ b[i] = s[n + i]
  <2>1. \A i \in (n + 1)..Len(s) : s[i] \in S
    BY <1>1
  <2>2. /\ b \in Seq(S)
        /\ Len(b) = IF n + 1 <= Len(s) THEN Len(s) - (n + 1) + 1 ELSE 0
        /\ \A i \in 1..(Len(s) - (n + 1) + 1) : b[i] = s[n + 1 + i - 1]
    BY <1>1, <2>1, SubSeqProperties
  <2> HIDE DEF b
  <2>3. Len(b) = Len(s) - n
    <3>1. Len(b) = IF n + 1 <= Len(s) THEN Len(s) - (n + 1) + 1 ELSE 0
      BY <2>2
    <3>2. Len(s) \in Nat /\ n \in Int /\ n <= Len(s)
      BY <1>1
    <3> QED  BY <3>1, <3>2
  <2>4. ASSUME NEW i \in 1..Len(b) PROVE n + i \in 1..Len(s) /\ b[i] = s[n + i]
    <3>1. i \in 1..(Len(s) - (n + 1) + 1) /\ n + 1 + i - 1 = n + i /\ n + i \in 1..Len(s)
      BY <1>1, <2>3
    <3> QED  BY <2>2, <3>1
  <2> QED  BY <2>2, <2>3, <2>4
<1>4. DOMAIN a = 1..n /\ DOMAIN b = 1..Len(b)
  BY <1>2, <1>3, LenProperties
<1>5. ToSet(a) \subseteq ToSet(s)
  <2> SUFFICES ASSUME NEW i \in 1..n PROVE a[i] \in ToSet(s)
    BY <1>4 DEF ToSet
  <2>1. i \in 1..Len(s)
    BY <1>1
  <2> QED  BY <1>1, <1>2, <2>1 DEF ToSet
<1>6. ToSet(b) \subseteq ToSet(s)
  <2> SUFFICES ASSUME NEW i \in 1..Len(b) PROVE b[i] \in ToSet(s)
    BY <1>4 DEF ToSet
  <2> QED  BY <1>1, <1>3 DEF ToSet
<1> QED  BY <1>2, <1>3, <1>5, <1>6

\* Concatenating one sequence after the other, from the left.
Flattens(f, ss, n) == f = [i \in 1..n |-> IF i = 1 THEN ss[i] ELSE f[i-1] \o ss[i]]

\* Two sequences begin with the same n elements.
SameFirst(s, t, n) == \A i \in 1..n : s[i] = t[i]

\* It can be done.
LEMMA FlattensExists ==
    ASSUME NEW ss, NEW n \in Nat
    PROVE  \E f : Flattens(f, ss, n)
<1> DEFINE I == {k \in Nat : ~\E f : Flattens(f, ss, k)}
<1>1. SUFFICES ASSUME I # {} PROVE FALSE
  OBVIOUS
<1>2. PICK m \in I : \A k \in I : m <= k
  BY <1>1, LeastElement
<1>3. m # 0
  <2>1. Flattens([i \in 1..0 |-> ss[i]], ss, 0)
    BY DEF Flattens
  <2> QED  BY <1>2, <2>1
<1>4. PICK f : Flattens(f, ss, m - 1)
  <2>1. m - 1 \in Nat /\ ~(m <= m - 1)
    BY <1>3
  <2> QED  BY <1>2, <2>1
<1> DEFINE g == [i \in 1..m |-> IF i = 1 THEN ss[i]
                                ELSE IF i = m THEN f[m-1] \o ss[m] ELSE f[i]]
<1>5. \A i \in 1..(m-1) : g[i] = f[i]
  BY <1>3, <1>4 DEF Flattens
<1>6. Flattens(g, ss, m)
  <2>1. ASSUME NEW i \in 1..m
        PROVE  g[i] = IF i = 1 THEN ss[i] ELSE g[i-1] \o ss[i]
    <3>1. CASE i = 1
      BY <3>1
    <3>2. CASE i # 1 /\ i = m
      <4>1. i - 1 \in 1..(m-1)
        BY <3>2
      <4> QED  BY <1>5, <3>2, <4>1
    <3>3. CASE i # 1 /\ i # m
      <4>1. i - 1 \in 1..(m-1) /\ i \in 1..(m-1)
        BY <3>3
      <4>2. f[i] = f[i-1] \o ss[i]
        BY <1>4, <3>3, <4>1 DEF Flattens
      <4> QED  BY <1>5, <3>3, <4>1, <4>2
    <3> QED  BY <3>1, <3>2, <3>3
  <2>2. g = [i \in 1..m |-> g[i]]
    OBVIOUS
  <2> HIDE DEF g
  <2> QED  BY <2>1, <2>2 DEF Flattens
<1> QED  BY <1>2, <1>6

\* Each result but the first comes from the one before it.
LEMMA FlattensAt ==
    ASSUME NEW ss, NEW n \in Nat, NEW f, Flattens(f, ss, n), NEW i \in 1..n
    PROVE  f[i] = IF i = 1 THEN ss[i] ELSE f[i-1] \o ss[i]
BY DEF Flattens

\* What it yields depends on the sequences that come first.
LEMMA FlattensAgree ==
    ASSUME NEW ss, NEW tt, NEW m \in Nat, NEW n \in 0..m, NEW f, NEW g,
           Flattens(f, ss, n), Flattens(g, tt, m), SameFirst(ss, tt, n)
    PROVE  SameFirst(f, g, n)
<1> DEFINE I == {i \in 1..n : f[i] # g[i]}
<1>1. SUFFICES ASSUME I # {} PROVE FALSE
  BY DEF SameFirst
<1>2. I \in SUBSET Nat
  OBVIOUS
<1>3. PICK k \in I : \A i \in I : k <= i
  BY <1>1, <1>2, LeastElement
<1>4. k \in 1..m /\ k \in 1..n
  BY <1>3
<1>5. /\ f[k] = IF k = 1 THEN ss[k] ELSE f[k-1] \o ss[k]
      /\ g[k] = IF k = 1 THEN tt[k] ELSE g[k-1] \o tt[k]
  BY <1>4 DEF Flattens
<1>6. k # 1
  BY <1>3, <1>4, <1>5 DEF SameFirst
<1>7. k - 1 \in 1..n /\ ~(k <= k - 1)
  BY <1>4, <1>6
<1>8. f[k-1] = g[k-1]
  BY <1>3, <1>7
<1> QED  BY <1>3, <1>4, <1>5, <1>6, <1>8 DEF SameFirst

\* FlattenSeq is its last result.
LEMMA FlattenSeqIs ==
    ASSUME NEW S, NEW ss \in Seq(S)
    PROVE  /\ Len(ss) = 0 => FlattenSeq(ss) = ss
           /\ Len(ss) # 0 => \E f : Flattens(f, ss, Len(ss)) /\ FlattenSeq(ss) = f[Len(ss)]
<1> DEFINE n == Len(ss)
           f == CHOOSE f : Flattens(f, ss, n)
<1>1. n \in Nat
  OBVIOUS
<1>2. Flattens(f, ss, n)
  BY <1>1, FlattensExists
<1>3. n # 0 => FlattenSeq(ss) = f[n]
  BY DEF FlattenSeq, Flattens
<1>4. n = 0 => FlattenSeq(ss) = ss
  BY DEF FlattenSeq
<1> QED  BY <1>2, <1>3, <1>4

\* Sequences of S, one after the other, are a sequence of S; one more comes last.
LEMMA FlattenSeqAppend ==
    ASSUME NEW S, NEW ss \in Seq(Seq(S)), NEW x \in Seq(S), FlattenSeq(ss) \in Seq(S)
    PROVE  /\ FlattenSeq(Append(ss, x)) = FlattenSeq(ss) \o x
           /\ FlattenSeq(Append(ss, x)) \in Seq(S)
<1> DEFINE n == Len(ss)
           tt == Append(ss, x)
<1>1. /\ n \in Nat /\ tt \in Seq(Seq(S)) /\ Len(tt) = n + 1
      /\ \A i \in 1..n : ss[i] = tt[i]
      /\ tt[n + 1] = x
  BY AppendProperties, LenProperties
<1> HIDE DEF tt
<1>0. PICK m \in Nat : m = n + 1
  BY <1>1
<1>2. PICK g : Flattens(g, tt, n + 1) /\ FlattenSeq(tt) = g[n + 1]
  <2> HIDE DEF n
  <2>1. Len(tt) # 0
    BY <1>1
  <2>2. \E g : Flattens(g, tt, Len(tt)) /\ FlattenSeq(tt) = g[Len(tt)]
    BY <1>1, <2>1, FlattenSeqIs
  <2> QED  BY <1>1, <2>2
<1>3. g[n + 1] = IF n + 1 = 1 THEN tt[n + 1] ELSE g[n] \o tt[n + 1]
  <2> HIDE DEF n
  <2>1. m \in 1..m /\ m - 1 = n
    BY <1>0, <1>1
  <2>2. Flattens(g, tt, m)
    BY <1>0, <1>2
  <2>3. g[m] = IF m = 1 THEN tt[m] ELSE g[m - 1] \o tt[m]
    BY <1>0, <2>1, <2>2, FlattensAt
  <2> QED  BY <1>0, <2>1, <2>3
<1>4. CASE n = 0
  <2>1. ss = <<>> /\ FlattenSeq(ss) = <<>>
    BY <1>4, FlattenSeqIs, EmptySeq
  <2>2. <<>> \o x = x
    OBVIOUS
  <2> QED  BY <1>1, <1>2, <1>3, <1>4, <2>1, <2>2 DEF tt
<1>5. CASE n # 0
  <2>1. PICK f : Flattens(f, ss, n) /\ FlattenSeq(ss) = f[n]
    BY <1>5, FlattenSeqIs
  <2>2. f[n] = g[n]
    <3>1. n \in 0..m /\ n \in 1..n
      BY <1>0, <1>1, <1>5
    <3>2. Flattens(g, tt, m) /\ Flattens(f, ss, n) /\ SameFirst(ss, tt, n)
      BY <1>0, <1>1, <1>2, <2>1 DEF SameFirst
    <3>3. SameFirst(f, g, n)
      <4> HIDE DEF n
      <4> QED  BY <1>0, <3>1, <3>2, FlattensAgree
    <3> QED  BY <3>1, <3>3 DEF SameFirst
  <2>3. FlattenSeq(tt) = FlattenSeq(ss) \o x
    BY <1>1, <1>2, <1>3, <1>5, <2>1, <2>2
  <2> QED  BY <2>3, ConcatProperties DEF tt
<1> QED  BY <1>1, <1>4, <1>5

\* They are.
LEMMA FlattenSeqType ==
    ASSUME NEW S, NEW ss \in Seq(Seq(S))
    PROVE  FlattenSeq(ss) \in Seq(S)
<1> DEFINE cut(k) == [i \in 1..k |-> ss[i]]
           I == {k \in 0..Len(ss) : FlattenSeq(cut(k)) \notin Seq(S)}
<1>1. /\ Len(ss) \in Nat /\ ss = [i \in 1..Len(ss) |-> ss[i]]
      /\ \A i \in 1..Len(ss) : ss[i] \in Seq(S)
  BY LenProperties, ElementOfSeq
<1>2. \A k \in 0..Len(ss) : cut(k) \in Seq(Seq(S)) /\ Len(cut(k)) = k
  <2> TAKE k \in 0..Len(ss)
  <2>1. \A i \in 1..k : ss[i] \in Seq(S)
    BY <1>1
  <2>2. cut(k) \in [1..k -> Seq(S)] /\ k \in Nat
    BY <1>1, <2>1
  <2> QED  BY <2>2, SeqDef, LenProperties
<1>3. I = {}
  <2> SUFFICES ASSUME I # {} PROVE FALSE
    OBVIOUS
  <2>1. PICK m \in I : \A k \in I : m <= k
    <3>1. I \in SUBSET Nat
      BY <1>1
    <3> QED  BY <3>1, LeastElement
  <2>2. m \in 0..Len(ss) /\ m \in Nat
    BY <1>1, <2>1
  <2>3. m # 0
    <3> SUFFICES ASSUME m = 0 PROVE FALSE
      OBVIOUS
    <3>1. cut(0) \in Seq(Seq(S)) /\ Len(cut(0)) = 0
      BY <1>1, <1>2
    <3>2. FlattenSeq(cut(0)) = cut(0) /\ cut(0) = <<>>
      BY <3>1, FlattenSeqIs, EmptySeq
    <3> HIDE DEF cut
    <3>3. FlattenSeq(cut(0)) \in Seq(S)
      BY <3>2, EmptySeq
    <3> QED  BY <2>1, <3>3
  <2>4. m - 1 \in 0..Len(ss) /\ m \in 1..Len(ss) /\ ~(m <= m - 1)
    BY <1>1, <2>2, <2>3
  <2>5. FlattenSeq(cut(m - 1)) \in Seq(S)
    <3> HIDE DEF cut
    <3> QED  BY <2>1, <2>4
  <2>6. cut(m) = Append(cut(m - 1), ss[m])
    <3>1. /\ cut(m - 1) \in Seq(Seq(S)) /\ Len(cut(m - 1)) = m - 1 /\ ss[m] \in Seq(S)
          /\ cut(m) \in Seq(Seq(S)) /\ Len(cut(m)) = m
      BY <1>1, <1>2, <2>2, <2>4
    <3>2. /\ Append(cut(m - 1), ss[m]) \in Seq(Seq(S))
          /\ Len(Append(cut(m - 1), ss[m])) = m
          /\ \A i \in 1..(m - 1) : Append(cut(m - 1), ss[m])[i] = cut(m - 1)[i]
          /\ Append(cut(m - 1), ss[m])[m] = ss[m]
      <4> HIDE DEF cut
      <4>1. m - 1 + 1 = m
        BY <2>2
      <4> QED  BY <3>1, <4>1, AppendProperties
    <3>3. \A i \in 1..m : Append(cut(m - 1), ss[m])[i] = cut(m)[i]
      <4> TAKE i \in 1..m
      <4>1. i \in 1..(m - 1) \/ i = m
        BY <2>2
      <4>2. \A j \in 1..(m - 1) : cut(m - 1)[j] = ss[j]
        OBVIOUS
      <4>3. cut(m)[i] = ss[i]
        OBVIOUS
      <4> HIDE DEF cut
      <4> QED  BY <3>2, <4>1, <4>2, <4>3
    <3> HIDE DEF cut
    <3> QED  BY <3>1, <3>2, <3>3, SeqEqual
  <2>7. FlattenSeq(Append(cut(m - 1), ss[m])) \in Seq(S)
    <3>1. cut(m - 1) \in Seq(Seq(S)) /\ ss[m] \in Seq(S)
      BY <1>1, <1>2, <2>4
    <3> HIDE DEF cut
    <3> QED  BY <2>5, <3>1, FlattenSeqAppend
  <2> HIDE DEF cut
  <2> QED  BY <2>1, <2>6, <2>7
<1>4. ss = cut(Len(ss)) /\ Len(ss) \in 0..Len(ss)
  BY <1>1
<1> HIDE DEF cut
<1> QED  BY <1>3, <1>4
===================================================================================
