----------------------------- MODULE SequenceLemmas -----------------------------
(***************************************************************************)
(* Lemmas about the lists of the screens: what inserting, removing, filtering  *)
(* and ordering do to a sequence, and the least and the largest of some numbers. *)
(***************************************************************************)
EXTENDS Screen, FiniteSetTheorems, SequenceTheorems, TLAPS

\* RemoveAt closes the gap.
LEMMA RemoveAtType ==
    ASSUME NEW S, NEW s \in Seq(S), NEW n \in 1..Len(s)
    PROVE  /\ RemoveAt(s, n) \in Seq(S)
           /\ Len(RemoveAt(s, n)) = Len(s) - 1
           /\ \A i \in 1..Len(s) - 1 : RemoveAt(s, n)[i] = IF i < n THEN s[i] ELSE s[i + 1]
  <1> DEFINE before == SubSeq(s, 1, n - 1)
             after == SubSeq(s, n + 1, Len(s))
  <1>0. Len(s) \in Nat /\ \A i \in 1..Len(s) : s[i] \in S
    BY LenProperties, ElementOfSeq
  <1>1. /\ before \in Seq(S) /\ Len(before) = n - 1
        /\ \A i \in 1..n - 1 : before[i] = s[i]
    BY <1>0, SubSeqProperties, Z3
  <1>2. /\ after \in Seq(S) /\ Len(after) = Len(s) - n
        /\ \A i \in 1..Len(s) - n : after[i] = s[n + i]
    <2>1. n + 1 \in Int /\ Len(s) \in Int /\ \A i \in n + 1..Len(s) : s[i] \in S
      BY <1>0
    <2>2. /\ after \in Seq(S)
          /\ Len(after) = IF n + 1 <= Len(s) THEN Len(s) - (n + 1) + 1 ELSE 0
          /\ \A i \in 1..Len(s) - (n + 1) + 1 : after[i] = s[n + 1 + i - 1]
      BY <2>1, SubSeqProperties
    <2> HIDE DEF after
    <2> QED  BY <1>0, <2>2
  <1> HIDE DEF before, after
  <1>3. /\ before \o after \in Seq(S) /\ Len(before \o after) = Len(before) + Len(after)
        /\ \A i \in 1..Len(before) + Len(after) : (before \o after)[i] =
              IF i <= Len(before) THEN before[i] ELSE after[i - Len(before)]
    BY <1>1, <1>2, ConcatProperties
  <1>4. RemoveAt(s, n) = before \o after
    BY DEF RemoveAt, before, after
  <1>5. ASSUME NEW i \in 1..Len(s) - 1
        PROVE  (before \o after)[i] = IF i < n THEN s[i] ELSE s[i + 1]
    <2>1. i \in 1..Len(before) + Len(after)
      BY <1>0, <1>1, <1>2
    <2>2. CASE i < n
      BY <1>0, <1>1, <1>3, <2>1, <2>2
    <2>3. CASE i >= n
      <3>1. i - Len(before) \in 1..Len(s) - n /\ n + (i - Len(before)) = i + 1
        BY <1>0, <1>1, <2>3
      <3> QED  BY <1>0, <1>1, <1>2, <1>3, <2>1, <2>3, <3>1
    <2>4. i < n \/ i >= n
      BY <1>0
    <2> QED  BY <2>2, <2>3, <2>4
  <1>6. Len(before \o after) = Len(s) - 1
    BY <1>0, <1>1, <1>2, <1>3
  <1> QED  BY <1>3, <1>4, <1>5, <1>6

\* InsertAt makes room.
LEMMA InsertAtType ==
    ASSUME NEW S, NEW s \in Seq(S), NEW n \in 1..Len(s) + 1, NEW e \in S
    PROVE  /\ InsertAt(s, n, e) \in Seq(S)
           /\ Len(InsertAt(s, n, e)) = Len(s) + 1
           /\ \A i \in 1..Len(s) + 1 : InsertAt(s, n, e)[i] =
                 IF i < n THEN s[i] ELSE IF i = n THEN e ELSE s[i - 1]
  <1> DEFINE before == SubSeq(s, 1, n - 1)
             after == SubSeq(s, n, Len(s))
             start == before \o <<e>>
  <1>0. Len(s) \in Nat /\ n \in Int /\ \A i \in 1..Len(s) : s[i] \in S
    BY LenProperties, ElementOfSeq
  <1>1. /\ before \in Seq(S) /\ Len(before) = n - 1
        /\ \A i \in 1..n - 1 : before[i] = s[i]
    BY <1>0, SubSeqProperties, Z3
  <1>2. /\ after \in Seq(S) /\ Len(after) = Len(s) - n + 1
        /\ \A i \in 1..Len(s) - n + 1 : after[i] = s[n + i - 1]
    BY <1>0, SubSeqProperties, Z3
  <1> HIDE DEF before, after
  <1>3. <<e>> \in Seq(S) /\ Len(<<e>>) = 1 /\ <<e>>[1] = e
    OBVIOUS
  <1>4. /\ start \in Seq(S) /\ Len(start) = n
        /\ \A i \in 1..n : start[i] = IF i < n THEN s[i] ELSE e
    <2>1. /\ start \in Seq(S) /\ Len(start) = Len(before) + Len(<<e>>)
          /\ \A i \in 1..Len(before) + Len(<<e>>) : start[i] =
                IF i <= Len(before) THEN before[i] ELSE <<e>>[i - Len(before)]
      BY <1>1, <1>3, ConcatProperties
    <2> HIDE DEF start
    <2> QED  BY <1>0, <1>1, <1>3, <2>1
  <1> HIDE DEF start
  <1>5. /\ start \o after \in Seq(S) /\ Len(start \o after) = Len(start) + Len(after)
        /\ \A i \in 1..Len(start) + Len(after) : (start \o after)[i] =
              IF i <= Len(start) THEN start[i] ELSE after[i - Len(start)]
    BY <1>4, <1>2, ConcatProperties
  <1>6. InsertAt(s, n, e) = start \o after
    BY DEF InsertAt, before, after, start
  <1>7. \A i \in 1..Len(s) + 1 : (start \o after)[i] =
                 IF i < n THEN s[i] ELSE IF i = n THEN e ELSE s[i - 1]
    BY <1>0, <1>2, <1>4, <1>5
  <1> QED  BY <1>0, <1>2, <1>4, <1>5, <1>6, <1>7

\* Front is a sequence without its last element.
LEMMA FrontType ==
    ASSUME NEW S, NEW s \in Seq(S), s # <<>>
    PROVE  /\ Front(s) \in Seq(S)
           /\ Len(Front(s)) = Len(s) - 1
           /\ \A i \in 1..Len(s) - 1 : Front(s)[i] = s[i]
           /\ Last(s) \in S /\ Last(s) = s[Len(s)]
  <1>0. Len(s) \in Nat \ {0} /\ \A i \in 1..Len(s) : s[i] \in S
    BY LenProperties, ElementOfSeq, EmptySeq
  <1>1. /\ SubSeq(s, 1, Len(s) - 1) \in Seq(S)
        /\ Len(SubSeq(s, 1, Len(s) - 1)) = Len(s) - 1
        /\ \A i \in 1..Len(s) - 1 : SubSeq(s, 1, Len(s) - 1)[i] = s[i]
    <2>1. 1 \in Int /\ Len(s) - 1 \in Int /\ \A i \in 1..Len(s) - 1 : s[i] \in S
      BY <1>0
    <2> DEFINE init == SubSeq(s, 1, Len(s) - 1)
    <2>2. /\ init \in Seq(S)
          /\ Len(init) = IF 1 <= Len(s) - 1 THEN Len(s) - 1 - 1 + 1 ELSE 0
          /\ \A i \in 1..Len(s) - 1 - 1 + 1 : init[i] = s[1 + i - 1]
      BY <2>1, SubSeqProperties
    <2>3. /\ init \in Seq(S) /\ Len(init) = Len(s) - 1
          /\ \A i \in 1..Len(s) - 1 : init[i] = s[i]
      <3> HIDE DEF init
      <3>1. Len(s) - 1 - 1 + 1 = Len(s) - 1 /\ \A i \in 1..Len(s) - 1 : 1 + i - 1 = i
        BY <1>0
      <3>2. Len(init) = Len(s) - 1
        <4>1. PICK k \in Nat : k = Len(s) /\ k > 0
          BY <1>0
        <4> QED  BY <2>2, <4>1
      <3> QED  BY <2>2, <3>1, <3>2
    <2> HIDE DEF init
    <2> QED  BY <2>3 DEF init
  <1> QED  BY <1>0, <1>1 DEF Front, Last

\* Tail is one without its first.
LEMMA TailType ==
    ASSUME NEW S, NEW s \in Seq(S), s # <<>>
    PROVE  /\ Tail(s) \in Seq(S) /\ Len(s) \in Nat \ {0}
           /\ Len(Tail(s)) = Len(s) - 1
           /\ \A i \in 1..Len(s) - 1 : Tail(s)[i] = s[i + 1]
  BY HeadTailProperties, LenProperties, EmptySeq

\* Append adds an element at the end.
LEMMA AppendType ==
    ASSUME NEW S, NEW s \in Seq(S), NEW e \in S
    PROVE  /\ Append(s, e) \in Seq(S) /\ Len(s) \in Nat
           /\ Len(Append(s, e)) = Len(s) + 1
           /\ \A i \in 1..Len(s) + 1 : Append(s, e)[i] = IF i <= Len(s) THEN s[i] ELSE e
  <1>1. \A i \in 1..Len(s) + 1 : i <= Len(s) \/ i = Len(s) + 1
    BY LenProperties
  <1> QED  BY <1>1, AppendProperties, LenProperties
\* How many elements of a sequence belong to a set.
Count(s, P) == Cardinality({i \in DOMAIN s : s[i] \in P})

LEMMA CountType ==
    ASSUME NEW S, NEW s \in Seq(S), NEW P
    PROVE  IsFiniteSet({i \in DOMAIN s : s[i] \in P}) /\ Count(s, P) \in Nat
  <1>1. DOMAIN s = 1..Len(s) /\ Len(s) \in Nat
    BY LenProperties
  <1>2. IsFiniteSet(1..Len(s))
    BY <1>1, FS_Interval
  <1> QED  BY <1>1, <1>2, FS_Subset, FS_CardinalityType DEF Count

\* Appending counts the new element.
LEMMA CountAppend ==
    ASSUME NEW S, NEW s \in Seq(S), NEW e \in S, NEW P
    PROVE  Count(Append(s, e), P) = Count(s, P) + (IF e \in P THEN 1 ELSE 0)
  <1> DEFINE these == {i \in DOMAIN s : s[i] \in P}
             t == Append(s, e)
             those == {i \in DOMAIN t : t[i] \in P}
  <1>0. Len(s) \in Nat /\ DOMAIN s = 1..Len(s) /\ DOMAIN t = 1..Len(s) + 1
        /\ \A i \in 1..Len(s) + 1 : t[i] = IF i <= Len(s) THEN s[i] ELSE e
    BY AppendType, LenProperties
  <1>1. IsFiniteSet(these) /\ Cardinality(these) \in Nat
    BY CountType DEF Count
  <1>2. CASE e \in P
    <2>1. those = these \cup {Len(s) + 1} /\ Len(s) + 1 \notin these
      <3> HIDE DEF t
      <3> QED  BY <1>0, <1>2
    <2> HIDE DEF these, those
    <2>2. Cardinality(those) = Cardinality(these) + 1
      BY <1>1, <2>1, FS_AddElement
    <2> QED  BY <1>2, <2>2 DEF Count, these, those
  <1>3. CASE e \notin P
    <2>1. those = these
      <3> HIDE DEF t
      <3> QED  BY <1>0, <1>3
    <2>2. Count(s, P) = Cardinality(these) /\ Count(t, P) = Cardinality(those)
      BY DEF Count
    <2> HIDE DEF these, those, t
    <2>3. Count(t, P) = Count(s, P) + 0
      BY <1>1, <2>1, <2>2
    <2> QED  BY <1>3, <2>3 DEF t
  <1> QED  BY <1>2, <1>3

\* Removing an element takes it from the count.
LEMMA CountRemoveAt ==
    ASSUME NEW S, NEW s \in Seq(S), NEW n \in 1..Len(s), NEW P
    PROVE  Count(s, P) = Count(RemoveAt(s, n), P) + (IF s[n] \in P THEN 1 ELSE 0)
  <1> DEFINE t == RemoveAt(s, n)
             these == {i \in DOMAIN t : t[i] \in P}
             those == {i \in DOMAIN s : s[i] \in P} \ {n}
             back(i) == IF i < n THEN i ELSE i + 1
             f == [i \in these |-> back(i)]
  <1>0. Len(s) \in Nat /\ DOMAIN s = 1..Len(s) /\ DOMAIN t = 1..Len(s) - 1
        /\ (\A i \in 1..Len(s) - 1 : t[i] = s[back(i)]) /\ t \in Seq(S)
    BY RemoveAtType, LenProperties
  <1>1. IsFiniteSet(these) /\ Cardinality(these) = Count(t, P) /\ Count(t, P) \in Nat
    BY <1>0, CountType DEF Count
  <1>2. f \in Bijection(these, those)
    <2> HIDE DEF t
    <2>1. \A i \in these : back(i) \in those
      BY <1>0
    <2>2. \A i, j \in these : back(i) = back(j) => i = j
      BY <1>0
    <2>3. ASSUME NEW k \in those PROVE \E i \in these : back(i) = k
      <3>1. CASE k < n
        <4>1. k \in 1..Len(s) - 1 /\ back(k) = k
          BY <1>0, <3>1
        <4>2. t[k] = s[k]
          BY <1>0, <4>1
        <4>3. k \in these
          BY <1>0, <4>1, <4>2
        <4> QED  BY <4>1, <4>3
      <3>2. CASE k > n
        <4>1. k - 1 \in 1..Len(s) - 1 /\ back(k - 1) = k
          BY <1>0, <3>2
        <4>2. t[k - 1] = s[k]
          BY <1>0, <4>1
        <4>3. k - 1 \in these
          BY <1>0, <4>1, <4>2
        <4> QED  BY <4>1, <4>3
      <3>3. k \in Int /\ k # n /\ n \in Int
        BY <1>0
      <3> QED  BY <3>1, <3>2, <3>3
    <2> HIDE DEF these, those, back
    <2>4. f \in [these -> those]
      BY <2>1
    <2> QED  BY <2>2, <2>3, <2>4 DEF Bijection, Injection, Surjection, IsInjective
  <1>3. IsFiniteSet(those) /\ Cardinality(those) = Cardinality(these)
    <2> HIDE DEF these, those, f
    <2> QED  BY <1>1, <1>2, FS_Bijection DEF ExistsBijection
  <1>4. CASE s[n] \in P
    <2>1. {i \in DOMAIN s : s[i] \in P} = those \cup {n} /\ n \notin those
      BY <1>0, <1>4
    <2> HIDE DEF these, those
    <2>2. Cardinality(those \cup {n}) = Cardinality(those) + 1
      BY <1>3, <2>1, FS_AddElement
    <2> QED  BY <1>1, <1>3, <1>4, <2>1, <2>2 DEF Count
  <1>5. CASE s[n] \notin P
    <2>1. {i \in DOMAIN s : s[i] \in P} = those
      BY <1>5
    <2>2. Count(s, P) = Cardinality(those)
      BY <2>1 DEF Count
    <2> HIDE DEF these, those, t
    <2>3. Count(s, P) = Count(t, P) + 0
      BY <1>1, <1>3, <2>2
    <2> QED  BY <1>5, <2>3 DEF t
  <1> QED  BY <1>4, <1>5

\* The elements at some places of a sequence are elements of it, each place has its
\* element, and they keep their order.
Rank(spots, i) == Cardinality({j \in spots : j < i})

LEMMA RankType ==
    ASSUME NEW n \in Nat, NEW spots \in SUBSET (1..n)
    PROVE  /\ IsFiniteSet(spots) /\ Cardinality(spots) \in Nat
           /\ \A i \in spots : Rank(spots, i) \in 0..Cardinality(spots) - 1
           /\ \A i, k \in spots : i < k => Rank(spots, i) < Rank(spots, k)
           /\ \A m \in 0..Cardinality(spots) - 1 : \E i \in spots : Rank(spots, i) = m
  <1>0. spots \subseteq Int
    OBVIOUS
  <1>1. IsFiniteSet(spots) /\ Cardinality(spots) \in Nat
    <2>1. IsFiniteSet(1..n)
      BY FS_Interval
    <2> QED  BY <2>1, FS_Subset, FS_CardinalityType
  <1>2. \A i \in Int : IsFiniteSet({j \in spots : j < i}) /\ Rank(spots, i) \in Nat
    BY <1>1, FS_Subset, FS_CardinalityType DEF Rank
  <1>3. ASSUME NEW i \in spots, NEW T, IsFiniteSet(T), {j \in spots : j < i} \subseteq T, i \in T
        PROVE  Rank(spots, i) < Cardinality(T)
    <2> DEFINE below == {j \in spots : j < i}
    <2>1. IsFiniteSet(below) /\ Rank(spots, i) = Cardinality(below) /\ Cardinality(below) \in Nat
      BY <1>0, <1>2 DEF Rank
    <2>2. Cardinality(T) \in Nat
      BY <1>3, FS_CardinalityType
    <2>3. below \subseteq T /\ below # T
      <3>1. i \notin below
        BY <1>0
      <3> QED  BY <1>3, <3>1
    <2>4. Cardinality(below) <= Cardinality(T) /\ (Cardinality(T) = Cardinality(below) => T = below)
      <3> HIDE DEF below
      <3> QED  BY <1>3, <2>3, FS_Subset
    <2> HIDE DEF below
    <2> QED  BY <2>1, <2>2, <2>3, <2>4
  <1>4. \A i, k \in spots : i < k => Rank(spots, i) < Rank(spots, k)
    <2> SUFFICES ASSUME NEW i \in spots, NEW k \in spots, i < k
                 PROVE  Rank(spots, i) < Rank(spots, k)
      OBVIOUS
    <2>1. {j \in spots : j < i} \subseteq {j \in spots : j < k} /\ i \in {j \in spots : j < k}
      <3>1. i \in Int /\ k \in Int
        BY <1>0
      <3>2. \A j \in spots : j < i => j < k
        BY <1>0, <3>1
      <3> QED  BY <3>2
    <2>2. IsFiniteSet({j \in spots : j < k})
      BY <1>0, <1>2
    <2> QED  BY <1>3, <2>1, <2>2 DEF Rank
  <1>5. \A i \in spots : Rank(spots, i) \in 0..Cardinality(spots) - 1
    <2> SUFFICES ASSUME NEW i \in spots PROVE Rank(spots, i) \in 0..Cardinality(spots) - 1
      OBVIOUS
    <2>1. Rank(spots, i) < Cardinality(spots)
      BY <1>1, <1>3
    <2>2. Rank(spots, i) \in Nat
      BY <1>0, <1>2
    <2> QED  BY <1>1, <2>1, <2>2
  <1> DEFINE ranks == 0..Cardinality(spots) - 1
             f == [i \in spots |-> Rank(spots, i)]
  <1>6. f \in Injection(spots, ranks)
    <2>1. f \in [spots -> ranks]
      BY <1>5
    <2>2. \A i, k \in spots : f[i] = f[k] => i = k
      <3> SUFFICES ASSUME NEW i \in spots, NEW k \in spots, Rank(spots, i) = Rank(spots, k), i # k
                   PROVE  FALSE
        OBVIOUS
      <3>1. i < k \/ k < i
        BY <1>0
      <3>2. Rank(spots, i) \in Nat
        BY <1>0, <1>2
      <3> QED  BY <1>4, <3>1, <3>2
    <2> HIDE DEF f, ranks
    <2> QED  BY <2>1, <2>2 DEF Injection, IsInjective
  <1>7. IsFiniteSet(ranks) /\ Cardinality(ranks) = Cardinality(spots)
    <2>1. PICK c \in Nat : c = Cardinality(spots)
      BY <1>1
    <2>2. 0 \in Int /\ c - 1 \in Int /\ IsFiniteSet(0..c - 1)
          /\ Cardinality(0..c - 1) = IF 0 > c - 1 THEN 0 ELSE c - 1 - 0 + 1
      BY FS_Interval
    <2>3. Cardinality(0..c - 1) = c
      BY <2>2
    <2> QED  BY <2>1, <2>2, <2>3
  <1>8. f \in Surjection(spots, ranks)
    <2> HIDE DEF f, ranks
    <2> QED  BY <1>1, <1>6, <1>7, FS_Injection
  <1>9. \A m \in ranks : \E i \in spots : Rank(spots, i) = m
    BY <1>8 DEF Surjection
  <1> QED  BY <1>1, <1>4, <1>5, <1>9

LEMMA ElementsAtType ==
    ASSUME NEW S, NEW s \in Seq(S), NEW spots \in SUBSET (DOMAIN s)
    PROVE  /\ ElementsAt(s, spots) \in Seq(S)
           /\ Len(ElementsAt(s, spots)) = Cardinality(spots)
           /\ IsFiniteSet(spots) /\ Cardinality(spots) \in Nat
           /\ \A n \in 1..Cardinality(spots) :
                 \E i \in spots : Rank(spots, i) = n - 1 /\ ElementsAt(s, spots)[n] = s[i]
           /\ \A i \in spots : /\ Rank(spots, i) + 1 \in 1..Cardinality(spots)
                                /\ ElementsAt(s, spots)[Rank(spots, i) + 1] = s[i]
           /\ \A i, k \in spots : i < k => Rank(spots, i) < Rank(spots, k)
  <1>0. Len(s) \in Nat /\ DOMAIN s = 1..Len(s) /\ \A i \in 1..Len(s) : s[i] \in S
    BY LenProperties, ElementOfSeq
  <1>1. /\ IsFiniteSet(spots) /\ Cardinality(spots) \in Nat
        /\ \A i \in spots : Rank(spots, i) \in 0..Cardinality(spots) - 1
        /\ \A i, k \in spots : i < k => Rank(spots, i) < Rank(spots, k)
        /\ \A m \in 0..Cardinality(spots) - 1 : \E i \in spots : Rank(spots, i) = m
    BY <1>0, RankType
  <1> DEFINE t == ElementsAt(s, spots)
             at(n) == CHOOSE i \in spots : Cardinality({j \in spots : j < i}) = n - 1
  <1>2. t = [n \in 1..Cardinality(spots) |-> s[at(n)]]
    BY DEF ElementsAt
  <1>3. ASSUME NEW n \in 1..Cardinality(spots)
        PROVE  at(n) \in spots /\ Rank(spots, at(n)) = n - 1
    <2>1. n - 1 \in 0..Cardinality(spots) - 1
      BY <1>1
    <2>2. PICK i \in spots : Rank(spots, i) = n - 1
      BY <1>1, <2>1
    <2> QED  BY <2>2 DEF Rank
  <1>4. \A i, k \in spots : Rank(spots, i) = Rank(spots, k) => i = k
    <2> SUFFICES ASSUME NEW i \in spots, NEW k \in spots, Rank(spots, i) = Rank(spots, k), i # k
                 PROVE  FALSE
      OBVIOUS
    <2>1. i < k \/ k < i
      BY <1>0
    <2>2. Rank(spots, i) \in Int /\ Rank(spots, k) \in Int
      BY <1>1
    <2> QED  BY <1>1, <2>1, <2>2
  <1>5. ASSUME NEW i \in spots
        PROVE  Rank(spots, i) + 1 \in 1..Cardinality(spots) /\ at(Rank(spots, i) + 1) = i
    <2>1. PICK n \in 1..Cardinality(spots) : n = Rank(spots, i) + 1
      BY <1>1
    <2>2. at(n) \in spots /\ Rank(spots, at(n)) = n - 1
      BY <1>3
    <2>3. n - 1 = Rank(spots, i)
      BY <1>1, <2>1
    <2> HIDE DEF at
    <2> QED  BY <1>4, <2>1, <2>2, <2>3
  <1> HIDE DEF at
  <1>6. \A n \in 1..Cardinality(spots) : t[n] \in S
    BY <1>0, <1>2, <1>3
  <1>7. t \in Seq(S) /\ Len(t) = Cardinality(spots)
    <2>1. t = [n \in 1..Cardinality(spots) |-> t[n]] /\ DOMAIN t = 1..Cardinality(spots)
      BY <1>2
    <2> HIDE DEF t
    <2>2. t \in Seq(S)
      BY <1>1, <1>6, <2>1, IsASeq
    <2> QED  BY <1>1, <2>1, <2>2, LenProperties
  <1>8. \A n \in 1..Cardinality(spots) : \E i \in spots : Rank(spots, i) = n - 1 /\ t[n] = s[i]
    BY <1>2, <1>3
  <1>9. \A i \in spots : Rank(spots, i) + 1 \in 1..Cardinality(spots) /\ t[Rank(spots, i) + 1] = s[i]
    BY <1>2, <1>5
  <1> QED  BY <1>1, <1>7, <1>8, <1>9

\* A sequence whose elements lie in a set is a sequence of that set.
LEMMA Retype ==
    ASSUME NEW S, NEW s \in Seq(S), NEW T, \A n \in 1..Len(s) : s[n] \in T
    PROVE  s \in Seq(T)
  <1>1. Len(s) \in Nat /\ s = [n \in 1..Len(s) |-> s[n]]
    BY LenProperties
  <1>2. [n \in 1..Len(s) |-> s[n]] \in Seq(T)
    BY <1>1, IsASeq
  <1> QED  BY <1>1, <1>2

\* What a filter leaves are the elements that passed its test.
LEMMA PassedType ==
    ASSUME NEW S, NEW s \in Seq(S), NEW spots \in SUBSET (DOMAIN s), NEW T, \A i \in spots : s[i] \in T
    PROVE  ElementsAt(s, spots) \in Seq(T) /\ Len(ElementsAt(s, spots)) <= Len(s)
  <1>1. /\ ElementsAt(s, spots) \in Seq(S)
        /\ Len(ElementsAt(s, spots)) = Cardinality(spots)
        /\ Cardinality(spots) \in Nat
        /\ \A n \in 1..Cardinality(spots) : \E i \in spots : ElementsAt(s, spots)[n] = s[i]
    BY ElementsAtType
  <1>2. \A n \in 1..Len(ElementsAt(s, spots)) : ElementsAt(s, spots)[n] \in T
    BY <1>1
  <1>3. Cardinality(spots) <= Len(s)
    <2>1. PICK c \in Nat : c = Len(s)
      BY LenProperties
    <2>2. 1 \in Int /\ c \in Int
      OBVIOUS
    <2>3. IsFiniteSet(1..c) /\ Cardinality(1..c) = IF 1 > c THEN 0 ELSE c - 1 + 1
      BY <2>2, FS_Interval
    <2>4. Cardinality(1..c) = c
      BY <2>3
    <2>5. spots \subseteq 1..c
      BY <2>1, LenProperties
    <2>6. Cardinality(spots) <= Cardinality(1..c)
      BY <2>3, <2>5, FS_Subset
    <2> QED  BY <2>1, <2>4, <2>6
  <1>4. ElementsAt(s, spots) \in Seq(T)
    BY <1>1, <1>2, Retype
  <1> QED  BY <1>1, <1>3, <1>4

\* Short tuples are sequences of their elements.
LEMMA TupleType ==
    ASSUME NEW S, NEW a \in S
    PROVE  <<a>> \in Seq(S) /\ \A b, c \in S : <<a, b>> \in Seq(S) /\ <<a, b, c>> \in Seq(S)
  OBVIOUS

\* The smaller and the larger of two numbers
LEMMA PairBounds ==
    ASSUME NEW a \in Int, NEW b \in Int
    PROVE  /\ Min({a, b}) \in {a, b} /\ Min({a, b}) <= a /\ Min({a, b}) <= b
           /\ Max({a, b}) \in {a, b} /\ Max({a, b}) >= a /\ Max({a, b}) >= b
  <1>1. /\ \E x \in {a, b} : \A y \in {a, b} : x <= y
        /\ \E x \in {a, b} : \A y \in {a, b} : x >= y
    OBVIOUS
  <1>2. /\ Min({a, b}) \in {a, b} /\ \A y \in {a, b} : Min({a, b}) <= y
        /\ Max({a, b}) \in {a, b} /\ \A y \in {a, b} : Max({a, b}) >= y
    BY <1>1, Zenon DEF Min, Max
  <1> QED  BY <1>2

\* The first and the last of some numbers
LEMMA Extremes ==
    ASSUME NEW n \in Nat, NEW spots \in SUBSET (0..n), spots # {}
    PROVE  /\ Min(spots) \in spots /\ \A i \in spots : Min(spots) <= i
           /\ Max(spots) \in spots /\ \A i \in spots : i <= Max(spots)
  <1> DEFINE moved == {i + 1 : i \in spots}
  <1>0. n + 1 \in Nat
    OBVIOUS
  <1>1. moved \subseteq 1..n + 1 /\ moved # {}
    <2>1. PICK i : i \in spots
      OBVIOUS
    <2>2. i + 1 \in moved
      BY <2>1
    <2>3. ASSUME NEW j \in spots  PROVE  j + 1 \in 1..n + 1
      <3>1. j \in 0..n
        OBVIOUS
      <3> QED  BY <3>1
    <2> QED  BY <2>2, <2>3
  <1>2. \A i \in spots : i \in Int /\ i + 1 \in moved
    OBVIOUS
  <1>3. \A k \in moved : \E i \in spots : k = i + 1
    OBVIOUS
  <1> HIDE DEF moved
  <1>4. PICK m \in Nat : m = Cardinality(moved)
    BY <1>0, <1>1, RankType
  <1>5. m # 0
    BY <1>0, <1>1, <1>4, RankType, FS_EmptySet
  <1>6. PICK low \in moved, high \in moved : Rank(moved, low) = 0 /\ Rank(moved, high) = m - 1
    <2>1. \A k \in 0..m - 1 : \E i \in moved : Rank(moved, i) = k
      BY ZenonT(40), <1>0, <1>1, <1>4, RankType
    <2>2. 0 \in 0..m - 1 /\ m - 1 \in 0..m - 1
      BY <1>5
    <2> QED  BY <2>1, <2>2
  <1>7. \A k \in moved : Rank(moved, k) \in 0..m - 1
    BY <1>0, <1>1, <1>4, RankType
  <1>8. \A i, k \in moved : i < k => Rank(moved, i) < Rank(moved, k)
    BY <1>0, <1>1, RankType
  <1>9. \A k \in moved : low <= k /\ k <= high
    BY <1>1, <1>6, <1>7, <1>8
  <1>10. PICK a \in spots, b \in spots : low = a + 1 /\ high = b + 1
    BY <1>3, <1>6
  <1>11. \A i \in spots : a <= i /\ i <= b
    BY <1>2, <1>9, <1>10
  <1>12. Min(spots) \in spots /\ \A i \in spots : Min(spots) <= i
    BY <1>11, Zenon DEF Min
  <1>13. \A i \in spots : b >= i
    BY <1>2, <1>11
  <1>14. Max(spots) \in spots /\ \A i \in spots : Max(spots) >= i
    BY <1>13, Zenon DEF Max
  <1> QED  BY <1>2, <1>12, <1>14

-----------------------------------------------------------------------------
(* Numbers counted up *)

\* What holds of 0 and of every successor holds of all numbers up to a bound.
LEMMA CountedUp ==
    ASSUME NEW k \in Nat, NEW P, 0 \in P, \A n \in 1..k : n - 1 \in P => n \in P
    PROVE  \A n \in 0..k : n \in P
  <1> DEFINE bad == {n \in 0..k : n \notin P}
  <1> SUFFICES ASSUME bad # {}  PROVE FALSE
    OBVIOUS
  <1>1. bad \in SUBSET (0..k)
    OBVIOUS
  <1>2. PICK m \in bad : \A i \in bad : m <= i
    BY <1>1, Extremes
  <1>3. m \in 1..k /\ m - 1 \in 0..k /\ m \notin P
    OBVIOUS
  <1>4. m - 1 \notin bad
    BY <1>2, <1>3
  <1> QED  BY <1>3, <1>4

\* A function can be given by its value at 0 and by each value from the one before.
Iteration(f, k, base, step) == f[0] = base /\ \A n \in 1..k : f[n] = step[<<n, f[n - 1]>>]
LEMMA Iterates ==
    ASSUME NEW k \in Nat, NEW S, NEW base \in S, NEW step \in [(1..k) \X S -> S]
    PROVE  \E f \in [0..k -> S] : Iteration(f, k, base, step)
  <1> DEFINE upTo(f, n) == f[0] = base /\ \A i \in 1..n : f[i] = step[<<i, f[i - 1]>>]
             P == {n \in 0..k : \E f \in [0..n -> S] : upTo(f, n)}
  <1>1. 0 \in P
    <2>1. [i \in 0..0 |-> base] \in [0..0 -> S] /\ upTo([i \in 0..0 |-> base], 0)
      OBVIOUS
    <2>2. 0 \in 0..k
      OBVIOUS
    <2> QED  BY <2>1, <2>2
  <1>2. ASSUME NEW n \in 1..k, n - 1 \in P  PROVE n \in P
    <2>1. PICK g \in [0..n - 1 -> S] : upTo(g, n - 1)
      BY <1>2
    <2>2. n - 1 \in 0..n - 1 /\ n \in Int /\ 0..n = (0..n - 1) \cup {n} /\ n \notin 0..n - 1
      OBVIOUS
    <2>3. g[n - 1] \in S
      BY <2>2
    <2> DEFINE f == [i \in 0..n |-> IF i = n THEN step[<<n, g[n - 1]>>] ELSE g[i]]
    <2>4. step[<<n, g[n - 1]>>] \in S
      BY <2>3
    <2>5. \A i \in 0..n : i # n => i \in 0..n - 1
      BY <2>2
    <2>6. f \in [0..n -> S]
      BY <2>4, <2>5
    <2>7. \A i \in 1..n : i - 1 \in 0..n /\ i - 1 # n /\ (i # n => i \in 1..n - 1)
      OBVIOUS
    <2>8. f[0] = base /\ \A i \in 0..n - 1 : f[i] = g[i]
      BY <2>1, <2>2
    <2>9. f[n] = step[<<n, g[n - 1]>>]
      BY <2>2
    <2>10. ASSUME NEW i \in 1..n  PROVE f[i] = step[<<i, f[i - 1]>>]
      <3>1. i - 1 \in 0..n - 1 /\ f[i - 1] = g[i - 1]
        BY <2>8
      <3>2. CASE i = n
        BY <2>9, <3>1, <3>2
      <3>3. CASE i # n
        <4>1. i \in 1..n - 1 /\ i \in 0..n - 1
          BY <2>7, <3>3
        <4> QED  BY <2>1, <2>8, <3>1, <4>1
      <3> QED  BY <3>2, <3>3
    <2>11. upTo(f, n)
      BY <2>8, <2>10
    <2>12. n \in 0..k
      OBVIOUS
    <2> HIDE DEF f, upTo
    <2> QED  BY <2>6, <2>11, <2>12
  <1>3. k \in P
    <2> HIDE DEF P
    <2>1. k \in 0..k
      OBVIOUS
    <2> QED  BY <1>1, <1>2, <2>1, CountedUp
  <1> QED  BY <1>3 DEF Iteration
\* How many numbers there are up to one
LEMMA CountTo ==
    ASSUME NEW a \in Nat
    PROVE  IsFiniteSet(1..a) /\ Cardinality(1..a) = a
  <1>1. 1 \in Int /\ a \in Int /\ IsFiniteSet(1..a)
        /\ Cardinality(1..a) = IF 1 > a THEN 0 ELSE a - 1 + 1
    BY FS_Interval
  <1> QED  BY <1>1

\* An element of a list that moves within it.
IsInserted(t, s, k, n, e, S) ==
    /\ t \in Seq(S) /\ Len(t) = k + 1
    /\ \A i \in 1..k + 1 : t[i] = IF i < n THEN s[i] ELSE IF i = n THEN e ELSE s[i - 1]
LEMMA InsertFacts ==
    ASSUME NEW S, NEW s \in Seq(S), NEW n \in 1..Len(s) + 1, NEW e \in S
    PROVE  IsInserted(InsertAt(s, n, e), s, Len(s), n, e, S)
  BY InsertAtType DEF IsInserted

\* It takes all its elements along.
IsShuffled(t, s, k) ==
    \E from \in [1..k -> 1..k] :
        /\ \A i \in 1..k : t[i] = s[from[i]]
        /\ \A i, j \in 1..k : from[i] = from[j] => i = j
        /\ \A j \in 1..k : \E i \in 1..k : from[i] = j

IsMoved(t, s, a, b) == t = InsertAt(RemoveAt(s, a), b, s[a])
LEMMA MoveWithin ==
    ASSUME NEW S, NEW s \in Seq(S), NEW k \in Nat, k = Len(s), NEW a \in 1..k, NEW b \in 1..k,
           NEW t, IsMoved(t, s, a, b)
    PROVE  /\ t \in Seq(S) /\ Len(t) = k /\ DOMAIN t = 1..k /\ t[b] = s[a]
           /\ IsShuffled(t, s, k) /\ RemoveAt(t, b) = RemoveAt(s, a)
  <1> DEFINE u == RemoveAt(s, a)
  <1>1. PICK l \in Nat : l = k - 1
    OBVIOUS
  <1>2. /\ u \in Seq(S) /\ Len(u) = l
        /\ \A i \in 1..l : u[i] = IF i < a THEN s[i] ELSE s[i + 1]
    BY <1>1, RemoveAtType
  <1>3. s[a] \in S
    BY ElementOfSeq
  <1>4. t = InsertAt(u, b, s[a])
    BY DEF IsMoved
  <1> HIDE DEF u
  <1>5. /\ t \in Seq(S) /\ Len(t) = l + 1
        /\ \A i \in 1..l + 1 : t[i] = IF i < b THEN u[i] ELSE IF i = b THEN s[a] ELSE u[i - 1]
    <2>1. u \in Seq(S) /\ l = Len(u) /\ b \in 1..l + 1
      BY <1>1, <1>2
    <2>2. b \in 1..Len(u) + 1
      BY <2>1
    <2>3. IsInserted(InsertAt(u, b, s[a]), u, Len(u), b, s[a], S)
      BY <1>3, <2>1, <2>2, InsertFacts
    <2>4. IsInserted(InsertAt(u, b, s[a]), u, l, b, s[a], S)
      BY <2>1, <2>3, Zenon
    <2> QED  BY <1>4, <2>4 DEF IsInserted
  <1>6. Len(t) = k /\ DOMAIN t = 1..k
    BY <1>1, <1>5, LenProperties
  <1> DEFINE off(i) == IF i < b THEN i ELSE i - 1
             from == [i \in 1..k |-> IF i = b THEN a ELSE IF off(i) < a THEN off(i) ELSE off(i) + 1]
  <1>7. \A i \in 1..k : i # b => off(i) \in 1..l /\ off(i) + 1 \in 1..k
    BY <1>1
  <1>8. from \in [1..k -> 1..k]
    BY <1>1, <1>7
  <1>9. \A i \in 1..k : t[i] = s[from[i]]
    <2> SUFFICES ASSUME NEW i \in 1..k  PROVE t[i] = s[from[i]]
      OBVIOUS
    <2>1. CASE i = b
      BY <1>1, <1>5, <2>1
    <2>2. CASE i # b
      <3>1. t[i] = u[off(i)]
        BY <1>1, <1>5, <2>2
      <3>2. u[off(i)] = IF off(i) < a THEN s[off(i)] ELSE s[off(i) + 1]
        BY <1>2, <1>7, <2>2
      <3> QED  BY <2>2, <3>1, <3>2
    <2> QED  BY <2>1, <2>2
  <1>10. \A i, j \in 1..k : from[i] = from[j] => i = j
    BY <1>1, <1>7
  <1>11. ASSUME NEW j \in 1..k  PROVE \E i \in 1..k : from[i] = j
    <2> DEFINE r == IF j < a THEN j ELSE j - 1
               i == IF j = a THEN b ELSE IF r < b THEN r ELSE r + 1
    <2>1. i \in 1..k /\ from[i] = j
      BY <1>1
    <2> QED  BY <2>1
  <1>12. t[b] = s[a]
    BY <1>1, <1>5
  <1>13. RemoveAt(t, b) = u
    <2> DEFINE v == RemoveAt(t, b)
    <2>1. /\ v \in Seq(S) /\ Len(v) = l
          /\ \A i \in 1..l : v[i] = IF i < b THEN t[i] ELSE t[i + 1]
      <3>1. b \in 1..Len(t) /\ l = Len(t) - 1
        BY <1>1, <1>6
      <3> QED  BY <1>5, <3>1, RemoveAtType
    <2> HIDE DEF v
    <2>2. ASSUME NEW i \in 1..l  PROVE v[i] = u[i]
      <3>1. CASE i < b
        <4>1. v[i] = t[i] /\ i \in 1..l + 1
          BY <2>1, <3>1
        <4> QED  BY <1>5, <3>1, <4>1
      <3>2. CASE ~(i < b)
        <4>1. PICK j \in 1..l + 1 : j = i + 1 /\ j - 1 = i /\ ~(j < b) /\ j # b
          BY <3>2
        <4>2. v[i] = t[j]
          BY <2>1, <3>2, <4>1
        <4>3. t[j] = u[j - 1]
          BY <1>5, <4>1
        <4> QED  BY <4>1, <4>2, <4>3
      <3> QED  BY <3>1, <3>2
    <2> QED  BY <1>2, <2>1, <2>2, SeqEqual DEF v
  <1> HIDE DEF from
  <1>14. IsShuffled(t, s, k)
    BY <1>8, <1>9, <1>10, <1>11 DEF IsShuffled
  <1> QED  BY <1>5, <1>6, <1>12, <1>13, <1>14 DEF u

\* A list without one of its elements.
LEMMA WithoutOne ==
    ASSUME NEW S, NEW s \in Seq(S), NEW k \in Nat, k = Len(s), NEW n \in 1..k
    PROVE  ElementsAt(s, (1..k) \ {n}) = RemoveAt(s, n)
  <1> DEFINE spots == (1..k) \ {n}
             t == ElementsAt(s, spots)
             u == RemoveAt(s, n)
  <1>1. PICK l \in Nat : l = k - 1
    OBVIOUS
  <1>2. /\ u \in Seq(S) /\ Len(u) = l
        /\ \A i \in 1..l : u[i] = IF i < n THEN s[i] ELSE s[i + 1]
    BY <1>1, RemoveAtType
  <1>3. spots \in SUBSET (DOMAIN s)
    BY LenProperties
  <1>4. Cardinality(spots) = l
    <2>1. IsFiniteSet(1..k) /\ Cardinality(1..k) = k
      BY CountTo
    <2> QED  BY <1>1, <2>1, FS_RemoveElement
  <1>5. ASSUME NEW i \in spots  PROVE Rank(spots, i) = IF i < n THEN i - 1 ELSE i - 2
    <2>1. \A a \in Nat : IsFiniteSet(1..a) /\ Cardinality(1..a) = a
      BY CountTo
    <2>2. i - 1 \in Nat
      OBVIOUS
    <2>3. CASE i < n
      <3>1. {j \in spots : j < i} = 1..i - 1
        BY <2>3
      <3> QED  BY <2>1, <2>2, <2>3, <3>1 DEF Rank
    <2>4. CASE ~(i < n)
      <3>1. {j \in spots : j < i} = (1..i - 1) \ {n} /\ n \in 1..i - 1
        BY <2>4
      <3>2. Cardinality((1..i - 1) \ {n}) = i - 1 - 1
        <4>1. PICK below : below = 1..i - 1
          OBVIOUS
        <4>2. IsFiniteSet(below) /\ Cardinality(below) = i - 1 /\ n \in below
          BY <2>1, <2>2, <3>1, <4>1
        <4>3. Cardinality(below \ {n}) = Cardinality(below) - 1
          BY <4>2, FS_RemoveElement
        <4> QED  BY <4>1, <4>2, <4>3
      <3>3. Rank(spots, i) = i - 1 - 1
        BY <3>1, <3>2 DEF Rank
      <3> QED  BY <2>4, <3>3
    <2> QED  BY <2>3, <2>4
  <1>6. /\ t \in Seq(S) /\ Len(t) = l
        /\ \A i \in spots : t[Rank(spots, i) + 1] = s[i]
    <2> HIDE DEF spots
    <2> QED  BY <1>3, <1>4, ElementsAtType
  <1> HIDE DEF t, u
  <1>7. \A i \in 1..l : t[i] = u[i]
    <2> SUFFICES ASSUME NEW i \in 1..l  PROVE t[i] = u[i]
      OBVIOUS
    <2>1. CASE i < n
      <3>1. i \in spots /\ i - 1 + 1 = i
        BY <1>1, <2>1
      <3>2. Rank(spots, i) + 1 = i
        BY <1>5, <2>1, <3>1
      <3> QED  BY <1>2, <1>6, <2>1, <3>1, <3>2
    <2>2. CASE ~(i < n)
      <3>1. i + 1 \in spots /\ ~(i + 1 < n) /\ i + 1 - 2 + 1 = i
        BY <1>1, <2>2
      <3>2. Rank(spots, i + 1) + 1 = i
        <4>1. PICK j \in Nat : j = i + 1
          OBVIOUS
        <4>2. Rank(spots, j) = j - 2
          BY <1>5, <3>1, <4>1
        <4> QED  BY <4>1, <4>2
      <3> QED  BY <1>2, <1>6, <2>2, <3>1, <3>2
    <2> QED  BY <2>1, <2>2
  <1> QED  BY <1>2, <1>6, <1>7, SeqEqual DEF t, u

\* A list whose elements have ids of their own
OnceEach(list) == \A i, j \in DOMAIN list : list[i].id = list[j].id => i = j

\* keeps them so when its elements are exchanged for others with their ids,
LEMMA OnceSame ==
    ASSUME NEW s, NEW t, OnceEach(s), DOMAIN t = DOMAIN s, \A i \in DOMAIN s : t[i].id = s[i].id
    PROVE  OnceEach(t)
  BY DEF OnceEach

\* grows by an element with another id,
LEMMA OnceAppend ==
    ASSUME NEW S, NEW s \in Seq(S), OnceEach(s), NEW e \in S, \A i \in DOMAIN s : s[i].id # e.id
    PROVE  OnceEach(Append(s, e))
  <1>1. PICK k \in Nat : k = Len(s) /\ DOMAIN s = 1..k
    BY LenProperties
  <1>2. PICK t : t = Append(s, e)
    OBVIOUS
  <1>3. DOMAIN t = 1..k + 1 /\ \A i \in 1..k + 1 : t[i] = IF i \in 1..k THEN s[i] ELSE e
    BY <1>1, <1>2, AppendProperties
  <1>4. ASSUME NEW i \in 1..k + 1, NEW j \in 1..k + 1, t[i].id = t[j].id  PROVE i = j
    <2>1. \A n \in 1..k + 1 : n \in 1..k \/ n = k + 1
      OBVIOUS
    <2> QED  BY <1>1, <1>3, <1>4, <2>1 DEF OnceEach
  <1> QED  BY <1>2, <1>3, <1>4 DEF OnceEach

\* loses some of them
LEMMA OncePassed ==
    ASSUME NEW S, NEW s \in Seq(S), OnceEach(s), NEW spots \in SUBSET (DOMAIN s)
    PROVE  OnceEach(ElementsAt(s, spots))
  <1>1. PICK t : t = ElementsAt(s, spots)
    OBVIOUS
  <1>2. PICK c \in Nat : c = Cardinality(spots) /\ DOMAIN t = 1..c
    <2>1. t \in Seq(S) /\ Len(t) = Cardinality(spots) /\ Cardinality(spots) \in Nat
      BY <1>1, ElementsAtType
    <2> QED  BY <2>1, LenProperties
  <1>3. \A n \in 1..c : \E i \in spots : Rank(spots, i) = n - 1 /\ t[n] = s[i]
    BY <1>1, <1>2, ElementsAtType
  <1>4. ASSUME NEW n \in 1..c, NEW m \in 1..c, t[n].id = t[m].id  PROVE n = m
    <2>1. PICK i \in spots : Rank(spots, i) = n - 1 /\ t[n] = s[i]
      BY <1>3
    <2>2. PICK j \in spots : Rank(spots, j) = m - 1 /\ t[m] = s[j]
      BY <1>3
    <2>3. i = j
      <3>1. s[i].id = s[j].id
        BY <1>4, <2>1, <2>2
      <3>2. i \in DOMAIN s /\ j \in DOMAIN s
        BY <2>1, <2>2
      <3> QED  BY <3>1, <3>2 DEF OnceEach
    <2>4. n - 1 = m - 1
      BY <2>1, <2>2, <2>3
    <2> QED  BY <2>4
  <1> QED  BY <1>1, <1>2, <1>4 DEF OnceEach

\* or has one of them moved.
LEMMA OnceMoved ==
    ASSUME NEW S, NEW s \in Seq(S), OnceEach(s), NEW k \in Nat, k = Len(s),
           NEW a \in 1..k, NEW b \in 1..k, NEW t, IsMoved(t, s, a, b)
    PROVE  OnceEach(t)
  <1>1. DOMAIN s = 1..k
    BY LenProperties
  <1>2. DOMAIN t = 1..k /\ IsShuffled(t, s, k)
    BY MoveWithin
  <1>3. PICK from \in [1..k -> 1..k] : /\ \A i \in 1..k : t[i] = s[from[i]]
                                       /\ \A i, j \in 1..k : from[i] = from[j] => i = j
    BY <1>2 DEF IsShuffled
  <1>4. ASSUME NEW i \in 1..k, NEW j \in 1..k, t[i].id = t[j].id  PROVE i = j
    <2>1. from[i] \in 1..k /\ from[j] \in 1..k /\ s[from[i]].id = s[from[j]].id
      BY <1>3, <1>4
    <2>2. from[i] = from[j]
      BY <1>1, <2>1 DEF OnceEach
    <2> QED  BY <1>3, <2>2
  <1> QED  BY <1>2, <1>4 DEF OnceEach

\* or gets a new one put between them,
GrownBy(t, s, e) == \A i \in DOMAIN t : t[i] = e \/ \E j \in DOMAIN s : t[i] = s[j]
LEMMA OnceInsert ==
    ASSUME NEW S, NEW s \in Seq(S), OnceEach(s), NEW n \in 1..Len(s) + 1, NEW e \in S,
           \A i \in DOMAIN s : s[i].id # e.id
    PROVE  OnceEach(InsertAt(s, n, e)) /\ GrownBy(InsertAt(s, n, e), s, e)
  <1>1. PICK k \in Nat : k = Len(s) /\ DOMAIN s = 1..k
    BY LenProperties
  <1>2. PICK t : t = InsertAt(s, n, e)
    OBVIOUS
  <1>3. /\ t \in Seq(S) /\ Len(t) = k + 1
        /\ \A i \in 1..k + 1 : t[i] = IF i < n THEN s[i] ELSE IF i = n THEN e ELSE s[i - 1]
    <2>1. IsInserted(InsertAt(s, n, e), s, Len(s), n, e, S)
      BY InsertFacts
    <2>2. IsInserted(t, s, k, n, e, S)
      BY <1>1, <1>2, <2>1, Zenon
    <2> QED  BY <2>2 DEF IsInserted
  <1>4. DOMAIN t = 1..k + 1 /\ n \in 1..k + 1
    BY <1>1, <1>3, LenProperties
  <1> DEFINE at(i) == IF i < n THEN i ELSE i - 1
  <1>5. \A i \in 1..k + 1 : i # n => at(i) \in 1..k
    BY <1>4
  <1>6. ASSUME NEW i \in 1..k + 1, i # n  PROVE t[i] = s[at(i)]
    <2>1. CASE i < n
      BY <1>3, <2>1
    <2>2. CASE ~(i < n)
      BY <1>3, <1>6, <2>2
    <2> QED  BY <2>1, <2>2
  <1>7. t[n] = e
    BY <1>3, <1>4
  <1>8. \A i, j \in 1..k + 1 : i # n /\ j # n /\ at(i) = at(j) => i = j
    BY <1>4
  <1> HIDE DEF at
  <1>9. ASSUME NEW i \in 1..k + 1, NEW j \in 1..k + 1, t[i].id = t[j].id  PROVE i = j
    <2>1. CASE i = n /\ j = n
      BY <2>1
    <2>2. CASE i # n /\ j # n
      <3>1. s[at(i)].id = s[at(j)].id /\ at(i) \in 1..k /\ at(j) \in 1..k
        BY <1>5, <1>6, <1>9, <2>2
      <3>2. at(i) = at(j)
        BY <1>1, <3>1 DEF OnceEach
      <3> QED  BY <1>8, <2>2, <3>2
    <2>3. CASE i = n /\ j # n
      <3>1. at(j) \in 1..k /\ s[at(j)].id = e.id
        BY <1>5, <1>6, <1>7, <1>9, <2>3
      <3> QED  BY <1>1, <3>1
    <2>4. CASE i # n /\ j = n
      <3>1. at(i) \in 1..k /\ s[at(i)].id = e.id
        BY <1>5, <1>6, <1>7, <1>9, <2>4
      <3> QED  BY <1>1, <3>1
    <2> QED  BY <2>1, <2>2, <2>3, <2>4
  <1>10. GrownBy(t, s, e)
    <2>1. \A i \in 1..k + 1 : t[i] = e \/ \E j \in 1..k : t[i] = s[j]
      BY <1>5, <1>6, <1>7
    <2> QED  BY <1>1, <1>4, <2>1 DEF GrownBy
  <1>11. OnceEach(t)
    BY <1>4, <1>9 DEF OnceEach
  <1> QED  BY <1>2, <1>10, <1>11
=============================================================================
