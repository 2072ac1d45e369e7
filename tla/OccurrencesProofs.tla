-------------------------- MODULE OccurrencesProofs --------------------------
(* What operations on a queue do to how often something is in it, and what *)
(* one change does to the cardinality of a set.                            *)
EXTENDS Occurrences, SequencesExt, FiniteSetTheorems, SequenceTheorems, TLAPS

LEMMA CardinalityNat ==
  \A X : IsFiniteSet(X) => Cardinality(X) \in Nat /\ (Cardinality(X) = 0 <=> X = {})
BY FS_CardinalityType, FS_EmptySet

LEMMA CardinalityDisjoint ==
  ASSUME NEW X, NEW Y, IsFiniteSet(X), IsFiniteSet(Y), X \cap Y = {}
  PROVE  Cardinality(X \cup Y) = Cardinality(X) + Cardinality(Y)
<1>1. Cardinality(X \cup Y) = Cardinality(X) + Cardinality(Y) - Cardinality({})
    BY FS_Union
<1>2. QED
    BY <1>1, CardinalityNat, FS_EmptySet

LEMMA PlacesFinite ==
  ASSUME NEW S, NEW s \in Seq(S), NEW o
  PROVE  /\ IsFiniteSet({i \in DOMAIN s : s[i] = o})
         /\ Times(o, s) \in Nat
         /\ Times(o, s) > 0 <=> \E i \in DOMAIN s : s[i] = o
<1>1. DOMAIN s = 1..Len(s) /\ Len(s) \in Nat
    BY LenProperties
<1>2. IsFiniteSet(DOMAIN s)
    BY <1>1, FS_Interval
<1>3. IsFiniteSet({i \in DOMAIN s : s[i] = o})
    BY <1>2, FS_Subset
<1>4. QED
    BY <1>3, FS_CardinalityType, FS_EmptySet DEF Times

LEMMA TimesEmpty == \A o : Times(o, <<>>) = 0
<1> TAKE o
<1>1. {i \in DOMAIN <<>> : <<>>[i] = o} = {}
    OBVIOUS
<1>2. QED
    BY <1>1, FS_EmptySet DEF Times

LEMMA TimesOne == \A o, p : Times(o, <<p>>) = IF o = p THEN 1 ELSE 0
<1> TAKE o, p
<1>1. CASE o = p
  <2>1. {i \in DOMAIN <<p>> : <<p>>[i] = o} = {1}
      BY <1>1
  <2>2. QED
      BY <1>1, <2>1, FS_Singleton DEF Times
<1>2. CASE o # p
  <2>1. {i \in DOMAIN <<p>> : <<p>>[i] = o} = {}
      BY <1>2
  <2>2. QED
      BY <1>2, <2>1, FS_EmptySet DEF Times
<1>3. QED
    BY <1>1, <1>2

LEMMA TimesConcat ==
  ASSUME NEW S, NEW s \in Seq(S), NEW t \in Seq(S), NEW o
  PROVE  Times(o, s \o t) = Times(o, s) + Times(o, t)
<1> DEFINE m == Len(s)
           A == {i \in DOMAIN s : s[i] = o}
           B == {i \in DOMAIN t : t[i] = o}
           C == {m + i : i \in B}
           D == {i \in DOMAIN (s \o t) : (s \o t)[i] = o}
<1>1. /\ m \in Nat /\ DOMAIN s = 1..m
      /\ Len(t) \in Nat /\ DOMAIN t = 1..Len(t)
      /\ DOMAIN (s \o t) = 1..(m + Len(t))
      /\ \A i \in 1..(m + Len(t)) : (s \o t)[i] = IF i <= m THEN s[i] ELSE t[i - m]
    BY LenProperties, ConcatProperties
<1>2. IsFiniteSet(A) /\ IsFiniteSet(B)
    BY PlacesFinite
<1>3. D = A \cup C
  <2>1. ASSUME NEW i \in D PROVE i \in A \cup C
    <3>1. CASE i <= m
        BY <1>1, <2>1, <3>1
    <3>2. CASE i > m
      <4>1. i - m \in B /\ i = m + (i - m)
          BY <1>1, <2>1, <3>2
      <4>2. QED
          BY <4>1
    <3>3. QED
        BY <1>1, <2>1, <3>1, <3>2
  <2>2. ASSUME NEW i \in A PROVE i \in D
      BY <1>1, <2>2
  <2>3. ASSUME NEW j \in B PROVE m + j \in D
    <3>1. j \in 1..Len(t) /\ t[j] = o
        BY <1>1, <2>3
    <3>2. m + j \in 1..(m + Len(t)) /\ ~(m + j <= m) /\ (m + j) - m = j
        BY <1>1, <3>1
    <3>3. QED
        BY <1>1, <3>1, <3>2
  <2>4. QED
      BY <2>1, <2>2, <2>3
<1>4. A \cap C = {}
    BY <1>1
<1>5. IsFiniteSet(C) /\ Cardinality(C) = Cardinality(B)
  <2> DEFINE f == [i \in B |-> m + i]
  <2>1. f \in Bijection(B, C)
    <3>1. f \in [B -> C]
        OBVIOUS
    <3>2. \A i, j \in B : f[i] = f[j] => i = j
        BY <1>1
    <3>3. \A c \in C : \E i \in B : f[i] = c
        OBVIOUS
    <3>4. QED
        BY <3>1, <3>2, <3>3 DEF Bijection, Injection, Surjection, IsInjective
  <2>2. ExistsBijection(B, C)
      BY <2>1 DEF ExistsBijection
  <2>3. QED
      BY <1>2, <2>2, FS_Bijection
<1>6. Cardinality(A \cup C) = Cardinality(A) + Cardinality(C)
  <2> HIDE DEF A, C
  <2>1. QED
      BY <1>2, <1>4, <1>5, CardinalityDisjoint
<1>7. QED
    BY <1>3, <1>5, <1>6 DEF Times

LEMMA TimesTail ==
  ASSUME NEW S, NEW s \in Seq(S), s # <<>>, NEW o
  PROVE  Times(o, s) = Times(o, Tail(s)) + (IF o = Head(s) THEN 1 ELSE 0)
<1>1. Head(s) \in S /\ Tail(s) \in Seq(S) /\ <<Head(s)>> \in Seq(S)
    BY HeadTailProperties
<1>2. s = <<Head(s)>> \o Tail(s)
    OBVIOUS
<1>3. Times(o, s) = Times(o, <<Head(s)>>) + Times(o, Tail(s))
    BY <1>1, <1>2, TimesConcat
<1>4. Times(o, Tail(s)) \in Nat
    BY <1>1, PlacesFinite
<1>5. QED
    BY <1>3, <1>4, TimesOne

LEMMA TimesRemoveAt ==
  ASSUME NEW S, NEW s \in Seq(S), NEW i \in DOMAIN s, NEW o
  PROVE  /\ RemoveAt(s, i) \in Seq(S)
         /\ Times(o, s) = Times(o, RemoveAt(s, i)) + (IF o = s[i] THEN 1 ELSE 0)
<1> DEFINE a == SubSeq(s, 1, i - 1)
           b == SubSeq(s, i + 1, Len(s))
<1>1. Len(s) \in Nat /\ i \in 1..Len(s) /\ s[i] \in S
    BY LenProperties, ElementOfSeq
<1>2. a \in Seq(S) /\ b \in Seq(S) /\ <<s[i]>> \in Seq(S)
    BY <1>1
<1>3. s = (a \o <<s[i]>>) \o b
  <2>1. 1 \in 1..Len(s) /\ i \in 1..Len(s) /\ 1 \in 1..(Len(s) + 1) /\ i \in (1 - 1)..Len(s)
        /\ Len(s) \in i..Len(s)
      BY <1>1
  <2>2. SubSeq(s, 1, i) = SubSeq(s, 1, i - 1) \o <<s[i]>>
      BY <2>1, SubSeqRecursiveSecond
  <2>3. SubSeq(s, 1, i) \o SubSeq(s, i + 1, Len(s)) = SubSeq(s, 1, Len(s))
      BY <2>1, ConcatAdjacentSubSeq
  <2>4. QED
      BY <2>2, <2>3, SubSeqFull
<1>4. Times(o, s) = Times(o, a) + Times(o, <<s[i]>>) + Times(o, b)
  <2> HIDE DEF a, b
  <2>0. PICK c \in Seq(S), d \in Seq(S), e \in Seq(S) : c = a /\ d = <<s[i]>> /\ e = b
    <3>1. PICK d \in Seq(S) : d = <<s[i]>>
        BY <1>2, Zenon
    <3>2. QED
        BY <1>2, <3>1
  <2>1. PICK f \in Seq(S) : f = c \o d
    <3>1. c \o d \in Seq(S)
        OBVIOUS
    <3>2. QED
        BY <3>1
  <2>2. f = c \o d /\ s = f \o e
      BY <1>3, <2>0, <2>1
  <2>3. Times(o, f \o e) = Times(o, f) + Times(o, e)
      BY TimesConcat
  <2>4. Times(o, c \o d) = Times(o, c) + Times(o, d)
      BY TimesConcat
  <2>5. QED
      BY <2>0, <2>2, <2>3, <2>4
<1>5. RemoveAt(s, i) = a \o b
    BY DEF RemoveAt
<1>6. Times(o, RemoveAt(s, i)) = Times(o, a) + Times(o, b)
    BY <1>2, <1>5, TimesConcat
<1>7. Times(o, a) \in Nat /\ Times(o, b) \in Nat
    BY <1>2, PlacesFinite
<1>8. QED
    BY <1>2, <1>4, <1>5, <1>6, <1>7, TimesOne

(* a set of threads in which only one of them changes                      *)
LEMMA CountChange ==
  ASSUME NEW X, IsFiniteSet(X), NEW A \in SUBSET X, NEW B \in SUBSET X, NEW x \in X,
         \A y \in X : y # x => (y \in A <=> y \in B)
  PROVE  /\ Cardinality(A) \in Nat /\ Cardinality(B) \in Nat
         /\ Cardinality(B) + (IF x \in A THEN 1 ELSE 0)
              = Cardinality(A) + (IF x \in B THEN 1 ELSE 0)
<1>1. IsFiniteSet(A) /\ IsFiniteSet(B)
    BY FS_Subset
<1>2. Cardinality(A) \in Nat /\ Cardinality(B) \in Nat
    BY <1>1, CardinalityNat
<1>3. CASE x \in A /\ x \notin B
  <2>1. B = A \ {x}
      BY <1>3
  <2>2. Cardinality(B) = Cardinality(A) - 1
      BY <1>1, <1>3, <2>1, FS_RemoveElement
  <2>3. QED
      BY <1>2, <1>3, <2>2
<1>4. CASE x \notin A /\ x \in B
  <2>1. B = A \cup {x}
      BY <1>4
  <2>2. Cardinality(B) = Cardinality(A) + 1
      BY <1>1, <1>4, <2>1, FS_AddElement
  <2>3. QED
      BY <1>2, <1>4, <2>2
<1>5. CASE x \in A <=> x \in B
  <2>1. B = A
      BY <1>5
  <2>2. QED
      BY <1>2, <1>5, <2>1
<1>6. QED
    BY <1>3, <1>4, <1>5

LEMMA TimesAppend ==
  ASSUME NEW S, NEW s \in Seq(S), NEW p \in S, NEW o
  PROVE  Times(o, Append(s, p)) = Times(o, s) + (IF o = p THEN 1 ELSE 0)
<1>1. <<p>> \in Seq(S) /\ Append(s, p) = s \o <<p>>
    OBVIOUS
<1>2. Times(o, Append(s, p)) = Times(o, s) + Times(o, <<p>>)
    BY <1>1, TimesConcat
<1>3. QED
    BY <1>2, TimesOne
=============================================================================
