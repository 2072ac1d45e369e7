--------------------------- MODULE InterfaceProofs ---------------------------
(* What holds of the interface for every number of frames, every tree of   *)
(* them, every set of inputs and every order of the events: the tree stays *)
(* a tree, what a loop says of its turn, what is under the pointer, and    *)
(* which edit box takes the characters.  IInv is the inductive invariant,  *)
(* and each action preserves each of its conjuncts.                        *)
EXTENDS Interface, SequenceTheorems, FiniteSetTheorems, WellFoundedInduction,
        NaturalsInduction, TLAPS

(* The activations.                                                        *)
Doings == {"script", "entering", "click", "release", "pressed", "focus", "gain", "conceal"}
Activations ==
  [do : Loops, of : Null..N, at : Nat, due : SUBSET Frames, passed : Seq(Frames),
   stir : SUBSET {"in", "out"}]
  \cup [do : Doings, of : Null..N]

Typed ==
  /\ born \in SUBSET Frames /\ gone \in SUBSET born /\ freed \in SUBSET gone
  /\ orphans \in SUBSET born
  /\ parent \in [Frames -> Null..N] /\ rank \in [Frames -> {0, 1}]
  /\ children \in [Null..N -> Seq(Frames)] /\ listeners \in Seq(Frames)
  /\ hidden \in SUBSET Frames /\ mouse \in SUBSET Frames
  /\ hovered \in SUBSET Frames /\ clicked \in SUBSET Frames
  /\ lapsed \in SUBSET Frames /\ stuck \in SUBSET Frames /\ pressed \in SUBSET Frames
  /\ active \in Null..N /\ enabled \in SUBSET Frames /\ strayed \in SUBSET Frames
  /\ registered \in SUBSET born
  /\ stack \in Seq(Activations) /\ used \in BOOLEAN
  /\ calls \in Nat /\ switches \in Nat

(* No frame is below itself: each was put in one that was there.           *)
Nested ==
  \E depth \in [Frames -> Nat] :
    \A f \in born : parent[f] # Null => depth[parent[f]] < depth[f]

(* What interface_clear left is in what it left or deleted: in the list of *)
(* its parent, or an orphan.                                               *)
Behind ==
  /\ \A f \in gone : parent[f] \in {Null} \cup gone
  /\ \A f \in gone \ freed : parent[f] \in gone \ freed => f \in ToSet(children[parent[f]])
  /\ orphans = {f \in gone \ freed : parent[f] \in freed}

(* The list of a frame of the interface has its children; those that       *)
(* interface_clear left keep the children that it did not delete.          *)
ListedUnder(p) ==
  /\ IsInjective(children[p])
  /\ ToSet(children[p]) = {f \in Alive : parent[f] = p}
  /\ p # Null =>
       \A i, j \in DOMAIN children[p] : i < j => rank[children[p][i]] <= rank[children[p][j]]
Listed ==
  /\ \A f \in born : parent[f] \in born \cup {Null}
  /\ \A f \in Alive : parent[f] \in Alive \cup {Null}
  /\ \A p \in {Null} \cup Alive : ListedUnder(p)
  /\ \A p \in gone : \A f \in ToSet(children[p]) : parent[f] = p /\ f \in gone \ freed
  /\ Behind
  /\ \A p \in Frames \ born : children[p] = <<>>
  /\ IsInjective(listeners) /\ ToSet(listeners) = registered \cap Alive
  /\ active \in {Null} \cup (Inputs \cap Alive)

(* What runs is about frames of the interface, and only an edit box takes  *)
(* the focus.                                                              *)
About(a) ==
  /\ a.of \in {Null} \cup Alive
  /\ a.do \in {"pressed", "focus", "gain"} => a.of \in {Null} \cup Inputs
  /\ a.do \in {"click", "release", "conceal"} => a.of # Null
  /\ a.do = "event" => a.of = Null
Acts == ToSet(stack)
Stacked == \A a \in Acts : About(a)

(* While an input is losing the focus none has it, but those that a script *)
(* gave it; of the functions in the middle of giving it the innermost are  *)
(* in scripts of the outer ones.                                           *)
Focused ==
  /\ enabled \subseteq {active} \cup strayed
  /\ Losing => enabled \subseteq strayed
  /\ \A i, j \in DOMAIN stack :
       i < j /\ stack[i].do = "gain" /\ stack[j].do = "gain" => stack[i].of \in {Null} \cup strayed

(* What a loop has passed and what it has before it.                       *)
Before(a) == {ListOf(a.do, a.of)[j] : j \in {k \in DOMAIN ListOf(a.do, a.of) : k <= a.at}}
After(a) == {ListOf(a.do, a.of)[j] : j \in {k \in DOMAIN ListOf(a.do, a.of) : k >= a.at}}
Prefix(a) ==
  /\ a.due \subseteq ToSet(ListOf(a.do, a.of))
  /\ Len(a.passed) = a.at - 1 /\ a.at <= Len(ListOf(a.do, a.of)) + 1
  /\ \A i \in DOMAIN a.passed : a.passed[i] = ListOf(a.do, a.of)[i]
Onward(a) ==
  a.do \in Forwards /\ a.at > 0 /\ "out" \notin a.stir =>
    /\ a.do = "event" \/ a.stir = {} => Prefix(a)
    /\ a.do # "event" => a.due \subseteq ToSet(a.passed) \cup After(a)
Backward(a) ==
  a.do \in Backwards =>
    /\ a.at <= Len(children[a.of])
    /\ ToSet(a.passed) \subseteq Alive
    /\ "out" \notin a.stir => IsInjective(a.passed) /\ ToSet(a.passed) \cap Before(a) = {}
    /\ a.stir = {} => a.due \subseteq ToSet(a.passed) \cup Before(a)
Walked == \A a \in Acts : a.do \in Loops => Onward(a) /\ Backward(a)

(* The walks of the pointer start from the window, one at a time.          *)
Walk(do) == \E a \in Acts : a.do = do
Bottom == stack[Len(stack)]
OneWalk ==
  \A i \in DOMAIN stack :
    /\ stack[i].do \in Backwards => Bottom.do = stack[i].do /\ Bottom.of = Null
    /\ stack[i].do \in Backwards /\ stack[i].of = Null => i = Len(stack)
    /\ stack[i].do = "entering" => i = Len(stack)

(* A walk has yet to come to a frame when that one is its own, or below    *)
(* one that it has before it.                                              *)
Comes(a, do, f) == a.do = do /\ (a.of = f \/ Before(a) \cap Line(f) # {})
ToCome(do, f) == \E a \in Acts : Comes(a, do, f)
ToRelease(f) == \E a \in Acts : a.do = "release" /\ a.of = f

Reachable(f) == f \in Alive \cap mouse /\ Shown(f)
Left == {f \in hovered \ lapsed : ~ToCome("move", f)}
Lone(fs) == \A f, g \in fs : f = g
Hovering ==
  /\ \A f \in hovered \ lapsed : Reachable(f)
  /\ IF Walk("move") THEN Lone(Left) /\ (Left # {} => used) ELSE Lone(hovered \ lapsed)
Clicking ==
  /\ \A f \in clicked \ stuck : Reachable(f)
  /\ clicked \subseteq pressed \cup stuck
  /\ Walk("up") => \A f \in clicked \ stuck : ToCome("up", f) \/ ToRelease(f)

IInv == Typed /\ Nested /\ Listed /\ Stacked /\ Focused /\ Walked /\ OneWalk /\ Hovering /\ Clicking
-----------------------------------------------------------------------------
(* Sequences.                                                              *)

LEMMA ConcatIs ==
  ASSUME NEW A, NEW p \in Seq(A), NEW s \in Seq(A)
  PROVE  /\ p \o s \in Seq(A)
         /\ Len(p) \in Nat /\ DOMAIN p = 1..Len(p)
         /\ Len(s) \in Nat /\ DOMAIN s = 1..Len(s)
         /\ Len(p \o s) = Len(p) + Len(s) /\ DOMAIN (p \o s) = 1..(Len(p) + Len(s))
         /\ \A i \in 1..Len(p) : (p \o s)[i] = p[i]
         /\ \A i \in 1..Len(s) : (p \o s)[Len(p) + i] = s[i]
         /\ ToSet(p \o s) = ToSet(p) \cup ToSet(s)
<1>1. /\ p \o s \in Seq(A)
      /\ Len(p) \in Nat /\ DOMAIN p = 1..Len(p)
      /\ Len(s) \in Nat /\ DOMAIN s = 1..Len(s)
      /\ Len(p \o s) = Len(p) + Len(s) /\ DOMAIN (p \o s) = 1..(Len(p) + Len(s))
      /\ \A i \in 1..Len(p) + Len(s) : (p \o s)[i] = IF i <= Len(p) THEN p[i] ELSE s[i - Len(p)]
  BY ConcatProperties, LenProperties
<1>2. \A i \in 1..Len(p) : (p \o s)[i] = p[i]
  BY <1>1
<1>3. \A i \in 1..Len(s) : (p \o s)[Len(p) + i] = s[i]
  BY <1>1
<1>4. ToSet(p \o s) \subseteq ToSet(p) \cup ToSet(s)
  <2>1. SUFFICES ASSUME NEW i \in 1..Len(p) + Len(s)
                 PROVE  (p \o s)[i] \in ToSet(p) \cup ToSet(s)
    BY <1>1 DEF ToSet
  <2>2. CASE i <= Len(p)
    BY <1>1, <2>2 DEF ToSet
  <2>3. CASE ~(i <= Len(p))
    <3>1. i - Len(p) \in DOMAIN s /\ (p \o s)[i] = s[i - Len(p)]
      BY <1>1, <2>3
    <3>2. QED
      BY <3>1 DEF ToSet
  <2>4. QED
    BY <2>2, <2>3
<1>5. ToSet(p) \cup ToSet(s) \subseteq ToSet(p \o s)
  <2>1. \A i \in DOMAIN p : p[i] \in ToSet(p \o s)
    BY <1>1, <1>2 DEF ToSet
  <2>2. ASSUME NEW i \in DOMAIN s PROVE s[i] \in ToSet(p \o s)
    <3>1. Len(p) + i \in DOMAIN (p \o s) /\ (p \o s)[Len(p) + i] = s[i]
      BY <1>1, <1>3
    <3>2. QED
      BY <3>1 DEF ToSet
  <2>3. QED
    BY <2>1, <2>2 DEF ToSet
<1>6. QED
  BY <1>1, <1>2, <1>3, <1>4, <1>5

LEMMA TailIs ==
  ASSUME NEW A, NEW s \in Seq(A), s # <<>>
  PROVE  /\ Head(s) \in A /\ Head(s) = s[1] /\ Tail(s) \in Seq(A)
         /\ Len(s) \in Nat \ {0} /\ Len(Tail(s)) = Len(s) - 1
         /\ DOMAIN s = 1..Len(s) /\ DOMAIN Tail(s) = 1..Len(s) - 1
         /\ \A i \in 1..Len(s) - 1 : Tail(s)[i] = s[i + 1]
         /\ ToSet(s) = {Head(s)} \cup ToSet(Tail(s))
<1>1. /\ Head(s) \in A /\ Head(s) = s[1] /\ Tail(s) \in Seq(A)
      /\ Len(s) \in Nat \ {0} /\ Len(Tail(s)) = Len(s) - 1
      /\ DOMAIN s = 1..Len(s) /\ DOMAIN Tail(s) = 1..Len(s) - 1
      /\ \A i \in 1..Len(s) - 1 : Tail(s)[i] = s[i + 1]
  BY HeadTailProperties, EmptySeq, LenProperties
<1>2. ASSUME NEW i \in DOMAIN s PROVE s[i] \in {Head(s)} \cup ToSet(Tail(s))
  <2>1. CASE i = 1
    BY <1>1, <2>1
  <2>2. CASE i # 1
    <3>1. i - 1 \in DOMAIN Tail(s) /\ Tail(s)[i - 1] = s[i]
      BY <1>1, <2>2
    <3>2. QED
      BY <3>1 DEF ToSet
  <2>3. QED
    BY <2>1, <2>2
<1>3. ASSUME NEW i \in DOMAIN Tail(s) PROVE Tail(s)[i] \in ToSet(s)
  <2>1. i + 1 \in DOMAIN s /\ Tail(s)[i] = s[i + 1]
    BY <1>1
  <2>2. QED
    BY <2>1 DEF ToSet
<1>4. Head(s) \in ToSet(s)
  BY <1>1 DEF ToSet
<1>5. QED
  BY <1>1, <1>2, <1>3, <1>4 DEF ToSet

LEMMA OneIs ==
  ASSUME NEW A, NEW a \in A
  PROVE  /\ <<a>> \in Seq(A) /\ Len(<<a>>) = 1 /\ <<a>>[1] = a /\ <<a>> # <<>>
         /\ DOMAIN <<a>> = {1} /\ ToSet(<<a>>) = {a}
BY DEF ToSet

LEMMA NoneIs ==
  ASSUME NEW A
  PROVE  <<>> \in Seq(A) /\ Len(<<>>) = 0 /\ DOMAIN <<>> = {} /\ ToSet(<<>>) = {}
BY DEF ToSet

LEMMA AppendIs ==
  ASSUME NEW A, NEW s \in Seq(A), NEW a \in A
  PROVE  /\ Append(s, a) \in Seq(A) /\ Len(s) \in Nat /\ DOMAIN s = 1..Len(s)
         /\ Len(Append(s, a)) = Len(s) + 1 /\ DOMAIN Append(s, a) = 1..Len(s) + 1
         /\ \A i \in 1..Len(s) : Append(s, a)[i] = s[i]
         /\ Append(s, a)[Len(s) + 1] = a
         /\ ToSet(Append(s, a)) = ToSet(s) \cup {a}
         /\ IsInjective(s) /\ a \notin ToSet(s) => IsInjective(Append(s, a))
<1>1. /\ Append(s, a) \in Seq(A) /\ Len(s) \in Nat /\ DOMAIN s = 1..Len(s)
      /\ Len(Append(s, a)) = Len(s) + 1 /\ DOMAIN Append(s, a) = 1..Len(s) + 1
      /\ \A i \in 1..Len(s) : Append(s, a)[i] = s[i]
      /\ Append(s, a)[Len(s) + 1] = a
  BY AppendProperties, LenProperties
<1>2. ToSet(Append(s, a)) = ToSet(s) \cup {a}
  <2>1. Append(s, a) = s \o <<a>> /\ <<a>> \in Seq(A)
    BY AppendIsConcat
  <2>2. ToSet(s \o <<a>>) = ToSet(s) \cup ToSet(<<a>>)
    BY ZenonT(30), <2>1, ConcatIs
  <2>3. ToSet(<<a>>) = {a}
    BY OneIs
  <2>4. QED
    BY <2>1, <2>2, <2>3
<1>3. IsInjective(s) /\ a \notin ToSet(s) => IsInjective(Append(s, a))
  BY <1>1 DEF IsInjective, ToSet
<1>4. QED
  BY <1>1, <1>2, <1>3

LEMMA InsertIs ==
  ASSUME NEW A, NEW s \in Seq(A), NEW e \in A, NEW at \in 1..Len(s) + 1
  PROVE  /\ InsertAt(s, at, e) \in Seq(A) /\ Len(s) \in Nat /\ DOMAIN s = 1..Len(s)
         /\ Len(InsertAt(s, at, e)) = Len(s) + 1
         /\ DOMAIN InsertAt(s, at, e) = 1..Len(s) + 1
         /\ \A i \in 1..at - 1 : InsertAt(s, at, e)[i] = s[i]
         /\ InsertAt(s, at, e)[at] = e
         /\ \A i \in at..Len(s) : InsertAt(s, at, e)[i + 1] = s[i]
         /\ ToSet(InsertAt(s, at, e)) = ToSet(s) \cup {e}
         /\ IsInjective(s) /\ e \notin ToSet(s) => IsInjective(InsertAt(s, at, e))
<1> DEFINE a == SubSeq(s, 1, at - 1)
           b == SubSeq(s, at, Len(s))
           t == InsertAt(s, at, e)
<1>1. Len(s) \in Nat /\ DOMAIN s = 1..Len(s) /\ at \in Nat /\ at >= 1 /\ at <= Len(s) + 1
      /\ \A i \in 1..Len(s) : s[i] \in A
  BY LenProperties, ElementOfSeq
<1>2. /\ a \in Seq(A) /\ Len(a) = at - 1 /\ \A i \in 1..at - 1 : a[i] = s[i]
  <2>1. \A i \in 1..at - 1 : s[i] \in A
    BY <1>1
  <2>2. /\ a \in Seq(A) /\ Len(a) = IF 1 <= at - 1 THEN at - 1 - 1 + 1 ELSE 0
        /\ \A i \in 1..at - 1 - 1 + 1 : a[i] = s[1 + i - 1]
    BY <1>1, <2>1, SubSeqProperties
  <2> HIDE DEF a
  <2>3. QED
    BY <1>1, <2>2
<1>3. /\ b \in Seq(A) /\ Len(b) = Len(s) - at + 1
      /\ \A i \in 1..Len(s) - at + 1 : b[i] = s[at + i - 1]
  <2>1. \A i \in at..Len(s) : s[i] \in A
    BY <1>1
  <2>2. /\ b \in Seq(A) /\ Len(b) = IF at <= Len(s) THEN Len(s) - at + 1 ELSE 0
        /\ \A i \in 1..Len(s) - at + 1 : b[i] = s[at + i - 1]
    BY <1>1, <2>1, SubSeqProperties
  <2> HIDE DEF b
  <2>3. QED
    BY <1>1, <2>2
<1>4. t = (a \o <<e>>) \o b
  BY DEF InsertAt
<1> HIDE DEF a, b, t
<1>5. <<e>> \in Seq(A) /\ Len(<<e>>) = 1 /\ <<e>>[1] = e
  BY OneIs
<1>6. /\ a \o <<e>> \in Seq(A) /\ Len(a \o <<e>>) = at
      /\ \A i \in 1..at - 1 : (a \o <<e>>)[i] = s[i]
      /\ (a \o <<e>>)[at] = e
  <2>1. /\ a \o <<e>> \in Seq(A) /\ Len(a \o <<e>>) = Len(a) + 1
        /\ \A i \in 1..Len(a) : (a \o <<e>>)[i] = a[i]
        /\ \A i \in 1..Len(<<e>>) : (a \o <<e>>)[Len(a) + i] = <<e>>[i]
    BY <1>2, <1>5, ConcatIs
  <2>2. (a \o <<e>>)[Len(a) + 1] = e
    BY <1>5, <2>1
  <2>3. Len(a) = at - 1 /\ Len(a) + 1 = at
    BY <1>1, <1>2
  <2>4. \A i \in 1..at - 1 : (a \o <<e>>)[i] = a[i] /\ a[i] = s[i]
    BY <1>2, <2>1, <2>3
  <2>5. Len(a \o <<e>>) = at /\ (a \o <<e>>)[at] = e
    BY <2>1, <2>2, <2>3
  <2>6. QED
    BY <2>1, <2>4, <2>5
<1>7. /\ t \in Seq(A) /\ Len(t) = Len(s) + 1 /\ DOMAIN t = 1..Len(s) + 1
      /\ \A i \in 1..at : t[i] = (a \o <<e>>)[i]
      /\ \A i \in 1..Len(b) : t[at + i] = b[i]
  <2>1. /\ t \in Seq(A) /\ Len(t) = at + Len(b) /\ DOMAIN t = 1..at + Len(b)
        /\ \A i \in 1..at : t[i] = (a \o <<e>>)[i]
        /\ \A i \in 1..Len(b) : t[at + i] = b[i]
    BY SMTT(30), <1>3, <1>4, <1>6, ConcatIs
  <2>2. at + Len(b) = Len(s) + 1
    BY <1>1, <1>3
  <2>3. QED
    BY <2>1, <2>2
<1>8. (\A i \in 1..at - 1 : t[i] = s[i]) /\ t[at] = e
  BY <1>1, <1>6, <1>7
<1>9. ASSUME NEW i \in at..Len(s) PROVE t[i + 1] = s[i]
  <2>1. i - at + 1 \in 1..Len(b) /\ at + (i - at + 1) = i + 1 /\ at + (i - at + 1) - 1 = i
    BY <1>1, <1>3
  <2>2. t[at + (i - at + 1)] = b[i - at + 1] /\ b[i - at + 1] = s[at + (i - at + 1) - 1]
    BY <1>3, <1>7, <2>1
  <2>3. QED
    BY <2>1, <2>2
<1>10. \A i \in DOMAIN t : \/ i \in 1..at - 1 /\ t[i] = s[i]
                           \/ i = at /\ t[i] = e
                           \/ i - 1 \in at..Len(s) /\ t[i] = s[i - 1]
  <2>1. TAKE i \in DOMAIN t
  <2>2. CASE i > at
    <3>1. i - 1 \in at..Len(s) /\ (i - 1) + 1 = i
      BY <1>1, <1>7, <2>2
    <3>2. QED
      BY <1>9, <3>1
  <2>3. QED
    BY <1>1, <1>7, <1>8, <2>2
<1>11. ToSet(t) = ToSet(s) \cup {e}
  <2>1. ToSet(t) \subseteq ToSet(s) \cup {e}
    <3>1. SUFFICES ASSUME NEW i \in DOMAIN t PROVE t[i] \in ToSet(s) \cup {e}
      BY DEF ToSet
    <3>2. i \in 1..at - 1 => i \in DOMAIN s
      BY <1>1
    <3>3. i - 1 \in at..Len(s) => i - 1 \in DOMAIN s
      BY <1>1
    <3>4. QED
      BY <1>10, <3>2, <3>3 DEF ToSet
  <2>2. e \in ToSet(t)
    BY <1>1, <1>7, <1>8 DEF ToSet
  <2>3. ASSUME NEW i \in DOMAIN s PROVE s[i] \in ToSet(t)
    <3>1. CASE i < at
      <4>1. i \in 1..at - 1 /\ i \in DOMAIN t
        BY <1>1, <1>7, <3>1
      <4>2. QED
        BY <1>8, <4>1 DEF ToSet
    <3>2. CASE ~(i < at)
      <4>1. i \in at..Len(s) /\ i + 1 \in DOMAIN t
        BY <1>1, <1>7, <3>2
      <4>2. QED
        BY <1>9, <4>1 DEF ToSet
    <3>3. QED
      BY <3>1, <3>2
  <2>4. QED
    BY <2>1, <2>2, <2>3 DEF ToSet
<1>12. ASSUME IsInjective(s), e \notin ToSet(s) PROVE IsInjective(t)
  <2>1. SUFFICES ASSUME NEW i \in DOMAIN t, NEW j \in DOMAIN t, t[i] = t[j] PROVE i = j
    BY DEF IsInjective
  <2>2. \A k \in DOMAIN s : s[k] # e
    BY <1>12 DEF ToSet
  <2>3. \A k, l \in DOMAIN s : s[k] = s[l] => k = l
    BY <1>12 DEF IsInjective
  <2>4. i \in Int /\ j \in Int
    BY <1>1, <1>7
  <2>5. /\ i \in 1..at - 1 => i \in DOMAIN s
        /\ j \in 1..at - 1 => j \in DOMAIN s
        /\ i - 1 \in at..Len(s) => i - 1 \in DOMAIN s
        /\ j - 1 \in at..Len(s) => j - 1 \in DOMAIN s
    BY <1>1
  <2>6. CASE i = at
    BY <1>1, <1>8, <1>10, <2>1, <2>2, <2>4, <2>5, <2>6
  <2>7. CASE i # at /\ j = at
    BY <1>1, <1>8, <1>10, <2>1, <2>2, <2>4, <2>5, <2>7
  <2>8. CASE i \in 1..at - 1 /\ j # at
    BY <1>1, <1>10, <2>1, <2>3, <2>4, <2>5, <2>8
  <2>9. CASE i - 1 \in at..Len(s) /\ j # at
    BY <1>1, <1>10, <2>1, <2>3, <2>4, <2>5, <2>9
  <2>10. QED
    BY <1>10, <2>6, <2>7, <2>8, <2>9
<1>13. QED
  BY <1>1, <1>7, <1>8, <1>9, <1>11, <1>12 DEF t

LEMMA RemoveIs ==
  ASSUME NEW A, NEW s \in Seq(A), NEW at \in 1..Len(s)
  PROVE  /\ RemoveAt(s, at) \in Seq(A) /\ Len(s) \in Nat /\ DOMAIN s = 1..Len(s)
         /\ Len(RemoveAt(s, at)) = Len(s) - 1
         /\ DOMAIN RemoveAt(s, at) = 1..Len(s) - 1
         /\ \A i \in 1..at - 1 : RemoveAt(s, at)[i] = s[i]
         /\ \A i \in at..Len(s) - 1 : RemoveAt(s, at)[i] = s[i + 1]
         /\ IsInjective(s) => /\ IsInjective(RemoveAt(s, at))
                              /\ ToSet(RemoveAt(s, at)) = ToSet(s) \ {s[at]}
<1> DEFINE a == SubSeq(s, 1, at - 1)
           b == SubSeq(s, at + 1, Len(s))
           t == RemoveAt(s, at)
<1>1. Len(s) \in Nat /\ DOMAIN s = 1..Len(s) /\ at \in Nat /\ at >= 1 /\ at <= Len(s)
      /\ \A i \in 1..Len(s) : s[i] \in A
  BY LenProperties, ElementOfSeq
<1>2. /\ a \in Seq(A) /\ Len(a) = at - 1 /\ \A i \in 1..at - 1 : a[i] = s[i]
  <2>1. \A i \in 1..at - 1 : s[i] \in A
    BY <1>1
  <2>2. /\ a \in Seq(A) /\ Len(a) = IF 1 <= at - 1 THEN at - 1 - 1 + 1 ELSE 0
        /\ \A i \in 1..at - 1 - 1 + 1 : a[i] = s[1 + i - 1]
    BY <1>1, <2>1, SubSeqProperties
  <2> HIDE DEF a
  <2>3. QED
    BY <1>1, <2>2
<1>3. /\ b \in Seq(A) /\ Len(b) = Len(s) - at
      /\ \A i \in 1..Len(s) - at : b[i] = s[at + i]
  <2>1. \A i \in at + 1..Len(s) : s[i] \in A
    BY <1>1
  <2>2. /\ b \in Seq(A) /\ Len(b) = IF at + 1 <= Len(s) THEN Len(s) - (at + 1) + 1 ELSE 0
        /\ \A i \in 1..Len(s) - (at + 1) + 1 : b[i] = s[at + 1 + i - 1]
    BY <1>1, <2>1, SubSeqProperties
  <2> HIDE DEF b
  <2>3. Len(b) = Len(s) - at
    <3>1. CASE at + 1 <= Len(s)
      <4>1. Len(b) = Len(s) - (at + 1) + 1
        BY <2>2, <3>1
      <4>2. QED
        BY <1>1, <4>1
    <3>2. CASE ~(at + 1 <= Len(s))
      <4>1. Len(b) = 0
        BY <2>2, <3>2
      <4>2. Len(s) \in Int /\ at \in Int /\ at <= Len(s)
        BY <1>1
      <4>3. Len(s) - at = 0
        BY <3>2, <4>2
      <4>4. QED
        BY <4>1, <4>3
    <3>3. QED
      BY <3>1, <3>2
  <2>4. ASSUME NEW i \in 1..Len(s) - at PROVE b[i] = s[at + i]
    <3>1. i \in 1..Len(s) - (at + 1) + 1 /\ at + 1 + i - 1 = at + i
      BY <1>1
    <3>2. QED
      BY <2>2, <3>1
  <2>5. QED
    BY <2>2, <2>3, <2>4
<1>4. t = a \o b
  BY DEF RemoveAt
<1> HIDE DEF a, b, t
<1>5. /\ t \in Seq(A) /\ Len(t) = Len(s) - 1 /\ DOMAIN t = 1..Len(s) - 1
      /\ \A i \in 1..at - 1 : t[i] = s[i]
      /\ \A i \in 1..Len(b) : t[(at - 1) + i] = s[at + i]
  <2>1. /\ t \in Seq(A) /\ Len(t) = Len(a) + Len(b) /\ DOMAIN t = 1..Len(a) + Len(b)
        /\ \A i \in 1..Len(a) : t[i] = a[i]
        /\ \A i \in 1..Len(b) : t[Len(a) + i] = b[i]
    <3>1. /\ a \o b \in Seq(A) /\ Len(a \o b) = Len(a) + Len(b)
          /\ DOMAIN (a \o b) = 1..Len(a) + Len(b)
          /\ \A i \in 1..Len(a) : (a \o b)[i] = a[i]
          /\ \A i \in 1..Len(b) : (a \o b)[Len(a) + i] = b[i]
      <4>1. a \in Seq(A) /\ b \in Seq(A)
        BY <1>2, <1>3
      <4>2. QED
        BY <4>1, ConcatIs
    <3>2. QED
      BY <1>4, <3>1
  <2>2. Len(a) + Len(b) = Len(s) - 1
    BY <1>1, <1>2, <1>3
  <2>3. \A i \in 1..at - 1 : t[i] = s[i]
    BY <1>2, <2>1
  <2>4. \A i \in 1..Len(b) : t[(at - 1) + i] = s[at + i]
    BY <1>2, <1>3, <2>1
  <2>5. QED
    BY <2>1, <2>2, <2>3, <2>4
<1>6. ASSUME NEW i \in at..Len(s) - 1 PROVE t[i] = s[i + 1]
  <2>1. i - at + 1 \in 1..Len(b) /\ (at - 1) + (i - at + 1) = i /\ at + (i - at + 1) = i + 1
    BY <1>1, <1>3
  <2>2. QED
    BY <1>5, <2>1
<1>7. \A i \in DOMAIN t :
        /\ i \in DOMAIN s
        /\ \/ i < at /\ t[i] = s[i]
           \/ i >= at /\ i + 1 \in DOMAIN s /\ t[i] = s[i + 1]
  BY <1>1, <1>5, <1>6
<1>8. ASSUME IsInjective(s) PROVE IsInjective(t)
  <2>1. \A k, l \in DOMAIN s : s[k] = s[l] => k = l
    BY <1>8 DEF IsInjective
  <2>2. SUFFICES ASSUME NEW i \in DOMAIN t, NEW j \in DOMAIN t, t[i] = t[j] PROVE i = j
    BY DEF IsInjective
  <2>3. i \in Int /\ j \in Int /\ at \in Int
    BY <1>1, <1>5
  <2>4. CASE i < at
    BY <1>7, <2>1, <2>2, <2>3, <2>4
  <2>5. CASE i >= at
    BY <1>7, <2>1, <2>2, <2>3, <2>5
  <2>6. QED
    BY <2>3, <2>4, <2>5
<1>9. ASSUME IsInjective(s) PROVE ToSet(t) = ToSet(s) \ {s[at]}
  <2>1. \A k, l \in DOMAIN s : s[k] = s[l] => k = l
    BY <1>9 DEF IsInjective
  <2>2. ASSUME NEW i \in DOMAIN t PROVE t[i] \in ToSet(s) \ {s[at]}
    <3>1. PICK k \in DOMAIN s : t[i] = s[k] /\ k # at
      BY <1>1, <1>5, <1>7
    <3>2. QED
      BY <1>1, <2>1, <3>1 DEF ToSet
  <2>3. ASSUME NEW k \in DOMAIN s, s[k] # s[at] PROVE s[k] \in ToSet(t)
    <3>1. CASE k < at
      <4>1. k \in 1..at - 1 /\ k \in DOMAIN t
        BY <1>1, <1>5, <3>1
      <4>2. QED
        BY <1>5, <4>1 DEF ToSet
    <3>2. CASE ~(k < at)
      <4>1. k - 1 \in at..Len(s) - 1 /\ k - 1 \in DOMAIN t /\ (k - 1) + 1 = k
        BY <1>1, <1>5, <2>3, <3>2
      <4>2. QED
        BY <1>6, <4>1 DEF ToSet
    <3>3. QED
      BY <3>1, <3>2
  <2>4. QED
    BY <2>2, <2>3 DEF ToSet
<1>10. QED
  BY <1>1, <1>5, <1>6, <1>8, <1>9 DEF t

(* Taking a frame out of a list without repetitions.                       *)
LEMMA WithoutIs ==
  ASSUME NEW A, NEW s \in Seq(A), NEW f, IsInjective(s)
  PROVE  /\ Without(s, f) \in Seq(A) /\ IsInjective(Without(s, f))
         /\ ToSet(Without(s, f)) = ToSet(s) \ {f}
         /\ f \in ToSet(s) => \E at \in 1..Len(s) : s[at] = f /\ Without(s, f) = RemoveAt(s, at)
         /\ f \notin ToSet(s) => Without(s, f) = s
<1>1. Len(s) \in Nat /\ DOMAIN s = 1..Len(s)
  BY LenProperties
<1>2. CASE f \in ToSet(s)
  <2>1. PICK at \in 1..Len(s) : s[at] = f
    BY <1>1, <1>2 DEF ToSet
  <2>2. \A i \in 1..Len(s) : s[i] = f <=> i = at
    BY <1>1, <2>1 DEF IsInjective
  <2>3. SelectInSeq(s, LAMBDA v : v = f) = at
    <3>1. {i \in 1..Len(s) : s[i] = f} = {at}
      BY <2>2
    <3>2. Min({at}) = at
      BY <1>1 DEF Min
    <3>3. QED
      BY <3>1, <3>2 DEF SelectInSeq
  <2>4. Without(s, f) = RemoveAt(s, at)
    BY <1>2, <2>1, <2>3 DEF Without, RemoveFirst
  <2>5. QED
    BY <1>2, <2>1, <2>4, RemoveIs
<1>3. CASE f \notin ToSet(s)
  BY <1>3 DEF Without
<1>4. QED
  BY <1>2, <1>3

(* A set of numbers can be put in order.                                   *)
LEMMA Ordered ==
  ASSUME NEW n \in Nat, NEW fs \in SUBSET (1..n)
  PROVE  \E seq \in Seq(fs) : /\ ToSet(seq) = fs
                              /\ \A i, j \in DOMAIN seq : i < j => seq[i] < seq[j]
<1> DEFINE Order(seq, fr) == /\ ToSet(seq) = fr
                             /\ \A i, j \in DOMAIN seq : i < j => seq[i] < seq[j]
           Bad == {m \in Nat : \E fr \in SUBSET (1..m) : \A seq \in Seq(fr) : ~Order(seq, fr)}
<1>1. SUFFICES ASSUME n \in Bad PROVE FALSE
  OBVIOUS
<1>2. PICK m \in Bad : \A k \in Bad : ~(k < m)
  <2>1. Bad \subseteq Nat /\ Bad # {}
    BY <1>1
  <2> HIDE DEF Bad
  <2>2. \E m \in Bad : \A k \in Bad : ~(<<k, m>> \in OpToRel(<, Nat))
    BY <2>1, NatLessThanWellFounded, WFMin
  <2>3. PICK m \in Bad : \A k \in Bad : ~(<<k, m>> \in OpToRel(<, Nat))
    BY <2>2
  <2>4. \A k \in Bad : k < m => <<k, m>> \in OpToRel(<, Nat)
    BY <2>1 DEF OpToRel
  <2>5. QED
    BY <2>3, <2>4
<1>3. PICK fr \in SUBSET (1..m) : \A seq \in Seq(fr) : ~Order(seq, fr)
  BY <1>2
<1>4. m \in Nat
  BY <1>2
<1>5. CASE m = 0
  <2>1. fr = {}
    BY <1>4, <1>5
  <2>2. <<>> \in Seq(fr) /\ Order(<<>>, fr)
    BY <2>1, NoneIs
  <2>3. QED
    BY <1>3, <2>2
<1>6. CASE m # 0
  <2>1. m - 1 \in Nat /\ m - 1 < m /\ fr \ {m} \in SUBSET (1..m - 1)
    BY <1>3, <1>4, <1>6
  <2>2. m - 1 \notin Bad
    BY <1>2, <2>1
  <2>3. PICK seq \in Seq(fr \ {m}) : Order(seq, fr \ {m})
    BY <2>1, <2>2
  <2>4. seq \in Seq(fr)
    BY <2>3, SeqMonotonic
  <2>5. CASE m \notin fr
    <3>1. fr \ {m} = fr
      BY <2>5
    <3>2. QED
      BY <1>3, <2>3, <2>4, <3>1
  <2>6. CASE m \in fr
    <3> DEFINE t == Append(seq, m)
    <3>1. /\ t \in Seq(fr) /\ Len(seq) \in Nat /\ DOMAIN seq = 1..Len(seq)
          /\ DOMAIN t = 1..Len(seq) + 1
          /\ \A i \in 1..Len(seq) : t[i] = seq[i]
          /\ t[Len(seq) + 1] = m
          /\ ToSet(t) = ToSet(seq) \cup {m}
      BY <2>4, <2>6, AppendIs
    <3> HIDE DEF t
    <3>2. ToSet(t) = fr
      BY <2>3, <2>6, <3>1
    <3>3. ASSUME NEW i \in DOMAIN seq PROVE seq[i] < m
      <4>1. seq[i] \in fr \ {m}
        BY <2>3 DEF ToSet
      <4>2. seq[i] \in 1..m /\ seq[i] # m
        BY <1>3, <4>1
      <4>3. QED
        BY <1>4, <4>2
    <3>4. ASSUME NEW i \in DOMAIN t, NEW j \in DOMAIN t, i < j PROVE t[i] < t[j]
      <4>1. i \in DOMAIN seq
        BY <3>1, <3>4
      <4>2. CASE j \in DOMAIN seq
        BY <2>3, <3>1, <3>4, <4>1, <4>2
      <4>3. CASE j = Len(seq) + 1
        BY <3>1, <3>3, <4>1, <4>3
      <4>4. QED
        BY <3>1, <4>2, <4>3
    <3>5. QED
      BY <1>3, <3>1, <3>2, <3>4
  <2>7. QED
    BY <2>5, <2>6
<1>7. QED
  BY <1>5, <1>6

LEMMA LoadedIs ==
  ASSUME NEW fs \in SUBSET Frames
  PROVE  Loaded(fs) \in Seq(fs) /\ ToSet(Loaded(fs)) = fs /\ IsInjective(Loaded(fs))
<1>1. N \in Nat
  BY Bounds
<1>2. PICK seq \in Seq(fs) : /\ ToSet(seq) = fs
                             /\ \A i, j \in DOMAIN seq : i < j => seq[i] < seq[j]
  BY <1>1, Ordered DEF Frames
<1>3. Len(seq) \in Nat /\ DOMAIN seq = 1..Len(seq) /\ seq \in [1..Len(seq) -> fs]
  BY LenProperties
<1>4. ASSUME NEW t, DOMAIN t \subseteq Nat, \A i \in DOMAIN t : t[i] \in fs,
             \A i, j \in DOMAIN t : i < j => t[i] < t[j]
      PROVE  IsInjective(t)
  <2>1. SUFFICES ASSUME NEW i \in DOMAIN t, NEW j \in DOMAIN t, t[i] = t[j] PROVE i = j
    BY DEF IsInjective
  <2>2. i \in Nat /\ j \in Nat /\ t[i] \in Nat
    <3>1. t[i] \in 1..N
      BY <1>4 DEF Frames
    <3>2. QED
      BY <1>1, <1>4, <3>1
  <2>3. QED
    BY <1>4, <2>1, <2>2
<1>5. IsInjective(seq)
  BY <1>2, <1>3, <1>4
<1>6. Cardinality(fs) = Len(seq)
  <2>1. ExistsBijection(1..Len(seq), fs)
    <3>1. seq \in Bijection(1..Len(seq), fs)
      BY <1>2, <1>3, <1>5 DEF Bijection, Injection, Surjection, IsInjective, ToSet
    <3>2. QED
      BY <3>1 DEF ExistsBijection
  <2>2. QED
    BY <1>3, <2>1, FS_CountingElements
<1> DEFINE Fits(t) == t \in [1..Cardinality(fs) -> fs]
                      /\ \A i, j \in DOMAIN t : i < j => t[i] < t[j]
           l == Loaded(fs)
<1>7. Fits(l)
  <2>1. Fits(seq)
    BY <1>2, <1>3, <1>6
  <2>2. QED
    BY <2>1 DEF Loaded
<1>8. l \in Seq(fs) /\ DOMAIN l = 1..Len(seq)
  BY <1>3, <1>6, <1>7
<1>9. IsInjective(l)
  <2>1. DOMAIN l \subseteq Nat /\ \A i \in DOMAIN l : l[i] \in fs
    <3>1. l \in [1..Len(seq) -> fs]
      BY <1>6, <1>7
    <3> HIDE DEF l
    <3>2. QED
      BY <1>3, <3>1
  <2>2. \A i, j \in DOMAIN l : i < j => l[i] < l[j]
    BY <1>7
  <2> HIDE DEF l
  <2>3. QED
    BY <1>4, <2>1, <2>2
<1>10. ToSet(l) = fs
  <2>1. l \in Injection(1..Len(seq), fs)
    BY <1>6, <1>7, <1>9 DEF Injection, IsInjective
  <2>2. IsFiniteSet(fs)
    <3>1. IsFiniteSet(1..N)
      BY <1>1, FS_Interval
    <3>2. QED
      BY <3>1, FS_Subset DEF Frames
  <2>3. Cardinality(ToSet(l)) = Len(seq)
    <3>1. l \in Bijection(1..Len(seq), ToSet(l))
      BY <1>8, <1>9, <1>7 DEF Bijection, Injection, Surjection, IsInjective, ToSet
    <3>2. ExistsBijection(1..Len(seq), ToSet(l))
      BY <3>1 DEF ExistsBijection
    <3>3. QED
      BY <1>3, <3>2, FS_CountingElements
  <2>4. ToSet(l) \subseteq fs
    BY <1>7 DEF ToSet
  <2>5. QED
    BY <1>6, <2>2, <2>3, <2>4, FS_Subset
<1>11. QED
  BY <1>8, <1>9, <1>10

(* Induction along the frames a frame is in.                               *)
LEMMA Downwards ==
  ASSUME Typed, Nested, Listed, NEW S,
         \A f \in born : parent[f] = Null \/ parent[f] \in S => f \in S
  PROVE  born \subseteq S
<1>1. PICK depth \in [Frames -> Nat] :
        \A f \in born : parent[f] # Null => depth[parent[f]] < depth[f]
  BY DEF Nested
<1> DEFINE Bad == {n \in Nat : \E f \in born \ S : depth[f] = n}
<1>2. SUFFICES ASSUME Bad # {} PROVE FALSE
  BY <1>1 DEF Typed
<1>3. PICK m \in Bad : \A k \in Bad : ~(k < m)
  <2>1. Bad \subseteq Nat /\ Bad # {}
    BY <1>2
  <2> HIDE DEF Bad
  <2>2. \E m \in Bad : \A k \in Bad : ~(<<k, m>> \in OpToRel(<, Nat))
    BY <2>1, NatLessThanWellFounded, WFMin
  <2>3. PICK m \in Bad : \A k \in Bad : ~(<<k, m>> \in OpToRel(<, Nat))
    BY <2>2
  <2>4. \A k \in Bad : k < m => <<k, m>> \in OpToRel(<, Nat)
    BY <2>1 DEF OpToRel
  <2>5. QED
    BY <2>3, <2>4
<1>4. PICK f \in born \ S : depth[f] = m
  BY <1>3
<1>5. parent[f] # Null /\ parent[f] \notin S /\ parent[f] \in born
  BY <1>4 DEF Listed
<1>6. depth[parent[f]] \in Nat /\ depth[parent[f]] < m
  BY <1>1, <1>4, <1>5 DEF Typed
<1>7. QED
  BY <1>3, <1>5, <1>6

-----------------------------------------------------------------------------
(* The frames a frame is in.                                               *)

LinesUp(u, par) == u = [g \in Frames |-> {g} \cup (IF par[g] = Null THEN {} ELSE u[par[g]])]
Lines(par) == CHOOSE u : LinesUp(u, par)

LEMMA LinesAre ==
  ASSUME NEW par \in [Frames -> Null..N]
  PROVE  LinesUp(Lines(par), par)
<1> DEFINE Closed(C) == \A x \in C : par[x] # Null => par[x] \in C
           F == [g \in Frames |->
                  {h \in Frames : \A C \in SUBSET Frames : g \in C /\ Closed(C) => h \in C}]
<1>1. \A g \in Frames : par[g] = Null \/ par[g] \in Frames
  BY Bounds DEF Frames, Null
<1>2. ASSUME NEW g \in Frames
      PROVE  F[g] = {g} \cup (IF par[g] = Null THEN {} ELSE F[par[g]])
  <2>1. g \in F[g]
    OBVIOUS
  <2>2. ASSUME par[g] # Null, NEW h \in F[par[g]] PROVE h \in F[g]
    <3>1. par[g] \in Frames
      BY <1>1, <2>2
    <3>2. h \in Frames /\ \A C \in SUBSET Frames : par[g] \in C /\ Closed(C) => h \in C
      BY <2>2, <3>1
    <3>3. \A C \in SUBSET Frames : g \in C /\ Closed(C) => par[g] \in C
      BY <2>2
    <3>4. \A C \in SUBSET Frames : g \in C /\ Closed(C) => h \in C
      BY <3>2, <3>3
    <3> HIDE DEF Closed
    <3>5. QED
      BY <3>2, <3>4
  <2>3. ASSUME NEW h \in F[g], h # g PROVE par[g] # Null /\ h \in F[par[g]]
    <3>1. h \in Frames /\ \A C \in SUBSET Frames : g \in C /\ Closed(C) => h \in C
      BY <2>3
    <3>2. par[g] # Null
      <4>1. SUFFICES ASSUME par[g] = Null PROVE FALSE
        OBVIOUS
      <4>2. {g} \in SUBSET Frames /\ g \in {g} /\ Closed({g})
        BY <4>1
      <4> HIDE DEF Closed
      <4>3. QED
        BY <2>3, <3>1, <4>2
    <3>3. ASSUME NEW C \in SUBSET Frames, par[g] \in C, Closed(C) PROVE h \in C
      <4>1. C \cup {g} \in SUBSET Frames /\ g \in C \cup {g} /\ Closed(C \cup {g})
        BY <3>3
      <4> HIDE DEF Closed
      <4>2. QED
        BY <2>3, <3>1, <4>1
    <3>4. par[g] \in Frames
      BY <1>1, <3>2
    <3> HIDE DEF Closed
    <3>5. QED
      BY <3>1, <3>2, <3>3, <3>4
  <2> HIDE DEF F
  <2>4. QED
    BY <2>1, <2>2, <2>3
<1>3. LinesUp(F, par)
  <2>1. F = [g \in Frames |-> F[g]]
    OBVIOUS
  <2> HIDE DEF F
  <2>2. QED
    BY <1>2, <2>1 DEF LinesUp
<1> HIDE DEF F
<1>4. QED
  BY <1>3 DEF Lines

LEMMA LineIs ==
  ASSUME Typed, NEW f \in Frames
  PROVE  Line(f) = {f} \cup (IF parent[f] = Null THEN {} ELSE Line(parent[f]))
<1>1. \A g : Line(g) = Lines(parent)[g]
  BY DEF Line, Lines, LinesUp
<1>2. LinesUp(Lines(parent), parent)
  BY LinesAre DEF Typed
<1>3. QED
  BY <1>1, <1>2 DEF LinesUp

LEMMA LineFacts ==
  ASSUME Typed, Nested, Listed, NEW f \in born
  PROVE  /\ f \in Line(f) /\ Line(f) \subseteq born
         /\ parent[f] # Null => Line(f) = {f} \cup Line(parent[f])
         /\ f \in Alive => Line(f) \subseteq Alive
         /\ \E c \in Line(f) : parent[c] = Null
         /\ \A g \in Line(f) : g = f \/ \E c \in Line(f) : parent[c] = g
         /\ \A c \in Line(f) : parent[c] # Null => parent[c] \in Line(f)
<1> DEFINE Good(g) == /\ Line(g) \subseteq born
                      /\ g \in Alive => Line(g) \subseteq Alive
                      /\ \E c \in Line(g) : parent[c] = Null
                      /\ \A h \in Line(g) : h = g \/ \E c \in Line(g) : parent[c] = h
                      /\ \A c \in Line(g) : parent[c] # Null => parent[c] \in Line(g)
           S == {g \in born : Good(g)}
<1>1. \A g \in born : g \in Frames /\ parent[g] \in born \cup {Null}
  BY DEF Typed, Listed
<1>2. \A g \in born : Line(g) = {g} \cup (IF parent[g] = Null THEN {} ELSE Line(parent[g]))
  BY <1>1, LineIs
<1>3. ASSUME NEW g \in born, parent[g] = Null \/ parent[g] \in S PROVE g \in S
  <2>1. CASE parent[g] = Null
    <3>1. Line(g) = {g}
      BY <1>2, <2>1
    <3>2. QED
      BY <2>1, <3>1
  <2>2. CASE parent[g] # Null
    <3>1. Line(g) = {g} \cup Line(parent[g]) /\ parent[g] \in born /\ Good(parent[g])
      BY <1>2, <1>3, <2>2
    <3>2. parent[g] \in Line(parent[g])
      BY <1>2, <3>1
    <3>3. g \in Alive => parent[g] \in Alive
      BY <2>2 DEF Listed
    <3>4. Line(g) \subseteq born /\ (g \in Alive => Line(g) \subseteq Alive)
      BY <3>1, <3>3
    <3>5. \E c \in Line(g) : parent[c] = Null
      BY <3>1
    <3>6. ASSUME NEW h \in Line(g), h # g PROVE \E c \in Line(g) : parent[c] = h
      <4>1. h \in Line(parent[g])
        BY <3>1, <3>6
      <4>2. h = parent[g] \/ \E c \in Line(parent[g]) : parent[c] = h
        BY <3>1, <4>1
      <4>3. QED
        BY <3>1, <4>2
    <3>7. \A c \in Line(g) : parent[c] # Null => parent[c] \in Line(g)
      BY <3>1, <3>2
    <3>8. QED
      BY <3>4, <3>5, <3>6, <3>7
  <2>3. QED
    BY <2>1, <2>2
<1>4. born \subseteq S
  <2>1. PICK s : s = S
    OBVIOUS
  <2>2. \A g \in born : parent[g] = Null \/ parent[g] \in s => g \in s
    BY <1>3, <2>1
  <2> HIDE DEF S
  <2>3. QED
    BY <2>1, <2>2, Downwards
<1>5. Good(f)
  BY <1>4
<1>6. QED
  BY <1>2, <1>5

(* A frame that comes is below none of the others.                         *)
LEMMA LineKept ==
  ASSUME Typed, Nested, Listed, Typed', \A f \in born : parent'[f] = parent[f]
  PROVE  \A f \in born : Line(f)' = Line(f)
<1>1. \A g \in born : g \in Frames /\ parent[g] \in born \cup {Null}
  BY DEF Typed, Listed
<1>2. \A g \in born : Line(g) = {g} \cup (IF parent[g] = Null THEN {} ELSE Line(parent[g]))
  BY <1>1, LineIs
<1>3. \A h : Line(h)' = Lines(parent')[h]
  BY DEF Line, Lines, LinesUp
<1>4. PICK lines : lines = Lines(parent')
  OBVIOUS
<1>5. \A g \in Frames : lines[g] = {g} \cup (IF parent'[g] = Null THEN {} ELSE lines[parent'[g]])
  <2>1. LinesUp(lines, parent')
    BY <1>4, LinesAre DEF Typed
  <2>2. QED
    BY <2>1 DEF LinesUp
<1>6. PICK s : s = {g \in born : lines[g] = Line(g)}
  OBVIOUS
<1>7. ASSUME NEW g \in born, parent[g] = Null \/ parent[g] \in s PROVE g \in s
  <2>1. parent'[g] = parent[g] /\ g \in Frames
    BY <1>1
  <2>2. lines[g] = {g} \cup (IF parent[g] = Null THEN {} ELSE lines[parent[g]])
    BY <1>5, <2>1
  <2>3. parent[g] # Null => lines[parent[g]] = Line(parent[g])
    BY <1>6, <1>7
  <2>4. lines[g] = Line(g)
    BY <1>2, <2>2, <2>3
  <2>5. QED
    BY <1>6, <2>4
<1>8. born \subseteq s
  BY <1>7, Downwards
<1>9. QED
  BY <1>3, <1>4, <1>6, <1>8

-----------------------------------------------------------------------------
(* What a step does to the stack: it puts push on it, in the place of the  *)
(* d innermost activations; the others keep what they are about.           *)
Same(a, b) == a.do = b.do /\ a.of = b.of
Order(push, d) ==
  /\ push \in Seq(Activations) /\ stack' \in Seq(Activations) /\ d \in {0, 1} /\ d <= Len(stack)
  /\ Len(stack') = Len(push) + Len(stack) - d
  /\ \A i \in 1..Len(push) : Same(stack'[i], push[i])
  /\ \A j \in 1..Len(stack) - d : Same(stack'[Len(push) + j], stack[j + d])
Sets(push, d) ==
  /\ ToSet(push) \subseteq Acts' /\ Acts' \subseteq ToSet(push) \cup Acts
  /\ d = 0 => Acts \subseteq Acts'
  /\ d = 1 => Acts \subseteq {Top} \cup Acts'

LEMMA TopIs ==
  ASSUME Typed, ~Idle
  PROVE  /\ Top \in Activations /\ Top \in Acts /\ Rest \in Seq(Activations)
         /\ Len(stack) \in Nat \ {0} /\ Top = stack[1]
         /\ Acts = {Top} \cup ToSet(Rest)
BY TailIs DEF Typed, Idle, Top, Rest, Acts

LEMMA ActsAre ==
  ASSUME Typed
  PROVE  /\ Len(stack) \in Nat /\ DOMAIN stack = 1..Len(stack) /\ Acts \subseteq Activations
         /\ \A a \in Acts : \E i \in 1..Len(stack) : a = stack[i]
         /\ \A i \in 1..Len(stack) : stack[i] \in Acts
<1>1. stack \in Seq(Activations)
  BY DEF Typed
<1>2. Len(stack) \in Nat /\ DOMAIN stack = 1..Len(stack)
  BY <1>1, LenProperties
<1>3. \A i \in 1..Len(stack) : stack[i] \in Activations
  BY <1>1, ElementOfSeq
<1>4. QED
  BY <1>2, <1>3 DEF Acts, ToSet

LEMMA CallShape ==
  ASSUME Typed, NEW push \in Seq(Activations), stack' = push \o stack
  PROVE  Order(push, 0) /\ Sets(push, 0)
<1>1. /\ push \o stack \in Seq(Activations)
      /\ Len(stack) \in Nat /\ Len(push) \in Nat
      /\ Len(push \o stack) = Len(push) + Len(stack)
      /\ \A i \in 1..Len(push) : (push \o stack)[i] = push[i]
      /\ \A i \in 1..Len(stack) : (push \o stack)[Len(push) + i] = stack[i]
      /\ ToSet(push \o stack) = ToSet(push) \cup ToSet(stack)
  BY ConcatIs DEF Typed
<1>2. Order(push, 0)
  <2>1. \A j \in 1..Len(stack) - 0 : j + 0 = j /\ j \in 1..Len(stack)
    BY <1>1
  <2>2. Len(push) + Len(stack) - 0 = Len(push) + Len(stack) /\ 0 <= Len(stack)
    BY <1>1
  <2>3. QED
    BY <1>1, <2>1, <2>2 DEF Order, Same
<1>3. Sets(push, 0)
  BY <1>1 DEF Sets, Acts
<1>4. QED
  BY <1>2, <1>3

LEMMA RestShape ==
  ASSUME Typed, ~Idle, NEW push \in Seq(Activations), stack' = push \o Rest
  PROVE  Order(push, 1) /\ Sets(push, 1)
<1>1. /\ Rest \in Seq(Activations) /\ Len(stack) \in Nat \ {0} /\ Len(Rest) = Len(stack) - 1
      /\ \A i \in 1..Len(stack) - 1 : Rest[i] = stack[i + 1]
      /\ Acts = {Top} \cup ToSet(Rest)
  BY TailIs DEF Typed, Idle, Rest, Top, Acts
<1>2. /\ push \o Rest \in Seq(Activations) /\ Len(push) \in Nat
      /\ Len(push \o Rest) = Len(push) + Len(Rest)
      /\ \A i \in 1..Len(push) : (push \o Rest)[i] = push[i]
      /\ \A i \in 1..Len(Rest) : (push \o Rest)[Len(push) + i] = Rest[i]
      /\ ToSet(push \o Rest) = ToSet(push) \cup ToSet(Rest)
  <2>1. Rest \in Seq(Activations)
    BY <1>1
  <2>2. QED
    BY <2>1, ConcatIs
<1>3. Order(push, 1)
  <2>1. Len(push) + Len(Rest) = Len(push) + Len(stack) - 1 /\ 1 <= Len(stack)
    BY <1>1, <1>2
  <2>2. \A j \in 1..Len(stack) - 1 : stack'[Len(push) + j] = stack[j + 1]
    BY <1>1, <1>2
  <2>3. Len(stack') = Len(push) + Len(stack) - 1
    BY <1>2, <2>1
  <2>4. \A i \in 1..Len(push) : stack'[i] = push[i]
    BY <1>2
  <2>5. QED
    BY <1>2, <2>1, <2>2, <2>3, <2>4 DEF Order, Same
<1>4. Sets(push, 1)
  BY <1>1, <1>2 DEF Sets, Acts
<1>5. QED
  BY <1>3, <1>4

LEMMA IdleShape ==
  ASSUME Typed, Idle, NEW push \in Seq(Activations), stack' = push
  PROVE  Order(push, 0) /\ Sets(push, 0)
<1>1. push \o stack = push
  BY ConcatEmptySeq DEF Idle
<1>2. QED
  BY <1>1, CallShape

LEMMA PopShape ==
  ASSUME Typed, ~Idle, stack' = Rest
  PROVE  Order(<<>>, 1) /\ Sets(<<>>, 1)
<1>1. <<>> \o Rest = Rest /\ <<>> \in Seq(Activations)
  BY TopIs, ConcatEmptySeq
<1>2. QED
  BY <1>1, RestShape

LEMMA StayShape ==
  ASSUME Typed, UNCHANGED stack
  PROVE  Order(<<>>, 0) /\ Sets(<<>>, 0)
<1>1. <<>> \o stack = stack /\ <<>> \in Seq(Activations)
  BY ConcatEmptySeq DEF Typed
<1>2. QED
  BY <1>1, CallShape

(* What OneWalk needs of a step.                                           *)
LEMMA OneWalkKept ==
  ASSUME Typed, OneWalk, NEW push, NEW d, Order(push, d),
         \A i \in 1..Len(push) :
           /\ push[i].do # "entering"
           /\ push[i].do \in Backwards => ~Idle /\ d = 0 /\ push[i].do = Top.do /\ push[i].of # Null
  PROVE  OneWalk'
<1>1. /\ Len(push) \in Nat /\ Len(stack) \in Nat /\ d \in {0, 1} /\ d <= Len(stack)
      /\ Len(stack') = Len(push) + Len(stack) - d
      /\ DOMAIN stack = 1..Len(stack) /\ DOMAIN stack' = 1..Len(stack')
  BY LenProperties DEF Typed, Order
<1>2. PICK s : s = stack'
  OBVIOUS
<1>3. \A i \in 1..Len(push) : s[i].do = push[i].do /\ s[i].of = push[i].of
  BY <1>2 DEF Order, Same
<1>4. \A j \in 1..Len(stack) - d :
        s[Len(push) + j].do = stack[j + d].do /\ s[Len(push) + j].of = stack[j + d].of
  BY <1>2 DEF Order, Same
<1>5. Len(stack) > d => s[Len(s)].do = Bottom.do /\ s[Len(s)].of = Bottom.of
  <2>1. SUFFICES ASSUME Len(stack) > d
                 PROVE  s[Len(s)].do = Bottom.do /\ s[Len(s)].of = Bottom.of
    OBVIOUS
  <2>2. Len(stack) - d \in 1..Len(stack) - d /\ Len(push) + (Len(stack) - d) = Len(s)
        /\ (Len(stack) - d) + d = Len(stack)
    BY <1>1, <1>2, <2>1
  <2>3. QED
    BY <1>4, <2>2 DEF Bottom
<1>6. ASSUME NEW i \in 1..Len(s)
      PROVE  /\ s[i].do \in Backwards => s[Len(s)].do = s[i].do /\ s[Len(s)].of = Null
             /\ s[i].do \in Backwards /\ s[i].of = Null => i = Len(s)
             /\ s[i].do = "entering" => i = Len(s)
  <2>1. CASE i \in 1..Len(push)
    <3>1. SUFFICES ASSUME s[i].do \in Backwards
                   PROVE  s[Len(s)].do = s[i].do /\ s[Len(s)].of = Null /\ s[i].of # Null
      BY <1>3, <2>1
    <3>2. ~Idle /\ d = 0 /\ s[i].do = Top.do /\ s[i].of # Null
      BY <1>3, <2>1, <3>1
    <3>3. Top = stack[1] /\ 1 \in 1..Len(stack) /\ Len(stack) > d
      BY <1>1, <3>2, TopIs
    <3>4. Bottom.do = Top.do /\ Bottom.of = Null
      BY <1>1, <3>1, <3>2, <3>3 DEF OneWalk
    <3>5. QED
      BY <1>5, <3>2, <3>3, <3>4
  <2>2. CASE i \notin 1..Len(push)
    <3>1. PICK j \in 1..Len(stack) - d : i = Len(push) + j /\ j + d \in 1..Len(stack)
      <4>1. i - Len(push) \in 1..Len(stack) - d /\ i = Len(push) + (i - Len(push))
            /\ (i - Len(push)) + d \in 1..Len(stack)
        BY <1>1, <1>2, <2>2
      <4>2. QED
        BY <4>1
    <3>2. s[i].do = stack[j + d].do /\ s[i].of = stack[j + d].of
      BY <1>4, <3>1
    <3>3. Len(stack) > d
      BY <1>1, <3>1
    <3>4. /\ stack[j + d].do \in Backwards => Bottom.do = stack[j + d].do /\ Bottom.of = Null
          /\ stack[j + d].do \in Backwards /\ stack[j + d].of = Null => j + d = Len(stack)
          /\ stack[j + d].do = "entering" => j + d = Len(stack)
      BY <1>1, <3>1 DEF OneWalk
    <3>5. j + d = Len(stack) => i = Len(s)
      BY <1>1, <1>2, <3>1
    <3>6. QED
      BY <1>5, <3>2, <3>3, <3>4, <3>5
  <2>3. QED
    BY <2>1, <2>2
<1>7. QED
  BY <1>1, <1>2, <1>6 DEF OneWalk, Bottom

(* What Focused needs of a step that does not change the focus.            *)
LEMMA FocusedKept ==
  ASSUME Typed, Focused, UNCHANGED <<active, enabled, strayed>>, NEW push, NEW d, Order(push, d),
         \A i \in 1..Len(push) : push[i].do # "gain"
  PROVE  Focused'
<1>1. /\ Len(push) \in Nat /\ Len(stack) \in Nat /\ d \in {0, 1} /\ d <= Len(stack)
      /\ Len(stack') = Len(push) + Len(stack) - d
      /\ DOMAIN stack = 1..Len(stack) /\ DOMAIN stack' = 1..Len(stack')
  BY LenProperties DEF Typed, Order
<1>2. PICK s : s = stack'
  OBVIOUS
<1>3. \A i \in 1..Len(push) : s[i].do = push[i].do
  BY <1>2 DEF Order, Same
<1>4. \A j \in 1..Len(stack) - d :
        s[Len(push) + j].do = stack[j + d].do /\ s[Len(push) + j].of = stack[j + d].of
  BY <1>2 DEF Order, Same
<1>5. ASSUME NEW i \in 1..Len(s), s[i].do = "gain"
      PROVE  \E k \in 1..Len(stack) : /\ k = i - Len(push) + d
                                      /\ stack[k].do = "gain" /\ stack[k].of = s[i].of
  <2>1. i \notin 1..Len(push)
    BY <1>3, <1>5
  <2>2. i - Len(push) \in 1..Len(stack) - d /\ i = Len(push) + (i - Len(push))
        /\ (i - Len(push)) + d \in 1..Len(stack)
    BY <1>1, <1>2, <2>1
  <2>3. QED
    BY <1>4, <1>5, <2>2
<1>6. (\E i \in 1..Len(s) : s[i].do = "gain") => Losing
  BY <1>1, <1>5 DEF Losing
<1>7. ASSUME NEW i \in 1..Len(s), NEW j \in 1..Len(s), i < j, s[i].do = "gain", s[j].do = "gain"
      PROVE  s[i].of \in {Null} \cup strayed
  <2>1. PICK k \in 1..Len(stack) : /\ k = i - Len(push) + d
                                   /\ stack[k].do = "gain" /\ stack[k].of = s[i].of
    BY <1>5, <1>7
  <2>2. PICK l \in 1..Len(stack) : l = j - Len(push) + d /\ stack[l].do = "gain"
    BY <1>5, <1>7
  <2>3. k < l
    BY <1>1, <1>2, <1>7, <2>1, <2>2
  <2>4. QED
    BY <1>1, <2>1, <2>2, <2>3 DEF Focused
<1>8. QED
  BY <1>1, <1>2, <1>6, <1>7 DEF Focused, Losing

-----------------------------------------------------------------------------
(* What is put on the stack.                                               *)
Fine(a) == About(a) /\ (a.do \in Loops => Onward(a) /\ Backward(a))

LEMMA NullIs == Null \in Null..N /\ Frames \subseteq Null..N /\ Null \notin Frames
                /\ Frames \subseteq Nat /\ \A p \in Null..N : p = Null \/ p \in Frames
BY Bounds DEF Null, Frames

LEMMA AtIs ==
  ASSUME NEW do \in Doings, NEW of \in Null..N
  PROVE  /\ At(do, of) \in Activations /\ At(do, of).do = do /\ At(do, of).of = of
         /\ <<At(do, of)>> \in Seq(Activations) /\ ToSet(<<At(do, of)>>) = {At(do, of)}
<1>1. At(do, of) \in Activations /\ At(do, of).do = do /\ At(do, of).of = of
  BY DEF At, Activations
<1>2. QED
  BY <1>1, OneIs

LEMMA ScriptIs ==
  ASSUME NEW f \in Null..N
  PROVE  /\ Script(f) \in Seq(Activations)
         /\ ToSet(Script(f)) \subseteq {At("script", f)}
         /\ \A i \in 1..Len(Script(f)) : Script(f)[i] = At("script", f)
<1>1. <<At("script", f)>> \in Seq(Activations) /\ ToSet(<<At("script", f)>>) = {At("script", f)}
  BY AtIs DEF Doings
<1>2. CASE calls > 0
  <2>1. Script(f) = <<At("script", f)>>
    BY <1>2 DEF Script
  <2>2. Len(<<At("script", f)>>) = 1 /\ <<At("script", f)>>[1] = At("script", f)
    OBVIOUS
  <2>3. \A i \in 1..1 : i = 1
    OBVIOUS
  <2>4. QED
    BY <1>1, <2>1, <2>2, <2>3
<1>3. CASE ~(calls > 0)
  <2>1. Script(f) = <<>>
    BY <1>3 DEF Script
  <2>2. QED
    BY <2>1, NoneIs
<1>4. QED
  BY <1>2, <1>3

LEMMA DoingFine ==
  ASSUME NEW a, a.do \in Doings, About(a)
  PROVE  Fine(a)
BY DEF Fine, Doings, Loops, Backwards, Forwards

LEMMA ListIs ==
  ASSUME Typed, Listed, NEW do \in Loops, NEW of \in {Null} \cup Alive, do = "event" => of = Null
  PROVE  /\ of \in Null..N
         /\ ListOf(do, of) \in Seq(Frames) /\ Len(ListOf(do, of)) \in Nat
         /\ DOMAIN ListOf(do, of) = 1..Len(ListOf(do, of))
         /\ IsInjective(ListOf(do, of)) /\ ToSet(ListOf(do, of)) \subseteq Alive
         /\ do # "event" => \A f \in ToSet(ListOf(do, of)) : parent[f] = of
         /\ Alive \subseteq Frames
<1>1. Alive \subseteq Frames
  BY DEF Alive, Typed
<1>2. of \in Null..N
  BY <1>1, NullIs
<1>3. CASE do = "event"
  <2>1. ListOf(do, of) = listeners
    BY <1>3 DEF ListOf
  <2>2. listeners \in Seq(Frames) /\ IsInjective(listeners) /\ ToSet(listeners) \subseteq Alive
    BY DEF Typed, Listed
  <2>3. QED
    BY <1>1, <1>2, <1>3, <2>1, <2>2, LenProperties
<1>4. CASE do # "event"
  <2>1. ListOf(do, of) = children[of]
    BY <1>4 DEF ListOf
  <2>2. children[of] \in Seq(Frames)
    BY <1>2 DEF Typed
  <2>3. ListedUnder(of)
    BY DEF Listed
  <2>4. IsInjective(children[of]) /\ ToSet(children[of]) \subseteq Alive
        /\ \A f \in ToSet(children[of]) : parent[f] = of
    BY <2>3 DEF ListedUnder
  <2>5. QED
    BY <1>1, <1>2, <2>1, <2>2, <2>4, LenProperties
<1>5. QED
  BY <1>3, <1>4

LEMMA LoopIs ==
  ASSUME Typed, Listed, NEW do \in Loops, NEW of \in {Null} \cup Alive, do = "event" => of = Null
  PROVE  /\ Loop(do, of) \in Activations /\ Fine(Loop(do, of))
         /\ Loop(do, of).do = do /\ Loop(do, of).of = of
         /\ do \in Backwards => Before(Loop(do, of)) = ToSet(children[of])
         /\ <<Loop(do, of)>> \in Seq(Activations) /\ ToSet(<<Loop(do, of)>>) = {Loop(do, of)}
<1> DEFINE l == Loop(do, of)
           list == ListOf(do, of)
<1>1. /\ of \in Null..N /\ list \in Seq(Frames) /\ Len(list) \in Nat
      /\ DOMAIN list = 1..Len(list) /\ IsInjective(list) /\ ToSet(list) \subseteq Alive
      /\ Alive \subseteq Frames
  BY ListIs
<1>2. /\ l.do = do /\ l.of = of /\ l.due = ToSet(list) /\ l.passed = <<>> /\ l.stir = {}
      /\ l.at = IF do \in Backwards THEN Len(list) ELSE 0
      /\ l = [do |-> do, of |-> of, at |-> l.at, due |-> ToSet(list), passed |-> <<>>, stir |-> {}]
  BY DEF Loop
<1> HIDE DEF l, list
<1>3. l \in Activations
  <2>1. l.at \in Nat /\ ToSet(list) \in SUBSET Frames /\ <<>> \in Seq(Frames)
    BY <1>1, <1>2
  <2>2. QED
    BY <1>1, <1>2, <2>1 DEF Activations
<1>4. About(l)
  BY <1>2 DEF About, Loops, Backwards, Forwards
<1>5. Onward(l)
  BY <1>2 DEF Onward, Forwards, Backwards
<1>6. do \in Backwards => list = children[of]
  BY DEF list, ListOf, Backwards
<1>7. do \in Backwards => Before(l) = ToSet(list)
  <2>1. SUFFICES ASSUME do \in Backwards PROVE Before(l) = ToSet(list)
    OBVIOUS
  <2>2. Before(l) = {list[j] : j \in {k \in DOMAIN list : k <= Len(list)}}
    BY <1>2, <2>1 DEF Before, list
  <2>3. {k \in DOMAIN list : k <= Len(list)} = DOMAIN list
    BY <1>1
  <2>4. QED
    BY <2>2, <2>3 DEF ToSet
<1>8. Backward(l)
  <2>1. SUFFICES ASSUME do \in Backwards PROVE Backward(l)
    BY <1>2 DEF Backward
  <2>2. l.at <= Len(children[of])
    BY <1>1, <1>2, <1>6, <2>1
  <2>3. ToSet(<<>>) = {} /\ IsInjective(<<>>)
    BY DEF ToSet, IsInjective
  <2>4. QED
    BY <1>2, <1>7, <2>1, <2>2, <2>3 DEF Backward
<1>9. Fine(l)
  BY <1>4, <1>5, <1>8 DEF Fine
<1>10. QED
  BY <1>2, <1>3, <1>6, <1>7, <1>9, OneIs DEF l

(* One turn of a loop.                                                     *)
Turned ==
  [Turn EXCEPT !.at = IF Top.do \in Backwards THEN @ - 1 ELSE @ + 1,
               !.passed = Append(@, ListOf(Top.do, Top.of)[Turn.at])]

LEMMA TurnIs ==
  ASSUME Typed, Listed, Stacked, Walked, Looping
  PROVE  /\ ~Idle /\ Top \in Acts /\ Top.do \in Loops /\ Fine(Top) /\ Top.of \in {Null} \cup Alive
         /\ Top.do = "event" => Top.of = Null
         /\ Top \in [do : Loops, of : Null..N, at : Nat, due : SUBSET Frames, passed : Seq(Frames),
                     stir : SUBSET {"in", "out"}]
         /\ Turn \in [do : Loops, of : Null..N, at : Nat, due : SUBSET Frames, passed : Seq(Frames),
                      stir : SUBSET {"in", "out"}]
         /\ Turn.do = Top.do /\ Turn.of = Top.of /\ Fine(Turn)
         /\ Top.do \in Backwards => Turn = Top
         /\ Top.do \in Forwards => Turn.at > 0
<1>1. ~Idle /\ Top.do \in Loops
  BY DEF Looping
<1>2. Top \in Activations /\ Top \in Acts
  BY <1>1, TopIs
<1>3. Top \in [do : Loops, of : Null..N, at : Nat, due : SUBSET Frames, passed : Seq(Frames),
               stir : SUBSET {"in", "out"}]
  BY <1>1, <1>2 DEF Activations, Doings, Loops, Backwards, Forwards
<1>4. Fine(Top) /\ Top.of \in {Null} \cup Alive /\ (Top.do = "event" => Top.of = Null)
  BY <1>1, <1>2 DEF Fine, About, Stacked, Walked
<1>5. CASE Top.do \in Forwards /\ Top.at = 0
  <2> DEFINE l == Loop(Top.do, Top.of)
             list == ListOf(Top.do, Top.of)
  <2>1. Turn = [l EXCEPT !.at = 1] /\ Top.do \notin Backwards
    BY <1>5 DEF Turn, Forwards, Backwards
  <2>2. l \in Activations /\ l.do = Top.do /\ l.of = Top.of
    BY <1>1, <1>4, LoopIs
  <2>3. l = [do |-> Top.do, of |-> Top.of, at |-> 0, due |-> ToSet(list), passed |-> <<>>, stir |-> {}]
    BY <2>1 DEF Loop
  <2>4. Turn = [do |-> Top.do, of |-> Top.of, at |-> 1, due |-> ToSet(list), passed |-> <<>>, stir |-> {}]
    <3> HIDE DEF l, list
    <3>1. QED
      BY <2>1, <2>3
  <2>5. list \in Seq(Frames) /\ Len(list) \in Nat /\ DOMAIN list = 1..Len(list)
        /\ ToSet(list) \in SUBSET Frames
    BY <1>1, <1>4, ListIs
  <2> HIDE DEF l, list
  <2>6. Turn \in [do : Loops, of : Null..N, at : Nat, due : SUBSET Frames, passed : Seq(Frames),
                  stir : SUBSET {"in", "out"}]
    <3>1. <<>> \in Seq(Frames)
      OBVIOUS
    <3>2. QED
      BY <1>3, <2>4, <2>5, <3>1
  <2>7. /\ Turn.do = Top.do /\ Turn.of = Top.of /\ Turn.at = 1 /\ Turn.due = ToSet(list)
        /\ Turn.passed = <<>> /\ Turn.stir = {}
    BY <2>4
  <2>8. Prefix(Turn)
    <3>1. ListOf(Turn.do, Turn.of) = list
      BY <2>7 DEF list
    <3>2. Len(<<>>) = 0 /\ DOMAIN <<>> = {}
      OBVIOUS
    <3>3. QED
      BY <2>5, <2>7, <3>1, <3>2 DEF Prefix
  <2>9. After(Turn) = ToSet(list)
    <3>1. After(Turn) = {list[j] : j \in {k \in DOMAIN list : k >= 1}}
      BY <2>7 DEF After, list
    <3>2. {k \in DOMAIN list : k >= 1} = DOMAIN list
      BY <2>5
    <3>3. QED
      BY <3>1, <3>2 DEF ToSet
  <2>10. Onward(Turn)
    BY <2>7, <2>8, <2>9 DEF Onward
  <2>11. Fine(Turn)
    BY <1>4, <2>1, <2>7, <2>10 DEF Fine, About, Backward
  <2>12. Turn.at > 0
    BY <2>7
  <2>13. Turn.do = Top.do /\ Turn.of = Top.of
    BY <2>7
  <2>14. QED
    BY <1>1, <1>2, <1>3, <1>4, <2>1, <2>6, <2>11, <2>12, <2>13
<1>6. CASE ~(Top.do \in Forwards /\ Top.at = 0)
  <2>1. Turn = Top
    BY <1>6 DEF Turn
  <2>2. Top.do \in Forwards => Top.at > 0
    BY <1>3, <1>6
  <2>3. QED
    BY <1>1, <1>2, <1>3, <1>4, <2>1, <2>2
<1>7. QED
  BY <1>5, <1>6

LEMMA ChangedLoop ==
  ASSUME NEW D, NEW O, NEW A, NEW U, NEW P, NEW S,
         NEW t \in [do : D, of : O, at : A, due : U, passed : P, stir : S], NEW at \in A, NEW passed \in P
  PROVE  LET u == [t EXCEPT !.at = at, !.passed = passed] IN
         /\ u \in [do : D, of : O, at : A, due : U, passed : P, stir : S]
         /\ u.do = t.do /\ u.of = t.of /\ u.at = at /\ u.due = t.due /\ u.passed = passed
         /\ u.stir = t.stir
OBVIOUS

LEMMA TurnedIs ==
  ASSUME Typed, Listed, Stacked, Walked, Looping, ~Finished,
         NEW f, f = ListOf(Top.do, Top.of)[Turn.at]
  PROVE  /\ f \in ToSet(ListOf(Top.do, Top.of)) /\ f \in Alive
         /\ Turned \in Activations /\ Same(Turned, Top) /\ Fine(Turned)
         /\ Top.do \in Backwards => Before(Top) \subseteq Before(Turned) \cup {f}
<1> DEFINE list == ListOf(Top.do, Top.of)
<1>1. /\ ~Idle /\ Top.do \in Loops /\ Top.of \in {Null} \cup Alive
      /\ Top.do = "event" => Top.of = Null
      /\ Turn \in [do : Loops, of : Null..N, at : Nat, due : SUBSET Frames, passed : Seq(Frames),
                   stir : SUBSET {"in", "out"}]
      /\ Turn.do = Top.do /\ Turn.of = Top.of /\ Fine(Turn)
      /\ Top.do \in Backwards => Turn = Top
      /\ Top.do \in Forwards => Turn.at > 0
  BY TurnIs
<1>2. /\ list \in Seq(Frames) /\ Len(list) \in Nat /\ DOMAIN list = 1..Len(list)
      /\ IsInjective(list) /\ ToSet(list) \subseteq Alive /\ Alive \subseteq Frames
  BY <1>1, ListIs
<1>3. Turn.at \in 1..Len(list)
  <2>1. CASE Top.do \in Backwards
    <3>1. Turn.at # 0 /\ list = children[Top.of] /\ Turn.at <= Len(children[Top.of])
      BY <1>1, <2>1 DEF Finished, Fine, Backward, ListOf, Backwards
    <3>2. QED
      BY <1>1, <1>2, <3>1
  <2>2. CASE Top.do \notin Backwards
    <3>1. ~(Turn.at > Len(list)) /\ Turn.at > 0
      BY <1>1, <2>2 DEF Finished, Loops
    <3>2. QED
      BY <1>1, <1>2, <3>1
  <2>3. QED
    BY <2>1, <2>2
<1>4. f = list[Turn.at] /\ f \in ToSet(list) /\ f \in Alive /\ f \in Frames
  BY <1>2, <1>3 DEF ToSet
<1> DEFINE at2 == IF Top.do \in Backwards THEN Turn.at - 1 ELSE Turn.at + 1
           passed2 == Append(Turn.passed, f)
<1>5. at2 \in Nat
  BY <1>1, <1>2, <1>3
<1>6. /\ passed2 \in Seq(Frames) /\ Len(Turn.passed) \in Nat
      /\ DOMAIN Turn.passed = 1..Len(Turn.passed)
      /\ Len(passed2) = Len(Turn.passed) + 1 /\ DOMAIN passed2 = 1..Len(Turn.passed) + 1
      /\ \A i \in 1..Len(Turn.passed) : passed2[i] = Turn.passed[i]
      /\ passed2[Len(Turn.passed) + 1] = f
      /\ ToSet(passed2) = ToSet(Turn.passed) \cup {f}
      /\ IsInjective(Turn.passed) /\ f \notin ToSet(Turn.passed) => IsInjective(passed2)
  <2>1. Turn.passed \in Seq(Frames) /\ f \in Frames
    BY <1>1, <1>4
  <2>2. QED
    BY <2>1, AppendIs
<1>7. /\ Turned \in [do : Loops, of : Null..N, at : Nat, due : SUBSET Frames, passed : Seq(Frames),
                      stir : SUBSET {"in", "out"}]
      /\ Turned.do = Top.do /\ Turned.of = Top.of /\ Turned.at = at2 /\ Turned.due = Turn.due
      /\ Turned.passed = passed2 /\ Turned.stir = Turn.stir
  <2>1. Turned = [Turn EXCEPT !.at = at2, !.passed = passed2]
    BY DEF Turned
  <2>2. at2 \in Nat /\ passed2 \in Seq(Frames)
    BY <1>5, <1>6
  <2> HIDE DEF at2, passed2, list
  <2>3. QED
    BY <1>1, <2>1, <2>2, ChangedLoop
<1>8. Turned \in Activations
  BY <1>7 DEF Activations
<1>9. About(Turned)
  BY <1>1, <1>7 DEF Fine, About
<1>10. ListOf(Turned.do, Turned.of) = list /\ ListOf(Turn.do, Turn.of) = list
  BY <1>1, <1>7
<1> HIDE DEF list
<1>11. Top.do \in Backwards => Before(Turn) = Before(Turned) \cup {f} /\ f \notin Before(Turned)
  <2>1. SUFFICES ASSUME Top.do \in Backwards
                 PROVE  Before(Turn) = Before(Turned) \cup {f} /\ f \notin Before(Turned)
    OBVIOUS
  <2>2. Before(Turn) = {list[j] : j \in {k \in DOMAIN list : k <= Turn.at}}
    BY <1>10 DEF Before
  <2>3. Before(Turned) = {list[j] : j \in {k \in DOMAIN list : k <= Turn.at - 1}}
    BY <1>7, <1>10, <2>1 DEF Before
  <2>4. {k \in DOMAIN list : k <= Turn.at} = {k \in DOMAIN list : k <= Turn.at - 1} \cup {Turn.at}
    BY <1>2, <1>3
  <2>5. \A j \in {k \in DOMAIN list : k <= Turn.at - 1} : list[j] # f
    <3>1. SUFFICES ASSUME NEW j \in DOMAIN list, j <= Turn.at - 1, list[j] = list[Turn.at]
                   PROVE  FALSE
      BY <1>4
    <3>2. j = Turn.at
      BY <1>2, <1>3, <3>1 DEF IsInjective
    <3>3. QED
      BY <1>2, <1>3, <3>1, <3>2
  <2>6. QED
    BY <1>4, <2>2, <2>3, <2>4, <2>5
<1>12. Backward(Turned)
  <2>1. SUFFICES ASSUME Top.do \in Backwards PROVE Backward(Turned)
    BY <1>7 DEF Backward
  <2>2. Backward(Turn)
    BY <1>1, <2>1 DEF Fine
  <2>3. Turned.at <= Len(children[Turned.of])
    <3>1. list = children[Top.of] /\ at2 = Turn.at - 1
      BY <2>1 DEF list, ListOf, Backwards
    <3>2. QED
      BY <1>2, <1>3, <1>7, <3>1
  <2>4. ToSet(Turned.passed) \subseteq Alive
    BY <1>1, <1>4, <1>7, <1>6, <2>1, <2>2 DEF Backward
  <2>5. f \in Before(Turn)
    BY <1>11, <2>1
  <2>6. ASSUME "out" \notin Turned.stir
        PROVE  IsInjective(Turned.passed) /\ ToSet(Turned.passed) \cap Before(Turned) = {}
    <3>1. IsInjective(Turn.passed) /\ ToSet(Turn.passed) \cap Before(Turn) = {}
      BY <1>1, <1>7, <2>1, <2>2, <2>6 DEF Backward
    <3>2. f \notin ToSet(Turn.passed)
      BY <2>5, <3>1
    <3>3. IsInjective(passed2) /\ ToSet(passed2) = ToSet(Turn.passed) \cup {f}
      BY <1>6, <3>1, <3>2
    <3>4. ToSet(passed2) \cap Before(Turned) = {}
      BY <1>11, <2>1, <3>1, <3>3
    <3>5. QED
      BY <1>7, <3>3, <3>4
  <2>7. ASSUME Turned.stir = {} PROVE Turned.due \subseteq ToSet(Turned.passed) \cup Before(Turned)
    <3>1. Turn.due \subseteq ToSet(Turn.passed) \cup Before(Turn)
      BY <1>1, <1>7, <2>1, <2>2, <2>7 DEF Backward
    <3>2. QED
      BY <1>7, <1>6, <1>11, <2>1, <3>1
  <2>8. QED
    BY <1>7, <2>1, <2>3, <2>4, <2>6, <2>7 DEF Backward
<1>13. Onward(Turned)
  <2>1. SUFFICES ASSUME Top.do \in Forwards, "out" \notin Turned.stir PROVE Onward(Turned)
    BY <1>7 DEF Onward
  <2>2. Top.do \notin Backwards /\ at2 = Turn.at + 1 /\ Turn.at > 0
    BY <1>1, <2>1 DEF Forwards, Backwards
  <2>3. Onward(Turn)
    BY <1>1, <2>1 DEF Fine
  <2>4. ASSUME Turned.do = "event" \/ Turned.stir = {} PROVE Prefix(Turned)
    <3>1. Prefix(Turn)
      BY <1>1, <1>7, <2>1, <2>2, <2>3, <2>4 DEF Onward
    <3>2. /\ Turn.due \subseteq ToSet(list) /\ Len(Turn.passed) = Turn.at - 1
          /\ \A i \in DOMAIN Turn.passed : Turn.passed[i] = list[i]
      BY <1>10, <3>1 DEF Prefix
    <3>3. Len(passed2) = Turned.at - 1 /\ Turned.at <= Len(list) + 1
      BY <1>2, <1>3, <1>7, <1>6, <2>2, <3>2
    <3>4. Len(Turn.passed) + 1 = Turn.at
      BY <1>2, <1>3, <3>2
    <3>5. ASSUME NEW i \in DOMAIN passed2 PROVE passed2[i] = list[i]
      <4>1. CASE i = Turn.at
        BY <1>4, <1>6, <3>4, <4>1
      <4>2. CASE i # Turn.at
        <5>1. i \in 1..Len(Turn.passed)
          BY <1>6, <3>4, <3>5, <4>2
        <5>2. QED
          BY <1>6, <3>2, <5>1
      <4>3. QED
        BY <4>1, <4>2
    <3>6. QED
      BY <1>7, <1>10, <3>2, <3>3, <3>5 DEF Prefix
  <2>5. ASSUME Turned.do # "event" PROVE Turned.due \subseteq ToSet(Turned.passed) \cup After(Turned)
    <3>1. Turn.due \subseteq ToSet(Turn.passed) \cup After(Turn)
      BY <1>1, <1>7, <2>1, <2>2, <2>3, <2>5 DEF Onward
    <3>2. After(Turn) = {list[j] : j \in {k \in DOMAIN list : k >= Turn.at}}
      BY <1>10 DEF After
    <3>3. After(Turned) = {list[j] : j \in {k \in DOMAIN list : k >= Turn.at + 1}}
      BY <1>7, <1>10, <2>2 DEF After
    <3>4. {k \in DOMAIN list : k >= Turn.at} = {k \in DOMAIN list : k >= Turn.at + 1} \cup {Turn.at}
      BY <1>2, <1>3
    <3>5. After(Turn) = After(Turned) \cup {f}
      BY <1>4, <3>2, <3>3, <3>4
    <3>6. QED
      BY <1>7, <1>6, <3>1, <3>5
  <2>6. QED
    BY <2>4, <2>5 DEF Onward
<1>14. QED
  BY <1>1, <1>4, <1>7, <1>8, <1>9, <1>11, <1>12, <1>13 DEF Fine, Same, list

LEMMA FineKept ==
  ASSUME Stacked, Walked, UNCHANGED <<tree, events>>, NEW push, NEW d, Sets(push, d),
         \A a \in ToSet(push) : Fine(a)
  PROVE  Stacked' /\ Walked'
<1>1. ASSUME NEW a \in Acts' PROVE Fine(a)
  BY <1>1 DEF Sets, Stacked, Walked, Fine
<1>2. \A a : About(a)' <=> About(a)
  BY DEF About, tree, Alive
<1>3. \A a : ListOf(a.do, a.of)' = ListOf(a.do, a.of)
  BY DEF ListOf, tree, events
<1>4. \A a : Onward(a)' <=> Onward(a)
  BY DEF Onward, Prefix, After, ListOf, tree, events
<1>5. \A a : Backward(a)' <=> Backward(a)
  BY DEF Backward, Before, ListOf, tree, events, Alive
<1>6. QED
  BY <1>1, <1>2, <1>4, <1>5 DEF Fine, Stacked, Walked

-----------------------------------------------------------------------------
(* What the invariants of the pointer need of a step.                      *)

LEMMA HoverStep ==
  ASSUME Hovering,
         \A f \in hovered' \ lapsed' : f \in hovered \ lapsed /\ Reachable(f)',
         Walk("move")' => /\ Walk("move") /\ (used => used')
                          /\ \A f \in hovered' \ lapsed' : ToCome("move", f) => ToCome("move", f)',
         Walk("move") /\ ~Walk("move")' => \A f \in hovered' \ lapsed' : ~ToCome("move", f)
  PROVE  Hovering'
<1>1. CASE Walk("move")'
  <2>1. Left' \subseteq Left
    BY <1>1 DEF Left
  <2>2. Lone(Left) /\ (Left # {} => used)
    BY <1>1 DEF Hovering
  <2>3. Lone(Left') /\ (Left' # {} => used')
    BY <1>1, <2>1, <2>2 DEF Lone
  <2>4. QED
    BY <1>1, <2>3 DEF Hovering, Lone
<1>2. CASE ~Walk("move")' /\ Walk("move")
  <2>1. hovered' \ lapsed' \subseteq Left
    BY <1>2 DEF Left
  <2>2. QED
    BY <1>2, <2>1 DEF Hovering, Lone
<1>3. CASE ~Walk("move")' /\ ~Walk("move")
  BY <1>3 DEF Hovering, Lone
<1>4. QED
  BY <1>1, <1>2, <1>3

LEMMA ClickStep ==
  ASSUME Clicking,
         \A f \in clicked' \ stuck' : f \in clicked \ stuck /\ Reachable(f)',
         pressed \subseteq pressed',
         Walk("up")' => /\ Walk("up")
                        /\ \A f \in clicked' \ stuck' :
                             ToCome("up", f) \/ ToRelease(f) => ToCome("up", f)' \/ ToRelease(f)'
  PROVE  Clicking'
BY DEF Clicking

(* Nothing that a walk has yet to come to is lost with what is popped.     *)
LEMMA ToComeKept ==
  ASSUME UNCHANGED tree, NEW push, NEW d \in {0, 1}, Sets(push, d), NEW do \in Backwards, NEW f,
         d = 1 => ~Comes(Top, do, f), ToCome(do, f)
  PROVE  ToCome(do, f)'
<1>1. PICK a \in Acts : Comes(a, do, f)
  BY DEF ToCome
<1>2. a \in Acts'
  BY <1>1 DEF Sets
<1>3. Line(f)' = Line(f)
  <2>1. parent' = parent
    BY DEF tree
  <2>2. QED
    BY <2>1 DEF Line
<1>4. Before(a)' = Before(a)
  BY <1>1 DEF Before, ListOf, tree, Comes, Backwards
<1>5. QED
  BY <1>1, <1>2, <1>3, <1>4 DEF ToCome, Comes

LEMMA ReachableKept ==
  ASSUME UNCHANGED <<tree, hidden, mouse>>, NEW f, Reachable(f)
  PROVE  Reachable(f)'
<1>1. parent' = parent /\ Alive' = Alive
  BY DEF tree, Alive
<1>2. Line(f)' = Line(f)
  BY <1>1 DEF Line
<1>3. QED
  BY <1>1, <1>2 DEF Reachable, Shown

LEMMA WalkKept ==
  ASSUME NEW push, NEW d \in {0, 1}, Sets(push, d), NEW do,
         \A a \in ToSet(push) : a.do # do, d = 1 => Top.do # do
  PROVE  Walk(do)' <=> Walk(do)
BY DEF Walk, Sets

LEMMA HoverKept ==
  ASSUME Hovering, UNCHANGED <<tree, hidden, mouse, hovered, lapsed>>,
         NEW push, NEW d \in {0, 1}, Sets(push, d),
         \A a \in ToSet(push) : a.do # "move", d = 1 => Top.do # "move",
         used => used' \/ Acts' = {}
  PROVE  Hovering'
<1>1. Walk("move")' <=> Walk("move")
  BY WalkKept
<1>2. \A f \in hovered' \ lapsed' : f \in hovered \ lapsed /\ Reachable(f)'
  BY ReachableKept DEF Hovering
<1>3. \A f : ToCome("move", f) => ToCome("move", f)'
  <2>1. d = 1 => \A f : ~Comes(Top, "move", f)
    BY DEF Comes
  <2>2. QED
    BY <2>1, ToComeKept DEF Backwards
<1>4. Walk("move")' => (used => used')
  BY DEF Walk
<1>5. QED
  BY <1>1, <1>2, <1>3, <1>4, HoverStep

LEMMA ClickKept ==
  ASSUME Clicking, UNCHANGED <<tree, hidden, mouse, clicked, stuck, pressed>>,
         NEW push, NEW d \in {0, 1}, Sets(push, d),
         \A a \in ToSet(push) : a.do # "up", d = 1 => Top.do \notin {"up", "release"}
  PROVE  Clicking'
<1>1. Walk("up")' <=> Walk("up")
  BY WalkKept
<1>2. \A f \in clicked' \ stuck' : f \in clicked \ stuck /\ Reachable(f)'
  BY ReachableKept DEF Clicking
<1>3. \A f : ToCome("up", f) => ToCome("up", f)'
  <2>1. d = 1 => \A f : ~Comes(Top, "up", f)
    BY DEF Comes
  <2>2. QED
    BY <2>1, ToComeKept DEF Backwards
<1>4. \A f : ToRelease(f) => ToRelease(f)'
  BY DEF ToRelease, Sets
<1>5. QED
  BY <1>1, <1>2, <1>3, <1>4, ClickStep

LEMMA TreeKept ==
  ASSUME Nested, Listed, UNCHANGED <<tree, events>>, active' \in {Null} \cup (Inputs \cap Alive)
  PROVE  Nested' /\ Listed'
BY DEF Nested, Listed, ListedUnder, Behind, tree, events, Alive

(* Steps that only put functions and loops that go forwards on the stack.  *)
Quiet(push, d) ==
  /\ Order(push, d) /\ Sets(push, d) /\ d \in {0, 1}
  /\ \A a \in ToSet(push) : Fine(a) /\ a.do \notin Backwards \cup {"gain", "entering"}
  /\ d = 1 => Top.do \notin Backwards \cup {"release"}

LEMMA QuietStep ==
  ASSUME IInv, UNCHANGED <<tree, flags, focus, events>>, NEW push, NEW d, Quiet(push, d),
         calls' \in Nat, switches' \in Nat, used' \in BOOLEAN, used => used' \/ Acts' = {}
  PROVE  IInv'
<1>1. Typed'
  BY DEF IInv, Typed, tree, flags, focus, events, Quiet, Order
<1>2. Nested' /\ Listed'
  BY TreeKept DEF IInv, Listed, focus
<1>3. Stacked' /\ Walked'
  BY FineKept DEF IInv, Quiet
<1>4. \A i \in 1..Len(push) : push[i] \in ToSet(push)
  <2>1. push \in Seq(Activations)
    BY DEF Quiet, Order
  <2>2. DOMAIN push = 1..Len(push)
    BY <2>1, LenProperties
  <2>3. QED
    BY <2>2 DEF ToSet
<1>5. OneWalk'
  BY <1>4, OneWalkKept DEF IInv, Quiet
<1>6. Focused'
  BY <1>4, FocusedKept DEF IInv, Quiet, focus
<1>7. Hovering'
  BY HoverKept DEF IInv, Quiet, flags, Backwards
<1>8. Clicking'
  BY ClickKept DEF IInv, Quiet, flags, Backwards
<1>9. QED
  BY <1>1, <1>2, <1>3, <1>5, <1>6, <1>7, <1>8 DEF IInv

-----------------------------------------------------------------------------
(* The steps that leave the frames as they are.                            *)
Harmless(push) ==
  /\ push \in Seq(Activations)
  /\ \A a \in ToSet(push) : Fine(a) /\ a.do \notin Backwards \cup {"gain", "entering"}

LEMMA HarmlessNone == Harmless(<<>>)
BY NoneIs DEF Harmless

LEMMA HarmlessConcat ==
  ASSUME NEW p, NEW q, Harmless(p), Harmless(q)
  PROVE  Harmless(p \o q)
<1>1. p \in Seq(Activations) /\ q \in Seq(Activations)
  BY DEF Harmless
<1>2. p \o q \in Seq(Activations) /\ ToSet(p \o q) = ToSet(p) \cup ToSet(q)
  BY <1>1, ConcatIs
<1>3. QED
  BY <1>2 DEF Harmless

LEMMA HarmlessAt ==
  ASSUME Typed, NEW do \in Doings \ {"gain", "entering"}, NEW of \in {Null} \cup Alive,
         do \in {"pressed", "focus"} => of \in {Null} \cup Inputs,
         do \in {"click", "release", "conceal"} => of # Null
  PROVE  Harmless(<<At(do, of)>>)
<1>1. of \in Null..N
  BY NullIs DEF Typed, Alive
<1>2. At(do, of).do = do /\ At(do, of).of = of /\ <<At(do, of)>> \in Seq(Activations)
      /\ ToSet(<<At(do, of)>>) = {At(do, of)}
  BY <1>1, AtIs
<1>3. About(At(do, of))
  BY <1>2 DEF About, Doings
<1>4. Fine(At(do, of))
  BY <1>2, <1>3, DoingFine
<1>5. do \notin Backwards \cup {"gain", "entering"}
  BY DEF Doings, Backwards
<1>6. QED
  BY <1>2, <1>4, <1>5 DEF Harmless

LEMMA HarmlessScript ==
  ASSUME Typed, NEW f \in {Null} \cup Alive
  PROVE  Harmless(Script(f))
<1>1. Harmless(<<At("script", f)>>)
  BY HarmlessAt DEF Doings
<1>2. QED
  BY <1>1, HarmlessNone DEF Script

LEMMA HarmlessLoop ==
  ASSUME Typed, Listed, NEW do \in Forwards, NEW of \in {Null} \cup Alive, do = "event" => of = Null
  PROVE  Harmless(<<Loop(do, of)>>)
<1>1. do \in Loops /\ do \notin Backwards \cup {"gain", "entering"}
  BY DEF Loops, Forwards, Backwards
<1>2. /\ Fine(Loop(do, of)) /\ Loop(do, of).do = do
      /\ <<Loop(do, of)>> \in Seq(Activations) /\ ToSet(<<Loop(do, of)>>) = {Loop(do, of)}
  BY <1>1, LoopIs
<1>3. QED
  BY <1>1, <1>2 DEF Harmless

LEMMA QuietCall ==
  ASSUME Typed, NEW push, Harmless(push), stack' = push \o stack
  PROVE  Quiet(push, 0)
<1>1. Order(push, 0) /\ Sets(push, 0)
  BY CallShape DEF Harmless
<1>2. QED
  BY <1>1 DEF Quiet, Harmless

LEMMA QuietRest ==
  ASSUME Typed, NEW push, Harmless(push), ~Idle, stack' = push \o Rest,
         Top.do \notin Backwards \cup {"release"}
  PROVE  Quiet(push, 1)
<1>1. Order(push, 1) /\ Sets(push, 1)
  BY RestShape DEF Harmless
<1>2. QED
  BY <1>1 DEF Quiet, Harmless

LEMMA TopAbout ==
  ASSUME Typed, Stacked, ~Idle
  PROVE  About(Top) /\ Top.of \in {Null} \cup Alive
BY TopIs DEF Stacked, About

LEMMA ReturnStep == IInv /\ Return => IInv'
<1> SUFFICES ASSUME IInv, Return PROVE IInv'
  OBVIOUS
<1>1. Typed /\ ~Idle /\ Top.do = "script" /\ stack' = Rest
  BY DEF Return, Running, IInv
<1>2. Quiet(<<>>, 1)
  <2>1. <<>> \o Rest = Rest
    BY <1>1, TopIs, ConcatEmptySeq
  <2>2. Top.do \notin Backwards \cup {"release"}
    BY <1>1 DEF Backwards
  <2>3. QED
    BY <1>1, <2>1, <2>2, HarmlessNone, QuietRest
<1>3. QED
  BY <1>2, QuietStep DEF Return, bounds, IInv, Typed

LEMMA EnteringStep == IInv /\ Entering => IInv'
<1> SUFFICES ASSUME IInv, Entering PROVE IInv'
  OBVIOUS
<1>1. Typed /\ Listed /\ OneWalk /\ ~Idle /\ Top.do = "entering"
  BY DEF Entering, Running, IInv
<1>2. Rest = <<>>
  <2>1. Rest \in Seq(Activations) /\ Len(stack) \in Nat \ {0} /\ Top = stack[1]
        /\ DOMAIN stack = 1..Len(stack) /\ Len(Rest) = Len(stack) - 1
    BY <1>1, TailIs DEF Typed, Idle, Rest, Top
  <2>2. 1 = Len(stack)
    BY <1>1, <2>1 DEF OneWalk
  <2>3. Len(Rest) = 0 /\ Rest \in Seq(Activations)
    <3>1. Len(Rest) = Len(stack) - 1
      BY <2>1
    <3>2. QED
      BY <2>1, <2>2, <3>1, SMT
  <2>4. Rest # <<>> => Len(Rest) \in Nat \ {0}
    BY <2>3, EmptySeq
  <2>5. QED
    BY <2>3, <2>4
<1>3. Harmless(<<Loop("event", Null)>>)
  BY <1>1, HarmlessLoop DEF Forwards
<1>4. stack' = <<Loop("event", Null)>> \o Rest
  <2>1. <<Loop("event", Null)>> \o <<>> = <<Loop("event", Null)>>
    BY <1>3, ConcatEmptySeq DEF Harmless
  <2>2. QED
    BY <1>2, <2>1 DEF Entering
<1>5. Quiet(<<Loop("event", Null)>>, 1)
  <2>1. Top.do \notin Backwards \cup {"release"}
    BY <1>1 DEF Backwards
  <2>2. QED
    BY <1>1, <1>3, <1>4, <2>1, QuietRest
<1>6. QED
  BY <1>5, QuietStep DEF Entering, bounds, IInv, Typed

LEMMA ClickSelfStep == IInv /\ ClickSelf => IInv'
<1> SUFFICES ASSUME IInv, ClickSelf PROVE IInv'
  OBVIOUS
<1>1. Typed /\ Listed /\ Stacked /\ ~Idle /\ Top.do = "click"
  BY DEF ClickSelf, Running, IInv
<1>2. Top.of \in {Null} \cup Alive
  BY <1>1, TopAbout
<1> DEFINE f == Top.of
           push == IF Top.of \in clicked THEN ClickOf(Top.of) ELSE <<>>
<1>3. Harmless(Script(f))
  BY <1>1, <1>2, HarmlessScript
<1>4. Harmless(ClickOf(f))
  <2>1. CASE f \in Inputs
    <3>1. Harmless(<<At("focus", f)>>)
      BY <1>1, <1>2, <2>1, HarmlessAt DEF Doings
    <3>2. Harmless(Script(f) \o <<At("focus", f)>>)
      BY <1>3, <3>1, HarmlessConcat
    <3>3. Harmless((Script(f) \o <<At("focus", f)>>) \o Script(f))
      BY <1>3, <3>2, HarmlessConcat
    <3>4. QED
      BY <2>1, <3>3 DEF ClickOf
  <2>2. CASE f \notin Inputs
    BY <1>3, <2>2 DEF ClickOf
  <2>3. QED
    BY <2>1, <2>2
<1>5. Harmless(push) /\ stack' = push \o Rest
  BY <1>4, HarmlessNone DEF ClickSelf
<1> HIDE DEF push
<1>6. Quiet(push, 1)
  <2>1. Top.do \notin Backwards \cup {"release"}
    BY <1>1 DEF Backwards
  <2>2. QED
    BY <1>1, <1>5, <2>1, QuietRest
<1>7. QED
  BY <1>6, QuietStep DEF ClickSelf, bounds, IInv, Typed

LEMMA PressedStep == IInv /\ Pressed => IInv'
<1> SUFFICES ASSUME IInv, Pressed PROVE IInv'
  OBVIOUS
<1>1. Typed /\ Listed /\ Stacked /\ ~Idle /\ Top.do = "pressed"
  BY DEF Pressed, Running, IInv
<1>2. Top.of \in {Null} \cup Alive /\ Top.of \in {Null} \cup Inputs
  BY <1>1, TopAbout DEF About
<1> DEFINE push == IF Top.of \in clicked THEN <<At("focus", Top.of)>> ELSE <<>>
<1>3. Harmless(<<At("focus", Top.of)>>)
  BY <1>1, <1>2, HarmlessAt DEF Doings
<1>4. Harmless(push) /\ stack' = push \o Rest
  BY <1>3, HarmlessNone DEF Pressed
<1> HIDE DEF push
<1>5. Quiet(push, 1)
  <2>1. Top.do \notin Backwards \cup {"release"}
    BY <1>1 DEF Backwards
  <2>2. QED
    BY <1>1, <1>4, <2>1, QuietRest
<1>6. QED
  BY <1>5, QuietStep DEF Pressed, bounds, IInv, Typed

(* The calls that only start something.                                    *)
LEMMA CallStep ==
  ASSUME IInv, Calling, UNCHANGED <<tree, flags, focus, events>>, NEW push, Harmless(push), Call(push)
  PROVE  IInv'
<1>1. Quiet(push, 0)
  BY QuietCall DEF Call, IInv
<1>2. calls' \in Nat /\ switches' \in Nat /\ used' \in BOOLEAN /\ used' = used
  BY DEF Calling, IInv, Typed
<1>3. QED
  BY <1>1, <1>2, QuietStep

LEMMA PlainCallsStep ==
  ASSUME IInv,
         \/ \E f \in Alive : Hide(f) \/ Click(f)
         \/ \E f \in Alive \cap Inputs : SetFocus(f)
         \/ ExecuteEvent \/ ClearFocus
  PROVE  IInv'
<1> USE DEF IInv
<1>1. ASSUME NEW f \in Alive, Hide(f) PROVE IInv'
  <2>1. f # Null /\ f \in {Null} \cup Alive
    BY NullIs DEF Typed, Alive
  <2>2. Harmless(<<At("conceal", f)>>)
    BY <2>1, HarmlessAt DEF Doings
  <2>3. Harmless(<<At("focus", Null)>>)
    BY HarmlessAt DEF Doings
  <2> DEFINE give == IF f = active THEN <<At("focus", Null)>> ELSE <<>>
  <2>4. Harmless(give)
    BY <2>3, HarmlessNone
  <2> HIDE DEF give
  <2>5. Harmless(give \o <<At("conceal", f)>>)
    BY <2>2, <2>4, HarmlessConcat
  <2>6. QED
    BY <1>1, <2>5, CallStep DEF Hide, give
<1>2. ASSUME NEW f \in Alive, Click(f) PROVE IInv'
  <2>1. Harmless(Script(f))
    BY HarmlessScript
  <2>2. QED
    BY <1>2, <2>1, CallStep DEF Click
<1>3. ASSUME NEW f \in Alive \cap Inputs, SetFocus(f) PROVE IInv'
  <2>1. Harmless(<<At("focus", f)>>)
    BY HarmlessAt DEF Doings
  <2>2. QED
    BY <1>3, <2>1, CallStep DEF SetFocus
<1>4. CASE ExecuteEvent
  <2>1. Harmless(<<Loop("event", Null)>>)
    BY HarmlessLoop DEF Forwards
  <2>2. QED
    BY <1>4, <2>1, CallStep DEF ExecuteEvent
<1>5. CASE ClearFocus
  <2>1. Harmless(<<At("focus", Null)>>)
    BY HarmlessAt DEF Doings
  <2>2. QED
    BY <1>5, <2>1, CallStep DEF ClearFocus
<1>6. QED
  BY <1>1, <1>2, <1>3, <1>4, <1>5

-----------------------------------------------------------------------------
(* The walks.                                                              *)

(* A walk that starts is above all that is shown.                          *)
LEMMA StartComes ==
  ASSUME Typed, Nested, Listed, NEW do \in Backwards, NEW f \in Alive
  PROVE  Comes(Loop(do, Null), do, f)
<1>1. f \in born
  BY DEF Alive
<1>2. PICK c \in Line(f) : parent[c] = Null
  BY <1>1, LineFacts
<1>3. c \in Alive
  BY <1>1, <1>2, LineFacts
<1>4. c \in ToSet(children[Null])
  BY <1>2, <1>3 DEF Listed, ListedUnder
<1>5. Loop(do, Null).do = do /\ Before(Loop(do, Null)) = ToSet(children[Null])
  BY LoopIs DEF Loops, Backwards
<1>6. QED
  BY <1>2, <1>4, <1>5 DEF Comes

LEMMA StartStep ==
  ASSUME IInv, NEW do \in Loops, Start(do)
  PROVE  IInv'
<1> USE DEF IInv
<1> DEFINE l == Loop(do, Null)
<1>1. /\ Idle /\ stack' = <<l>> /\ used' = FALSE
      /\ UNCHANGED <<tree, flags, focus, events, bounds>>
  BY DEF Start
<1>2. /\ l \in Activations /\ Fine(l) /\ l.do = do /\ l.of = Null
      /\ <<l>> \in Seq(Activations) /\ ToSet(<<l>>) = {l}
  BY LoopIs
<1> HIDE DEF l
<1>3. Order(<<l>>, 0) /\ Sets(<<l>>, 0)
  BY <1>1, <1>2, IdleShape
<1>4. Typed'
  BY <1>1, <1>2 DEF Typed, tree, flags, focus, events, bounds
<1>5. Nested' /\ Listed'
  BY <1>1, TreeKept DEF Listed, focus
<1>6. Stacked' /\ Walked'
  BY <1>1, <1>2, <1>3, FineKept
<1>7. OneWalk'
  <2>1. Len(<<l>>) = 1 /\ DOMAIN <<l>> = {1} /\ <<l>>[1] = l
    OBVIOUS
  <2>2. l.do # "entering"
    BY <1>2 DEF Loops, Backwards, Forwards
  <2>3. PICK s : s = stack'
    OBVIOUS
  <2>4. Len(s) = 1 /\ DOMAIN s = {1} /\ s[1] = l
    BY <1>1, <2>1, <2>3
  <2>5. QED
    BY <1>2, <2>2, <2>3, <2>4 DEF OneWalk, Bottom
<1>8. Focused'
  <2>1. \A i \in 1..Len(<<l>>) : <<l>>[i].do # "gain"
    <3>1. Len(<<l>>) = 1 /\ <<l>>[1] = l
      OBVIOUS
    <3>2. l.do # "gain"
      BY <1>2 DEF Loops, Backwards, Forwards
    <3>3. \A i \in 1..1 : i = 1
      OBVIOUS
    <3>4. QED
      BY <3>1, <3>2, <3>3
  <2>2. QED
    BY <1>1, <1>3, <2>1, FocusedKept DEF focus
<1>9. Acts = {} /\ Acts' = {l}
  BY <1>1, <1>2, NoneIs DEF Acts, Idle
<1>10. \A f \in hovered \ lapsed : Reachable(f)'
  BY <1>1, ReachableKept DEF Hovering, flags
<1>11. \A f \in clicked \ stuck : Reachable(f)'
  BY <1>1, ReachableKept DEF Clicking, flags
<1>12. ASSUME do \in Backwards, NEW f \in Alive PROVE ToCome(do, f)'
  <2>1. Comes(l, do, f)
    BY <1>12, StartComes DEF l
  <2>2. PICK b : b = l
    OBVIOUS
  <2>3. Line(f)' = Line(f)
    <3>1. parent' = parent
      BY <1>1 DEF tree
    <3>2. QED
      BY <3>1 DEF Line
  <2>4. Before(b)' = Before(b)
    BY <1>1 DEF Before, ListOf, tree, events
  <2>5. Comes(b, do, f)'
    BY <2>1, <2>2, <2>3, <2>4 DEF Comes
  <2>6. b \in Acts'
    BY <1>9, <2>2
  <2>7. QED
    BY <2>5, <2>6 DEF ToCome
<1>13. Hovering'
  <2>1. Lone(hovered \ lapsed)
    BY <1>9 DEF Hovering, Walk
  <2>2. CASE do = "move"
    <3>1. Left' = {}
      BY <1>1, <1>12, <2>2 DEF Left, Backwards, Hovering, Reachable, flags
    <3>2. QED
      BY <1>1, <1>10, <3>1, <2>1 DEF Hovering, Lone, flags
  <2>3. CASE do # "move"
    <3>1. ~Walk("move")'
      BY <1>2, <1>9, <2>3 DEF Walk
    <3>2. QED
      BY <1>1, <1>10, <2>1, <3>1 DEF Hovering, Lone, flags
  <2>4. QED
    BY <2>2, <2>3
<1>14. Clicking'
  <2>1. Walk("up")' => do = "up"
    BY <1>2, <1>9 DEF Walk
  <2>2. do = "up" => \A f \in clicked \ stuck : ToCome("up", f)'
    BY <1>12 DEF Backwards, Clicking, Reachable
  <2>3. QED
    BY <1>1, <1>11, <2>1, <2>2 DEF Clicking, flags
<1>15. QED
  BY <1>4, <1>5, <1>6, <1>7, <1>8, <1>13, <1>14

LEMMA TurnShape ==
  ASSUME Typed, ~Idle, NEW v \in Seq(Activations), NEW t \in Activations, Same(t, Top),
         stack' = v \o <<t>> \o Rest
  PROVE  /\ Order(v, 0) /\ Sets(v \o <<t>>, 1)
         /\ v \o <<t>> \in Seq(Activations) /\ ToSet(v \o <<t>>) = ToSet(v) \cup {t}
<1>1. /\ Rest \in Seq(Activations) /\ Len(stack) \in Nat \ {0} /\ Len(Rest) = Len(stack) - 1
      /\ \A i \in 1..Len(stack) - 1 : Rest[i] = stack[i + 1]
      /\ Top = stack[1]
  BY TailIs DEF Typed, Idle, Rest, Top
<1>2. <<t>> \in Seq(Activations) /\ Len(<<t>>) = 1 /\ <<t>>[1] = t /\ ToSet(<<t>>) = {t}
  BY OneIs
<1>3. PICK o \in Seq(Activations) : o = <<t>> /\ Len(o) = 1 /\ o[1] = t /\ ToSet(o) = {t}
  BY <1>2
<1> DEFINE w == v \o o
<1>31. /\ w \in Seq(Activations) /\ Len(v) \in Nat /\ Len(w) = Len(v) + Len(o)
       /\ \A i \in 1..Len(v) : w[i] = v[i]
       /\ \A i \in 1..Len(o) : w[Len(v) + i] = o[i]
       /\ ToSet(w) = ToSet(v) \cup ToSet(o)
  BY ConcatIs
<1>32. w = v \o <<t>> /\ stack' = w \o Rest
  BY <1>3
<1> HIDE DEF w
<1>4. Len(w) = Len(v) + 1 /\ w[Len(v) + 1] = t /\ ToSet(w) = ToSet(v) \cup {t}
  BY <1>3, <1>31
<1>6. Order(w, 1) /\ Sets(w, 1)
  BY <1>31, <1>32, RestShape
<1>7. PICK s : s = stack'
  OBVIOUS
<1>8. /\ s \in Seq(Activations) /\ Len(s) = Len(w) + Len(stack) - 1
      /\ \A i \in 1..Len(w) : Same(s[i], w[i])
      /\ \A j \in 1..Len(stack) - 1 : Same(s[Len(w) + j], stack[j + 1])
  BY <1>6, <1>7 DEF Order
<1>9. Len(s) = Len(v) + Len(stack) - 0
  BY <1>1, <1>31, <1>4, <1>8
<1>10. \A i \in 1..Len(v) : Same(s[i], v[i])
  BY <1>31, <1>4, <1>8
<1>11. ASSUME NEW j \in 1..Len(stack) - 0 PROVE Same(s[Len(v) + j], stack[j + 0])
  <2>1. CASE j = 1
    <3>1. Len(v) + 1 \in 1..Len(w) /\ j + 0 = 1
      BY <1>31, <1>4, <2>1
    <3>2. Same(s[Len(v) + 1], t)
      BY <1>4, <1>8, <3>1
    <3>3. QED
      BY <1>1, <2>1, <3>1, <3>2 DEF Same
  <2>2. CASE j # 1
    <3>1. Len(w) = Len(v) + 1 /\ Len(v) \in Nat /\ Len(stack) \in Nat
      BY <1>1, <1>31, <1>4
    <3>2. PICK k \in 1..Len(stack) - 1 : k = j - 1
      BY <1>1, <2>2
    <3>3. Len(w) + k = Len(v) + j /\ k + 1 = j /\ j + 0 = j
      BY <3>1, <3>2
    <3>4. Same(s[Len(w) + k], stack[k + 1])
      BY <1>8, <3>2
    <3>5. QED
      BY <3>3, <3>4
  <2>3. QED
    BY <2>1, <2>2
<1>12. Order(v, 0)
  BY <1>1, <1>7, <1>8, <1>9, <1>10, <1>11 DEF Order
<1>13. QED
  BY <1>31, <1>32, <1>4, <1>6, <1>12

LEMMA VisitIs ==
  ASSUME Typed, Listed, NEW do \in Loops, NEW f \in Alive
  PROVE  /\ Visit(do, f) \in Seq(Activations)
         /\ \A a \in ToSet(Visit(do, f)) :
              Fine(a) /\ (a.do = "script" \/ (a.do = do /\ a.of = f /\ do # "event"))
         /\ do \in Backwards => Loop(do, f) \in ToSet(Visit(do, f))
<1>1. Harmless(Script(f)) /\ ToSet(Script(f)) \subseteq {At("script", f)} /\ At("script", f).do = "script"
  BY HarmlessScript, ScriptIs, NullIs DEF Typed, Alive, At
<1>2. do # "event" => /\ Fine(Loop(do, f)) /\ Loop(do, f).do = do /\ Loop(do, f).of = f
                      /\ <<Loop(do, f)>> \in Seq(Activations)
                      /\ ToSet(<<Loop(do, f)>>) = {Loop(do, f)}
  BY LoopIs
<1>3. CASE do = "event"
  <2>1. Visit(do, f) = Script(f) /\ do \notin Backwards
    BY <1>3 DEF Visit, Backwards
  <2>2. QED
    BY <1>1, <2>1 DEF Harmless
<1>4. CASE do \in Backwards
  <2>1. Visit(do, f) = <<Loop(do, f)>> /\ do # "event"
    BY <1>4 DEF Visit, Backwards
  <2>2. QED
    BY <1>2, <2>1
<1>5. CASE do # "event" /\ do \notin Backwards
  <2>1. Visit(do, f) = Script(f) \o <<Loop(do, f)>>
    BY <1>5 DEF Visit
  <2>2. Script(f) \in Seq(Activations) /\ <<Loop(do, f)>> \in Seq(Activations)
    BY <1>1, <1>2, <1>5 DEF Harmless
  <2>3. /\ Script(f) \o <<Loop(do, f)>> \in Seq(Activations)
        /\ ToSet(Script(f) \o <<Loop(do, f)>>) = ToSet(Script(f)) \cup ToSet(<<Loop(do, f)>>)
    BY ZenonT(30), <2>2, ConcatIs
  <2>4. QED
    BY <1>1, <1>2, <1>5, <2>1, <2>3 DEF Harmless
<1>6. QED
  BY <1>3, <1>4, <1>5

LEMMA ComesSame ==
  ASSUME UNCHANGED tree, NEW a, NEW do \in Backwards, NEW f, Comes(a, do, f)
  PROVE  Comes(a, do, f)'
<1>1. Line(f)' = Line(f)
  <2>1. parent' = parent
    BY DEF tree
  <2>2. QED
    BY <2>1 DEF Line
<1>2. Before(a)' = Before(a)
  BY DEF Before, ListOf, tree, Comes, Backwards
<1>3. QED
  BY <1>1, <1>2 DEF Comes

(* What a walk passes it has yet to come to, or what is below it, unless   *)
(* that is hidden.                                                         *)
LEMMA TurnComes ==
  ASSUME Typed, Nested, Listed, Stacked, Walked, Looping, ~Finished, UNCHANGED tree,
         NEW do \in Backwards, do = Top.do, NEW f, f = ListOf(Top.do, Top.of)[Turn.at],
         NEW w, Sets(w, 1), Turned \in ToSet(w), f \notin hidden => Loop(do, f) \in ToSet(w),
         NEW g \in Alive, Shown(g), ToCome(do, g)
  PROVE  ToCome(do, g)'
<1>2. /\ f \in Alive /\ Same(Turned, Top) /\ Before(Top) \subseteq Before(Turned) \cup {f}
  BY TurnedIs
<1>3. g \in born
  BY DEF Alive
<1>4. ASSUME NEW b \in Acts', Comes(b, do, g) PROVE ToCome(do, g)'
  <2>1. Comes(b, do, g)'
    BY <1>4, ComesSame
  <2>2. QED
    BY <2>1 DEF ToCome
<1>5. CASE ~Comes(Top, do, g)
  BY <1>5, ToComeKept
<1>6. CASE Comes(Top, do, g) /\ Comes(Turned, do, g)
  <2>1. Turned \in Acts'
    BY DEF Sets
  <2>2. PICK b : b = Turned
    OBVIOUS
  <2>3. ToCome(do, g)'
    BY <1>4, <1>6, <2>1, <2>2
  <2>4. QED
    BY <2>3
<1>7. CASE Comes(Top, do, g) /\ ~Comes(Turned, do, g)
  <2>1. f \in Line(g)
    BY <1>2, <1>7 DEF Comes, Same
  <2>2. f \notin hidden
    BY <2>1 DEF Shown
  <2>3. Loop(do, f) \in Acts'
    BY <2>2 DEF Sets
  <2>4. /\ Loop(do, f).do = do /\ Loop(do, f).of = f /\ Before(Loop(do, f)) = ToSet(children[f])
    <3>1. do \in Loops /\ do # "event" /\ f \in {Null} \cup Alive
      BY <1>2 DEF Loops, Backwards
    <3>2. QED
      BY ZenonT(30), <3>1, LoopIs
  <2>5. Comes(Loop(do, f), do, g)
    <3>1. CASE f = g
      BY <2>4, <3>1 DEF Comes
    <3>2. CASE f # g
      <4>1. PICK c \in Line(g) : parent[c] = f
        BY <1>3, <2>1, <3>2, LineFacts
      <4>2. c \in Alive
        BY <1>3, <4>1, LineFacts
      <4>3. c \in ToSet(children[f])
        BY <1>2, <4>1, <4>2 DEF Listed, ListedUnder
      <4>4. QED
        BY <2>4, <4>1, <4>3 DEF Comes
    <3>3. QED
      BY <3>1, <3>2
  <2>6. PICK b : b = Loop(do, f)
    OBVIOUS
  <2>7. ToCome(do, g)'
    BY <1>4, <2>3, <2>5, <2>6
  <2>8. QED
    BY <2>7
<1>8. QED
  BY <1>5, <1>6, <1>7

LEMMA LoopTurnStep == IInv /\ LoopTurn => IInv'
<1> SUFFICES ASSUME IInv, LoopTurn PROVE IInv'
  OBVIOUS
<1>1. /\ Typed /\ Nested /\ Listed /\ Stacked /\ Walked /\ OneWalk /\ Focused /\ Hovering /\ Clicking
      /\ Looping /\ ~Finished
      /\ UNCHANGED <<tree, flags, focus, events, used, bounds>>
  BY DEF IInv, LoopTurn
<1>2. PICK f : f = ListOf(Top.do, Top.of)[Turn.at]
  OBVIOUS
<1>3. PICK v : v = IF Skips(Top.do, f) THEN <<>> ELSE Visit(Top.do, f)
  OBVIOUS
<1>4. stack' = v \o <<Turned>> \o Rest
  BY <1>2, <1>3 DEF LoopTurn, Turned
<1>5. /\ ~Idle /\ Top.do \in Loops
      /\ Top \in Acts
  BY <1>1, TurnIs
<1>6. /\ f \in Alive /\ Turned \in Activations /\ Same(Turned, Top) /\ Fine(Turned)
  BY <1>1, <1>2, TurnedIs
<1>7. /\ Visit(Top.do, f) \in Seq(Activations)
      /\ \A a \in ToSet(Visit(Top.do, f)) :
           Fine(a) /\ (a.do = "script" \/ (a.do = Top.do /\ a.of = f /\ Top.do # "event"))
      /\ Top.do \in Backwards => Loop(Top.do, f) \in ToSet(Visit(Top.do, f))
  BY <1>1, <1>5, <1>6, VisitIs
<1>8. /\ v \in Seq(Activations)
      /\ \A a \in ToSet(v) : Fine(a) /\ (a.do = "script" \/ (a.do = Top.do /\ a.of = f))
      /\ Top.do \in Backwards /\ f \notin hidden => Loop(Top.do, f) \in ToSet(v)
  <2>1. CASE Skips(Top.do, f)
    <3>1. v = <<>> /\ f \in hidden
      BY <1>3, <2>1 DEF Skips
    <3>2. QED
      BY <3>1, NoneIs
  <2>2. CASE ~Skips(Top.do, f)
    BY <1>3, <1>7, <2>2
  <2>3. QED
    BY <2>1, <2>2
<1>9. PICK w : w = v \o <<Turned>>
  OBVIOUS
<1>10. /\ Order(v, 0) /\ Sets(w, 1) /\ w \in Seq(Activations) /\ ToSet(w) = ToSet(v) \cup {Turned}
  BY <1>1, <1>4, <1>5, <1>6, <1>8, <1>9, TurnShape
<1>11. \A a \in ToSet(w) : Fine(a) /\ (a.do = "script" \/ a.do = Top.do)
  BY <1>6, <1>8, <1>10 DEF Same
<1>12. \A i \in 1..Len(v) : v[i] \in ToSet(v)
  <2>1. DOMAIN v = 1..Len(v)
    BY <1>8, LenProperties
  <2>2. QED
    BY <2>1 DEF ToSet
<1>13. f # Null /\ Top.do # "entering" /\ Top.do # "gain" /\ Top.do \notin {"release", "script"}
  <2>1. f # Null
    BY <1>1, <1>6, NullIs DEF Typed, Alive
  <2>2. QED
    BY <1>5, <2>1 DEF Loops, Backwards, Forwards
<1>14. Typed'
  BY <1>1, <1>10 DEF Typed, tree, flags, focus, events, bounds, Order
<1>15. Nested' /\ Listed'
  BY <1>1, TreeKept DEF Listed, focus
<1>16. Stacked' /\ Walked'
  BY <1>1, <1>10, <1>11, FineKept
<1>17. OneWalk'
  <2>1. \A i \in 1..Len(v) :
          /\ v[i].do # "entering"
          /\ v[i].do \in Backwards => ~Idle /\ v[i].do = Top.do /\ v[i].of # Null
    BY <1>5, <1>8, <1>12, <1>13 DEF Backwards
  <2>2. QED
    BY <1>1, <1>10, <2>1, OneWalkKept
<1>18. Focused'
  <2>1. \A i \in 1..Len(v) : v[i].do # "gain"
    BY <1>8, <1>12, <1>13
  <2>2. QED
    BY <1>1, <1>10, <2>1, FocusedKept DEF focus
<1>19. UNCHANGED <<hidden, mouse, hovered, clicked, lapsed, stuck, pressed>>
  BY <1>1 DEF flags
<1>20. ASSUME NEW do \in Backwards, do = Top.do, NEW g, Reachable(g), ToCome(do, g)
       PROVE  ToCome(do, g)'
  <2>1. g \in Alive /\ Shown(g)
    BY <1>20 DEF Reachable
  <2>2. Turned \in ToSet(w) /\ (f \notin hidden => Loop(do, f) \in ToSet(w))
    BY <1>8, <1>10, <1>20
  <2>3. QED
    BY <1>1, <1>2, <1>10, <1>20, <2>1, <2>2, TurnComes
<1>21. Turned \in Acts'
  BY <1>10 DEF Sets
<1>22. PICK t : t = Turned /\ t.do = Top.do /\ t \in Acts'
  BY <1>6, <1>21 DEF Same
<1>23. Hovering'
  <2>1. CASE Top.do # "move"
    BY <1>1, <1>10, <1>11, <1>19, <2>1, HoverKept
  <2>2. CASE Top.do = "move"
    <3>1. Walk("move") /\ Walk("move")'
      BY <1>5, <1>22, <2>2 DEF Walk
    <3>2. \A g \in hovered \ lapsed : Reachable(g) /\ Reachable(g)'
      BY <1>1, <1>19, ReachableKept DEF Hovering
    <3>3. \A g \in hovered \ lapsed : ToCome("move", g) => ToCome("move", g)'
      BY <1>20, <2>2, <3>2 DEF Backwards
    <3>4. QED
      BY <1>1, <1>19, <3>1, <3>2, <3>3, HoverStep
  <2>3. QED
    BY <2>1, <2>2
<1>24. Clicking'
  <2>1. CASE Top.do # "up"
    BY <1>1, <1>10, <1>11, <1>13, <1>19, <2>1, ClickKept
  <2>2. CASE Top.do = "up"
    <3>1. Walk("up")
      BY <1>5, <2>2 DEF Walk
    <3>2. \A g \in clicked \ stuck : Reachable(g) /\ Reachable(g)'
      BY <1>1, <1>19, ReachableKept DEF Clicking
    <3>3. \A g \in clicked \ stuck : ToCome("up", g) => ToCome("up", g)'
      BY <1>20, <2>2, <3>2 DEF Backwards
    <3>4. \A g : ToRelease(g) => ToRelease(g)'
      BY <1>10, <1>13 DEF ToRelease, Sets
    <3>5. QED
      BY <1>1, <1>19, <3>1, <3>2, <3>3, <3>4, ClickStep
  <2>3. QED
    BY <2>1, <2>2
<1>25. QED
  BY <1>14, <1>15, <1>16, <1>17, <1>18, <1>23, <1>24 DEF IInv

(* What the steps that leave the lists as they are have in common.         *)
LEMMA StackStep ==
  ASSUME IInv, UNCHANGED <<tree, events>>, active' \in {Null} \cup (Inputs \cap Alive),
         NEW push, NEW d, Order(push, d), Sets(push, d),
         \A a \in ToSet(push) : Fine(a) /\ a.do \notin Backwards \cup {"entering"}
  PROVE  /\ Nested' /\ Listed' /\ Stacked' /\ Walked' /\ OneWalk' /\ stack' \in Seq(Activations)
         /\ (\A a \in ToSet(push) : a.do # "gain") /\ UNCHANGED focus => Focused'
<1>1. Nested' /\ Listed'
  BY TreeKept DEF IInv
<1>2. Stacked' /\ Walked'
  BY FineKept DEF IInv
<1>3. \A i \in 1..Len(push) : push[i] \in ToSet(push)
  <2>1. push \in Seq(Activations)
    BY DEF Order
  <2>2. DOMAIN push = 1..Len(push)
    BY <2>1, LenProperties
  <2>3. QED
    BY <2>2 DEF ToSet
<1>4. OneWalk'
  BY <1>3, OneWalkKept DEF IInv
<1>5. (\A a \in ToSet(push) : a.do # "gain") /\ UNCHANGED focus => Focused'
  <2>1. SUFFICES ASSUME \A a \in ToSet(push) : a.do # "gain", UNCHANGED focus PROVE Focused'
    OBVIOUS
  <2>2. \A i \in 1..Len(push) : push[i].do # "gain"
    BY <1>3, <2>1
  <2>3. QED
    BY <2>1, <2>2, FocusedKept DEF IInv, focus
<1>6. QED
  BY <1>1, <1>2, <1>4, <1>5 DEF Order

LEMMA RestStep ==
  ASSUME IInv, UNCHANGED <<tree, events, focus>>, ~Idle, NEW push, Harmless(push), stack' = push \o Rest
  PROVE  /\ Order(push, 1) /\ Sets(push, 1)
         /\ Nested' /\ Listed' /\ Stacked' /\ Walked' /\ OneWalk' /\ Focused'
         /\ stack' \in Seq(Activations)
<1>1. Order(push, 1) /\ Sets(push, 1)
  BY RestShape DEF IInv, Harmless
<1>2. active' \in {Null} \cup (Inputs \cap Alive)
  BY DEF IInv, Listed, focus
<1>3. \A a \in ToSet(push) : Fine(a) /\ a.do \notin Backwards \cup {"entering"} /\ a.do # "gain"
  BY DEF Harmless
<1>4. QED
  BY <1>1, <1>2, <1>3, StackStep

(* A walk of the interface itself runs alone when it goes on.              *)
LEMMA LastIs ==
  ASSUME Typed, OneWalk, ~Idle, Top.do = "entering" \/ (Top.do \in Backwards /\ Top.of = Null)
  PROVE  Rest = <<>> /\ Acts = {Top}
<1>1. /\ Rest \in Seq(Activations) /\ Len(stack) \in Nat \ {0} /\ Top = stack[1]
      /\ DOMAIN stack = 1..Len(stack) /\ Len(Rest) = Len(stack) - 1
      /\ Acts = {Top} \cup ToSet(Rest)
  BY TailIs DEF Typed, Idle, Rest, Top, Acts
<1>2. 1 = Len(stack)
  BY <1>1 DEF OneWalk
<1>3. Len(Rest) = 0
  <2>1. Len(Rest) = Len(stack) - 1
    BY <1>1
  <2>2. QED
    BY <1>2, <2>1, SMT
<1>4. Rest = <<>>
  <2>1. Rest # <<>> => Len(Rest) \in Nat \ {0}
    BY <1>1, EmptySeq
  <2>2. QED
    BY <1>3, <2>1
<1>5. QED
  BY <1>1, <1>4, NoneIs

LEMMA OverIs ==
  ASSUME Typed, Listed, Stacked, Walked, Looping, Finished, Top.do \in Backwards, NEW g, Comes(Top, Top.do, g)
  PROVE  g = Top.of
<1>1. /\ Top.do \in Loops /\ Top.of \in {Null} \cup Alive /\ (Top.do = "event" => Top.of = Null)
  BY TurnIs
<1>2. DOMAIN ListOf(Top.do, Top.of) = 1..Len(ListOf(Top.do, Top.of)) /\ Len(ListOf(Top.do, Top.of)) \in Nat
  BY <1>1, ListIs
<1>3. Top.at = 0
  BY DEF Finished
<1>4. {k \in DOMAIN ListOf(Top.do, Top.of) : k <= Top.at} = {}
  BY <1>2, <1>3
<1>5. Before(Top) = {}
  BY <1>4 DEF Before
<1>6. QED
  BY <1>5 DEF Comes

LEMMA LoopEndStep == IInv /\ LoopEnd => IInv'
<1> SUFFICES ASSUME IInv, LoopEnd PROVE IInv'
  OBVIOUS
<1>1. /\ Typed /\ Nested /\ Listed /\ Stacked /\ Walked /\ OneWalk /\ Focused /\ Hovering /\ Clicking
      /\ Looping /\ Finished /\ ~Idle /\ stack' = Rest
      /\ UNCHANGED <<tree, hidden, mouse, hovered, clicked, lapsed, stuck, focus, events, bounds>>
      /\ Top.of = Null \/ Top.do \in Forwards
      /\ Top.do \in Loops
      /\ pressed' = IF Top.do = "up" THEN {} ELSE pressed
      /\ used' = (used /\ Rest # <<>>)
  BY DEF IInv, LoopEnd, Looping
<1>2. stack' = <<>> \o Rest
  BY <1>1, TopIs, ConcatEmptySeq
<1>3. /\ Order(<<>>, 1) /\ Sets(<<>>, 1)
      /\ Nested' /\ Listed' /\ Stacked' /\ Walked' /\ OneWalk' /\ Focused'
      /\ stack' \in Seq(Activations)
  BY <1>1, <1>2, HarmlessNone, RestStep
<1>4. Typed'
  BY <1>1, <1>3 DEF Typed, tree, focus, events, bounds
<1>5. Rest = <<>> => Acts' = {}
  BY <1>1, NoneIs DEF Acts
<1>6. CASE Top.do \notin Backwards
  <2>1. UNCHANGED flags /\ (used => used' \/ Acts' = {})
    BY <1>1, <1>5, <1>6 DEF flags, Backwards
  <2>2. Top.do \notin Backwards \cup {"release"}
    BY <1>1, <1>6 DEF Loops, Backwards, Forwards
  <2>3. Quiet(<<>>, 1)
    BY <1>1, <1>2, <2>2, HarmlessNone, QuietRest
  <2>4. calls' \in Nat /\ switches' \in Nat /\ used' \in BOOLEAN
    BY <1>4 DEF Typed
  <2>5. QED
    BY <1>1, <2>1, <2>3, <2>4, QuietStep
<1>7. CASE Top.do \in Backwards
  <2>1. Top.of = Null
    BY <1>1, <1>7 DEF Backwards, Forwards
  <2>2. Rest = <<>> /\ Acts = {Top} /\ Acts' = {}
    BY <1>1, <1>5, <1>7, <2>1, LastIs
  <2>3. \A g \in Alive : ~Comes(Top, Top.do, g)
    <3>1. Null \notin Alive
      BY <1>1, NullIs DEF Typed, Alive
    <3>2. QED
      BY <1>1, <1>7, <2>1, <3>1, OverIs
  <2>4. \A g \in Alive, do \in Backwards : ~ToCome(do, g)
    BY <2>2, <2>3 DEF ToCome, Comes
  <2>5. \A do : ~Walk(do)'
    BY <2>2 DEF Walk
  <2>6. Hovering'
    <3>1. \A g \in hovered \ lapsed : Reachable(g) /\ Reachable(g)'
      BY <1>1, ReachableKept DEF Hovering
    <3>2. \A g \in hovered \ lapsed : ~ToCome("move", g)
      BY <2>4, <3>1 DEF Backwards, Reachable
    <3>3. QED
      BY <1>1, <2>5, <3>1, <3>2, HoverStep
  <2>7. Clicking'
    <3>1. \A g \in clicked \ stuck : Reachable(g) /\ Reachable(g)'
      BY <1>1, ReachableKept DEF Clicking
    <3>2. Top.do = "up" => clicked \subseteq stuck
      <4>1. SUFFICES ASSUME Top.do = "up", NEW g \in clicked \ stuck PROVE FALSE
        OBVIOUS
      <4>2. Walk("up") /\ ~ToRelease(g)
        BY <2>2, <4>1 DEF Walk, ToRelease
      <4>3. ~ToCome("up", g)
        BY <2>4, <3>1, <4>1 DEF Reachable, Backwards
      <4>4. QED
        BY <1>1, <4>1, <4>2, <4>3 DEF Clicking
    <3>3. clicked' \subseteq pressed' \cup stuck'
      BY <1>1, <3>2 DEF Clicking
    <3>4. QED
      BY <1>1, <2>5, <3>1, <3>3 DEF Clicking
  <2>8. QED
    BY <1>3, <1>4, <2>6, <2>7 DEF IInv
<1>8. QED
  BY <1>6, <1>7

(* A walk that is done with what is below a frame comes to the frame.      *)
LEMMA SelfIs ==
  ASSUME IInv, NEW do \in Backwards, Self(do)
  PROVE  /\ ~Idle /\ Top.do = do /\ Top.of \in Alive /\ Top.of # Null /\ Top \in Acts
         /\ \A g : Comes(Top, do, g) => g = Top.of
         /\ \E a \in Acts \ {Top} : a.do = do
<1>1. /\ Typed /\ Listed /\ Stacked /\ Walked /\ OneWalk
      /\ ~Idle /\ Top.do = do /\ Top.of # Null /\ Finished
  BY DEF IInv, Self, Running
<1>2. Looping
  BY <1>1 DEF Looping, Loops
<1>3. Top.of \in Alive /\ Top \in Acts
  BY <1>1, <1>2, TurnIs
<1>4. \A g : Comes(Top, do, g) => g = Top.of
  BY <1>1, <1>2, OverIs
<1>5. \E a \in Acts \ {Top} : a.do = do
  <2>1. /\ Len(stack) \in Nat \ {0} /\ Top = stack[1]
        /\ DOMAIN stack = 1..Len(stack) /\ Bottom \in Acts
    BY <1>1, TailIs DEF Typed, Idle, Top, Acts, ToSet, Bottom
  <2>2. 1 \in DOMAIN stack
    BY <2>1
  <2>3. Bottom.do = do /\ Bottom.of = Null
    BY <1>1, <2>1, <2>2 DEF OneWalk
  <2>4. QED
    BY <1>1, <2>1, <2>3
<1>6. QED
  BY <1>1, <1>3, <1>4, <1>5

LEMMA MoveSelfStep == IInv /\ MoveSelf => IInv'
<1> SUFFICES ASSUME IInv, MoveSelf PROVE IInv'
  OBVIOUS
<1>1. PICK f : f = Top.of
  OBVIOUS
<1>2. /\ Typed /\ Listed /\ Hovering /\ Clicking /\ Self("move")
      /\ hovered' \in Pointed(f)
      /\ used' = (used \/ (f \in mouse /\ f \in hovered'))
      /\ stack' = (IF hovered' = hovered THEN <<>> ELSE Script(f)) \o Rest
      /\ lapsed' = IF f \notin mouse THEN lapsed
                   ELSE IF f \in hovered' /\ ~Shown(f) THEN lapsed \cup {f} ELSE lapsed \ {f}
      /\ UNCHANGED <<tree, hidden, mouse, clicked, stuck, pressed, focus, events, bounds>>
  BY <1>1 DEF IInv, MoveSelf
<1>3. /\ ~Idle /\ Top.do = "move" /\ f \in Alive /\ f # Null /\ Top \in Acts
      /\ \A g : Comes(Top, "move", g) => g = f
      /\ \E a \in Acts \ {Top} : a.do = "move"
  BY <1>1, <1>2, SelfIs DEF Backwards
<1>4. PICK push : push = IF hovered' = hovered THEN <<>> ELSE Script(f)
  OBVIOUS
<1>5. Harmless(push) /\ stack' = push \o Rest
  BY <1>2, <1>3, <1>4, HarmlessNone, HarmlessScript
<1>6. /\ Order(push, 1) /\ Sets(push, 1)
      /\ Nested' /\ Listed' /\ Stacked' /\ Walked' /\ OneWalk' /\ Focused'
      /\ stack' \in Seq(Activations)
  BY <1>2, <1>3, <1>5, RestStep
<1>7. f \in Frames
  BY <1>2, <1>3 DEF Typed, Alive
<1>8. \/ f \notin mouse /\ hovered' = hovered
      \/ f \in mouse /\ hovered' = hovered \ {f}
      \/ f \in mouse /\ ~used /\ hovered' = hovered \cup {f}
  BY <1>2 DEF Pointed
<1>9. Typed'
  <2>1. hovered' \in SUBSET Frames /\ lapsed' \in SUBSET Frames /\ used' \in BOOLEAN
    BY <1>2, <1>7, <1>8 DEF Typed
  <2>2. QED
    BY <1>2, <1>6, <2>1 DEF Typed, tree, focus, events, bounds
<1>10. ASSUME NEW g \in hovered' \ lapsed', g # f PROVE g \in hovered \ lapsed
  BY <1>2, <1>8, <1>10
<1>11. \A g \in hovered \ lapsed : Reachable(g) /\ Reachable(g)'
  BY <1>2, ReachableKept DEF Hovering
<1>12. f \in hovered' \ lapsed' => f \in mouse /\ Shown(f)
  BY <1>2, <1>8, <1>11 DEF Reachable
<1>13. \A g \in hovered' \ lapsed' : Reachable(g)'
  <2>1. f \in hovered' \ lapsed' => Reachable(f)'
    <3>1. f \in mouse /\ Shown(f) => Reachable(f)
      BY <1>3 DEF Reachable
    <3>2. QED
      BY <1>2, <1>12, <3>1, ReachableKept
  <2>2. QED
    BY <1>10, <1>11, <2>1
<1>14. \A g : g # f /\ ToCome("move", g) => ToCome("move", g)'
  BY <1>2, <1>3, <1>6, ToComeKept DEF Backwards
<1>15. Walk("move") /\ Walk("move")'
  BY <1>3, <1>6 DEF Walk, Sets
<1>16. Left' \subseteq Left \cup {f}
  BY <1>10, <1>14 DEF Left
<1>17. Lone(Left) /\ (Left # {} => used)
  BY <1>2, <1>15 DEF Hovering
<1>18. Lone(Left') /\ (Left' # {} => used')
  <2>1. CASE f \in Left'
    <3>1. f \in hovered' /\ f \in mouse
      BY <1>12, <2>1 DEF Left
    <3>2. used' /\ ~used
      BY <1>2, <1>8, <3>1
    <3>3. Left' \subseteq {f}
      BY <1>16, <1>17, <3>2
    <3>4. QED
      BY <3>2, <3>3 DEF Lone
  <2>2. CASE f \notin Left'
    <3>1. Left' \subseteq Left /\ (used => used')
      BY <1>2, <1>16, <2>2
    <3>2. QED
      BY <1>17, <3>1 DEF Lone
  <2>3. QED
    BY <2>1, <2>2
<1>19. Hovering'
  BY <1>13, <1>15, <1>18 DEF Hovering, Lone
<1>20. Clicking'
  <2>1. \A a \in ToSet(push) : a.do # "up"
    BY <1>5 DEF Harmless, Backwards
  <2>2. QED
    BY <1>2, <1>3, <1>6, <2>1, ClickKept
<1>21. QED
  BY <1>6, <1>9, <1>19, <1>20 DEF IInv

LEMMA DownSelfStep == IInv /\ DownSelf => IInv'
<1> SUFFICES ASSUME IInv, DownSelf PROVE IInv'
  OBVIOUS
<1>1. PICK f : f = Top.of
  OBVIOUS
<1>2. PICK takes \in BOOLEAN : takes = (f \in mouse /\ ~used /\ f \in hovered)
  OBVIOUS
<1>3. PICK new \in BOOLEAN : new = (takes /\ f \notin clicked)
  OBVIOUS
<1>4. PICK push : push = (IF new THEN Script(f) ELSE <<>>)
                         \o (IF f \in Inputs THEN <<At("pressed", f)>> ELSE <<>>)
  OBVIOUS
<1>5. /\ Typed /\ Listed /\ Hovering /\ Clicking /\ OneWalk /\ Self("down")
      /\ clicked' = IF takes THEN clicked \cup {f} ELSE clicked
      /\ used' = (used \/ takes)
      /\ pressed' = IF new THEN pressed \cup {f} ELSE pressed
      /\ stuck' = IF new /\ ~Shown(f) THEN stuck \cup {f} ELSE stuck
      /\ stack' = (IF new THEN Script(f) ELSE <<>>)
                  \o (IF f \in Inputs THEN <<At("pressed", f)>> ELSE <<>>) \o Rest
      /\ UNCHANGED <<tree, hidden, mouse, hovered, lapsed, focus, events, bounds>>
  BY <1>1, <1>2, <1>3 DEF IInv, DownSelf
<1>6. /\ ~Idle /\ Top.do = "down" /\ f \in Alive /\ f # Null /\ Top \in Acts
  BY <1>1, <1>5, SelfIs DEF Backwards
<1>7. f \in Frames
  BY <1>5, <1>6 DEF Typed, Alive
<1>8. Harmless(push)
  <2>1. PICK p : p = IF new THEN Script(f) ELSE <<>>
    OBVIOUS
  <2>2. PICK q : q = IF f \in Inputs THEN <<At("pressed", f)>> ELSE <<>>
    OBVIOUS
  <2>3. Harmless(p)
    BY <1>5, <1>6, <2>1, HarmlessNone, HarmlessScript
  <2>4. f \in Inputs => Harmless(<<At("pressed", f)>>)
    BY <1>5, <1>6, HarmlessAt DEF Doings
  <2>5. Harmless(q)
    BY <2>2, <2>4, HarmlessNone
  <2>6. QED
    BY <1>4, <2>1, <2>2, <2>3, <2>5, HarmlessConcat
<1>9. stack' = push \o Rest
  BY <1>4, <1>5
<1>10. /\ Order(push, 1) /\ Sets(push, 1)
       /\ Nested' /\ Listed' /\ Stacked' /\ Walked' /\ OneWalk' /\ Focused'
       /\ stack' \in Seq(Activations)
  BY <1>5, <1>6, <1>8, <1>9, RestStep
<1>11. Typed'
  <2>1. clicked' \in SUBSET Frames /\ pressed' \in SUBSET Frames /\ stuck' \in SUBSET Frames
        /\ used' \in BOOLEAN
    BY <1>5, <1>7 DEF Typed
  <2>2. QED
    BY <1>5, <1>10, <2>1 DEF Typed, tree, focus, events, bounds
<1>12. \A a \in ToSet(push) : a.do # "move" /\ a.do # "up"
  BY <1>8 DEF Harmless, Backwards
<1>13. Hovering'
  BY <1>5, <1>6, <1>10, <1>12, HoverKept
<1>14. ~Walk("up")'
  <2>1. ~Walk("up")
    <3>1. SUFFICES ASSUME NEW a \in Acts, a.do = "up" PROVE FALSE
      BY DEF Walk
    <3>2. PICK i \in 1..Len(stack) : a = stack[i]
      BY <1>5, <3>1, ActsAre
    <3>3. Bottom.do = "up"
      BY <1>5, <3>1, <3>2, ActsAre DEF OneWalk, Backwards
    <3>4. PICK j \in 1..Len(stack) : Top = stack[j]
      BY <1>5, <1>6, ActsAre
    <3>5. Bottom.do = "down"
      BY <1>5, <1>6, <3>4, ActsAre DEF OneWalk, Backwards
    <3>6. QED
      BY <3>3, <3>5
  <2>2. QED
    BY <1>6, <1>10, <1>12, <2>1, WalkKept
<1>15. Clicking'
  <2>1. \A g \in clicked \ stuck : Reachable(g)'
    BY <1>5, ReachableKept DEF Clicking
  <2>2. new /\ Shown(f) => Reachable(f)'
    <3>1. new /\ Shown(f) => Reachable(f)
      BY <1>2, <1>3, <1>6 DEF Reachable
    <3>2. QED
      BY <1>5, <3>1, ReachableKept
  <2>3. \A g \in clicked' \ stuck' : g \in clicked \ stuck \/ (g = f /\ new /\ Shown(f))
    BY <1>3, <1>5
  <2>4. clicked' \subseteq pressed' \cup stuck'
    BY <1>3, <1>5 DEF Clicking
  <2>5. QED
    BY <1>14, <2>1, <2>2, <2>3, <2>4 DEF Clicking
<1>16. QED
  BY <1>10, <1>11, <1>13, <1>15 DEF IInv

LEMMA UpSelfStep == IInv /\ UpSelf => IInv'
<1> SUFFICES ASSUME IInv, UpSelf PROVE IInv'
  OBVIOUS
<1>1. PICK f : f = Top.of
  OBVIOUS
<1>2. PICK push : push = (IF f \in hovered THEN Script(f) \o <<At("click", f)>> ELSE <<>>)
                         \o <<At("release", f)>>
  OBVIOUS
<1>3. /\ Typed /\ Listed /\ Hovering /\ Clicking /\ Self("up")
      /\ stack' = (IF f \in hovered THEN Script(f) \o <<At("click", f)>> ELSE <<>>)
                  \o <<At("release", f)>> \o Rest
      /\ UNCHANGED <<tree, flags, focus, events, used, bounds>>
  BY <1>1 DEF IInv, UpSelf
<1>4. /\ ~Idle /\ Top.do = "up" /\ f \in Alive /\ f # Null /\ Top \in Acts
      /\ \A g : Comes(Top, "up", g) => g = f
      /\ \E a \in Acts \ {Top} : a.do = "up"
  BY <1>1, <1>3, SelfIs DEF Backwards
<1>5. Harmless(push) /\ At("release", f) \in ToSet(push)
  <2>1. PICK p : p = IF f \in hovered THEN Script(f) \o <<At("click", f)>> ELSE <<>>
    OBVIOUS
  <2>2. Harmless(Script(f)) /\ Harmless(<<At("click", f)>>) /\ Harmless(<<At("release", f)>>)
    BY <1>3, <1>4, HarmlessScript, HarmlessAt DEF Doings
  <2>3. Harmless(Script(f) \o <<At("click", f)>>)
    BY <2>2, HarmlessConcat
  <2>4. Harmless(p)
    BY <2>1, <2>3, HarmlessNone
  <2>5. push = p \o <<At("release", f)>>
    BY <1>2, <2>1
  <2>6. PICK q : q = <<At("release", f)>> /\ At("release", f) \in ToSet(q)
    <3>1. f \in Null..N
      BY <1>3, <1>4, NullIs DEF Typed, Alive
    <3>2. "release" \in Doings
      BY DEF Doings
    <3>3. ToSet(<<At("release", f)>>) = {At("release", f)}
      BY <3>1, <3>2, AtIs
    <3>4. QED
      BY <3>3
  <2>7. p \in Seq(Activations) /\ q \in Seq(Activations)
    BY <2>2, <2>4, <2>6 DEF Harmless
  <2>8. ToSet(p \o q) = ToSet(p) \cup ToSet(q)
    BY <2>7, ConcatIs
  <2>9. QED
    BY <2>2, <2>4, <2>5, <2>6, <2>8, HarmlessConcat
<1>6. stack' = push \o Rest
  BY <1>2, <1>3
<1>7. /\ Order(push, 1) /\ Sets(push, 1)
      /\ Nested' /\ Listed' /\ Stacked' /\ Walked' /\ OneWalk' /\ Focused'
      /\ stack' \in Seq(Activations)
  BY <1>3, <1>4, <1>5, <1>6, RestStep
<1>8. Typed'
  BY <1>3, <1>7 DEF Typed, tree, flags, focus, events, bounds
<1>9. \A a \in ToSet(push) : a.do # "move" /\ a.do # "up"
  BY <1>5 DEF Harmless, Backwards
<1>10. Hovering'
  BY <1>3, <1>4, <1>7, <1>9, HoverKept DEF flags
<1>11. Clicking'
  <2>1. UNCHANGED <<tree, hidden, mouse, clicked, stuck, pressed>>
    BY <1>3 DEF flags
  <2>2. \A g \in clicked' \ stuck' : g \in clicked \ stuck /\ Reachable(g)'
    BY <1>3, <2>1, ReachableKept DEF Clicking
  <2>3. Walk("up")
    BY <1>4 DEF Walk
  <2>4. ASSUME NEW g, ToCome("up", g) PROVE ToCome("up", g)' \/ ToRelease(g)'
    <3>1. CASE Comes(Top, "up", g)
      <4>1. g = f /\ At("release", f) \in Acts'
        BY <1>4, <1>5, <1>7, <3>1 DEF Sets
      <4>2. At("release", f).do = "release" /\ At("release", f).of = f
        BY DEF At
      <4>3. PICK b \in Acts' : b.do = "release" /\ b.of = g
        BY <4>1, <4>2
      <4>4. QED
        BY <4>3 DEF ToRelease
    <3>2. CASE ~Comes(Top, "up", g)
      BY <1>3, <1>7, <2>4, <3>2, ToComeKept DEF Backwards
    <3>3. QED
      BY <3>1, <3>2
  <2>5. ASSUME NEW g, ToRelease(g) PROVE ToRelease(g)'
    BY <1>4, <1>7, <2>5 DEF ToRelease, Sets
  <2>6. QED
    BY <1>3, <2>1, <2>2, <2>3, <2>4, <2>5, ClickStep
<1>12. QED
  BY <1>7, <1>8, <1>10, <1>11 DEF IInv

LEMMA ReleaseStep == IInv /\ Release => IInv'
<1> SUFFICES ASSUME IInv, Release PROVE IInv'
  OBVIOUS
<1>1. PICK f : f = Top.of
  OBVIOUS
<1>2. /\ Typed /\ Listed /\ Hovering /\ Clicking
      /\ ~Idle /\ Top.do = "release" /\ stack' = Rest
      /\ IF f \in mouse
         THEN clicked' = clicked \ {f} /\ stuck' = stuck \ {f} /\ used' = (used \/ f \in hovered)
         ELSE UNCHANGED <<clicked, stuck, used>>
      /\ UNCHANGED <<tree, hidden, mouse, hovered, lapsed, pressed, focus, events, bounds>>
  BY <1>1 DEF IInv, Release, Running, Released
<1>3. PICK push : Harmless(push) /\ stack' = push \o Rest /\ \A a \in ToSet(push) : FALSE
  <2>1. stack' = <<>> \o Rest
    BY <1>2, TopIs, ConcatEmptySeq
  <2>2. \A a \in ToSet(<<>>) : FALSE
    BY NoneIs
  <2>3. QED
    BY <2>1, <2>2, HarmlessNone
<1>4. /\ Order(push, 1) /\ Sets(push, 1)
      /\ Nested' /\ Listed' /\ Stacked' /\ Walked' /\ OneWalk' /\ Focused'
      /\ stack' \in Seq(Activations)
  BY <1>2, <1>3, RestStep
<1>5. Typed'
  <2>1. clicked' \in SUBSET Frames /\ stuck' \in SUBSET Frames /\ used' \in BOOLEAN
    BY <1>2 DEF Typed
  <2>2. QED
    BY <1>2, <1>4, <2>1 DEF Typed, tree, focus, events, bounds
<1>7. Hovering'
  <2>1. (used => used' \/ Acts' = {}) /\ Top.do # "move"
    BY <1>2
  <2>2. UNCHANGED <<tree, hidden, mouse, hovered, lapsed>>
    BY <1>2
  <2>3. \A a \in ToSet(push) : a.do # "move"
    BY <1>3
  <2>4. QED
    BY <1>2, <1>4, <2>1, <2>2, <2>3, HoverKept
<1>8. Clicking'
  <2>1. \A g \in clicked \ stuck : Reachable(g) /\ Reachable(g)'
    BY <1>2, ReachableKept DEF Clicking
  <2>2. \A g \in clicked' \ stuck' : g \in clicked \ stuck /\ g # f
    BY <1>2, <2>1 DEF Reachable
  <2>3. Walk("up")' => Walk("up")
    BY <1>3, <1>4 DEF Walk, Sets
  <2>4. \A g : ToCome("up", g) => ToCome("up", g)'
    <3>1. \A g : ~Comes(Top, "up", g)
      BY <1>2 DEF Comes
    <3>2. QED
      BY <1>2, <1>4, <3>1, ToComeKept DEF Backwards
  <2>5. \A g : g # f /\ ToRelease(g) => ToRelease(g)'
    BY <1>1, <1>3, <1>4 DEF ToRelease, Sets
  <2>6. QED
    BY <1>2, <2>1, <2>2, <2>3, <2>4, <2>5, ClickStep
<1>9. QED
  BY <1>4, <1>5, <1>7, <1>8 DEF IInv

-----------------------------------------------------------------------------
(* The focus.                                                              *)

LEMMA EscapeStep == IInv /\ Escape => IInv'
<1> SUFFICES ASSUME IInv, Escape PROVE IInv'
  OBVIOUS
<1>1. /\ Typed /\ Listed /\ Hovering /\ Clicking /\ Focused
      /\ Idle /\ active # Null /\ enabled' \subseteq enabled /\ stack' = Script(active)
      /\ UNCHANGED <<tree, flags, active, strayed, events, used, bounds>>
  BY DEF IInv, Escape
<1>2. active \in Alive /\ active' \in {Null} \cup (Inputs \cap Alive)
  BY <1>1 DEF Listed
<1>3. PICK push : push = Script(active)
  OBVIOUS
<1>4. Harmless(push)
  BY <1>1, <1>2, <1>3, HarmlessScript
<1>5. Order(push, 0) /\ Sets(push, 0)
  BY <1>1, <1>3, <1>4, IdleShape DEF Harmless
<1>6. \A a \in ToSet(push) : Fine(a) /\ a.do \notin Backwards \cup {"entering"} /\ a.do # "gain"
  BY <1>4 DEF Harmless
<1>7. /\ Nested' /\ Listed' /\ Stacked' /\ Walked' /\ OneWalk' /\ stack' \in Seq(Activations)
  BY <1>1, <1>2, <1>5, <1>6, StackStep
<1>8. Typed'
  BY <1>1, <1>7 DEF Typed, tree, flags, events, bounds
<1>9. Focused'
  <2>1. PICK s : s = stack'
    OBVIOUS
  <2>2. \A i \in DOMAIN s : s[i].do # "gain"
    BY <1>1, <1>3, <1>6, <2>1 DEF ToSet
  <2>3. enabled' \subseteq {active'} \cup strayed'
    BY <1>1 DEF Focused
  <2>4. QED
    BY <2>1, <2>2, <2>3 DEF Focused, Losing
<1>10. \A a \in ToSet(push) : a.do # "move" /\ a.do # "up"
  BY <1>4 DEF Harmless, Backwards
<1>11. Hovering'
  BY <1>1, <1>5, <1>10, HoverKept DEF flags
<1>12. Clicking'
  BY <1>1, <1>5, <1>10, ClickKept DEF flags
<1>13. QED
  BY <1>7, <1>8, <1>9, <1>11, <1>12 DEF IInv

(* The gains of a focus that wait below what a step pops.                  *)
LEMMA GainsKept ==
  ASSUME Typed, NEW push, NEW d, Order(push, d),
         NEW i \in DOMAIN stack', i > Len(push)
  PROVE  \E k \in DOMAIN stack : /\ k = i - Len(push) + d
                                 /\ stack[k].do = stack'[i].do /\ stack[k].of = stack'[i].of
<1>1. /\ Len(push) \in Nat /\ Len(stack) \in Nat /\ d \in {0, 1} /\ d <= Len(stack)
      /\ Len(stack') = Len(push) + Len(stack) - d
      /\ DOMAIN stack = 1..Len(stack) /\ DOMAIN stack' = 1..Len(stack')
  BY LenProperties DEF Typed, Order
<1>2. PICK s : s = stack'
  OBVIOUS
<1>3. \A j \in 1..Len(stack) - d :
        s[Len(push) + j].do = stack[j + d].do /\ s[Len(push) + j].of = stack[j + d].of
  BY <1>2 DEF Order, Same
<1>4. PICK j \in 1..Len(stack) - d : j = i - Len(push)
  BY <1>1, <1>2
<1>5. j + d \in 1..Len(stack) /\ Len(push) + j = i
  BY <1>1, <1>2, <1>4
<1>6. QED
  BY <1>1, <1>2, <1>3, <1>4, <1>5

LEMMA FocusStep == IInv /\ Focus => IInv'
<1> SUFFICES ASSUME IInv, Focus PROVE IInv'
  OBVIOUS
<1>1. PICK f : f = Top.of
  OBVIOUS
<1>2. PICK p : p = IF active \in enabled THEN Script(active) ELSE <<>>
  OBVIOUS
<1>3. PICK push : push = p \o <<At("gain", f)>>
  OBVIOUS
<1>4. /\ Typed /\ Listed /\ Stacked /\ Hovering /\ Clicking /\ Focused
      /\ ~Idle /\ Top.do = "focus"
      /\ enabled' = enabled \ {active}
      /\ strayed' = IF Losing THEN strayed \cup ({f} \ {Null}) ELSE strayed
      /\ stack' = push \o Rest
      /\ UNCHANGED <<tree, flags, active, events, used, bounds>>
  BY <1>1, <1>2, <1>3 DEF IInv, Focus, Running, Disabled
<1>5. f \in {Null} \cup Alive /\ f \in {Null} \cup Inputs
  BY <1>1, <1>4, TopAbout DEF About
<1>6. f \in Null..N
  BY <1>4, <1>5, NullIs DEF Typed, Alive
<1>7. active \in {Null} \cup (Inputs \cap Alive)
  BY <1>4 DEF Listed
<1>8. Harmless(p)
  BY <1>2, <1>4, <1>7, HarmlessNone, HarmlessScript
<1>9. PICK q : /\ q = <<At("gain", f)>> /\ q \in Seq(Activations) /\ ToSet(q) = {At("gain", f)}
               /\ At("gain", f).do = "gain" /\ At("gain", f).of = f /\ Len(q) = 1 /\ q[1] = At("gain", f)
  <2>1. "gain" \in Doings
    BY DEF Doings
  <2>2. At("gain", f) \in Activations
    BY <1>6, <2>1, AtIs
  <2>3. At("gain", f).do = "gain" /\ At("gain", f).of = f
    BY <1>6, <2>1, AtIs
  <2>4. PICK a : a = At("gain", f)
    OBVIOUS
  <2>5. <<a>> \in Seq(Activations) /\ ToSet(<<a>>) = {a} /\ Len(<<a>>) = 1 /\ <<a>>[1] = a
    BY <2>2, <2>4, OneIs
  <2>6. QED
    BY <2>3, <2>4, <2>5
<1>10. /\ push \in Seq(Activations) /\ Len(push) = Len(p) + 1 /\ Len(p) \in Nat
       /\ DOMAIN p = 1..Len(p)
       /\ \A i \in 1..Len(p) : push[i] = p[i]
       /\ push[Len(p) + 1] = At("gain", f)
       /\ ToSet(push) = ToSet(p) \cup {At("gain", f)}
  <2>1. p \in Seq(Activations) /\ q \in Seq(Activations)
    BY <1>8, <1>9 DEF Harmless
  <2>2. push = p \o q
    BY <1>3, <1>9
  <2>3. /\ p \o q \in Seq(Activations) /\ Len(p \o q) = Len(p) + Len(q) /\ Len(p) \in Nat
        /\ DOMAIN p = 1..Len(p)
        /\ \A i \in 1..Len(p) : (p \o q)[i] = p[i]
        /\ \A i \in 1..Len(q) : (p \o q)[Len(p) + i] = q[i]
        /\ ToSet(p \o q) = ToSet(p) \cup ToSet(q)
    BY <2>1, ConcatIs
  <2>4. push[Len(p) + 1] = q[1]
    <3>1. 1 \in 1..Len(q)
      BY <1>9
    <3>2. QED
      BY <2>2, <2>3, <3>1
  <2>5. QED
    BY <1>9, <2>2, <2>3, <2>4
<1>11. \A a \in ToSet(push) : Fine(a) /\ a.do \notin Backwards \cup {"entering"}
  <2>1. About(At("gain", f))
    BY <1>5, <1>9 DEF About
  <2>2. Fine(At("gain", f))
    BY <1>9, <2>1, DoingFine DEF Doings
  <2>3. "gain" \notin Backwards \cup {"entering"}
    BY DEF Backwards
  <2>4. \A a \in ToSet(p) : Fine(a) /\ a.do \notin Backwards \cup {"entering"}
    BY <1>8 DEF Harmless
  <2>5. QED
    BY <1>9, <1>10, <2>2, <2>3, <2>4
<1>12. Order(push, 1) /\ Sets(push, 1)
  BY <1>4, <1>10, RestShape
<1>13. /\ Nested' /\ Listed' /\ Stacked' /\ Walked' /\ OneWalk' /\ stack' \in Seq(Activations)
  BY <1>4, <1>7, <1>11, <1>12, StackStep
<1>14. Typed'
  <2>1. enabled' \in SUBSET Frames /\ strayed' \in SUBSET Frames
    BY <1>4, <1>6, NullIs DEF Typed
  <2>2. QED
    BY <1>4, <1>13, <2>1 DEF Typed, tree, flags, events, bounds
<1>15. Focused'
  <2>1. PICK s : s = stack'
    OBVIOUS
  <2>2. \A i \in 1..Len(p) : s[i].do # "gain"
    <3>1. \A i \in 1..Len(p) : s[i].do = p[i].do
      BY <1>10, <1>12, <2>1 DEF Order, Same
    <3>2. \A i \in 1..Len(p) : p[i].do # "gain"
      BY <1>8, <1>10 DEF Harmless, ToSet
    <3>3. QED
      BY <3>1, <3>2
  <2>3. s[Len(push)].do = "gain" /\ s[Len(push)].of = f /\ Len(push) \in 1..Len(push)
    BY <1>9, <1>10, <1>12, <2>1 DEF Order, Same
  <2>4. DOMAIN s = 1..Len(s) /\ Len(s) \in Nat /\ Len(push) \in DOMAIN s
    BY <1>10, <1>12, <2>1, LenProperties DEF Order
  <2>5. ASSUME NEW i \in DOMAIN s, i > Len(push)
        PROVE  \E k \in DOMAIN stack : /\ k = i - Len(push) + 1
                                       /\ stack[k].do = s[i].do /\ stack[k].of = s[i].of
    BY <1>4, <1>12, <2>1, <2>5, GainsKept
  <2>6. enabled' \subseteq {active'} \cup strayed' /\ enabled' \subseteq strayed'
    BY <1>4 DEF Focused
  <2>7. ASSUME NEW i \in DOMAIN s, NEW j \in DOMAIN s, i < j, s[i].do = "gain", s[j].do = "gain"
        PROVE  s[i].of \in {Null} \cup strayed'
    <3>1. i >= Len(push) /\ j > Len(push)
      BY <1>10, <2>2, <2>4, <2>7
    <3>2. PICK l \in DOMAIN stack : l = j - Len(push) + 1 /\ stack[l].do = "gain"
      BY <2>5, <2>7, <3>1
    <3>3. Losing
      BY <3>2 DEF Losing
    <3>4. CASE i = Len(push)
      BY <1>4, <2>3, <3>3, <3>4
    <3>5. CASE i > Len(push)
      <4>1. PICK k \in DOMAIN stack : /\ k = i - Len(push) + 1
                                      /\ stack[k].do = "gain" /\ stack[k].of = s[i].of
        BY <2>5, <2>7, <3>5
      <4>2. k < l
        BY <1>10, <2>4, <2>7, <3>2, <4>1
      <4>3. stack[k].of \in {Null} \cup strayed
        BY <1>4, <3>2, <4>1, <4>2 DEF Focused
      <4>4. QED
        BY <1>4, <4>1, <4>3
    <3>6. QED
      BY <1>10, <2>4, <3>1, <3>4, <3>5
  <2>8. QED
    BY <2>1, <2>6, <2>7 DEF Focused, Losing
<1>16. \A a \in ToSet(push) : a.do # "move" /\ a.do # "up"
  BY <1>11 DEF Backwards
<1>17. Hovering'
  BY <1>4, <1>12, <1>16, HoverKept DEF flags
<1>18. Clicking'
  BY <1>4, <1>12, <1>16, ClickKept DEF flags
<1>19. QED
  BY <1>13, <1>14, <1>15, <1>17, <1>18 DEF IInv

LEMMA GainStep == IInv /\ Gain => IInv'
<1> SUFFICES ASSUME IInv, Gain PROVE IInv'
  OBVIOUS
<1>1. PICK f : f = Top.of
  OBVIOUS
<1>2. PICK push : push = IF f \in enabled \cup {Null} THEN <<>> ELSE Script(f)
  OBVIOUS
<1>3. /\ Typed /\ Listed /\ Stacked /\ Hovering /\ Clicking /\ Focused
      /\ ~Idle /\ Top.do = "gain"
      /\ active' = f
      /\ enabled' = enabled \cup ({f} \ {Null})
      /\ stack' = push \o Rest
      /\ UNCHANGED <<tree, flags, strayed, events, used, bounds>>
  BY <1>1, <1>2 DEF IInv, Gain, Running
<1>4. f \in {Null} \cup Alive /\ f \in {Null} \cup Inputs
  BY <1>1, <1>3, TopAbout DEF About
<1>5. f \in Null..N
  BY <1>3, <1>4, NullIs DEF Typed, Alive
<1>6. Harmless(push)
  BY <1>2, <1>3, <1>4, HarmlessNone, HarmlessScript
<1>7. Order(push, 1) /\ Sets(push, 1)
  BY <1>3, <1>6, RestShape DEF Harmless
<1>8. \A a \in ToSet(push) : Fine(a) /\ a.do \notin Backwards \cup {"entering"} /\ a.do # "gain"
  BY <1>6 DEF Harmless
<1>9. /\ Nested' /\ Listed' /\ Stacked' /\ Walked' /\ OneWalk' /\ stack' \in Seq(Activations)
  BY <1>3, <1>4, <1>7, <1>8, StackStep
<1>10. Typed'
  <2>1. enabled' \in SUBSET Frames /\ active' \in Null..N
    BY <1>3, <1>5, NullIs DEF Typed
  <2>2. QED
    BY <1>3, <1>9, <2>1 DEF Typed, tree, flags, events, bounds
<1>11. Focused'
  <2>1. PICK s : s = stack'
    OBVIOUS
  <2>2. \A i \in 1..Len(push) : s[i].do # "gain"
    <3>1. DOMAIN push = 1..Len(push)
      BY <1>6, LenProperties DEF Harmless
    <3>2. \A i \in 1..Len(push) : s[i].do = push[i].do
      BY <1>7, <2>1 DEF Order, Same
    <3>3. QED
      BY <1>8, <3>1, <3>2 DEF ToSet
  <2>3. DOMAIN s = 1..Len(s) /\ Len(s) \in Nat /\ Len(push) \in Nat
    BY <1>6, <1>7, <2>1, LenProperties DEF Order, Harmless
  <2>4. ASSUME NEW i \in DOMAIN s, s[i].do = "gain"
        PROVE  \E k \in DOMAIN stack : /\ k = i - Len(push) + 1
                                       /\ stack[k].do = "gain" /\ stack[k].of = s[i].of
    <3>1. i > Len(push)
      BY <2>2, <2>3, <2>4
    <3>2. QED
      BY <1>3, <1>7, <2>1, <2>4, <3>1, GainsKept
  <2>5. DOMAIN stack = 1..Len(stack) /\ Len(stack) \in Nat \ {0} /\ stack[1] = Top
    BY <1>3, TailIs DEF Typed, Idle, Top
  <2>6. Losing /\ enabled \subseteq strayed
    <3>1. Losing
      BY <1>3, <2>5 DEF Losing
    <3>2. QED
      BY <1>3, <3>1 DEF Focused
  <2>7. enabled' \subseteq {active'} \cup strayed'
    BY <1>3, <2>6
  <2>8. ASSUME NEW i \in DOMAIN s, s[i].do = "gain" PROVE enabled' \subseteq strayed'
    <3>1. PICK k \in DOMAIN stack : k = i - Len(push) + 1 /\ stack[k].do = "gain"
      BY <2>4, <2>8
    <3>2. 1 < k /\ 1 \in DOMAIN stack
      BY <2>2, <2>3, <2>5, <2>8, <3>1
    <3>3. f \in {Null} \cup strayed
      BY <1>1, <1>3, <2>5, <3>1, <3>2 DEF Focused
    <3>4. QED
      BY <1>3, <2>6, <3>3
  <2>9. ASSUME NEW i \in DOMAIN s, NEW j \in DOMAIN s, i < j, s[i].do = "gain", s[j].do = "gain"
        PROVE  s[i].of \in {Null} \cup strayed'
    <3>1. PICK k \in DOMAIN stack : /\ k = i - Len(push) + 1
                                    /\ stack[k].do = "gain" /\ stack[k].of = s[i].of
      BY <2>4, <2>9
    <3>2. PICK l \in DOMAIN stack : l = j - Len(push) + 1 /\ stack[l].do = "gain"
      BY <2>4, <2>9
    <3>3. k < l
      BY <2>3, <2>9, <3>1, <3>2
    <3>4. stack[k].of \in {Null} \cup strayed
      BY <1>3, <3>1, <3>2, <3>3 DEF Focused
    <3>5. QED
      BY <1>3, <3>1, <3>4
  <2>10. QED
    BY <2>1, <2>7, <2>8, <2>9 DEF Focused, Losing
<1>12. \A a \in ToSet(push) : a.do # "move" /\ a.do # "up"
  BY <1>8 DEF Backwards
<1>13. Hovering'
  BY <1>3, <1>7, <1>12, HoverKept DEF flags
<1>14. Clicking'
  BY <1>3, <1>7, <1>12, ClickKept DEF flags
<1>15. QED
  BY <1>9, <1>10, <1>11, <1>13, <1>14 DEF IInv

-----------------------------------------------------------------------------
(* What is hidden, shown and disabled.                                     *)

LEMMA ConcealStep == IInv /\ Conceal => IInv'
<1> SUFFICES ASSUME IInv, Conceal PROVE IInv'
  OBVIOUS
<1>1. PICK f : f = Top.of
  OBVIOUS
<1>2. /\ Typed /\ Listed /\ Stacked /\ Hovering /\ Clicking /\ ~Idle /\ Top.do = "conceal"
      /\ UNCHANGED <<tree, mouse, hovered, clicked, pressed, focus, events, used, bounds>>
  BY DEF IInv, Conceal, Running
<1>3. f \in Alive /\ f \in {Null} \cup Alive
  BY <1>1, <1>2, TopAbout DEF About
<1>4. CASE f \in hidden
  <2>1. stack' = Rest /\ UNCHANGED flags
    BY <1>1, <1>2, <1>4 DEF Conceal, flags
  <2>2. stack' = <<>> \o Rest
    BY <1>2, <2>1, TopIs, ConcatEmptySeq
  <2>3. Top.do \notin Backwards \cup {"release"}
    BY <1>2 DEF Backwards
  <2>4. Quiet(<<>>, 1)
    BY <1>2, <2>2, <2>3, HarmlessNone, QuietRest
  <2>5. calls' \in Nat /\ switches' \in Nat /\ used' \in BOOLEAN
    BY <1>2 DEF Typed, bounds
  <2>6. QED
    BY <1>2, <2>1, <2>4, <2>5, QuietStep
<1>5. CASE f \notin hidden
  <2>1. PICK push : push = Script(f) \o <<Loop("hide", f)>>
    OBVIOUS
  <2>2. /\ stack' = push \o Rest
        /\ hidden' = hidden \cup {f}
        /\ lapsed' = lapsed \cup (hovered \cap Below(f))
        /\ stuck' = stuck \cup (clicked \cap Below(f))
    BY <1>1, <1>5, <2>1 DEF Conceal
  <2>3. Harmless(push)
    <3>1. Harmless(Script(f)) /\ Harmless(<<Loop("hide", f)>>)
      BY <1>2, <1>3, HarmlessScript, HarmlessLoop DEF Forwards
    <3>2. QED
      BY <2>1, <3>1, HarmlessConcat
  <2>4. /\ Order(push, 1) /\ Sets(push, 1)
        /\ Nested' /\ Listed' /\ Stacked' /\ Walked' /\ OneWalk' /\ Focused'
        /\ stack' \in Seq(Activations)
    BY <1>2, <2>2, <2>3, RestStep
  <2>5. Typed'
    <3>1. f \in Frames
      BY <1>2, <1>3 DEF Typed, Alive
    <3>2. hidden' \in SUBSET Frames /\ lapsed' \in SUBSET Frames /\ stuck' \in SUBSET Frames
      BY <1>2, <2>2, <3>1 DEF Typed
    <3>3. QED
      BY <1>2, <2>4, <3>2 DEF Typed, tree, focus, events, bounds
  <2>6. ASSUME NEW g, Reachable(g), g \notin Below(f) PROVE Reachable(g)'
    <3>1. g \in Alive /\ f \notin Line(g)
      BY <1>2, <1>3, <2>6, NullIs DEF Reachable, Below, Typed, Alive
    <3>2. parent' = parent /\ Alive' = Alive
      BY <1>2 DEF tree, Alive
    <3>3. Line(g)' = Line(g)
      BY <3>2 DEF Line
    <3>4. QED
      BY <1>2, <2>2, <2>6, <3>1, <3>2, <3>3 DEF Reachable, Shown
  <2>7. \A a \in ToSet(push) : a.do # "move" /\ a.do # "up"
    BY <2>3 DEF Harmless, Backwards
  <2>8. \A do : (do = "move" \/ do = "up") => (Walk(do)' <=> Walk(do))
    BY <1>2, <2>4, <2>7, WalkKept
  <2>9. \A g, do : do \in Backwards /\ ToCome(do, g) => ToCome(do, g)'
    <3>1. \A g, do : do \in Backwards => ~Comes(Top, do, g)
      BY <1>2 DEF Comes, Backwards
    <3>2. QED
      BY <1>2, <2>4, <3>1, ToComeKept
  <2>10. Hovering'
    <3>1. \A g \in hovered' \ lapsed' : g \in hovered \ lapsed /\ Reachable(g)'
      BY <1>2, <2>2, <2>6 DEF Hovering
    <3>2. QED
      BY <1>2, <2>8, <2>9, <3>1, HoverStep DEF Backwards
  <2>11. Clicking'
    <3>1. \A g \in clicked' \ stuck' : g \in clicked \ stuck /\ Reachable(g)'
      BY <1>2, <2>2, <2>6 DEF Clicking
    <3>2. \A g : ToRelease(g) => ToRelease(g)'
      BY <1>2, <2>4 DEF ToRelease, Sets
    <3>3. QED
      BY <1>2, <2>8, <2>9, <3>1, <3>2, ClickStep DEF Backwards
  <2>12. QED
    BY <2>4, <2>5, <2>10, <2>11 DEF IInv
<1>6. QED
  BY <1>4, <1>5

(* What the calls on the flags have in common.                             *)
LEMMA FlagsCall ==
  ASSUME IInv, Calling, UNCHANGED <<tree, hovered, clicked, pressed, focus, events>>,
         NEW push, Harmless(push), stack' = push \o stack,
         hidden' \in SUBSET Frames, mouse' \in SUBSET Frames,
         lapsed' \in SUBSET Frames, stuck' \in SUBSET Frames,
         lapsed \subseteq lapsed', stuck \subseteq stuck',
         \A g \in (hovered \ lapsed') \cup (clicked \ stuck') : Reachable(g) => Reachable(g)'
  PROVE  IInv'
<1>1. /\ Typed /\ Listed /\ Hovering /\ Clicking
      /\ calls' \in Nat /\ switches' = switches /\ used' = used
  BY DEF IInv, Calling, Typed
<1>2. Order(push, 0) /\ Sets(push, 0)
  BY <1>1, CallShape DEF Harmless
<1>3. \A a \in ToSet(push) : /\ Fine(a) /\ a.do \notin Backwards \cup {"entering"}
                             /\ a.do # "gain" /\ a.do # "move" /\ a.do # "up"
  BY DEF Harmless, Backwards
<1>4. active' \in {Null} \cup (Inputs \cap Alive)
  BY <1>1 DEF Listed, focus
<1>5. /\ Nested' /\ Listed' /\ Stacked' /\ Walked' /\ OneWalk' /\ Focused'
      /\ stack' \in Seq(Activations)
  BY <1>2, <1>3, <1>4, StackStep
<1>6. Typed'
  BY <1>1, <1>5 DEF Typed, tree, focus, events
<1>7. \A do : (do = "move" \/ do = "up") => (Walk(do)' <=> Walk(do))
  BY <1>2, <1>3, WalkKept
<1>8. \A g, do : do \in Backwards /\ ToCome(do, g) => ToCome(do, g)'
  BY <1>2, ToComeKept
<1>9. Hovering'
  <2>1. \A g \in hovered' \ lapsed' : g \in hovered \ lapsed /\ Reachable(g)'
    BY <1>1 DEF Hovering
  <2>2. QED
    BY <1>1, <1>7, <1>8, <2>1, HoverStep DEF Backwards
<1>10. Clicking'
  <2>1. \A g \in clicked' \ stuck' : g \in clicked \ stuck /\ Reachable(g)'
    BY <1>1 DEF Clicking
  <2>2. \A g : ToRelease(g) => ToRelease(g)'
    BY <1>2 DEF ToRelease, Sets
  <2>3. QED
    BY <1>1, <1>7, <1>8, <2>1, <2>2, ClickStep DEF Backwards
<1>11. QED
  BY <1>5, <1>6, <1>9, <1>10 DEF IInv

LEMMA ShowStep ==
  ASSUME IInv, NEW f \in Alive, Show(f)
  PROVE  IInv'
<1>1. PICK push : push = Script(f) \o <<Loop("show", f)>>
  OBVIOUS
<1>2. /\ Typed /\ Listed /\ Calling /\ hidden' = hidden \ {f} /\ stack' = push \o stack
      /\ UNCHANGED <<tree, mouse, hovered, clicked, lapsed, stuck, pressed, focus, events>>
  BY <1>1 DEF IInv, Show, Call
<1>3. Harmless(push)
  <2>1. Harmless(Script(f)) /\ Harmless(<<Loop("show", f)>>)
    BY <1>2, HarmlessScript, HarmlessLoop DEF Forwards
  <2>2. QED
    BY <1>1, <2>1, HarmlessConcat
<1>4. ASSUME NEW g, Reachable(g) PROVE Reachable(g)'
  <2>1. parent' = parent /\ Alive' = Alive
    BY <1>2 DEF tree, Alive
  <2>2. Line(g)' = Line(g)
    BY <2>1 DEF Line
  <2>3. QED
    BY <1>2, <1>4, <2>1, <2>2 DEF Reachable, Shown
<1>5. /\ hidden' \in SUBSET Frames /\ mouse' \in SUBSET Frames
      /\ lapsed' \in SUBSET Frames /\ stuck' \in SUBSET Frames
      /\ lapsed \subseteq lapsed' /\ stuck \subseteq stuck'
  BY <1>2 DEF Typed
<1>6. QED
  BY <1>2, <1>3, <1>4, <1>5, FlagsCall

LEMMA EnableMouseStep ==
  ASSUME IInv, NEW f \in Alive, EnableMouse(f)
  PROVE  IInv'
<1>1. /\ Typed /\ Listed /\ Calling
      /\ mouse' = IF f \in mouse THEN mouse \ {f} ELSE mouse \cup {f}
      /\ lapsed' = lapsed \cup (hovered \cap {f})
      /\ stuck' = stuck \cup (clicked \cap {f})
      /\ UNCHANGED <<tree, hidden, hovered, clicked, pressed, focus, events, stack>>
  BY DEF IInv, EnableMouse
<1>2. PICK push : Harmless(push) /\ stack' = push \o stack
  <2>1. stack' = <<>> \o stack
    BY <1>1, ConcatEmptySeq DEF Typed
  <2>2. QED
    BY <2>1, HarmlessNone
<1>3. ASSUME NEW g, g # f, Reachable(g) PROVE Reachable(g)'
  <2>1. parent' = parent /\ Alive' = Alive
    BY <1>1 DEF tree, Alive
  <2>2. Line(g)' = Line(g)
    BY <2>1 DEF Line
  <2>3. QED
    BY <1>1, <1>3, <2>1, <2>2 DEF Reachable, Shown
<1>4. f \in Frames
  BY <1>1 DEF Typed, Alive
<1>5. /\ hidden' \in SUBSET Frames /\ mouse' \in SUBSET Frames
      /\ lapsed' \in SUBSET Frames /\ stuck' \in SUBSET Frames
      /\ lapsed \subseteq lapsed' /\ stuck \subseteq stuck'
  BY <1>1, <1>4 DEF Typed
<1>6. \A g \in (hovered \ lapsed') \cup (clicked \ stuck') : g # f
  BY <1>1
<1>7. QED
  BY <1>1, <1>2, <1>3, <1>5, <1>6, FlagsCall

-----------------------------------------------------------------------------
(* The calls that change a list.                                           *)

LEMMA LeastIs ==
  ASSUME NEW S \in SUBSET Nat, S # {}
  PROVE  \E i \in S : \A j \in S : i <= j
<1>1. \E m \in S : \A k \in S : ~(<<k, m>> \in OpToRel(<, Nat))
  BY NatLessThanWellFounded, WFMin
<1>2. PICK m \in S : \A k \in S : ~(<<k, m>> \in OpToRel(<, Nat))
  BY <1>1
<1>3. \A k \in S : k < m => <<k, m>> \in OpToRel(<, Nat)
  BY DEF OpToRel
<1>4. \A k \in S : k \in Nat /\ m \in Nat
  OBVIOUS
<1>5. \A k \in S : ~(k < m)
  BY <1>2, <1>3
<1>6. \A k \in S : m <= k
  BY <1>4, <1>5
<1>7. QED
  BY <1>6

(* Where a frame is put in a list.                                         *)
InOrder(seq, of) == \A i, j \in DOMAIN seq : i < j => of[seq[i]] <= of[seq[j]]

LEMMA PlaceIs ==
  ASSUME Typed, NEW seq \in Seq(Frames), NEW f \in Frames, NEW r \in Nat
  PROVE  \E at \in 1..Len(seq) + 1 :
           /\ Inserted(seq, f, r) = InsertAt(seq, at, f)
           /\ \A i \in DOMAIN seq : i < at => rank[seq[i]] <= r
           /\ InOrder(seq, rank) => \A i \in DOMAIN seq : i >= at => r <= rank[seq[i]]
<1>1. Len(seq) \in Nat /\ DOMAIN seq = 1..Len(seq) /\ \A i \in DOMAIN seq : rank[seq[i]] \in {0, 1}
  <2>1. DOMAIN seq = 1..Len(seq) /\ \A i \in 1..Len(seq) : seq[i] \in Frames
    BY LenProperties, ElementOfSeq
  <2>2. QED
    BY <2>1, LenProperties DEF Typed
<1>2. PICK after : after = {i \in DOMAIN seq : r < rank[seq[i]]}
  OBVIOUS
<1> DEFINE least == CHOOSE i \in after : \A j \in after : i <= j
           at == IF after = {} THEN Len(seq) + 1 ELSE least
<1>3. Inserted(seq, f, r) = InsertAt(seq, at, f)
  BY <1>2 DEF Inserted
<1> HIDE DEF least
<1>4. at = IF after = {} THEN Len(seq) + 1 ELSE least
  OBVIOUS
<1> HIDE DEF at
<1>5. CASE after = {}
  <2>1. at = Len(seq) + 1
    BY <1>4, <1>5
  <2>2. \A i \in DOMAIN seq : rank[seq[i]] <= r
    BY <1>1, <1>2, <1>5
  <2>3. QED
    BY <1>1, <1>3, <2>1, <2>2
<1>6. CASE after # {}
  <2>1. after \in SUBSET Nat
    BY <1>1, <1>2
  <2>2. at \in after /\ \A j \in after : at <= j
    <3>1. \E i \in after : \A j \in after : i <= j
      BY <1>6, <2>1, LeastIs
    <3>2. least \in after /\ \A j \in after : least <= j
      BY <3>1 DEF least
    <3>3. QED
      BY <1>4, <1>6, <3>2
  <2>3. at \in DOMAIN seq /\ r < rank[seq[at]]
    BY <1>2, <2>2
  <2>4. ASSUME NEW i \in DOMAIN seq, i < at PROVE rank[seq[i]] <= r
    <3>1. i \notin after
      BY <1>1, <2>2, <2>3, <2>4
    <3>2. QED
      BY <1>1, <1>2, <3>1
  <2>5. ASSUME InOrder(seq, rank), NEW i \in DOMAIN seq, i >= at PROVE r <= rank[seq[i]]
    <3>1. CASE i = at
      BY <1>1, <2>3, <3>1
    <3>2. CASE i # at
      <4>1. at < i
        BY <1>1, <2>3, <2>5, <3>2
      <4>2. rank[seq[at]] <= rank[seq[i]]
        BY <2>3, <2>5, <4>1 DEF InOrder
      <4>3. QED
        BY <1>1, <2>3, <4>2
    <3>3. QED
      BY <3>1, <3>2
  <2>6. QED
    BY <1>1, <1>3, <2>3, <2>4, <2>5
<1>7. QED
  BY <1>5, <1>6

LEMMA InsertedIs ==
  ASSUME Typed, NEW seq \in Seq(Frames), NEW f \in Frames, NEW r \in Nat,
         IsInjective(seq), f \notin ToSet(seq)
  PROVE  /\ Inserted(seq, f, r) \in Seq(Frames) /\ IsInjective(Inserted(seq, f, r))
         /\ ToSet(Inserted(seq, f, r)) = ToSet(seq) \cup {f}
         /\ Len(Inserted(seq, f, r)) = Len(seq) + 1
         /\ \A j \in DOMAIN seq : \E k \in DOMAIN Inserted(seq, f, r) :
              k >= j /\ Inserted(seq, f, r)[k] = seq[j]
         /\ \A k \in DOMAIN Inserted(seq, f, r) :
              \/ Inserted(seq, f, r)[k] = f
              \/ \E j \in DOMAIN seq : j <= k /\ Inserted(seq, f, r)[k] = seq[j]
         /\ InOrder(seq, rank) => InOrder(Inserted(seq, f, r), [rank EXCEPT ![f] = r])
<1>1. PICK at \in 1..Len(seq) + 1 :
           /\ Inserted(seq, f, r) = InsertAt(seq, at, f)
           /\ \A i \in DOMAIN seq : i < at => rank[seq[i]] <= r
           /\ InOrder(seq, rank) => \A i \in DOMAIN seq : i >= at => r <= rank[seq[i]]
  BY PlaceIs
<1>2. PICK new : new = InsertAt(seq, at, f)
  OBVIOUS
<1>3. /\ new \in Seq(Frames) /\ Len(seq) \in Nat /\ DOMAIN seq = 1..Len(seq)
      /\ Len(new) = Len(seq) + 1
      /\ DOMAIN new = 1..Len(seq) + 1
      /\ \A i \in 1..at - 1 : new[i] = seq[i]
      /\ new[at] = f
      /\ \A i \in at..Len(seq) : new[i + 1] = seq[i]
      /\ ToSet(new) = ToSet(seq) \cup {f}
      /\ IsInjective(new)
  BY <1>2, InsertIs
<1>4. at \in Nat
  BY <1>1, <1>3
<1>5. ASSUME NEW j \in DOMAIN seq PROVE \E k \in DOMAIN new : k >= j /\ new[k] = seq[j]
  <2>1. CASE j < at
    <3>1. j \in 1..at - 1 /\ j \in DOMAIN new /\ j >= j
      BY <1>3, <1>4, <1>5, <2>1
    <3>2. QED
      BY <1>3, <3>1
  <2>2. CASE ~(j < at)
    <3>1. j \in at..Len(seq) /\ j + 1 \in DOMAIN new /\ j + 1 >= j
      BY <1>3, <1>4, <1>5, <2>2
    <3>2. QED
      BY <1>3, <3>1
  <2>3. QED
    BY <2>1, <2>2
<1>6. ASSUME NEW k \in DOMAIN new, k # at
      PROVE  \E j \in DOMAIN seq : /\ new[k] = seq[j] /\ j <= k
                                   /\ (j < at /\ j = k) \/ (j >= at /\ j = k - 1)
  <2>1. CASE k < at
    <3>1. k \in 1..at - 1 /\ k \in DOMAIN seq
      BY <1>1, <1>3, <1>4, <1>6, <2>1
    <3>2. QED
      BY <1>3, <1>4, <2>1, <3>1
  <2>2. CASE ~(k < at)
    <3>1. PICK j \in at..Len(seq) : j = k - 1
      BY <1>1, <1>3, <1>4, <1>6, <2>2
    <3>2. j + 1 = k /\ j \in DOMAIN seq /\ j <= k /\ j >= at
      BY <1>1, <1>3, <1>4, <3>1
    <3>3. new[k] = seq[j]
      BY <1>3, <3>1, <3>2
    <3>4. QED
      BY <3>1, <3>2, <3>3
  <2>3. QED
    BY <2>1, <2>2
<1>7. ASSUME InOrder(seq, rank) PROVE InOrder(new, [rank EXCEPT ![f] = r])
  <2>1. PICK of : of = [rank EXCEPT ![f] = r]
    OBVIOUS
  <2>2. of[f] = r /\ \A g \in Frames : g # f => of[g] = rank[g]
    BY <2>1 DEF Typed
  <2>3. \A i \in DOMAIN seq : seq[i] \in Frames /\ seq[i] # f /\ of[seq[i]] = rank[seq[i]]
    <3>1. \A i \in DOMAIN seq : seq[i] \in Frames
      BY <1>3, ElementOfSeq
    <3>2. \A i \in DOMAIN seq : seq[i] # f
      BY DEF ToSet
    <3>3. QED
      BY <2>2, <3>1, <3>2
  <2>4. SUFFICES ASSUME NEW i \in DOMAIN new, NEW j \in DOMAIN new, i < j PROVE of[new[i]] <= of[new[j]]
    BY <2>1 DEF InOrder
  <2>5. i \in Nat /\ j \in Nat /\ of[f] = r /\ new[at] = f
    BY <1>3, <2>2
  <2>6. CASE i = at
    <3>1. PICK l \in DOMAIN seq : new[j] = seq[l] /\ ((l < at /\ l = j) \/ (l >= at /\ l = j - 1))
      BY <1>4, <1>6, <2>4, <2>5, <2>6
    <3>2. l >= at
      BY <1>4, <2>4, <2>5, <2>6, <3>1
    <3>3. QED
      BY <1>1, <1>7, <2>3, <2>5, <2>6, <3>1, <3>2
  <2>7. CASE i # at /\ j = at
    <3>1. PICK k \in DOMAIN seq : new[i] = seq[k] /\ ((k < at /\ k = i) \/ (k >= at /\ k = i - 1))
      BY <1>6, <2>7
    <3>2. k < at
      BY <1>4, <2>4, <2>5, <2>7, <3>1
    <3>3. QED
      BY <1>1, <2>3, <2>5, <2>7, <3>1, <3>2
  <2>8. CASE i # at /\ j # at
    <3>1. PICK k \in DOMAIN seq : new[i] = seq[k] /\ ((k < at /\ k = i) \/ (k >= at /\ k = i - 1))
      BY <1>6, <2>8
    <3>2. PICK l \in DOMAIN seq : new[j] = seq[l] /\ ((l < at /\ l = j) \/ (l >= at /\ l = j - 1))
      BY <1>6, <2>8
    <3>3. k < l
      <4>1. k \in Nat /\ l \in Nat
        BY <1>3, <3>1, <3>2
      <4>2. QED
        BY <1>4, <2>4, <2>5, <2>8, <3>1, <3>2, <4>1
    <3>4. rank[seq[k]] <= rank[seq[l]]
      BY <1>7, <3>1, <3>2, <3>3 DEF InOrder
    <3>5. QED
      BY <2>3, <3>1, <3>2, <3>4
  <2>9. QED
    BY <2>6, <2>7, <2>8
<1>8. \A k \in DOMAIN new : new[k] = f \/ \E j \in DOMAIN seq : j <= k /\ new[k] = seq[j]
  BY <1>3, <1>6
<1>9. QED
  BY <1>1, <1>2, <1>3, <1>5, <1>7, <1>8

(* What is walking a list that changes remembers it, and is the same else. *)
Stirs(a, b, how) ==
  /\ a.do = b.do /\ a.of = b.of /\ a.at = b.at /\ a.due = b.due /\ a.passed = b.passed
  /\ a.stir = b.stir \cup how

LEMMA ChangedStir ==
  ASSUME NEW how \in SUBSET {"in", "out"},
         NEW b \in [do : Loops, of : Null..N, at : Nat, due : SUBSET Frames, passed : Seq(Frames),
                    stir : SUBSET {"in", "out"}]
  PROVE  \E a \in [do : Loops, of : Null..N, at : Nat, due : SUBSET Frames, passed : Seq(Frames),
                    stir : SUBSET {"in", "out"}] :
           a = [b EXCEPT !.stir = @ \cup how] /\ Stirs(a, b, how)
<1>1. b.stir \cup how \in SUBSET {"in", "out"}
  OBVIOUS
<1>2. PICK stir \in SUBSET {"in", "out"} : stir = b.stir \cup how
  BY <1>1
<1>3. PICK a : a = [b EXCEPT !.stir = stir]
  OBVIOUS
<1>4. a \in [do : Loops, of : Null..N, at : Nat, due : SUBSET Frames, passed : Seq(Frames),
              stir : SUBSET {"in", "out"}]
  BY <1>2, <1>3
<1>5. /\ a.do = b.do /\ a.of = b.of /\ a.at = b.at /\ a.due = b.due /\ a.passed = b.passed
      /\ a.stir = stir
  BY <1>3
<1>6. QED
  BY <1>2, <1>3, <1>4, <1>5 DEF Stirs

LEMMA StirredIs ==
  ASSUME Typed, NEW do, NEW p, NEW how \in SUBSET {"in", "out"}, NEW s, s = Stirred(do, p, how)
  PROVE  /\ s \in Seq(Activations) /\ Len(s) = Len(stack)
         /\ \A i \in 1..Len(stack) : Same(s[i], stack[i])
         /\ \A a \in ToSet(s) : \E b \in Acts :
              IF Walks(b, do, p) THEN Stirs(a, b, how) /\ a \in Activations ELSE a = b
         /\ \A b \in Acts : /\ ~Walks(b, do, p) => b \in ToSet(s)
                            /\ \E a \in ToSet(s) : Same(a, b)
<1>1. /\ Len(stack) \in Nat /\ DOMAIN stack = 1..Len(stack) /\ Acts \subseteq Activations
      /\ \A a \in Acts : \E i \in 1..Len(stack) : a = stack[i]
      /\ \A i \in 1..Len(stack) : stack[i] \in Acts
  BY ActsAre
<1>2. /\ DOMAIN s = 1..Len(stack)
      /\ \A i \in 1..Len(stack) : s[i] = IF Walks(stack[i], do, p)
                                         THEN [stack[i] EXCEPT !.stir = @ \cup how] ELSE stack[i]
      /\ s = [i \in 1..Len(stack) |-> s[i]]
  BY <1>1 DEF Stirred
<1>3. ASSUME NEW i \in 1..Len(stack)
      PROVE  IF Walks(stack[i], do, p) THEN s[i] \in Activations /\ Stirs(s[i], stack[i], how)
             ELSE s[i] = stack[i]
  <2>1. CASE Walks(stack[i], do, p)
    <3>1. stack[i].do \in Loops /\ stack[i] \in Activations
      BY <1>1, <2>1 DEF Walks
    <3>2. stack[i] \in [do : Loops, of : Null..N, at : Nat, due : SUBSET Frames, passed : Seq(Frames),
                        stir : SUBSET {"in", "out"}]
      BY <3>1 DEF Activations, Doings, Loops, Backwards, Forwards
    <3>3. PICK b \in [do : Loops, of : Null..N, at : Nat, due : SUBSET Frames, passed : Seq(Frames),
                      stir : SUBSET {"in", "out"}] : b = stack[i]
      BY <3>2
    <3>4. PICK a \in [do : Loops, of : Null..N, at : Nat, due : SUBSET Frames, passed : Seq(Frames),
                      stir : SUBSET {"in", "out"}] :
            a = [b EXCEPT !.stir = @ \cup how] /\ Stirs(a, b, how)
      BY ChangedStir
    <3>5. s[i] = a
      BY <1>2, <2>1, <3>3, <3>4
    <3>6. a \in Activations
      BY DEF Activations
    <3>7. QED
      BY <2>1, <3>3, <3>4, <3>5, <3>6
  <2>2. CASE ~Walks(stack[i], do, p)
    BY <1>2, <2>2
  <2>3. QED
    BY <2>1, <2>2
<1>4. \A i \in 1..Len(stack) : s[i] \in Activations
  BY <1>1, <1>3
<1>5. s \in Seq(Activations)
  BY <1>1, <1>2, <1>4, SeqDef
<1>6. Len(s) = Len(stack)
  BY <1>1, <1>2, <1>5, LenProperties
<1>7. \A i \in 1..Len(stack) : Same(s[i], stack[i])
  BY <1>3 DEF Same, Stirs
<1>8. \A i \in 1..Len(stack) : s[i] \in ToSet(s)
  BY <1>2 DEF ToSet
<1>9. \A a \in ToSet(s) : \E i \in 1..Len(stack) : a = s[i]
  BY <1>2 DEF ToSet
<1>10. ASSUME NEW a \in ToSet(s)
       PROVE  \E b \in Acts : IF Walks(b, do, p) THEN Stirs(a, b, how) /\ a \in Activations ELSE a = b
  <2>1. PICK i \in 1..Len(stack) : a = s[i]
    BY <1>9
  <2>2. QED
    BY <1>1, <1>3, <2>1
<1>11. ASSUME NEW b \in Acts
       PROVE  (~Walks(b, do, p) => b \in ToSet(s)) /\ \E a \in ToSet(s) : Same(a, b)
  <2>1. PICK i \in 1..Len(stack) : b = stack[i]
    BY <1>1
  <2>2. s[i] \in ToSet(s) /\ Same(s[i], b) /\ (~Walks(b, do, p) => s[i] = b)
    BY <1>3, <1>7, <1>8, <2>1
  <2>3. QED
    BY <2>2
<1>12. QED
  BY <1>5, <1>6, <1>7, <1>10, <1>11

LEMMA ListStep ==
  ASSUME IInv, Typed', UNCHANGED focus, Alive \subseteq Alive',
         NEW do, NEW p, NEW how \in SUBSET {"in", "out"},
         NEW push \in Seq(Activations), \A a \in ToSet(push) : a.do = "script" /\ a.of \in Alive',
         stack' = push \o Stirred(do, p, how),
         \A b \in Acts : b.do \in Loops /\ ~Walks(b, do, p) => ListOf(b.do, b.of)' = ListOf(b.do, b.of),
         \A b \in Acts, a \in Activations :
           Walks(b, do, p) /\ Stirs(a, b, how) => Onward(a)' /\ Backward(a)'
  PROVE  /\ Stacked' /\ Walked' /\ OneWalk' /\ Focused'
         /\ \A d : d # "script" => (Walk(d)' <=> Walk(d))
         /\ \A b \in Acts : ~Walks(b, do, p) => b \in Acts'
         /\ \A g : ToRelease(g) => ToRelease(g)'
<1>1. PICK s : s = Stirred(do, p, how)
  OBVIOUS
<1>2. Typed /\ Stacked /\ Walked /\ OneWalk /\ Focused
  BY DEF IInv
<1>3. /\ s \in Seq(Activations) /\ Len(s) = Len(stack)
      /\ \A i \in 1..Len(stack) : Same(s[i], stack[i])
      /\ \A a \in ToSet(s) : \E b \in Acts :
           IF Walks(b, do, p) THEN Stirs(a, b, how) /\ a \in Activations ELSE a = b
      /\ \A b \in Acts : /\ ~Walks(b, do, p) => b \in ToSet(s)
                         /\ \E a \in ToSet(s) : Same(a, b)
  BY <1>1, <1>2, StirredIs
<1>4. /\ push \o s \in Seq(Activations) /\ Len(push) \in Nat /\ DOMAIN push = 1..Len(push)
      /\ Len(push \o s) = Len(push) + Len(s)
      /\ \A i \in 1..Len(push) : (push \o s)[i] = push[i]
      /\ \A i \in 1..Len(s) : (push \o s)[Len(push) + i] = s[i]
      /\ ToSet(push \o s) = ToSet(push) \cup ToSet(s)
  <2>1. s \in Seq(Activations)
    BY <1>3
  <2>2. QED
    BY <2>1, ConcatIs
<1>5. stack' = push \o s
  BY <1>1
<1>6. Acts' = ToSet(push) \cup ToSet(s)
  BY <1>4, <1>5 DEF Acts
<1>7. Len(stack) \in Nat
  BY <1>2, ActsAre
<1>8. Order(push, 0)
  <2>1. \A j \in 1..Len(stack) - 0 : j + 0 = j /\ j \in 1..Len(stack)
    BY <1>7
  <2>2. Len(push) + Len(stack) - 0 = Len(push) + Len(stack) /\ 0 <= Len(stack)
    BY <1>4, <1>7
  <2>3. PICK t : t = stack'
    OBVIOUS
  <2>4. \A j \in 1..Len(stack) : Same(t[Len(push) + j], stack[j])
    BY <1>3, <1>4, <1>5, <2>3
  <2>5. \A i \in 1..Len(push) : Same(t[i], push[i])
    BY <1>4, <1>5, <2>3 DEF Same
  <2>6. t \in Seq(Activations) /\ Len(t) = Len(push) + Len(stack)
    BY <1>3, <1>4, <1>5, <2>3
  <2>7. QED
    BY <2>1, <2>2, <2>3, <2>4, <2>5, <2>6 DEF Order
<1>9. \A i \in 1..Len(push) : push[i].do = "script"
  BY <1>4 DEF ToSet
<1>10. OneWalk'
  BY <1>2, <1>8, <1>9, OneWalkKept DEF Backwards
<1>11. Focused'
  BY <1>2, <1>8, <1>9, FocusedKept DEF focus
<1>12. ASSUME NEW b \in Acts, ~Walks(b, do, p), b.do \in Loops PROVE Onward(b)' /\ Backward(b)'
  <2>1. ListOf(b.do, b.of)' = ListOf(b.do, b.of) /\ Onward(b) /\ Backward(b)
    BY <1>2, <1>12 DEF Walked
  <2>2. Onward(b)'
    BY <2>1 DEF Onward, Prefix, After
  <2>3. Backward(b)'
    <3>1. SUFFICES ASSUME b.do \in Backwards PROVE Backward(b)'
      BY DEF Backward
    <3>2. children'[b.of] = children[b.of]
      BY <2>1, <3>1 DEF ListOf, Backwards
    <3>3. Before(b)' = Before(b)
      BY <2>1 DEF Before
    <3>4. QED
      BY <2>1, <3>1, <3>2, <3>3 DEF Backward
  <2>4. QED
    BY <2>2, <2>3
<1>13. ASSUME NEW a \in Acts' PROVE About(a)' /\ (a.do \in Loops => Onward(a)' /\ Backward(a)')
  <2>1. CASE a \in ToSet(push)
    <3>1. a.do = "script" /\ a.of \in Alive'
      BY <2>1
    <3>2. QED
      BY <3>1 DEF About, Loops, Backwards, Forwards
  <2>2. CASE a \in ToSet(s)
    <3>1. PICK b \in Acts : IF Walks(b, do, p) THEN Stirs(a, b, how) /\ a \in Activations ELSE a = b
      BY <1>3, <2>2
    <3>2. About(b) /\ a.do = b.do /\ a.of = b.of
      BY <1>2, <3>1 DEF Stacked, Stirs
    <3>3. About(a)'
      BY <3>2 DEF About
    <3>4. a.do \in Loops => Onward(a)' /\ Backward(a)'
      BY <1>12, <3>1, <3>2
    <3>5. QED
      BY <3>3, <3>4
  <2>3. QED
    BY <1>6, <1>13, <2>1, <2>2
<1>14. Stacked' /\ Walked'
  BY <1>13 DEF Stacked, Walked
<1>15. \A d : d # "script" => (Walk(d)' <=> Walk(d))
  <2>1. ASSUME NEW d, d # "script", Walk(d) PROVE Walk(d)'
    <3>1. PICK b \in Acts : b.do = d
      BY <2>1 DEF Walk
    <3>2. PICK a \in ToSet(s) : Same(a, b)
      BY <1>3
    <3>3. a \in Acts' /\ a.do = d
      BY <1>6, <3>1, <3>2 DEF Same
    <3>4. QED
      BY <3>3 DEF Walk
  <2>2. ASSUME NEW d, d # "script", Walk(d)' PROVE Walk(d)
    <3>1. PICK a \in Acts' : a.do = d
      BY <2>2 DEF Walk
    <3>2. a \in ToSet(s)
      BY <1>6, <2>2, <3>1
    <3>3. PICK b \in Acts : IF Walks(b, do, p) THEN Stirs(a, b, how) ELSE a = b
      BY <1>3, <3>2
    <3>4. b.do = d
      BY <3>1, <3>3 DEF Stirs
    <3>5. QED
      BY <3>4 DEF Walk
  <2>3. QED
    BY <2>1, <2>2
<1>16. \A b \in Acts : ~Walks(b, do, p) => b \in Acts'
  BY <1>3, <1>6
<1>17. ASSUME NEW g, ToRelease(g) PROVE ToRelease(g)'
  <2>1. PICK b \in Acts : b.do = "release" /\ b.of = g
    BY <1>17 DEF ToRelease
  <2>2. b \in Acts'
    BY <1>16, <2>1 DEF Walks, Loops, Backwards, Forwards
  <2>3. QED
    BY <2>1, <2>2 DEF ToRelease
<1>18. QED
  BY <1>10, <1>11, <1>14, <1>15, <1>16, <1>17

LEMMA EventsStep ==
  ASSUME IInv, UNCHANGED <<tree, flags, focus, used>>, Typed', Listed',
         NEW how \in SUBSET {"in", "out"}, stack' = Stirred("event", Null, how),
         \A b \in Acts, a \in Activations :
           Walks(b, "event", Null) /\ Stirs(a, b, how) => Onward(a)'
  PROVE  IInv'
<1>1. Nested'
  BY DEF IInv, Nested, tree
<1>2. Alive \subseteq Alive'
  BY DEF Alive, tree
<1>3. PICK push \in Seq(Activations) : /\ stack' = push \o Stirred("event", Null, how)
                                       /\ \A a \in ToSet(push) : FALSE
  <2>1. PICK s : s = Stirred("event", Null, how)
    OBVIOUS
  <2>2. s \in Seq(Activations)
    BY <2>1, StirredIs DEF IInv
  <2>3. <<>> \o s = s
    BY <2>2, ConcatEmptySeq
  <2>4. <<>> \in Seq(Activations) /\ ToSet(<<>>) = {}
    BY NoneIs
  <2>5. QED
    BY <2>1, <2>3, <2>4
<1>4. ASSUME NEW b \in Acts, b.do \in Loops, ~Walks(b, "event", Null)
      PROVE  ListOf(b.do, b.of)' = ListOf(b.do, b.of)
  <2>1. About(b)
    BY DEF IInv, Stacked
  <2>2. b.do # "event"
    BY <1>4, <2>1 DEF Walks, About
  <2>3. QED
    BY <2>2 DEF ListOf, tree
<1>5. \A b \in Acts, a \in Activations :
        Walks(b, "event", Null) /\ Stirs(a, b, how) => Onward(a)' /\ Backward(a)'
  <2>1. \A b, a : Walks(b, "event", Null) /\ Stirs(a, b, how) => a.do \notin Backwards
    BY DEF Walks, Stirs, Backwards
  <2>2. QED
    BY <2>1 DEF Backward
<1>6. /\ Stacked' /\ Walked' /\ OneWalk' /\ Focused'
      /\ \A d : d # "script" => (Walk(d)' <=> Walk(d))
      /\ \A b \in Acts : ~Walks(b, "event", Null) => b \in Acts'
      /\ \A g : ToRelease(g) => ToRelease(g)'
  BY <1>2, <1>3, <1>4, <1>5, ListStep
<1>7. ASSUME NEW g, NEW do \in Backwards, ToCome(do, g) PROVE ToCome(do, g)'
  <2>1. PICK b \in Acts : Comes(b, do, g)
    BY <1>7 DEF ToCome
  <2>2. b \in Acts'
    BY <1>6, <2>1 DEF Walks, Comes, Backwards
  <2>3. Comes(b, do, g)'
    BY <2>1, ComesSame
  <2>4. QED
    BY <2>2, <2>3 DEF ToCome
<1>8. \A g : Reachable(g) => Reachable(g)'
  BY ReachableKept DEF flags
<1>9. Hovering'
  <2>1. \A g \in hovered' \ lapsed' : g \in hovered \ lapsed /\ Reachable(g)'
    BY <1>8 DEF IInv, Hovering, flags
  <2>2. QED
    BY <1>6, <1>7, <2>1, HoverStep DEF IInv, Backwards
<1>10. Clicking'
  <2>1. \A g \in clicked' \ stuck' : g \in clicked \ stuck /\ Reachable(g)'
    BY <1>8 DEF IInv, Clicking, flags
  <2>2. pressed \subseteq pressed'
    BY DEF flags
  <2>3. QED
    BY <1>6, <1>7, <2>1, <2>2, ClickStep DEF IInv, Backwards
<1>11. QED
  BY <1>1, <1>6, <1>9, <1>10 DEF IInv

LEMMA EventsListed ==
  ASSUME Typed, Listed, UNCHANGED <<tree, flags, focus>>, IsInjective(listeners'),
         ToSet(listeners') = registered' \cap Alive
  PROVE  Listed'
BY DEF Listed, ListedUnder, Behind, tree, focus, Alive

LEMMA RegisterStep ==
  ASSUME IInv, NEW f \in Alive, RegisterEvent(f)
  PROVE  IInv'
<1>1. /\ Typed /\ Listed /\ f \notin registered
      /\ registered' = registered \cup {f} /\ listeners' = Append(listeners, f)
      /\ stack' = Stirred("event", Null, {"in"})
      /\ UNCHANGED <<tree, flags, focus, switches, used>> /\ calls' = calls - 1 /\ calls > 0
  BY DEF IInv, RegisterEvent, Calling, Register
<1>2. f \in Frames /\ f \in born
  BY <1>1 DEF Typed, Alive
<1>3. /\ listeners' \in Seq(Frames) /\ Len(listeners) \in Nat /\ DOMAIN listeners = 1..Len(listeners)
      /\ Len(listeners') = Len(listeners) + 1 /\ DOMAIN listeners' = 1..Len(listeners) + 1
      /\ \A i \in 1..Len(listeners) : listeners'[i] = listeners[i]
      /\ ToSet(listeners') = ToSet(listeners) \cup {f}
      /\ IsInjective(listeners) /\ f \notin ToSet(listeners) => IsInjective(listeners')
  <2>1. listeners \in Seq(Frames)
    BY <1>1 DEF Typed
  <2>2. QED
    BY <1>1, <1>2, <2>1, AppendIs
<1>4. ToSet(listeners) = registered \cap Alive /\ IsInjective(listeners)
  BY <1>1 DEF Listed
<1>5. Listed'
  BY <1>1, <1>3, <1>4, EventsListed
<1>6. Typed'
  <2>1. registered' \in SUBSET born' /\ calls' \in Nat
    BY <1>1, <1>2 DEF Typed, tree
  <2>2. stack' \in Seq(Activations)
    <3>1. PICK s : s = Stirred("event", Null, {"in"})
      OBVIOUS
    <3>2. {"in"} \in SUBSET {"in", "out"}
      OBVIOUS
    <3>3. s \in Seq(Activations)
      BY <1>1, <3>1, <3>2, StirredIs
    <3>4. QED
      BY <1>1, <3>1, <3>3
  <2>3. QED
    BY <1>1, <1>3, <2>1, <2>2 DEF Typed, tree, flags, focus
<1>7. ASSUME NEW b \in Acts, NEW a \in Activations, Walks(b, "event", Null), Stirs(a, b, {"in"})
      PROVE  Onward(a)'
  <2>1. PICK l : l = listeners
    OBVIOUS
  <2>2. PICK m : m = listeners'
    OBVIOUS
  <2>3. b.do = "event" /\ a.do = "event" /\ a.at = b.at /\ a.due = b.due /\ a.passed = b.passed
        /\ a.stir = b.stir \cup {"in"}
    BY <1>7 DEF Walks, Stirs
  <2>4. ListOf(b.do, b.of) = l /\ ListOf(a.do, a.of)' = m
    BY <2>1, <2>2, <2>3 DEF ListOf
  <2>5. ASSUME a.at > 0, "out" \notin a.stir PROVE Prefix(a)'
    <3>1. Onward(b)
      BY <1>7 DEF IInv, Walked, Walks
    <3>2. Prefix(b)
      BY <2>3, <2>5, <3>1 DEF Onward, Forwards
    <3>3. /\ b.due \subseteq ToSet(l) /\ Len(b.passed) = b.at - 1 /\ b.at <= Len(l) + 1
          /\ \A i \in DOMAIN b.passed : b.passed[i] = l[i]
      BY <2>4, <3>2 DEF Prefix
    <3>4. Len(l) \in Nat /\ Len(m) = Len(l) + 1 /\ ToSet(l) \subseteq ToSet(m)
          /\ \A i \in 1..Len(l) : m[i] = l[i]
      BY <1>3, <2>1, <2>2
    <3>5. b.at \in Nat /\ b.passed \in Seq(Frames)
      <4>1. b \in Activations
        BY <1>1, ActsAre
      <4>2. QED
        BY <2>3, <4>1 DEF Activations, Doings, Loops, Backwards, Forwards
    <3>6. DOMAIN b.passed = 1..Len(b.passed)
      BY <3>5, LenProperties
    <3>7. \A i \in DOMAIN b.passed : i \in 1..Len(l)
      BY <3>3, <3>4, <3>5, <3>6
    <3>8. \A i \in DOMAIN a.passed : a.passed[i] = m[i]
      BY <2>3, <3>3, <3>4, <3>7
    <3>9. a.due \subseteq ToSet(m) /\ Len(a.passed) = a.at - 1 /\ a.at <= Len(m) + 1
      BY <2>3, <3>3, <3>4, <3>5
    <3>10. QED
      BY <2>4, <3>8, <3>9 DEF Prefix
  <2>6. QED
    BY <2>3, <2>5 DEF Onward
<1>8. QED
  <2>1. {"in"} \in SUBSET {"in", "out"}
    OBVIOUS
  <2>2. QED
    BY <1>1, <1>5, <1>6, <1>7, <2>1, EventsStep

LEMMA UnregisterStep ==
  ASSUME IInv, NEW f \in Alive, UnregisterEvent(f)
  PROVE  IInv'
<1>1. /\ Typed /\ Listed
      /\ registered' = registered \ {f} /\ listeners' = Without(listeners, f)
      /\ stack' = Stirred("event", Null, {"out"})
      /\ UNCHANGED <<tree, flags, focus, switches, used>> /\ calls' = calls - 1 /\ calls > 0
  BY DEF IInv, UnregisterEvent, Calling
<1>2. ToSet(listeners) = registered \cap Alive /\ IsInjective(listeners)
  BY <1>1 DEF Listed
<1>3. /\ listeners' \in Seq(Frames) /\ IsInjective(listeners')
      /\ ToSet(listeners') = ToSet(listeners) \ {f}
  <2>1. listeners \in Seq(Frames)
    BY <1>1 DEF Typed
  <2>2. QED
    BY <1>1, <1>2, <2>1, WithoutIs
<1>4. Listed'
  BY <1>1, <1>2, <1>3, EventsListed
<1>5. Typed'
  <2>1. registered' \in SUBSET born' /\ calls' \in Nat
    BY <1>1 DEF Typed, tree
  <2>2. stack' \in Seq(Activations)
    <3>1. PICK s : s = Stirred("event", Null, {"out"})
      OBVIOUS
    <3>2. {"out"} \in SUBSET {"in", "out"}
      OBVIOUS
    <3>3. s \in Seq(Activations)
      BY <1>1, <3>1, <3>2, StirredIs
    <3>4. QED
      BY <1>1, <3>1, <3>3
  <2>3. QED
    BY <1>1, <1>3, <2>1, <2>2 DEF Typed, tree, flags, focus
<1>6. \A b, a : Stirs(a, b, {"out"}) => "out" \in a.stir
  BY DEF Stirs
<1>7. \A b, a : Stirs(a, b, {"out"}) => Onward(a)'
  BY <1>6 DEF Onward
<1>8. QED
  <2>1. {"out"} \in SUBSET {"in", "out"}
    OBVIOUS
  <2>2. QED
    BY <1>1, <1>4, <1>5, <1>7, <2>1, EventsStep

(* The frames that a walk might pass over are known to the history; to the *)
(* others it still comes.                                                  *)
LEMMA FlagsIs ==
  ASSUME Typed, NEW p, StirFlags(p), NEW do \in {"move", "up"}
  PROVE  /\ lapsed \subseteq lapsed' /\ stuck \subseteq stuck'
         /\ lapsed' \in SUBSET Frames /\ stuck' \in SUBSET Frames
         /\ (\E a \in Acts : a.do = "move" /\ a.of = p) => hovered \cap Below(p) \subseteq lapsed'
         /\ (\E a \in Acts : a.do = "up" /\ a.of = p) => clicked \cap Below(p) \subseteq stuck'
<1>1. \A d : (\E a \in Acts : a.do = d /\ a.of = p)
               => \E i \in DOMAIN stack : stack[i].do = d /\ stack[i].of = p
  BY DEF Acts, ToSet
<1>2. lapsed' = IF \E i \in DOMAIN stack : stack[i].do = "move" /\ stack[i].of = p
                THEN lapsed \cup (hovered \cap Below(p)) ELSE lapsed
  BY DEF StirFlags
<1>3. stuck' = IF \E i \in DOMAIN stack : stack[i].do = "up" /\ stack[i].of = p
               THEN stuck \cup (clicked \cap Below(p)) ELSE stuck
  BY DEF StirFlags
<1>4. lapsed \in SUBSET Frames /\ stuck \in SUBSET Frames /\ hovered \in SUBSET Frames
      /\ clicked \in SUBSET Frames
  BY DEF Typed
<1>5. QED
  BY <1>1, <1>2, <1>3, <1>4

LEMMA PointerStep ==
  ASSUME IInv, Typed', NEW p \in {Null} \cup Alive, StirFlags(p),
         Alive \subseteq Alive', mouse \subseteq mouse', \A g \in born : parent'[g] = parent[g],
         UNCHANGED <<hidden, hovered, clicked, pressed, used>>,
         \A q : q # p => children'[q] = children[q],
         \A d : d # "script" => (Walk(d)' <=> Walk(d)),
         \A b \in Acts : ~Walks(b, "draw", p) => b \in Acts',
         \A g : ToRelease(g) => ToRelease(g)'
  PROVE  Hovering' /\ Clicking'
<1>1. Typed /\ Nested /\ Listed /\ Stacked /\ Hovering /\ Clicking
  BY DEF IInv
<1>2. \A g \in born : Line(g)' = Line(g)
  BY <1>1, LineKept
<1>3. Alive \subseteq born /\ Null \notin Alive
  BY <1>1, NullIs DEF Alive, Typed
<1>4. ASSUME NEW g, Reachable(g) PROVE Reachable(g)'
  BY <1>2, <1>3, <1>4 DEF Reachable, Shown
<1>5. /\ lapsed \subseteq lapsed' /\ stuck \subseteq stuck'
      /\ (\E a \in Acts : a.do = "move" /\ a.of = p) => hovered \cap Below(p) \subseteq lapsed'
      /\ (\E a \in Acts : a.do = "up" /\ a.of = p) => clicked \cap Below(p) \subseteq stuck'
  BY <1>1, FlagsIs
<1>6. ASSUME NEW do \in Backwards, NEW g \in Alive, ToCome(do, g),
             (\E a \in Acts : a.do = do /\ a.of = p) => g \notin Below(p)
      PROVE  ToCome(do, g)'
  <2>1. PICK b \in Acts : Comes(b, do, g)
    BY <1>6 DEF ToCome
  <2>2. b.do = do /\ b.do \in Loops /\ b.do # "event" /\ b.of \in {Null} \cup Alive
    BY <1>1, <2>1 DEF Comes, Loops, Backwards, Stacked, About
  <2>3. b.of # p
    <3>1. SUFFICES ASSUME b.of = p PROVE FALSE
      OBVIOUS
    <3>2. g \notin Below(p)
      BY <1>6, <2>1, <2>2, <3>1
    <3>3. p # Null /\ p \notin Line(g)
      BY <3>2 DEF Below
    <3>4. g \in Line(g) /\ \A c \in Line(g) : parent[c] # Null => parent[c] \in Line(g)
      BY <1>1, <1>3, LineFacts
    <3>5. PICK c \in Before(b) : c \in Line(g)
      BY <2>1, <3>1, <3>3, <3>4 DEF Comes
    <3>6. c \in ToSet(ListOf(b.do, b.of))
      BY DEF Before, ToSet
    <3>7. parent[c] = p
      BY <1>1, <2>2, <3>1, <3>6, ListIs
    <3>8. QED
      BY <3>3, <3>4, <3>5, <3>7
  <2>4. b \in Acts'
    BY <2>3 DEF Walks
  <2>5. ListOf(b.do, b.of)' = ListOf(b.do, b.of)
    BY <2>2, <2>3 DEF ListOf
  <2>6. Before(b)' = Before(b)
    BY <2>5 DEF Before
  <2>7. Line(g)' = Line(g)
    BY <1>2, <1>3
  <2>8. Comes(b, do, g)'
    BY <2>1, <2>6, <2>7 DEF Comes
  <2>9. QED
    BY <2>4, <2>8 DEF ToCome
<1>7. Hovering'
  <2>1. \A g \in hovered' \ lapsed' : g \in hovered \ lapsed /\ Reachable(g) /\ Reachable(g)'
    BY <1>1, <1>4, <1>5 DEF Hovering
  <2>2. ASSUME NEW g \in hovered' \ lapsed', ToCome("move", g) PROVE ToCome("move", g)'
    <3>1. g \in Alive /\ g \in hovered
      BY <2>1 DEF Reachable
    <3>2. (\E a \in Acts : a.do = "move" /\ a.of = p) => g \notin Below(p)
      BY <1>5, <2>2, <3>1
    <3>3. QED
      BY <1>6, <2>2, <3>1, <3>2 DEF Backwards
  <2>3. QED
    BY <1>1, <2>1, <2>2, HoverStep
<1>8. Clicking'
  <2>1. \A g \in clicked' \ stuck' : g \in clicked \ stuck /\ Reachable(g) /\ Reachable(g)'
    BY <1>1, <1>4, <1>5 DEF Clicking
  <2>2. ASSUME NEW g \in clicked' \ stuck', ToCome("up", g) PROVE ToCome("up", g)'
    <3>1. g \in Alive /\ g \in clicked
      BY <2>1 DEF Reachable
    <3>2. (\E a \in Acts : a.do = "up" /\ a.of = p) => g \notin Below(p)
      BY <1>5, <2>2, <3>1
    <3>3. QED
      BY <1>6, <2>2, <3>1, <3>2 DEF Backwards
  <2>3. QED
    BY <1>1, <2>1, <2>2, ClickStep
<1>9. QED
  BY <1>7, <1>8

LEMMA RemovedInOrder ==
  ASSUME NEW seq \in Seq(Frames), NEW f \in ToSet(seq), NEW of, IsInjective(seq), InOrder(seq, of)
  PROVE  InOrder(Without(seq, f), of) /\ Len(Without(seq, f)) = Len(seq) - 1
<1>1. PICK at \in 1..Len(seq) : Without(seq, f) = RemoveAt(seq, at)
  BY WithoutIs
<1>2. PICK new : new = RemoveAt(seq, at)
  OBVIOUS
<1>3. /\ Len(seq) \in Nat /\ DOMAIN seq = 1..Len(seq)
      /\ Len(new) = Len(seq) - 1
      /\ DOMAIN new = 1..Len(seq) - 1
      /\ \A i \in 1..at - 1 : new[i] = seq[i]
      /\ \A i \in at..Len(seq) - 1 : new[i] = seq[i + 1]
  BY <1>2, RemoveIs
<1>4. at \in Nat /\ at <= Len(seq)
  BY <1>3
<1>5. ASSUME NEW i \in DOMAIN new
      PROVE  \E k \in DOMAIN seq : new[i] = seq[k] /\ ((i < at /\ k = i) \/ (i >= at /\ k = i + 1))
  <2>1. CASE i < at
    <3>1. i \in 1..at - 1 /\ i \in DOMAIN seq
      BY <1>3, <1>4, <1>5, <2>1
    <3>2. QED
      BY <1>3, <2>1, <3>1
  <2>2. CASE ~(i < at)
    <3>1. i \in at..Len(seq) - 1 /\ i + 1 \in DOMAIN seq /\ i >= at
      BY <1>3, <1>4, <1>5, <2>2
    <3>2. QED
      BY <1>3, <3>1
  <2>3. QED
    BY <2>1, <2>2
<1>6. ASSUME NEW i \in DOMAIN new, NEW j \in DOMAIN new, i < j PROVE of[new[i]] <= of[new[j]]
  <2>1. PICK k \in DOMAIN seq : new[i] = seq[k] /\ ((i < at /\ k = i) \/ (i >= at /\ k = i + 1))
    BY <1>5
  <2>2. PICK l \in DOMAIN seq : new[j] = seq[l] /\ ((j < at /\ l = j) \/ (j >= at /\ l = j + 1))
    BY <1>5
  <2>3. i \in Nat /\ j \in Nat /\ k \in Nat /\ l \in Nat
    BY <1>3, <2>1, <2>2
  <2>4. k < l
    BY <1>4, <1>6, <2>1, <2>2, <2>3
  <2>5. QED
    BY <2>1, <2>2, <2>4 DEF InOrder
<1>7. QED
  BY <1>1, <1>2, <1>3, <1>6 DEF InOrder

(* A frame of the interface itself keeps its place.                        *)
LEMMA RankStep ==
  ASSUME IInv, NEW f \in Alive, parent[f] = Null, SetFrameLevel(f)
  PROVE  IInv'
<1>1. /\ Typed /\ Listed
      /\ rank' = [rank EXCEPT ![f] = 1 - @] /\ calls' = calls - 1 /\ calls > 0
      /\ UNCHANGED <<children, stack, lapsed, stuck, switches, used, born, gone, freed, parent,
                     orphans, hidden, mouse, hovered, clicked, pressed, focus, events>>
  BY DEF IInv, SetFrameLevel, Calling
<1>2. f \in Frames /\ f # Null
  BY <1>1, NullIs DEF Typed, Alive
<1>3. rank' \in [Frames -> {0, 1}] /\ \A g \in Frames : g # f => rank'[g] = rank[g]
  <2>1. rank[f] \in {0, 1} /\ \A x \in {0, 1} : 1 - x \in {0, 1}
    BY <1>1, <1>2 DEF Typed
  <2>2. 1 - rank[f] \in {0, 1}
    BY <2>1
  <2>3. QED
    BY <1>1, <1>2, <2>2 DEF Typed
<1>4. Typed'
  BY <1>1, <1>3 DEF Typed, focus, events
<1>5. Alive' = Alive
  BY <1>1 DEF Alive
<1>6. ASSUME NEW p \in {Null} \cup Alive PROVE ListedUnder(p)'
  <2>1. ListedUnder(p)
    BY <1>1 DEF Listed
  <2>2. p # Null => \A i \in DOMAIN children[p] : children[p][i] # f /\ children[p][i] \in Frames
    <3>1. \A g \in ToSet(children[p]) : g \in Alive /\ parent[g] = p
      BY <2>1 DEF ListedUnder
    <3>2. \A i \in DOMAIN children[p] : children[p][i] \in ToSet(children[p])
      BY DEF ToSet
    <3>3. QED
      BY <1>1, <3>1, <3>2 DEF Typed, Alive
  <2>3. p # Null => \A i, j \in DOMAIN children[p] :
                      i < j => rank'[children[p][i]] <= rank'[children[p][j]]
    BY <1>3, <2>1, <2>2 DEF ListedUnder
  <2>4. QED
    BY <1>1, <1>5, <2>1, <2>3 DEF ListedUnder
<1>7. Listed'
  <2>1. Behind'
    BY <1>1 DEF Listed, Behind
  <2>2. QED
    BY <1>1, <1>5, <1>6, <2>1 DEF Listed, focus, events
<1>8. Nested' /\ Stacked' /\ Focused' /\ OneWalk'
  BY <1>1, <1>5 DEF IInv, Nested, Stacked, About, Acts, Focused, Losing, OneWalk, Bottom, focus
<1>9. Walked'
  <2>1. \A a : Onward(a)' <=> Onward(a)
    BY <1>1 DEF Onward, Prefix, After, ListOf, events
  <2>2. \A a : Backward(a)' <=> Backward(a)
    BY <1>1, <1>5 DEF Backward, Before, ListOf, events
  <2>3. Acts' = Acts
    BY <1>1 DEF Acts
  <2>4. QED
    BY <2>1, <2>2, <2>3 DEF IInv, Walked
<1>10. \A g : Line(g)' = Line(g)
  BY <1>1 DEF Line
<1>11. \A g : Reachable(g)' <=> Reachable(g)
  BY <1>1, <1>5, <1>10 DEF Reachable, Shown
<1>12. \A g, do : /\ ToCome(do, g)' <=> ToCome(do, g)
                  /\ ToRelease(g)' <=> ToRelease(g)
                  /\ Walk(do)' <=> Walk(do)
  BY <1>1, <1>10 DEF ToCome, Comes, Before, ListOf, Acts, ToRelease, Walk, events
<1>13. Hovering' /\ Clicking'
  BY <1>1, <1>11, <1>12 DEF IInv, Hovering, Left, Lone, Clicking
<1>14. QED
  BY <1>4, <1>7, <1>8, <1>9, <1>13 DEF IInv

LEMMA LevelStep ==
  ASSUME IInv, NEW f \in Alive, parent[f] # Null, SetFrameLevel(f)
  PROVE  IInv'
<1>1. PICK p : p = parent[f]
  OBVIOUS
<1>2. PICK r : r = 1 - rank[f]
  OBVIOUS
<1>3. PICK w : w = Without(children[p], f)
  OBVIOUS
<1>4. PICK new : new = Inserted(w, f, r)
  OBVIOUS
<1>5. /\ Typed /\ Nested /\ Listed /\ p # Null
      /\ calls' = calls - 1 /\ calls > 0
      /\ stack' = Stirred("draw", p, {"in", "out"}) /\ StirFlags(p)
      /\ UNCHANGED <<switches, used, born, gone, freed, parent, orphans, hidden,
                     mouse, hovered, clicked, pressed, focus, events>>
  BY <1>1 DEF IInv, SetFrameLevel, Calling
<1>6. f \in Frames /\ p \in Alive /\ p \in Null..N /\ Alive' = Alive
  BY <1>1, <1>5, NullIs DEF Typed, Alive, Listed
<1>7. r \in {0, 1}
  <2>1. rank[f] \in {0, 1} /\ \A x \in {0, 1} : 1 - x \in {0, 1}
    BY <1>5, <1>6 DEF Typed
  <2>2. QED
    BY <1>2, <2>1
<1>8. rank' = [rank EXCEPT ![f] = r] /\ rank'[f] = r
  BY <1>2, <1>5, <1>6 DEF SetFrameLevel, Typed
<1>9. children' = [children EXCEPT ![p] = new]
  BY <1>1, <1>3, <1>4, <1>5, <1>8 DEF SetFrameLevel
<1>10. /\ rank' \in [Frames -> {0, 1}]
       /\ \A g \in Frames : g # f => rank'[g] = rank[g]
       /\ children'[p] = new /\ \A q : q # p => children'[q] = children[q]
  BY <1>5, <1>6, <1>7, <1>8, <1>9 DEF Typed
<1>11. children[p] \in Seq(Frames) /\ ListedUnder(p)
  BY <1>5, <1>6 DEF Typed, Listed
<1>12. /\ IsInjective(children[p]) /\ f \in ToSet(children[p])
       /\ ToSet(children[p]) = {g \in Alive : parent[g] = p}
       /\ InOrder(children[p], rank)
  BY <1>1, <1>5, <1>11 DEF ListedUnder, InOrder
<1>13. /\ w \in Seq(Frames) /\ IsInjective(w) /\ ToSet(w) = ToSet(children[p]) \ {f}
  BY <1>3, <1>11, <1>12, WithoutIs
<1>14. InOrder(w, rank) /\ Len(w) = Len(children[p]) - 1
  <2>1. PICK of : of = rank
    OBVIOUS
  <2>2. PICK seq \in Seq(Frames) : seq = children[p]
    BY <1>11
  <2>3. IsInjective(seq) /\ f \in ToSet(seq) /\ InOrder(seq, of)
    BY <1>12, <2>1, <2>2
  <2>4. InOrder(Without(seq, f), of) /\ Len(Without(seq, f)) = Len(seq) - 1
    BY <2>3, RemovedInOrder
  <2>5. QED
    BY <1>3, <2>1, <2>2, <2>4
<1>15. /\ new \in Seq(Frames) /\ IsInjective(new)
       /\ ToSet(new) = ToSet(w) \cup {f} /\ Len(new) = Len(w) + 1
       /\ InOrder(new, rank')
  <2>1. /\ Typed /\ f \in Frames /\ r \in Nat /\ w \in Seq(Frames) /\ IsInjective(w)
        /\ f \notin ToSet(w)
    BY <1>5, <1>6, <1>7, <1>13
  <2>2. /\ Inserted(w, f, r) \in Seq(Frames) /\ IsInjective(Inserted(w, f, r))
        /\ ToSet(Inserted(w, f, r)) = ToSet(w) \cup {f}
        /\ Len(Inserted(w, f, r)) = Len(w) + 1
        /\ InOrder(w, rank) => InOrder(Inserted(w, f, r), [rank EXCEPT ![f] = r])
    BY <2>1, InsertedIs
  <2>3. QED
    BY <1>4, <1>8, <1>14, <2>2
<1>16. ToSet(new) = ToSet(children[p]) /\ Len(new) = Len(children[p])
  <2>1. Len(children[p]) \in Nat
    BY <1>11, LenProperties
  <2>2. QED
    BY <1>12, <1>13, <1>14, <1>15, <2>1
<1>18. PICK push \in Seq(Activations) : /\ stack' = push \o Stirred("draw", p, {"in", "out"})
                                        /\ \A a \in ToSet(push) : FALSE
                                        /\ stack' \in Seq(Activations)
  <2>1. PICK s : s = Stirred("draw", p, {"in", "out"})
    OBVIOUS
  <2>2. {"in", "out"} \in SUBSET {"in", "out"}
    OBVIOUS
  <2>3. s \in Seq(Activations)
    BY <1>5, <2>1, <2>2, StirredIs
  <2>4. <<>> \o s = s
    BY <2>3, ConcatEmptySeq
  <2>5. <<>> \in Seq(Activations) /\ ToSet(<<>>) = {}
    BY NoneIs
  <2>6. QED
    BY <1>5, <2>1, <2>3, <2>4, <2>5
<1>19. Typed'
  <2>1. lapsed' \in SUBSET Frames /\ stuck' \in SUBSET Frames
    BY <1>5, FlagsIs
  <2>2. children' \in [Null..N -> Seq(Frames)]
    BY <1>5, <1>6, <1>9, <1>15 DEF Typed
  <2>3. QED
    BY <1>5, <1>10, <1>18, <2>1, <2>2 DEF Typed, focus, events
<1>20. ASSUME NEW q \in {Null} \cup Alive PROVE ListedUnder(q)'
  <2>1. ListedUnder(q)
    BY <1>5 DEF Listed
  <2>2. CASE q = p
    BY <1>5, <1>6, <1>10, <1>12, <1>15, <1>16, <2>2 DEF ListedUnder, InOrder
  <2>3. CASE q # p
    <3>1. \A g \in ToSet(children[q]) : g \in Alive /\ parent[g] = q
      BY <2>1 DEF ListedUnder
    <3>2. \A i \in DOMAIN children[q] : children[q][i] \in ToSet(children[q])
      BY DEF ToSet
    <3>3. \A i \in DOMAIN children[q] : children[q][i] # f /\ children[q][i] \in Frames
      BY <1>1, <1>5, <2>3, <3>1, <3>2 DEF Typed, Alive
    <3>4. q # Null => \A i, j \in DOMAIN children[q] :
                        i < j => rank'[children[q][i]] <= rank'[children[q][j]]
      BY <1>10, <2>1, <3>3 DEF ListedUnder
    <3>5. QED
      BY <1>5, <1>6, <1>10, <2>1, <2>3, <3>4 DEF ListedUnder
  <2>4. QED
    BY <2>2, <2>3
<1>21. Listed'
  <2>1. p \notin gone /\ p \in born
    BY <1>6 DEF Alive
  <2>2. Behind'
    <3>1. Behind /\ \A q \in gone \ freed : children'[q] = children[q]
      BY <1>5, <1>10, <2>1 DEF Listed, Typed
    <3>2. QED
      BY <1>5, <3>1 DEF Behind
  <2>3. QED
    BY <1>5, <1>6, <1>10, <1>20, <2>1, <2>2 DEF Listed, focus, events
<1>22. Nested'
  BY <1>5 DEF Nested
<1>23. \A b \in Acts, a \in Activations :
         Walks(b, "draw", p) /\ Stirs(a, b, {"in", "out"}) => Onward(a)' /\ Backward(a)'
  <2>1. SUFFICES ASSUME NEW b \in Acts, NEW a \in Activations, Walks(b, "draw", p),
                        Stirs(a, b, {"in", "out"})
                 PROVE  Onward(a)' /\ Backward(a)'
    OBVIOUS
  <2>2. "out" \in a.stir /\ a.stir # {} /\ a.do = b.do /\ a.of = p /\ a.at = b.at /\ a.passed = b.passed
        /\ b.of = p /\ b.do \in Loops
    BY <2>1 DEF Stirs, Walks
  <2>3. Backward(b)
    BY <2>2 DEF IInv, Walked
  <2>4. Onward(a)'
    BY <2>2 DEF Onward
  <2>5. Backward(a)'
    BY <1>6, <1>10, <1>16, <2>2, <2>3 DEF Backward
  <2>6. QED
    BY <2>4, <2>5
<1>24. \A b \in Acts : b.do \in Loops /\ ~Walks(b, "draw", p) => ListOf(b.do, b.of)' = ListOf(b.do, b.of)
  BY <1>5, <1>10 DEF Walks, ListOf, events
<1>25. /\ Stacked' /\ Walked' /\ OneWalk' /\ Focused'
       /\ \A d : d # "script" => (Walk(d)' <=> Walk(d))
       /\ \A b \in Acts : ~Walks(b, "draw", p) => b \in Acts'
       /\ \A g : ToRelease(g) => ToRelease(g)'
  <2>1. {"in", "out"} \in SUBSET {"in", "out"}
    OBVIOUS
  <2>2. QED
    BY <1>5, <1>6, <1>18, <1>19, <1>23, <1>24, <2>1, ListStep
<1>26. Hovering' /\ Clicking'
  BY <1>5, <1>6, <1>10, <1>19, <1>25, PointerStep
<1>27. QED
  BY <1>19, <1>21, <1>22, <1>25, <1>26 DEF IInv

(* The list of a frame that another is created in.                         *)
LEMMA GrownIs ==
  ASSUME Typed, NEW seq \in Seq(Frames), IsInjective(seq), NEW f \in Frames, f \notin ToSet(seq),
         NEW new, new = Append(seq, f) \/ new = Inserted(seq, f, rank[f])
  PROVE  /\ new \in Seq(Frames) /\ IsInjective(new) /\ ToSet(new) = ToSet(seq) \cup {f}
         /\ Len(seq) \in Nat /\ DOMAIN seq = 1..Len(seq)
         /\ Len(new) = Len(seq) + 1 /\ DOMAIN new = 1..Len(seq) + 1
         /\ \A j \in DOMAIN seq : \E k \in DOMAIN new : k >= j /\ new[k] = seq[j]
         /\ \A k \in DOMAIN new : new[k] = f \/ \E j \in DOMAIN seq : j <= k /\ new[k] = seq[j]
         /\ new = Inserted(seq, f, rank[f]) /\ InOrder(seq, rank) => InOrder(new, rank)
<1>1. Len(seq) \in Nat /\ DOMAIN seq = 1..Len(seq)
  BY LenProperties
<1>2. PICK r \in Nat : r = rank[f]
  <2>1. rank[f] \in {0, 1}
    BY DEF Typed
  <2>2. QED
    BY <2>1
<1>3. CASE new = Inserted(seq, f, r)
  <2>1. [rank EXCEPT ![f] = r] = rank
    BY <1>2 DEF Typed
  <2>2. /\ Inserted(seq, f, r) \in Seq(Frames) /\ IsInjective(Inserted(seq, f, r))
        /\ ToSet(Inserted(seq, f, r)) = ToSet(seq) \cup {f}
        /\ Len(Inserted(seq, f, r)) = Len(seq) + 1
        /\ \A j \in DOMAIN seq : \E k \in DOMAIN Inserted(seq, f, r) :
             k >= j /\ Inserted(seq, f, r)[k] = seq[j]
        /\ \A k \in DOMAIN Inserted(seq, f, r) :
             \/ Inserted(seq, f, r)[k] = f
             \/ \E j \in DOMAIN seq : j <= k /\ Inserted(seq, f, r)[k] = seq[j]
        /\ InOrder(seq, rank) => InOrder(Inserted(seq, f, r), [rank EXCEPT ![f] = r])
    BY InsertedIs
  <2>3. DOMAIN new = 1..Len(new)
    BY <1>3, <2>2, LenProperties
  <2>4. QED
    BY <1>1, <1>2, <1>3, <2>1, <2>2, <2>3
<1>4. CASE new # Inserted(seq, f, r)
  <2>1. new = Append(seq, f)
    BY <1>2, <1>4
  <2>2. /\ Append(seq, f) \in Seq(Frames)
        /\ Len(Append(seq, f)) = Len(seq) + 1 /\ DOMAIN Append(seq, f) = 1..Len(seq) + 1
        /\ \A i \in 1..Len(seq) : Append(seq, f)[i] = seq[i]
        /\ Append(seq, f)[Len(seq) + 1] = f
        /\ ToSet(Append(seq, f)) = ToSet(seq) \cup {f}
        /\ IsInjective(Append(seq, f))
    BY AppendIs
  <2>3. ASSUME NEW j \in DOMAIN seq PROVE \E k \in DOMAIN new : k >= j /\ new[k] = seq[j]
    <3>1. j \in DOMAIN new /\ j >= j /\ new[j] = seq[j]
      BY <1>1, <2>1, <2>2
    <3>2. QED
      BY <3>1
  <2>4. ASSUME NEW k \in DOMAIN new
        PROVE  new[k] = f \/ \E j \in DOMAIN seq : j <= k /\ new[k] = seq[j]
    <3>1. k = Len(seq) + 1 \/ (k \in DOMAIN seq /\ k <= k)
      BY <1>1, <2>1, <2>2
    <3>2. QED
      BY <1>1, <2>1, <2>2, <3>1
  <2>5. QED
    BY <1>1, <1>2, <1>4, <2>1, <2>2, <2>3, <2>4
<1>5. QED
  BY <1>3, <1>4

LEMMA CreateStep ==
  ASSUME IInv, NEW f \in Frames \ born, NEW p \in Alive \cup {Null}, CreateFrame(f, p)
  PROVE  IInv'
<1>1. PICK new : new = IF p = Null THEN Append(children[p], f) ELSE Inserted(children[p], f, rank[f])
  OBVIOUS
<1>2. /\ Typed /\ Nested /\ Listed /\ Hovering /\ Clicking
      /\ calls' = calls - 1 /\ calls > 0
      /\ born' = born \cup {f}
      /\ parent' = [parent EXCEPT ![f] = p]
      /\ children' = [children EXCEPT ![p] = new]
      /\ mouse' = mouse \cup {f}
      /\ stack' = Script(f) \o Stirred("draw", p, {"in"})
      /\ StirFlags(p)
      /\ UNCHANGED <<switches, used, gone, freed, rank, orphans, hidden, hovered, clicked, pressed,
                     focus, events>>
  BY <1>1 DEF IInv, CreateFrame, Calling
<1>3. /\ f \in Frames /\ f \notin born /\ f \notin Alive /\ f # Null /\ p # f /\ f \notin gone
      /\ p \in Null..N /\ p \in {Null} \cup Alive /\ Alive' = Alive \cup {f} /\ Alive \subseteq born
  BY <1>2, NullIs DEF Typed, Alive
<1>4. /\ parent' \in [Frames -> Null..N] /\ parent'[f] = p
      /\ \A g \in Frames : g # f => parent'[g] = parent[g]
      /\ \A g \in born : parent'[g] = parent[g]
  BY <1>2, <1>3 DEF Typed
<1>5. children[p] \in Seq(Frames) /\ ListedUnder(p)
  BY <1>2, <1>3 DEF Typed, Listed
<1>6. /\ IsInjective(children[p]) /\ f \notin ToSet(children[p])
      /\ ToSet(children[p]) = {g \in Alive : parent[g] = p}
      /\ p # Null => InOrder(children[p], rank)
  BY <1>3, <1>5 DEF ListedUnder, InOrder
<1>7. PICK seq \in Seq(Frames) : seq = children[p]
  BY <1>5
<1>8. /\ new \in Seq(Frames) /\ IsInjective(new) /\ ToSet(new) = ToSet(seq) \cup {f}
      /\ Len(seq) \in Nat /\ DOMAIN seq = 1..Len(seq)
      /\ Len(new) = Len(seq) + 1 /\ DOMAIN new = 1..Len(seq) + 1
      /\ \A j \in DOMAIN seq : \E k \in DOMAIN new : k >= j /\ new[k] = seq[j]
      /\ \A k \in DOMAIN new : new[k] = f \/ \E j \in DOMAIN seq : j <= k /\ new[k] = seq[j]
      /\ p # Null => InOrder(new, rank)
  <2>1. new = Append(seq, f) \/ new = Inserted(seq, f, rank[f])
    BY <1>1, <1>7
  <2>2. IsInjective(seq) /\ f \notin ToSet(seq)
    BY <1>6, <1>7
  <2>3. p # Null => new = Inserted(seq, f, rank[f]) /\ InOrder(seq, rank)
    BY <1>1, <1>6, <1>7
  <2>4. QED
    BY <1>2, <1>3, <2>1, <2>2, <2>3, GrownIs
<1>9. /\ children' \in [Null..N -> Seq(Frames)] /\ children'[p] = new
      /\ \A q : q # p => children'[q] = children[q]
  BY <1>2, <1>3, <1>8 DEF Typed
<1>10. PICK push \in Seq(Activations) : /\ push = Script(f)
                                        /\ \A a \in ToSet(push) : a.do = "script" /\ a.of \in Alive'
                                        /\ stack' = push \o Stirred("draw", p, {"in"})
                                        /\ stack' \in Seq(Activations)
  <2>1. PICK s : s = Stirred("draw", p, {"in"})
    OBVIOUS
  <2>2. {"in"} \in SUBSET {"in", "out"}
    OBVIOUS
  <2>3. s \in Seq(Activations)
    BY <1>2, <2>1, <2>2, StirredIs
  <2>4. f \in Null..N
    BY <1>3, NullIs
  <2>5. Script(f) \in Seq(Activations) /\ ToSet(Script(f)) \subseteq {At("script", f)}
    BY <2>4, ScriptIs
  <2>6. Script(f) \o s \in Seq(Activations)
    BY <2>3, <2>5, ConcatIs
  <2>7. At("script", f).do = "script" /\ At("script", f).of = f
    BY DEF At
  <2>8. QED
    BY <1>2, <1>3, <2>1, <2>5, <2>6, <2>7
<1>11. Typed'
  <2>1. lapsed' \in SUBSET Frames /\ stuck' \in SUBSET Frames
    BY <1>2, FlagsIs
  <2>2. /\ born' \in SUBSET Frames /\ gone' \in SUBSET born' /\ mouse' \in SUBSET Frames
        /\ orphans' \in SUBSET born'
        /\ registered' \in SUBSET born' /\ calls' \in Nat
    BY <1>2, <1>3 DEF Typed, events
  <2>3. /\ freed' \in SUBSET gone' /\ rank' \in [Frames -> {0, 1}] /\ listeners' \in Seq(Frames)
        /\ hidden' \in SUBSET Frames /\ hovered' \in SUBSET Frames /\ clicked' \in SUBSET Frames
        /\ pressed' \in SUBSET Frames /\ used' \in BOOLEAN /\ switches' \in Nat
    BY <1>2 DEF Typed, events
  <2>4. active' \in Null..N /\ enabled' \in SUBSET Frames /\ strayed' \in SUBSET Frames
    BY <1>2 DEF Typed, focus
  <2>5. /\ parent' \in [Frames -> Null..N] /\ children' \in [Null..N -> Seq(Frames)]
        /\ stack' \in Seq(Activations)
    BY <1>4, <1>9, <1>10
  <2>6. QED
    BY <2>1, <2>2, <2>3, <2>4, <2>5 DEF Typed
<1>12. Nested'
  <2>1. PICK depth \in [Frames -> Nat] : \A g \in born : parent[g] # Null => depth[parent[g]] < depth[g]
    BY <1>2 DEF Nested
  <2>2. PICK d \in Nat : p # Null => d = depth[p] + 1
    <3>1. p # Null => depth[p] + 1 \in Nat
      <4>1. p # Null => p \in Frames
        BY <1>2, <1>3 DEF Typed
      <4>2. p # Null => depth[p] \in Nat
        BY <2>1, <4>1
      <4>3. QED
        BY <4>2
    <3>2. QED
      BY <3>1
  <2>3. PICK new2 \in [Frames -> Nat] : new2[f] = d /\ \A g \in Frames : g # f => new2[g] = depth[g]
    <3>1. [depth EXCEPT ![f] = d] \in [Frames -> Nat]
      BY <2>1, <2>2
    <3>2. QED
      BY <1>3, <2>1, <3>1
  <2>4. ASSUME NEW g \in born', parent'[g] # Null PROVE new2[parent'[g]] < new2[g]
    <3>1. CASE g = f
      <4>1. p # Null /\ p \in Frames /\ parent'[g] = p
        BY <1>2, <1>3, <1>4, <2>4, <3>1 DEF Typed, Alive
      <4>2. new2[p] = depth[p] /\ new2[g] = depth[p] + 1 /\ depth[p] \in Nat
        BY <1>3, <2>1, <2>2, <2>3, <3>1, <4>1
      <4>3. QED
        BY <4>1, <4>2
    <3>2. CASE g # f
      <4>1. g \in born /\ parent'[g] = parent[g]
        BY <1>2, <1>4, <2>4, <3>2
      <4>2. parent[g] \in born /\ parent[g] # f
        BY <1>2, <1>3, <2>4, <4>1 DEF Listed
      <4>3. g \in Frames /\ parent[g] \in Frames
        BY <1>2, <4>1, <4>2 DEF Typed
      <4>4. QED
        BY <2>1, <2>3, <2>4, <3>2, <4>1, <4>2, <4>3
    <3>3. QED
      BY <3>1, <3>2
  <2>5. QED
    BY <2>3, <2>4 DEF Nested
<1>13. ASSUME NEW q \in {Null} \cup Alive' PROVE ListedUnder(q)'
  <2>1. CASE q = p
    <3>1. {g \in Alive' : parent'[g] = p} = {g \in Alive : parent[g] = p} \cup {f}
      BY <1>3, <1>4
    <3>2. QED
      BY <1>2, <1>6, <1>7, <1>8, <1>9, <2>1, <3>1 DEF ListedUnder, InOrder
  <2>2. CASE q = f
    <3>1. children'[q] = <<>>
      BY <1>2, <1>3, <1>9, <2>2 DEF Listed
    <3>2. \A g \in Alive' : parent'[g] # f
      BY <1>2, <1>3, <1>4 DEF Listed
    <3>3. IsInjective(<<>>) /\ ToSet(<<>>) = {} /\ DOMAIN <<>> = {}
      BY DEF IsInjective, ToSet
    <3>4. QED
      BY <2>2, <3>1, <3>2, <3>3 DEF ListedUnder
  <2>3. CASE q # p /\ q # f
    <3>1. ListedUnder(q)
      BY <1>2, <1>3, <2>3 DEF Listed
    <3>2. {g \in Alive' : parent'[g] = q} = {g \in Alive : parent[g] = q}
      BY <1>3, <1>4, <2>3
    <3>3. QED
      BY <1>2, <1>9, <2>3, <3>1, <3>2 DEF ListedUnder
  <2>4. QED
    BY <2>1, <2>2, <2>3
<1>14. Listed'
  <2>1. \A g \in born' : parent'[g] \in born' \cup {Null}
    BY <1>2, <1>3, <1>4 DEF Listed
  <2>2. \A g \in Alive' : parent'[g] \in Alive' \cup {Null}
    BY <1>2, <1>3, <1>4 DEF Listed
  <2>3. \A q \in gone' : \A g \in ToSet(children'[q]) : parent'[g] = q /\ g \in gone' \ freed'
    <3>1. p \notin gone
      BY <1>2, <1>3, NullIs DEF Typed, Alive
    <3>2. \A q \in gone : \A g \in ToSet(children[q]) : parent[g] = q /\ g \in gone \ freed
      BY <1>2 DEF Listed
    <3>3. gone \subseteq born
      BY <1>2 DEF Typed
    <3>4. QED
      BY <1>2, <1>4, <1>9, <3>1, <3>2, <3>3
  <2>4. \A q \in Frames \ born' : children'[q] = <<>>
    BY <1>2, <1>3, <1>9, NullIs DEF Listed
  <2>5. ToSet(listeners') = registered' \cap Alive'
    <3>1. ToSet(listeners) = registered \cap Alive /\ registered \subseteq born
      BY <1>2 DEF Listed, Typed
    <3>2. QED
      BY <1>2, <1>3, <3>1 DEF events
  <2>6. IsInjective(listeners') /\ active' \in {Null} \cup (Inputs \cap Alive')
    BY <1>2, <1>3 DEF Listed, events, focus
  <2>7. Behind'
    <3>1. Behind /\ gone \subseteq born /\ p \notin gone
      BY <1>2, <1>3, NullIs DEF Listed, Typed, Alive
    <3>2. \A g \in gone : g # f /\ parent'[g] = parent[g]
      BY <1>3, <1>4, <3>1
    <3>3. \A q \in gone \ freed : children'[q] = children[q]
      BY <1>9, <3>1
    <3>4. \A g \in gone \ freed : parent[g] \in gone \ freed => g \in ToSet(children'[parent'[g]])
      BY <3>1, <3>2, <3>3 DEF Behind
    <3>5. QED
      BY <1>2, <3>1, <3>2, <3>4 DEF Behind
  <2>8. QED
    BY <1>13, <2>1, <2>2, <2>3, <2>4, <2>5, <2>6, <2>7 DEF Listed
<1>15. \A b \in Acts, a \in Activations :
         Walks(b, "draw", p) /\ Stirs(a, b, {"in"}) => Onward(a)' /\ Backward(a)'
  <2>1. SUFFICES ASSUME NEW b \in Acts, NEW a \in Activations, Walks(b, "draw", p), Stirs(a, b, {"in"})
                 PROVE  Onward(a)' /\ Backward(a)'
    OBVIOUS
  <2>2. /\ a.do = b.do /\ a.of = p /\ a.at = b.at /\ a.passed = b.passed /\ a.due = b.due
        /\ b.of = p /\ b.do \in Loops /\ b.do # "event" /\ a.stir = b.stir \cup {"in"}
    BY <2>1 DEF Stirs, Walks
  <2>3. Onward(b) /\ Backward(b)
    BY <2>2 DEF IInv, Walked
  <2>4. b.at \in Nat
    <3>1. b \in Activations
      BY <1>2, ActsAre
    <3>2. QED
      BY <2>2, <3>1 DEF Activations, Doings, Loops, Backwards, Forwards
  <2>5. ListOf(b.do, b.of) = seq /\ ListOf(a.do, a.of)' = new /\ children[b.of] = seq /\ children'[a.of] = new
    BY <1>7, <1>9, <2>2 DEF ListOf
  <2>6. a.stir # {} /\ ("out" \notin a.stir => "out" \notin b.stir)
    BY <2>2
  <2>7. After(b) \subseteq After(a)'
    <3>1. After(b) = {seq[j] : j \in {k \in DOMAIN seq : k >= b.at}}
      BY <2>5 DEF After
    <3>2. After(a)' = {new[j] : j \in {k \in DOMAIN new : k >= a.at}}
      BY <2>5 DEF After
    <3>3. ASSUME NEW j \in DOMAIN seq, j >= b.at PROVE \E k \in DOMAIN new : k >= a.at /\ new[k] = seq[j]
      <4>1. PICK k \in DOMAIN new : k >= j /\ new[k] = seq[j]
        BY <1>8
      <4>2. k >= a.at
        BY <1>8, <2>2, <2>4, <3>3, <4>1
      <4>3. QED
        BY <4>1, <4>2
    <3>4. QED
      BY <3>1, <3>2, <3>3
  <2>8. Before(a)' \subseteq Before(b) \cup {f}
    <3>1. Before(b) = {seq[j] : j \in {k \in DOMAIN seq : k <= b.at}}
      BY <2>5 DEF Before
    <3>2. Before(a)' = {new[j] : j \in {k \in DOMAIN new : k <= a.at}}
      BY <2>5 DEF Before
    <3>3. ASSUME NEW k \in DOMAIN new, k <= a.at, new[k] # f
          PROVE  \E j \in DOMAIN seq : j <= b.at /\ new[k] = seq[j]
      <4>1. PICK j \in DOMAIN seq : j <= k /\ new[k] = seq[j]
        BY <1>8, <3>3
      <4>2. j \in Nat /\ k \in Nat /\ k <= b.at
        BY SMTT(30), <1>8, <2>2, <3>3, <4>1
      <4>3. j <= b.at
        BY <2>4, <4>1, <4>2
      <4>4. QED
        BY <4>1, <4>3
    <3>4. QED
      BY <3>1, <3>2, <3>3
  <2>9. Onward(a)'
    <3>1. SUFFICES ASSUME a.do \in Forwards, a.at > 0, "out" \notin a.stir PROVE Onward(a)'
      BY DEF Onward
    <3>2. b.due \subseteq ToSet(b.passed) \cup After(b)
      BY <2>2, <2>3, <2>6, <3>1 DEF Onward
    <3>3. a.due \subseteq ToSet(a.passed) \cup After(a)'
      BY <2>2, <2>7, <3>2
    <3>4. QED
      BY <2>2, <2>6, <3>3 DEF Onward
  <2>10. Backward(a)'
    <3>1. SUFFICES ASSUME a.do \in Backwards PROVE Backward(a)'
      BY DEF Backward
    <3>2. /\ b.at <= Len(seq) /\ ToSet(b.passed) \subseteq Alive
          /\ "out" \notin b.stir => IsInjective(b.passed) /\ ToSet(b.passed) \cap Before(b) = {}
      BY <2>2, <2>3, <2>5, <3>1 DEF Backward
    <3>3. a.at <= Len(new)
      BY <1>8, <2>2, <2>4, <3>2
    <3>4. ToSet(a.passed) \subseteq Alive'
      BY <1>3, <2>2, <3>2
    <3>5. "out" \notin a.stir => IsInjective(a.passed) /\ ToSet(a.passed) \cap Before(a)' = {}
      BY <1>3, <2>2, <2>6, <2>8, <3>2
    <3>6. QED
      BY <2>5, <2>6, <3>3, <3>4, <3>5 DEF Backward
  <2>11. QED
    BY <2>9, <2>10
<1>16. \A b \in Acts : b.do \in Loops /\ ~Walks(b, "draw", p) => ListOf(b.do, b.of)' = ListOf(b.do, b.of)
  BY <1>2, <1>9 DEF Walks, ListOf, events
<1>17. /\ Stacked' /\ Walked' /\ OneWalk' /\ Focused'
       /\ \A d : d # "script" => (Walk(d)' <=> Walk(d))
       /\ \A b \in Acts : ~Walks(b, "draw", p) => b \in Acts'
       /\ \A g : ToRelease(g) => ToRelease(g)'
  <2>1. {"in"} \in SUBSET {"in", "out"} /\ Alive \subseteq Alive'
    BY <1>3
  <2>2. QED
    BY <1>2, <1>10, <1>11, <1>15, <1>16, <2>1, ListStep
<1>18. Hovering' /\ Clicking'
  <2>1. Alive \subseteq Alive' /\ mouse \subseteq mouse'
    BY <1>2, <1>3
  <2>2. QED
    BY <1>2, <1>3, <1>4, <1>9, <1>11, <1>17, <2>1, PointerStep
<1>19. QED
  BY <1>11, <1>12, <1>14, <1>17, <1>18 DEF IInv

-----------------------------------------------------------------------------
(* Another screen.                                                         *)

LEMMA SwitchScreenStep == IInv /\ SwitchScreen => IInv'
<1> SUFFICES ASSUME IInv, SwitchScreen PROVE IInv'
  OBVIOUS
<1>1. PICK dead : dead = {f \in Alive : \A g \in Line(f) : g \in Deleted(parent[g])}
  OBVIOUS
<1>2. /\ Typed /\ Nested /\ Listed
      /\ gone' = born /\ freed' = freed \cup dead
      /\ orphans' = orphans \cup UNION {PassedOver(p) : p \in dead}
      /\ children' = [p \in Null..N |-> IF p = Null \/ p \in dead THEN <<>> ELSE children[p]]
      /\ listeners' = <<>> /\ registered' = registered \ dead
      /\ active' = Null /\ enabled' = enabled \ dead /\ strayed' = enabled'
      /\ hovered' = hovered \ dead /\ clicked' = clicked \ dead
      /\ lapsed' = hovered' /\ stuck' = clicked'
      /\ stack' = Script(Null) \o <<At("entering", Null)>>
      /\ UNCHANGED <<born, parent, rank, hidden, mouse, pressed, used, calls>>
      /\ switches > 0 /\ switches' = switches - 1
  BY <1>1 DEF IInv, SwitchScreen, Clear
<1>3. /\ dead \subseteq Alive /\ Alive' = {} /\ Alive \subseteq born /\ Null \notin born
      /\ born \subseteq Frames
  BY <1>1, <1>2, NullIs DEF Alive, Typed
<1>4. PICK s : /\ s = stack' /\ s \in Seq(Activations) /\ DOMAIN s = 1..Len(s) /\ Len(s) \in Nat
               /\ \A i \in DOMAIN s : /\ s[i].of = Null
                                      /\ s[i].do = "script" \/ (s[i].do = "entering" /\ i = Len(s))
  <2>1. PICK p \in Seq(Activations) : /\ p = Script(Null)
                                      /\ \A i \in 1..Len(p) : p[i] = At("script", Null)
    BY NullIs, ScriptIs
  <2>2. PICK q \in Seq(Activations) : /\ q = <<At("entering", Null)>> /\ Len(q) = 1
                                      /\ q[1] = At("entering", Null)
    <3>1. <<At("entering", Null)>> \in Seq(Activations)
      BY NullIs, AtIs DEF Doings
    <3>2. QED
      BY <3>1
  <2>3. /\ p \o q \in Seq(Activations) /\ Len(p) \in Nat /\ Len(p \o q) = Len(p) + Len(q)
        /\ DOMAIN (p \o q) = 1..(Len(p) + Len(q))
        /\ \A i \in 1..Len(p) : (p \o q)[i] = p[i]
        /\ \A i \in 1..Len(q) : (p \o q)[Len(p) + i] = q[i]
    BY ConcatIs
  <2>4. PICK t : t = p \o q
    OBVIOUS
  <2>5. /\ t = stack' /\ t \in Seq(Activations) /\ Len(t) = Len(p) + 1 /\ DOMAIN t = 1..Len(p) + 1
        /\ \A i \in 1..Len(p) : t[i] = At("script", Null)
        /\ t[Len(p) + 1] = At("entering", Null)
    <3>1. 1 \in 1..Len(q)
      BY <2>2
    <3>2. t[Len(p) + 1] = q[1]
      BY <2>3, <2>4, <3>1
    <3>3. QED
      BY <1>2, <2>1, <2>2, <2>3, <2>4, <3>2
  <2>6. /\ At("script", Null).do = "script" /\ At("script", Null).of = Null
        /\ At("entering", Null).do = "entering" /\ At("entering", Null).of = Null
    BY DEF At
  <2>7. \A i \in DOMAIN t : i \in 1..Len(p) \/ i = Len(p) + 1
    BY <2>3, <2>5
  <2>8. \A i \in DOMAIN t : /\ t[i].of = Null
                            /\ t[i].do = "script" \/ (t[i].do = "entering" /\ i = Len(t))
    BY <2>5, <2>6, <2>7
  <2>9. QED
    BY <2>3, <2>5, <2>8
<1>5. \A a \in Acts' : a.of = Null /\ a.do \in {"script", "entering"}
  BY <1>4 DEF Acts, ToSet
<1>6. ASSUME NEW f \in Alive, parent[f] \in dead
       PROVE  f \in dead <=> f \in Deleted(parent[f])
  <2>1. parent[f] # Null /\ f \in born
    BY <1>3, <1>6
  <2>2. Line(f) = {f} \cup Line(parent[f])
    BY <1>2, <2>1, LineFacts
  <2>3. \A g \in Line(parent[f]) : g \in Deleted(parent[g])
    BY <1>1, <1>6
  <2>4. QED
    BY <1>1, <1>6, <2>2, <2>3
<1>7. ASSUME NEW p \in dead
       PROVE  PassedOver(p) = {f \in Alive \ dead : parent[f] = p}
  <2>1. ToSet(children[p]) = {f \in Alive : parent[f] = p}
    BY <1>2, <1>3 DEF Listed, ListedUnder
  <2>2. QED
    BY <1>6, <2>1 DEF PassedOver
<1>8. orphans' = orphans \cup {f \in Alive \ dead : parent[f] \in dead} /\ orphans \subseteq born
  BY <1>2, <1>7 DEF Typed
<1>9. Typed'
  <2>1. /\ gone' \in SUBSET born' /\ freed' \in SUBSET gone' /\ registered' \in SUBSET born'
        /\ hovered' \in SUBSET Frames /\ clicked' \in SUBSET Frames /\ enabled' \in SUBSET Frames
    BY <1>2, <1>3 DEF Typed
  <2>2. children' \in [Null..N -> Seq(Frames)] /\ listeners' \in Seq(Frames)
    <3>1. <<>> \in Seq(Frames)
      OBVIOUS
    <3>2. QED
      BY <1>2, <3>1 DEF Typed
  <2>3. active' \in Null..N /\ switches' \in Nat
    BY <1>2, NullIs DEF Typed
  <2>4. orphans' \in SUBSET born'
    BY <1>2, <1>3, <1>8
  <2>5. QED
    BY <1>2, <1>4, <2>1, <2>2, <2>3, <2>4 DEF Typed
<1>10. Nested'
  BY <1>2 DEF Nested
<1>11. IsInjective(<<>>) /\ ToSet(<<>>) = {} /\ DOMAIN <<>> = {}
  BY DEF IsInjective, ToSet
<1>12. /\ children'[Null] = <<>>
      /\ \A p \in Frames : children'[p] = IF p \in dead THEN <<>> ELSE children[p]
  BY <1>2, NullIs
<1>13. Listed'
  <2>1. \A f \in born' : parent'[f] \in born' \cup {Null}
    BY <1>2 DEF Listed
  <2>2. ASSUME NEW p \in {Null} \cup Alive' PROVE ListedUnder(p)'
    BY <1>3, <1>11, <1>12, <2>2 DEF ListedUnder
  <2>3. ASSUME NEW p \in gone', NEW f \in ToSet(children'[p])
        PROVE  parent'[f] = p /\ f \in gone' \ freed'
    <3>1. p \in born /\ p \in Frames /\ p \notin dead /\ children'[p] = children[p]
      BY <1>2, <1>3, <1>11, <1>12, <2>3
    <3>2. CASE p \in gone
      <4>1. parent[f] = p /\ f \in gone /\ f \notin freed
        BY <1>2, <2>3, <3>1, <3>2 DEF Listed
      <4>2. f \in born /\ f \notin dead
        BY <1>2, <1>3, <4>1 DEF Typed, Alive
      <4>3. QED
        BY <1>2, <4>1, <4>2
    <3>3. CASE p \notin gone
      <4>1. p \in Alive
        BY <3>1, <3>3 DEF Alive
      <4>2. f \in Alive /\ parent[f] = p
        BY <1>2, <2>3, <3>1, <4>1 DEF Listed, ListedUnder
      <4>3. f \in born /\ f \notin freed
        BY <1>2, <4>2 DEF Alive, Typed
      <4>4. f \notin dead
        <5>1. SUFFICES ASSUME f \in dead PROVE FALSE
          OBVIOUS
        <5>2. Line(f) = {f} \cup Line(p)
          BY <1>2, <1>3, <3>1, <4>2, <4>3, LineFacts
        <5>3. p \in dead
          BY <1>1, <4>1, <5>1, <5>2
        <5>4. QED
          BY <3>1, <5>3
      <4>5. QED
        BY <1>2, <4>2, <4>3, <4>4
    <3>4. QED
      BY <3>2, <3>3
  <2>4. \A p \in Frames \ born' : children'[p] = <<>>
    BY <1>2, <1>12 DEF Listed
  <2>5. Behind'
    <3>1. /\ Behind /\ freed \subseteq gone /\ gone \subseteq born /\ born = Alive \cup gone
          /\ Alive \cap gone = {} /\ dead \cap gone = {} /\ Null \notin freed \cup dead
      BY <1>2, <1>3 DEF Listed, Typed, Alive
    <3>2. \A f \in Alive : parent[f] \in {Null} \cup Alive
      BY <1>2 DEF Listed
    <3>3. \A f \in gone' : parent'[f] \in {Null} \cup gone'
      BY <1>2, <3>1, <3>2 DEF Behind
    <3>4. ASSUME NEW f \in gone' \ freed', parent'[f] \in gone' \ freed'
          PROVE  f \in ToSet(children'[parent'[f]])
      <4>1. /\ f \in born /\ f \notin freed /\ parent[f] \in born /\ parent[f] \notin freed \cup dead
            /\ parent'[f] = parent[f] /\ children'[parent[f]] = children[parent[f]]
        BY <1>2, <1>3, <1>12, <3>4
      <4>2. CASE f \in gone
        BY <1>3, <3>1, <4>1, <4>2 DEF Behind
      <4>3. CASE f \in Alive
        <5>1. parent[f] \in Alive
          BY <1>3, <3>2, <4>1, <4>3
        <5>2. QED
          BY <1>2, <4>1, <4>3, <5>1 DEF Listed, ListedUnder
      <4>4. QED
        BY <3>1, <4>1, <4>2, <4>3
    <3>5. orphans' = {f \in gone' \ freed' : parent'[f] \in freed'}
      <4>1. \A f \in gone : parent[f] \notin dead
        BY <1>3, <3>1 DEF Behind
      <4>2. \A f \in Alive : parent[f] \notin freed
        BY <3>1, <3>2
      <4>3. orphans = {f \in gone \ freed : parent[f] \in freed}
        BY <3>1 DEF Behind
      <4>4. QED
        BY <1>2, <1>8, <3>1, <4>1, <4>2, <4>3
    <3>6. QED
      BY <3>3, <3>4, <3>5 DEF Behind
  <2>6. QED
    BY <1>2, <1>3, <1>11, <2>1, <2>2, <2>3, <2>4, <2>5 DEF Listed
<1>14. Stacked' /\ Walked'
  BY <1>5 DEF Stacked, Walked, About, Loops, Backwards, Forwards
<1>15. OneWalk'
  BY <1>4 DEF OneWalk, Backwards
<1>16. Focused'
  BY <1>2, <1>4 DEF Focused, Losing
<1>17. Hovering' /\ Clicking'
  BY <1>2, <1>5 DEF Hovering, Clicking, Walk, Lone
<1>18. QED
  BY <1>9, <1>10, <1>13, <1>14, <1>15, <1>16, <1>17 DEF IInv

-----------------------------------------------------------------------------
(* What is loaded.                                                         *)

LEMMA InitHolds == Init => IInv
<1> SUFFICES ASSUME Init PROVE IInv
  OBVIOUS
<1>1. PICK t \in Trees : /\ born = DOMAIN t
                         /\ parent = [f \in Frames |-> IF f \in DOMAIN t THEN t[f] ELSE Null]
  BY DEF Init
<1>2. t \in Seq(Nat) /\ Len(t) <= N /\ \A f \in DOMAIN t : t[f] < f
  BY TreesAssumption
<1>3. Len(t) \in Nat /\ DOMAIN t = 1..Len(t) /\ \A f \in DOMAIN t : t[f] \in Nat
  BY <1>2, LenProperties, ElementOfSeq
<1>4. N \in Nat /\ MaxCalls \in Nat /\ MaxSwitches \in Nat
  BY Bounds
<1>5. /\ born = 1..Len(t) /\ born \subseteq Frames
      /\ \A f \in born : parent[f] \in Nat /\ parent[f] < f /\ f \in Nat
  BY <1>1, <1>2, <1>3, <1>4 DEF Frames
<1>6. \A f \in Frames : parent[f] \in Null..N
  BY <1>1, <1>2, <1>3, <1>4 DEF Frames, Null
<1>7. \A f \in born : parent[f] \in born \cup {Null}
  BY <1>3, <1>5 DEF Null
<1>8. /\ gone = {} /\ freed = {} /\ orphans = {}
      /\ rank = [f \in Frames |-> 0]
      /\ children = [p \in Null..N |-> Loaded({f \in born : parent[f] = p})]
      /\ hidden = HiddenAtLoad \cap born /\ mouse = born
      /\ hovered = {} /\ clicked = {} /\ lapsed = {} /\ stuck = {} /\ pressed = {}
      /\ active = Null /\ enabled = {} /\ strayed = {}
      /\ registered = born /\ listeners = Loaded(born)
      /\ stack = <<>> /\ used = FALSE
      /\ calls = MaxCalls /\ switches = MaxSwitches
  BY DEF Init
<1>9. Alive = born
  BY <1>8 DEF Alive
<1>10. ASSUME NEW fs \in SUBSET born
       PROVE  /\ Loaded(fs) \in Seq(Frames) /\ Loaded(fs) \in Seq(fs)
              /\ ToSet(Loaded(fs)) = fs /\ IsInjective(Loaded(fs))
  <2>1. fs \in SUBSET Frames
    BY <1>5
  <2>2. Loaded(fs) \in Seq(fs) /\ ToSet(Loaded(fs)) = fs /\ IsInjective(Loaded(fs))
    BY <2>1, LoadedIs
  <2>3. Loaded(fs) \in Seq(Frames)
    BY <2>1, <2>2, SeqMonotonic
  <2>4. QED
    BY <2>2, <2>3
<1>11. ASSUME NEW p \in Null..N
       PROVE  /\ children[p] \in Seq(Frames) /\ IsInjective(children[p])
              /\ ToSet(children[p]) = {f \in born : parent[f] = p}
  BY <1>8, <1>10
<1>12. Typed
  <2>1. <<>> \in Seq(Activations)
    OBVIOUS
  <2>2. rank \in [Frames -> {0, 1}] /\ parent \in [Frames -> Null..N]
    BY <1>1, <1>6, <1>8
  <2>3. children \in [Null..N -> Seq(Frames)] /\ listeners \in Seq(Frames)
    BY <1>8, <1>10
  <2>4. active \in Null..N
    BY <1>8, NullIs
  <2>5. QED
    BY <1>4, <1>5, <1>8, <2>1, <2>2, <2>3, <2>4 DEF Typed
<1>13. Nested
  <2>1. PICK depth \in [Frames -> Nat] : \A f \in Frames : depth[f] = f
    <3>1. [f \in Frames |-> f] \in [Frames -> Nat]
      BY <1>4 DEF Frames
    <3>2. QED
      BY <3>1
  <2>2. ASSUME NEW f \in born, parent[f] # Null PROVE depth[parent[f]] < depth[f]
    <3>1. f \in Frames /\ parent[f] \in Frames
      BY <1>5, <1>7, <2>2
    <3>2. QED
      BY <1>5, <2>1, <3>1
  <2>3. QED
    BY <2>1, <2>2 DEF Nested
<1>14. Listed
  <2>1. ASSUME NEW p \in {Null} \cup Alive PROVE ListedUnder(p)
    <3>1. p \in Null..N
      BY <1>5, <1>9, NullIs
    <3>2. /\ children[p] \in Seq(Frames) /\ IsInjective(children[p])
          /\ ToSet(children[p]) = {f \in born : parent[f] = p}
      BY <1>11, <3>1
    <3>3. \A i \in DOMAIN children[p] : children[p][i] \in Frames
      BY <1>5, <3>2 DEF ToSet
    <3>4. \A i \in DOMAIN children[p] : rank[children[p][i]] = 0
      BY <1>8, <3>3
    <3>5. \A i, j \in DOMAIN children[p] : rank[children[p][i]] <= rank[children[p][j]]
      BY <3>4
    <3>6. QED
      BY <1>9, <3>2, <3>5 DEF ListedUnder
  <2>2. ASSUME NEW p \in Frames \ born PROVE children[p] = <<>>
    <3>1. p \in Null..N /\ p # Null
      BY NullIs
    <3>2. {f \in born : parent[f] = p} = {}
      BY <1>7, <2>2, <3>1
    <3>3. children[p] \in Seq({})
      BY <1>8, <1>10, <3>1, <3>2
    <3>4. children[p] # <<>> => Head(children[p]) \in {}
      BY <3>3, HeadTailProperties
    <3>5. QED
      BY <3>4
  <2>3. IsInjective(listeners) /\ ToSet(listeners) = registered \cap Alive
    BY <1>8, <1>9, <1>10
  <2>4. Behind
    BY <1>8 DEF Behind
  <2>5. QED
    BY <1>7, <1>8, <1>9, <2>1, <2>2, <2>3, <2>4 DEF Listed
<1>15. Acts = {} /\ DOMAIN stack = {}
  BY <1>8 DEF Acts, ToSet
<1>16. Stacked /\ Walked /\ OneWalk /\ Focused
  BY <1>8, <1>15 DEF Stacked, Walked, OneWalk, Focused, Losing
<1>17. Hovering /\ Clicking
  BY <1>8, <1>15 DEF Hovering, Clicking, Walk, Lone
<1>18. QED
  BY <1>12, <1>13, <1>14, <1>16, <1>17 DEF IInv

-----------------------------------------------------------------------------
(* The theorems.                                                           *)

LEMMA StutterStep == IInv /\ UNCHANGED vars => IInv'
<1> SUFFICES ASSUME IInv, UNCHANGED vars PROVE IInv'
  OBVIOUS
<1>1. UNCHANGED <<tree, flags, focus, events, stack, used, bounds>>
  BY DEF vars
<1>2. PICK push : Harmless(push) /\ stack' = push \o stack
  <2>1. stack' = <<>> \o stack
    BY <1>1, ConcatEmptySeq DEF IInv, Typed
  <2>2. QED
    BY <2>1, HarmlessNone
<1>3. Quiet(push, 0)
  BY <1>2, QuietCall DEF IInv
<1>4. calls' \in Nat /\ switches' \in Nat /\ used' \in BOOLEAN /\ used' = used
  BY <1>1 DEF IInv, Typed, bounds
<1>5. QED
  BY <1>1, <1>3, <1>4, QuietStep

LEMMA NextStep == IInv /\ Next => IInv'
<1> SUFFICES ASSUME IInv, Next PROVE IInv'
  OBVIOUS
<1>1. CASE OnMouseMove
  BY <1>1, StartStep DEF OnMouseMove, Loops, Backwards
<1>2. CASE OnMouseDown
  BY <1>2, StartStep DEF OnMouseDown, Loops, Backwards
<1>3. CASE OnMouseUp
  BY <1>3, StartStep DEF OnMouseUp, Loops, Backwards
<1>4. CASE Render
  BY <1>4, StartStep DEF Render, Loops, Forwards
<1>5. CASE Event
  BY <1>5, StartStep DEF Event, Loops, Forwards
<1>6. CASE Escape \/ SwitchScreen \/ Entering \/ Pressed \/ Focus \/ Gain \/ Return \/ Conceal
  BY <1>6, EscapeStep, SwitchScreenStep, EnteringStep, PressedStep, FocusStep, GainStep, ReturnStep,
     ConcealStep
<1>7. CASE Walking
  BY <1>7, LoopTurnStep, LoopEndStep, MoveSelfStep, DownSelfStep, UpSelfStep, ClickSelfStep,
     ReleaseStep DEF Walking
<1>8. CASE Calls
  <2>1. ASSUME NEW f \in Alive, SetFrameLevel(f) PROVE IInv'
    BY <2>1, RankStep, LevelStep
  <2>2. ASSUME NEW f \in Alive, Show(f) \/ EnableMouse(f) \/ RegisterEvent(f) \/ UnregisterEvent(f)
        PROVE  IInv'
    BY <2>2, ShowStep, EnableMouseStep, RegisterStep, UnregisterStep
  <2>3. ASSUME NEW f \in Frames \ born, NEW p \in Alive \cup {Null}, CreateFrame(f, p) PROVE IInv'
    BY <2>3, CreateStep
  <2>4. QED
    BY <1>8, <2>1, <2>2, <2>3, PlainCallsStep DEF Calls
<1>9. QED
  BY <1>1, <1>2, <1>3, <1>4, <1>5, <1>6, <1>7, <1>8 DEF Next

LEMMA Invariance == Spec => []IInv
<1>1. IInv /\ [Next]_vars => IInv'
  BY NextStep, StutterStep
<1>2. QED
  BY <1>1, InitHolds, PTL DEF Spec

(* The lists of src/ui/frame.c and src/itf/interface.c agree with what the *)
(* frames say of themselves, whatever scripts create, move and clear.      *)
THEOREM TreeIsOK == Spec => []TreeOK
<1>1. IInv => TreeOK
  <2> SUFFICES ASSUME IInv PROVE TreeOK
    OBVIOUS
  <2>1. Typed /\ Listed
    BY DEF IInv
  <2>2. ListsOK
    BY <2>1 DEF ListsOK, Listed, ListedUnder
  <2>3. ASSUME NEW p \in gone \ freed
        PROVE  ToSet(children[p]) = {f \in gone \ freed : parent[f] = p}
    <3>1. \A f \in ToSet(children[p]) : parent[f] = p /\ f \in gone \ freed
      BY <2>1 DEF Listed
    <3>2. \A f \in gone \ freed : parent[f] = p => f \in ToSet(children[p])
      BY <2>1 DEF Listed, Behind
    <3>3. QED
      BY <3>1, <3>2
  <2>4. orphans = {f \in gone \ freed : parent[f] \in freed}
    BY <2>1 DEF Listed, Behind
  <2>5. QED
    BY <2>1, <2>2, <2>3, <2>4 DEF TreeOK, LeftOK, Typed, Listed
<1>2. QED
  BY <1>1, Invariance, PTL

(* A loop over a list that the scripts it runs change reaches what the     *)
(* comments of Served say, however deep the loops are in each other.       *)
THEOREM LoopsServe == Spec => []Served
<1>1. IInv => Served
  <2> SUFFICES ASSUME IInv, Looping, Finished
               PROVE  LET reached == Turn.due \subseteq ToSet(Turn.passed)
                          once == IsInjective(Turn.passed)
                          all == ToSet(listeners) \subseteq ToSet(Turn.passed) IN
                      /\ Top.do = "event" /\ "out" \notin Turn.stir => reached /\ once /\ all
                      /\ Top.do # "event" /\ Top.do \in Forwards /\ "out" \notin Turn.stir => reached
                      /\ Top.do \in Backwards /\ "out" \notin Turn.stir => once
                      /\ Turn.stir = {} => reached /\ once
    BY DEF Served
  <2> DEFINE reached == Turn.due \subseteq ToSet(Turn.passed)
             once == IsInjective(Turn.passed)
             all == ToSet(listeners) \subseteq ToSet(Turn.passed)
  <2>1. PICK list : list = ListOf(Top.do, Top.of)
    OBVIOUS
  <2>2. /\ Top.do \in Loops /\ Top.of \in {Null} \cup Alive /\ (Top.do = "event" => Top.of = Null)
        /\ Turn \in [do : Loops, of : Null..N, at : Nat, due : SUBSET Frames, passed : Seq(Frames),
                     stir : SUBSET {"in", "out"}]
        /\ Turn.do = Top.do /\ Turn.of = Top.of /\ Fine(Turn)
        /\ Top.do \in Backwards => Turn = Top
        /\ Top.do \in Forwards => Turn.at > 0
    BY TurnIs DEF IInv
  <2>3. /\ list \in Seq(Frames) /\ Len(list) \in Nat /\ DOMAIN list = 1..Len(list) /\ IsInjective(list)
    BY <2>1, <2>2, ListIs DEF IInv
  <2>4. PICK turn : /\ turn = Turn /\ turn.at \in Nat /\ turn.passed \in Seq(Frames)
                    /\ DOMAIN turn.passed = 1..Len(turn.passed) /\ Len(turn.passed) \in Nat
    <3>1. Turn.at \in Nat /\ Turn.passed \in Seq(Frames)
      BY <2>2
    <3>2. QED
      BY <3>1, LenProperties
  <2>5. Onward(Turn) /\ Backward(Turn) /\ ListOf(Turn.do, Turn.of) = list
    BY <2>1, <2>2 DEF Fine
  <2>6. CASE Top.do \in Forwards
    <3>1. turn.at > Len(list) /\ turn.at > 0 /\ Top.do \notin Backwards
      BY <2>1, <2>2, <2>4, <2>6 DEF Finished, Forwards, Backwards
    <3>2. ASSUME Prefix(Turn) PROVE reached /\ once /\ ToSet(list) \subseteq ToSet(Turn.passed)
      <4>1. /\ turn.due \subseteq ToSet(list) /\ Len(turn.passed) = turn.at - 1
            /\ turn.at <= Len(list) + 1
            /\ \A i \in DOMAIN turn.passed : turn.passed[i] = list[i]
        BY <2>4, <2>5, <3>2 DEF Prefix
      <4>2. DOMAIN turn.passed = DOMAIN list
        <5>1. Len(turn.passed) = Len(list)
          BY <2>3, <2>4, <3>1, <4>1
        <5>2. QED
          BY <2>3, <2>4, <5>1
      <4>3. ToSet(turn.passed) = ToSet(list)
        BY <4>1, <4>2 DEF ToSet
      <4>4. IsInjective(turn.passed)
        BY <2>3, <4>1, <4>2 DEF IsInjective
      <4>5. QED
        BY <2>4, <4>1, <4>3, <4>4
    <3>3. After(Turn) = {}
      <4>1. {k \in DOMAIN list : k >= turn.at} = {}
        BY <2>3, <2>4, <3>1
      <4>2. QED
        BY <2>4, <2>5, <4>1 DEF After
    <3>4. Turn.at > 0
      BY <2>4, <3>1
    <3>5. "out" \notin Turn.stir =>
            /\ Turn.do = "event" \/ Turn.stir = {} => Prefix(Turn)
            /\ Turn.do # "event" => Turn.due \subseteq ToSet(Turn.passed) \cup After(Turn)
      BY <2>2, <2>5, <2>6, <3>4 DEF Onward
    <3>6. Top.do = "event" => list = listeners
      BY <2>1 DEF ListOf
    <3> HIDE DEF reached, once, all
    <3>7. Top.do = "event" /\ "out" \notin Turn.stir => reached /\ once /\ all
      BY <2>2, <3>2, <3>5, <3>6 DEF all
    <3>8. Top.do # "event" /\ "out" \notin Turn.stir => reached
      BY <2>2, <3>3, <3>5 DEF reached
    <3>9. Turn.stir = {} => reached /\ once
      BY <3>2, <3>5
    <3>10. QED
      BY <3>1, <3>7, <3>8, <3>9 DEF reached, once, all
  <2>7. CASE Top.do \in Backwards
    <3>1. Top.do # "event" /\ Top.do \notin Forwards
      BY <2>7 DEF Backwards, Forwards
    <3>2. turn.at = 0
      BY <2>2, <2>4, <2>7 DEF Finished
    <3>3. Before(Turn) = {}
      <4>1. {k \in DOMAIN list : k <= turn.at} = {}
        BY <2>3, <3>2
      <4>2. QED
        BY <2>4, <2>5, <4>1 DEF Before
    <3>4. "out" \notin Turn.stir => IsInjective(Turn.passed)
      BY <2>2, <2>5, <2>7 DEF Backward
    <3>5. Turn.stir = {} => Turn.due \subseteq ToSet(Turn.passed) \cup Before(Turn)
      BY <2>2, <2>5, <2>7 DEF Backward
    <3>6. QED
      BY <3>1, <3>3, <3>4, <3>5
  <2>8. QED
    BY <2>2, <2>6, <2>7 DEF Loops
<1>2. QED
  BY <1>1, Invariance, PTL

(* on_mouse_move of src/ui/region.c and the walk that calls it leave one   *)
(* frame under the pointer, whatever the scripts do in the middle.         *)
THEOREM PointerIsKnown == Spec => []PointerKnown
<1>1. IInv => PointerKnown
  <2> SUFFICES ASSUME IInv PROVE PointerKnown
    OBVIOUS
  <2>1. ClicksPressed
    BY DEF IInv, Clicking, ClicksPressed
  <2>2. OneHovered
    <3>1. SUFFICES ASSUME Idle PROVE Cardinality(hovered \ lapsed) <= 1
      BY DEF OneHovered
    <3>2. ~Walk("move")
      BY <3>1, NoneIs DEF Idle, Walk, Acts
    <3>3. Lone(hovered \ lapsed)
      BY <3>2 DEF IInv, Hovering
    <3>4. PICK fs : fs = hovered \ lapsed
      OBVIOUS
    <3>5. CASE fs = {}
      BY <3>4, <3>5, FS_EmptySet
    <3>6. CASE fs # {}
      <4>1. PICK f : fs = {f}
        BY <3>3, <3>4, <3>6 DEF Lone
      <4>2. Cardinality({f}) = 1
        BY FS_Singleton
      <4>3. QED
        BY <3>4, <4>1, <4>2
    <3>7. QED
      BY <3>5, <3>6
  <2>3. QED
    BY <2>1, <2>2 DEF PointerKnown
<1>2. QED
  BY <1>1, Invariance, PTL

(* interface_set_active_input leaves one edit box that takes characters,   *)
(* also where a script asks for the focus in the middle of it.             *)
THEOREM OneInputHolds == Spec => []OneInput
<1>1. IInv => OneInput
  BY DEF IInv, Focused, OneInput
<1>2. QED
  BY <1>1, Invariance, PTL
=============================================================================
