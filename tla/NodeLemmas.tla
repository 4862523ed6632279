------------------------------ MODULE NodeLemmas ------------------------------
(***************************************************************************)
(* Lemmas about the queues of a node, and about the dispatcher and the     *)
(* module threads, for any node they are part of: which types their steps  *)
(* keep, and of which few shapes these steps are.                          *)
(*                                                                         *)
(* A queue is a sequence from which the first element is taken, and at     *)
(* whose end elements are added.  What a proof says of a queue is which of *)
(* its elements are in a given set, and in which order the numbers of      *)
(* these, their field id, come.                                            *)
(***************************************************************************)
EXTENDS Dispatcher, ModuleThread, FiniteSetTheorems, SequenceTheorems, TLAPS

\* Taking the first element of a typed queue.
LEMMA TakeType ==
    ASSUME NEW S, NEW s \in Seq(S), s # <<>>
    PROVE  Head(s) \in S /\ Tail(s) \in Seq(S)
BY HeadTailProperties

LEMMA TailDiffers ==
    ASSUME NEW S, NEW s \in Seq(S), s # <<>>
    PROVE  Tail(s) # s
<1>. DEFINE t == Tail(s)
<1>1. Len(t) = Len(s) - 1 /\ Len(s) \in Nat
  BY HeadTailProperties, EmptySeq, LenProperties
<1>. HIDE DEF t
<1>2. t # s
  BY <1>1
<1>. QED  BY <1>2 DEF t

\* Adding to a queue of at most one element.
LEMMA ShortAppend ==
    ASSUME NEW x, NEW y
    PROVE  Append(<<>>, y) = <<y>> /\ Append(<<x>>, y) = <<x, y>>
<1>. DEFINE S == {x, y}
<1>1. /\ <<>> \in Seq(S) /\ <<x>> \in Seq(S) /\ <<y>> \in Seq(S)
      /\ <<x, y>> \in Seq(S) /\ y \in S
  OBVIOUS
<1>. HIDE DEF S
<1>2. Append(<<>>, y) = <<y>>
  BY <1>1, AppendIsConcat, ConcatEmptySeq
<1>3. Append(<<x>>, y) = <<x, y>>
  <2>. DEFINE s == Append(<<x>>, y)
              t == <<x, y>>
  <2>1. /\ s \in Seq(S) /\ Len(s) = Len(<<x>>) + 1
        /\ \A i \in 1 .. Len(<<x>>) : s[i] = <<x>>[i]
        /\ s[Len(<<x>>) + 1] = y
    BY <1>1, AppendProperties
  <2>2. Len(<<x>>) = 1 /\ <<x>>[1] = x
    OBVIOUS
  <2>3. Len(t) = 2 /\ t[1] = x /\ t[2] = y
    OBVIOUS
  <2>. HIDE DEF s, t
  <2>4. Len(s) = 2 /\ s[1] = x /\ s[2] = y
    BY <2>1, <2>2
  <2>5. \A i \in 1 .. Len(s) : i = 1 \/ i = 2
    BY <2>4
  <2>6. t \in Seq(S)
    BY <1>1 DEF t
  <2>7. \A i \in 1 .. Len(s) : s[i] = t[i]
    BY <2>3, <2>4, <2>5
  <2>. QED  BY <2>1, <2>3, <2>4, <2>6, <2>7, SeqEqual DEF s, t
<1>. QED  BY <1>2, <1>3

-----------------------------------------------------------------------------
(* Counting occurrences in a queue.                                         *)

\* No element of queue s is in the set G; at most one position holds one.
None(s, G) == \A i \in 1 .. Len(s) : s[i] \notin G
AtMostOne(s, G) ==
    \A i, j \in 1 .. Len(s) : (s[i] \in G /\ s[j] \in G) => i = j

LEMMA NoneOfEmpty ==
    ASSUME NEW G
    PROVE  None(<<>>, G) /\ AtMostOne(<<>>, G)
BY DEF None, AtMostOne

LEMMA NoneIsAtMostOne ==
    ASSUME NEW s, NEW G, None(s, G)
    PROVE  AtMostOne(s, G)
BY DEF None, AtMostOne

LEMMA NoneOfOne ==
    ASSUME NEW e, NEW G, e \notin G
    PROVE  None(<<e>>, G)
<1>1. \A i \in 1 .. Len(<<e>>) : i = 1
  OBVIOUS
<1>2. <<e>>[1] = e
  OBVIOUS
<1>. QED  BY <1>1, <1>2, Zenon DEF None

LEMMA TailCount ==
    ASSUME NEW S, NEW s \in Seq(S), s # <<>>, NEW G
    PROVE  /\ AtMostOne(s, G) => AtMostOne(Tail(s), G)
           /\ None(s, G) => None(Tail(s), G)
           /\ Head(s) \in G => ~None(s, G)
           /\ (Head(s) \in G /\ AtMostOne(s, G)) => None(Tail(s), G)
<1>1. /\ Len(s) \in Nat \ {0}
      /\ Len(Tail(s)) = Len(s) - 1
      /\ \A i \in 1 .. Len(Tail(s)) : Tail(s)[i] = s[i + 1]
      /\ Head(s) = s[1]
  BY HeadTailProperties, EmptySeq, LenProperties
<1>2. \A i \in 1 .. Len(Tail(s)) : i + 1 \in 1 .. Len(s) /\ i + 1 # 1
  BY <1>1
<1>3. 1 \in 1 .. Len(s)
  BY <1>1
<1>4. AtMostOne(s, G) => AtMostOne(Tail(s), G)
  <2>. SUFFICES ASSUME AtMostOne(s, G),
                       NEW i \in 1 .. Len(Tail(s)), NEW j \in 1 .. Len(Tail(s)),
                       Tail(s)[i] \in G, Tail(s)[j] \in G
                PROVE  i = j
    BY DEF AtMostOne
  <2>1. s[i + 1] \in G /\ s[j + 1] \in G
    BY <1>1
  <2>2. i + 1 = j + 1
    BY <1>2, <2>1 DEF AtMostOne
  <2>. QED  BY <2>2
<1>5. None(s, G) => None(Tail(s), G)
  BY <1>1, <1>2 DEF None
<1>6. Head(s) \in G => ~None(s, G)
  BY <1>1, <1>3 DEF None
<1>7. (Head(s) \in G /\ AtMostOne(s, G)) => None(Tail(s), G)
  BY <1>1, <1>2, <1>3 DEF None, AtMostOne
<1>. QED  BY <1>4, <1>5, <1>6, <1>7

LEMMA HeadNone ==
    ASSUME NEW S, NEW s \in Seq(S), s # <<>>, NEW G, Head(s) \notin G, None(Tail(s), G)
    PROVE  None(s, G)
<1>1. /\ Len(s) \in Nat \ {0}
      /\ Len(Tail(s)) = Len(s) - 1
      /\ \A i \in 1 .. Len(Tail(s)) : Tail(s)[i] = s[i + 1]
      /\ Head(s) = s[1]
  BY HeadTailProperties, EmptySeq, LenProperties
<1>2. ASSUME NEW i \in 1 .. Len(s), i # 1
      PROVE  s[i] \notin G
  <2>1. i - 1 \in 1 .. Len(Tail(s)) /\ (i - 1) + 1 = i
    BY <1>1, <1>2
  <2>2. Tail(s)[i - 1] = s[i]
    BY <1>1, <2>1
  <2>. QED  BY <2>1, <2>2 DEF None
<1>. QED  BY <1>1, <1>2 DEF None

LEMMA ConcatCount ==
    ASSUME NEW S, NEW s \in Seq(S), NEW t \in Seq(S), NEW G, None(t, G)
    PROVE  /\ AtMostOne(s, G) => AtMostOne(s \o t, G)
           /\ None(s, G) => None(s \o t, G)
<1>1. /\ Len(s) \in Nat /\ Len(t) \in Nat
      /\ Len(s \o t) = Len(s) + Len(t)
      /\ \A i \in 1 .. Len(s) + Len(t) :
           (s \o t)[i] = IF i <= Len(s) THEN s[i] ELSE t[i - Len(s)]
  BY ConcatProperties, LenProperties
<1>2. ASSUME NEW i \in 1 .. Len(s \o t), (s \o t)[i] \in G
      PROVE  i \in 1 .. Len(s) /\ s[i] \in G
  <2>1. CASE i <= Len(s)
    BY <1>1, <1>2, <2>1
  <2>2. CASE ~(i <= Len(s))
    <3>1. i - Len(s) \in 1 .. Len(t) /\ t[i - Len(s)] \in G
      BY <1>1, <1>2, <2>2
    <3>. QED  BY <3>1 DEF None
  <2>. QED  BY <2>1, <2>2
<1>. QED  BY <1>2 DEF None, AtMostOne

LEMMA AppendCount ==
    ASSUME NEW S, NEW s \in Seq(S), NEW e \in S, NEW G, None(s, G)
    PROVE  AtMostOne(Append(s, e), G)
<1>1. /\ Len(s) \in Nat
      /\ Len(Append(s, e)) = Len(s) + 1
      /\ \A i \in 1 .. Len(s) : Append(s, e)[i] = s[i]
      /\ Append(s, e)[Len(s) + 1] = e
  BY AppendProperties, LenProperties
<1>2. \A i \in 1 .. Len(Append(s, e)) : i \in 1 .. Len(s) \/ i = Len(s) + 1
  BY <1>1
<1>3. ASSUME NEW i \in 1 .. Len(Append(s, e)), Append(s, e)[i] \in G
      PROVE  i = Len(s) + 1
  BY <1>1, <1>2, <1>3 DEF None
<1>. QED  BY <1>3 DEF AtMostOne

\* Adding an element outside of G changes nothing.
LEMMA AppendOther ==
    ASSUME NEW S, NEW s \in Seq(S), NEW e \in S, NEW G, e \notin G
    PROVE  /\ AtMostOne(s, G) => AtMostOne(Append(s, e), G)
           /\ None(s, G) => None(Append(s, e), G)
<1>1. None(<<e>>, G) /\ <<e>> \in Seq(S)
  BY NoneOfOne
<1>2. Append(s, e) = s \o <<e>>
  BY AppendIsConcat
<1>. QED  BY <1>1, <1>2, ConcatCount

LEMMA ConcatNone ==
    ASSUME NEW S, NEW s \in Seq(S), NEW t \in Seq(S), NEW G, None(s, G), None(t, G)
    PROVE  None(s \o t, G)
BY ConcatCount

\* No element of a concatenation is in G: no element of the parts is.
LEMMA NoneOfParts ==
    ASSUME NEW S, NEW s \in Seq(S), NEW t \in Seq(S), NEW G, None(s \o t, G)
    PROVE  None(s, G) /\ None(t, G)
<1>. DEFINE u == s \o t
<1>1. /\ Len(s) \in Nat /\ Len(t) \in Nat /\ Len(u) = Len(s) + Len(t)
      /\ \A i \in 1 .. Len(s) + Len(t) : u[i] = IF i <= Len(s) THEN s[i] ELSE t[i - Len(s)]
  BY ConcatProperties, LenProperties
<1>2. None(u, G)
  OBVIOUS
<1>. HIDE DEF u
<1>3. ASSUME NEW i \in 1 .. Len(s)
      PROVE  s[i] \notin G
  <2>1. i \in 1 .. Len(u) /\ u[i] = s[i]
    BY <1>1
  <2>. QED  BY <1>2, <2>1 DEF None
<1>4. ASSUME NEW i \in 1 .. Len(t)
      PROVE  t[i] \notin G
  <2>1. Len(s) + i \in 1 .. Len(u) /\ ~(Len(s) + i <= Len(s)) /\ (Len(s) + i) - Len(s) = i
    BY <1>1
  <2>2. u[Len(s) + i] = t[i]
    BY <1>1, <2>1
  <2>. QED  BY <1>2, <2>1, <2>2 DEF None
<1>. QED  BY <1>3, <1>4 DEF None

-----------------------------------------------------------------------------
(* What every element of a queue is.                                        *)

Every(s, G) == \A i \in 1 .. Len(s) : s[i] \in G

LEMMA EveryOfEmpty ==
    ASSUME NEW G
    PROVE  Every(<<>>, G)
BY DEF Every

LEMMA EveryOfOne ==
    ASSUME NEW G, NEW e \in G
    PROVE  Every(<<e>>, G)
BY DEF Every

LEMMA EveryOfMore ==
    ASSUME NEW s, NEW G, Every(s, G), NEW H, G \subseteq H
    PROVE  Every(s, H)
BY DEF Every

\* Of elements outside of H there is none in H.
LEMMA EveryIsNone ==
    ASSUME NEW s, NEW G, Every(s, G), NEW H, G \cap H = {}
    PROVE  None(s, H)
BY DEF Every, None

LEMMA EveryTail ==
    ASSUME NEW S, NEW s \in Seq(S), s # <<>>, NEW G, Every(s, G)
    PROVE  Head(s) \in G /\ Every(Tail(s), G)
<1>1. /\ Len(s) \in Nat \ {0}
      /\ Len(Tail(s)) = Len(s) - 1
      /\ \A i \in 1 .. Len(Tail(s)) : Tail(s)[i] = s[i + 1]
      /\ Head(s) = s[1]
  BY HeadTailProperties, EmptySeq, LenProperties
<1>2. 1 \in 1 .. Len(s) /\ \A i \in 1 .. Len(Tail(s)) : i + 1 \in 1 .. Len(s)
  BY <1>1
<1>. QED  BY <1>1, <1>2 DEF Every

LEMMA EveryConcat ==
    ASSUME NEW S, NEW s \in Seq(S), NEW t \in Seq(S), NEW G, Every(s, G), Every(t, G)
    PROVE  Every(s \o t, G)
<1>1. /\ Len(s) \in Nat /\ Len(t) \in Nat
      /\ Len(s \o t) = Len(s) + Len(t)
      /\ \A i \in 1 .. Len(s) + Len(t) :
           (s \o t)[i] = IF i <= Len(s) THEN s[i] ELSE t[i - Len(s)]
  BY ConcatProperties, LenProperties
<1>2. ASSUME NEW i \in 1 .. Len(s \o t)
      PROVE  (s \o t)[i] \in G
  <2>1. CASE i <= Len(s)
    BY <1>1, <2>1 DEF Every
  <2>2. CASE ~(i <= Len(s))
    <3>1. i - Len(s) \in 1 .. Len(t)  BY <1>1, <2>2
    <3>. QED  BY <1>1, <2>2, <3>1 DEF Every
  <2>. QED  BY <2>1, <2>2
<1>. QED  BY <1>2 DEF Every

LEMMA EveryAppend ==
    ASSUME NEW S, NEW s \in Seq(S), NEW e \in S, NEW G, Every(s, G), e \in G
    PROVE  Every(Append(s, e), G)
<1>1. Append(s, e) = s \o <<e>> /\ <<e>> \in Seq(S)
  BY AppendIsConcat
<1>2. Every(<<e>>, G)
  BY EveryOfOne
<1>3. Every(s \o <<e>>, G)
  BY <1>1, <1>2, EveryConcat, Zenon
<1>. QED  BY <1>1, <1>3

-----------------------------------------------------------------------------
(* The order of a queue.                                                    *)

\* The numbers of the elements of s that are in G, and that they ascend.
Ids(s, G) == {s[i].id : i \in {k \in 1 .. Len(s) : s[k] \in G}}

Ascending(s, G) ==
    \A i, j \in 1 .. Len(s) :
      (i < j /\ s[i] \in G /\ s[j] \in G) => s[i].id < s[j].id

Below(A, B) == \A a \in A, b \in B : a < b

LEMMA IdsOfEmpty ==
    ASSUME NEW G
    PROVE  Ids(<<>>, G) = {} /\ Ascending(<<>>, G)
BY DEF Ids, Ascending

LEMMA IdsOfNone ==
    ASSUME NEW s, NEW G, None(s, G)
    PROVE  Ids(s, G) = {} /\ Ascending(s, G)
BY DEF None, Ids, Ascending

LEMMA IdsOfOne ==
    ASSUME NEW e, NEW G
    PROVE  /\ Ids(<<e>>, G) = IF e \in G THEN {e.id} ELSE {}
           /\ Ascending(<<e>>, G)
<1>1. Len(<<e>>) = 1 /\ <<e>>[1] = e /\ 1 .. 1 = {1}
  OBVIOUS
<1>2. \A i \in 1 .. Len(<<e>>) : i = 1
  BY <1>1
<1>3. Ascending(<<e>>, G)
  BY <1>2 DEF Ascending
<1>. QED  BY <1>1, <1>3, Zenon DEF Ids

LEMMA IdsTail ==
    ASSUME NEW S, NEW s \in Seq(S), s # <<>>, NEW G
    PROVE  /\ Ids(Tail(s), G) \subseteq Ids(s, G)
           /\ Head(s) \in G => Head(s).id \in Ids(s, G)
           /\ Ascending(s, G) => Ascending(Tail(s), G)
           /\ (Ascending(s, G) /\ Head(s) \in G) => Below({Head(s).id}, Ids(Tail(s), G))
<1>1. /\ Len(s) \in Nat \ {0}
      /\ Len(Tail(s)) = Len(s) - 1
      /\ \A i \in 1 .. Len(Tail(s)) : Tail(s)[i] = s[i + 1]
      /\ Head(s) = s[1]
  BY HeadTailProperties, EmptySeq, LenProperties
<1>2. /\ 1 \in 1 .. Len(s)
      /\ \A i \in 1 .. Len(Tail(s)) : i + 1 \in 1 .. Len(s) /\ 1 < i + 1
      /\ \A i, j \in 1 .. Len(Tail(s)) : i < j => i + 1 < j + 1
  BY <1>1
<1>3. Ids(Tail(s), G) \subseteq Ids(s, G)
  BY <1>1, <1>2 DEF Ids
<1>4. Head(s) \in G => Head(s).id \in Ids(s, G)
  BY <1>1, <1>2 DEF Ids
<1>5. Ascending(s, G) => Ascending(Tail(s), G)
  BY <1>1, <1>2 DEF Ascending
<1>6. (Ascending(s, G) /\ Head(s) \in G) => Below({Head(s).id}, Ids(Tail(s), G))
  BY <1>1, <1>2 DEF Ascending, Ids, Below
<1>. QED  BY <1>3, <1>4, <1>5, <1>6

LEMMA IdsHead ==
    ASSUME NEW S, NEW s \in Seq(S), s # <<>>, NEW G
    PROVE  Ids(s, G) = Ids(Tail(s), G) \cup (IF Head(s) \in G THEN {Head(s).id} ELSE {})
<1>1. /\ Len(s) \in Nat \ {0}
      /\ Len(Tail(s)) = Len(s) - 1
      /\ \A i \in 1 .. Len(Tail(s)) : Tail(s)[i] = s[i + 1]
      /\ Head(s) = s[1]
  BY HeadTailProperties, EmptySeq, LenProperties
<1>2. \A i \in 1 .. Len(s) : i = 1 \/ (i - 1 \in 1 .. Len(Tail(s)) /\ (i - 1) + 1 = i)
  BY <1>1
<1>3. ASSUME NEW i \in 1 .. Len(s), s[i] \in G
      PROVE  s[i].id \in Ids(Tail(s), G) \cup (IF Head(s) \in G THEN {Head(s).id} ELSE {})
  <2>1. CASE i = 1
    BY <1>1, <1>3, <2>1
  <2>2. CASE i - 1 \in 1 .. Len(Tail(s)) /\ (i - 1) + 1 = i
    <3>1. Tail(s)[i - 1] = s[i]
      BY <1>1, <2>2
    <3>. QED  BY <1>3, <2>2, <3>1 DEF Ids
  <2>. QED  BY <1>2, <2>1, <2>2
<1>4. Ids(s, G) \subseteq Ids(Tail(s), G) \cup (IF Head(s) \in G THEN {Head(s).id} ELSE {})
  BY <1>3 DEF Ids
<1>. QED  BY <1>4, IdsTail

LEMMA IdsConcat ==
    ASSUME NEW S, NEW s \in Seq(S), NEW t \in Seq(S), NEW G
    PROVE  Ids(s \o t, G) = Ids(s, G) \cup Ids(t, G)
<1>1. /\ Len(s) \in Nat /\ Len(t) \in Nat
      /\ Len(s \o t) = Len(s) + Len(t)
      /\ \A i \in 1 .. Len(s) + Len(t) :
           (s \o t)[i] = IF i <= Len(s) THEN s[i] ELSE t[i - Len(s)]
  BY ConcatProperties, LenProperties
<1>2. \A i \in 1 .. Len(s) : i \in 1 .. Len(s \o t) /\ (s \o t)[i] = s[i]
  BY <1>1
<1>3. \A i \in 1 .. Len(t) :
        Len(s) + i \in 1 .. Len(s \o t) /\ (s \o t)[Len(s) + i] = t[i]
  BY <1>1
<1>4. \A i \in 1 .. Len(s \o t) :
        \/ i \in 1 .. Len(s)
        \/ i - Len(s) \in 1 .. Len(t) /\ i = Len(s) + (i - Len(s))
  BY <1>1
<1>5. Ids(s \o t, G) \subseteq Ids(s, G) \cup Ids(t, G)
  <2>. SUFFICES ASSUME NEW i \in 1 .. Len(s \o t), (s \o t)[i] \in G
                PROVE  (s \o t)[i].id \in Ids(s, G) \cup Ids(t, G)
    BY DEF Ids
  <2>. QED  BY <1>2, <1>3, <1>4 DEF Ids
<1>6. Ids(s, G) \cup Ids(t, G) \subseteq Ids(s \o t, G)
  BY <1>2, <1>3 DEF Ids
<1>. QED  BY <1>5, <1>6

LEMMA AscendingConcat ==
    ASSUME NEW S, NEW s \in Seq(S), NEW t \in Seq(S), NEW G,
           Ascending(s, G), Ascending(t, G), Below(Ids(s, G), Ids(t, G))
    PROVE  Ascending(s \o t, G)
<1>1. /\ Len(s) \in Nat /\ Len(t) \in Nat
      /\ Len(s \o t) = Len(s) + Len(t)
      /\ \A i \in 1 .. Len(s) + Len(t) :
           (s \o t)[i] = IF i <= Len(s) THEN s[i] ELSE t[i - Len(s)]
  BY ConcatProperties, LenProperties
<1>2. \A i \in 1 .. Len(s) : i \in 1 .. Len(s \o t) /\ (s \o t)[i] = s[i]
  BY <1>1
<1>7. ASSUME NEW i \in 1 .. Len(s \o t), NEW j \in 1 .. Len(s \o t), i < j,
             (s \o t)[i] \in G, (s \o t)[j] \in G
      PROVE  (s \o t)[i].id < (s \o t)[j].id
  <2>1. CASE i <= Len(s) /\ j <= Len(s)
    BY <1>1, <1>2, <1>7, <2>1 DEF Ascending
  <2>2. CASE i <= Len(s) /\ ~(j <= Len(s))
    <3>1. i \in 1 .. Len(s) /\ j - Len(s) \in 1 .. Len(t)  BY <1>1, <2>2
    <3>2. (s \o t)[i] = s[i] /\ (s \o t)[j] = t[j - Len(s)]  BY <1>1, <2>2
    <3>3. s[i].id \in Ids(s, G) /\ t[j - Len(s)].id \in Ids(t, G)
      BY <1>7, <3>1, <3>2 DEF Ids
    <3>. QED  BY <1>7, <3>2, <3>3 DEF Below
  <2>3. CASE ~(i <= Len(s))
    <3>1. /\ i - Len(s) \in 1 .. Len(t) /\ j - Len(s) \in 1 .. Len(t)
          /\ i - Len(s) < j - Len(s)
      BY <1>1, <1>7, <2>3
    <3>2. (s \o t)[i] = t[i - Len(s)] /\ (s \o t)[j] = t[j - Len(s)]
      BY <1>1, <1>7, <2>3
    <3>. QED  BY <1>7, <3>1, <3>2 DEF Ascending
  <2>. QED  BY <1>1, <1>7, <2>1, <2>2, <2>3
<1>. QED  BY <1>7 DEF Ascending

\* An element outside of G changes nothing; one in G comes last.
LEMMA IdsAppend ==
    ASSUME NEW S, NEW s \in Seq(S), NEW e \in S, NEW G
    PROVE  /\ e \notin G => Ids(Append(s, e), G) = Ids(s, G)
           /\ e \in G => Ids(Append(s, e), G) = Ids(s, G) \cup {e.id}
           /\ (Ascending(s, G) /\ (e \in G => Below(Ids(s, G), {e.id})))
                => Ascending(Append(s, e), G)
<1>. DEFINE t == <<e>>
<1>1. Append(s, e) = s \o t /\ t \in Seq(S)
  BY AppendIsConcat
<1>2. /\ Ids(t, G) = IF e \in G THEN {e.id} ELSE {}
      /\ Ascending(t, G)
  BY IdsOfOne
<1>. HIDE DEF t
<1>3. e \notin G => Below(Ids(s, G), Ids(t, G))
  BY <1>2 DEF Below
<1>4. /\ Ids(s \o t, G) = Ids(s, G) \cup Ids(t, G)
      /\ (Ascending(s, G) /\ Below(Ids(s, G), Ids(t, G))) => Ascending(s \o t, G)
  <2>1. t \in Seq(S) /\ Ascending(t, G)
    BY <1>1, <1>2
  <2>2. Ids(s \o t, G) = Ids(s, G) \cup Ids(t, G)
    BY <2>1, IdsConcat
  <2>3. (Ascending(s, G) /\ Below(Ids(s, G), Ids(t, G))) => Ascending(s \o t, G)
    BY <2>1, AscendingConcat
  <2>. QED  BY <2>2, <2>3
<1>5. /\ e \notin G => Ids(t, G) = {}
      /\ e \in G => Ids(t, G) = {e.id}
  BY <1>2
<1>6. /\ e \notin G => Ids(Append(s, e), G) = Ids(s, G)
      /\ e \in G => Ids(Append(s, e), G) = Ids(s, G) \cup {e.id}
  BY <1>1, <1>4, <1>5
<1>7. (Ascending(s, G) /\ (e \in G => Below(Ids(s, G), {e.id})))
        => Ascending(Append(s, e), G)
  BY <1>1, <1>2, <1>3, <1>4, <1>5, Zenon
<1>. QED  BY <1>6, <1>7

LEMMA IdsSnoc ==
    ASSUME NEW S, NEW s \in Seq(S), NEW e \in S, NEW G
    PROVE  Ids(s \o <<e>>, G) = Ids(s, G) \cup (IF e \in G THEN {e.id} ELSE {})
<1>. DEFINE t == <<e>>
<1>1. t \in Seq(S)
  OBVIOUS
<1>2. Ids(t, G) = IF e \in G THEN {e.id} ELSE {}
  BY IdsOfOne
<1>. HIDE DEF t
<1>3. Ids(s \o t, G) = Ids(s, G) \cup Ids(t, G)
  BY <1>1, IdsConcat
<1>. QED  BY <1>2, <1>3 DEF t

LEMMA IdsAppendOut ==
    ASSUME NEW S, NEW s \in Seq(S), NEW e \in S, NEW G, e \notin G, Ascending(s, G)
    PROVE  /\ Ids(Append(s, e), G) = Ids(s, G)
           /\ Ascending(Append(s, e), G)
BY IdsAppend

LEMMA IdsConcatUp ==
    ASSUME NEW S, NEW s \in Seq(S), NEW t \in Seq(S), NEW G,
           Ascending(s, G), Ascending(t, G), Below(Ids(s, G), Ids(t, G))
    PROVE  /\ Ids(s \o t, G) = Ids(s, G) \cup Ids(t, G)
           /\ Ascending(s \o t, G)
BY IdsConcat, AscendingConcat

LEMMA IdsAppendIn ==
    ASSUME NEW S, NEW s \in Seq(S), NEW e \in S, NEW G, e \in G,
           Ascending(s, G), Below(Ids(s, G), {e.id})
    PROVE  /\ Ids(Append(s, e), G) = Ids(s, G) \cup {e.id}
           /\ Ascending(Append(s, e), G)
BY IdsAppend

\* Numbers below d.
LEMMA IdsBelow ==
    ASSUME NEW s, NEW G, NEW H, Every(s, H), NEW d,
           \A x \in H : x \in G => x.id < d
    PROVE  Below(Ids(s, G), {d})
BY DEF Every, Ids, Below

-----------------------------------------------------------------------------
(* Numbers that move from one place to the next.                            *)

\* Those of T come first, then those of A, of Q and of R.
InLine(T, A, Q, R) ==
    /\ Below(T, A) /\ Below(T, Q) /\ Below(T, R)
    /\ Below(A, Q) /\ Below(A, R)
    /\ Below(Q, R)

\* A number d moves from one set on to the next.
LEMMA InLineForward ==
    ASSUME NEW T, NEW A, NEW Q, NEW R, InLine(T, A, Q, R), NEW d \in R,
           NEW R1 \in SUBSET R, Below({d}, R1)
    PROVE  InLine(T, A, Q \cup {d}, R1)
BY DEF InLine, Below

LEMMA InLineAnswer ==
    ASSUME NEW T, NEW A, NEW Q, NEW R, InLine(T, A, Q, R), NEW d \in Q,
           NEW Q1 \in SUBSET Q, Below({d}, Q1)
    PROVE  InLine(T, A \cup {d}, Q1, R)
BY DEF InLine, Below

LEMMA InLineTell ==
    ASSUME NEW T, NEW A, NEW Q, NEW R, InLine(T, A, Q, R), NEW d \in A,
           NEW A1 \in SUBSET A, Below({d}, A1), NEW T1 \in SUBSET (T \cup {d})
    PROVE  InLine(T1, A1, Q, R)
BY DEF InLine, Below

LEMMA InLineShrinks ==
    ASSUME NEW T, NEW A, NEW Q, NEW R, InLine(T, A, Q, R),
           NEW T1 \in SUBSET T, NEW A1 \in SUBSET A, NEW Q1 \in SUBSET Q,
           NEW R1 \in SUBSET R
    PROVE  InLine(T1, A1, Q1, R1)
BY DEF InLine, Below

\* A new request comes last.
LEMMA InLineAsks ==
    ASSUME NEW T, NEW A, NEW Q, NEW R, InLine(T, A, Q, R), NEW d,
           Below(T \cup A \cup Q \cup R, {d})
    PROVE  InLine(T, A, Q, R \cup {d})
BY DEF InLine, Below

-----------------------------------------------------------------------------
(* An element in front of a queue.                                          *)

LEMMA FirstOfConcat ==
    ASSUME NEW S, NEW r \in S, NEW s \in Seq(S)
    PROVE  /\ <<r>> \o s \in Seq(S) /\ <<r>> \o s # <<>>
           /\ Head(<<r>> \o s) = r /\ Tail(<<r>> \o s) = s
<1>. DEFINE t == <<r>>
            u == t \o s
<1>1. t \in Seq(S) /\ Len(t) = 1 /\ t[1] = r
  OBVIOUS
<1>. HIDE DEF t
<1>a. /\ u \in Seq(S) /\ Len(u) = Len(t) + Len(s) /\ Len(s) \in Nat
      /\ \A i \in 1 .. Len(t) + Len(s) : u[i] = IF i <= Len(t) THEN t[i] ELSE s[i - Len(t)]
  BY <1>1, ConcatProperties, LenProperties
<1>. HIDE DEF u
<1>2. /\ u \in Seq(S) /\ Len(s) \in Nat /\ Len(u) = 1 + Len(s)
      /\ \A i \in 1 .. 1 + Len(s) : u[i] = IF i <= 1 THEN t[i] ELSE s[i - 1]
  BY <1>1, <1>a
<1>3. u # <<>>
  BY <1>2, EmptySeq
<1>4. /\ Tail(u) \in Seq(S) /\ Len(Tail(u)) = Len(u) - 1
      /\ \A i \in 1 .. Len(Tail(u)) : Tail(u)[i] = u[i + 1]
      /\ Head(u) = u[1]
  BY <1>2, <1>3, HeadTailProperties
<1>5. Len(Tail(u)) = Len(s) /\ \A i \in 1 .. Len(Tail(u)) : Tail(u)[i] = s[i]
  BY <1>2, <1>4
<1>6. Tail(u) = s
  BY <1>4, <1>5, SeqEqual
<1>. QED  BY <1>1, <1>2, <1>3, <1>4, <1>6 DEF u, t

LEMMA FirstAndRest ==
    ASSUME NEW S, NEW s \in Seq(S), s # <<>>
    PROVE  <<Head(s)>> \o Tail(s) = s
<1>. DEFINE t == <<Head(s)>>
            u == t \o Tail(s)
<1>1. /\ Head(s) \in S /\ Tail(s) \in Seq(S) /\ Len(Tail(s)) = Len(s) - 1
      /\ \A i \in 1 .. Len(Tail(s)) : Tail(s)[i] = s[i + 1]
      /\ Head(s) = s[1] /\ Len(s) \in Nat \ {0}
  BY HeadTailProperties, EmptySeq
<1>2. t \in Seq(S) /\ Len(t) = 1 /\ t[1] = s[1]
  BY <1>1
<1>. HIDE DEF t
<1>. DEFINE v == Tail(s)
<1>a. v \in Seq(S)
  BY <1>1
<1>b. /\ u \in Seq(S) /\ Len(u) = Len(t) + Len(v)
      /\ \A i \in 1 .. Len(t) + Len(v) : u[i] = IF i <= Len(t) THEN t[i] ELSE v[i - Len(t)]
  <2>. HIDE DEF v
  <2>1. u = t \o v
    BY DEF v
  <2>2. /\ t \o v \in Seq(S) /\ Len(t \o v) = Len(t) + Len(v)
        /\ \A i \in 1 .. Len(t) + Len(v) : (t \o v)[i] = IF i <= Len(t) THEN t[i] ELSE v[i - Len(t)]
    BY <1>2, <1>a, ConcatProperties
  <2>. HIDE DEF u
  <2>. QED  BY <2>1, <2>2
<1>. HIDE DEF u
<1>3. /\ u \in Seq(S) /\ Len(u) = 1 + Len(Tail(s))
      /\ \A i \in 1 .. 1 + Len(Tail(s)) : u[i] = IF i <= 1 THEN t[i] ELSE Tail(s)[i - 1]
  BY <1>1, <1>2, <1>b
<1>4. Len(u) = Len(s)
  BY <1>1, <1>3
<1>5. ASSUME NEW i \in 1 .. Len(u)
      PROVE  u[i] = s[i]
  <2>1. CASE i = 1
    BY <1>1, <1>2, <1>3, <2>1
  <2>2. CASE i # 1
    <3>1. i - 1 \in 1 .. Len(Tail(s)) /\ (i - 1) + 1 = i
      BY <1>1, <1>3, <2>2
    <3>2. u[i] = Tail(s)[i - 1]
      BY <1>1, <1>3, <2>2
    <3>. QED  BY <1>1, <3>1, <3>2
  <2>. QED  BY <2>1, <2>2
<1>6. u = s
  BY <1>3, <1>4, <1>5, SeqEqual
<1>. QED  BY <1>6 DEF u, t

LEMMA ConcatAppend ==
    ASSUME NEW S, NEW s \in Seq(S), NEW t \in Seq(S), NEW e \in S
    PROVE  s \o Append(t, e) = Append(s \o t, e)
<1>. DEFINE x == <<e>>
<1>1. x \in Seq(S) /\ s \o t \in Seq(S)
  BY ConcatProperties
<1>2. Append(t, e) = t \o x /\ Append(s \o t, e) = (s \o t) \o x
  BY <1>1, AppendIsConcat
<1>. HIDE DEF x
<1>3. (s \o t) \o x = s \o (t \o x)
  BY <1>1, ConcatAssociative
<1>. QED  BY <1>2, <1>3

-----------------------------------------------------------------------------
(* Types                                                                    *)

NodeTypes == ChannelsTypeOK /\ DispatcherTypeOK /\ ModuleTypeOK

-----------------------------------------------------------------------------
(* Lemmas about the operators the actions are made of *)

\* What send_back appends keeps the reply channels typed.
LEMMA SendBackType ==
    ASSUME NodeTypes, NEW h \in Handlers, NEW ms \in Seq(Message), SendBack(h, ms)
    PROVE  /\ outbox' \in [Handlers -> Seq(Message)]
           /\ discarded' \in SUBSET Handlers
<1>1. CASE h \in handlers /\ outbox' = [outbox EXCEPT ![h] = @ \o ms] /\ UNCHANGED discarded
  <2>1. outbox[h] \o ms \in Seq(Message)
    BY ConcatProperties DEF NodeTypes, ChannelsTypeOK
  <2>. QED  BY <1>1, <2>1 DEF NodeTypes, ChannelsTypeOK, DispatcherTypeOK
<1>2. CASE discarded' = discarded \cup {h} /\ UNCHANGED outbox
  BY <1>2 DEF NodeTypes, ChannelsTypeOK, DispatcherTypeOK
<1>. QED  BY <1>1, <1>2 DEF SendBack

\* Forwarding a request keeps the queues of the modules typed.
LEMMA ForwardType ==
    ASSUME NodeTypes, NEW S, NEW r \in Request, Forward(S, r)
    PROVE  modq' \in [Mods -> Seq(Request)]
<1>1. \A m \in Mods : Append(modq[m], r) \in Seq(Request)
  BY AppendProperties DEF NodeTypes, ChannelsTypeOK
<1>. QED  BY <1>1 DEF Forward, NodeTypes, ChannelsTypeOK

LEMMA AnswerType ==
    ASSUME NEW r \in Request \cup ModReply,
           NEW kind \in {"error", "describing", "active", "inactive", "pong"}
    PROVE  Answer(r, kind) \in Message
BY DEF Answer, Request, ModReply, Message

LEMMA RelayType ==
    ASSUME NEW e \in ModReply, e.kind # "initupdates"
    PROVE  Relay(e) \in Message
BY DEF Relay, ModReply, Message, Names

LEMMA InitialUpdatesType ==
    ASSUME NEW e \in ModReply
    PROVE  InitialUpdates(e) \in Seq(Message)
<1>1. [kind |-> "update", mod |-> e.from, val |-> e.val, id |-> e.id] \in Message
  BY DEF ModReply, Message, Names
<1>. QED  BY <1>1 DEF InitialUpdates

-----------------------------------------------------------------------------
(* Type correctness *)

LEMMA RequestsType ==
    ASSUME NodeTypes, NEW kinds, TakeRequest(kinds)
    PROVE  /\ Head(requests) \in Request
           /\ Head(requests).hid \in Handlers
           /\ requests' \in Seq(Request)
           /\ connections' \in Seq(Handlers)
           /\ replies' \in Seq(ModReply)
<1>1. Head(requests) \in Request /\ requests' \in Seq(Request)
  BY TakeType DEF TakeRequest, NodeTypes, ChannelsTypeOK
<1>. QED  BY <1>1 DEF TakeRequest, NodeTypes, ChannelsTypeOK, Request

LEMMA RepliesType ==
    ASSUME NodeTypes, TakeReply
    PROVE  /\ Head(replies) \in ModReply
           /\ replies' \in Seq(ModReply)
           /\ connections' \in Seq(Handlers)
           /\ requests' \in Seq(Request)
           /\ modq' \in [Mods -> Seq(Request)]
<1>1. Head(replies) \in ModReply /\ replies' \in Seq(ModReply)
  BY TakeType DEF TakeReply, NodeTypes, ChannelsTypeOK
<1>. QED  BY <1>1 DEF TakeReply, NodeTypes, ChannelsTypeOK

\* A step of the dispatcher.
LEMMA DispatcherType ==
    ASSUME NodeTypes, DispatcherNext
    PROVE  ChannelsTypeOK' /\ DispatcherTypeOK'
<1>. USE DEF NodeTypes, ChannelsTypeOK, DispatcherTypeOK
<1>1. CASE Register
  <2>1. Head(connections) \in Handlers /\ Tail(connections) \in Seq(Handlers)
    BY <1>1, TakeType DEF Register
  <2>. QED  BY <1>1, <2>1 DEF Register
<1>2. CASE DispatchRequest
  <2>. DEFINE r == Head(requests)
  <2>1. ASSUME NEW kinds, TakeRequest(kinds)
        PROVE  /\ r \in Request /\ r.hid \in Handlers
               /\ requests' \in Seq(Request)
               /\ connections' \in Seq(Handlers)
               /\ replies' \in Seq(ModReply)
               /\ <<Answer(r, "error")>> \in Seq(Message)
               /\ <<Answer(r, "inactive")>> \in Seq(Message)
               /\ <<Answer(r, "describing")>> \in Seq(Message)
    <3>1. r \in Request  BY <2>1, RequestsType
    <3>. QED  BY <2>1, <3>1, RequestsType, AnswerType
  <2>. HIDE DEF r
  <2>2. CASE DispatchCommand
    BY <2>1, <2>2, SendBackType, ForwardType DEF DispatchCommand, SendNothing, r
  <2>3. CASE DispatchActivateModule
    BY <2>1, <2>3, SendBackType, ForwardType DEF DispatchActivateModule, SendNothing, r
  <2>4. CASE DispatchActivateAll
    <3>1. Awaited \in Int
      <4>1. Cardinality(Mods) \in Nat
        BY ChannelsAssumption, FS_CardinalityType DEF ChannelsAssumption
      <4>. QED  BY <4>1 DEF Awaited
    <3>. QED
      BY <2>1, <2>4, <3>1, SendBackType, ForwardType DEF DispatchActivateAll, SendNothing, r
  <2>5. CASE DispatchDeactivate
    <3>1. Without(r.mod, r.hid) \in [Mods -> SUBSET Handlers]
      BY DEF Without
    <3>. QED  BY <2>1, <2>5, <3>1, SendBackType DEF DispatchDeactivate, r
  <2>6. CASE DispatchDescribe
    BY <2>1, <2>6, SendBackType DEF DispatchDescribe, r
  <2>7. CASE DispatchQuit
    <3>1. Without(All, r.hid) \in [Mods -> SUBSET Handlers]
      BY DEF Without
    <3>. QED  BY <2>1, <2>7, <3>1 DEF DispatchQuit, r
  <2>8. CASE DispatchUnexpected
    BY <2>1, <2>8 DEF DispatchUnexpected, dispVars
  <2>. QED
    BY <1>2, <2>2, <2>3, <2>4, <2>5, <2>6, <2>7, <2>8 DEF DispatchRequest
<1>3. CASE RouteReply
  <2>. DEFINE e == Head(replies)
  <2>1. ASSUME TakeReply
        PROVE  /\ e \in ModReply
               /\ e.from \in Mods
               /\ e.to # Nobody => e.to \in Handlers
               /\ replies' \in Seq(ModReply)
               /\ connections' \in Seq(Handlers)
               /\ requests' \in Seq(Request)
               /\ modq' \in [Mods -> Seq(Request)]
               /\ InitialUpdates(e) \in Seq(Message)
               /\ Append(InitialUpdates(e), Answer(e, "active")) \in Seq(Message)
    <3>1. e \in ModReply  BY <2>1, RepliesType
    <3>2. Append(InitialUpdates(e), Answer(e, "active")) \in Seq(Message)
      BY <3>1, InitialUpdatesType, AnswerType, AppendProperties
    <3>3. e.from \in Mods /\ (e.to # Nobody => e.to \in Handlers)
      BY <3>1 DEF ModReply
    <3>. QED  BY <2>1, <3>1, <3>2, <3>3, RepliesType, InitialUpdatesType
  <2>. HIDE DEF e
  <2>2. CASE RouteDescription
    BY <2>1, <2>2 DEF RouteDescription, e
  <2>3. CASE RouteEvent
    <3>1. Relay(e) \in Message
      BY <2>1, <2>3, RelayType DEF RouteEvent, e
    <3>2. \A h \in Handlers : Append(outbox[h], Relay(e)) \in Seq(Message)
      BY <3>1, AppendProperties
    <3>. QED  BY <2>1, <2>3, <3>2 DEF RouteEvent, e
  <2>4. CASE RouteInitUpdates
    BY <2>1, <2>4, SendBackType DEF RouteInitUpdates, e
  <2>5. CASE RouteInitUpdatesAll
    <3>1. remaining' \in Int
      <4>1. remaining' = remaining - 1
        BY <2>5, Zenon DEF RouteInitUpdatesAll, Countdown
      <4>. QED  BY <4>1
    <3>2. e.to \in Handlers
      BY <2>1, <2>5 DEF RouteInitUpdatesAll, e
    <3>3. active' \in [Mods -> SUBSET Handlers]
      BY <2>5, <3>2 DEF RouteInitUpdatesAll, e
    <3>4. outbox' \in [Handlers -> Seq(Message)] /\ discarded' \in SUBSET Handlers
      BY <2>1, <2>5, <3>2, SendBackType DEF RouteInitUpdatesAll, SendNothing, e
    <3>. QED  BY <2>1, <2>5, <3>1, <3>3, <3>4 DEF RouteInitUpdatesAll
  <2>6. CASE RouteAnswer
    <3>1. <<Relay(e)>> \in Seq(Message)
      BY <2>1, <2>6, RelayType DEF RouteAnswer, e
    <3>. QED  BY <2>1, <2>6, <3>1, SendBackType DEF RouteAnswer, e
  <2>. QED  BY <1>3, <2>2, <2>3, <2>4, <2>5, <2>6 DEF RouteReply
<1>. QED  BY <1>1, <1>2, <1>3 DEF DispatcherNext

\* Every kind of message a module sends is a typed one.
LEMMA MessagesType ==
    ASSUME NEW m \in Mods, NEW v \in Vals \cup {NoVal}, NEW r \in Request,
           NEW kind \in {"update", "changed", "done", "error", "initupdates"}
    PROVE  /\ Event(m, v) \in ModReply
           /\ Reply(m, r, kind, v) \in ModReply
           /\ Refusal(m, r) \in ModReply
           /\ Report(m, r, kind, v) \in ModReply
BY DEF Event, Reply, Refusal, Report, Request, ModReply, Names

LEMMA AnnounceType ==
    ASSUME NEW m \in Mods, NEW old, NEW new \in Vals
    PROVE  Announce(m, old, new) \in Seq(ModReply)
<1>1. Event(m, new) \in ModReply
  BY DEF Event, ModReply, Names
<1>. QED  BY <1>1 DEF Announce

LEMMA DescriptionType ==
    ASSUME NEW m \in Mods
    PROVE  Description(m) \in Seq(ModReply)
<1>1. [to |-> Nobody, id |-> 0, from |-> m, mod |-> m,
       kind |-> "describing", val |-> NoVal] \in ModReply
  BY DEF ModReply, Names
<1>. QED  BY <1>1 DEF Description

LEMMA SendType ==
    ASSUME NodeTypes, NEW es \in Seq(ModReply), Send(es)
    PROVE  replies' \in Seq(ModReply)
BY ConcatProperties DEF Send, NodeTypes, ChannelsTypeOK

LEMMA TakeModRequestType ==
    ASSUME NodeTypes, NEW m \in Mods, NEW kind, TakeModRequest(m, kind)
    PROVE  /\ Head(modq[m]) \in Request
           /\ modq' \in [Mods -> Seq(Request)]
<1>1. Head(modq[m]) \in Request /\ Tail(modq[m]) \in Seq(Request)
  BY TakeType DEF TakeModRequest, NodeTypes, ChannelsTypeOK
<1>. QED  BY <1>1 DEF TakeModRequest, NodeTypes, ChannelsTypeOK

\* Initialising the parameter: values and events are typed.
LEMMA InitialType ==
    ASSUME NodeTypes, NEW m \in Mods
    PROVE  /\ InitialValue(m) \in Vals
           /\ InitialEvents(m) \in Seq(ModReply)
           /\ InitialEvents(m) \o Description(m) \in Seq(ModReply)
           /\ InitialWrite(m) => hw' \in [Mods -> Vals]
<1>1. InitialValue(m) \in Vals
  BY ModuleAssumption DEF ModuleAssumption, InitialValue, NodeTypes, ModuleTypeOK
<1>2. InitialEvents(m) \in Seq(ModReply)
  BY <1>1, AnnounceType DEF InitialEvents
<1>3. InitialWrite(m) => hw' \in [Mods -> Vals]
  BY ModuleAssumption DEF ModuleAssumption, InitialWrite, Written, NodeTypes, ModuleTypeOK
<1>. QED  BY <1>1, <1>2, <1>3, DescriptionType, ConcatProperties

\* A step of a module.
LEMMA ModuleType ==
    ASSUME NodeTypes, NEW m \in Mods, ModuleNext(m)
    PROVE  ChannelsTypeOK' /\ ModuleTypeOK'
<1>. USE DEF NodeTypes, ChannelsTypeOK, ModuleTypeOK
<1>. DEFINE r == Head(modq[m])
<1>0. ASSUME NEW kind, TakeModRequest(m, kind)
      PROVE  /\ r \in Request
             /\ modq' \in [Mods -> Seq(Request)]
             /\ <<Refusal(m, r)>> \in Seq(ModReply)
  <2>1. r \in Request  BY <1>0, TakeModRequestType
  <2>2. Refusal(m, r) \in ModReply  BY <2>1, MessagesType
  <2>. QED  BY <1>0, <2>1, <2>2, TakeModRequestType
<1>1. CASE StartOk(m)
  BY <1>1, InitialType, SendType DEF StartOk, Cached
<1>2. CASE StartFails(m)
  BY <1>2, InitialType, SendType DEF StartFails
<1>3. CASE HandleRead(m)
  <2>. DEFINE v == IF Class[m] = "sw" THEN cache[m] ELSE hw[m]
  <2>1. v \in Vals  OBVIOUS
  <2>2. r \in Request  BY <1>0, <1>3 DEF HandleRead
  <2>3. Announce(m, cache[m], v) \o <<Report(m, r, "update", v)>> \in Seq(ModReply)
    <3>1. Report(m, r, "update", v) \in ModReply  BY <2>1, <2>2, MessagesType
    <3>2. <<Report(m, r, "update", v)>> \in Seq(ModReply)  BY <3>1
    <3>. QED  BY <2>1, <3>2, AnnounceType, ConcatProperties
  <2>. QED  BY <1>0, <1>3, <2>1, <2>3, SendType DEF HandleRead, TakeModRequest, Cached
<1>4. CASE HandleChange(m)
  <2>1. r \in Request  BY <1>0, <1>4 DEF HandleChange
  <2>2. ASSUME r.val \in Representable
        PROVE  /\ r.val \in Vals
               /\ Announce(m, cache[m], r.val) \o <<Reply(m, r, "changed", r.val)>>
                    \in Seq(ModReply)
               /\ Announce(m, cache[m], r.val) \o <<Refusal(m, r)>> \in Seq(ModReply)
    <3>1. r.val \in Vals  BY <2>2, ModuleAssumption DEF ModuleAssumption
    <3>2. <<Reply(m, r, "changed", r.val)>> \in Seq(ModReply)
      <4>1. Reply(m, r, "changed", r.val) \in ModReply  BY <2>1, <3>1, MessagesType
      <4>. QED  BY <4>1
    <3>3. <<Refusal(m, r)>> \in Seq(ModReply)  BY <1>0, <1>4 DEF HandleChange
    <3>. QED  BY <3>1, <3>2, <3>3, AnnounceType, ConcatProperties
  <2>. QED
    BY <1>0, <1>4, <2>2, SendType DEF HandleChange, TakeModRequest, Cached, Written
<1>5. CASE HandleDo(m)
  <2>1. <<Reply(m, r, "done", NoVal)>> \in Seq(ModReply)
    <3>1. Reply(m, r, "done", NoVal) \in ModReply
      BY <1>0, <1>5, MessagesType DEF HandleDo
    <3>. QED  BY <3>1
  <2>. QED  BY <1>0, <1>5, <2>1, SendType DEF HandleDo, TakeModRequest, Written
<1>6. CASE HandleActivate(m)
  <2>. DEFINE v == IF cache[m] \in Representable THEN cache[m] ELSE NoVal
  <2>1. <<Reply(m, r, "initupdates", v)>> \in Seq(ModReply)
    <3>1. v \in Vals \cup {NoVal}  OBVIOUS
    <3>2. Reply(m, r, "initupdates", v) \in ModReply
      BY <1>0, <1>6, <3>1, MessagesType DEF HandleActivate
    <3>. QED  BY <3>2
  <2>. QED  BY <1>0, <1>6, <2>1, SendType DEF HandleActivate, TakeModRequest
<1>7. CASE Poll(m)
  <2>1. Announce(m, cache[m], hw[m]) \in Seq(ModReply)  BY AnnounceType
  <2>. QED  BY <1>7, <2>1, SendType DEF Poll, Cached
<1>8. CASE Panic(m)
  <2>1. modq[m] # <<>> => Tail(modq[m]) \in Seq(Request)  BY TakeType
  <2>. QED  BY <1>8, <2>1 DEF Panic
<1>9. CASE Drain(m)
  BY <1>9 DEF Drain
<1>10. CASE Wake(m)
  BY <1>10 DEF Wake, chanVars
<1>11. CASE HardwareDrift(m)
  BY <1>11 DEF HardwareDrift, Written, chanVars
<1>. QED
  BY <1>1, <1>2, <1>3, <1>4, <1>5, <1>6, <1>7, <1>8, <1>9, <1>10, <1>11
  DEF ModuleNext, HandleRequest

-----------------------------------------------------------------------------
(* The shapes of the steps *)

\* What module m sends by itself: events and its description.
Emissions(m) ==
    {e \in ModReply : /\ e.to = Nobody /\ e.id = 0 /\ e.from = m /\ e.mod = m
                      /\ e.kind \in {"update", "describing"}}

\* The answers module m may give to request r.
AnswersOf(m, r) ==
    {e \in ModReply : /\ e.to = r.hid /\ e.id = r.id /\ e.from = m /\ e.mod = r.mod
                      /\ e.kind # "describing"
                      /\ e.kind = "initupdates" <=> r.kind = "activate"
                      /\ e.kind = "update" => r.kind = "read"}

TakesNothing(m) == modq' = modq
TakesFirst(m) == modq[m] # <<>> /\ modq' = [modq EXCEPT ![m] = Tail(@)]
TakesAll(m) == modq' = [modq EXCEPT ![m] = <<>>]

\* A step of module m in which no request is answered.
Emits(m) ==
    /\ \E es \in Seq(Emissions(m)) : replies' = replies \o es
    /\ TakesNothing(m) \/ TakesFirst(m) \/ TakesAll(m)
    /\ UNCHANGED <<connections, requests, outbox>>

\* A step of module m that answers its first request, after events.
AnswersFirst(m) ==
    /\ mstate[m] = "running"
    /\ TakesFirst(m)
    /\ \E es \in Seq(Emissions(m)), e \in AnswersOf(m, Head(modq[m])) :
         replies' = replies \o (es \o <<e>>)
    /\ UNCHANGED <<connections, requests, outbox>>

LEMMA EmissionsShape ==
    ASSUME NEW m \in Mods
    PROVE  /\ \A old, new : new \in Vals => Announce(m, old, new) \in Seq(Emissions(m))
           /\ Description(m) \in Seq(Emissions(m))
           /\ <<>> \in Seq(Emissions(m))
<1>1. ASSUME NEW old, NEW new \in Vals
      PROVE  Announce(m, old, new) \in Seq(Emissions(m))
  <2>1. Event(m, new) \in Emissions(m)
    BY DEF Event, Emissions, ModReply, Names
  <2>. QED  BY <2>1 DEF Announce
<1>2. Description(m) \in Seq(Emissions(m))
  <2>1. [to |-> Nobody, id |-> 0, from |-> m, mod |-> m,
         kind |-> "describing", val |-> NoVal] \in Emissions(m)
    BY DEF Emissions, ModReply, Names
  <2>. QED  BY <2>1 DEF Description
<1>. QED  BY <1>1, <1>2

LEMMA InitialShape ==
    ASSUME NodeTypes, NEW m \in Mods
    PROVE  /\ InitialEvents(m) \in Seq(Emissions(m))
           /\ InitialEvents(m) \o Description(m) \in Seq(Emissions(m))
<1>1. InitialEvents(m) \in Seq(Emissions(m))
  BY InitialType, EmissionsShape DEF InitialEvents
<1>. QED  BY <1>1, EmissionsShape, ConcatProperties

LEMMA EmissionsAreReplies ==
    ASSUME NEW m, NEW es \in Seq(Emissions(m))
    PROVE  es \in Seq(ModReply) /\ Every(es, Emissions(m))
<1>1. Emissions(m) \subseteq ModReply
  BY DEF Emissions
<1>. QED  BY <1>1, SeqMonotonic, ElementOfSeq DEF Every

\* Every step of a module is of one of the two shapes.
LEMMA ModuleShape ==
    ASSUME NodeTypes, NEW m \in Mods, ModuleNext(m)
    PROVE  Emits(m) \/ AnswersFirst(m)
<1>. DEFINE r == Head(modq[m])
<1>1. ASSUME NEW kind, TakeModRequest(m, kind)
      PROVE  /\ r \in Request /\ r.kind = kind
             /\ mstate[m] = "running" /\ TakesFirst(m)
             /\ UNCHANGED <<connections, requests, outbox>>
  BY <1>1, TakeModRequestType DEF TakeModRequest, TakesFirst
<1>. HIDE DEF r
<1>2. ASSUME NEW kind, TakeModRequest(m, kind), NEW es \in Seq(Emissions(m)),
             NEW e \in AnswersOf(m, r), Send(es \o <<e>>) \/ (es = <<>> /\ Send(<<e>>))
      PROVE  AnswersFirst(m)
  <2>1. es = <<>> => es \o <<e>> = <<e>>
    OBVIOUS
  <2>2. replies' = replies \o (es \o <<e>>)
    BY <1>2, <2>1 DEF Send
  <2>. QED  BY <1>1, <1>2, <2>2 DEF AnswersFirst, r
<1>3. ASSUME r \in Request, NEW kind \in {"update", "changed", "done", "error", "initupdates"},
             NEW v \in Vals \cup {NoVal},
             kind = "initupdates" <=> r.kind = "activate",
             kind = "update" => r.kind = "read"
      PROVE  Reply(m, r, kind, v) \in AnswersOf(m, r)
  <2>1. Reply(m, r, kind, v) \in ModReply  BY <1>3, MessagesType
  <2>. QED  BY <1>3, <2>1 DEF Reply, AnswersOf
<1>4. ASSUME r \in Request, r.kind # "activate"
      PROVE  Refusal(m, r) \in AnswersOf(m, r)
  BY <1>3, <1>4 DEF Refusal
<1>5. CASE StartOk(m)
  BY <1>5, InitialShape DEF StartOk, Send, Emits, TakesNothing
<1>6. CASE StartFails(m)
  <2>1. replies' = replies \/ replies' = replies \o InitialEvents(m)
    BY <1>6 DEF StartFails, Send
  <2>2. replies \o <<>> = replies
    BY ConcatEmptySeq DEF NodeTypes, ChannelsTypeOK
  <2>3. \E es \in Seq(Emissions(m)) : replies' = replies \o es
    BY <2>1, <2>2, InitialShape, EmissionsShape
  <2>. QED  BY <1>6, <2>3 DEF StartFails, Emits, TakesNothing
<1>7. CASE HandleRead(m)
  <2>. DEFINE v == IF Class[m] = "sw" THEN cache[m] ELSE hw[m]
  <2>1. TakeModRequest(m, "read") /\ r \in Request /\ r.kind = "read"
    BY <1>1, <1>7 DEF HandleRead
  <2>2. v \in Vals  BY DEF NodeTypes, ModuleTypeOK
  <2>3. \/ Send(<<Refusal(m, r)>>)
        \/ Send(Announce(m, cache[m], v) \o <<Report(m, r, "update", v)>>)
    BY <1>7 DEF HandleRead, r
  <2>. HIDE DEF v
  <2>4. Refusal(m, r) \in AnswersOf(m, r) /\ Report(m, r, "update", v) \in AnswersOf(m, r)
    BY <1>3, <1>4, <2>1, <2>2 DEF Report
  <2>. QED  BY <1>2, <2>1, <2>2, <2>3, <2>4, EmissionsShape
<1>8. CASE HandleChange(m)
  <2>1. TakeModRequest(m, "change") /\ r \in Request /\ r.kind = "change"
    BY <1>1, <1>8 DEF HandleChange
  <2>2. Refusal(m, r) \in AnswersOf(m, r)
    BY <1>4, <2>1
  <2>3. CASE Send(<<Refusal(m, r)>>)
    BY <1>2, <2>1, <2>2, <2>3, EmissionsShape
  <2>4. CASE /\ r.val \in Representable
             /\ \/ Send(Announce(m, cache[m], r.val) \o <<Reply(m, r, "changed", r.val)>>)
                \/ Send(Announce(m, cache[m], r.val) \o <<Refusal(m, r)>>)
    <3>1. r.val \in Vals  BY <2>4, ModuleAssumption DEF ModuleAssumption
    <3>2. Reply(m, r, "changed", r.val) \in AnswersOf(m, r)
      BY <1>3, <2>1, <3>1
    <3>. QED  BY <1>2, <2>1, <2>2, <2>4, <3>1, <3>2, EmissionsShape
  <2>. QED  BY <1>8, <2>3, <2>4 DEF HandleChange, r
<1>9. CASE HandleDo(m)
  <2>1. TakeModRequest(m, "do") /\ r \in Request /\ r.kind = "do"
    BY <1>1, <1>9 DEF HandleDo
  <2>2. Refusal(m, r) \in AnswersOf(m, r) /\ Reply(m, r, "done", NoVal) \in AnswersOf(m, r)
    BY <1>3, <1>4, <2>1
  <2>3. Send(<<Refusal(m, r)>>) \/ Send(<<Reply(m, r, "done", NoVal)>>)
    BY <1>9 DEF HandleDo, r
  <2>. QED  BY <1>2, <2>1, <2>2, <2>3, EmissionsShape
<1>10. CASE HandleActivate(m)
  <2>. DEFINE v == IF cache[m] \in Representable THEN cache[m] ELSE NoVal
  <2>1. TakeModRequest(m, "activate") /\ r \in Request /\ r.kind = "activate"
    BY <1>1, <1>10 DEF HandleActivate
  <2>2. v \in Vals \cup {NoVal}  BY DEF NodeTypes, ModuleTypeOK
  <2>3. Send(<<Reply(m, r, "initupdates", v)>>)
    BY <1>10 DEF HandleActivate, r
  <2>. HIDE DEF v
  <2>4. Reply(m, r, "initupdates", v) \in AnswersOf(m, r)
    BY <1>3, <2>1, <2>2
  <2>. QED  BY <1>2, <2>1, <2>3, <2>4, EmissionsShape
<1>11. CASE Poll(m)
  <2>1. Announce(m, cache[m], hw[m]) \in Seq(Emissions(m))
    BY EmissionsShape DEF NodeTypes, ModuleTypeOK
  <2>. QED  BY <1>11, <2>1 DEF Poll, Send, Emits, TakesNothing
<1>12. CASE Panic(m) \/ Drain(m) \/ Wake(m) \/ HardwareDrift(m)
  <2>1. /\ replies' = replies
        /\ TakesNothing(m) \/ TakesFirst(m) \/ TakesAll(m)
        /\ UNCHANGED <<connections, requests, outbox>>
    BY <1>12
    DEF Panic, Drain, Wake, HardwareDrift, chanVars, TakesNothing, TakesFirst, TakesAll
  <2>2. replies \o <<>> = replies
    BY ConcatEmptySeq DEF NodeTypes, ChannelsTypeOK
  <2>. QED  BY <2>1, <2>2, EmissionsShape DEF Emits
<1>. QED
  BY <1>5, <1>6, <1>7, <1>8, <1>9, <1>10, <1>11, <1>12 DEF ModuleNext, HandleRequest

\* Request r is forwarded: to its module, or, as a global activation, to all.
Forwards(r) ==
    /\ \E S \in SUBSET Mods :
         /\ Forward(S, r)
         /\ \/ /\ S = {r.mod} /\ r.kind \in ModuleRequests \cup {"activate"}
               /\ remaining' = remaining
            \/ /\ S = Mods /\ r.mod = All /\ r.kind = "activate"
               /\ ~Busy /\ remaining' = Awaited
    /\ UNCHANGED <<outbox, discarded, active, handlers>>

\* The dispatcher answers request r itself.
AnswersItself(r) ==
    /\ \E kind \in {"error", "inactive", "describing"} :
         /\ SendBack(r.hid, <<Answer(r, kind)>>)
         /\ \/ kind = "error" /\ r.mod \notin Mods /\ active' = active
            \/ kind = "describing" /\ r.kind = "describe" /\ active' = active
            \/ /\ kind = "inactive" /\ r.kind = "deactivate"
               /\ active' = Without(r.mod, r.hid)
    /\ r.kind # "quit"
    /\ UNCHANGED <<modq, handlers, remaining>>

\* Nobody is told anything of request r.
TakesSilently(r) ==
    /\ r.kind \in {"quit", "ping"}
    /\ handlers' \subseteq handlers
    /\ active' \in {active, Without(All, r.hid)}
    /\ UNCHANGED <<modq, outbox, remaining, discarded>>

\* Every step of the dispatcher that takes a request is of one of these shapes.
LEMMA RequestShape ==
    ASSUME NodeTypes, DispatchRequest
    PROVE  /\ requests # <<>> /\ Head(requests) \in Request
           /\ requests' = Tail(requests)
           /\ UNCHANGED <<connections, replies, described>>
           /\ \/ Forwards(Head(requests))
              \/ AnswersItself(Head(requests))
              \/ TakesSilently(Head(requests))
<1>. DEFINE r == Head(requests)
            taken == /\ requests # <<>> /\ r \in Request
                     /\ requests' = Tail(requests)
                     /\ UNCHANGED <<connections, replies, described>>
<1>1. ASSUME NEW kinds, TakeRequest(kinds), described' = described
      PROVE  taken /\ r.kind \in kinds
  BY <1>1, RequestsType DEF TakeRequest
<1>. HIDE DEF r
<1>2. CASE DispatchCommand
  <2>1. taken /\ r.kind \in ModuleRequests
    BY <1>1, <1>2 DEF DispatchCommand
  <2>2. CASE r.mod \in Mods /\ Forward({r.mod}, r) /\ SendNothing
    BY <1>2, <2>1, <2>2 DEF DispatchCommand, Forwards, SendNothing, r
  <2>3. CASE r.mod \notin Mods /\ SendBack(r.hid, <<Answer(r, "error")>>) /\ modq' = modq
    <3>1. r.kind # "quit"  BY <2>1 DEF ModuleRequests
    <3>. QED  BY <1>2, <2>1, <2>3, <3>1 DEF DispatchCommand, AnswersItself, r
  <2>. QED  BY <1>2, <2>1, <2>2, <2>3 DEF DispatchCommand, r
<1>3. CASE DispatchActivateModule
  <2>1. taken /\ r.kind = "activate"
    BY <1>1, <1>3 DEF DispatchActivateModule
  <2>2. CASE r.mod \in Mods /\ Forward({r.mod}, r) /\ SendNothing
    BY <1>3, <2>1, <2>2 DEF DispatchActivateModule, Forwards, SendNothing, r
  <2>3. CASE r.mod \notin Mods /\ SendBack(r.hid, <<Answer(r, "error")>>) /\ modq' = modq
    BY <1>3, <2>1, <2>3 DEF DispatchActivateModule, AnswersItself, r
  <2>. QED  BY <1>3, <2>1, <2>2, <2>3 DEF DispatchActivateModule, r
<1>4. CASE DispatchActivateAll
  <2>1. taken /\ r.kind = "activate"
    BY <1>1, <1>4 DEF DispatchActivateAll
  <2>2. /\ r.mod = All /\ r.mod \notin Mods
        /\ UNCHANGED <<handlers, active, described>>
    BY <1>4, ChannelsAssumption DEF ChannelsAssumption, DispatchActivateAll, r
  <2>3. CASE ~Busy /\ Forward(Mods, r) /\ remaining' = Awaited /\ SendNothing
    BY <2>1, <2>2, <2>3 DEF Forwards, SendNothing, r
  <2>4. CASE /\ SendBack(r.hid, <<Answer(r, "error")>>)
             /\ UNCHANGED <<modq, remaining>>
    BY <2>1, <2>2, <2>4 DEF AnswersItself, r
  <2>. QED  BY <1>4, <2>3, <2>4 DEF DispatchActivateAll, r
<1>5. CASE DispatchDeactivate
  <2>1. taken /\ r.kind = "deactivate"
    BY <1>1, <1>5 DEF DispatchDeactivate
  <2>2. CASE /\ active' = Without(r.mod, r.hid)
             /\ SendBack(r.hid, <<Answer(r, "inactive")>>)
    BY <1>5, <2>1, <2>2 DEF DispatchDeactivate, AnswersItself, r
  <2>3. CASE /\ r.mod \notin Mods \cup {All}
             /\ SendBack(r.hid, <<Answer(r, "error")>>)
             /\ active' = active
    BY <1>5, <2>1, <2>3 DEF DispatchDeactivate, AnswersItself, r
  <2>. QED  BY <1>5, <2>2, <2>3 DEF DispatchDeactivate, r
<1>6. CASE DispatchDescribe
  <2>1. taken /\ r.kind = "describe"
    BY <1>1, <1>6 DEF DispatchDescribe
  <2>. QED  BY <1>6, <2>1 DEF DispatchDescribe, AnswersItself, r
<1>7. CASE DispatchQuit
  <2>1. taken /\ r.kind = "quit"
    BY <1>1, <1>7 DEF DispatchQuit
  <2>. QED  BY <1>7, <2>1 DEF DispatchQuit, TakesSilently, r
<1>8. CASE DispatchUnexpected
  <2>1. taken /\ r.kind = "ping"
    BY <1>1, <1>8 DEF DispatchUnexpected, dispVars
  <2>. QED  BY <1>8, <2>1 DEF DispatchUnexpected, dispVars, TakesSilently, r
<1>. QED
  BY <1>2, <1>3, <1>4, <1>5, <1>6, <1>7, <1>8 DEF DispatchRequest, r

\* The messages a client may be told because of reply e.
Tellings(e) ==
    {x \in Message : /\ x.id = e.id
                     /\ \/ x.mod = e.from /\ x.kind \notin {"active", "inactive", "pong"}
                        \/ x.mod = e.mod /\ x.kind = "active"}

\* Of reply e a client is told nothing, or one message, or an update and then
\* that the activation is done.
TellsOf(e, ms) ==
    /\ ms \in Seq(Tellings(e))
    /\ \/ ms = <<>>
       \/ \E x \in Tellings(e) : ms = <<x>>
       \/ \E x, y \in Tellings(e) : /\ ms = <<x, y>>
                                    /\ x.kind = "update" /\ y.kind = "active"

LEMMA InitialTellings ==
    ASSUME NEW e \in ModReply
    PROVE  /\ TellsOf(e, InitialUpdates(e))
           /\ TellsOf(e, Append(InitialUpdates(e), Answer(e, "active")))
<1>. DEFINE x == [kind |-> "update", mod |-> e.from, val |-> e.val, id |-> e.id]
            y == Answer(e, "active")
<1>1. x \in Tellings(e) /\ x.kind = "update"
  BY DEF Tellings, ModReply, Message, Names
<1>2. y \in Tellings(e) /\ y.kind = "active"
  BY AnswerType DEF Answer, Tellings
<1>. HIDE DEF x, y
<1>3. InitialUpdates(e) \in {<<>>, <<x>>}
  BY DEF InitialUpdates, x
<1>4. Append(<<>>, y) = <<y>> /\ Append(<<x>>, y) = <<x, y>>
  BY ShortAppend
<1>5. TellsOf(e, <<>>) /\ TellsOf(e, <<x>>) /\ TellsOf(e, <<y>>) /\ TellsOf(e, <<x, y>>)
  <2>1. /\ <<>> \in Seq(Tellings(e)) /\ <<x>> \in Seq(Tellings(e))
        /\ <<y>> \in Seq(Tellings(e)) /\ <<x, y>> \in Seq(Tellings(e))
    BY <1>1, <1>2
  <2>. QED  BY <1>1, <1>2, <2>1, Zenon DEF TellsOf
<1>. QED  BY <1>3, <1>4, <1>5 DEF y

\* A reply that is not addressed to anybody tells only events.
RoutesEvent(e) ==
    /\ e.to = Nobody
    /\ \/ outbox' = outbox
       \/ /\ e.kind = "update"
          /\ \E S \in SUBSET Handlers :
               outbox' = [h \in Handlers |-> IF h \in S THEN Append(outbox[h], Relay(e))
                                                        ELSE outbox[h]]

RoutesAnswer(e) ==
    /\ e.to \in Handlers
    /\ \E ms : /\ TellsOf(e, ms)
               /\ outbox' \in {outbox, [outbox EXCEPT ![e.to] = @ \o ms]}

LEMMA SendBackShape ==
    ASSUME NEW h, NEW ms, SendBack(h, ms)
    PROVE  outbox' \in {outbox, [outbox EXCEPT ![h] = @ \o ms]}
BY DEF SendBack

\* Every step of the dispatcher that takes a reply is of one of these shapes.
LEMMA ReplyShape ==
    ASSUME NodeTypes, RouteReply
    PROVE  /\ replies # <<>> /\ Head(replies) \in ModReply
           /\ replies' = Tail(replies)
           /\ UNCHANGED <<connections, requests, modq, handlers>>
           /\ RoutesEvent(Head(replies)) \/ RoutesAnswer(Head(replies))
<1>. DEFINE e == Head(replies)
            taken == /\ replies # <<>> /\ e \in ModReply
                     /\ replies' = Tail(replies)
                     /\ UNCHANGED <<connections, requests, modq, handlers>>
<1>1. ASSUME TakeReply, handlers' = handlers
      PROVE  taken /\ (e.to # Nobody => e.to \in Handlers)
  BY <1>1, RepliesType DEF TakeReply, ModReply
<1>. HIDE DEF e
<1>2. CASE RouteDescription
  <2>1. taken /\ e.to = Nobody
    BY <1>1, <1>2 DEF RouteDescription, e
  <2>. QED  BY <1>2, <2>1 DEF RouteDescription, RoutesEvent, e
<1>3. CASE RouteEvent
  <2>1. taken /\ e.to = Nobody /\ e.kind = "update"
    BY <1>1, <1>3 DEF RouteEvent, e
  <2>2. active[e.from] \cap handlers \in SUBSET Handlers
    BY DEF NodeTypes, DispatcherTypeOK
  <2>. QED  BY <1>3, <2>1, <2>2 DEF RouteEvent, RoutesEvent, e
<1>4. CASE RouteInitUpdates
  <2>1. taken /\ e.to \in Handlers
    BY <1>1, <1>4 DEF RouteInitUpdates, e
  <2>2. SendBack(e.to, Append(InitialUpdates(e), Answer(e, "active")))
    BY <1>4 DEF RouteInitUpdates, e
  <2>. QED  BY <2>1, <2>2, SendBackShape, InitialTellings DEF RoutesAnswer, e
<1>5. CASE RouteInitUpdatesAll
  <2>1. taken /\ e.to \in Handlers
    BY <1>1, <1>5 DEF RouteInitUpdatesAll, e
  <2>2. \/ SendBack(e.to, Append(InitialUpdates(e), Answer(e, "active")))
        \/ SendBack(e.to, InitialUpdates(e))
        \/ outbox' = outbox
    BY <1>5, Zenon DEF RouteInitUpdatesAll, SendNothing, e
  <2>. QED  BY <2>1, <2>2, SendBackShape, InitialTellings DEF RoutesAnswer, e
<1>6. CASE RouteAnswer
  <2>1. taken /\ e.to \in Handlers /\ e.kind # "initupdates"
    BY <1>1, <1>6 DEF RouteAnswer, e
  <2>2. Relay(e) \in Tellings(e)
    <3>1. Relay(e) \in Message  BY <2>1, RelayType
    <3>. QED  BY <2>1, <3>1 DEF Relay, Tellings, ModReply
  <2>3. TellsOf(e, <<Relay(e)>>)
    BY <2>2 DEF TellsOf
  <2>4. SendBack(e.to, <<Relay(e)>>)
    BY <1>6 DEF RouteAnswer, e
  <2>. QED  BY <2>1, <2>3, <2>4, SendBackShape DEF RoutesAnswer, e
<1>. QED
  BY <1>2, <1>3, <1>4, <1>5, <1>6 DEF RouteReply, e
==============================================================================
