---------------------------- MODULE LinesProofs -----------------------------
(***************************************************************************)
(* Proofs about the receiving thread of a connection, for two lines of any *)
(* width and chunks of any size.                                           *)
(***************************************************************************)
EXTENDS Lines, FiniteSetTheorems, SequenceTheorems, WellFoundedInduction, TLAPS

-----------------------------------------------------------------------------
(* The bytes of a line                                                      *)

Byte == {CR, LF} \cup [line : Lines, at : Nat, of : Nat]

LEMMA BytesFacts ==
    ASSUME NEW s \in Sendable
    PROVE  LET b == Bytes(s)
           IN  /\ b \in Seq(Byte)
               /\ Len(b) = s.width + (IF s.cr THEN 2 ELSE 1)
               /\ \A i \in 1..s.width : b[i] = [line |-> s.line, at |-> i, of |-> s.width]
               /\ s.cr => b[s.width + 1] = CR
               /\ \A i \in 1..Len(b) : b[i] = LF <=> i = Len(b)
<1>. DEFINE w == s.width
            t == [i \in 1..w |-> [line |-> s.line, at |-> i, of |-> w]]
            e == IF s.cr THEN <<CR>> ELSE <<>>
            b == Bytes(s)
<1>1. w \in Nat /\ s.line \in Lines /\ s.cr \in BOOLEAN
  BY DEF Sendable
<1>2. /\ t \in Seq(Byte) /\ Len(t) = w
      /\ \A i \in 1..w : t[i] = [line |-> s.line, at |-> i, of |-> w]
  <2>1. \A i \in 1..w : [line |-> s.line, at |-> i, of |-> w] \in Byte
    BY <1>1 DEF Byte
  <2>. HIDE DEF w
  <2>2. t \in Seq(Byte)
    BY <1>1, <2>1, IsASeq
  <2>3. Len(t) = w
    BY <1>1, <2>2, LenProperties
  <2>. QED  BY <2>2, <2>3
<1>3. /\ e \in Seq(Byte) /\ Len(e) = (IF s.cr THEN 1 ELSE 0)
      /\ s.cr => e[1] = CR
  <2>1. /\ <<CR>> \in Seq(Byte) /\ Len(<<CR>>) = 1 /\ <<CR>>[1] = CR
        /\ <<>> \in Seq(Byte) /\ Len(<<>>) = 0
    BY DEF Byte
  <2>2. CASE s.cr
    BY <2>1, <2>2
  <2>3. CASE ~s.cr
    BY <2>1, <2>3
  <2>. QED  BY <2>2, <2>3
<1>4. <<LF>> \in Seq(Byte) /\ Len(<<LF>>) = 1 /\ <<LF>>[1] = LF
  BY DEF Byte
<1>5. b = (t \o e) \o <<LF>>
  BY DEF Bytes
<1>. HIDE DEF t, e, w, b
<1>6. /\ t \o e \in Seq(Byte) /\ Len(t \o e) = w + Len(e)
      /\ \A i \in 1..w : (t \o e)[i] = t[i]
      /\ s.cr => (t \o e)[w + 1] = CR
  <2>1. /\ t \o e \in Seq(Byte) /\ Len(t \o e) = w + Len(e)
        /\ \A i \in 1..(w + Len(e)) : (t \o e)[i] = IF i <= w THEN t[i] ELSE e[i - w]
    BY <1>2, <1>3, ConcatProperties
  <2>2. 1..w \subseteq 1..(w + Len(e)) /\ (s.cr => w + 1 \in 1..(w + Len(e)))
    BY <1>1, <1>3
  <2>3. w + 1 > w /\ (w + 1) - w = 1 /\ \A i \in 1..w : i <= w
    BY <1>1
  <2>4. \A i \in 1..w : (t \o e)[i] = t[i]
    BY <2>1, <2>2, <2>3
  <2>5. ASSUME s.cr PROVE (t \o e)[w + 1] = CR
    <3>1. w + 1 \in 1..(w + Len(e)) /\ ~(w + 1 <= w)
      BY <1>1, <2>2, <2>5
    <3>2. (t \o e)[w + 1] = e[(w + 1) - w]
      BY <2>1, <3>1
    <3>. QED  BY <1>3, <2>3, <2>5, <3>2
  <2>. QED  BY <2>1, <2>4, <2>5
<1>7. /\ b \in Seq(Byte) /\ Len(b) = w + Len(e) + 1
      /\ \A i \in 1..(w + Len(e)) : b[i] = (t \o e)[i]
      /\ b[w + Len(e) + 1] = LF
  <2>. DEFINE u == t \o e
              k == w + Len(e)
  <2>1. k \in Nat /\ u \in Seq(Byte) /\ Len(u) = k /\ b = u \o <<LF>>
    BY <1>1, <1>3, <1>5, <1>6
  <2>. HIDE DEF u, k
  <2>2. /\ b \in Seq(Byte) /\ Len(b) = k + 1
        /\ \A i \in 1..(k + 1) : b[i] = IF i <= k THEN u[i] ELSE <<LF>>[i - k]
    BY <1>4, <2>1, ConcatProperties
  <2>3. \A i \in 1..k : b[i] = u[i]
    BY <2>1, <2>2
  <2>4. b[k + 1] = LF
    <3>1. k + 1 \in 1..(k + 1) /\ ~(k + 1 <= k) /\ (k + 1) - k = 1
      BY <2>1
    <3>. QED  BY <1>4, <2>2, <3>1
  <2>. QED  BY <2>2, <2>3, <2>4 DEF u, k
<1>8. \A i \in 1..w : [line |-> s.line, at |-> i, of |-> w] # LF
  BY <1>1 DEF LF
<1>9. CR # LF
  BY DEF CR, LF
<1>10. Len(b) = w + (IF s.cr THEN 2 ELSE 1)
  BY <1>1, <1>3, <1>7
<1>11. \A i \in 1..w : b[i] = [line |-> s.line, at |-> i, of |-> w]
  <2>. SUFFICES ASSUME NEW i \in 1..w
                PROVE  b[i] = [line |-> s.line, at |-> i, of |-> w]
    OBVIOUS
  <2>1. i \in 1..(w + Len(e))
    BY <1>1, <1>3
  <2>2. b[i] = (t \o e)[i]
    BY <1>7, <2>1
  <2>3. (t \o e)[i] = t[i]
    BY <1>6
  <2>. QED  BY <1>2, <2>2, <2>3
<1>12. s.cr => b[w + 1] = CR
  BY <1>1, <1>3, <1>6, <1>7
<1>13. b[Len(b)] = LF
  BY <1>7
<1>14. ASSUME NEW i \in 1..Len(b), i # Len(b) PROVE b[i] # LF
  <2>1. i \in 1..w \/ (s.cr /\ i = w + 1)
    BY <1>1, <1>10, <1>14
  <2>. QED  BY <1>8, <1>9, <1>11, <1>12, <2>1
<1>. QED  BY <1>7, <1>10, <1>11, <1>12, <1>13, <1>14 DEF w, b

LEMMA PairCardinality ==
    ASSUME NEW x, NEW y, x # y
    PROVE  Cardinality({x}) = 1 /\ Cardinality({x, y}) = 2
<1>1. IsFiniteSet({x}) /\ Cardinality({x}) = 1
  BY FS_Singleton
<1>2. {x, y} = {x} \cup {y} /\ y \notin {x}
  OBVIOUS
<1>3. Cardinality({x} \cup {y}) = Cardinality({x}) + 1
  BY <1>1, <1>2, FS_AddElement
<1>4. 1 + 1 = 2
  OBVIOUS
<1>. QED  BY <1>1, <1>2, <1>3, <1>4, Zenon

\* The largest of some numbers that are not larger than n.
LEMMA MaxFacts ==
    ASSUME NEW n \in Nat, NEW S, S # {}, S \subseteq 0..n
    PROVE  Max(S) \in S /\ \A x \in S : x <= Max(S)
<1>. DEFINE D == {n - x : x \in S}
            R == OpToRel(<, Nat)
<1>1. D \in SUBSET Nat /\ D # {}
  <2>1. \A x \in S : n - x \in Nat
    OBVIOUS
  <2>. QED  BY <2>1
<1>2. \A a, b \in Nat : a < b => <<a, b>> \in R
  BY DEF OpToRel
<1>3. IsWellFoundedOn(R, Nat)
  BY NatLessThanWellFounded
<1>. HIDE DEF R
<1>4. PICK d \in D : \A c \in D : <<c, d>> \notin R
  BY <1>1, <1>3, WFMin
<1>5. PICK x \in S : d = n - x
  OBVIOUS
<1>6. \A y \in S : ~(n - y < d)
  BY <1>1, <1>2, <1>4
<1>7. \A y \in S : x >= y
  BY <1>5, <1>6
<1>8. Max(S) \in S /\ \A y \in S : Max(S) >= y
  BY <1>7 DEF Max
<1>. QED  BY <1>8

LEMMA MaxIs ==
    ASSUME NEW n \in Nat, NEW S, n \in S, S \subseteq 0..n
    PROVE  Max(S) = n
<1>1. Max(S) \in S /\ n <= Max(S)
  BY MaxFacts
<1>2. Max(S) \in 0..n
  BY <1>1
<1>. QED  BY <1>1, <1>2

\* t is the text that line s is drawn out over.
IsText(t, s) ==
    /\ t \in Seq(Byte) /\ Len(t) = Len(Bytes(s)) - 1
    /\ \A i \in 1..Len(t) : t[i] = Bytes(s)[i]

LEMMA TextMeansLine ==
    ASSUME NEW s \in Sendable, NEW t, IsText(t, s)
    PROVE  MessageOf(TrimEnd(t)) = Parse(s.line)
<1>. DEFINE w == s.width
            r == TrimEnd(t)
            b == Bytes(s)
<1>1. w \in Nat \ {0}
  BY DEF Sendable
<1>2. /\ Len(b) = w + (IF s.cr THEN 2 ELSE 1)
      /\ \A i \in 1..w : b[i] = [line |-> s.line, at |-> i, of |-> w]
      /\ s.cr => b[w + 1] = CR
  BY BytesFacts
<1>. HIDE DEF w, b
<1>3. /\ t \in Seq(Byte) /\ Len(t) = w + (IF s.cr THEN 1 ELSE 0)
      /\ \A i \in 1..w : t[i] = [line |-> s.line, at |-> i, of |-> w]
      /\ s.cr => t[w + 1] = CR
  <2>1. /\ t \in Seq(Byte) /\ Len(t) = Len(b) - 1
        /\ \A i \in 1..Len(t) : t[i] = b[i]
    BY DEF IsText, b
  <2>2. Len(t) = w + (IF s.cr THEN 1 ELSE 0)
    BY <1>1, <1>2, <2>1
  <2>3. \A i \in 1..w : i \in 1..Len(t)
    BY <1>1, <2>2
  <2>4. s.cr => w + 1 \in 1..Len(t)
    BY <1>1, <2>2
  <2>. QED  BY <1>2, <2>1, <2>2, <2>3, <2>4
<1>4. \A i \in 1..w : [line |-> s.line, at |-> i, of |-> w] # CR
  BY <1>1 DEF CR
<1>5. Max({0} \cup {i \in DOMAIN t : t[i] # CR}) = w
  <2>. DEFINE S == {0} \cup {i \in DOMAIN t : t[i] # CR}
  <2>1. DOMAIN t = 1..Len(t)
    BY <1>3, LenProperties
  <2>2. w \in S
    <3>1. w \in 1..w /\ w \in 1..Len(t)
      BY <1>1, <1>3
    <3>2. t[w] # CR
      BY <1>3, <1>4, <3>1
    <3>. QED  BY <2>1, <3>1, <3>2
  <2>7. ASSUME NEW i \in DOMAIN t, t[i] # CR PROVE i \in 1..w
    BY <1>1, <1>3, <2>1, <2>7
  <2>3. S \subseteq 0..w
    BY <1>1, <2>7
  <2>. HIDE DEF S
  <2>6. Max(S) = w
    BY <1>1, <2>2, <2>3, MaxIs
  <2>. QED  BY <2>6 DEF S
<1>6. r = SubSeq(t, 1, w)
  BY <1>5 DEF TrimEnd
<1>7. /\ r \in Seq(Byte) /\ Len(r) = w
      /\ \A i \in 1..w : r[i] = [line |-> s.line, at |-> i, of |-> w]
  <2>1. 1 \in 1..(Len(t) + 1) /\ w \in 0..Len(t)
    BY <1>1, <1>3
  <2>2. r \in Seq(Byte) /\ Len(r) = w /\ \A i \in 1..w : r[i] = t[i]
    BY <1>1, <1>3, <1>6, <2>1, SubSeqProperties
  <2>. QED  BY <1>3, <2>2
<1>. HIDE DEF r
<1>8. DOMAIN r = 1..w
  BY <1>7, LenProperties
<1>9. CR \notin ToSet(r)
  BY <1>4, <1>7, <1>8 DEF ToSet
<1>10. 1 \in 1..w /\ r[1].line = s.line
  BY <1>1, <1>7
<1>11. r # <<>>
  BY <1>1, <1>7
<1>12. MessageOf(r) = Parse(r[1].line)
  BY <1>7, <1>8, <1>9, <1>10, <1>11 DEF MessageOf
<1>. QED  BY <1>10, <1>12 DEF r

-----------------------------------------------------------------------------
(* Cutting lines out of the buffer                                          *)

LEMMA NoFeed ==
    ASSUME NEW b \in Seq(Byte), Feeds(b) = {}
    PROVE  WholeLines(b) = <<>> /\ Unfinished(b) = b
<1>1. Cardinality(Feeds(b)) = 0
  BY FS_EmptySet
<1>2. WholeLines(b) = <<>>
  BY <1>1 DEF WholeLines
<1>3. Max({0} \cup Feeds(b)) = 0
  <2>1. {0} \cup Feeds(b) = {0} /\ {0} \subseteq 0..0 /\ {0} # {} /\ 0 \in Nat
    OBVIOUS
  <2>2. Max({0}) \in {0}
    BY <2>1, MaxFacts
  <2>. QED  BY <2>1, <2>2
<1>4. SubSeq(b, 1, Len(b)) = b
  BY SubSeqFull
<1>. QED  BY <1>2, <1>3, <1>4 DEF Unfinished

LEMMA OneFeed ==
    ASSUME NEW b \in Seq(Byte), NEW f \in 1..Len(b), Feeds(b) = {f}
    PROVE  /\ WholeLines(b) = <<SubSeq(b, 1, f - 1)>>
           /\ Unfinished(b) = SubSeq(b, f + 1, Len(b))
<1>1. Cardinality(Feeds(b)) = 1
  BY FS_Singleton
<1>2. Feed(b, 1) = f
  <2>1. {j \in {f} : j <= f} = {f}
    OBVIOUS
  <2>. QED  BY <1>1, <2>1 DEF Feed
<1>3. WholeLines(b) = <<SubSeq(b, 1, f - 1)>>
  <2>. DEFINE x == SubSeq(b, 1, f - 1)
              at(k) == SubSeq(b, IF k = 1 THEN 1 ELSE Feed(b, k - 1) + 1, Feed(b, k) - 1)
  <2>1. WholeLines(b) = [k \in 1..1 |-> at(k)]
    BY <1>1 DEF WholeLines
  <2>2. at(1) = x
    BY <1>2
  <2>. HIDE DEF at, x
  <2>3. [k \in 1..1 |-> at(k)] = <<x>>
    BY <2>2
  <2>. QED  BY <2>1, <2>3 DEF x
<1>4. Max({0} \cup Feeds(b)) = f
  <2>. DEFINE S == {0} \cup Feeds(b)
  <2>1. S # {} /\ S \subseteq 0..f /\ f \in Nat /\ f \in S
    BY LenProperties
  <2>. HIDE DEF S
  <2>3. Max(S) = f
    BY <2>1, MaxIs
  <2>. QED  BY <2>3 DEF S
<1>. QED  BY <1>3, <1>4 DEF Unfinished

LEMMA TwoFeeds ==
    ASSUME NEW b \in Seq(Byte), NEW f \in 1..Len(b), NEW g \in 1..Len(b), f < g,
           Feeds(b) = {f, g}
    PROVE  /\ WholeLines(b) = <<SubSeq(b, 1, f - 1), SubSeq(b, f + 1, g - 1)>>
           /\ Unfinished(b) = SubSeq(b, g + 1, Len(b))
<1>1. Cardinality({f, g}) = 2 /\ Cardinality({f}) = 1
  <2>1. f # g
    OBVIOUS
  <2>. QED  BY <2>1, PairCardinality
<1>2. {j \in {f, g} : j <= f} = {f} /\ {j \in {f, g} : j <= g} = {f, g}
  OBVIOUS
<1>3. Feed(b, 1) = f /\ Feed(b, 2) = g
  <2>. DEFINE c(i) == Cardinality({j \in {f, g} : j <= i})
  <2>1. c(f) = 1 /\ c(g) = 2
    BY <1>1, <1>2
  <2>2. \A k : Feed(b, k) = CHOOSE i \in {f, g} : c(i) = k
    BY DEF Feed
  <2>. HIDE DEF c
  <2>3. (CHOOSE i \in {f, g} : c(i) = 1) = f
    BY <2>1
  <2>4. (CHOOSE i \in {f, g} : c(i) = 2) = g
    BY <2>1
  <2>. QED  BY <2>2, <2>3, <2>4
<1>4. WholeLines(b) = [k \in 1..2 |-> SubSeq(b, IF k = 1 THEN 1 ELSE Feed(b, k - 1) + 1, Feed(b, k) - 1)]
  BY <1>1 DEF WholeLines
<1>5. WholeLines(b) = <<SubSeq(b, 1, f - 1), SubSeq(b, f + 1, g - 1)>>
  <2>. DEFINE x == SubSeq(b, 1, f - 1)
              y == SubSeq(b, f + 1, g - 1)
              u == [k \in 1..2 |-> SubSeq(b, IF k = 1 THEN 1 ELSE Feed(b, k - 1) + 1, Feed(b, k) - 1)]
  <2>1. u[1] = x /\ u[2] = y
    BY <1>3
  <2>2. u = [k \in 1..2 |-> u[k]]
    OBVIOUS
  <2>. HIDE DEF u, x, y
  <2>3. u = <<x, y>>
    <3>1. u = [k \in 1..2 |-> IF k = 1 THEN x ELSE y]
      BY <2>1, <2>2
    <3>. QED  BY <3>1
  <2>. QED  BY <1>4, <2>3 DEF u, x, y
<1>6. Max({0} \cup Feeds(b)) = g
  <2>. DEFINE S == {0} \cup Feeds(b)
  <2>1. S # {} /\ S \subseteq 0..g /\ g \in Nat /\ g \in S
    BY LenProperties
  <2>. HIDE DEF S
  <2>3. Max(S) = g
    BY <2>1, MaxIs
  <2>. QED  BY <2>3 DEF S
<1>. QED  BY <1>5, <1>6 DEF Unfinished

-----------------------------------------------------------------------------
(* What is made of up to two messages                                       *)

LEMMA FlattenFew ==
    ASSUME NEW S, NEW x \in Seq(S), NEW y \in Seq(S)
    PROVE  /\ FlattenSeq(<<>>) = <<>>
           /\ FlattenSeq(<<x>>) = x
           /\ FlattenSeq(<<x, y>>) = x \o y
<1>1. FlattenSeq(<<>>) = <<>>
  BY DEF FlattenSeq
<1>2. FlattenSeq(<<x>>) = x
  <2>. DEFINE P(f) == f = [i \in 1..1 |-> IF i = 1 THEN <<x>>[i] ELSE f[i - 1] \o <<x>>[i]]
              f == CHOOSE g : P(g)
  <2>1. P([i \in 1..1 |-> x])
    OBVIOUS
  <2>2. P(f)
    BY <2>1
  <2>. HIDE DEF f
  <2>3. f[1] = x
    BY <2>2
  <2>4. FlattenSeq(<<x>>) = f[1]
    BY DEF FlattenSeq, f
  <2>. QED  BY <2>3, <2>4
<1>3. FlattenSeq(<<x, y>>) = x \o y
  <2>. DEFINE s == <<x, y>>
              P(f) == f = [i \in 1..2 |-> IF i = 1 THEN s[i] ELSE f[i - 1] \o s[i]]
              f == CHOOSE g : P(g)
              w == [i \in 1..2 |-> IF i = 1 THEN x ELSE x \o y]
  <2>0. s[1] = x /\ s[2] = y /\ Len(s) = 2
    OBVIOUS
  <2>. HIDE DEF s
  <2>1. P(w)
    BY <2>0
  <2>2. P(f)
    BY <2>1
  <2>3. FlattenSeq(s) = f[2]
    BY <2>0 DEF FlattenSeq
  <2>. HIDE DEF f
  <2>4. f = [i \in 1..2 |-> IF i = 1 THEN s[i] ELSE f[i - 1] \o s[i]]
    BY <2>2
  <2>. HIDE DEF P
  <2>5. f[1] = s[1]
    BY <2>4
  <2>7. 2 - 1 = 1 /\ 2 # 1 /\ 2 \in 1..2
    OBVIOUS
  <2>6. f[2] = f[2 - 1] \o s[2]
    BY <2>4, <2>7, Zenon
  <2>8. f[2] = x \o y
    BY <2>0, <2>5, <2>6, <2>7, Zenon
  <2>. QED  BY <2>3, <2>8 DEF s
<1>. QED  BY <1>1, <1>2, <1>3

\* The messages and replies there are.
Parsed == {Parse(l) : l \in Lines}

Messages == Parsed \cup {Quit}

Replies ==
    {Error, [kind |-> IdentReply]}
      \cup {[kind |-> "pong", spec |-> m.spec, data |-> Time] :
               m \in {n \in Parsed : n # Error /\ n.kind = "ping"}}

LEMMA PartsType ==
    ASSUME NEW m \in Parsed
    PROVE  Forwarded(m) \in Seq(Messages) /\ LocalAnswer(m) \in Seq(Replies)
<1>1. Forwarded(m) \in Seq(Messages)
  BY DEF Forwarded, Messages
<1>2. \A r \in Replies : <<r>> \in Seq(Replies)
  OBVIOUS
<1>3. <<>> \in Seq(Replies)
  OBVIOUS
<1>4. Error \in Replies /\ [kind |-> IdentReply] \in Replies
  BY DEF Replies
<1>5. \/ LocalAnswer(m) = <<>>
      \/ LocalAnswer(m) = <<Error>>
      \/ LocalAnswer(m) = <<[kind |-> IdentReply]>>
      \/ /\ m # Error /\ m.kind = "ping"
         /\ LocalAnswer(m) = <<[kind |-> "pong", spec |-> m.spec, data |-> Time]>>
  <2>1. Error.kind = "no message"
    BY DEF Error
  <2>2. CASE m = Error
    BY <2>1, <2>2 DEF LocalAnswer
  <2>3. CASE m # Error /\ m.kind = "ping"
    BY <2>3 DEF LocalAnswer
  <2>4. CASE m # Error /\ m.kind = "*IDN?"
    BY <2>4 DEF LocalAnswer
  <2>5. CASE m # Error /\ m.kind # "ping" /\ m.kind # "*IDN?"
    BY <2>5 DEF LocalAnswer
  <2>. QED  BY <2>2, <2>3, <2>4, <2>5
<1>6. m # Error /\ m.kind = "ping" => [kind |-> "pong", spec |-> m.spec, data |-> Time] \in Replies
  BY DEF Replies
<1>. QED  BY <1>1, <1>2, <1>3, <1>4, <1>5, <1>6

LEMMA FewMessages ==
    ASSUME NEW m \in Parsed, NEW n \in Parsed
    PROVE  /\ AllForwarded(<<>>) = <<>> /\ AllAnswered(<<>>) = <<>>
           /\ AllForwarded(<<m>>) = Forwarded(m) /\ AllAnswered(<<m>>) = LocalAnswer(m)
           /\ AllForwarded(<<m, n>>) = Forwarded(m) \o Forwarded(n)
           /\ AllAnswered(<<m, n>>) = LocalAnswer(m) \o LocalAnswer(n)
<1>. DEFINE F(s) == [i \in DOMAIN s |-> Forwarded(s[i])]
            A(s) == [i \in DOMAIN s |-> LocalAnswer(s[i])]
<1>1. /\ Forwarded(m) \in Seq(Messages) /\ LocalAnswer(m) \in Seq(Replies)
      /\ Forwarded(n) \in Seq(Messages) /\ LocalAnswer(n) \in Seq(Replies)
  BY PartsType
<1>2. F(<<>>) = <<>> /\ A(<<>>) = <<>>
  OBVIOUS
<1>3. F(<<m>>) = <<Forwarded(m)>> /\ A(<<m>>) = <<LocalAnswer(m)>>
  OBVIOUS
<1>4. F(<<m, n>>) = <<Forwarded(m), Forwarded(n)>> /\ A(<<m, n>>) = <<LocalAnswer(m), LocalAnswer(n)>>
  OBVIOUS
<1>5. \A s : AllForwarded(s) = FlattenSeq(F(s)) /\ AllAnswered(s) = FlattenSeq(A(s))
  BY DEF AllForwarded, AllAnswered
<1>. HIDE DEF F, A
<1>. QED  BY <1>1, <1>2, <1>3, <1>4, <1>5, FlattenFew

-----------------------------------------------------------------------------
(* What has been received                                                   *)

All == Bytes(sent[1]) \o Bytes(sent[2])

First == Len(Bytes(sent[1]))

Whole == Len(All)

Got == Whole - Len(stream)

\* Of the first q bytes: the lines that end in them, and where the last of
\* these ends.
DoneAt(q) == IF q < First THEN 0 ELSE IF q < Whole THEN 1 ELSE 2

BeginAt(q) == IF q < First THEN 0 ELSE IF q < Whole THEN First ELSE Whole

Received(k) == [i \in 1..k |-> Parse(sent[i].line)]

TwoSent == sent = <<sent[1], sent[2]>> /\ sent[1] \in Sendable /\ sent[2] \in Sendable

LinesInv ==
    /\ TwoSent
    /\ Len(stream) \in 0..Whole
    /\ stream = SubSeq(All, Got + 1, Whole)
    /\ buf = SubSeq(All, BeginAt(Got) + 1, Got)
    /\ forwarded = AllForwarded(Received(DoneAt(Got))) \o (IF open THEN <<>> ELSE <<Quit>>)
    /\ answered = AllAnswered(Received(DoneAt(Got)))
    /\ widest \in 0..(MaxMsgLen + RecvBufLen - 1)
    /\ open => Len(buf) <= MaxMsgLen

LEMMA AllFacts ==
    ASSUME TwoSent
    PROVE  /\ All \in Seq(Byte)
           /\ First \in Nat /\ First >= 2 /\ Whole = First + Len(Bytes(sent[2])) /\ Whole >= First + 2
           /\ Whole \in Nat
           /\ \A i \in 1..Whole : All[i] = LF <=> (i = First \/ i = Whole)
           /\ \A i \in 1..First : All[i] = Bytes(sent[1])[i]
           /\ \A i \in 1..Len(Bytes(sent[2])) : All[First + i] = Bytes(sent[2])[i]
<1>. DEFINE a == Bytes(sent[1])
            b == Bytes(sent[2])
            n == Len(a)
            k == Len(b)
            c == All
<1>1. /\ a \in Seq(Byte) /\ n \in Nat /\ n >= 2 /\ \A i \in 1..n : a[i] = LF <=> i = n
      /\ b \in Seq(Byte) /\ k \in Nat /\ k >= 2 /\ \A i \in 1..k : b[i] = LF <=> i = k
  BY BytesFacts, LenProperties DEF TwoSent, Sendable
<1>2. c = a \o b /\ First = n /\ Whole = Len(c)
  BY DEF All, First, Whole
<1>. HIDE DEF a, b, c
<1>3. /\ c \in Seq(Byte) /\ Len(c) = n + k
      /\ \A i \in 1..(n + k) : c[i] = IF i <= n THEN a[i] ELSE b[i - n]
  BY <1>1, <1>2, ConcatProperties
<1>. HIDE DEF n, k
<1>4. \A i \in 1..n : c[i] = a[i]
  BY <1>1, <1>3
<1>5. ASSUME NEW i \in 1..k PROVE c[n + i] = b[i]
  <2>1. n + i \in 1..(n + k) /\ ~(n + i <= n) /\ (n + i) - n = i
    BY <1>1
  <2>. QED  BY <1>3, <2>1
<1>6. ASSUME NEW i \in 1..(n + k) PROVE c[i] = LF <=> (i = n \/ i = n + k)
  <2>1. CASE i <= n
    <3>1. i \in 1..n /\ i # n + k
      BY <1>1, <2>1
    <3>. QED  BY <1>1, <1>4, <3>1
  <2>2. CASE ~(i <= n)
    <3>1. i - n \in 1..k /\ n + (i - n) = i /\ i # n /\ (i - n = k <=> i = n + k)
      BY <1>1, <2>2
    <3>2. c[i] = b[i - n]
      BY <1>3, <2>2
    <3>. QED  BY <1>1, <3>1, <3>2
  <2>. QED  BY <2>1, <2>2
<1>. QED  BY <1>1, <1>2, <1>3, <1>4, <1>5, <1>6 DEF a, b, c, n, k

\* The bytes from p + 1 to q.
LEMMA PieceFacts ==
    ASSUME TwoSent, NEW p \in 0..Whole, NEW q \in p..Whole
    PROVE  LET b == SubSeq(All, p + 1, q)
           IN  /\ b \in Seq(Byte) /\ Len(b) = q - p
               /\ \A i \in 1..(q - p) : b[i] = All[p + i]
               /\ Feeds(b) = {i \in 1..(q - p) : p + i \in {First, Whole}}
<1>. DEFINE b == SubSeq(All, p + 1, q)
<1>1. All \in Seq(Byte) /\ Whole \in Nat /\ Whole = Len(All)
  BY AllFacts DEF Whole
<1>2. \A i \in (p + 1)..q : i \in 1..Whole
  BY <1>1
<1>3. \A i \in (p + 1)..q : All[i] \in Byte
  BY <1>1, <1>2, ElementOfSeq
<1>4. p + 1 \in Int /\ q \in Int /\ (q - (p + 1)) + 1 = q - p
  BY <1>1
<1>5. /\ b \in Seq(Byte) /\ Len(b) = IF p + 1 <= q THEN q - (p + 1) + 1 ELSE 0
      /\ \A i \in 1 .. q - (p + 1) + 1 : b[i] = All[(p + 1) + i - 1]
  BY <1>3, <1>4, SubSeqProperties
<1>. HIDE DEF b
<1>6. Len(b) = q - p
  BY <1>1, <1>5
<1>7. ASSUME NEW i \in 1..(q - p) PROVE b[i] = All[p + i]
  <2>1. (p + 1) + i - 1 = p + i /\ i \in 1 .. q - (p + 1) + 1
    BY <1>1
  <2>. QED  BY <1>5, <2>1
<1>8. ASSUME NEW i \in 1..(q - p) PROVE b[i] = LF <=> p + i \in {First, Whole}
  <2>1. p + i \in 1..Whole
    BY <1>1
  <2>. QED  BY <1>7, <2>1, AllFacts
<1>9. DOMAIN b = 1..(q - p)
  BY <1>5, <1>6, LenProperties
<1>. QED  BY <1>5, <1>6, <1>7, <1>8, <1>9 DEF Feeds, b

\* The k-th line, which begins after byte f and ends with byte g.
LEMMA TextOfPiece ==
    ASSUME TwoSent, NEW p \in 0..Whole, NEW q \in p..Whole, NEW s \in Sendable,
           NEW f \in p..q, f + Len(Bytes(s)) <= q,
           \A i \in 1..Len(Bytes(s)) : All[f + i] = Bytes(s)[i]
    PROVE  LET t == SubSeq(SubSeq(All, p + 1, q), f - p + 1, f + Len(Bytes(s)) - p - 1)
           IN  MessageOf(TrimEnd(t)) = Parse(s.line)
<1>. DEFINE b == SubSeq(All, p + 1, q)
            n == Len(Bytes(s))
            t == SubSeq(b, f - p + 1, f + n - p - 1)
            u == f - p + 1
            v == f + n - p - 1
<1>1. /\ b \in Seq(Byte) /\ Len(b) = q - p
      /\ \A i \in 1..(q - p) : b[i] = All[p + i]
  BY PieceFacts
<1>2. n \in Nat /\ n >= 2 /\ Whole \in Nat
  <2>1. n = s.width + (IF s.cr THEN 2 ELSE 1)
    BY BytesFacts
  <2>2. s.width \in Nat \ {0} /\ s.cr \in BOOLEAN
    BY DEF Sendable
  <2>3. Whole \in Nat
    BY AllFacts
  <2>. HIDE DEF n
  <2>. QED  BY <2>1, <2>2, <2>3
<1>. HIDE DEF b, n
<1>3. u \in Int /\ v \in Int /\ u <= v /\ v - u + 1 = n - 1
  BY <1>2
<1>4. \A i \in u..v : i \in 1..(q - p)
  BY <1>2 DEF n
<1>5. \A i \in u..v : b[i] \in Byte
  BY <1>1, <1>4, ElementOfSeq
<1>. HIDE DEF u, v
<1>6. /\ SubSeq(b, u, v) \in Seq(Byte) /\ Len(SubSeq(b, u, v)) = n - 1
      /\ \A i \in 1..(n - 1) : SubSeq(b, u, v)[i] = b[u + i - 1]
  BY <1>3, <1>5, SubSeqProperties
<1>. DEFINE w == SubSeq(b, u, v)
<1>. HIDE DEF w
<1>7. ASSUME NEW i \in 1..(n - 1) PROVE w[i] = Bytes(s)[i]
  <2>1. u + i - 1 \in u..v /\ p + (u + i - 1) = f + i
    BY <1>2, <1>3 DEF u
  <2>2. w[i] = b[u + i - 1]
    BY <1>6 DEF w
  <2>3. b[u + i - 1] = All[f + i]
    BY <1>1, <1>4, <2>1
  <2>4. i \in 1..n
    BY <1>2
  <2>. QED  BY <2>2, <2>3, <2>4 DEF n
<1>8. IsText(w, s)
  BY <1>6, <1>7 DEF IsText, w, n
<1>9. MessageOf(TrimEnd(w)) = Parse(s.line)
  BY <1>8, TextMeansLine
<1>. QED  BY <1>9 DEF w, u, v, b, n

LEMMA RestOfPiece ==
    ASSUME TwoSent, NEW p \in 0..Whole, NEW q \in p..Whole, NEW f \in 0..(q - p)
    PROVE  LET b == SubSeq(All, p + 1, q)
           IN  SubSeq(b, f + 1, Len(b)) = SubSeq(All, p + f + 1, q)
<1>. DEFINE b == SubSeq(All, p + 1, q)
            c == SubSeq(All, (p + f) + 1, q)
            d == SubSeq(b, f + 1, q - p)
<1>1. /\ b \in Seq(Byte) /\ Len(b) = q - p
      /\ \A i \in 1..(q - p) : b[i] = All[p + i]
  BY PieceFacts
<1>2. p + f \in 0..Whole /\ q \in (p + f)..Whole /\ Whole \in Nat
  BY AllFacts
<1>3. /\ c \in Seq(Byte) /\ Len(c) = q - (p + f)
      /\ \A i \in 1..(q - (p + f)) : c[i] = All[(p + f) + i]
  BY <1>2, PieceFacts
<1>. HIDE DEF b, c
<1>4. \A i \in (f + 1)..(q - p) : i \in 1..Len(b) /\ b[i] \in Byte
  BY <1>1, <1>2, ElementOfSeq
<1>5. /\ d \in Seq(Byte) /\ Len(d) = IF f + 1 <= q - p THEN (q - p) - (f + 1) + 1 ELSE 0
      /\ \A i \in 1 .. (q - p) - (f + 1) + 1 : d[i] = b[(f + 1) + i - 1]
  BY <1>2, <1>4, SubSeqProperties
<1>. HIDE DEF d
<1>6. Len(d) = Len(c)
  BY <1>2, <1>3, <1>5
<1>7. ASSUME NEW i \in 1..Len(c) PROVE d[i] = c[i]
  <2>1. /\ i \in 1 .. (q - p) - (f + 1) + 1 /\ (f + 1) + i - 1 = f + i
        /\ f + i \in 1..(q - p) /\ p + (f + i) = (p + f) + i /\ i \in 1..(q - (p + f))
    BY <1>2, <1>3
  <2>. QED  BY <1>1, <1>3, <1>5, <2>1
<1>8. d = c
  BY <1>3, <1>5, <1>6, <1>7, SeqEqual
<1>. QED  BY <1>1, <1>8 DEF b, c, d

LEMMA ShorterText ==
    ASSUME NEW b \in Seq(Byte), NEW f \in 1..Len(b), NEW g \in f..Len(b)
    PROVE  LET t == SubSeq(b, f, g - 1)
           IN  Len(t) \in 0..(Len(b) - 1)
<1>1. Len(b) \in Nat
  BY LenProperties
<1>2. \A i \in f..(g - 1) : b[i] \in Byte
  BY <1>1, ElementOfSeq
<1>3. Len(SubSeq(b, f, g - 1)) = IF f <= g - 1 THEN (g - 1) - f + 1 ELSE 0
  BY <1>1, <1>2, SubSeqProperties
<1>. QED  BY <1>1, <1>3

\* What b holds after the bytes to q have come, the ones to p having been
\* processed: the lines that end between the two, and the rest.
Cut(b, p, q) ==
    LET texts == WholeLines(b)
    IN  /\ Unfinished(b) = SubSeq(All, BeginAt(q) + 1, q)
        /\ \A k \in DOMAIN texts : Len(texts[k]) \in 0..(Len(b) - 1)
        /\ DOMAIN texts = 1..(DoneAt(q) - DoneAt(p))
        /\ \A k \in DOMAIN texts : MessageOf(TrimEnd(texts[k])) = Parse(sent[DoneAt(p) + k].line)

LEMMA CutFacts ==
    ASSUME TwoSent, NEW p \in 0..Whole, NEW q \in p..Whole
    PROVE  Cut(SubSeq(All, BeginAt(p) + 1, q), p, q)
<1>. DEFINE r == BeginAt(p)
            b == SubSeq(All, r + 1, q)
<1>1. /\ First \in Nat /\ First >= 2 /\ Whole = First + Len(Bytes(sent[2]))
      /\ Whole >= First + 2 /\ Whole \in Nat
  BY AllFacts
<1>2. r \in 0..Whole /\ q \in r..Whole /\ r <= p
  BY <1>1 DEF BeginAt
<1>3. /\ b \in Seq(Byte) /\ Len(b) = q - r
      /\ Feeds(b) = {i \in 1..(q - r) : r + i \in {First, Whole}}
  BY <1>2, PieceFacts
<1>4. sent[1] \in Sendable /\ sent[2] \in Sendable
  BY DEF TwoSent
<1>5. \A f \in 0..(q - r) : SubSeq(b, f + 1, Len(b)) = SubSeq(All, r + f + 1, q)
  BY <1>2, RestOfPiece
<1>6. ASSUME r = 0, First <= q
      PROVE  MessageOf(TrimEnd(SubSeq(b, 1, First - 1))) = Parse(sent[1].line)
  <2>. DEFINE n == Len(Bytes(sent[1]))
  <2>1. n = First /\ 0 \in r..q /\ \A i \in 1..n : All[0 + i] = Bytes(sent[1])[i]
    BY <1>1, <1>2, <1>6, AllFacts DEF First
  <2>2. 0 - r + 1 = 1 /\ 0 + n - r - 1 = First - 1 /\ 0 + n <= q
    BY <1>1, <1>6, <2>1
  <2>. HIDE DEF b
  <2>3. MessageOf(TrimEnd(SubSeq(b, 0 - r + 1, 0 + n - r - 1))) = Parse(sent[1].line)
    BY <1>2, <1>4, <2>1, <2>2, TextOfPiece DEF b
  <2>. QED  BY <2>2, <2>3
<1>7. ASSUME r <= First, Whole <= q
      PROVE  MessageOf(TrimEnd(SubSeq(b, First - r + 1, Whole - r - 1))) = Parse(sent[2].line)
  <2>. DEFINE n == Len(Bytes(sent[2]))
  <2>1. First + n = Whole /\ First \in r..q /\ \A i \in 1..n : All[First + i] = Bytes(sent[2])[i]
    BY <1>1, <1>2, <1>7, AllFacts
  <2>2. First + n <= q /\ n \in Nat
    BY <1>4, <1>7, <2>1, BytesFacts DEF Sendable
  <2>. HIDE DEF b
  <2>3. MessageOf(TrimEnd(SubSeq(b, First - r + 1, First + n - r - 1))) = Parse(sent[2].line)
    BY <1>2, <1>4, <2>1, <2>2, TextOfPiece DEF b
  <2>. HIDE DEF n
  <2>4. First + n - r - 1 = Whole - r - 1
    BY <1>1, <1>2, <2>1, <2>2
  <2>. QED  BY <2>3, <2>4
<1>. HIDE DEF b
<1>8. CASE DoneAt(q) = DoneAt(p)
  <2>1. Feeds(b) = {}
    BY <1>1, <1>2, <1>3, <1>8 DEF DoneAt, BeginAt
  <2>2. BeginAt(q) = r
    BY <1>1, <1>8 DEF DoneAt, BeginAt
  <2>3. WholeLines(b) = <<>> /\ Unfinished(b) = b
    BY <1>3, <2>1, NoFeed
  <2>4. DOMAIN WholeLines(b) = {} /\ 1..(DoneAt(q) - DoneAt(p)) = {}
    BY <1>8, <2>3 DEF DoneAt
  <2>. QED  BY <2>2, <2>3, <2>4 DEF Cut, b
<1>9. CASE DoneAt(p) = 0 /\ DoneAt(q) = 2
  <2>1. r = 0 /\ q = Whole /\ First <= q /\ BeginAt(q) = Whole
    BY <1>1, <1>9 DEF DoneAt, BeginAt
  <2>2. Feeds(b) = {First, Whole} /\ Len(b) = Whole
    BY <1>1, <1>3, <2>1
  <2>. DEFINE x == SubSeq(b, 1, First - 1)
              y == SubSeq(b, First + 1, Whole - 1)
  <2>3. WholeLines(b) = <<x, y>> /\ Unfinished(b) = SubSeq(b, Whole + 1, Len(b))
    <3>1. First \in 1..Len(b) /\ Whole \in 1..Len(b) /\ First < Whole
      BY <1>1, <2>2
    <3>2. Feeds(b) = {First, Whole} /\ b \in Seq(Byte)
      BY <1>3, <2>2
    <3>. QED  BY <3>1, <3>2, TwoFeeds
  <2>4. Unfinished(b) = SubSeq(All, BeginAt(q) + 1, q)
    <3>1. Whole \in 0..(q - r) /\ r + Whole + 1 = BeginAt(q) + 1
      BY <1>1, <2>1
    <3>. QED  BY <1>5, <2>3, <3>1
  <2>5. MessageOf(TrimEnd(x)) = Parse(sent[1].line) /\ MessageOf(TrimEnd(y)) = Parse(sent[2].line)
    <3>1. First - r + 1 = First + 1 /\ Whole - r - 1 = Whole - 1 /\ r <= First /\ Whole <= q
      BY <1>1, <2>1
    <3>. QED  BY <1>6, <1>7, <2>1, <3>1
  <2>6. Len(x) \in 0..(Len(b) - 1) /\ Len(y) \in 0..(Len(b) - 1)
    <3>1. /\ 1 \in 1..Len(b) /\ First \in 1..Len(b)
          /\ First + 1 \in 1..Len(b) /\ Whole \in (First + 1)..Len(b)
      BY <1>1, <2>2
    <3>. QED  BY <1>3, <3>1, ShorterText
  <2>. HIDE DEF x, y
  <2>7. /\ DOMAIN WholeLines(b) = 1..2 /\ WholeLines(b)[1] = x /\ WholeLines(b)[2] = y
        /\ 1..(DoneAt(q) - DoneAt(p)) = 1..2
    BY <1>9, <2>3
  <2>8. \A k \in 1..2 : \/ k = 1 /\ WholeLines(b)[k] = x /\ DoneAt(p) + k = 1
                        \/ k = 2 /\ WholeLines(b)[k] = y /\ DoneAt(p) + k = 2
    BY <1>9, <2>7
  <2>9. Cut(b, p, q)
    BY <2>4, <2>5, <2>6, <2>7, <2>8 DEF Cut
  <2>. QED  BY <2>9 DEF b
<1>10. ASSUME NEW g \in {First, Whole}, NEW k \in {1, 2}, DoneAt(p) + 1 = k, DoneAt(q) = k,
              k = 1 => g = First, k = 2 => g = Whole
       PROVE  Cut(b, p, q)
  <2>. DEFINE f == g - r
              x == SubSeq(b, 1, f - 1)
  <2>1. /\ k = 1 => r = 0
        /\ k = 2 => r = First
        /\ g <= q /\ BeginAt(q) = g /\ r < g
    BY <1>1, <1>10 DEF DoneAt, BeginAt
  <2>2. f \in 1..Len(b) /\ Feeds(b) = {f}
    <3>1. k = 1 => q < Whole
      BY <1>1, <1>10 DEF DoneAt
    <3>2. f \in 1..(q - r) /\ r + f = g
      BY <1>1, <1>2, <2>1
    <3>3. ASSUME NEW i \in 1..(q - r), r + i \in {First, Whole} PROVE i = f
      <4>1. CASE r + i = g
        <5>1. i \in Int /\ r \in Int /\ f \in Int
          BY <1>1, <1>2, <3>2
        <5>. HIDE DEF f
        <5>. QED  BY <3>2, <4>1, <5>1
      <4>2. CASE r + i # g /\ k = 1
        BY <1>1, <1>2, <1>10, <3>1, <3>3, <4>2
      <4>3. CASE r + i # g /\ k = 2
        BY <1>1, <1>2, <1>10, <2>1, <3>3, <4>3
      <4>. QED  BY <1>10, <4>1, <4>2, <4>3
    <3>4. r + f \in {First, Whole}
      BY <1>10, <3>2
    <3>. QED  BY <1>3, <3>2, <3>3, <3>4
  <2>3. WholeLines(b) = <<x>> /\ Unfinished(b) = SubSeq(b, f + 1, Len(b))
    BY <1>3, <2>2, OneFeed
  <2>4. Unfinished(b) = SubSeq(All, BeginAt(q) + 1, q)
    <3>1. f \in 0..(q - r) /\ r + f + 1 = BeginAt(q) + 1
      <4>1. r \in Nat /\ q \in Nat /\ g \in Nat /\ r < g /\ g <= q
        BY <1>1, <1>2, <1>10, <2>1
      <4>2. f = g - r /\ BeginAt(q) = g
        BY <2>1
      <4>. HIDE DEF f
      <4>. QED  BY <4>1, <4>2
    <3>. QED  BY <1>5, <2>3, <3>1
  <2>5. MessageOf(TrimEnd(x)) = Parse(sent[k].line)
    <3>1. CASE k = 1
      <4>1. f - 1 = First - 1 /\ First <= q /\ r = 0
        BY <1>1, <1>10, <2>1, <3>1
      <4>. QED  BY <1>6, <3>1, <4>1
    <3>2. CASE k = 2
      <4>1. First - r + 1 = 1 /\ Whole - r - 1 = f - 1 /\ r <= First /\ Whole <= q
        BY <1>1, <1>10, <2>1, <3>2
      <4>. QED  BY <1>7, <3>2, <4>1
    <3>. QED  BY <3>1, <3>2
  <2>6. Len(x) \in 0..(Len(b) - 1)
    <3>1. 1 \in 1..Len(b) /\ f \in 1..Len(b)
      BY <1>1, <1>2, <1>3, <2>2
    <3>. QED  BY <1>3, <3>1, ShorterText
  <2>. HIDE DEF x, f
  <2>7. /\ DOMAIN WholeLines(b) = 1..1 /\ WholeLines(b)[1] = x
        /\ 1..(DoneAt(q) - DoneAt(p)) = 1..1
    BY <1>10, <2>3 DEF DoneAt
  <2>. QED  BY <1>10, <2>4, <2>5, <2>6, <2>7 DEF Cut
<1>11. \/ DoneAt(q) = DoneAt(p)
       \/ DoneAt(p) = 0 /\ DoneAt(q) = 2
       \/ DoneAt(p) + 1 = 1 /\ DoneAt(q) = 1
       \/ DoneAt(p) + 1 = 2 /\ DoneAt(q) = 2
  BY <1>1 DEF DoneAt
<1>. QED  BY <1>8, <1>9, <1>10, <1>11 DEF b

-----------------------------------------------------------------------------
(* Every step                                                               *)

\* The lines from the d-th on, to the e-th.
Between(d, e) == [k \in 1..(e - d) |-> Parse(sent[d + k].line)]

LEMMA InParts ==
    ASSUME TwoSent, NEW d \in 0..2, NEW e \in d..2
    PROVE  /\ AllForwarded(Received(e)) \in Seq(Messages)
           /\ AllAnswered(Received(e)) \in Seq(Replies)
           /\ AllForwarded(Received(d)) \o AllForwarded(Between(d, e)) = AllForwarded(Received(e))
           /\ AllAnswered(Received(d)) \o AllAnswered(Between(d, e)) = AllAnswered(Received(e))
<1>. DEFINE m == Parse(sent[1].line)
            n == Parse(sent[2].line)
<1>1. m \in Parsed /\ n \in Parsed
  BY DEF TwoSent, Sendable, Parsed
<1>2. /\ Received(0) = <<>> /\ Received(1) = <<m>> /\ Received(2) = <<m, n>>
      /\ Between(0, 0) = <<>> /\ Between(1, 1) = <<>> /\ Between(2, 2) = <<>>
      /\ Between(0, 1) = <<m>> /\ Between(1, 2) = <<n>> /\ Between(0, 2) = <<m, n>>
  BY DEF Received, Between
<1>. HIDE DEF m, n
<1>3. /\ AllForwarded(<<>>) = <<>> /\ AllAnswered(<<>>) = <<>>
      /\ AllForwarded(<<m>>) = Forwarded(m) /\ AllAnswered(<<m>>) = LocalAnswer(m)
      /\ AllForwarded(<<n>>) = Forwarded(n) /\ AllAnswered(<<n>>) = LocalAnswer(n)
      /\ AllForwarded(<<m, n>>) = Forwarded(m) \o Forwarded(n)
      /\ AllAnswered(<<m, n>>) = LocalAnswer(m) \o LocalAnswer(n)
  BY <1>1, FewMessages
<1>4. /\ Forwarded(m) \in Seq(Messages) /\ Forwarded(n) \in Seq(Messages)
      /\ LocalAnswer(m) \in Seq(Replies) /\ LocalAnswer(n) \in Seq(Replies)
  BY <1>1, PartsType
<1>5. /\ Forwarded(m) \o Forwarded(n) \in Seq(Messages)
      /\ LocalAnswer(m) \o LocalAnswer(n) \in Seq(Replies)
  BY <1>4, ConcatProperties
<1>6. <<>> \in Seq(Messages) /\ <<>> \in Seq(Replies)
  OBVIOUS
<1>7. \A S : \A s \in Seq(S) : <<>> \o s = s /\ s \o <<>> = s
  BY ConcatEmptySeq
<1>8. \/ d = 0 /\ e = 0
      \/ d = 0 /\ e = 1
      \/ d = 0 /\ e = 2
      \/ d = 1 /\ e = 1
      \/ d = 1 /\ e = 2
      \/ d = 2 /\ e = 2
  OBVIOUS
<1>9. CASE d = 0 /\ e = 0
  BY <1>2, <1>3, <1>6, <1>7, <1>9
<1>10. CASE d = 0 /\ e = 1
  <2>1. <<>> \o Forwarded(m) = Forwarded(m) /\ <<>> \o LocalAnswer(m) = LocalAnswer(m)
    BY <1>4, <1>7
  <2>2. /\ Received(d) = <<>> /\ Received(e) = <<m>> /\ Between(d, e) = <<m>>
    BY <1>2, <1>10
  <2>. QED  BY <1>3, <1>4, <2>1, <2>2, Zenon
<1>11. CASE d = 0 /\ e = 2
  BY <1>2, <1>3, <1>5, <1>7, <1>11
<1>12. CASE d = 1 /\ e = 1
  BY <1>2, <1>3, <1>4, <1>7, <1>12
<1>13. CASE d = 1 /\ e = 2
  BY <1>2, <1>3, <1>5, <1>13
<1>14. CASE d = 2 /\ e = 2
  BY <1>2, <1>3, <1>5, <1>7, <1>14
<1>. QED  BY <1>8, <1>9, <1>10, <1>11, <1>12, <1>13, <1>14

LEMMA LinesInit == Init => LinesInv
<1>. SUFFICES ASSUME Init PROVE LinesInv
  OBVIOUS
<1>1. TwoSent
  <2>1. PICK l \in Lines, w \in 1..MaxWidth, c \in BOOLEAN :
          sent = <<[line |-> l, width |-> w, cr |-> c], Second>>
    BY DEF Init
  <2>2. w \in Nat \ {0}
    BY LengthAssumption
  <2>3. [line |-> l, width |-> w, cr |-> c] \in Sendable /\ Second \in Sendable
    BY <2>2, SecondAssumption DEF Sendable
  <2>. QED  BY <2>1, <2>3 DEF TwoSent
<1>2. First >= 2 /\ First \in Nat /\ Whole \in Nat /\ Whole >= First + 2 /\ All \in Seq(Byte)
  BY <1>1, AllFacts
<1>3. stream = All /\ buf = <<>> /\ forwarded = <<>> /\ answered = <<>> /\ widest = 0 /\ open
  BY DEF Init, All
<1>4. Len(stream) = Whole /\ Got = 0 /\ DoneAt(Got) = 0 /\ BeginAt(Got) = 0
  BY <1>2, <1>3 DEF Got, Whole, DoneAt, BeginAt
<1>5. SubSeq(All, 0 + 1, Whole) = All
  BY <1>2, SubSeqFull DEF Whole
<1>6. SubSeq(All, 0 + 1, 0) = <<>>
  BY SubSeqEmpty
<1>7. Received(0) = <<>>
  BY DEF Received
<1>8. AllForwarded(<<>>) = <<>> /\ AllAnswered(<<>>) = <<>>
  <2>1. Parse(sent[1].line) \in Parsed
    BY <1>1 DEF TwoSent, Sendable, Parsed
  <2>. QED  BY <2>1, FewMessages
<1>9. <<>> \o <<>> = <<>>
  OBVIOUS
<1>10. 0 \in 0..(MaxMsgLen + RecvBufLen - 1) /\ Len(buf) <= MaxMsgLen
  BY <1>3, LengthAssumption
<1>. QED  BY <1>1, <1>2, <1>3, <1>4, <1>5, <1>6, <1>7, <1>8, <1>9, <1>10 DEF LinesInv

LEMMA TakeInLines ==
    ASSUME LinesInv, open, NEW n \in 1..Len(stream), n <= RecvBufLen, TakeIn(n), sent' = sent
    PROVE  LinesInv'
<1>. DEFINE p == Got
            q == Got + n
            r == BeginAt(Got)
            c == SubSeq(stream, 1, n)
            b == buf \o c
            texts == WholeLines(b)
            msgs == [k \in DOMAIN texts |-> MessageOf(TrimEnd(texts[k]))]
<1>1. TwoSent /\ Len(stream) \in 0..Whole /\ stream = SubSeq(All, Got + 1, Whole)
  BY DEF LinesInv
<1>2. /\ First \in Nat /\ First >= 2 /\ Whole >= First + 2 /\ Whole \in Nat
      /\ All \in Seq(Byte)
  BY <1>1, AllFacts
<1>3. /\ p \in 0..Whole /\ q \in p..Whole /\ n \in 1..(Whole - p) /\ Len(stream) = Whole - p
  BY <1>1, <1>2 DEF Got
<1>4. r \in 0..p
  BY <1>2, <1>3 DEF BeginAt
<1>5. Len(All) = Whole
  BY DEF Whole
<1>6. c = SubSeq(All, p + 1, q)
  <2>. DEFINE i == p + 1
  <2>1. /\ i \in 1..Len(All) /\ Whole \in 1..Len(All)
        /\ 1 \in 1..(Whole - i + 1) /\ n \in 1..(Whole - i + 1)
        /\ i + 1 - 1 = p + 1 /\ i + n - 1 = q
    BY <1>2, <1>3, <1>5
  <2>. HIDE DEF i
  <2>2. SubSeq(SubSeq(All, i, Whole), 1, n) = SubSeq(All, i + 1 - 1, i + n - 1)
    BY <1>2, <2>1, SubSeqOfSubSeq
  <2>. QED  BY <1>1, <2>1, <2>2 DEF i
<1>7. b = SubSeq(All, r + 1, q)
  <2>1. r + 1 \in 1..(Len(All) + 1) /\ p \in ((r + 1) - 1)..Len(All) /\ q \in p..Len(All)
    BY <1>2, <1>3, <1>4, <1>5
  <2>2. SubSeq(All, r + 1, p) \o SubSeq(All, p + 1, q) = SubSeq(All, r + 1, q)
    BY <1>2, <2>1, ConcatAdjacentSubSeq
  <2>3. buf = SubSeq(All, r + 1, p)
    BY DEF LinesInv
  <2>. QED  BY <1>6, <2>2, <2>3
<1>8. Cut(b, p, q)
  BY <1>1, <1>3, <1>7, CutFacts
<1>9. /\ stream' = SubSeq(stream, n + 1, Len(stream))
      /\ buf' = Unfinished(b)
      /\ widest' = Max({widest} \cup {Len(texts[k]) : k \in DOMAIN texts})
      /\ open' = WithinLimit(Unfinished(b))
      /\ forwarded' = forwarded \o AllForwarded(msgs) \o (IF open' THEN <<>> ELSE <<Quit>>)
      /\ answered' = answered \o AllAnswered(msgs)
  BY DEF TakeIn
<1>10. All' = All /\ First' = First /\ Whole' = Whole /\ TwoSent'
  BY <1>1 DEF All, First, Whole, TwoSent
<1>11. stream' = SubSeq(All, q + 1, Whole)
  BY <1>1, <1>2, <1>3, <1>9, RestOfPiece
<1>12. Len(stream') = Whole - q
  BY <1>1, <1>2, <1>3, <1>11, PieceFacts
<1>13. Got' = q /\ Len(stream') \in 0..Whole
  BY <1>2, <1>3, <1>10, <1>12 DEF Got
<1>14. DoneAt(Got)' = DoneAt(q) /\ BeginAt(Got)' = BeginAt(q)
  BY <1>10, <1>13 DEF DoneAt, BeginAt
<1>15. buf' = SubSeq(All, BeginAt(q) + 1, q)
  BY <1>8, <1>9 DEF Cut
<1>16. msgs = Between(DoneAt(p), DoneAt(q))
  BY <1>8 DEF Cut, Between
<1>17. DoneAt(p) \in 0..2 /\ DoneAt(q) \in DoneAt(p)..2
  BY <1>2, <1>3 DEF DoneAt
<1>18. Received(DoneAt(Got))' = Received(DoneAt(q))
  BY <1>14 DEF Received
<1>19. /\ AllForwarded(Received(DoneAt(Got)))' = AllForwarded(Received(DoneAt(q)))
       /\ AllAnswered(Received(DoneAt(Got)))' = AllAnswered(Received(DoneAt(q)))
  BY <1>18 DEF AllForwarded, AllAnswered
<1>20. /\ AllForwarded(Received(DoneAt(p))) \in Seq(Messages)
       /\ AllForwarded(Received(DoneAt(p))) \o AllForwarded(msgs) = AllForwarded(Received(DoneAt(q)))
       /\ AllAnswered(Received(DoneAt(p))) \o AllAnswered(msgs) = AllAnswered(Received(DoneAt(q)))
  <2>1. DoneAt(p) \in DoneAt(p)..2
    BY <1>17
  <2>. HIDE DEF p, q, msgs
  <2>. QED  BY <1>1, <1>16, <1>17, <2>1, InParts
<1>21. /\ forwarded = AllForwarded(Received(DoneAt(p))) \o <<>>
       /\ answered = AllAnswered(Received(DoneAt(p)))
  BY DEF LinesInv
<1>22. forwarded = AllForwarded(Received(DoneAt(p)))
  BY <1>20, <1>21, ConcatEmptySeq
<1>23. /\ forwarded' = AllForwarded(Received(DoneAt(Got)))' \o (IF open' THEN <<>> ELSE <<Quit>>)
       /\ answered' = AllAnswered(Received(DoneAt(Got)))'
  BY <1>9, <1>19, <1>20, <1>21, <1>22
<1>24. Len(b) \in 0..(MaxMsgLen + RecvBufLen)
  <2>1. /\ Len(SubSeq(All, r + 1, p)) = p - r
        /\ Len(SubSeq(All, r + 1, q)) = q - r
    <3>1. r \in 0..Whole /\ p \in r..Whole /\ q \in r..Whole
      BY <1>2, <1>3, <1>4
    <3>. QED  BY <1>1, <3>1, PieceFacts
  <2>2. Len(buf) = p - r /\ Len(buf) <= MaxMsgLen
    BY <2>1 DEF LinesInv
  <2>3. Len(b) = q - r /\ Len(buf) = p - r /\ q = p + n
    BY <1>7, <2>1, <2>2
  <2>4. n \in 1..RecvBufLen /\ p \in Nat /\ r \in Nat /\ r <= p
    BY <1>2, <1>3, <1>4
  <2>. HIDE DEF b, p, q, r
  <2>. QED  BY <2>2, <2>3, <2>4, LengthAssumption
<1>25. widest' \in 0..(MaxMsgLen + RecvBufLen - 1)
  <2>. DEFINE S == {widest} \cup {Len(texts[k]) : k \in DOMAIN texts}
              l == MaxMsgLen + RecvBufLen - 1
  <2>1. \A k \in DOMAIN texts : Len(texts[k]) \in 0..(Len(b) - 1)
    BY <1>8 DEF Cut
  <2>2. 0..(Len(b) - 1) \subseteq 0..l /\ l \in Nat
    BY <1>24, LengthAssumption
  <2>3. widest \in 0..l
    BY DEF LinesInv
  <2>4. S \subseteq 0..l /\ S # {}
    BY <2>1, <2>2, <2>3
  <2>. HIDE DEF S, l
  <2>5. Max(S) \in S
    BY <2>2, <2>4, MaxFacts
  <2>6. Max(S) \in 0..l
    BY <2>4, <2>5
  <2>. QED  BY <1>9, <2>6 DEF S, l
<1>26. open' => Len(buf') <= MaxMsgLen
  BY <1>9 DEF WithinLimit
<1>. HIDE DEF texts, msgs, b, c
<1>. QED  BY <1>10, <1>11, <1>13, <1>14, <1>15, <1>23, <1>25, <1>26 DEF LinesInv

LEMMA LinesStep == LinesInv /\ [Next]_lineVars => LinesInv'
<1>. SUFFICES ASSUME LinesInv, [Next]_lineVars PROVE LinesInv'
  OBVIOUS
<1>1. CASE ReadChunk
  <2>1. PICK n \in 1..Min({RecvBufLen, Len(stream)}) : TakeIn(n)
    BY <1>1 DEF ReadChunk
  <2>2. open /\ sent' = sent
    BY <1>1 DEF ReadChunk
  <2>3. RecvBufLen \in Nat /\ Len(stream) \in Nat
    <3>1. TwoSent /\ Len(stream) \in 0..Whole
      BY DEF LinesInv
    <3>2. Whole \in Nat
      BY <3>1, AllFacts
    <3>. QED  BY <3>1, <3>2, LengthAssumption
  <2>4. Min({RecvBufLen, Len(stream)}) \in {RecvBufLen, Len(stream)}
          /\ Min({RecvBufLen, Len(stream)}) <= RecvBufLen
          /\ Min({RecvBufLen, Len(stream)}) <= Len(stream)
    BY <2>3 DEF Min
  <2>5. n \in 1..Len(stream) /\ n <= RecvBufLen
    BY <2>3, <2>4
  <2>. QED  BY <2>1, <2>2, <2>5, TakeInLines
<1>2. CASE ReadEnds
  <2>1. /\ open /\ ~open' /\ forwarded' = Append(forwarded, Quit)
        /\ UNCHANGED <<sent, stream, buf, answered, widest>>
    BY <1>2 DEF ReadEnds
  <2>2. /\ Got' = Got /\ All' = All /\ Whole' = Whole /\ TwoSent' = TwoSent
        /\ DoneAt(Got)' = DoneAt(Got) /\ BeginAt(Got)' = BeginAt(Got)
        /\ Received(DoneAt(Got))' = Received(DoneAt(Got))
    BY <2>1 DEF Got, All, Whole, TwoSent, DoneAt, BeginAt, Received, First
  <2>3. /\ AllForwarded(Received(DoneAt(Got)))' = AllForwarded(Received(DoneAt(Got)))
        /\ AllAnswered(Received(DoneAt(Got)))' = AllAnswered(Received(DoneAt(Got)))
    BY <2>2 DEF AllForwarded, AllAnswered
  <2>4. DoneAt(Got) \in 0..2 /\ DoneAt(Got) \in DoneAt(Got)..2
    BY DEF DoneAt
  <2>5. AllForwarded(Received(DoneAt(Got))) \in Seq(Messages)
    BY <2>4, InParts DEF LinesInv
  <2>6. forwarded = AllForwarded(Received(DoneAt(Got)))
    BY <2>1, <2>5, ConcatEmptySeq DEF LinesInv
  <2>7. forwarded' = AllForwarded(Received(DoneAt(Got)))' \o <<Quit>>
    <3>1. Quit \in Messages
      BY DEF Messages
    <3>2. Append(forwarded, Quit) = forwarded \o <<Quit>>
      BY <2>5, <2>6, <3>1, AppendIsConcat
    <3>. QED  BY <2>1, <2>3, <2>6, <3>2
  <2>. QED  BY <2>1, <2>2, <2>3, <2>7 DEF LinesInv
<1>3. CASE UNCHANGED lineVars
  <2>1. /\ Got' = Got /\ All' = All /\ Whole' = Whole /\ TwoSent' = TwoSent
        /\ DoneAt(Got)' = DoneAt(Got) /\ BeginAt(Got)' = BeginAt(Got)
        /\ Received(DoneAt(Got))' = Received(DoneAt(Got))
    BY <1>3 DEF lineVars, Got, All, Whole, TwoSent, DoneAt, BeginAt, Received, First
  <2>2. /\ AllForwarded(Received(DoneAt(Got)))' = AllForwarded(Received(DoneAt(Got)))
        /\ AllAnswered(Received(DoneAt(Got)))' = AllAnswered(Received(DoneAt(Got)))
    BY <2>1 DEF AllForwarded, AllAnswered
  <2>. QED  BY <1>3, <2>1, <2>2 DEF lineVars, LinesInv
<1>. QED  BY <1>1, <1>2, <1>3 DEF Next

THEOREM LinesCorrect == Spec => []LinesInv
BY LinesInit, LinesStep, PTL DEF Spec

\* The buffer of a connection that goes on is within the limit, and no longer
\* line than the limit and a chunk is processed (server.rs:421-425).
THEOREM LimitHolds == Spec => []LengthLimit
<1>1. LinesInv => LengthLimit
  <2>1. LinesInv => widest \in 0..(MaxMsgLen + RecvBufLen - 1) /\ (open => Len(buf) <= MaxMsgLen)
    BY DEF LinesInv
  <2>2. \A w \in 0..(MaxMsgLen + RecvBufLen - 1) : w < MaxMsgLen + RecvBufLen
    BY LengthAssumption
  <2>. QED  BY <2>1, <2>2 DEF LengthLimit
<1>. QED  BY <1>1, LinesCorrect, PTL

\* The lines whose last byte has come are those up to the bytes received.
LEMMA ArrivedFacts ==
    ASSUME LinesInv
    PROVE  Arrived = Received(DoneAt(Got))
<1>1. /\ First \in Nat /\ First >= 2 /\ Whole >= First + 2 /\ Whole \in Nat
  BY AllFacts DEF LinesInv
<1>2. Got \in 0..Whole
  BY <1>1 DEF LinesInv, Got
<1>3. Feeds(stream) = {i \in 1..(Whole - Got) : Got + i \in {First, Whole}}
  BY <1>1, <1>2, PieceFacts DEF LinesInv
<1>4. \A x, y : x # y => Cardinality({x, y}) = 2
  BY PairCardinality
<1>5. 2 - Cardinality(Feeds(stream)) = DoneAt(Got)
  <2>1. CASE Got < First
    <3>1. Feeds(stream) = {First - Got, Whole - Got}
      BY <1>1, <1>2, <1>3, <2>1
    <3>2. First - Got # Whole - Got
      BY <1>1, <1>2
    <3>3. Cardinality(Feeds(stream)) = 2
      BY <1>4, <3>1, <3>2
    <3>. QED  BY <2>1, <3>3 DEF DoneAt
  <2>2. CASE ~(Got < First) /\ Got < Whole
    <3>1. Feeds(stream) = {Whole - Got}
      BY <1>1, <1>2, <1>3, <2>2
    <3>2. Cardinality({Whole - Got}) = 1
      BY FS_Singleton
    <3>. QED  BY <2>2, <3>1, <3>2 DEF DoneAt
  <2>3. CASE ~(Got < First) /\ ~(Got < Whole)
    <3>1. Feeds(stream) = {}
      BY <1>1, <1>2, <1>3, <2>3
    <3>. QED  BY <2>3, <3>1, FS_EmptySet DEF DoneAt
  <2>. QED  BY <2>1, <2>2, <2>3
<1>6. Len(sent) = 2
  BY DEF LinesInv, TwoSent
<1>. QED  BY <1>5, <1>6 DEF Arrived, Received

\* What is processed does not depend on how the bytes come: each line that has
\* come in is processed once, in order, as it was sent (server.rs:400-427).
THEOREM ChunksDoNotShow == Spec => []ChunkingInvisible
<1>1. LinesInv => ChunkingInvisible
  BY ArrivedFacts DEF LinesInv, ChunkingInvisible
<1>. QED  BY <1>1, LinesCorrect, PTL

-----------------------------------------------------------------------------
(* What is printed parses to the same                                       *)

Back(m) == IF Gap(m) THEN Parse(Display(m)) = Error ELSE Parse(Display(m)) = m

\* A specifier the expression for messages admits, or the empty one.
Clean(spec) == spec \in Specs /\ \A i \in DOMAIN spec : spec[i] \notin Odd

\* The shape of a message that was parsed.
Shape(m) ==
    \/ m = [kind |-> IdentReply]
    \/ \E k \in Kinds : \E spec, d :
         /\ Clean(spec) /\ d \notin {NoJson, Absent}
         /\ k \in WithModule => Len(spec) = 1
         /\ k \in Bare => spec = <<"">>
         /\ k \in WithParam => Len(spec) = 2
         /\ m = IF k \in WithData THEN [kind |-> k, spec |-> spec, data |-> d]
                ELSE [kind |-> k, spec |-> spec]

LEMMA SpecFacts ==
    ASSUME NEW spec \in Specs
    PROVE  /\ Len(spec) \in {1, 2} /\ DOMAIN spec = 1..Len(spec)
           /\ spec[1] \in Parts /\ Head(spec) = spec[1]
           /\ <<spec[1]>> \in Specs /\ DOMAIN <<spec[1]>> = {1}
           /\ Len(spec) = 1 => spec = <<spec[1]>>
           /\ Len(spec) = 2 => ~IsEmpty(spec)
<1>1. \A a, b : <<a, b>> # <<"">>
  <2>1. \A a, b : Len(<<a, b>>) = 2 /\ Len(<<"">>) = 1
    OBVIOUS
  <2>. QED  BY <2>1
<1>2. CASE \E a \in Parts : spec = <<a>>
  BY <1>2 DEF Specs
<1>3. CASE \E a, b \in Parts : spec = <<a, b>>
  <2>1. PICK a \in Parts, b \in Parts : spec = <<a, b>>
    BY <1>3
  <2>2. Len(spec) = 2 /\ DOMAIN spec = 1..2 /\ spec[1] = a /\ Head(spec) = a
    BY <2>1
  <2>3. <<a>> \in Specs /\ DOMAIN <<a>> = {1}
    BY DEF Specs
  <2>. QED  BY <1>1, <2>1, <2>2, <2>3 DEF IsEmpty
<1>. QED  BY <1>2, <1>3 DEF Specs

LEMMA EmptyIsClean == Clean(<<"">>) /\ Len(<<"">>) = 1 /\ Head(<<"">>) = ""
<1>1. "" \in Parts
  BY DEF Parts
<1>2. <<"">> \in Specs
  <2>1. \A a \in Parts : <<a>> \in Specs
    BY DEF Specs
  <2>. QED  BY <1>1, <2>1
<1>3. <<"">>[1] = "" /\ DOMAIN <<"">> = {1} /\ Len(<<"">>) = 1 /\ Head(<<"">>) = ""
  OBVIOUS
<1>4. "" \notin Odd
  BY WireAssumption
<1>. QED  BY <1>2, <1>3, <1>4 DEF Clean

LEMMA ParsedShape ==
    ASSUME NEW l \in Lines, Parse(l) # Error
    PROVE  Shape(Parse(l))
<1>. DEFINE spec == IF l.spec = Absent THEN <<"">> ELSE l.spec
            kept == CASE l.verb \in WithModule -> <<Head(spec)>>
                      [] l.verb \in Bare -> <<"">>
                      [] OTHER -> spec
            d == IF l.data = Absent THEN Null ELSE l.data
            m == Parse(l)
<1>1. CASE l = [verb |-> IdentReply, spec |-> Absent, data |-> Absent]
  BY <1>1 DEF Parse, Shape
<1>2. CASE l # [verb |-> IdentReply, spec |-> Absent, data |-> Absent]
  <2>1. /\ Matches(l) /\ l.data # NoJson /\ l.verb \in Kinds
        /\ ~(l.verb \in WithParam /\ Len(spec) = 1)
        /\ m = IF l.verb \in WithData THEN [kind |-> l.verb, spec |-> kept, data |-> d]
               ELSE [kind |-> l.verb, spec |-> kept]
    BY <1>2 DEF Parse
  <2>2. Clean(spec)
    BY <2>1, EmptyIsClean DEF Lines, Matches, Clean
  <2>3. d \notin {NoJson, Absent}
    BY <2>1, WireAssumption DEF Lines
  <2>4. spec \in Specs
    BY <2>2 DEF Clean
  <2>5. WithModule \cap Bare = {} /\ WithModule \cap WithParam = {} /\ Bare \cap WithParam = {}
    BY DEF WithModule, Bare, WithParam
  <2>. HIDE DEF spec, d, m
  <2>6. Clean(<<Head(spec)>>) /\ Len(<<Head(spec)>>) = 1
    <3>0. DOMAIN spec = 1..Len(spec) /\ Len(spec) \in {1, 2}
      BY <2>4, SpecFacts
    <3>1. 1 \in DOMAIN spec
      BY <3>0
    <3>2. \A a : <<a>>[1] = a /\ Len(<<a>>) = 1
      OBVIOUS
    <3>3. spec[1] \notin Odd
      BY <2>2, <3>1 DEF Clean
    <3>. QED  BY <2>4, <3>2, <3>3, SpecFacts DEF Clean
  <2>7. /\ Clean(kept)
        /\ l.verb \in WithModule => Len(kept) = 1
        /\ l.verb \in Bare => kept = <<"">>
        /\ l.verb \in WithParam => kept = spec
    BY <2>2, <2>5, <2>6, EmptyIsClean
  <2>8. l.verb \in WithParam => Len(kept) = 2
    BY <2>1, <2>4, <2>7, SpecFacts
  <2>. HIDE DEF kept
  <2>. QED  BY <2>1, <2>3, <2>7, <2>8 DEF Shape, m
<1>. QED  BY <1>1, <1>2

LEMMA ShapedComesBack ==
    ASSUME NEW m, Shape(m)
    PROVE  Back(m)
<1>1. CASE m = [kind |-> IdentReply]
  <2>1. IdentReply \notin WithToken
    BY DEF IdentReply, WithToken
  <2>. QED  BY <1>1, <2>1 DEF Back, Gap, Display, Parse
<1>2. ASSUME NEW k \in Kinds, NEW spec, NEW d,
             Clean(spec), d \notin {NoJson, Absent},
             k \in WithModule => Len(spec) = 1,
             k \in Bare => spec = <<"">>,
             k \in WithParam => Len(spec) = 2,
             m = IF k \in WithData THEN [kind |-> k, spec |-> spec, data |-> d]
                 ELSE [kind |-> k, spec |-> spec]
      PROVE  Back(m)
  <2>. DEFINE l == Display(m)
              none == k \in Bare \/ (k \in WithModule \cup {"ping"} /\ IsEmpty(spec))
              e == IF k \in WithData THEN d ELSE Absent
  <2>1. m.kind = k /\ m.spec = spec /\ (k \in WithData => m.data = d)
    BY <1>2
  <2>2. k # IdentReply
    BY DEF Kinds, WithParam, WithModule, WithToken, Bare, IdentReply
  <2>3. l = [verb |-> k, spec |-> IF none THEN Absent ELSE spec, data |-> e]
    BY <2>1, <2>2 DEF Display, DisplaySpec
  <2>4. spec \in Specs /\ spec # Absent
    BY <1>2, WireAssumption DEF Clean
  <2>5. none => spec = <<"">>
    BY <1>2 DEF IsEmpty
  <2>6. none => k \notin WithData
    BY DEF Bare, WithModule, WithData
  <2>7. e # NoJson /\ (k \notin WithData => e = Absent)
    BY <1>2, WireAssumption
  <2>8. l # [verb |-> IdentReply, spec |-> Absent, data |-> Absent]
    BY <2>2, <2>3
  <2>9. l.verb = k /\ l.data = e /\ l.spec = IF none THEN Absent ELSE spec
    BY <2>3
  <2>10. (IF l.spec = Absent THEN <<"">> ELSE l.spec) = spec
    BY <2>4, <2>5, <2>9
  <2>11. Matches(l) <=> (none \/ ~IsEmpty(spec))
    BY <1>2, <2>2, <2>4, <2>6, <2>7, <2>9 DEF Matches, Clean
  <2>12. (CASE k \in WithModule -> <<Head(spec)>>
            [] k \in Bare -> <<"">>
            [] OTHER -> spec) = spec
    BY <1>2, <2>4, SpecFacts
  <2>13. ~(k \in WithParam /\ Len(spec) = 1)
    <3>1. k \in WithParam => Len(spec) = 2
      BY <1>2
    <3>. QED  BY <3>1
  <2>14. k \in WithData => (IF l.data = Absent THEN Null ELSE l.data) = d
    BY <1>2, <2>9
  <2>15. Gap(m) <=> ~none /\ IsEmpty(spec)
    <3>1. IsEmpty(spec) => k \notin WithParam
      BY <1>2, <2>4, SpecFacts
    <3>2. /\ WithToken \cap (Bare \cup WithModule) = {}
          /\ k \in WithParam \cup WithModule \cup WithToken \cup Bare
      BY DEF WithToken, Bare, WithModule, Kinds
    <3>. QED  BY <2>1, <3>1, <3>2 DEF Gap
  <2>. HIDE DEF l, none, e
  <2>16. CASE Matches(l)
    <3>1. Parse(l) = IF k \in WithData THEN [kind |-> k, spec |-> spec, data |-> d]
                     ELSE [kind |-> k, spec |-> spec]
      BY <2>7, <2>8, <2>9, <2>10, <2>12, <2>13, <2>14, <2>16 DEF Parse
    <3>. QED  BY <1>2, <2>11, <2>15, <2>16, <3>1 DEF Back, l
  <2>17. CASE ~Matches(l)
    <3>1. Parse(l) = Error
      BY <2>8, <2>17 DEF Parse
    <3>. QED  BY <2>11, <2>15, <2>17, <3>1 DEF Back, l
  <2>. QED  BY <2>16, <2>17
<1>. QED  BY <1>1, <1>2 DEF Shape

LEMMA RepliesComeBack ==
    ASSUME NEW m \in Replies, m # Error
    PROVE  Back(m)
<1>1. CASE m = [kind |-> IdentReply]
  BY <1>1, ShapedComesBack DEF Shape
<1>2. ASSUME NEW n \in Parsed, n # Error, n.kind = "ping",
             m = [kind |-> "pong", spec |-> n.spec, data |-> Time]
      PROVE  Back(m)
  <2>1. Shape(n)
    BY <1>2, ParsedShape DEF Parsed
  <2>2. Clean(n.spec)
    <3>1. n # [kind |-> IdentReply]
      <4>1. [kind |-> IdentReply].kind = IdentReply /\ IdentReply # "ping"
        BY DEF IdentReply
      <4>. QED  BY <1>2, <4>1
    <3>2. PICK k, spec, d :
             /\ Clean(spec)
             /\ n = IF k \in WithData THEN [kind |-> k, spec |-> spec, data |-> d]
                    ELSE [kind |-> k, spec |-> spec]
      BY <2>1, <3>1 DEF Shape
    <3>3. n.spec = spec
      BY <3>2
    <3>. QED  BY <3>2, <3>3
  <2>3. Time \notin {NoJson, Absent}
    BY WireAssumption
  <2>4. "pong" \in Kinds /\ "pong" \in WithData /\ "pong" \notin WithModule \cup Bare \cup WithParam
    BY DEF Kinds, WithToken, WithData, WithModule, Bare, WithParam
  <2>5. Shape(m)
    BY <1>2, <2>2, <2>3, <2>4 DEF Shape
  <2>. QED  BY <2>5, ShapedComesBack
<1>. QED  BY <1>1, <1>2 DEF Replies

\* What is printed, the messages that have come and the replies to them, parses
\* to the same (proto.rs:178-181).
THEOREM PrintedComesBack == Spec => []ComesBack
<1>1. LinesInv => ComesBack
  <2>. SUFFICES ASSUME LinesInv, NEW m \in ToSet(Arrived \o answered) \ {Error}
                PROVE  Back(m)
    BY DEF ComesBack, Back
  <2>1. TwoSent /\ DoneAt(Got) \in 0..2 /\ DoneAt(Got) \in DoneAt(Got)..2
    BY DEF LinesInv, DoneAt
  <2>2. answered \in Seq(Replies)
    BY <2>1, InParts DEF LinesInv
  <2>3. Arrived \in Seq(Parsed)
    <3>1. Arrived = Received(DoneAt(Got))
      BY ArrivedFacts
    <3>2. \A i \in 1..DoneAt(Got) : Parse(sent[i].line) \in Parsed
      BY <2>1 DEF TwoSent, Sendable, Parsed
    <3>3. DoneAt(Got) \in Nat
      BY <2>1
    <3>. QED  BY <3>1, <3>2, <3>3, IsASeq DEF Received
  <2>4. m \in Parsed \cup Replies
    <3>. DEFINE s == Arrived \o answered
    <3>1. Arrived \in Seq(Parsed \cup Replies) /\ answered \in Seq(Parsed \cup Replies)
      BY <2>2, <2>3, SeqMonotonic
    <3>2. s \in Seq(Parsed \cup Replies)
      BY <3>1, ConcatProperties
    <3>. HIDE DEF s
    <3>3. PICK i \in DOMAIN s : m = s[i]
      BY DEF ToSet, s
    <3>4. DOMAIN s = 1..Len(s)
      BY <3>2, LenProperties
    <3>. QED  BY <3>2, <3>3, <3>4, ElementOfSeq
  <2>5. CASE m \in Replies
    BY <2>5, RepliesComeBack
  <2>6. CASE m \in Parsed
    BY <2>6, ParsedShape, ShapedComesBack DEF Parsed
  <2>. QED  BY <2>4, <2>5, <2>6
<1>. QED  BY <1>1, LinesCorrect, PTL
=============================================================================
