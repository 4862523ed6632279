----------------------------- MODULE CommProofs -----------------------------
(***************************************************************************)
(* Proofs about the line-based connection: its types, and what a client    *)
(* that waits for a line can rely on.                                      *)
(***************************************************************************)
EXTENDS Comm, SequenceTheorems, WellFoundedInduction, TLAPS

-----------------------------------------------------------------------------
(* Queues                                                                   *)

\* Taking the first element of a typed queue.
LEMMA TakeType ==
    ASSUME NEW S, NEW s \in Seq(S), s # <<>>
    PROVE  Head(s) \in S /\ Tail(s) \in Seq(S)
BY HeadTailProperties

\* Adding to a queue of at most one element.
LEMMA ShortAppend ==
    ASSUME NEW x, NEW y
    PROVE  Append(<<>>, y) = <<y>> /\ Append(<<x>>, y) = <<x, y>>
<1>. DEFINE S == {x, y}
<1>1. /\ <<>> \in Seq(S) /\ <<x>> \in Seq(S) /\ <<y>> \in Seq(S)
      /\ <<x, y>> \in Seq(S) /\ y \in S
  OBVIOUS
<1>. HIDE DEF S
<1>2. Append(<<>>, y) = <<y>>
  BY <1>1, AppendIsConcat, ConcatEmptySeq
<1>3. Append(<<x>>, y) = <<x, y>>
  <2>. DEFINE s == Append(<<x>>, y)
              t == <<x, y>>
  <2>1. /\ s \in Seq(S) /\ Len(s) = Len(<<x>>) + 1
        /\ \A i \in 1 .. Len(<<x>>) : s[i] = <<x>>[i]
        /\ s[Len(<<x>>) + 1] = y
    BY <1>1, AppendProperties
  <2>2. Len(<<x>>) = 1 /\ <<x>>[1] = x
    OBVIOUS
  <2>3. Len(t) = 2 /\ t[1] = x /\ t[2] = y
    OBVIOUS
  <2>. HIDE DEF s, t
  <2>4. Len(s) = 2 /\ s[1] = x /\ s[2] = y
    BY <2>1, <2>2
  <2>5. \A i \in 1 .. Len(s) : i = 1 \/ i = 2
    BY <2>4
  <2>6. t \in Seq(S)
    BY <1>1 DEF t
  <2>7. \A i \in 1 .. Len(s) : s[i] = t[i]
    BY <2>3, <2>4, <2>5
  <2>. QED  BY <2>1, <2>3, <2>4, <2>6, <2>7, SeqEqual DEF s, t
<1>. QED  BY <1>2, <1>3

-----------------------------------------------------------------------------
(* Lines in a buffer                                                        *)

\* What the reader adds leaves the lines of a buffer in it.
LEMMA LinesStay ==
    ASSUME NEW s \in Seq(Bytes), NEW t \in Seq(Bytes), HasLine(s)
    PROVE  HasLine(s \o t)
<1>. DEFINE u == s \o t
<1>1. /\ Len(s) \in Nat /\ Len(t) \in Nat /\ Len(u) = Len(s) + Len(t)
      /\ \A i \in 1 .. Len(s) : u[i] = s[i]
  BY ConcatProperties, LenProperties
<1>. HIDE DEF u
<1>2. PICK i \in 1 .. Len(s) : s[i] = EOL
  BY DEF HasLine
<1>3. i \in 1 .. Len(u) /\ u[i] = EOL
  BY <1>1, <1>2
<1>. QED  BY <1>3 DEF HasLine, u

\* The end of the first line is where get_line looks for it.
LEMMA FirstLineEnds ==
    ASSUME NEW s \in Seq(Bytes), HasLine(s)
    PROVE  /\ FirstEOL(s) \in 1 .. Len(s) /\ s[FirstEOL(s)] = EOL
           /\ \A j \in 1 .. FirstEOL(s) - 1 : s[j] # EOL
<1>. DEFINE ends == {i \in 1 .. Len(s) : s[i] = EOL}
<1>1. ends \in SUBSET Nat /\ ends # {} /\ Len(s) \in Nat
  BY LenProperties DEF HasLine
<1>. HIDE DEF ends
<1>2. PICK i \in ends : \A j \in ends : i <= j
  <2>. DEFINE R == OpToRel(<, Nat)
  <2>1. \A a, b \in Nat : a < b => <<a, b>> \in R
    BY DEF OpToRel
  <2>2. IsWellFoundedOn(R, Nat)
    BY NatLessThanWellFounded
  <2>. HIDE DEF R
  <2>3. PICK a \in ends : \A b \in ends : <<b, a>> \notin R
    BY <1>1, <2>2, WFMin
  <2>4. \A b \in ends : ~(b < a)
    BY <1>1, <2>1, <2>3
  <2>. QED  BY <1>1, <2>4
<1>3. /\ i \in 1 .. Len(s) /\ s[i] = EOL
      /\ \A j \in 1 .. i - 1 : s[j] # EOL
  <2>1. i \in Nat /\ \A j \in 1 .. i - 1 : j \notin ends
    BY <1>1, <1>2
  <2>2. i \in 1 .. Len(s) /\ s[i] = EOL
    BY <1>2 DEF ends
  <2>3. \A j \in 1 .. i - 1 : j \in 1 .. Len(s)
    BY <1>1, <2>2
  <2>. QED  BY <2>1, <2>2, <2>3 DEF ends
<1>. QED  BY <1>3 DEF FirstEOL


-----------------------------------------------------------------------------
(* Types                                                                    *)

LEMMA PartsOfBytes ==
    ASSUME NEW s \in Seq(Bytes), NEW n \in 0 .. Len(s)
    PROVE  /\ SubSeq(s, 1, n) \in Seq(Bytes) /\ SubSeq(s, n + 1, Len(s)) \in Seq(Bytes)
           /\ SubSeq(s, 1, n) \o SubSeq(s, n + 1, Len(s)) = s
<1>1. Len(s) \in Nat /\ n \in Nat /\ \A i \in 1 .. Len(s) : s[i] \in Bytes
  BY LenProperties, ElementOfSeq
<1>2. SubSeq(s, 1, n) \in Seq(Bytes) /\ SubSeq(s, n + 1, Len(s)) \in Seq(Bytes)
  BY <1>1, SubSeqProperties
<1>3. SubSeq(s, 1, n) \o SubSeq(s, n + 1, Len(s)) = SubSeq(s, 1, Len(s))
  <2>1. /\ 1 \in 1 .. Len(s) + 1 /\ n \in 1 - 1 .. Len(s) /\ Len(s) \in n .. Len(s)
    BY <1>1
  <2>. QED  BY <2>1, ConcatAdjacentSubSeq
<1>. QED  BY <1>2, <1>3, SubSeqFull

LEMMA CallType ==
    ASSUME TypeOK, NEW kind \in {"communicate", "readline", "writeline", "write", "read"},
           Starts(kind)
    PROVE  /\ op' \in Op /\ op'.kind = kind /\ op'.id \in Texts
           /\ op'.clean => wire = <<>> /\ todo = <<>> /\ partial = <<>>
<1>1. Len(results) \in Nat /\ MaxCalls \in Nat
  BY CommAssumption, LenProperties DEF CommAssumption, TypeOK
<1>. QED  BY <1>1 DEF Starts, CallOf, Op, Texts

LEMMA ReturnType ==
    ASSUME TypeOK, NEW o \in Op,
           NEW out \in {"line", "data", "written", "timeout", "error"},
           NEW got \in Seq(Bytes), Returns(o, out, got)
    PROVE  results' \in Seq(Result)
<1>1. [op |-> o, outcome |-> out, got |-> got] \in Result
  BY DEF Result
<1>. QED  BY <1>1, AppendProperties DEF Returns, TypeOK

\* What the device gets of a request.
LEMMA WriteType ==
    ASSUME TypeOK, NEW k \in Texts, WriteOk(k) \/ WriteText(k) \/ WriteFails(k)
    PROVE  /\ todo' \in Seq(Texts) /\ partial' \in Seq(Texts)
           /\ UNCHANGED <<link, wire, faults>>
<1>1. todo \in Seq(Texts) /\ partial \in Seq(Texts)
  BY DEF TypeOK
<1>2. Append(todo, Whole(k)) \in Seq(Texts) /\ Append(partial, k) \in Seq(Texts)
  <2>1. Whole(k) \in Texts
    BY <1>1, TakeType DEF Whole
  <2>. QED  BY <1>1, <2>1, AppendProperties
<1>3. WriteOk(k) => /\ todo' \in Seq(Texts) /\ partial' \in Seq(Texts)
                    /\ UNCHANGED <<link, wire, faults>>
  BY <1>1, <1>2 DEF WriteOk
<1>. QED  BY <1>1, <1>2, <1>3 DEF WriteText, WriteFails, deviceVars

LEMMA TypeAtReader ==
    ASSUME TypeOK, ReaderStep
    PROVE  TypeOK'
<1>1. CASE ReaderGets
  <2>1. wire \in Seq(Bytes) /\ buffer \in Seq(Bytes) /\ Len(wire) \in Nat
    BY LenProperties DEF TypeOK
  <2>2. PICK n \in 1 .. Len(wire) :
          /\ buffer' = buffer \o SubSeq(wire, 1, n)
          /\ wire' = SubSeq(wire, n + 1, Len(wire))
    BY <1>1 DEF ReaderGets
  <2>3. n \in 0 .. Len(wire)
    BY <2>1, <2>2
  <2>4. buffer' \in Seq(Bytes) /\ wire' \in Seq(Bytes)
    BY <2>1, <2>2, <2>3, PartsOfBytes, ConcatProperties
  <2>. QED  BY <1>1, <2>4 DEF ReaderGets, TypeOK
<1>2. CASE ReaderFails \/ Reconnect \/ ReaderStops
  BY <1>2 DEF ReaderFails, Reconnect, ReaderStops, clientVars, deviceVars, TypeOK
<1>. QED  BY <1>1, <1>2 DEF ReaderStep

LEMMA TypeAtClient ==
    ASSUME TypeOK, WokenFindsLine, ClientStep
    PROVE  TypeOK'
<1>0. buffer \in Seq(Bytes) /\ results \in Seq(Result) /\ Len(buffer) \in Nat
  BY LenProperties DEF TypeOK
<1>1. <<>> \in Seq(Bytes) /\ <<>> \in Seq(Texts)
  OBVIOUS
<1>2. ASSUME NEW kind \in {"communicate", "writeline", "write"}, Starts(kind),
             WriteOk(op'.id) \/ WriteText(op'.id) \/ WriteFails(op'.id),
             \/ UNCHANGED results
             \/ Returns(op', "written", <<>>) \/ Returns(op', "error", <<>>),
             client' \in {"idle", "waiting"}, buffer' \in {buffer, <<>>},
             UNCHANGED <<connected, stop, reader>>
      PROVE  TypeOK'
  <2>1. op' \in Op /\ op'.id \in Texts
    BY <1>2, CallType
  <2>2. PICK o \in Op : o = op' /\ o.id \in Texts
    BY <2>1
  <2>3. /\ todo' \in Seq(Texts) /\ partial' \in Seq(Texts)
        /\ UNCHANGED <<link, wire, faults>>
    BY <1>2, <2>2, WriteType
  <2>4. results' \in Seq(Result)
    BY <1>0, <1>1, <1>2, <2>2, ReturnType
  <2>5. buffer' \in Seq(Bytes)
    BY <1>0, <1>1, <1>2
  <2>. QED  BY <1>2, <2>1, <2>3, <2>4, <2>5 DEF TypeOK
<1>3. CASE Communicate
  <2>1. client' \in {"idle", "waiting"} /\ buffer' = <<>>
    BY <1>3 DEF Communicate, ClearBuffer, Starts
  <2>. QED  BY <1>2, <1>3, <2>1 DEF Communicate
<1>4. CASE WriteLine
  BY <1>2, <1>4 DEF WriteLine, threadVars, Starts
<1>5. CASE Write
  BY <1>2, <1>5 DEF Write, threadVars, Starts
<1>6. CASE ReadLine
  BY <1>6, CallType DEF ReadLine, threadVars, deviceVars, TypeOK
<1>7. CASE ReadBuffer
  <2>1. PICK o \in Op : o = op'
    BY <1>7, CallType DEF ReadBuffer
  <2>2. results' \in Seq(Result)
    BY <1>0, <1>7, <2>1, ReturnType DEF ReadBuffer
  <2>. QED  BY <1>1, <1>7, <2>1, <2>2 DEF ReadBuffer, deviceVars, TypeOK
<1>8. CASE GetLine
  <2>1. PICK end \in 1 .. Len(buffer) : end = FirstEOL(buffer)
    BY <1>0, <1>8, FirstLineEnds DEF GetLine, WokenFindsLine
  <2>2. /\ Returns(op, "line", SubSeq(buffer, 1, end - 1))
        /\ buffer' = SubSeq(buffer, end + 1, Len(buffer))
        /\ client' = "idle" /\ UNCHANGED <<op, connected, stop, reader, deviceVars>>
    BY <1>8, <2>1 DEF GetLine
  <2>3. end - 1 \in 0 .. Len(buffer) /\ end \in 0 .. Len(buffer)
    BY <1>0, <2>1
  <2>4. SubSeq(buffer, 1, end - 1) \in Seq(Bytes) /\ buffer' \in Seq(Bytes)
    BY <1>0, <2>2, <2>3, PartsOfBytes
  <2>5. op \in Op
    BY DEF TypeOK
  <2>6. results' \in Seq(Result)
    BY <2>2, <2>4, <2>5, ReturnType
  <2>. QED  BY <2>2, <2>4, <2>6 DEF deviceVars, TypeOK
<1>9. CASE TimeOut
  <2>1. op \in Op
    BY DEF TypeOK
  <2>2. results' \in Seq(Result)
    BY <1>1, <1>9, <2>1, ReturnType DEF TimeOut
  <2>. QED  BY <1>9, <2>2 DEF TimeOut, threadVars, deviceVars, TypeOK
<1>10. CASE DropClient
  BY <1>10 DEF DropClient, deviceVars, TypeOK
<1>11. CASE Setup
  BY <1>1, <1>11 DEF Setup, TypeOK
<1>. QED
  BY <1>3, <1>4, <1>5, <1>6, <1>7, <1>8, <1>9, <1>10, <1>11 DEF ClientStep

LEMMA TypeAtDevice ==
    ASSUME TypeOK, DeviceAnswers \/ Disconnect
    PROVE  TypeOK'
<1>1. wire \in Seq(Bytes) /\ todo \in Seq(Texts) /\ Len(wire) \in Nat
  BY LenProperties DEF TypeOK
<1>2. CASE DeviceAnswers
  <2>1. PICK k \in Texts : k = Head(todo) /\ Tail(todo) \in Seq(Texts)
    BY <1>1, <1>2, TakeType DEF DeviceAnswers
  <2>2. <<k, EOL>> \in Seq(Bytes)
    BY DEF Bytes
  <2>3. wire' = wire \/ wire' = wire \o <<k, EOL>>
    BY <1>2, <2>1 DEF DeviceAnswers
  <2>4. wire' \in Seq(Bytes)
    BY <1>1, <2>2, <2>3, ConcatProperties
  <2>. QED  BY <1>2, <2>1, <2>4 DEF DeviceAnswers, threadVars, clientVars, TypeOK
<1>3. CASE Disconnect
  <2>1. <<>> \in Seq(Texts)
    OBVIOUS
  <2>2. wire' \in Seq(Bytes)
    BY <1>1, <1>3, PartsOfBytes DEF Disconnect
  <2>3. op' \in Op
    BY <1>3 DEF Disconnect, Op, TypeOK
  <2>4. faults' \in 0 .. MaxFaults
    BY <1>3, CommAssumption DEF CommAssumption, Disconnect, TypeOK
  <2>. QED  BY <1>3, <2>1, <2>2, <2>3, <2>4 DEF Disconnect, threadVars, TypeOK
<1>. QED  BY <1>2, <1>3

-----------------------------------------------------------------------------
(* Whoever is woken finds a line, and nobody waits while his is there       *)

LEMMA WokenKept ==
    ASSUME TypeOK, WokenFindsLine, [Next]_vars
    PROVE  WokenFindsLine'
<1>. SUFFICES ASSUME client' = "notified"
              PROVE  HasLine(buffer')
  BY DEF WokenFindsLine, HasLine
<1>1. CASE ReaderGets
  <2>1. wire \in Seq(Bytes) /\ buffer \in Seq(Bytes) /\ Len(wire) \in Nat
    BY LenProperties DEF TypeOK
  <2>2. PICK n \in 1 .. Len(wire) : buffer' = buffer \o SubSeq(wire, 1, n)
    BY <1>1 DEF ReaderGets
  <2>3. n \in 0 .. Len(wire)
    BY <2>1, <2>2
  <2>4. CASE client = "waiting"
    BY <1>1, <2>4 DEF ReaderGets, WakesClient
  <2>5. CASE client # "waiting"
    <3>1. HasLine(buffer)
      BY <1>1, <2>5 DEF ReaderGets, WokenFindsLine
    <3>. QED  BY <2>1, <2>2, <2>3, <3>1, PartsOfBytes, LinesStay
  <2>. QED  BY <2>4, <2>5
<1>2. CASE ~ReaderGets
  <2>1. client = "notified" /\ buffer' = buffer
    BY <1>2 DEF Next, ReaderStep, ClientStep, ReaderFails, Reconnect, ReaderStops,
                Communicate, ReadLine, WriteLine, Write, ReadBuffer, GetLine, TimeOut,
                DropClient, Setup, DeviceAnswers, Disconnect, Starts, threadVars,
                clientVars, deviceVars, vars
  <2>. QED  BY <2>1 DEF WokenFindsLine
<1>. QED  BY <1>1, <1>2

LEMMA MissedKept ==
    ASSUME TypeOK, NoLineMissed, [Next]_vars
    PROVE  NoLineMissed'
<1>. SUFFICES ASSUME client' = "waiting", op'.kind = "communicate"
              PROVE  ~HasLine(buffer')
  BY DEF NoLineMissed, HasLine
<1>1. CASE ReaderGets
  BY <1>1 DEF ReaderGets, WakesClient
<1>2. CASE Communicate
  <2>1. buffer' = <<>>
    BY <1>2 DEF Communicate, ClearBuffer
  <2>. QED  BY <2>1 DEF HasLine
<1>3. CASE ReadLine
  BY <1>3 DEF ReadLine, Starts, CallOf
<1>4. CASE ~(ReaderGets \/ Communicate \/ ReadLine)
  <2>1. client = "waiting" /\ buffer' = buffer /\ (op' = op \/ Disconnect)
    BY <1>4 DEF Next, ReaderStep, ClientStep, ReaderFails, Reconnect, ReaderStops,
                WriteLine, Write, ReadBuffer, GetLine, TimeOut,
                DropClient, Setup, DeviceAnswers, Disconnect, Starts, threadVars,
                clientVars, deviceVars, vars
  <2>2. op.kind = "communicate"
    BY <2>1 DEF Disconnect, TypeOK, Op
  <2>. QED  BY <2>1, <2>2 DEF NoLineMissed
<1>. QED  BY <1>1, <1>2, <1>3, <1>4

LEMMA WokenCorrect == Spec => [](TypeOK /\ WokenFindsLine)
<1>1. Init => TypeOK /\ WokenFindsLine
  <2>1. <<>> \in Seq(Bytes) /\ <<>> \in Seq(Texts) /\ <<>> \in Seq(Result)
    OBVIOUS
  <2>2. 0 \in 0 .. MaxFaults /\ 0 \in 0 .. MaxCalls
    BY CommAssumption DEF CommAssumption
  <2>3. Init => op \in Op
    BY <2>2 DEF Init, Op
  <2>. QED  BY <2>1, <2>2, <2>3 DEF Init, TypeOK, WokenFindsLine
<1>2. TypeOK /\ WokenFindsLine /\ [Next]_vars => (TypeOK /\ WokenFindsLine)'
  <2>. SUFFICES ASSUME TypeOK, WokenFindsLine, [Next]_vars
                PROVE  TypeOK' /\ WokenFindsLine'
    OBVIOUS
  <2>1. CASE UNCHANGED vars
    BY <2>1 DEF vars, threadVars, clientVars, deviceVars, TypeOK, WokenFindsLine
  <2>. QED  BY <2>1, WokenKept, TypeAtReader, TypeAtClient, TypeAtDevice DEF Next
<1>. QED  BY <1>1, <1>2, PTL DEF Spec

\* Every variable holds a value of its type: a client takes a line only when
\* there is one, so the place of its end is defined (comm.rs:65-72).
THEOREM CommTypeCorrect == Spec => []TypeOK
BY WokenCorrect, PTL

\* The unwrap in get_line (comm.rs:65-72) never fails: only the client itself
\* takes lines off the buffer, so the one that was there when the reader woke it
\* is there when it has the lock again.
THEOREM WokenHasLine == Spec => []WokenFindsLine
BY WokenCorrect, PTL

\* communicate (comm.rs:100-106) never waits while the line it waits for is in
\* the buffer: it holds the lock from the clearing of the buffer to the wait.
THEOREM NoMissedLine == Spec => []NoLineMissed
<1>1. Init => NoLineMissed
  BY DEF Init, NoLineMissed
<1>2. TypeOK /\ NoLineMissed /\ [Next]_vars => NoLineMissed'
  BY MissedKept
<1>. QED  BY <1>1, <1>2, CommTypeCorrect, PTL DEF Spec

-----------------------------------------------------------------------------
(* A communicate that is made when nothing is on its way                    *)

Clean == op.kind = "communicate" /\ op.clean

\* What a clean communicate may get: the answer to its own request, once.
CleanInv ==
    (client \in {"waiting", "notified"} /\ Clean) =>
      /\ op.id \in Texts
      /\ \/ todo = <<op.id>> /\ buffer \o wire = <<>>
         \/ todo = <<>> /\ buffer \o wire \in {<<>>, <<op.id, EOL>>}

\* The line that is taken off a buffer with nothing but the answer.
LEMMA CleanLine ==
    ASSUME NEW s \in Seq(Bytes), NEW t \in Seq(Bytes), NEW k \in Texts,
           HasLine(s), s \o t \in {<<>>, <<k, EOL>>}
    PROVE  SubSeq(s, 1, FirstEOL(s) - 1) = <<k>>
<1>. DEFINE u == s \o t
<1>1. /\ Len(s) \in Nat /\ Len(t) \in Nat /\ Len(u) = Len(s) + Len(t)
      /\ \A i \in 1 .. Len(s) : u[i] = s[i]
  BY ConcatProperties, LenProperties
<1>. HIDE DEF u
<1>2. PICK end \in 1 .. Len(s) : end = FirstEOL(s) /\ s[end] = EOL
  BY FirstLineEnds
<1>. DEFINE a == <<k, EOL>>
<1>3. Len(a) = 2 /\ a[1] = k /\ a[2] = EOL /\ k # EOL
  BY DEF Texts, EOL
<1>4. u = a
  <2>1. Len(u) # 0
    BY <1>1, <1>2
  <2>2. Len(<<>>) = 0
    OBVIOUS
  <2>. QED  BY <2>1, <2>2 DEF u
<1>. HIDE DEF a
<1>5. end = 2 /\ Len(s) = 2 /\ s[1] = k
  BY <1>1, <1>2, <1>3, <1>4
<1>. DEFINE v == SubSeq(s, 1, 1)
            w == <<k>>
<1>6. v \in Seq(Bytes) /\ Len(v) = 1 /\ v[1] = k
  <2>1. \A i \in 1 .. 1 : s[i] \in Bytes
    BY <1>5 DEF Bytes
  <2>2. /\ v \in Seq(Bytes) /\ Len(v) = 1 - 1 + 1
        /\ \A i \in 1 .. 1 - 1 + 1 : v[i] = s[1 + i - 1]
    BY <2>1, SubSeqProperties
  <2>. QED  BY <1>5, <2>2
<1>7. w \in Seq(Bytes) /\ Len(w) = 1 /\ w[1] = k
  BY DEF Bytes
<1>. HIDE DEF v, w
<1>8. v = w
  <2>1. \A i \in 1 .. Len(v) : i = 1
    BY <1>6
  <2>. QED  BY <1>6, <1>7, <2>1, SeqEqual
<1>9. FirstEOL(s) - 1 = 1
  BY <1>2, <1>5
<1>. QED  BY <1>8, <1>9 DEF v, w

LEMMA CleanAtReader ==
    ASSUME TypeOK, CleanInv, ReaderStep
    PROVE  CleanInv'
<1>1. CASE ReaderGets
  <2>1. wire \in Seq(Bytes) /\ buffer \in Seq(Bytes) /\ Len(wire) \in Nat
    BY LenProperties DEF TypeOK
  <2>2. PICK n \in 1 .. Len(wire) :
          /\ buffer' = buffer \o SubSeq(wire, 1, n)
          /\ wire' = SubSeq(wire, n + 1, Len(wire))
    BY <1>1 DEF ReaderGets
  <2>3. n \in 0 .. Len(wire)
    BY <2>1, <2>2
  <2>. DEFINE s == SubSeq(wire, 1, n)
              t == SubSeq(wire, n + 1, Len(wire))
  <2>4. s \in Seq(Bytes) /\ t \in Seq(Bytes) /\ s \o t = wire
    BY <2>1, <2>3, PartsOfBytes
  <2>. HIDE DEF s, t
  <2>5. (buffer \o s) \o t = buffer \o (s \o t)
    <3>1. buffer \in Seq(Bytes) /\ s \in Seq(Bytes) /\ t \in Seq(Bytes)
      BY <2>1, <2>4
    <3>2. \A x, y, z \in Seq(Bytes) : (x \o y) \o z = x \o (y \o z)
      BY ConcatAssociative
    <3>. QED  BY <3>1, <3>2, Zenon
  <2>6. buffer' \o wire' = buffer \o wire
    BY <2>2, <2>4, <2>5 DEF s, t
  <2>7. client' \in {"waiting", "notified"} => client \in {"waiting", "notified"}
    BY <1>1 DEF ReaderGets
  <2>. QED  BY <1>1, <2>6, <2>7 DEF ReaderGets, CleanInv, Clean
<1>2. CASE ReaderFails \/ Reconnect \/ ReaderStops
  BY <1>2 DEF ReaderFails, Reconnect, ReaderStops, clientVars, deviceVars,
              CleanInv, Clean
<1>. QED  BY <1>1, <1>2 DEF ReaderStep

LEMMA CleanAtClient ==
    ASSUME TypeOK, CleanInv, ClientStep
    PROVE  CleanInv'
<1>. SUFFICES ASSUME client' \in {"waiting", "notified"}, Clean'
              PROVE  /\ op'.id \in Texts
                     /\ todo' = <<op'.id>> /\ buffer' \o wire' = <<>>
  BY DEF CleanInv
<1>1. Communicate
  BY DEF ClientStep, Communicate, ReadLine, WriteLine, Write, ReadBuffer, GetLine,
         TimeOut, DropClient, Setup, Starts, CallOf, Clean
<1>2. PICK k \in Texts : k = op'.id
  BY <1>1, CallType DEF Communicate
<1>3. /\ wire = <<>> /\ todo = <<>> /\ partial = <<>> /\ link = "up"
      /\ WriteOk(op'.id) /\ buffer' = <<>>
  BY <1>1 DEF Communicate, ClearBuffer, Starts, CallOf, Clean
<1>4. todo' = Append(<<>>, k) /\ wire' = <<>>
  BY <1>2, <1>3 DEF WriteOk, Whole
<1>5. todo' = <<k>>
  BY <1>4, ShortAppend
<1>6. <<>> \in Seq(Bytes)
  OBVIOUS
<1>7. buffer' \o wire' = <<>>
  BY <1>3, <1>4, <1>6, ConcatEmptySeq
<1>. QED  BY <1>2, <1>5, <1>7

LEMMA CleanAtDevice ==
    ASSUME TypeOK, CleanInv, DeviceAnswers \/ Disconnect
    PROVE  CleanInv'
<1>. SUFFICES ASSUME client' \in {"waiting", "notified"}, Clean'
              PROVE  /\ op'.id \in Texts
                     /\ todo' = <<>> /\ buffer' \o wire' \in {<<>>, <<op'.id, EOL>>}
  BY DEF CleanInv
<1>1. DeviceAnswers
  BY DEF Disconnect, Clean, TypeOK, Op
<1>2. /\ client \in {"waiting", "notified"} /\ Clean
      /\ op' = op /\ buffer' = buffer /\ todo # <<>>
  BY <1>1 DEF DeviceAnswers, threadVars, clientVars, Clean
<1>3. PICK k \in Texts : k = op.id /\ todo = <<k>> /\ buffer \o wire = <<>>
  BY <1>2 DEF CleanInv
<1>4. Head(<<k>>) = k /\ Tail(<<k>>) = <<>>
  OBVIOUS
<1>. DEFINE a == <<k, EOL>>
<1>5. buffer \in Seq(Bytes) /\ wire \in Seq(Bytes) /\ a \in Seq(Bytes)
  BY DEF TypeOK, Bytes
<1>6. todo' = <<>> /\ (wire' = wire \/ wire' = wire \o a)
  BY <1>1, <1>3, <1>4 DEF DeviceAnswers
<1>. HIDE DEF a
<1>7. buffer \o (wire \o a) = a
  BY <1>3, <1>5, ConcatAssociative, ConcatEmptySeq
<1>8. buffer' \o wire' \in {<<>>, a}
  BY <1>2, <1>3, <1>6, <1>7
<1>. QED  BY <1>2, <1>3, <1>6, <1>8 DEF a

LEMMA CleanCorrect == Spec => []CleanInv
<1>1. Init => CleanInv
  BY DEF Init, CleanInv
<1>2. TypeOK /\ CleanInv /\ [Next]_vars => CleanInv'
  <2>. SUFFICES ASSUME TypeOK, CleanInv, [Next]_vars
                PROVE  CleanInv'
    OBVIOUS
  <2>1. CASE UNCHANGED vars
    BY <2>1 DEF vars, threadVars, clientVars, deviceVars, CleanInv, Clean
  <2>. QED  BY <2>1, CleanAtReader, CleanAtClient, CleanAtDevice DEF Next
<1>. QED  BY <1>1, <1>2, CommTypeCorrect, PTL DEF Spec

\* What one call returned is as CleanCommunicate says.
OwnAnswer(r) ==
    (r.op.kind = "communicate" /\ r.op.clean /\ r.outcome = "line")
      => r.got = <<r.op.id>>

\* What the calls return: nothing, something without a line, or a line.
LEMMA ReturnShape ==
    ASSUME TypeOK, [Next]_vars
    PROVE  \/ UNCHANGED results
           \/ \E o, out, got : Returns(o, out, got) /\ out # "line"
           \/ GetLine
<1>. DEFINE Silent == \E o, out, got : Returns(o, out, got) /\ out # "line"
<1>1. ReaderStep \/ DeviceAnswers \/ Disconnect \/ UNCHANGED vars => UNCHANGED results
  BY DEF ReaderStep, ReaderGets, ReaderFails, Reconnect, ReaderStops,
         DeviceAnswers, Disconnect, clientVars, vars
<1>2. ReadLine \/ DropClient \/ Setup => UNCHANGED results
  BY DEF ReadLine, DropClient, Setup
<1>3. ASSUME NEW o, NEW got, NEW out \in {"data", "written", "timeout", "error"},
             Returns(o, out, got)
      PROVE  Silent
  BY <1>3
<1>. HIDE DEF Silent
<1>4. Communicate \/ WriteLine \/ Write => UNCHANGED results \/ Silent
  BY <1>3 DEF Communicate, WriteLine, Write
<1>5. ReadBuffer \/ TimeOut => Silent
  BY <1>3 DEF ReadBuffer, TimeOut
<1>. QED  BY <1>1, <1>2, <1>4, <1>5 DEF Next, ClientStep, Silent

\* A communicate that is made when nothing is left on its way returns the whole
\* answer to its own request, unless the connection is lost (comm.rs:100-106):
\* clearing the buffer is enough, whatever the calls before it left there.
THEOREM CleanAnswers == Spec => []CleanCommunicate
<1>. DEFINE Kept == \A i \in 1 .. Len(results) : OwnAnswer(results[i])
<1>1. Init => Kept
  BY DEF Init
<1>2. TypeOK /\ WokenFindsLine /\ CleanInv /\ Kept /\ [Next]_vars => Kept'
  <2>. SUFFICES ASSUME TypeOK, WokenFindsLine, CleanInv, Kept, [Next]_vars
                PROVE  Kept'
    OBVIOUS
  <2>0. results \in Seq(Result) /\ buffer \in Seq(Bytes) /\ wire \in Seq(Bytes)
    BY DEF TypeOK
  <2>1. ASSUME NEW o, NEW out, NEW got, Returns(o, out, got),
               OwnAnswer([op |-> o, outcome |-> out, got |-> got])
        PROVE  Kept'
    <3>. DEFINE r == [op |-> o, outcome |-> out, got |-> got]
    <3>1. results' = Append(results, r)
      BY <2>1 DEF Returns
    <3>. HIDE DEF r
    <3>2. /\ Len(results') = Len(results) + 1 /\ Len(results) \in Nat
          /\ \A i \in 1 .. Len(results) : results'[i] = results[i]
          /\ results'[Len(results) + 1] = r
      BY <2>0, <3>1, LenProperties
    <3>3. ASSUME NEW i \in 1 .. Len(results')
          PROVE  OwnAnswer(results'[i])
      <4>1. i \in 1 .. Len(results) \/ i = Len(results) + 1
        BY <3>2
      <4>2. OwnAnswer(r)
        BY <2>1 DEF r
      <4>. QED  BY <3>2, <4>1, <4>2
    <3>. QED  BY <3>3 DEF OwnAnswer
  <2>2. CASE UNCHANGED results
    BY <2>2 DEF OwnAnswer
  <2>3. CASE \E o, out, got : Returns(o, out, got) /\ out # "line"
    <3>1. PICK o, out, got : Returns(o, out, got) /\ out # "line"
      BY <2>3
    <3>2. OwnAnswer([op |-> o, outcome |-> out, got |-> got])
      BY <3>1 DEF OwnAnswer
    <3>. QED  BY <2>1, <3>1, <3>2
  <2>4. CASE GetLine
    <3>. DEFINE got == SubSeq(buffer, 1, FirstEOL(buffer) - 1)
    <3>1. Returns(op, "line", got) /\ HasLine(buffer) /\ client = "notified"
      BY <2>4 DEF GetLine, WokenFindsLine
    <3>2. Clean => got = <<op.id>>
      BY <2>0, <3>1, CleanLine DEF CleanInv
    <3>. HIDE DEF got
    <3>3. OwnAnswer([op |-> op, outcome |-> "line", got |-> got])
      BY <3>2 DEF OwnAnswer, Clean
    <3>. QED  BY <2>1, <3>1, <3>3
  <2>. HIDE DEF Kept
  <2>. QED  BY <2>2, <2>3, <2>4, ReturnShape
<1>3. Kept => CleanCommunicate
  BY DEF OwnAnswer, CleanCommunicate
<1>. HIDE DEF Kept
<1>. QED  BY <1>1, <1>2, <1>3, CommTypeCorrect, WokenHasLine, CleanCorrect, PTL DEF Spec
=============================================================================
