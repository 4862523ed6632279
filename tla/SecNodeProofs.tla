---------------------------- MODULE SecNodeProofs ----------------------------
(***************************************************************************)
(* Proofs about SecNode, for every set of handlers, finite set of modules, *)
(* set of values and menu of requests.                                     *)
(***************************************************************************)
EXTENDS SecNode, NodeLemmas

-----------------------------------------------------------------------------
(* Type correctness *)

\* What the lemmas about dispatcher and modules need.
LEMMA NodeTyped ==
    ASSUME TypeOK
    PROVE  NodeTypes
BY DEF TypeOK, NodeTypes

\* What a client asks for is a typed request.
LEMMA RequestOfType ==
    ASSUME TypeOK, NEW h \in Handlers, NEW c \in Menu
    PROVE  RequestOf(h, c) \in Request
<1>1. c \in [kind : RequestKinds, mod : Names, val : Vals \cup {NoVal}]
  BY ConnectionAssumption DEF ConnectionAssumption
<1>2. Len(asked[h]) + 1 \in Nat
  <2>1. asked[h] \in Seq(Request)
    BY DEF TypeOK, ConnectionTypeOK
  <2>. QED  BY <2>1, LenProperties
<1>. QED  BY <1>1, <1>2 DEF RequestOf, Request

\* A step of a connection.
LEMMA ConnectionType ==
    ASSUME TypeOK, NEW h \in Handlers, ConnectionNext(h)
    PROVE  ChannelsTypeOK' /\ ConnectionTypeOK'
<1>. USE DEF TypeOK, ChannelsTypeOK, ConnectionTypeOK
<1>1. CASE Accept(h)
  BY <1>1, AppendProperties DEF Accept
<1>2. CASE ForwardRequest(h)
  <2>1. PICK c \in Menu : Asks(h, c) /\ requests' = Append(requests, RequestOf(h, c))
    BY <1>2 DEF ForwardRequest
  <2>2. /\ Append(requests, RequestOf(h, c)) \in Seq(Request)
        /\ Append(asked[h], RequestOf(h, c)) \in Seq(Request)
    BY RequestOfType, AppendProperties
  <2>. QED  BY <1>2, <2>1, <2>2 DEF ForwardRequest, Asks
<1>3. CASE AnswerLocally(h)
  <2>1. PICK c \in Menu :
          /\ Asks(h, c)
          /\ \/ /\ outbox' = [outbox EXCEPT ![h] = Append(@, Answer(RequestOf(h, c), "pong"))]
                /\ UNCHANGED conn
             \/ /\ conn' = [conn EXCEPT ![h] = "crashed"]
                /\ UNCHANGED outbox
    BY <1>3 DEF AnswerLocally
  <2>2. Append(asked[h], RequestOf(h, c)) \in Seq(Request)
    BY RequestOfType, AppendProperties
  <2>3. Append(outbox[h], Answer(RequestOf(h, c), "pong")) \in Seq(Message)
    <3>1. Answer(RequestOf(h, c), "pong") \in Message  BY RequestOfType, AnswerType
    <3>. QED  BY <3>1, AppendProperties
  <2>4. UNCHANGED <<connections, requests, modq, replies>>
    BY <1>3 DEF AnswerLocally
  <2>5. asked' \in [Handlers -> Seq(Request)]
    BY <2>1, <2>2 DEF Asks
  <2>6. outbox' \in [Handlers -> Seq(Message)]
    BY <2>1, <2>3
  <2>7. conn' \in [Handlers -> {"new", "open", "deaf", "closed", "crashed"}]
    BY <2>1
  <2>. QED  BY <2>4, <2>5, <2>6, <2>7
<1>4. CASE HangUp(h)
  <2>1. PICK c \in Menu : requests' = Append(requests, [RequestOf(h, c) EXCEPT !.id = 0])
    BY <1>4 DEF HangUp
  <2>2. [RequestOf(h, c) EXCEPT !.id = 0] \in Request
    BY RequestOfType, Zenon DEF Request, RequestOf
  <2>. QED  BY <1>4, <2>1, <2>2, AppendProperties DEF HangUp
<1>5. CASE SenderFails(h)
  BY <1>5 DEF SenderFails, chanVars
<1>. QED  BY <1>1, <1>2, <1>3, <1>4, <1>5 DEF ConnectionNext

\* The channels carry only messages their readers expect, and the state of the
\* dispatcher, the modules and the connections is well-formed, always.
THEOREM TypeCorrect == Spec => []TypeOK
<1>1. Init => TypeOK
  BY ModuleAssumption
  DEF ModuleAssumption, Init, ChannelsInit, DispatcherInit, ModuleInit, ConnectionInit,
      TypeOK, ChannelsTypeOK, DispatcherTypeOK, ModuleTypeOK, ConnectionTypeOK
<1>2. TypeOK /\ [Next]_vars => TypeOK'
  <2>. SUFFICES ASSUME TypeOK, [Next]_vars
                PROVE  TypeOK'
    OBVIOUS
  <2>1. CASE DispatcherStep
    BY <2>1, NodeTyped, DispatcherType
    DEF DispatcherStep, TypeOK, ModuleTypeOK, ConnectionTypeOK, modVars, connVars
  <2>2. ASSUME NEW m \in Mods, ModuleStep(m)
        PROVE  TypeOK'
    BY <2>2, NodeTyped, ModuleType
    DEF ModuleStep, TypeOK, DispatcherTypeOK, ConnectionTypeOK, dispVars, connVars
  <2>3. ASSUME NEW h \in Handlers, ConnectionStep(h)
        PROVE  TypeOK'
    BY <2>3, ConnectionType
    DEF ConnectionStep, TypeOK, DispatcherTypeOK, ModuleTypeOK, dispVars, modVars
  <2>4. CASE UNCHANGED vars
    BY <2>4
    DEF vars, chanVars, dispVars, modVars, connVars,
        TypeOK, ChannelsTypeOK, DispatcherTypeOK, ModuleTypeOK, ConnectionTypeOK
  <2>. QED  BY <2>1, <2>2, <2>3, <2>4 DEF Next
<1>. QED  BY <1>1, <1>2, PTL DEF Spec

-----------------------------------------------------------------------------
(* The count of a global activation                                         *)

GlobalRequests == {r \in Request : r.kind = "activate" /\ r.mod = All}

GlobalAnswers(m) ==
    {e \in ModReply : e.kind = "initupdates" /\ e.mod = All /\ e.from = m}

\* GlobalCount, in terms of occurrences.
StillOwing ==
    {m \in Mods : ~None(modq[m], GlobalRequests) \/ ~None(replies, GlobalAnswers(m))}

Once(m) ==
    /\ AtMostOne(modq[m], GlobalRequests)
    /\ AtMostOne(replies, GlobalAnswers(m))
    /\ None(modq[m], GlobalRequests) \/ None(replies, GlobalAnswers(m))

CountInv ==
    /\ Cardinality(StillOwing) <= remaining
    /\ \A m \in Mods : Once(m)

LEMMA CountInvIsGlobalCount ==
    ASSUME TypeOK
    PROVE  CountInv <=> GlobalCount
<1>1. ASSUME NEW m \in Mods
      PROVE  /\ \A i \in 1 .. Len(modq[m]) :
                  modq[m][i] \in GlobalRequests <=> i \in QueuedGlobal(m)
             /\ \A i \in 1 .. Len(replies) :
                  replies[i] \in GlobalAnswers(m) <=> i \in AnsweredGlobal(m)
  <2>1. \A i \in 1 .. Len(modq[m]) : modq[m][i] \in Request
    BY ElementOfSeq DEF TypeOK, ChannelsTypeOK
  <2>2. \A i \in 1 .. Len(replies) : replies[i] \in ModReply
    BY ElementOfSeq DEF TypeOK, ChannelsTypeOK
  <2>. QED
    BY <2>1, <2>2 DEF GlobalRequests, GlobalAnswers, QueuedGlobal, AnsweredGlobal
<1>2. ASSUME NEW m \in Mods
      PROVE  /\ None(modq[m], GlobalRequests) <=> QueuedGlobal(m) = {}
             /\ None(replies, GlobalAnswers(m)) <=> AnsweredGlobal(m) = {}
             /\ AtMostOne(modq[m], GlobalRequests)
                  <=> \A i, j \in QueuedGlobal(m) : i = j
             /\ AtMostOne(replies, GlobalAnswers(m))
                  <=> \A i, j \in AnsweredGlobal(m) : i = j
  <2>1. /\ QueuedGlobal(m) \subseteq 1 .. Len(modq[m])
        /\ AnsweredGlobal(m) \subseteq 1 .. Len(replies)
    BY DEF QueuedGlobal, AnsweredGlobal
  <2>. QED  BY <1>1, <2>1 DEF None, AtMostOne
<1>3. StillOwing = Owing
  BY <1>2 DEF StillOwing, Owing
<1>. QED  BY <1>2, <1>3 DEF CountInv, Once, GlobalCount

\* Queue t has nothing of G that s does not have.
Keeps(s, t, G) ==
    /\ AtMostOne(s, G) => AtMostOne(t, G)
    /\ None(s, G) => None(t, G)

\* Finitely many modules owe an answer.
LEMMA StillOwingFinite ==
    ASSUME NEW T \in SUBSET Mods
    PROVE  IsFiniteSet(T) /\ Cardinality(T) \in Nat
<1>1. IsFiniteSet(Mods)
  BY ChannelsAssumption DEF ChannelsAssumption
<1>. QED  BY <1>1, FS_Subset, FS_CardinalityType

\* A step that adds nothing to any queue, and leaves the count.
LEMMA NothingAdded ==
    ASSUME TypeOK, CountInv, remaining' = remaining,
           \A m \in Mods : /\ Keeps(modq[m], modq'[m], GlobalRequests)
                           /\ Keeps(replies, replies', GlobalAnswers(m))
    PROVE  CountInv'
<1>1. \A m \in Mods : Once(m)'
  BY DEF CountInv, Once, Keeps
<1>2. StillOwing' \subseteq StillOwing
  BY DEF StillOwing, Keeps
<1>3. Cardinality(StillOwing') <= Cardinality(StillOwing)
  <2>1. IsFiniteSet(StillOwing)  BY StillOwingFinite DEF StillOwing
  <2>. QED  BY <1>2, <2>1, FS_Subset
<1>4. /\ Cardinality(StillOwing) \in Nat
      /\ Cardinality(StillOwing') \in Nat
      /\ remaining \in Int
  <2>1. StillOwing \in SUBSET Mods /\ StillOwing' \in SUBSET Mods  BY DEF StillOwing
  <2>. QED  BY <2>1, StillOwingFinite DEF TypeOK, DispatcherTypeOK
<1>. QED  BY <1>1, <1>3, <1>4 DEF CountInv

LEMMA KeepsSame ==
    ASSUME NEW s, NEW G
    PROVE  Keeps(s, s, G)
BY DEF Keeps

\* Forwarding a request that is no global activation.
LEMMA ForwardKeeps ==
    ASSUME TypeOK, NEW T, NEW r \in Request, r \notin GlobalRequests, Forward(T, r),
           NEW m \in Mods
    PROVE  Keeps(modq[m], modq'[m], GlobalRequests)
<1>1. modq[m] \in Seq(Request)
  BY DEF TypeOK, ChannelsTypeOK
<1>2. Keeps(modq[m], Append(modq[m], r), GlobalRequests)
  BY <1>1, AppendOther DEF Keeps
<1>3. modq'[m] = Append(modq[m], r) \/ modq'[m] = modq[m]
  BY DEF Forward
<1>. QED  BY <1>2, <1>3, KeepsSame

\* The dispatcher takes a reply.
LEMMA TakeReplyKeeps ==
    ASSUME TypeOK, TakeReply, NEW m \in Mods
    PROVE  /\ Keeps(modq[m], modq'[m], GlobalRequests)
           /\ Keeps(replies, replies', GlobalAnswers(m))
<1>1. replies \in Seq(ModReply) /\ replies # <<>> /\ replies' = Tail(replies)
  BY DEF TakeReply, TypeOK, ChannelsTypeOK
<1>2. Keeps(replies, replies', GlobalAnswers(m))
  BY <1>1, TailCount DEF Keeps
<1>. QED  BY <1>2, KeepsSame DEF TakeReply

\* A module takes a request.
LEMMA TakeModRequestKeeps ==
    ASSUME TypeOK, NEW m \in Mods, modq[m] # <<>>,
           modq' = [modq EXCEPT ![m] = Tail(@)], NEW n \in Mods
    PROVE  Keeps(modq[n], modq'[n], GlobalRequests)
<1>1. modq \in [Mods -> Seq(Request)]
  BY DEF TypeOK, ChannelsTypeOK
<1>2. Keeps(modq[m], Tail(modq[m]), GlobalRequests)
  BY <1>1, TailCount DEF Keeps
<1>3. modq'[n] = IF n = m THEN Tail(modq[m]) ELSE modq[n]
  BY <1>1
<1>. QED  BY <1>2, <1>3, KeepsSame

\* A module sends something that does not answer a global activation.
LEMMA SendKeeps ==
    ASSUME TypeOK, NEW es \in Seq(ModReply), Send(es), NEW m \in Mods,
           None(es, GlobalAnswers(m))
    PROVE  Keeps(replies, replies', GlobalAnswers(m))
<1>1. replies \in Seq(ModReply)
  BY DEF TypeOK, ChannelsTypeOK
<1>2. Keeps(replies, replies \o es, GlobalAnswers(m))
  BY <1>1, ConcatCount DEF Keeps
<1>. QED  BY <1>2 DEF Send

\* Nothing but the answer to a global activation counts.
LEMMA NotCounted ==
    ASSUME NEW m \in Mods, NEW e \in ModReply, e.kind # "initupdates" \/ e.mod # All
    PROVE  None(<<e>>, GlobalAnswers(m))
<1>1. e \notin GlobalAnswers(m)
  BY DEF GlobalAnswers
<1>. QED  BY <1>1, NoneOfOne

LEMMA AnnounceNotCounted ==
    ASSUME NEW n \in Mods, NEW m \in Mods, NEW old, NEW new \in Vals
    PROVE  None(Announce(n, old, new), GlobalAnswers(m))
<1>1. Event(n, new) \in ModReply /\ Event(n, new).kind = "update"
  BY DEF Event, ModReply, Names
<1>2. None(<<Event(n, new)>>, GlobalAnswers(m))
  BY <1>1, NotCounted
<1>. QED  BY <1>2, NoneOfEmpty DEF Announce

\* An event, if there is one, and an answer.
LEMMA AnswerNotCounted ==
    ASSUME NEW n \in Mods, NEW m \in Mods, NEW old, NEW new \in Vals,
           NEW e \in ModReply, e.kind # "initupdates"
    PROVE  /\ <<e>> \in Seq(ModReply)
           /\ None(<<e>>, GlobalAnswers(m))
           /\ Announce(n, old, new) \o <<e>> \in Seq(ModReply)
           /\ None(Announce(n, old, new) \o <<e>>, GlobalAnswers(m))
<1>1. <<e>> \in Seq(ModReply)
  OBVIOUS
<1>2. None(<<e>>, GlobalAnswers(m))
  BY NotCounted
<1>3. Announce(n, old, new) \in Seq(ModReply)
  BY AnnounceType
<1>4. None(Announce(n, old, new), GlobalAnswers(m))
  BY AnnounceNotCounted
<1>. QED  BY <1>1, <1>2, <1>3, <1>4, ConcatNone, ConcatProperties

LEMMA InitialNotCounted ==
    ASSUME TypeOK, NEW n \in Mods, NEW m \in Mods
    PROVE  /\ None(InitialEvents(n), GlobalAnswers(m))
           /\ None(InitialEvents(n) \o Description(n), GlobalAnswers(m))
<1>1. InitialValue(n) \in Vals
  BY NodeTyped, InitialType
<1>2. None(InitialEvents(n), GlobalAnswers(m))
  BY <1>1, AnnounceNotCounted, NoneOfEmpty DEF InitialEvents
<1>3. None(Description(n), GlobalAnswers(m))
  <2>. DEFINE d == [to |-> Nobody, id |-> 0, from |-> n, mod |-> n,
                    kind |-> "describing", val |-> NoVal]
  <2>1. d \in ModReply /\ d.kind # "initupdates"
    BY DEF ModReply, Names
  <2>2. None(<<d>>, GlobalAnswers(m))
    BY <2>1, NotCounted
  <2>. QED  BY <2>2, NoneOfEmpty DEF Description
<1>. QED  BY <1>2, <1>3, NodeTyped, InitialType, DescriptionType, ConcatNone

-----------------------------------------------------------------------------
\* The dispatcher begins a global activation: every module owes one answer.
LEMMA CountAtActivateAll ==
    ASSUME TypeOK, CountInv, DispatchActivateAll
    PROVE  CountInv'
<1>. DEFINE r == Head(requests)
<1>1. r \in Request /\ r.kind = "activate" /\ r.mod = All /\ replies' = replies
  BY NodeTyped, RequestsType DEF DispatchActivateAll, TakeRequest
<1>2. CASE Busy
  <2>1. remaining' = remaining /\ modq' = modq
    BY <1>2, Zenon DEF DispatchActivateAll
  <2>. QED  BY <1>1, <2>1, NothingAdded, KeepsSame
<1>3. CASE ~Busy
  <2>1. remaining' = Cardinality(Mods) /\ Forward(Mods, r)
    BY <1>3, Zenon DEF DispatchActivateAll, Awaited
  <2>2. StillOwing = {}
    <3>1. Cardinality(StillOwing) \in Nat /\ IsFiniteSet(StillOwing)
      BY StillOwingFinite DEF StillOwing
    <3>2. Cardinality(StillOwing) = 0
      BY <1>3, <3>1 DEF CountInv, Busy, TypeOK, DispatcherTypeOK
    <3>. QED  BY <3>1, <3>2, FS_EmptySet
  <2>3. ASSUME NEW m \in Mods
        PROVE  Once(m)'
    <3>. DEFINE G == GlobalRequests
    <3>1. None(modq[m], G) /\ None(replies', GlobalAnswers(m))
      BY <1>1, <2>2 DEF StillOwing
    <3>2. modq[m] \in Seq(Request) /\ modq'[m] = Append(modq[m], r)
      BY <2>1 DEF Forward, TypeOK, ChannelsTypeOK
    <3>. HIDE DEF G
    <3>3. AtMostOne(modq'[m], G)
      <4>1. AtMostOne(Append(modq[m], r), G)
        BY <1>1, <3>1, <3>2, AppendCount, Zenon
      <4>. QED  BY <3>2, <4>1
    <3>. QED  BY <3>1, <3>3, NoneIsAtMostOne DEF Once, G
  <2>4. Cardinality(StillOwing') <= Cardinality(Mods)
    <3>1. StillOwing' \subseteq Mods  BY DEF StillOwing
    <3>. QED  BY <3>1, ChannelsAssumption, FS_Subset DEF ChannelsAssumption
  <2>. QED  BY <2>1, <2>3, <2>4 DEF CountInv
<1>. QED  BY <1>2, <1>3

\* A module answers a global activation: it owes as much as before.
LEMMA CountAtHandleActivate ==
    ASSUME TypeOK, CountInv, NEW n \in Mods, HandleActivate(n), remaining' = remaining
    PROVE  CountInv'
<1>. DEFINE r == Head(modq[n])
            v == IF cache[n] \in Representable THEN cache[n] ELSE NoVal
            e == Reply(n, r, "initupdates", v)
<1>1. /\ modq \in [Mods -> Seq(Request)]
      /\ replies \in Seq(ModReply)
      /\ modq[n] # <<>>
      /\ modq' = [modq EXCEPT ![n] = Tail(@)]
      /\ r \in Request
      /\ r.kind = "activate"
  BY NodeTyped, TakeModRequestType, TakeType
  DEF HandleActivate, TakeModRequest, TypeOK, ChannelsTypeOK
<1>2. /\ e \in ModReply
      /\ e.from = n /\ e.mod = r.mod /\ e.kind = "initupdates"
  <2>1. v \in Vals \cup {NoVal}  BY DEF TypeOK, ModuleTypeOK
  <2>. QED  BY <1>1, <2>1, MessagesType DEF Reply
<1>3. Send(<<e>>) /\ <<e>> \in Seq(ModReply)
  BY <1>2 DEF HandleActivate
<1>. HIDE DEF e, v
<1>4. ASSUME NEW m \in Mods
      PROVE  Keeps(modq[m], modq'[m], GlobalRequests)
  BY <1>1, TakeModRequestKeeps
<1>5. CASE r.mod # All
  <2>1. ASSUME NEW m \in Mods
        PROVE  Keeps(replies, replies', GlobalAnswers(m))
    <3>1. None(<<e>>, GlobalAnswers(m))
      BY <1>2, <1>5, NotCounted
    <3>. QED  BY <1>3, <3>1, SendKeeps
  <2>. QED  BY <1>4, <2>1, NothingAdded
<1>6. CASE r.mod = All
  <2>1. ~None(modq[n], GlobalRequests) /\ None(modq'[n], GlobalRequests)
    <3>1. r \in GlobalRequests  BY <1>1, <1>6 DEF GlobalRequests
    <3>2. AtMostOne(modq[n], GlobalRequests)  BY DEF CountInv, Once
    <3>3. modq'[n] = Tail(modq[n]) /\ modq[n] \in Seq(Request)  BY <1>1
    <3>. QED  BY <1>1, <3>1, <3>2, <3>3, TailCount
  <2>2. Once(n)'
    <3>1. None(replies, GlobalAnswers(n))  BY <2>1 DEF CountInv, Once
    <3>2. replies' = Append(replies, e)
      BY <1>1, <1>2, <1>3, AppendIsConcat DEF Send
    <3>3. AtMostOne(replies', GlobalAnswers(n))
      BY <1>1, <1>2, <3>1, <3>2, AppendCount
    <3>. QED  BY <2>1, <3>3, NoneIsAtMostOne DEF Once
  <2>3. ASSUME NEW m \in Mods \ {n}
        PROVE  Keeps(replies, replies', GlobalAnswers(m))
    <3>1. e \notin GlobalAnswers(m)
      BY <1>2, <2>3 DEF GlobalAnswers
    <3>2. None(<<e>>, GlobalAnswers(m))
      BY <3>1, NoneOfOne
    <3>. QED  BY <1>3, <3>2, SendKeeps
  <2>4. \A m \in Mods : Once(m)'
    BY <1>4, <2>2, <2>3 DEF CountInv, Once, Keeps
  <2>5. StillOwing' \subseteq StillOwing
    BY <1>4, <2>1, <2>3 DEF StillOwing, Keeps
  <2>6. Cardinality(StillOwing') <= remaining'
    <3>1. StillOwing \in SUBSET Mods /\ StillOwing' \in SUBSET Mods
      BY DEF StillOwing
    <3>2. Cardinality(StillOwing') <= Cardinality(StillOwing)
      BY <2>5, <3>1, StillOwingFinite, FS_Subset
    <3>3. Cardinality(StillOwing) <= remaining  BY DEF CountInv
    <3>4. Cardinality(StillOwing) \in Nat /\ Cardinality(StillOwing') \in Nat
      BY <3>1, StillOwingFinite
    <3>. QED  BY <3>2, <3>3, <3>4 DEF TypeOK, DispatcherTypeOK
  <2>. QED  BY <2>4, <2>6 DEF CountInv
<1>. QED  BY <1>5, <1>6

\* The dispatcher takes the answer of a module to a global activation: the
\* module owes nothing more.
LEMMA CountAtInitUpdatesAll ==
    ASSUME TypeOK, CountInv, RouteInitUpdatesAll
    PROVE  CountInv'
<1>. DEFINE e == Head(replies)
            n == e.from
<1>1. /\ replies \in Seq(ModReply) /\ replies # <<>>
      /\ replies' = Tail(replies)
      /\ modq' = modq
      /\ e \in ModReply
      /\ e.kind = "initupdates" /\ e.mod = All
  BY NodeTyped, RepliesType DEF RouteInitUpdatesAll, TakeReply, TypeOK, ChannelsTypeOK
<1>2. remaining' = remaining - 1
  BY Zenon DEF RouteInitUpdatesAll, Countdown
<1>3. n \in Mods /\ e \in GlobalAnswers(n)
  BY <1>1 DEF ModReply, GlobalAnswers
<1>4. ASSUME NEW m \in Mods
      PROVE  /\ Keeps(modq[m], modq'[m], GlobalRequests)
             /\ Keeps(replies, replies', GlobalAnswers(m))
  BY TakeReplyKeeps DEF RouteInitUpdatesAll
<1>5. \A m \in Mods : Once(m)'
  BY <1>4 DEF CountInv, Once, Keeps
<1>6. /\ ~None(replies, GlobalAnswers(n))
      /\ None(replies', GlobalAnswers(n))
      /\ None(modq'[n], GlobalRequests)
  <2>1. Once(n)  BY <1>3 DEF CountInv
  <2>2. AtMostOne(replies, GlobalAnswers(n))  BY <2>1 DEF Once
  <2>3. /\ ~None(replies, GlobalAnswers(n))
        /\ None(replies', GlobalAnswers(n))
    BY <1>1, <1>3, <2>2, TailCount
  <2>. QED  BY <1>1, <2>1, <2>3 DEF Once
<1>7. n \in StillOwing /\ StillOwing' \subseteq StillOwing \ {n}
  BY <1>3, <1>4, <1>6 DEF StillOwing, Keeps
<1>8. Cardinality(StillOwing') <= remaining'
  <2>1. StillOwing \in SUBSET Mods /\ StillOwing' \in SUBSET Mods
    BY DEF StillOwing
  <2>2. Cardinality(StillOwing \ {n}) = Cardinality(StillOwing) - 1
    BY <1>7, <2>1, StillOwingFinite, FS_RemoveElement
  <2>3. Cardinality(StillOwing') <= Cardinality(StillOwing \ {n})
    <3>1. IsFiniteSet(StillOwing \ {n})  BY <2>1, StillOwingFinite, FS_Subset
    <3>. QED  BY <1>7, <3>1, FS_Subset
  <2>4. Cardinality(StillOwing) \in Nat /\ Cardinality(StillOwing') \in Nat
    BY <2>1, StillOwingFinite
  <2>5. Cardinality(StillOwing) <= remaining  BY DEF CountInv
  <2>. QED  BY <1>2, <2>2, <2>3, <2>4, <2>5 DEF TypeOK, DispatcherTypeOK
<1>. QED  BY <1>5, <1>8 DEF CountInv

\* The other steps of the dispatcher.
LEMMA CountAtDispatcher ==
    ASSUME TypeOK, CountInv, DispatcherNext
    PROVE  CountInv'
<1>1. CASE Register
  <2>1. modq' = modq /\ replies' = replies /\ remaining' = remaining
    BY <1>1 DEF Register
  <2>. QED  BY <2>1, NothingAdded, KeepsSame
<1>2. CASE DispatchRequest
  <2>. DEFINE r == Head(requests)
  <2>1. ASSUME NEW kinds, TakeRequest(kinds)
        PROVE  r \in Request /\ r.kind \in kinds /\ replies' = replies
    BY <2>1, NodeTyped, RequestsType DEF TakeRequest
  <2>. HIDE DEF r
  <2>2. ASSUME r \in Request, r \notin GlobalRequests,
               Forward({r.mod}, r) \/ modq' = modq,
               replies' = replies, remaining' = remaining
        PROVE  CountInv'
    <3>1. ASSUME NEW m \in Mods
          PROVE  Keeps(modq[m], modq'[m], GlobalRequests)
      BY <2>2, ForwardKeeps, KeepsSame
    <3>. QED  BY <2>2, <3>1, NothingAdded, KeepsSame
  <2>3. CASE DispatchCommand
    <3>0. r \in Request /\ r.kind \in ModuleRequests /\ replies' = replies
      BY <2>1, <2>3 DEF DispatchCommand
    <3>1. r \in Request /\ r \notin GlobalRequests /\ replies' = replies
      BY <3>0 DEF ModuleRequests, GlobalRequests
    <3>. QED  BY <2>2, <2>3, <3>1 DEF DispatchCommand, r
  <2>4. CASE DispatchActivateModule
    <3>0. r \in Request /\ replies' = replies
      BY <2>1, <2>4 DEF DispatchActivateModule
    <3>1. r \in Request /\ r.mod # All
      BY <3>0, <2>4 DEF DispatchActivateModule, r
    <3>2. r \notin GlobalRequests
      BY <3>1 DEF GlobalRequests
    <3>. QED  BY <2>2, <2>4, <3>0, <3>1, <3>2 DEF DispatchActivateModule, r
  <2>5. CASE DispatchActivateAll
    BY <2>5, CountAtActivateAll
  <2>6. CASE DispatchDeactivate \/ DispatchDescribe \/ DispatchQuit \/ DispatchUnexpected
    <3>1. modq' = modq /\ replies' = replies /\ remaining' = remaining
      BY <2>6
      DEF DispatchDeactivate, DispatchDescribe, DispatchQuit, DispatchUnexpected,
          TakeRequest, dispVars
    <3>. QED  BY <3>1, NothingAdded, KeepsSame
  <2>. QED  BY <1>2, <2>3, <2>4, <2>5, <2>6 DEF DispatchRequest
<1>3. CASE RouteReply
  <2>1. CASE RouteInitUpdatesAll
    BY <2>1, CountAtInitUpdatesAll
  <2>2. CASE RouteDescription \/ RouteEvent \/ RouteInitUpdates \/ RouteAnswer
    <3>1. TakeReply /\ remaining' = remaining
      BY <2>2 DEF RouteDescription, RouteEvent, RouteInitUpdates, RouteAnswer
    <3>. QED  BY <3>1, NothingAdded, TakeReplyKeeps
  <2>. QED  BY <1>3, <2>1, <2>2 DEF RouteReply
<1>. QED  BY <1>1, <1>2, <1>3 DEF DispatcherNext

\* The steps of a module: what it sends besides answers to a global activation
\* does not count, and a panic only takes requests away.
LEMMA CountAtModule ==
    ASSUME TypeOK, CountInv, NEW n \in Mods, ModuleNext(n), remaining' = remaining
    PROVE  CountInv'
<1>. DEFINE r == Head(modq[n])
<1>0. ASSUME NEW es \in Seq(ModReply), Send(es),
             \A m \in Mods : None(es, GlobalAnswers(m)),
             modq' = modq \/ (modq[n] # <<>> /\ modq' = [modq EXCEPT ![n] = Tail(@)])
      PROVE  CountInv'
  <2>1. ASSUME NEW m \in Mods
        PROVE  /\ Keeps(modq[m], modq'[m], GlobalRequests)
               /\ Keeps(replies, replies', GlobalAnswers(m))
    BY <1>0, SendKeeps, TakeModRequestKeeps, KeepsSame
  <2>. QED  BY <2>1, NothingAdded
<1>1. ASSUME NEW kind, TakeModRequest(n, kind)
      PROVE  /\ r \in Request
             /\ modq[n] # <<>> /\ modq' = [modq EXCEPT ![n] = Tail(@)]
  BY <1>1, NodeTyped, TakeModRequestType DEF TakeModRequest
<1>2. ASSUME replies' = replies,
             modq' = modq \/ (modq[n] # <<>> /\ modq' = [modq EXCEPT ![n] = Tail(@)])
      PROVE  CountInv'
  <2>1. ASSUME NEW m \in Mods
        PROVE  Keeps(modq[m], modq'[m], GlobalRequests)
    BY <1>2, TakeModRequestKeeps, KeepsSame
  <2>. QED  BY <1>2, <2>1, NothingAdded, KeepsSame
<1>3. CASE StartOk(n)
  <2>1. /\ Send(InitialEvents(n) \o Description(n)) /\ modq' = modq
        /\ InitialEvents(n) \o Description(n) \in Seq(ModReply)
        /\ \A m \in Mods : None(InitialEvents(n) \o Description(n), GlobalAnswers(m))
    BY <1>3, NodeTyped, InitialType, InitialNotCounted DEF StartOk
  <2>. QED  BY <1>0, <2>1
<1>4. CASE StartFails(n)
  <2>1. /\ modq' = modq
        /\ InitialEvents(n) \in Seq(ModReply)
        /\ \A m \in Mods : None(InitialEvents(n), GlobalAnswers(m))
        /\ replies' = replies \/ Send(InitialEvents(n))
    BY <1>4, NodeTyped, InitialType, InitialNotCounted DEF StartFails
  <2>. QED  BY <1>0, <1>2, <2>1
<1>. HIDE DEF r
<1>5. CASE HandleRead(n)
  <2>. DEFINE v == IF Class[n] = "sw" THEN cache[n] ELSE hw[n]
  <2>1. r \in Request /\ modq[n] # <<>> /\ modq' = [modq EXCEPT ![n] = Tail(@)]
    BY <1>1, <1>5 DEF HandleRead
  <2>2. v \in Vals  BY DEF TypeOK, ModuleTypeOK
  <2>3. /\ Refusal(n, r) \in ModReply /\ Refusal(n, r).kind # "initupdates"
        /\ Report(n, r, "update", v) \in ModReply
        /\ Report(n, r, "update", v).kind # "initupdates"
    <3>1. Refusal(n, r) \in ModReply /\ Report(n, r, "update", v) \in ModReply
      BY <2>1, <2>2, MessagesType
    <3>. QED  BY <3>1 DEF Report, Refusal, Reply
  <2>4. \/ Send(<<Refusal(n, r)>>)
        \/ Send(Announce(n, cache[n], v) \o <<Report(n, r, "update", v)>>)
    BY <1>5 DEF HandleRead, r
  <2>. HIDE DEF v
  <2>. QED  BY <1>0, <2>1, <2>2, <2>3, <2>4, AnswerNotCounted
<1>6. CASE HandleChange(n)
  <2>1. r \in Request /\ modq[n] # <<>> /\ modq' = [modq EXCEPT ![n] = Tail(@)]
    BY <1>1, <1>6 DEF HandleChange
  <2>2. Refusal(n, r) \in ModReply /\ Refusal(n, r).kind # "initupdates"
    <3>1. Refusal(n, r) \in ModReply
      BY <2>1, ModuleAssumption, MessagesType DEF ModuleAssumption
    <3>. QED  BY <3>1 DEF Refusal, Reply
  <2>3. CASE Send(<<Refusal(n, r)>>)
    <3>1. DefaultVal \in Vals  BY ModuleAssumption DEF ModuleAssumption
    <3>. QED  BY <1>0, <2>1, <2>2, <2>3, <3>1, AnswerNotCounted
  <2>4. CASE /\ r.val \in Representable
             /\ \/ Send(Announce(n, cache[n], r.val) \o <<Reply(n, r, "changed", r.val)>>)
                \/ Send(Announce(n, cache[n], r.val) \o <<Refusal(n, r)>>)
    <3>1. r.val \in Vals  BY <2>4, ModuleAssumption DEF ModuleAssumption
    <3>2. /\ Reply(n, r, "changed", r.val) \in ModReply
          /\ Reply(n, r, "changed", r.val).kind # "initupdates"
      <4>1. Reply(n, r, "changed", r.val) \in ModReply  BY <2>1, <3>1, MessagesType
      <4>. QED  BY <4>1 DEF Reply
    <3>. QED  BY <1>0, <2>1, <2>2, <2>4, <3>1, <3>2, AnswerNotCounted
  <2>. QED  BY <1>6, <2>3, <2>4 DEF HandleChange, r
<1>7. CASE HandleDo(n)
  <2>1. r \in Request /\ modq[n] # <<>> /\ modq' = [modq EXCEPT ![n] = Tail(@)]
    BY <1>1, <1>7 DEF HandleDo
  <2>2. /\ Refusal(n, r) \in ModReply /\ Refusal(n, r).kind # "initupdates"
        /\ Reply(n, r, "done", NoVal) \in ModReply
        /\ Reply(n, r, "done", NoVal).kind # "initupdates"
    <3>1. Refusal(n, r) \in ModReply /\ Reply(n, r, "done", NoVal) \in ModReply
      BY <2>1, MessagesType
    <3>. QED  BY <3>1 DEF Refusal, Reply
  <2>3. Send(<<Refusal(n, r)>>) \/ Send(<<Reply(n, r, "done", NoVal)>>)
    BY <1>7 DEF HandleDo, r
  <2>4. DefaultVal \in Vals  BY ModuleAssumption DEF ModuleAssumption
  <2>. QED  BY <1>0, <2>1, <2>2, <2>3, <2>4, AnswerNotCounted
<1>8. CASE HandleActivate(n)
  BY <1>8, CountAtHandleActivate
<1>9. CASE Poll(n)
  <2>1. /\ Send(Announce(n, cache[n], hw[n])) /\ modq' = modq /\ hw[n] \in Vals
    BY <1>9 DEF Poll, TypeOK, ModuleTypeOK
  <2>. QED  BY <1>0, <2>1, AnnounceType, AnnounceNotCounted
<1>10. CASE Panic(n)
  BY <1>2, <1>10 DEF Panic
<1>11. CASE Drain(n)
  <2>1. modq' = [modq EXCEPT ![n] = <<>>] /\ replies' = replies
    BY <1>11 DEF Drain
  <2>2. ASSUME NEW m \in Mods
        PROVE  Keeps(modq[m], modq'[m], GlobalRequests)
    <3>1. modq'[m] = <<>> \/ modq'[m] = modq[m]
      BY <2>1 DEF TypeOK, ChannelsTypeOK
    <3>. QED  BY <3>1, NoneOfEmpty, KeepsSame DEF Keeps
  <2>. QED  BY <2>1, <2>2, NothingAdded, KeepsSame
<1>12. CASE Wake(n) \/ HardwareDrift(n)
  <2>1. modq' = modq /\ replies' = replies
    BY <1>12 DEF Wake, HardwareDrift, chanVars
  <2>. QED  BY <1>2, <2>1
<1>. QED
  BY <1>3, <1>4, <1>5, <1>6, <1>7, <1>8, <1>9, <1>10, <1>11, <1>12
  DEF ModuleNext, HandleRequest

\* The count of a global activation never runs below the number of modules that
\* have still to answer (server.rs:214-229, 291-298), for any number of
\* modules, however they fail and restart.
THEOREM CountCorrect == Spec => []GlobalCount
<1>1. Init => CountInv
  <2>. SUFFICES ASSUME Init PROVE CountInv
    OBVIOUS
  <2>1. /\ remaining = 0 /\ replies = <<>>
        /\ \A m \in Mods : modq[m] = <<>>
    BY DEF Init, ChannelsInit, DispatcherInit
  <2>2. \A m \in Mods : Once(m)
    BY <2>1, NoneOfEmpty DEF Once
  <2>3. StillOwing = {}
    BY <2>1, NoneOfEmpty DEF StillOwing
  <2>. QED  BY <2>1, <2>2, <2>3, FS_EmptySet DEF CountInv
<1>2. TypeOK /\ CountInv /\ [Next]_vars => CountInv'
  <2>. SUFFICES ASSUME TypeOK, CountInv, [Next]_vars
                PROVE  CountInv'
    OBVIOUS
  <2>1. CASE DispatcherStep
    BY <2>1, CountAtDispatcher DEF DispatcherStep
  <2>2. ASSUME NEW m \in Mods, ModuleStep(m)
        PROVE  CountInv'
    BY <2>2, CountAtModule DEF ModuleStep, dispVars
  <2>3. ASSUME NEW h \in Handlers, ConnectionStep(h)
        PROVE  CountInv'
    <3>1. modq' = modq /\ replies' = replies /\ remaining' = remaining
      BY <2>3
      DEF ConnectionStep, ConnectionNext, Accept, ForwardRequest, AnswerLocally, HangUp,
          SenderFails, dispVars, chanVars
    <3>. QED  BY <3>1, NothingAdded, KeepsSame
  <2>4. CASE UNCHANGED vars
    <3>1. modq' = modq /\ replies' = replies /\ remaining' = remaining
      BY <2>4 DEF vars, chanVars, dispVars
    <3>. QED  BY <3>1, NothingAdded, KeepsSame
  <2>. QED  BY <2>1, <2>2, <2>3, <2>4 DEF Next
<1>3. TypeOK /\ CountInv => GlobalCount
  BY CountInvIsGlobalCount
<1>. QED  BY <1>1, <1>2, <1>3, TypeCorrect, PTL DEF Spec

-----------------------------------------------------------------------------
(* The steps of a connection *)

\* A request of h is made: forwarded, or answered or not by the handler.
MakesRequest(h) ==
    \E r \in Request :
      /\ r.hid = h /\ r.id = Len(asked[h]) + 1 /\ r.kind # "quit"
      /\ r.kind = "describe" => r.mod = All
      /\ asked' = [asked EXCEPT ![h] = Append(@, r)]
      /\ \/ r.kind # "ping" /\ requests' = Append(requests, r) /\ outbox' = outbox
         \/ /\ requests' = requests
            /\ outbox' \in {outbox, [outbox EXCEPT ![h] = Append(@, Answer(r, "pong"))]}

SendsQuit(h) ==
    /\ \E r \in Request : /\ r.hid = h /\ r.id = 0 /\ r.kind = "quit"
                          /\ requests' = Append(requests, r)
    /\ UNCHANGED <<asked, outbox>>

\* Every step of a connection is of one of these shapes.
LEMMA ConnectionShape ==
    ASSUME TypeOK, NEW h \in Handlers, ConnectionNext(h)
    PROVE  /\ UNCHANGED <<modq, replies>>
           /\ \/ MakesRequest(h)
              \/ SendsQuit(h)
              \/ UNCHANGED <<requests, outbox, asked>>
<1>1. ASSUME NEW c \in Menu, Asks(h, c), c.kind # "quit"
      PROVE  LET r == RequestOf(h, c)
             IN  /\ r \in Request /\ r.hid = h /\ r.id = Len(asked[h]) + 1
                 /\ r.kind = c.kind
                 /\ r.kind = "describe" => r.mod = All
                 /\ asked' = [asked EXCEPT ![h] = Append(@, r)]
  <2>1. RequestOf(h, c) \in Request
    BY RequestOfType
  <2>. QED
    BY <1>1, <2>1, ConnectionAssumption DEF ConnectionAssumption, RequestOf, Asks
<1>2. CASE Accept(h) \/ SenderFails(h)
  BY <1>2 DEF Accept, SenderFails, chanVars
<1>3. CASE ForwardRequest(h)
  <2>1. PICK c \in Menu : /\ c.kind \notin {"ping", "quit"}
                          /\ Asks(h, c)
                          /\ requests' = Append(requests, RequestOf(h, c))
    BY <1>3 DEF ForwardRequest
  <2>. DEFINE r == RequestOf(h, c)
  <2>2. /\ r \in Request /\ r.hid = h /\ r.id = Len(asked[h]) + 1
        /\ r.kind \notin {"ping", "quit"}
        /\ r.kind = "describe" => r.mod = All
        /\ asked' = [asked EXCEPT ![h] = Append(@, r)]
        /\ requests' = Append(requests, r)
    BY <1>1, <2>1
  <2>3. UNCHANGED <<modq, replies, outbox>>
    BY <1>3 DEF ForwardRequest
  <2>. HIDE DEF r
  <2>4. MakesRequest(h)
    BY <2>2, <2>3 DEF MakesRequest
  <2>. QED  BY <2>3, <2>4
<1>4. CASE AnswerLocally(h)
  <2>1. PICK c \in Menu :
          /\ c.kind = "ping"
          /\ Asks(h, c)
          /\ \/ outbox' = [outbox EXCEPT ![h] = Append(@, Answer(RequestOf(h, c), "pong"))]
             \/ outbox' = outbox
    BY <1>4 DEF AnswerLocally
  <2>. DEFINE r == RequestOf(h, c)
  <2>2. /\ r \in Request /\ r.hid = h /\ r.id = Len(asked[h]) + 1
        /\ r.kind # "quit"
        /\ r.kind = "describe" => r.mod = All
        /\ asked' = [asked EXCEPT ![h] = Append(@, r)]
        /\ outbox' \in {outbox, [outbox EXCEPT ![h] = Append(@, Answer(r, "pong"))]}
    BY <1>1, <2>1
  <2>3. UNCHANGED <<modq, replies, requests>>
    BY <1>4 DEF AnswerLocally
  <2>. HIDE DEF r
  <2>4. MakesRequest(h)
    BY <2>2, <2>3 DEF MakesRequest
  <2>. QED  BY <2>3, <2>4
<1>5. CASE HangUp(h)
  <2>1. PICK c \in Menu :
          c.kind = "quit" /\ requests' = Append(requests, [RequestOf(h, c) EXCEPT !.id = 0])
    BY <1>5 DEF HangUp
  <2>2. [RequestOf(h, c) EXCEPT !.id = 0] \in Request
    BY RequestOfType, Zenon DEF Request, RequestOf
  <2>3. SendsQuit(h)
    BY <1>5, <2>1, <2>2 DEF HangUp, SendsQuit, RequestOf
  <2>. QED  BY <1>5, <2>3 DEF HangUp
<1>. QED  BY <1>2, <1>3, <1>4, <1>5 DEF ConnectionNext

-----------------------------------------------------------------------------
(* Every request and answer on its way belongs to a request that was made.  *)

Made == {r \in Request : r.id \in 1 .. Len(asked[r.hid]) /\ asked[r.hid][r.id] = r}

\* What the dispatcher may be asked; what module m may be asked.
Ingoing ==
    {r \in Request : /\ IF r.kind = "quit" THEN r.id = 0 ELSE r \in Made
                     /\ r.kind # "ping"
                     /\ r.kind = "describe" => r.mod = All}

Queued(m) ==
    {r \in Made : \/ r.mod = m /\ r.kind \in ModuleRequests \cup {"activate"}
                  \/ r.mod = All /\ r.kind = "activate"}

Answers(m) == {e \in ModReply : \E r \in Queued(m) : e \in AnswersOf(m, r)}

Outgoing == {e \in ModReply : e \in Emissions(e.from) \cup Answers(e.from)}

Known(h) == {x \in Message : x.id <= Len(asked[h])}

MatchInv ==
    /\ Every(requests, Ingoing)
    /\ \A m \in Mods : Every(modq[m], Queued(m))
    /\ Every(replies, Outgoing)
    /\ \A h \in Handlers : Every(outbox[h], Known(h))

\* Requests that were made stay made.
LEMMA MadeGrows ==
    ASSUME TypeOK,
           \/ asked' = asked
           \/ \E h \in Handlers, r \in Request : asked' = [asked EXCEPT ![h] = Append(@, r)]
    PROVE  /\ Made \subseteq Made'
           /\ Ingoing \subseteq Ingoing'
           /\ \A m \in Mods : Queued(m) \subseteq Queued(m)'
           /\ Outgoing \subseteq Outgoing'
           /\ \A h \in Handlers : Known(h) \subseteq Known(h)'
<1>1. ASSUME NEW g \in Handlers
      PROVE  /\ Len(asked[g]) \in Nat /\ Len(asked'[g]) \in Nat
             /\ Len(asked[g]) <= Len(asked'[g])
             /\ \A i \in 1 .. Len(asked[g]) : asked'[g][i] = asked[g][i]
  <2>1. asked[g] \in Seq(Request) /\ Len(asked[g]) \in Nat
    BY LenProperties DEF TypeOK, ConnectionTypeOK
  <2>2. CASE asked'[g] = asked[g]
    BY <2>1, <2>2
  <2>3. ASSUME NEW r \in Request, asked'[g] = Append(asked[g], r)
        PROVE  /\ Len(asked'[g]) = Len(asked[g]) + 1
               /\ \A i \in 1 .. Len(asked[g]) : asked'[g][i] = asked[g][i]
    BY <2>1, <2>3, AppendProperties
  <2>4. \/ asked'[g] = asked[g]
        \/ \E r \in Request : asked'[g] = Append(asked[g], r)
    BY DEF TypeOK, ConnectionTypeOK
  <2>. QED  BY <2>1, <2>2, <2>3, <2>4
<1>2. Made \subseteq Made'
  <2>. SUFFICES ASSUME NEW r \in Made PROVE r \in Made'
    OBVIOUS
  <2>1. r \in Request /\ r.hid \in Handlers
    BY DEF Made, Request
  <2>. QED  BY <1>1, <2>1 DEF Made
<1>3. \A m : Queued(m) \subseteq Queued(m)'
  BY <1>2 DEF Queued
<1>4. Outgoing \subseteq Outgoing'
  <2>1. \A m : Answers(m) \subseteq Answers(m)'
    BY <1>3 DEF Answers
  <2>. QED  BY <2>1 DEF Outgoing
<1>5. ASSUME NEW h \in Handlers
      PROVE  Known(h) \subseteq Known(h)'
  <2>1. \A x \in Message : x.id \in Nat  BY DEF Message
  <2>. QED  BY <1>1, <2>1 DEF Known
<1>. QED  BY <1>2, <1>3, <1>4, <1>5 DEF Ingoing

\* What it means for a reply to be of Outgoing.
LEMMA OutgoingFacts ==
    ASSUME TypeOK, NEW e \in Outgoing, e \in ModReply
    PROVE  /\ e.to = Nobody => e \in Emissions(e.from)
           /\ e.to \in Handlers =>
                \E r \in Queued(e.from) : e \in AnswersOf(e.from, r)
           /\ e.id \in Nat
           /\ e.to \in Handlers => e.id \in 1 .. Len(asked[e.to])
<1>1. Nobody \notin Handlers
  BY ChannelsAssumption DEF ChannelsAssumption
<1>2. \A r \in Queued(e.from) : r \in Made /\ r.hid \in Handlers
  BY DEF Queued, Made, Request
<1>3. e.to = Nobody => e \in Emissions(e.from)
  BY <1>1, <1>2 DEF Outgoing, Answers, AnswersOf
<1>4. e.to \in Handlers => \E r \in Queued(e.from) : e \in AnswersOf(e.from, r)
  BY <1>1 DEF Outgoing, Emissions, Answers
<1>5. e.to \in Handlers => e.id \in 1 .. Len(asked[e.to])
  BY <1>2, <1>4 DEF AnswersOf, Made
<1>6. e.id \in Nat
  BY DEF ModReply
<1>. QED  BY <1>3, <1>4, <1>5, <1>6

\* What is added to a reply channel answers a request, or nothing.
LEMMA KnownAppended ==
    ASSUME TypeOK, MatchInv, NEW h \in Handlers, NEW ms \in Seq(Known(h)),
           outbox' \in {outbox, [outbox EXCEPT ![h] = @ \o ms]}, asked' = asked
    PROVE  \A g \in Handlers : Every(outbox[g], Known(g))'
<1>1. Known(h) \subseteq Message
  BY DEF Known
<1>2. ms \in Seq(Message) /\ Every(ms, Known(h)) /\ outbox[h] \in Seq(Message)
  BY <1>1, SeqMonotonic, ElementOfSeq DEF Every, TypeOK, ChannelsTypeOK
<1>3. Every(outbox[h], Known(h))
  BY DEF MatchInv
<1>4. Every(outbox[h] \o ms, Known(h))
  BY <1>2, <1>3, EveryConcat
<1>5. \A g \in Handlers : Every(outbox'[g], Known(g))
  BY <1>4 DEF MatchInv, TypeOK, ChannelsTypeOK
<1>6. \A g \in Handlers : Known(g)' = Known(g)
  BY DEF Known
<1>. QED  BY <1>5, <1>6

LEMMA SameSets ==
    ASSUME asked' = asked
    PROVE  /\ Ingoing' = Ingoing /\ Outgoing' = Outgoing
           /\ \A m : Queued(m)' = Queued(m)
           /\ \A h : Known(h)' = Known(h)
BY DEF Made, Ingoing, Queued, Answers, Outgoing, Known

LEMMA MatchAtDispatcher ==
    ASSUME TypeOK, MatchInv, DispatcherNext, asked' = asked
    PROVE  MatchInv'
<1>. USE SameSets
<1>1. CASE Register
  BY <1>1 DEF Register, MatchInv
<1>2. CASE DispatchRequest
  <2>. DEFINE r == Head(requests)
  <2>1. /\ requests # <<>> /\ requests \in Seq(Request) /\ r \in Request
        /\ requests' = Tail(requests) /\ replies' = replies
        /\ Forwards(r) \/ AnswersItself(r) \/ TakesSilently(r)
    BY <1>2, NodeTyped, RequestShape DEF TypeOK, ChannelsTypeOK
  <2>2. r \in Ingoing /\ Every(requests', Ingoing)
    BY <2>1, EveryTail DEF MatchInv
  <2>. HIDE DEF r
  <2>3. CASE Forwards(r)
    <3>1. PICK S \in SUBSET Mods :
            /\ Forward(S, r)
            /\ \/ S = {r.mod} /\ r.kind \in ModuleRequests \cup {"activate"}
               \/ S = Mods /\ r.mod = All /\ r.kind = "activate"
      BY <2>3 DEF Forwards
    <3>2. \A m \in S : r \in Queued(m)
      BY <2>2, <3>1 DEF Ingoing, Queued, ModuleRequests
    <3>3. ASSUME NEW m \in Mods
          PROVE  Every(modq'[m], Queued(m))
      <4>1. modq[m] \in Seq(Request) /\ Every(modq[m], Queued(m))
        BY DEF TypeOK, ChannelsTypeOK, MatchInv
      <4>2. CASE m \in S
        <5>1. Every(Append(modq[m], r), Queued(m))
          BY <2>1, <3>2, <4>1, <4>2, EveryAppend
        <5>. QED  BY <3>1, <4>2, <5>1 DEF Forward
      <4>3. CASE m \notin S
        BY <3>1, <4>1, <4>3 DEF Forward
      <4>. QED  BY <4>2, <4>3
    <3>. QED  BY <2>1, <2>2, <2>3, <3>3 DEF Forwards, MatchInv
  <2>4. CASE AnswersItself(r)
    <3>1. PICK kind \in {"error", "inactive", "describing"} :
            SendBack(r.hid, <<Answer(r, kind)>>)
      BY <2>4 DEF AnswersItself
    <3>2. r \in Made /\ r.hid \in Handlers /\ Answer(r, kind) \in Message
      BY <2>1, <2>2, <2>4, AnswerType DEF AnswersItself, Ingoing, Request
    <3>3. Answer(r, kind) \in Known(r.hid)
      BY <3>2 DEF Answer, Known, Made
    <3>4. <<Answer(r, kind)>> \in Seq(Known(r.hid))
      BY <3>3
    <3>5. \A g \in Handlers : Every(outbox[g], Known(g))'
      BY <3>1, <3>2, <3>4, SendBackShape, KnownAppended
    <3>. QED  BY <2>1, <2>2, <2>4, <3>5 DEF AnswersItself, MatchInv
  <2>5. CASE TakesSilently(r)
    BY <2>1, <2>2, <2>5 DEF TakesSilently, MatchInv
  <2>. QED  BY <2>1, <2>3, <2>4, <2>5
<1>3. CASE RouteReply
  <2>. DEFINE e == Head(replies)
  <2>1. /\ replies # <<>> /\ replies \in Seq(ModReply) /\ e \in ModReply
        /\ replies' = Tail(replies) /\ requests' = requests /\ modq' = modq
        /\ RoutesEvent(e) \/ RoutesAnswer(e)
    BY <1>3, NodeTyped, ReplyShape DEF TypeOK, ChannelsTypeOK
  <2>2. e \in Outgoing /\ Every(replies', Outgoing)
    BY <2>1, EveryTail DEF MatchInv
  <2>. HIDE DEF e
  <2>3. CASE RoutesEvent(e)
    <3>1. CASE outbox' = outbox
      BY <2>1, <2>2, <3>1 DEF MatchInv
    <3>2. ASSUME e.kind = "update", NEW S \in SUBSET Handlers,
                 outbox' = [h \in Handlers |-> IF h \in S THEN Append(outbox[h], Relay(e))
                                                          ELSE outbox[h]]
          PROVE  MatchInv'
      <4>1. Relay(e) \in Message /\ Relay(e).id = 0
        <5>1. e.id = 0
          BY <2>1, <2>2, <2>3, OutgoingFacts DEF RoutesEvent, Emissions
        <5>. QED  BY <2>1, <3>2, <5>1, RelayType DEF Relay
      <4>2. ASSUME NEW h \in Handlers
            PROVE  Every(outbox'[h], Known(h))
        <5>1. outbox[h] \in Seq(Message) /\ Every(outbox[h], Known(h))
          BY DEF TypeOK, ChannelsTypeOK, MatchInv
        <5>2. Len(asked[h]) \in Nat
          BY LenProperties DEF TypeOK, ConnectionTypeOK
        <5>3. Relay(e) \in Known(h)
          BY <4>1, <5>2 DEF Known
        <5>4. Every(Append(outbox[h], Relay(e)), Known(h))
          BY <4>1, <5>1, <5>3, EveryAppend
        <5>. QED  BY <3>2, <5>1, <5>4
      <4>. QED  BY <2>1, <2>2, <4>2 DEF MatchInv
    <3>. QED  BY <2>3, <3>1, <3>2 DEF RoutesEvent
  <2>4. CASE RoutesAnswer(e)
    <3>1. PICK ms : TellsOf(e, ms) /\ outbox' \in {outbox, [outbox EXCEPT ![e.to] = @ \o ms]}
      BY <2>4 DEF RoutesAnswer
    <3>2. e.to \in Handlers /\ e.id \in 1 .. Len(asked[e.to])
      BY <2>1, <2>2, <2>4, OutgoingFacts DEF RoutesAnswer
    <3>3. Tellings(e) \subseteq Known(e.to)
      BY <3>2 DEF Tellings, Known
    <3>4. ms \in Seq(Known(e.to))
      BY <3>1, <3>3, SeqMonotonic DEF TellsOf
    <3>5. \A g \in Handlers : Every(outbox[g], Known(g))'
      BY <3>1, <3>2, <3>4, KnownAppended
    <3>. QED  BY <2>1, <2>2, <3>5 DEF MatchInv
  <2>. QED  BY <2>1, <2>3, <2>4
<1>. QED  BY <1>1, <1>2, <1>3 DEF DispatcherNext

LEMMA MatchAtModule ==
    ASSUME TypeOK, MatchInv, NEW m \in Mods, ModuleNext(m), asked' = asked
    PROVE  MatchInv'
<1>. USE SameSets
<1>1. /\ replies \in Seq(ModReply) /\ Every(replies, Outgoing)
      /\ modq \in [Mods -> Seq(Request)] /\ Every(modq[m], Queued(m))
  BY DEF TypeOK, ChannelsTypeOK, MatchInv
<1>2. ASSUME TakesNothing(m) \/ TakesFirst(m) \/ TakesAll(m)
      PROVE  \A n \in Mods : Every(modq'[n], Queued(n))
  <2>1. modq[m] # <<>> => Every(Tail(modq[m]), Queued(m))
    BY <1>1, EveryTail
  <2>2. Every(<<>>, Queued(m))
    BY EveryOfEmpty
  <2>. QED
    BY <1>1, <1>2, <2>1, <2>2 DEF MatchInv, TakesNothing, TakesFirst, TakesAll
<1>3. ASSUME NEW es \in Seq(Emissions(m))
      PROVE  es \in Seq(ModReply) /\ Every(es, Outgoing)
  <2>1. Emissions(m) \subseteq Outgoing
    BY DEF Emissions, Outgoing
  <2>. QED  BY <2>1, EmissionsAreReplies, EveryOfMore
<1>4. CASE Emits(m)
  <2>1. PICK es \in Seq(Emissions(m)) : replies' = replies \o es
    BY <1>4 DEF Emits
  <2>2. Every(replies', Outgoing)
    BY <1>1, <1>3, <2>1, EveryConcat
  <2>. QED  BY <1>2, <1>4, <2>2 DEF Emits, MatchInv
<1>5. CASE AnswersFirst(m)
  <2>. DEFINE r == Head(modq[m])
  <2>1. r \in Queued(m)
    BY <1>1, <1>5, EveryTail DEF AnswersFirst, TakesFirst
  <2>2. PICK es \in Seq(Emissions(m)), e \in AnswersOf(m, r) :
          replies' = replies \o (es \o <<e>>)
    BY <1>5 DEF AnswersFirst
  <2>. HIDE DEF r
  <2>3. e \in ModReply /\ e \in Outgoing
    BY <2>1, <2>2 DEF AnswersOf, Answers, Outgoing
  <2>4. <<e>> \in Seq(ModReply) /\ Every(<<e>>, Outgoing)
    BY <2>3, EveryOfOne
  <2>5. es \o <<e>> \in Seq(ModReply) /\ Every(es \o <<e>>, Outgoing)
    BY <1>3, <2>4, EveryConcat, ConcatProperties
  <2>6. Every(replies', Outgoing)
    BY <1>1, <2>2, <2>5, EveryConcat
  <2>. QED  BY <1>2, <1>5, <2>6 DEF AnswersFirst, MatchInv
<1>. QED  BY <1>4, <1>5, NodeTyped, ModuleShape

LEMMA MatchAtConnection ==
    ASSUME TypeOK, MatchInv, NEW h \in Handlers, ConnectionNext(h)
    PROVE  MatchInv'
<1>1. /\ requests \in Seq(Request) /\ Every(requests, Ingoing)
      /\ outbox \in [Handlers -> Seq(Message)]
      /\ modq' = modq /\ replies' = replies
  BY ConnectionShape DEF TypeOK, ChannelsTypeOK, MatchInv
<1>2. CASE UNCHANGED <<requests, outbox, asked>>
  BY <1>1, <1>2, SameSets DEF MatchInv
<1>3. CASE SendsQuit(h)
  <2>1. PICK r \in Request : /\ r.kind = "quit" /\ r.id = 0
                            /\ requests' = Append(requests, r)
    BY <1>3 DEF SendsQuit
  <2>2. r \in Ingoing
    BY <2>1 DEF Ingoing
  <2>3. Every(requests', Ingoing)
    BY <1>1, <2>1, <2>2, EveryAppend
  <2>. QED  BY <1>1, <1>3, <2>3, SameSets DEF SendsQuit, MatchInv
<1>4. CASE MakesRequest(h)
  <2>1. PICK r \in Request :
          /\ r.hid = h /\ r.id = Len(asked[h]) + 1 /\ r.kind # "quit"
          /\ r.kind = "describe" => r.mod = All
          /\ asked' = [asked EXCEPT ![h] = Append(@, r)]
          /\ \/ r.kind # "ping" /\ requests' = Append(requests, r) /\ outbox' = outbox
             \/ /\ requests' = requests
                /\ outbox' \in {outbox, [outbox EXCEPT ![h] = Append(@, Answer(r, "pong"))]}
    BY <1>4 DEF MakesRequest
  <2>2. /\ Ingoing \subseteq Ingoing'
        /\ \A m \in Mods : Queued(m) \subseteq Queued(m)'
        /\ Outgoing \subseteq Outgoing'
        /\ \A g \in Handlers : Known(g) \subseteq Known(g)'
    BY <2>1, MadeGrows
  <2>3. r \in Made' /\ Answer(r, "pong") \in Known(h)'
    <3>1. asked[h] \in Seq(Request) /\ asked'[h] = Append(asked[h], r)
      BY <2>1 DEF TypeOK, ConnectionTypeOK
    <3>2. Len(asked'[h]) = Len(asked[h]) + 1 /\ asked'[h][r.id] = r /\ Len(asked[h]) \in Nat
      BY <2>1, <3>1, AppendProperties, LenProperties
    <3>3. r.id \in 1 .. Len(asked'[h])
      BY <2>1, <3>2
    <3>4. Answer(r, "pong") \in Message /\ Answer(r, "pong").id = r.id
      BY AnswerType DEF Answer
    <3>. QED  BY <2>1, <3>2, <3>3, <3>4 DEF Made, Known
  <2>4. /\ Every(requests, Ingoing')
        /\ \A m \in Mods : Every(modq[m], Queued(m)')
        /\ Every(replies, Outgoing')
        /\ \A g \in Handlers : Every(outbox[g], Known(g)')
    BY <2>2 DEF MatchInv, Every
  <2>5. Every(requests', Ingoing')
    <3>1. r.kind # "ping" => r \in Ingoing'
      BY <2>1, <2>3 DEF Ingoing
    <3>2. r \in Ingoing' => Every(Append(requests, r), Ingoing')
      BY <1>1, <2>4, EveryAppend
    <3>. QED  BY <2>1, <2>4, <3>1, <3>2
  <2>6. ASSUME NEW g \in Handlers
        PROVE  Every(outbox'[g], Known(g)')
    <3>1. Every(Append(outbox[h], Answer(r, "pong")), Known(h)')
      <4>1. Answer(r, "pong") \in Message  BY AnswerType
      <4>2. Answer(r, "pong") \in Known(h)'  BY <2>3
      <4>3. outbox[h] \in Seq(Message) /\ Every(outbox[h], Known(h)')
        BY <1>1, <2>4
      <4>. QED  BY <4>1, <4>2, <4>3, EveryAppend
    <3>2. outbox'[g] = outbox[g] \/ (g = h /\ outbox'[g] = Append(outbox[h], Answer(r, "pong")))
      BY <1>1, <2>1
    <3>. QED  BY <2>4, <3>1, <3>2
  <2>. QED  BY <1>1, <2>4, <2>5, <2>6 DEF MatchInv
<1>. QED  BY <1>2, <1>3, <1>4, ConnectionShape

LEMMA MatchCorrect == Spec => []MatchInv
<1>1. Init => MatchInv
  BY EveryOfEmpty DEF Init, ChannelsInit, MatchInv
<1>2. TypeOK /\ MatchInv /\ [Next]_vars => MatchInv'
  <2>. SUFFICES ASSUME TypeOK, MatchInv, [Next]_vars
                PROVE  MatchInv'
    OBVIOUS
  <2>1. CASE DispatcherStep
    BY <2>1, MatchAtDispatcher DEF DispatcherStep, connVars
  <2>2. ASSUME NEW m \in Mods, ModuleStep(m)
        PROVE  MatchInv'
    BY <2>2, MatchAtModule DEF ModuleStep, connVars
  <2>3. ASSUME NEW h \in Handlers, ConnectionStep(h)
        PROVE  MatchInv'
    BY <2>3, MatchAtConnection DEF ConnectionStep
  <2>4. CASE UNCHANGED vars
    BY <2>4, SameSets DEF vars, chanVars, connVars, MatchInv
  <2>. QED  BY <2>1, <2>2, <2>3, <2>4 DEF Next
<1>. QED  BY <1>1, <1>2, TypeCorrect, PTL DEF Spec

-----------------------------------------------------------------------------
(* The requests of handler h on their way through module m.                 *)

RequestsOf(h) == {r \in Request : r.hid = h /\ r.kind # "quit"}
AnswersTo(h, m) == {e \in ModReply : e.to = h /\ e.from = m}

\* What module m has told in answer to a request.
Told(m) == {x \in Message : x.mod = m /\ x.id # 0 /\ x.kind \notin {"inactive", "pong"}}

RequestIds(h) == Ids(requests, RequestsOf(h))
QueuedIds(h, m) == Ids(modq[m], RequestsOf(h))
AnswerIds(h, m) == Ids(replies, AnswersTo(h, m))
ToldIds(h, m) == Ids(outbox[h], Told(m))

\* Sequence s of messages is in order for module m, as RepliesInOrder says.
ToldInOrder(s, m) ==
    \A i, j \in 1 .. Len(s) :
      (i < j /\ s[i] \in Told(m) /\ s[j] \in Told(m)) =>
        \/ s[i].id < s[j].id
        \/ s[i].id = s[j].id /\ s[i].kind = "update" /\ s[j].kind = "active"

OrderOf(h, m) ==
    /\ Ascending(modq[m], RequestsOf(h))
    /\ Ascending(replies, AnswersTo(h, m))
    /\ ToldInOrder(outbox[h], m)
    /\ InLine(ToldIds(h, m), AnswerIds(h, m), QueuedIds(h, m), RequestIds(h))

OrderInv ==
    \A h \in Handlers : /\ Ascending(requests, RequestsOf(h))
                        /\ \A m \in Mods : OrderOf(h, m)

LEMMA ToldConcat ==
    ASSUME NEW s \in Seq(Message), NEW t \in Seq(Message), NEW m,
           ToldInOrder(s, m), ToldInOrder(t, m), Below(Ids(s, Told(m)), Ids(t, Told(m)))
    PROVE  ToldInOrder(s \o t, m)
<1>1. /\ Len(s) \in Nat /\ Len(t) \in Nat
      /\ Len(s \o t) = Len(s) + Len(t)
      /\ \A i \in 1 .. Len(s) + Len(t) :
           (s \o t)[i] = IF i <= Len(s) THEN s[i] ELSE t[i - Len(s)]
  BY ConcatProperties, LenProperties
<1>. DEFINE G == Told(m)
            u == s \o t
<1>2. SUFFICES ASSUME NEW i \in 1 .. Len(u), NEW j \in 1 .. Len(u), i < j,
                      u[i] \in G, u[j] \in G
               PROVE  \/ u[i].id < u[j].id
                      \/ u[i].id = u[j].id /\ u[i].kind = "update" /\ u[j].kind = "active"
  BY DEF ToldInOrder
<1>3. CASE j <= Len(s)
  <2>1. i \in 1 .. Len(s) /\ j \in 1 .. Len(s) /\ u[i] = s[i] /\ u[j] = s[j]
    BY <1>1, <1>2, <1>3
  <2>. QED  BY <1>2, <2>1 DEF ToldInOrder
<1>4. CASE i <= Len(s) /\ ~(j <= Len(s))
  <2>1. i \in 1 .. Len(s) /\ j - Len(s) \in 1 .. Len(t)
    BY <1>1, <1>4
  <2>2. u[i] = s[i] /\ u[j] = t[j - Len(s)]
    BY <1>1, <1>4
  <2>3. s[i].id \in Ids(s, G) /\ t[j - Len(s)].id \in Ids(t, G)
    BY <1>2, <2>1, <2>2 DEF Ids
  <2>. QED  BY <2>2, <2>3 DEF Below
<1>5. CASE ~(i <= Len(s))
  <2>1. /\ i - Len(s) \in 1 .. Len(t) /\ j - Len(s) \in 1 .. Len(t)
        /\ i - Len(s) < j - Len(s)
    BY <1>1, <1>2, <1>5
  <2>2. u[i] = t[i - Len(s)] /\ u[j] = t[j - Len(s)]
    BY <1>1, <1>2, <1>5
  <2>. QED  BY <1>2, <2>1, <2>2 DEF ToldInOrder
<1>. QED  BY <1>1, <1>3, <1>4, <1>5

\* Messages that answer nothing of m keep the order of what m has told.
LEMMA ToldOther ==
    ASSUME NEW s \in Seq(Message), NEW t \in Seq(Message), NEW m, None(t, Told(m))
    PROVE  /\ Ids(s \o t, Told(m)) = Ids(s, Told(m))
           /\ ToldInOrder(s, m) => ToldInOrder(s \o t, m)
<1>1. Ids(t, Told(m)) = {}
  BY IdsOfNone
<1>2. ToldInOrder(t, m)
  BY DEF None, ToldInOrder
<1>3. Below(Ids(s, Told(m)), {})
  BY DEF Below
<1>4. Ids(s \o t, Told(m)) = Ids(s, Told(m)) \cup Ids(t, Told(m))
  BY IdsConcat
<1>. QED  BY <1>1, <1>2, <1>3, <1>4, ToldConcat

-----------------------------------------------------------------------------
(* The order through each kind of step *)

\* A step in which queues only lose elements, and nothing of m is told.
LEMMA OrderShrinks ==
    ASSUME TypeOK, NEW h \in Handlers, NEW m \in Mods, OrderOf(h, m),
           Ascending(modq'[m], RequestsOf(h)), QueuedIds(h, m)' \subseteq QueuedIds(h, m),
           Ascending(replies', AnswersTo(h, m)), AnswerIds(h, m)' \subseteq AnswerIds(h, m),
           ToldInOrder(outbox'[h], m), ToldIds(h, m)' \subseteq ToldIds(h, m),
           RequestIds(h)' \subseteq RequestIds(h)
    PROVE  OrderOf(h, m)'
<1>1. InLine(ToldIds(h, m)', AnswerIds(h, m)', QueuedIds(h, m)', RequestIds(h)')
  BY InLineShrinks DEF OrderOf
<1>. QED  BY <1>1 DEF OrderOf

\* The channels are sequences, and All names no module.
LEMMA QueueTypes ==
    ASSUME TypeOK
    PROVE  /\ requests \in Seq(Request)
           /\ replies \in Seq(ModReply)
           /\ modq \in [Mods -> Seq(Request)]
           /\ outbox \in [Handlers -> Seq(Message)]
           /\ All \notin Mods /\ Nobody \notin Handlers
BY ChannelsAssumption DEF ChannelsAssumption, TypeOK, ChannelsTypeOK

\* Messages that tell nothing of m are sent to h or to nobody.
LEMMA OutboxOther ==
    ASSUME TypeOK, NEW h \in Handlers, NEW m \in Mods, NEW g \in Handlers,
           NEW ms \in Seq(Message), g = h => None(ms, Told(m)),
           outbox' \in {outbox, [outbox EXCEPT ![g] = @ \o ms]}
    PROVE  /\ ToldIds(h, m)' = ToldIds(h, m)
           /\ ToldInOrder(outbox[h], m) => ToldInOrder(outbox'[h], m)
<1>1. outbox[h] \in Seq(Message)
  BY QueueTypes
<1>2. outbox'[h] = outbox[h] \/ (g = h /\ outbox'[h] = outbox[h] \o ms)
  BY QueueTypes
<1>3. g = h => /\ Ids(outbox[h] \o ms, Told(m)) = Ids(outbox[h], Told(m))
               /\ ToldInOrder(outbox[h], m) => ToldInOrder(outbox[h] \o ms, m)
  BY <1>1, ToldOther
<1>. QED  BY <1>2, <1>3 DEF ToldIds

LEMMA OrderAtForward ==
    ASSUME TypeOK, OrderInv, NEW r \in Request, Forwards(r), replies' = replies,
           NEW h \in Handlers, NEW m \in Mods,
           RequestIds(h)' \subseteq RequestIds(h),
           r \in RequestsOf(h) => /\ r.id \in RequestIds(h)
                                  /\ Below({r.id}, RequestIds(h)')
    PROVE  OrderOf(h, m)'
<1>. DEFINE G == RequestsOf(h)
<1>1. /\ OrderOf(h, m) /\ Ascending(modq[m], G)
      /\ modq[m] \in Seq(Request)
  BY QueueTypes DEF OrderInv, OrderOf
<1>2. /\ RequestIds(h)' \subseteq RequestIds(h)
      /\ r \in G => r.id \in RequestIds(h) /\ Below({r.id}, RequestIds(h)')
  OBVIOUS
<1>3. PICK S \in SUBSET Mods : Forward(S, r)
  BY DEF Forwards
<1>4. /\ ToldIds(h, m)' = ToldIds(h, m) /\ AnswerIds(h, m)' = AnswerIds(h, m)
      /\ outbox' = outbox
  BY DEF Forwards, ToldIds, AnswerIds
<1>5. modq'[m] = IF m \in S THEN Append(modq[m], r) ELSE modq[m]
  BY <1>3 DEF Forward
<1>a. QueuedIds(h, m) = Ids(modq[m], G) /\ QueuedIds(h, m)' = Ids(modq'[m], G)
  BY DEF QueuedIds
<1>b. ASSUME InLine(ToldIds(h, m), AnswerIds(h, m), QueuedIds(h, m)', RequestIds(h)'),
             Ascending(modq'[m], G)
      PROVE  OrderOf(h, m)'
  BY <1>1, <1>4, <1>b DEF OrderOf
<1>c. OrderOf(h, m) => /\ Ascending(replies', AnswersTo(h, m)) /\ ToldInOrder(outbox'[h], m)
                       /\ InLine(ToldIds(h, m), AnswerIds(h, m), QueuedIds(h, m), RequestIds(h))
  BY <1>4 DEF OrderOf
<1>. HIDE DEF G
<1>6. CASE m \in S /\ r \in G
  <2>1. modq'[m] = Append(modq[m], r)
    BY <1>5, <1>6
  <2>2. Below(Ids(modq[m], G), {r.id})
    BY <1>1, <1>2, <1>6, <1>a, <1>c DEF InLine, Below
  <2>3. modq[m] \in Seq(Request) /\ r \in Request /\ r \in G /\ Ascending(modq[m], G)
    BY <1>1, <1>6
  <2>4. /\ Ids(Append(modq[m], r), G) = Ids(modq[m], G) \cup {r.id}
        /\ Ascending(Append(modq[m], r), G)
    BY <2>2, <2>3, IdsAppendIn
  <2>5. /\ QueuedIds(h, m)' = QueuedIds(h, m) \cup {r.id}
        /\ Ascending(modq'[m], G)
    BY <1>a, <2>1, <2>4
  <2>6. InLine(ToldIds(h, m), AnswerIds(h, m), QueuedIds(h, m)', RequestIds(h)')
    <3>1. InLine(ToldIds(h, m), AnswerIds(h, m), QueuedIds(h, m), RequestIds(h))
      BY <1>1, <1>c
    <3>2. r.id \in RequestIds(h) /\ Below({r.id}, RequestIds(h)')
      BY <1>2, <1>6
    <3>3. RequestIds(h)' \subseteq RequestIds(h)
      BY <1>2
    <3>4. InLine(ToldIds(h, m), AnswerIds(h, m), QueuedIds(h, m) \cup {r.id}, RequestIds(h)')
      BY <3>1, <3>2, <3>3, InLineForward
    <3>. QED  BY <2>5, <3>4
  <2>. QED  BY <1>b, <2>5, <2>6
<1>7. CASE ~(m \in S /\ r \in G)
  <2>1. /\ r \notin G => Ids(Append(modq[m], r), G) = Ids(modq[m], G)
        /\ (r \notin G /\ Ascending(modq[m], G)) => Ascending(Append(modq[m], r), G)
    BY <1>1, IdsAppend
  <2>2. /\ QueuedIds(h, m)' = QueuedIds(h, m)
        /\ Ascending(modq'[m], G)
    BY <1>1, <1>5, <1>7, <1>a, <2>1
  <2>3. InLine(ToldIds(h, m), AnswerIds(h, m), QueuedIds(h, m), RequestIds(h)')
    BY <1>1, <1>2, <1>c, InLineShrinks
  <2>. QED  BY <1>b, <2>2, <2>3
<1>. QED  BY <1>6, <1>7

LEMMA OrderAtRequest ==
    ASSUME TypeOK, MatchInv, OrderInv, DispatchRequest
    PROVE  OrderInv'
<1>. DEFINE r == Head(requests)
<1>1. /\ requests # <<>> /\ requests \in Seq(Request) /\ r \in Request
      /\ requests' = Tail(requests) /\ replies' = replies
      /\ Forwards(r) \/ AnswersItself(r) \/ TakesSilently(r)
      /\ r \in Ingoing
  BY NodeTyped, RequestShape, QueueTypes, EveryTail DEF MatchInv
<1>. HIDE DEF r
<1>2. ASSUME NEW h \in Handlers
      PROVE  /\ Ascending(requests', RequestsOf(h))
             /\ RequestIds(h)' \subseteq RequestIds(h)
             /\ r \in RequestsOf(h) => /\ r.id \in RequestIds(h)
                                       /\ Below({r.id}, RequestIds(h)')
  BY <1>1, IdsTail DEF OrderInv, RequestIds, r
<1>3. ASSUME NEW h \in Handlers, NEW m \in Mods, modq' = modq,
             ToldIds(h, m)' = ToldIds(h, m),
             ToldInOrder(outbox[h], m) => ToldInOrder(outbox'[h], m)
      PROVE  OrderOf(h, m)'
  <2>1. OrderOf(h, m)
    BY DEF OrderInv
  <2>2. AnswerIds(h, m)' = AnswerIds(h, m) /\ QueuedIds(h, m)' = QueuedIds(h, m)
    BY <1>1, <1>3 DEF AnswerIds, QueuedIds
  <2>. QED  BY <1>1, <1>2, <1>3, <2>1, <2>2, OrderShrinks DEF OrderOf
<1>4. CASE Forwards(r)
  BY <1>1, <1>2, <1>4, OrderAtForward DEF OrderInv
<1>5. CASE AnswersItself(r)
  <2>1. PICK kind \in {"error", "inactive", "describing"} :
          /\ SendBack(r.hid, <<Answer(r, kind)>>)
          /\ \/ kind = "error" /\ r.mod \notin Mods
             \/ kind = "describing" /\ r.kind = "describe"
             \/ kind = "inactive"
    BY <1>5 DEF AnswersItself
  <2>. DEFINE x == Answer(r, kind)
  <2>2. /\ x \in Message /\ r.hid \in Handlers
        /\ x.mod = r.mod /\ x.kind = kind
        /\ kind = "describing" => r.mod = All
    BY <1>1, <2>1, AnswerType DEF Answer, Ingoing, Request
  <2>. HIDE DEF x
  <2>3. ASSUME NEW m \in Mods
        PROVE  None(<<x>>, Told(m))
    <3>1. x \notin Told(m)
      BY <2>1, <2>2, QueueTypes DEF Told
    <3>. QED  BY <3>1, NoneOfOne
  <2>4. <<x>> \in Seq(Message) /\ outbox' \in {outbox, [outbox EXCEPT ![r.hid] = @ \o <<x>>]}
    <3>1. <<x>> \in Seq(Message)
      BY <2>2
    <3>2. SendBack(r.hid, <<x>>)
      BY <2>1 DEF x
    <3>. QED  BY <3>1, <3>2, SendBackShape
  <2>5. ASSUME NEW h \in Handlers, NEW m \in Mods
        PROVE  OrderOf(h, m)'
    <3>1. /\ ToldIds(h, m)' = ToldIds(h, m)
          /\ ToldInOrder(outbox[h], m) => ToldInOrder(outbox'[h], m)
      BY <2>2, <2>3, <2>4, OutboxOther
    <3>. QED  BY <1>3, <1>5, <3>1 DEF AnswersItself
  <2>. QED  BY <1>2, <2>5 DEF OrderInv
<1>6. CASE TakesSilently(r)
  <2>1. modq' = modq /\ outbox' = outbox
    BY <1>6 DEF TakesSilently
  <2>. QED  BY <1>2, <1>3, <2>1 DEF OrderInv, ToldIds
<1>. QED  BY <1>1, <1>4, <1>5, <1>6

\* What is told of one reply is in order, and nothing of other modules.
LEMMA TellingsOrder ==
    ASSUME NEW e \in ModReply, e.mod \in {e.from, All}, NEW ms, TellsOf(e, ms),
           NEW m \in Mods
    PROVE  /\ ms \in Seq(Message)
           /\ Ids(ms, Told(m)) \subseteq {e.id}
           /\ ToldInOrder(ms, m)
           /\ m # e.from => None(ms, Told(m))
<1>1. /\ \A x \in Tellings(e) : x \in Message /\ x.id = e.id
      /\ ms \in Seq(Tellings(e))
  BY DEF Tellings, TellsOf
<1>2. ms \in Seq(Message) /\ \A i \in 1 .. Len(ms) : ms[i] \in Tellings(e)
  <2>1. Tellings(e) \subseteq Message  BY <1>1
  <2>. QED  BY <1>1, <2>1, SeqMonotonic, ElementOfSeq
<1>3. Ids(ms, Told(m)) \subseteq {e.id}
  BY <1>1, <1>2 DEF Ids
<1>4. ToldInOrder(ms, m)
  <2>1. CASE ms = <<>>
    BY <2>1 DEF ToldInOrder
  <2>2. ASSUME NEW x \in Tellings(e), ms = <<x>>
        PROVE  ToldInOrder(ms, m)
    BY <2>2 DEF ToldInOrder
  <2>3. ASSUME NEW x \in Tellings(e), NEW y \in Tellings(e), ms = <<x, y>>,
               x.kind = "update", y.kind = "active"
        PROVE  ToldInOrder(ms, m)
    <3>1. \A i, j \in 1 .. Len(ms) : i < j => ms[i] = x /\ ms[j] = y
      BY <2>3
    <3>. QED  BY <1>1, <2>3, <3>1 DEF ToldInOrder
  <2>. QED  BY <2>1, <2>2, <2>3 DEF TellsOf
<1>5. ASSUME m # e.from
      PROVE  None(ms, Told(m))
  <2>1. All \notin Mods
    BY ChannelsAssumption DEF ChannelsAssumption
  <2>2. \A x \in Tellings(e) : x \notin Told(m)
    BY <1>5, <2>1 DEF Tellings, Told
  <2>. QED  BY <1>2, <2>2 DEF None
<1>. QED  BY <1>2, <1>3, <1>4, <1>5

LEMMA OrderAtReply ==
    ASSUME TypeOK, MatchInv, OrderInv, RouteReply
    PROVE  OrderInv'
<1>. DEFINE e == Head(replies)
<1>1. /\ replies # <<>> /\ replies \in Seq(ModReply) /\ e \in ModReply
      /\ replies' = Tail(replies) /\ requests' = requests /\ modq' = modq
      /\ RoutesEvent(e) \/ RoutesAnswer(e)
      /\ e \in Outgoing
  BY NodeTyped, ReplyShape, QueueTypes, EveryTail DEF MatchInv
<1>2. ASSUME NEW h \in Handlers, NEW m \in Mods
      PROVE  /\ OrderOf(h, m)
             /\ AnswerIds(h, m)' \subseteq AnswerIds(h, m)
             /\ Ascending(replies', AnswersTo(h, m))
             /\ e \in AnswersTo(h, m) =>
                  e.id \in AnswerIds(h, m) /\ Below({e.id}, AnswerIds(h, m)')
             /\ QueuedIds(h, m)' = QueuedIds(h, m) /\ RequestIds(h)' = RequestIds(h)
  BY <1>1, IdsTail DEF OrderInv, OrderOf, AnswerIds, QueuedIds, RequestIds
<1>. HIDE DEF e
<1>3. ASSUME NEW h \in Handlers, NEW m \in Mods,
             ToldIds(h, m)' = ToldIds(h, m),
             ToldInOrder(outbox[h], m) => ToldInOrder(outbox'[h], m)
      PROVE  OrderOf(h, m)'
  BY <1>1, <1>2, <1>3, OrderShrinks DEF OrderOf
<1>4. CASE RoutesEvent(e)
  <2>1. ASSUME NEW h \in Handlers, NEW m \in Mods
        PROVE  /\ ToldIds(h, m)' = ToldIds(h, m)
               /\ ToldInOrder(outbox[h], m) => ToldInOrder(outbox'[h], m)
    <3>1. outbox[h] \in Seq(Message)
      BY QueueTypes
    <3>2. CASE outbox'[h] = outbox[h]
      BY <3>2 DEF ToldIds
    <3>3. CASE e.kind = "update" /\ outbox'[h] = Append(outbox[h], Relay(e))
      <4>1. Relay(e) \in Message /\ Relay(e) \notin Told(m)
        <5>1. e.id = 0
          BY <1>1, <1>4, OutgoingFacts DEF RoutesEvent, Emissions
        <5>. QED  BY <1>1, <3>3, <5>1, RelayType DEF Relay, Told
      <4>2. <<Relay(e)>> \in Seq(Message) /\ None(<<Relay(e)>>, Told(m))
        BY <4>1, NoneOfOne
      <4>3. outbox'[h] = outbox[h] \o <<Relay(e)>>
        BY <3>1, <3>3, <4>1, AppendIsConcat
      <4>. DEFINE t == <<Relay(e)>>
      <4>. HIDE DEF t
      <4>4. /\ Ids(outbox[h] \o t, Told(m)) = Ids(outbox[h], Told(m))
            /\ ToldInOrder(outbox[h], m) => ToldInOrder(outbox[h] \o t, m)
        BY <3>1, <4>2, ToldOther DEF t
      <4>5. /\ Ids(outbox'[h], Told(m)) = Ids(outbox[h], Told(m))
            /\ ToldInOrder(outbox[h], m) => ToldInOrder(outbox'[h], m)
        BY <4>3, <4>4 DEF t
      <4>. QED  BY <4>5 DEF ToldIds
    <3>. QED  BY <1>4, <3>2, <3>3, QueueTypes DEF RoutesEvent
  <2>. QED  BY <1>1, <1>3, <2>1 DEF OrderInv
<1>5. CASE RoutesAnswer(e)
  <2>1. PICK ms : TellsOf(e, ms) /\ outbox' \in {outbox, [outbox EXCEPT ![e.to] = @ \o ms]}
    BY <1>5 DEF RoutesAnswer
  <2>2. e.to \in Handlers /\ e.from \in Mods /\ e.mod \in {e.from, All}
    <3>1. e.to \in Handlers /\ e.from \in Mods
      BY <1>1, <1>5 DEF RoutesAnswer, ModReply
    <3>2. \E r \in Queued(e.from) : e \in AnswersOf(e.from, r)
      BY <1>1, <3>1, OutgoingFacts
    <3>. QED  BY <3>1, <3>2 DEF AnswersOf, Queued
  <2>3. ms \in Seq(Message)
    BY <1>1, <2>1, <2>2, TellingsOrder
  <2>4. ASSUME NEW h \in Handlers, NEW m \in Mods
        PROVE  OrderOf(h, m)'
    <3>1. CASE h = e.to /\ m = e.from
      <4>1. /\ Ids(ms, Told(m)) \subseteq {e.id} /\ ToldInOrder(ms, m)
            /\ outbox[h] \in Seq(Message)
        BY <1>1, <2>1, <2>2, TellingsOrder, QueueTypes
      <4>2. e \in AnswersTo(h, m)
        BY <1>1, <3>1 DEF AnswersTo
      <4>3. e.id \in AnswerIds(h, m) /\ Below({e.id}, AnswerIds(h, m)')
        BY <1>2, <4>2
      <4>4. Below(ToldIds(h, m), {e.id})
        BY <1>2, <4>3 DEF OrderOf, InLine, Below
      <4>5. Below(Ids(outbox[h], Told(m)), Ids(ms, Told(m)))
        BY <4>1, <4>4 DEF Below, ToldIds
      <4>6. outbox'[h] = outbox[h] \/ outbox'[h] = outbox[h] \o ms
        BY <2>1, <2>2, <3>1, QueueTypes
      <4>7. ToldInOrder(outbox[h] \o ms, m)
        BY <1>2, <2>3, <4>1, <4>5, ToldConcat DEF OrderOf
      <4>8. ToldIds(h, m)' \subseteq ToldIds(h, m) \cup {e.id}
        <5>1. Ids(outbox[h] \o ms, Told(m)) = Ids(outbox[h], Told(m)) \cup Ids(ms, Told(m))
          BY <2>3, <4>1, IdsConcat
        <5>. QED  BY <4>1, <4>6, <5>1 DEF ToldIds
      <4>9. InLine(ToldIds(h, m)', AnswerIds(h, m)', QueuedIds(h, m)', RequestIds(h)')
        <5>1. InLine(ToldIds(h, m), AnswerIds(h, m), QueuedIds(h, m), RequestIds(h))
          BY <1>2 DEF OrderOf
        <5>2. AnswerIds(h, m)' \subseteq AnswerIds(h, m)
          BY <1>2
        <5>3. InLine(ToldIds(h, m)', AnswerIds(h, m)', QueuedIds(h, m), RequestIds(h))
          BY <4>3, <4>8, <5>1, <5>2, InLineTell
        <5>. QED  BY <1>2, <5>3
      <4>. QED  BY <1>1, <1>2, <4>6, <4>7, <4>9 DEF OrderOf
    <3>2. CASE ~(h = e.to /\ m = e.from)
      <4>1. e.to = h => None(ms, Told(m))
        BY <1>1, <2>1, <2>2, <3>2, TellingsOrder
      <4>. QED  BY <1>3, <2>1, <2>2, <2>3, <4>1, OutboxOther
    <3>. QED  BY <3>1, <3>2
  <2>. QED  BY <1>1, <2>4 DEF OrderInv
<1>. QED  BY <1>1, <1>4, <1>5

\* Module m takes none, the first or all of its requests.
LEMMA QueueShrinks ==
    ASSUME TypeOK, NEW m \in Mods, TakesNothing(m) \/ TakesFirst(m) \/ TakesAll(m),
           NEW h \in Handlers, NEW n \in Mods, OrderOf(h, n)
    PROVE  /\ Ascending(modq'[n], RequestsOf(h))
           /\ QueuedIds(h, n)' \subseteq QueuedIds(h, n)
<1>. DEFINE G == RequestsOf(h)
<1>1. modq[n] \in Seq(Request) /\ Ascending(modq[n], G)
  BY QueueTypes DEF OrderOf
<1>2. /\ QueuedIds(h, n) = Ids(modq[n], G)
      /\ QueuedIds(h, n)' = Ids(modq'[n], G)
  BY DEF QueuedIds
<1>. HIDE DEF G
<1>3. \/ modq'[n] = modq[n]
      \/ modq[n] # <<>> /\ modq'[n] = Tail(modq[n])
      \/ modq'[n] = <<>>
  BY QueueTypes DEF TakesNothing, TakesFirst, TakesAll
<1>4. modq[n] # <<>> => /\ Ids(Tail(modq[n]), G) \subseteq Ids(modq[n], G)
                        /\ Ascending(Tail(modq[n]), G)
  BY <1>1, IdsTail
<1>5. Ids(<<>>, G) = {} /\ Ascending(<<>>, G)
  BY IdsOfEmpty
<1>6. Ascending(modq'[n], G) /\ Ids(modq'[n], G) \subseteq Ids(modq[n], G)
  BY <1>1, <1>3, <1>4, <1>5
<1>. QED  BY <1>2, <1>6 DEF G

\* Module m sends es, none of which is an answer of n to h.
LEMMA RepliesOther ==
    ASSUME TypeOK, NEW h \in Handlers, NEW n \in Mods, OrderOf(h, n),
           NEW es \in Seq(ModReply), None(es, AnswersTo(h, n)), replies' = replies \o es
    PROVE  /\ Ascending(replies', AnswersTo(h, n))
           /\ AnswerIds(h, n)' = AnswerIds(h, n)
<1>. DEFINE G == AnswersTo(h, n)
<1>1. replies \in Seq(ModReply) /\ Ascending(replies, G)
  BY QueueTypes DEF OrderOf
<1>2. AnswerIds(h, n) = Ids(replies, G) /\ AnswerIds(h, n)' = Ids(replies', G)
  BY DEF AnswerIds
<1>3. Ids(es, G) = {} /\ Ascending(es, G)
  BY IdsOfNone
<1>. HIDE DEF G
<1>4. Below(Ids(replies, G), Ids(es, G))
  BY <1>3 DEF Below
<1>5. /\ Ids(replies \o es, G) = Ids(replies, G) \cup Ids(es, G)
      /\ Ascending(replies \o es, G)
  BY <1>1, <1>3, <1>4, IdsConcatUp
<1>. QED  BY <1>2, <1>3, <1>5 DEF G

LEMMA OrderAtModule ==
    ASSUME TypeOK, MatchInv, OrderInv, NEW m \in Mods, ModuleNext(m)
    PROVE  OrderInv'
<1>1. /\ replies \in Seq(ModReply) /\ modq \in [Mods -> Seq(Request)]
      /\ \A h \in Handlers : \A n \in Mods : OrderOf(h, n)
      /\ Nobody \notin Handlers
  BY QueueTypes DEF OrderInv
<1>2. UNCHANGED <<requests, outbox>>
  BY NodeTyped, ModuleShape DEF Emits, AnswersFirst
<1>3. \A h \in Handlers : Ascending(requests', RequestsOf(h))
  BY <1>2 DEF OrderInv
<1>4. ASSUME NEW h \in Handlers, NEW n \in Mods,
             TakesNothing(m) \/ TakesFirst(m) \/ TakesAll(m),
             NEW es \in Seq(ModReply), None(es, AnswersTo(h, n)), replies' = replies \o es
      PROVE  OrderOf(h, n)'
  <2>1. OrderOf(h, n)
    BY <1>1
  <2>2. Ascending(modq'[n], RequestsOf(h)) /\ QueuedIds(h, n)' \subseteq QueuedIds(h, n)
    BY <1>4, <2>1, QueueShrinks
  <2>3. Ascending(replies', AnswersTo(h, n)) /\ AnswerIds(h, n)' = AnswerIds(h, n)
    BY <1>4, <2>1, RepliesOther
  <2>4. /\ ToldInOrder(outbox'[h], n)
        /\ ToldIds(h, n)' = ToldIds(h, n) /\ RequestIds(h)' = RequestIds(h)
    BY <1>2, <2>1 DEF OrderOf, ToldIds, RequestIds
  <2>. QED  BY <2>1, <2>2, <2>3, <2>4, OrderShrinks
<1>5. ASSUME NEW h \in Handlers, NEW n \in Mods, NEW es \in Seq(Emissions(m))
      PROVE  es \in Seq(ModReply) /\ None(es, AnswersTo(h, n))
  <2>1. Emissions(m) \cap AnswersTo(h, n) = {}
    BY <1>1 DEF Emissions, AnswersTo
  <2>. QED  BY <2>1, EmissionsAreReplies, EveryIsNone
<1>6. CASE Emits(m)
  BY <1>3, <1>4, <1>5, <1>6 DEF Emits, OrderInv
<1>7. CASE AnswersFirst(m)
  <2>. DEFINE r == Head(modq[m])
  <2>1. PICK es \in Seq(Emissions(m)), e \in AnswersOf(m, r) :
          replies' = replies \o (es \o <<e>>)
    BY <1>7 DEF AnswersFirst
  <2>2. r \in Queued(m) /\ r \in Request /\ TakesFirst(m)
    BY <1>1, <1>7, EveryTail DEF AnswersFirst, TakesFirst, MatchInv
  <2>3. ASSUME NEW h \in Handlers
        PROVE  /\ r \in RequestsOf(h) =>
                    /\ r.id \in QueuedIds(h, m)
                    /\ Below({r.id}, QueuedIds(h, m)')
               /\ QueuedIds(h, m)' \subseteq QueuedIds(h, m)
               /\ Ascending(modq'[m], RequestsOf(h))
    <3>1. Ascending(modq[m], RequestsOf(h)) /\ modq[m] \in Seq(Request)
      BY <1>1 DEF OrderOf
    <3>2. modq[m] # <<>> /\ modq'[m] = Tail(modq[m])
      BY <1>1, <2>2 DEF TakesFirst
    <3>. QED  BY <3>1, <3>2, IdsTail DEF QueuedIds
  <2>. HIDE DEF r
  <2>4. /\ e \in ModReply /\ e.to = r.hid /\ e.id = r.id /\ e.from = m
        /\ r.kind # "quit" /\ r.hid \in Handlers
    BY <2>1, <2>2 DEF AnswersOf, Queued, ModuleRequests, Request
  <2>5. <<e>> \in Seq(ModReply)
    BY <2>4
  <2>6. ASSUME NEW h \in Handlers, NEW n \in Mods
        PROVE  OrderOf(h, n)'
    <3>1. es \in Seq(ModReply) /\ None(es, AnswersTo(h, n))
      BY <1>5
    <3>2. es \o <<e>> \in Seq(ModReply)
      BY <2>5, <3>1, ConcatProperties
    <3>3. CASE h = r.hid /\ n = m
      <4>. DEFINE G == AnswersTo(h, n)
      <4>1. /\ AnswerIds(h, n) = Ids(replies, G) /\ AnswerIds(h, n)' = Ids(replies', G)
            /\ Ascending(replies, G)
            /\ InLine(ToldIds(h, n), AnswerIds(h, n), QueuedIds(h, n), RequestIds(h))
        BY <1>1 DEF AnswerIds, OrderOf
      <4>2. e \in G /\ r \in RequestsOf(h)
        BY <2>2, <2>4, <3>3 DEF AnswersTo, RequestsOf
      <4>3. None(es, G)
        BY <3>1
      <4>. HIDE DEF G
      <4>4. Ids(<<e>>, G) = {r.id} /\ Ascending(<<e>>, G)
        BY <2>4, <4>2, IdsOfOne, Zenon
      <4>5. Ids(es, G) = {} /\ Ascending(es, G)
        BY <4>3, IdsOfNone
      <4>6. Below(Ids(es, G), Ids(<<e>>, G))
        BY <4>5 DEF Below
      <4>7. /\ Ids(es \o <<e>>, G) = Ids(es, G) \cup Ids(<<e>>, G)
            /\ Ascending(es \o <<e>>, G)
        BY <2>5, <3>1, <4>4, <4>5, <4>6, IdsConcatUp
      <4>8. Ids(es \o <<e>>, G) = {r.id}
        BY <4>4, <4>5, <4>7
      <4>9. r.id \in QueuedIds(h, n) /\ Below({r.id}, QueuedIds(h, n)')
        BY <2>3, <3>3, <4>2
      <4>10. Below(Ids(replies, G), Ids(es \o <<e>>, G))
        BY <4>1, <4>8, <4>9 DEF InLine, Below
      <4>11. /\ Ids(replies \o (es \o <<e>>), G) = Ids(replies, G) \cup Ids(es \o <<e>>, G)
             /\ Ascending(replies \o (es \o <<e>>), G)
        BY <1>1, <3>2, <4>1, <4>7, <4>10, IdsConcatUp
      <4>12. AnswerIds(h, n)' = AnswerIds(h, n) \cup {r.id} /\ Ascending(replies', G)
        BY <2>1, <4>1, <4>8, <4>11
      <4>13. QueuedIds(h, n)' \subseteq QueuedIds(h, n) /\ Ascending(modq'[n], RequestsOf(h))
        BY <2>3, <3>3
      <4>14. InLine(ToldIds(h, n), AnswerIds(h, n) \cup {r.id}, QueuedIds(h, n)', RequestIds(h))
        BY <4>1, <4>9, <4>13, InLineAnswer
      <4>15. /\ ToldIds(h, n)' = ToldIds(h, n) /\ RequestIds(h)' = RequestIds(h)
             /\ ToldInOrder(outbox'[h], n)
        BY <1>1, <1>2 DEF ToldIds, RequestIds, OrderOf
      <4>. QED  BY <4>12, <4>13, <4>14, <4>15 DEF OrderOf, G
    <3>4. CASE ~(h = r.hid /\ n = m)
      <4>1. e \notin AnswersTo(h, n)
        BY <2>4, <3>4 DEF AnswersTo
      <4>2. None(<<e>>, AnswersTo(h, n))
        BY <4>1, NoneOfOne
      <4>3. None(es \o <<e>>, AnswersTo(h, n))
        BY <2>5, <3>1, <4>2, ConcatNone
      <4>. QED  BY <1>4, <2>1, <2>2, <3>2, <4>3
    <3>. QED  BY <3>3, <3>4
  <2>. QED  BY <1>3, <2>6 DEF OrderInv
<1>. QED  BY <1>6, <1>7, NodeTyped, ModuleShape

\* The numbers of all requests on their way, and of what was told, are at most
\* the number of requests that were made.
LEMMA IdsMade ==
    ASSUME TypeOK, MatchInv, NEW h \in Handlers, NEW m \in Mods
    PROVE  Below(ToldIds(h, m) \cup AnswerIds(h, m) \cup QueuedIds(h, m) \cup RequestIds(h),
                 {Len(asked[h]) + 1})
<1>. DEFINE n == Len(asked[h])
<1>1. n \in Nat
  BY LenProperties DEF TypeOK, ConnectionTypeOK
<1>2. \A r \in Made : r.hid = h => r.id < n + 1
  BY <1>1 DEF Made
<1>3. Below(RequestIds(h), {n + 1})
  <2>1. \A r \in Ingoing : r \in RequestsOf(h) => r.id < n + 1
    BY <1>2 DEF Ingoing, RequestsOf
  <2>. QED  BY <2>1, IdsBelow DEF MatchInv, RequestIds
<1>4. Below(QueuedIds(h, m), {n + 1})
  <2>1. \A r \in Queued(m) : r \in RequestsOf(h) => r.id < n + 1
    BY <1>2 DEF Queued, RequestsOf
  <2>. QED  BY <2>1, IdsBelow DEF MatchInv, QueuedIds
<1>5. Below(AnswerIds(h, m), {n + 1})
  <2>1. \A e \in Outgoing : e \in AnswersTo(h, m) => e.id < n + 1
    BY <1>1, OutgoingFacts DEF Outgoing, AnswersTo
  <2>. QED  BY <2>1, IdsBelow DEF MatchInv, AnswerIds
<1>6. Below(ToldIds(h, m), {n + 1})
  <2>1. \A x \in Known(h) : x \in Told(m) => x.id < n + 1
    BY <1>1 DEF Known, Message
  <2>. QED  BY <2>1, IdsBelow DEF MatchInv, ToldIds
<1>. QED  BY <1>3, <1>4, <1>5, <1>6 DEF Below

LEMMA OrderAtConnection ==
    ASSUME TypeOK, MatchInv, OrderInv, NEW h \in Handlers, ConnectionNext(h)
    PROVE  OrderInv'
<1>1. /\ UNCHANGED <<modq, replies>>
      /\ requests \in Seq(Request) /\ outbox \in [Handlers -> Seq(Message)]
      /\ \A g \in Handlers : /\ Ascending(requests, RequestsOf(g))
                             /\ \A m \in Mods : OrderOf(g, m)
  BY ConnectionShape, QueueTypes DEF OrderInv
<1>2. ASSUME NEW g \in Handlers, NEW m \in Mods,
             ToldIds(g, m)' = ToldIds(g, m), ToldInOrder(outbox'[g], m),
             InLine(ToldIds(g, m), AnswerIds(g, m), QueuedIds(g, m), RequestIds(g)')
      PROVE  OrderOf(g, m)'
  BY <1>1, <1>2 DEF OrderOf, AnswerIds, QueuedIds
<1>3. CASE UNCHANGED <<requests, outbox, asked>>
  BY <1>1, <1>3 DEF OrderInv, OrderOf, ToldIds, AnswerIds, QueuedIds, RequestIds
<1>4. ASSUME NEW r \in Request, r.hid = h, requests' = Append(requests, r),
             r.id = Len(asked[h]) + 1 \/ r.kind = "quit", outbox' = outbox
      PROVE  OrderInv'
  <2>1. ASSUME NEW g \in Handlers
        PROVE  /\ Ascending(requests', RequestsOf(g))
               /\ \A m \in Mods : OrderOf(g, m)'
    <3>. DEFINE G == RequestsOf(g)
    <3>1. RequestIds(g) = Ids(requests, G) /\ RequestIds(g)' = Ids(requests', G)
      BY DEF RequestIds
    <3>2. r \in G => g = h /\ r.id = Len(asked[h]) + 1
      BY <1>4 DEF RequestsOf
    <3>3. \A m \in Mods :
            r \in G => Below(ToldIds(g, m) \cup AnswerIds(g, m) \cup QueuedIds(g, m)
                               \cup RequestIds(g), {r.id})
      BY <3>2, IdsMade
    <3>4. Ascending(requests, G)
      BY <1>1
    <3>5. r \in G => Below(Ids(requests, G), {r.id})
      <4>1. \A x \in Ingoing : (r \in G /\ x \in G) => x.id < r.id
        <5>1. Len(asked[h]) \in Nat
          BY LenProperties DEF TypeOK, ConnectionTypeOK
        <5>. QED  BY <3>2, <5>1 DEF Ingoing, Made, RequestsOf
      <4>. HIDE DEF G
      <4>. QED  BY <4>1, IdsBelow DEF MatchInv
    <3>6. \A m \in Mods :
            /\ ToldIds(g, m)' = ToldIds(g, m) /\ ToldInOrder(outbox'[g], m)
            /\ InLine(ToldIds(g, m), AnswerIds(g, m), QueuedIds(g, m), RequestIds(g))
      BY <1>1, <1>4 DEF OrderOf, ToldIds
    <3>. HIDE DEF G
    <3>7. r \notin G => Ids(Append(requests, r), G) = Ids(requests, G)
                        /\ Ascending(Append(requests, r), G)
      BY <1>1, <3>4, IdsAppendOut
    <3>8. r \in G => Ids(Append(requests, r), G) = Ids(requests, G) \cup {r.id}
                     /\ Ascending(Append(requests, r), G)
      BY <1>1, <3>4, <3>5, IdsAppendIn
    <3>9. Ascending(requests', G)
      BY <1>4, <3>7, <3>8
    <3>10. ASSUME NEW m \in Mods
           PROVE  InLine(ToldIds(g, m), AnswerIds(g, m), QueuedIds(g, m), RequestIds(g)')
      <4>1. CASE r \notin G
        BY <1>4, <3>1, <3>6, <3>7, <4>1
      <4>2. CASE r \in G
        <5>1. RequestIds(g)' = RequestIds(g) \cup {r.id}
          BY <1>4, <3>1, <3>8, <4>2
        <5>2. Below(ToldIds(g, m) \cup AnswerIds(g, m) \cup QueuedIds(g, m)
                      \cup RequestIds(g), {r.id})
          BY <3>3, <4>2
        <5>3. InLine(ToldIds(g, m), AnswerIds(g, m), QueuedIds(g, m), RequestIds(g))
          BY <3>6
        <5>4. InLine(ToldIds(g, m), AnswerIds(g, m), QueuedIds(g, m), RequestIds(g) \cup {r.id})
          BY <5>2, <5>3, InLineAsks, Zenon
        <5>. QED  BY <5>1, <5>4
      <4>. QED  BY <4>1, <4>2
    <3>. QED  BY <1>2, <3>6, <3>9, <3>10 DEF G
  <2>. QED  BY <2>1 DEF OrderInv
<1>5. CASE SendsQuit(h)
  BY <1>4, <1>5 DEF SendsQuit
<1>6. CASE MakesRequest(h)
  <2>1. PICK r \in Request :
          /\ r.hid = h /\ r.id = Len(asked[h]) + 1
          /\ \/ r.kind # "ping" /\ requests' = Append(requests, r) /\ outbox' = outbox
             \/ /\ requests' = requests
                /\ outbox' \in {outbox, [outbox EXCEPT ![h] = Append(@, Answer(r, "pong"))]}
    BY <1>6 DEF MakesRequest
  <2>2. CASE requests' = Append(requests, r) /\ outbox' = outbox
    BY <1>4, <2>1, <2>2
  <2>3. CASE /\ requests' = requests
             /\ outbox' \in {outbox, [outbox EXCEPT ![h] = Append(@, Answer(r, "pong"))]}
    <3>. DEFINE x == Answer(r, "pong")
    <3>1. x \in Message /\ x.kind = "pong"
      BY AnswerType DEF Answer
    <3>. HIDE DEF x
    <3>2. <<x>> \in Seq(Message) /\ \A m : None(<<x>>, Told(m))
      BY <3>1, NoneOfOne DEF Told
    <3>3. Append(outbox[h], x) = outbox[h] \o <<x>>
      BY <1>1, <3>1, AppendIsConcat
    <3>4. outbox' \in {outbox, [outbox EXCEPT ![h] = @ \o <<x>>]}
      BY <1>1, <2>3, <3>3 DEF x
    <3>5. ASSUME NEW g \in Handlers, NEW m \in Mods
          PROVE  OrderOf(g, m)'
      <4>1. /\ ToldIds(g, m)' = ToldIds(g, m)
            /\ ToldInOrder(outbox[g], m) => ToldInOrder(outbox'[g], m)
        BY <3>2, <3>4, OutboxOther
      <4>. QED  BY <1>1, <1>2, <2>3, <4>1 DEF OrderOf, RequestIds
    <3>. QED  BY <1>1, <2>3, <3>5 DEF OrderInv
  <2>. QED  BY <2>1, <2>2, <2>3
<1>. QED  BY <1>3, <1>5, <1>6, ConnectionShape

LEMMA OrderCorrect == Spec => []OrderInv
<1>1. Init => OrderInv
  <2>. SUFFICES ASSUME Init PROVE OrderInv
    OBVIOUS
  <2>1. /\ requests = <<>> /\ replies = <<>>
        /\ \A m \in Mods : modq[m] = <<>>
        /\ \A h \in Handlers : outbox[h] = <<>>
    BY DEF Init, ChannelsInit
  <2>2. \A m : ToldInOrder(<<>>, m)
    BY DEF ToldInOrder
  <2>3. \A G : Ids(<<>>, G) = {} /\ Ascending(<<>>, G)
    BY IdsOfEmpty
  <2>4. InLine({}, {}, {}, {})
    BY DEF InLine, Below
  <2>5. \A h \in Handlers : Ascending(requests, RequestsOf(h))
    BY <2>1, <2>3
  <2>6. ASSUME NEW h \in Handlers, NEW m \in Mods
        PROVE  OrderOf(h, m)
    BY <2>1, <2>2, <2>3, <2>4
    DEF OrderOf, ToldIds, AnswerIds, QueuedIds, RequestIds
  <2>. QED  BY <2>5, <2>6 DEF OrderInv
<1>2. TypeOK /\ MatchInv /\ OrderInv /\ [Next]_vars => OrderInv'
  <2>. SUFFICES ASSUME TypeOK, MatchInv, OrderInv, [Next]_vars
                PROVE  OrderInv'
    OBVIOUS
  <2>1. CASE DispatcherStep
    <3>1. CASE Register
      BY <3>1 DEF Register, OrderInv, OrderOf, ToldIds, AnswerIds, QueuedIds, RequestIds
    <3>. QED  BY <2>1, <3>1, OrderAtRequest, OrderAtReply DEF DispatcherStep, DispatcherNext
  <2>2. ASSUME NEW m \in Mods, ModuleStep(m)
        PROVE  OrderInv'
    BY <2>2, OrderAtModule DEF ModuleStep
  <2>3. ASSUME NEW h \in Handlers, ConnectionStep(h)
        PROVE  OrderInv'
    BY <2>3, OrderAtConnection DEF ConnectionStep
  <2>4. CASE UNCHANGED vars
    BY <2>4
    DEF vars, chanVars, OrderInv, OrderOf, ToldIds, AnswerIds, QueuedIds, RequestIds
  <2>. QED  BY <2>1, <2>2, <2>3, <2>4 DEF Next
<1>. QED  BY <1>1, <1>2, TypeCorrect, MatchCorrect, PTL DEF Spec

\* A module answers a client's requests in the order they were made, and none
\* twice; only an activation has updates before its Active (module.rs:282-307,
\* server.rs:189-305).
THEOREM AnsweredInOrder == Spec => []RepliesInOrder
<1>1. TypeOK /\ OrderInv => RepliesInOrder
  <2>. SUFFICES ASSUME TypeOK, OrderInv
                PROVE  RepliesInOrder
    OBVIOUS
  <2>1. ASSUME NEW h \in Handlers, NEW j \in 1 .. Len(outbox[h]), NEW i \in 1 .. j - 1,
               outbox[h][i].id # 0, outbox[h][i].kind \notin {"inactive", "pong"},
               outbox[h][j].id # 0, outbox[h][j].kind \notin {"inactive", "pong"},
               outbox[h][i].mod = outbox[h][j].mod, outbox[h][i].mod \in Mods
        PROVE  \/ outbox[h][i].id < outbox[h][j].id
               \/ /\ outbox[h][i].id = outbox[h][j].id
                  /\ outbox[h][i].kind = "update" /\ outbox[h][j].kind = "active"
    <3>. DEFINE m == outbox[h][i].mod
    <3>1. ToldInOrder(outbox[h], m) /\ outbox[h] \in Seq(Message)
      BY <2>1, QueueTypes DEF OrderInv, OrderOf
    <3>2. i \in 1 .. Len(outbox[h]) /\ i < j
      BY <3>1, LenProperties
    <3>3. outbox[h][i] \in Message /\ outbox[h][j] \in Message
      BY <3>1, <3>2, ElementOfSeq
    <3>4. outbox[h][i] \in Told(m) /\ outbox[h][j] \in Told(m)
      BY <2>1, <3>3 DEF Told
    <3>. QED  BY <3>1, <3>2, <3>4 DEF ToldInOrder
  <2>. QED  BY <2>1 DEF RepliesInOrder
<1>. QED  BY <1>1, TypeCorrect, OrderCorrect, PTL

-----------------------------------------------------------------------------
(* The node implements the abstract service of module Service: every step   *)
(* of the dispatcher, a module or a connection is one of its actions, or     *)
(* changes nothing of it.                                                    *)

(* The state of the service that a state of the node stands for             *)

MadeBy(h) == [i \in DOMAIN asked[h] |-> Destination(asked[h][i])]

MadeBar == [h \in Handlers |-> MadeBy(h)]
OpenBar == [h \in Handlers |-> InFlight(h)]
ToldBar == [h \in Handlers |-> ToldTo(h)]

\* The messages of the service.
Part(i) == [id |-> i, last |-> FALSE]
Last(i) == [id |-> i, last |-> TRUE]

LEMMA AskStep ==
    ASSUME NEW h \in Handlers, NEW d \in Mods \cup {Nobody},
           MadeBar' = [MadeBar EXCEPT ![h] = Append(@, d)],
           NEW i, i = Len(MadeBar[h]) + 1,
           \/ OpenBar' = [OpenBar EXCEPT ![h] = @ \cup {i}] /\ ToldBar' = ToldBar
           \/ ToldBar' = [ToldBar EXCEPT ![h] = Append(@, Last(i))] /\ OpenBar' = OpenBar
           \/ OpenBar' = OpenBar /\ ToldBar' = ToldBar
    PROVE  AsService!Ask(h)
BY DEF AsService!Ask, AsService!Last, Last, MadeBar, OpenBar, ToldBar, MadeBy

LEMMA InformStep ==
    ASSUME NEW h \in Handlers, NEW i \in InFlight(h),
           ToldBar' = [ToldBar EXCEPT ![h] = Append(@, Part(i))],
           OpenBar' = OpenBar \/ OpenBar' = [OpenBar EXCEPT ![h] = @ \ {i}],
           MadeBar' = MadeBar
    PROVE  AsService!Inform(h)
BY DEF AsService!Inform, AsService!Part, Part, MadeBar, OpenBar, ToldBar, MadeBy

LEMMA CloseStep ==
    ASSUME NEW h \in Handlers, NEW i \in InFlight(h),
           MadeBar[h][i] \in Mods =>
             \A j \in InFlight(h) : MadeBar[h][j] = MadeBar[h][i] => i <= j,
           \/ ToldBar' = [ToldBar EXCEPT ![h] = Append(@, Last(i))]
           \/ ToldBar' = [ToldBar EXCEPT ![h] = @ \o <<Part(i), Last(i)>>],
           OpenBar' = [OpenBar EXCEPT ![h] = @ \ {i}],
           MadeBar' = MadeBar
    PROVE  AsService!Close(h)
BY DEF AsService!Close, AsService!First, AsService!Part, AsService!Last, Part, Last,
       MadeBar, OpenBar, ToldBar, MadeBy

LEMMA TellStep ==
    ASSUME NEW S \in SUBSET Handlers,
           ToldBar' = [h \in Handlers |-> IF h \in S THEN Append(ToldBar[h], Part(0))
                                                     ELSE ToldBar[h]],
           MadeBar' = MadeBar, OpenBar' = OpenBar
    PROVE  AsService!Tell
BY DEF AsService!Tell, AsService!Part, Part, MadeBar, OpenBar, ToldBar, MadeBy

LEMMA LoseStep ==
    ASSUME \A h \in Handlers : InFlight(h)' \subseteq InFlight(h),
           MadeBar' = MadeBar, ToldBar' = ToldBar
    PROVE  AsService!Lose
BY DEF AsService!Lose, MadeBar, OpenBar, ToldBar, MadeBy

-----------------------------------------------------------------------------
(* How the state of the service changes with the queues of the node         *)

\* The destinations of requests q; what messages s are for requests q.
MadeIn(q) == [i \in DOMAIN q |-> Destination(q[i])]
LastIn(q, x) == x.kind = "update" => x.id # 0 /\ q[x.id].kind = "read"
ToldIn(q, s) == [k \in DOMAIN s |-> [id |-> s[k].id, last |-> LastIn(q, s[k])]]

ServiceMessage == [id : Nat, last : BOOLEAN]

LEMMA BarsAre ==
    ASSUME NEW h \in Handlers
    PROVE  /\ MadeBar[h] = MadeIn(asked[h])
           /\ ToldBar[h] = ToldIn(asked[h], outbox[h])
BY DEF MadeBar, MadeBy, MadeIn, ToldBar, ToldTo, ToldIn, IsLast, LastIn

\* A function on 1 .. n is a sequence.
LEMMA SeqOfFunction ==
    ASSUME NEW S, NEW n \in Nat, NEW f \in [1 .. n -> S]
    PROVE  f \in Seq(S) /\ Len(f) = n
<1>1. f \in Seq(S)
  BY SeqDef
<1>. QED  BY <1>1, LenProperties

LEMMA MadeInAppend ==
    ASSUME NEW q \in Seq(Request), NEW r \in Request
    PROVE  /\ MadeIn(Append(q, r)) = Append(MadeIn(q), Destination(r))
           /\ Len(MadeIn(q)) = Len(q)
<1>. DEFINE D == Mods \cup {Nobody}
            t == MadeIn(Append(q, r))
            u == Append(MadeIn(q), Destination(r))
            n == Len(q)
<1>1. \A x : Destination(x) \in D
  BY DEF Destination
<1>2. /\ n \in Nat /\ DOMAIN q = 1 .. n
      /\ Append(q, r) \in Seq(Request) /\ Len(Append(q, r)) = n + 1
      /\ DOMAIN Append(q, r) = 1 .. n + 1
      /\ \A i \in 1 .. n : Append(q, r)[i] = q[i]
      /\ Append(q, r)[n + 1] = r
  BY AppendProperties, LenProperties
<1>3. MadeIn(q) \in Seq(D) /\ Len(MadeIn(q)) = n
  <2>1. MadeIn(q) \in [1 .. n -> D]
    BY <1>1, <1>2 DEF MadeIn
  <2>. QED  BY <1>2, <2>1, SeqOfFunction
<1>4. t \in Seq(D) /\ Len(t) = n + 1
  <2>1. t \in [1 .. n + 1 -> D] /\ n + 1 \in Nat
    BY <1>1, <1>2 DEF MadeIn
  <2>. QED  BY <2>1, SeqOfFunction
<1>5. /\ u \in Seq(D) /\ Len(u) = n + 1
      /\ \A i \in 1 .. n : u[i] = MadeIn(q)[i]
      /\ u[n + 1] = Destination(r)
  BY <1>1, <1>3, AppendProperties
<1>6. \A i \in 1 .. n + 1 : t[i] = u[i]
  <2>1. \A i \in 1 .. n + 1 : i \in 1 .. n \/ i = n + 1
    BY <1>2
  <2>2. \A i \in 1 .. n : t[i] = Destination(q[i]) /\ MadeIn(q)[i] = Destination(q[i])
    BY <1>2 DEF MadeIn
  <2>3. t[n + 1] = Destination(r)
    BY <1>2 DEF MadeIn
  <2>. QED  BY <1>5, <2>1, <2>2, <2>3
<1>. HIDE DEF D, t, u
<1>7. t = u
  BY <1>4, <1>5, <1>6, SeqEqual
<1>. QED  BY <1>3, <1>7 DEF t, u

LEMMA ToldInType ==
    ASSUME NEW q, NEW s \in Seq(Message)
    PROVE  /\ ToldIn(q, s) \in Seq(ServiceMessage)
           /\ Len(ToldIn(q, s)) = Len(s)
           /\ \A k \in 1 .. Len(s) :
                ToldIn(q, s)[k] = [id |-> s[k].id, last |-> LastIn(q, s[k])]
<1>1. Len(s) \in Nat /\ DOMAIN s = 1 .. Len(s)
  BY LenProperties
<1>2. \A k \in 1 .. Len(s) : s[k].id \in Nat
  <2>1. \A k \in 1 .. Len(s) : s[k] \in Message
    BY ElementOfSeq
  <2>. QED  BY <2>1 DEF Message
<1>3. \A k \in 1 .. Len(s) : LastIn(q, s[k]) \in BOOLEAN
  BY DEF LastIn
<1>4. \A k \in 1 .. Len(s) :
        [id |-> s[k].id, last |-> LastIn(q, s[k])] \in ServiceMessage
  BY <1>2, <1>3 DEF ServiceMessage
<1>5. ToldIn(q, s) \in [1 .. Len(s) -> ServiceMessage]
  BY <1>1, <1>4 DEF ToldIn
<1>6. \A k \in 1 .. Len(s) :
        ToldIn(q, s)[k] = [id |-> s[k].id, last |-> LastIn(q, s[k])]
  BY <1>1 DEF ToldIn
<1>. QED  BY <1>1, <1>5, <1>6, SeqOfFunction

LEMMA ToldInConcat ==
    ASSUME NEW q, NEW s \in Seq(Message), NEW t \in Seq(Message)
    PROVE  ToldIn(q, s \o t) = ToldIn(q, s) \o ToldIn(q, t)
<1>. DEFINE S == ToldIn(q, s)
            T == ToldIn(q, t)
            U == ToldIn(q, s \o t)
            V == S \o T
<1>1. /\ Len(s) \in Nat /\ Len(t) \in Nat
      /\ s \o t \in Seq(Message) /\ Len(s \o t) = Len(s) + Len(t)
      /\ \A i \in 1 .. Len(s) + Len(t) :
           (s \o t)[i] = IF i <= Len(s) THEN s[i] ELSE t[i - Len(s)]
  BY ConcatProperties, LenProperties
<1>2. /\ S \in Seq(ServiceMessage) /\ Len(S) = Len(s)
      /\ \A k \in 1 .. Len(s) : S[k] = [id |-> s[k].id, last |-> LastIn(q, s[k])]
      /\ T \in Seq(ServiceMessage) /\ Len(T) = Len(t)
      /\ \A k \in 1 .. Len(t) : T[k] = [id |-> t[k].id, last |-> LastIn(q, t[k])]
  BY ToldInType
<1>3. /\ U \in Seq(ServiceMessage) /\ Len(U) = Len(s \o t)
      /\ \A k \in 1 .. Len(s \o t) :
           U[k] = [id |-> (s \o t)[k].id, last |-> LastIn(q, (s \o t)[k])]
  BY <1>1, ToldInType
<1>. HIDE DEF S, T, U
<1>4. /\ V \in Seq(ServiceMessage) /\ Len(V) = Len(s) + Len(t)
      /\ \A i \in 1 .. Len(s) + Len(t) :
           V[i] = IF i <= Len(s) THEN S[i] ELSE T[i - Len(s)]
  <2>1. /\ S \o T \in Seq(ServiceMessage) /\ Len(S \o T) = Len(S) + Len(T)
        /\ \A i \in 1 .. Len(S) + Len(T) :
             (S \o T)[i] = IF i <= Len(S) THEN S[i] ELSE T[i - Len(S)]
    <3>1. S \in Seq(ServiceMessage) /\ T \in Seq(ServiceMessage)
      BY <1>2
    <3>. QED  BY <3>1, ConcatProperties
  <2>. HIDE DEF V
  <2>2. V = S \o T
    BY DEF V
  <2>. QED  BY <1>2, <2>1, <2>2
<1>. HIDE DEF V
<1>5. ASSUME NEW k \in 1 .. Len(s) + Len(t)
      PROVE  U[k] = V[k]
  <2>1. CASE k <= Len(s)
    <3>1. k \in 1 .. Len(s) /\ (s \o t)[k] = s[k] /\ V[k] = S[k]
      BY <1>1, <1>4, <2>1
    <3>. QED  BY <1>1, <1>2, <1>3, <3>1
  <2>2. CASE ~(k <= Len(s))
    <3>1. k - Len(s) \in 1 .. Len(t)
      BY <1>1, <2>2
    <3>2. (s \o t)[k] = t[k - Len(s)] /\ V[k] = T[k - Len(s)]
      BY <1>1, <1>4, <2>2
    <3>. QED  BY <1>1, <1>2, <1>3, <3>1, <3>2
  <2>. QED  BY <2>1, <2>2
<1>6. U = V
  BY <1>1, <1>3, <1>4, <1>5, SeqEqual
<1>. QED  BY <1>6 DEF S, T, U, V

LEMMA ToldInShort ==
    ASSUME NEW q, NEW x \in Message, NEW y \in Message
    PROVE  /\ ToldIn(q, <<x>>) = <<[id |-> x.id, last |-> LastIn(q, x)]>>
           /\ ToldIn(q, <<x, y>>) = <<[id |-> x.id, last |-> LastIn(q, x)],
                                      [id |-> y.id, last |-> LastIn(q, y)]>>
<1>. DEFINE a == [id |-> x.id, last |-> LastIn(q, x)]
            b == [id |-> y.id, last |-> LastIn(q, y)]
            s == ToldIn(q, <<x>>)
            t == ToldIn(q, <<x, y>>)
<1>1. <<x>> \in Seq(Message) /\ <<x, y>> \in Seq(Message)
  OBVIOUS
<1>2. /\ Len(<<x>>) = 1 /\ <<x>>[1] = x
      /\ Len(<<x, y>>) = 2 /\ <<x, y>>[1] = x /\ <<x, y>>[2] = y
      /\ 1 \in 1 .. 1 /\ 1 \in 1 .. 2 /\ 2 \in 1 .. 2
  OBVIOUS
<1>3. s \in Seq(ServiceMessage) /\ Len(s) = 1 /\ s[1] = a
  BY <1>1, <1>2, ToldInType
<1>4. t \in Seq(ServiceMessage) /\ Len(t) = 2 /\ t[1] = a /\ t[2] = b
  BY <1>1, <1>2, ToldInType
<1>. HIDE DEF a, b, s, t
<1>5. a \in ServiceMessage /\ b \in ServiceMessage
  <2>1. 1 \in 1 .. Len(t) /\ 2 \in 1 .. Len(t)
    BY <1>4
  <2>2. t[1] \in ServiceMessage /\ t[2] \in ServiceMessage
    BY <1>4, <2>1, ElementOfSeq
  <2>. QED  BY <1>4, <2>2
<1>6. s = <<a>>
  <2>1. <<a>> \in Seq(ServiceMessage) /\ Len(<<a>>) = 1 /\ <<a>>[1] = a
    BY <1>5
  <2>2. \A k \in 1 .. 1 : k = 1
    OBVIOUS
  <2>. QED  BY <1>3, <2>1, <2>2, SeqEqual
<1>7. t = <<a, b>>
  <2>1. /\ <<a, b>> \in Seq(ServiceMessage) /\ Len(<<a, b>>) = 2
        /\ <<a, b>>[1] = a /\ <<a, b>>[2] = b
    BY <1>5
  <2>2. \A k \in 1 .. 2 : k = 1 \/ k = 2
    OBVIOUS
  <2>. QED  BY <1>4, <2>1, <2>2, SeqEqual
<1>. QED  BY <1>6, <1>7 DEF a, b, s, t

\* A new request changes nothing of what the messages before it are.
LEMMA ToldInGrows ==
    ASSUME NEW q \in Seq(Request), NEW r \in Request, NEW s \in Seq(Message),
           \A k \in 1 .. Len(s) : s[k].id <= Len(q)
    PROVE  ToldIn(Append(q, r), s) = ToldIn(q, s)
<1>1. /\ Len(q) \in Nat /\ Len(s) \in Nat /\ DOMAIN s = 1 .. Len(s)
      /\ \A i \in 1 .. Len(q) : Append(q, r)[i] = q[i]
  BY AppendProperties, LenProperties
<1>2. ASSUME NEW k \in 1 .. Len(s)
      PROVE  LastIn(Append(q, r), s[k]) = LastIn(q, s[k])
  <2>1. s[k].id \in Nat
    <3>1. s[k] \in Message
      BY ElementOfSeq
    <3>. QED  BY <3>1 DEF Message
  <2>2. s[k].id # 0 => s[k].id \in 1 .. Len(q)
    BY <1>1, <2>1
  <2>. QED  BY <1>1, <2>2 DEF LastIn
<1>. QED  BY <1>1, <1>2 DEF ToldIn

-----------------------------------------------------------------------------
(* The open requests of handler h, in terms of the numbers in the queues    *)

OpenIds(h) ==
    RequestIds(h) \cup UNION {QueuedIds(h, m) \cup AnswerIds(h, m) : m \in Mods}

\* A number in a queue is that of a request that was made; in the queue of
\* module m, or of its answers, that of a request for m or for all modules.
LEMMA OpenFacts ==
    ASSUME TypeOK, MatchInv, NEW h \in Handlers
    PROVE  /\ RequestIds(h) \subseteq 1 .. Len(asked[h])
           /\ \A m \in Mods : \A i \in QueuedIds(h, m) \cup AnswerIds(h, m) :
                /\ i \in 1 .. Len(asked[h])
                /\ asked[h][i] \in Queued(m)
                /\ asked[h][i].mod = All => m \in StillOwing
<1>1. RequestIds(h) \subseteq 1 .. Len(asked[h])
  BY DEF MatchInv, Every, RequestIds, Ids, RequestsOf, Ingoing, Made
<1>2. ASSUME NEW m \in Mods, NEW i \in QueuedIds(h, m)
      PROVE  /\ i \in 1 .. Len(asked[h]) /\ asked[h][i] \in Queued(m)
             /\ asked[h][i].mod = All => m \in StillOwing
  <2>1. PICK k \in 1 .. Len(modq[m]) : modq[m][k] \in RequestsOf(h) /\ modq[m][k].id = i
    BY <1>2 DEF QueuedIds, Ids
  <2>. DEFINE r == modq[m][k]
  <2>2. r \in Queued(m) /\ r.hid = h /\ r.id = i
    BY <2>1 DEF MatchInv, Every, RequestsOf
  <2>3. i \in 1 .. Len(asked[h]) /\ asked[h][i] = r
    BY <2>2 DEF Queued, Made
  <2>4. r.mod = All => r \in GlobalRequests
    BY <2>2, QueueTypes DEF Queued, Made, GlobalRequests
  <2>5. r.mod = All => m \in StillOwing
    BY <2>1, <2>4 DEF StillOwing, None
  <2>. QED  BY <2>2, <2>3, <2>5
<1>3. ASSUME NEW m \in Mods, NEW i \in AnswerIds(h, m)
      PROVE  /\ i \in 1 .. Len(asked[h]) /\ asked[h][i] \in Queued(m)
             /\ asked[h][i].mod = All => m \in StillOwing
  <2>1. PICK k \in 1 .. Len(replies) : replies[k] \in AnswersTo(h, m) /\ replies[k].id = i
    BY <1>3 DEF AnswerIds, Ids
  <2>. DEFINE e == replies[k]
  <2>2. e \in Outgoing /\ e \in ModReply /\ e.to = h /\ e.from = m /\ e.id = i
    BY <2>1 DEF MatchInv, Every, AnswersTo
  <2>. HIDE DEF e
  <2>3. PICK r \in Queued(m) : e \in AnswersOf(m, r)
    BY <2>2, OutgoingFacts
  <2>4. /\ i \in 1 .. Len(asked[h]) /\ asked[h][i] = r
        /\ e.mod = r.mod /\ e.kind = "initupdates" <=> r.kind = "activate"
    BY <2>2, <2>3 DEF Queued, Made, AnswersOf
  <2>5. r.mod = All => e \in GlobalAnswers(m)
    BY <2>2, <2>3, <2>4, QueueTypes DEF Queued, GlobalAnswers
  <2>6. r.mod = All => m \in StillOwing
    BY <2>1, <2>5 DEF StillOwing, None, e
  <2>. QED  BY <2>3, <2>4, <2>6
<1>. QED  BY <1>1, <1>2, <1>3

LEMMA OpenIsInFlight ==
    ASSUME TypeOK, MatchInv, NEW h \in Handlers
    PROVE  InFlight(h) = OpenIds(h)
<1>1. /\ DOMAIN asked[h] = 1 .. Len(asked[h]) /\ Len(asked[h]) \in Nat
      /\ DOMAIN requests = 1 .. Len(requests)
      /\ DOMAIN replies = 1 .. Len(replies)
      /\ \A m \in Mods : DOMAIN modq[m] = 1 .. Len(modq[m])
  BY QueueTypes, LenProperties DEF TypeOK, ConnectionTypeOK
<1>2. ASSUME NEW i \in InFlight(h)
      PROVE  i \in OpenIds(h)
  <2>1. i \in DOMAIN asked[h] /\ i # 0
    BY <1>1 DEF InFlight
  <2>2. CASE InChannel(requests, h, i)
    <3>1. PICK k \in 1 .. Len(requests) : requests[k].hid = h /\ requests[k].id = i
      BY <1>1, <2>2 DEF InChannel
    <3>2. requests[k] \in RequestsOf(h)
      BY <2>1, <3>1 DEF MatchInv, Every, Ingoing, RequestsOf
    <3>. QED  BY <3>1, <3>2 DEF OpenIds, RequestIds, Ids
  <2>3. ASSUME NEW m \in Mods, InChannel(modq[m], h, i)
        PROVE  i \in OpenIds(h)
    <3>1. PICK k \in 1 .. Len(modq[m]) : modq[m][k].hid = h /\ modq[m][k].id = i
      BY <1>1, <2>3 DEF InChannel
    <3>2. modq[m][k] \in Queued(m)
      BY DEF MatchInv, Every
    <3>3. modq[m][k] \in RequestsOf(h)
      BY <3>1, <3>2 DEF Queued, Made, ModuleRequests, RequestsOf
    <3>4. i \in QueuedIds(h, m)
      BY <3>1, <3>3 DEF QueuedIds, Ids
    <3>. QED  BY <3>4 DEF OpenIds
  <2>4. ASSUME NEW k \in DOMAIN replies, replies[k].to = h, replies[k].id = i
        PROVE  i \in OpenIds(h)
    <3>1. replies[k] \in ModReply /\ k \in 1 .. Len(replies)
      BY <1>1 DEF MatchInv, Every, Outgoing
    <3>2. replies[k] \in AnswersTo(h, replies[k].from) /\ replies[k].from \in Mods
      BY <2>4, <3>1 DEF AnswersTo, ModReply
    <3>3. i \in AnswerIds(h, replies[k].from)
      BY <2>4, <3>1, <3>2 DEF AnswerIds, Ids
    <3>. QED  BY <3>2, <3>3 DEF OpenIds
  <2>. QED  BY <2>2, <2>3, <2>4 DEF InFlight
<1>3. ASSUME NEW i \in OpenIds(h)
      PROVE  i \in InFlight(h)
  <2>1. CASE i \in RequestIds(h)
    <3>1. InChannel(requests, h, i)
      BY <1>1, <2>1 DEF RequestIds, Ids, RequestsOf, InChannel
    <3>. QED  BY <1>1, <2>1, <3>1, OpenFacts DEF InFlight
  <2>2. ASSUME NEW m \in Mods, i \in QueuedIds(h, m)
        PROVE  i \in InFlight(h)
    <3>1. InChannel(modq[m], h, i)
      BY <1>1, <2>2 DEF QueuedIds, Ids, RequestsOf, InChannel
    <3>. QED  BY <1>1, <2>2, <3>1, OpenFacts DEF InFlight
  <2>3. ASSUME NEW m \in Mods, i \in AnswerIds(h, m)
        PROVE  i \in InFlight(h)
    <3>1. \E k \in DOMAIN replies : replies[k].to = h /\ replies[k].id = i
      BY <1>1, <2>3 DEF AnswerIds, Ids, AnswersTo
    <3>. QED  BY <1>1, <2>3, <3>1, OpenFacts DEF InFlight
  <2>. QED  BY <2>1, <2>2, <2>3 DEF OpenIds
<1>. QED  BY <1>2, <1>3

\* All invariants, before and after a step.
SafeInv == TypeOK /\ MatchInv /\ OrderInv /\ CountInv

\* Answers and events of one module are added to the replies.
LEMMA AnswersAdded ==
    ASSUME TypeOK, NEW h \in Handlers, NEW m \in Mods, NEW s \in Seq(ModReply),
           replies' = replies \o s
    PROVE  AnswerIds(h, m)' = AnswerIds(h, m) \cup Ids(s, AnswersTo(h, m))
<1>. DEFINE G == AnswersTo(h, m)
<1>1. AnswerIds(h, m) = Ids(replies, G) /\ AnswerIds(h, m)' = Ids(replies', G)
  BY DEF AnswerIds
<1>2. replies \in Seq(ModReply)
  BY QueueTypes
<1>. HIDE DEF G
<1>3. Ids(replies \o s, G) = Ids(replies, G) \cup Ids(s, G)
  BY <1>2, IdsConcat
<1>. QED  BY <1>1, <1>3 DEF G

\* The first request or reply is taken.
LEMMA RequestTaken ==
    ASSUME TypeOK, requests # <<>>, requests' = Tail(requests), NEW h \in Handlers
    PROVE  RequestIds(h) = RequestIds(h)' \cup
             (IF Head(requests) \in RequestsOf(h) THEN {Head(requests).id} ELSE {})
BY QueueTypes, IdsHead DEF RequestIds

LEMMA ReplyTaken ==
    ASSUME TypeOK, replies # <<>>, replies' = Tail(replies),
           NEW h \in Handlers, NEW m \in Mods
    PROVE  AnswerIds(h, m) = AnswerIds(h, m)' \cup
             (IF Head(replies) \in AnswersTo(h, m) THEN {Head(replies).id} ELSE {})
BY QueueTypes, IdsHead DEF AnswerIds

-----------------------------------------------------------------------------
(* The actions of the service, in terms of the node                         *)

LEMMA OpenAlways ==
    SafeInv => \A h \in Handlers : InFlight(h) = OpenIds(h)
BY OpenIsInFlight DEF SafeInv

LEMMA BothInFlight ==
    ASSUME SafeInv, SafeInv'
    PROVE  \A h \in Handlers : /\ InFlight(h) = OpenIds(h)
                               /\ InFlight(h)' = OpenIds(h)'
<1>1. (SafeInv => \A h \in Handlers : InFlight(h) = OpenIds(h))'
  BY OpenAlways, PTL
<1>. QED  BY <1>1, OpenAlways

LEMMA SameMade ==
    ASSUME asked' = asked
    PROVE  MadeBar' = MadeBar
BY DEF MadeBar, MadeBy

LEMMA LoseAt ==
    ASSUME SafeInv, SafeInv', asked' = asked, outbox' = outbox,
           \A h \in Handlers : OpenIds(h)' \subseteq OpenIds(h)
    PROVE  AsService!Lose
<1>1. ToldBar' = ToldBar
  BY DEF ToldBar, ToldTo, IsLast
<1>2. \A h \in Handlers : InFlight(h)' \subseteq InFlight(h)
  BY BothInFlight
<1>. QED  BY <1>1, <1>2, SameMade, LoseStep

\* What the messages ms to h are for the service.
LEMMA ToldAfter ==
    ASSUME TypeOK, asked' = asked, NEW h \in Handlers, NEW ms \in Seq(Message),
           outbox' = [outbox EXCEPT ![h] = @ \o ms]
    PROVE  /\ ToldBar' = [ToldBar EXCEPT ![h] = @ \o ToldIn(asked[h], ms)]
           /\ ToldBar[h] \in Seq(ServiceMessage)
<1>1. /\ outbox \in [Handlers -> Seq(Message)]
      /\ outbox'[h] = outbox[h] \o ms
      /\ \A g \in Handlers : g # h => outbox'[g] = outbox[g]
  BY QueueTypes
<1>2. \A g \in Handlers : /\ ToldTo(g) = ToldIn(asked[g], outbox[g])
                          /\ ToldTo(g)' = ToldIn(asked[g], outbox'[g])
  BY DEF ToldTo, ToldIn, IsLast, LastIn
<1>3. ToldTo(h)' = ToldTo(h) \o ToldIn(asked[h], ms)
  <2>1. outbox[h] \in Seq(Message)
    BY <1>1
  <2>2. ToldIn(asked[h], outbox[h] \o ms) = ToldIn(asked[h], outbox[h]) \o ToldIn(asked[h], ms)
    BY <2>1, ToldInConcat
  <2>. QED  BY <1>1, <1>2, <2>2
<1>4. \A g \in Handlers : g # h => ToldTo(g)' = ToldTo(g)
  BY <1>1, <1>2
<1>5. ToldTo(h) \in Seq(ServiceMessage)
  BY <1>1, <1>2, ToldInType
<1>. QED  BY <1>3, <1>4, <1>5 DEF ToldBar

LEMMA AppendsLast ==
    ASSUME NEW t \in Seq(ServiceMessage), NEW i \in Nat
    PROVE  /\ t \o <<Last(i)>> = Append(t, Last(i))
           /\ t \o <<Part(i)>> = Append(t, Part(i))
<1>1. Last(i) \in ServiceMessage /\ Part(i) \in ServiceMessage
  BY DEF Last, Part, ServiceMessage
<1>. QED  BY <1>1, AppendIsConcat

\* The messages ms close request i of h.
LEMMA CloseAt ==
    ASSUME SafeInv, SafeInv', asked' = asked, NEW h \in Handlers, NEW i \in OpenIds(h),
           OpenIds(h)' = OpenIds(h) \ {i},
           \A g \in Handlers : g # h => OpenIds(g)' = OpenIds(g),
           Destination(asked[h][i]) \in Mods =>
             \A j \in OpenIds(h) :
               Destination(asked[h][j]) = Destination(asked[h][i]) => i <= j,
           NEW ms \in Seq(Message), outbox' = [outbox EXCEPT ![h] = @ \o ms],
           ToldIn(asked[h], ms) \in {<<Last(i)>>, <<Part(i), Last(i)>>}
    PROVE  AsService!Close(h)
<1>1. InFlight(h) = OpenIds(h) /\ \A g \in Handlers : InFlight(g)' = OpenIds(g)'
  BY BothInFlight
<1>2. \A j \in InFlight(h) : j \in DOMAIN asked[h] /\ j \in Nat
  BY LenProperties DEF InFlight, SafeInv, TypeOK, ConnectionTypeOK
<1>3. \A j \in InFlight(h) : MadeBar[h][j] = Destination(asked[h][j])
  BY <1>2 DEF MadeBar, MadeBy
<1>4. OpenBar' = [OpenBar EXCEPT ![h] = @ \ {i}]
  BY BothInFlight DEF OpenBar
<1>5. /\ ToldBar' = [ToldBar EXCEPT ![h] = @ \o ToldIn(asked[h], ms)]
      /\ ToldBar[h] \in Seq(ServiceMessage)
  BY ToldAfter DEF SafeInv
<1>6. ToldBar[h] \o <<Last(i)>> = Append(ToldBar[h], Last(i))
  BY <1>1, <1>2, <1>5, AppendsLast
<1>7. ToldBar = [g \in Handlers |-> ToldBar[g]]
  BY DEF ToldBar
<1>8. \/ ToldBar' = [ToldBar EXCEPT ![h] = Append(@, Last(i))]
      \/ ToldBar' = [ToldBar EXCEPT ![h] = @ \o <<Part(i), Last(i)>>]
  BY <1>5, <1>6, <1>7
<1>9. i \in InFlight(h)
  BY <1>1
<1>10. MadeBar[h][i] \in Mods =>
         \A j \in InFlight(h) : MadeBar[h][j] = MadeBar[h][i] => i <= j
  BY <1>1, <1>3, <1>9
<1>. QED  BY <1>4, <1>8, <1>9, <1>10, SameMade, CloseStep

-----------------------------------------------------------------------------
(* Each kind of step is one of the service                                  *)

\* A step of a module keeps or loses requests.
LEMMA ServiceAtModule ==
    ASSUME SafeInv, SafeInv', NEW m \in Mods, ModuleNext(m), asked' = asked
    PROVE  AsService!Lose
<1>1. /\ UNCHANGED <<requests, outbox>>
      /\ TakesNothing(m) \/ TakesFirst(m) \/ TakesAll(m)
      /\ Nobody \notin Handlers
      /\ modq \in [Mods -> Seq(Request)]
  BY NodeTyped, ModuleShape, QueueTypes DEF SafeInv, Emits, AnswersFirst
<1>2. ASSUME NEW h \in Handlers, NEW n \in Mods
      PROVE  QueuedIds(h, n)' \subseteq QueuedIds(h, n)
  BY <1>1, QueueShrinks DEF SafeInv, OrderInv
<1>3. ASSUME NEW h \in Handlers, NEW n \in Mods, NEW es \in Seq(Emissions(m))
      PROVE  es \in Seq(ModReply) /\ Ids(es, AnswersTo(h, n)) = {}
  <2>1. Emissions(m) \cap AnswersTo(h, n) = {}
    BY <1>1 DEF Emissions, AnswersTo
  <2>. QED  BY <2>1, EmissionsAreReplies, EveryIsNone, IdsOfNone
<1>4. ASSUME NEW h \in Handlers, NEW n \in Mods
      PROVE  AnswerIds(h, n)' \subseteq AnswerIds(h, n) \cup QueuedIds(h, n)
  <2>1. CASE Emits(m)
    <3>1. PICK es \in Seq(Emissions(m)) : replies' = replies \o es
      BY <2>1 DEF Emits
    <3>2. es \in Seq(ModReply) /\ Ids(es, AnswersTo(h, n)) = {}
      BY <1>3
    <3>3. AnswerIds(h, n)' = AnswerIds(h, n) \cup Ids(es, AnswersTo(h, n))
      BY <3>1, <3>2, AnswersAdded DEF SafeInv
    <3>. QED  BY <3>2, <3>3
  <2>2. CASE AnswersFirst(m)
    <3>. DEFINE r == Head(modq[m])
    <3>1. PICK es \in Seq(Emissions(m)), e \in AnswersOf(m, r) :
            replies' = replies \o (es \o <<e>>)
      BY <2>2 DEF AnswersFirst
    <3>2. /\ r \in Queued(m) /\ modq[m] # <<>>
          /\ r \in RequestsOf(h) => r.id \in QueuedIds(h, m)
      BY <1>1, <2>2, EveryTail, IdsTail
      DEF AnswersFirst, TakesFirst, SafeInv, MatchInv, QueuedIds
    <3>. HIDE DEF r
    <3>3. e \in ModReply /\ e.to = r.hid /\ e.id = r.id /\ e.from = m
      BY <3>1 DEF AnswersOf
    <3>4. <<e>> \in Seq(ModReply) /\ es \in Seq(ModReply) /\ es \o <<e>> \in Seq(ModReply)
      BY <1>3, <3>3, ConcatProperties
    <3>. DEFINE G == AnswersTo(h, n)
    <3>5. e \in G => e.id \in QueuedIds(h, n)
      BY <3>2, <3>3 DEF AnswersTo, RequestsOf, Queued, Made, ModuleRequests
    <3>6. Ids(es, G) = {}
      BY <1>3
    <3>7. AnswerIds(h, n)' = AnswerIds(h, n) \cup Ids(es \o <<e>>, G)
      BY <3>1, <3>4, AnswersAdded DEF SafeInv
    <3>. HIDE DEF G
    <3>8. Ids(es \o <<e>>, G) = Ids(es, G) \cup (IF e \in G THEN {e.id} ELSE {})
      BY <3>3, <3>4, IdsSnoc
    <3>. QED  BY <3>5, <3>6, <3>7, <3>8
  <2>. QED  BY <2>1, <2>2, NodeTyped, ModuleShape DEF SafeInv
<1>5. \A h \in Handlers : RequestIds(h)' = RequestIds(h)
  BY <1>1 DEF RequestIds
<1>6. \A h \in Handlers : OpenIds(h)' \subseteq OpenIds(h)
  BY <1>2, <1>4, <1>5 DEF OpenIds
<1>. QED  BY <1>1, <1>6, LoseAt

\* A request that the dispatcher takes is forwarded or lost, or closed.
LEMMA ServiceAtRequest ==
    ASSUME SafeInv, SafeInv', DispatchRequest, asked' = asked
    PROVE  AsService!Lose \/ \E h \in Handlers : AsService!Close(h)
<1>1. PICK r \in Request :
        /\ r = Head(requests)
        /\ requests # <<>> /\ requests \in Seq(Request)
        /\ requests' = Tail(requests) /\ replies' = replies
        /\ Forwards(r) \/ AnswersItself(r) \/ TakesSilently(r)
        /\ r \in Ingoing
  <2>1. /\ requests # <<>> /\ requests \in Seq(Request) /\ Head(requests) \in Request
        /\ requests' = Tail(requests) /\ replies' = replies
        /\ \/ Forwards(Head(requests)) \/ AnswersItself(Head(requests))
           \/ TakesSilently(Head(requests))
    BY NodeTyped, RequestShape, QueueTypes DEF SafeInv
  <2>2. Head(requests) \in Ingoing
    BY <2>1, EveryTail DEF SafeInv, MatchInv
  <2>. QED  BY <2>1, <2>2
<1>2. ASSUME NEW h \in Handlers
      PROVE  /\ RequestIds(h) = RequestIds(h)' \cup
                  (IF r \in RequestsOf(h) THEN {r.id} ELSE {})
             /\ r \in RequestsOf(h) => Below({r.id}, RequestIds(h)')
             /\ \A m \in Mods : AnswerIds(h, m)' = AnswerIds(h, m)
  <2>1. RequestIds(h) = RequestIds(h)' \cup (IF r \in RequestsOf(h) THEN {r.id} ELSE {})
    BY <1>1, RequestTaken DEF SafeInv
  <2>2. r \in RequestsOf(h) => Below({r.id}, RequestIds(h)')
    BY <1>1, IdsTail DEF SafeInv, OrderInv, RequestIds
  <2>3. \A m \in Mods : AnswerIds(h, m)' = AnswerIds(h, m)
    BY <1>1 DEF AnswerIds
  <2>. QED  BY <2>1, <2>2, <2>3
<1>3. CASE Forwards(r)
  <2>1. PICK S \in SUBSET Mods : Forward(S, r)
    BY <1>3 DEF Forwards
  <2>2. ASSUME NEW h \in Handlers, NEW m \in Mods
        PROVE  QueuedIds(h, m)' \subseteq QueuedIds(h, m) \cup RequestIds(h)
    <3>. DEFINE G == RequestsOf(h)
    <3>1. modq[m] \in Seq(Request)
      BY QueueTypes DEF SafeInv
    <3>2. modq'[m] = IF m \in S THEN Append(modq[m], r) ELSE modq[m]
      BY <2>1 DEF Forward
    <3>3. QueuedIds(h, m) = Ids(modq[m], G) /\ QueuedIds(h, m)' = Ids(modq'[m], G)
      BY DEF QueuedIds
    <3>4. r \in G => r.id \in RequestIds(h)
      BY <1>2
    <3>. HIDE DEF G
    <3>5. Append(modq[m], r) = modq[m] \o <<r>>
      BY <1>1, <3>1, AppendIsConcat
    <3>6. Ids(modq[m] \o <<r>>, G) = Ids(modq[m], G) \cup (IF r \in G THEN {r.id} ELSE {})
      BY <1>1, <3>1, IdsSnoc
    <3>. QED  BY <3>2, <3>3, <3>4, <3>5, <3>6
  <2>3. \A h \in Handlers : OpenIds(h)' \subseteq OpenIds(h)
    BY <1>2, <2>2 DEF OpenIds
  <2>4. outbox' = outbox
    BY <1>3 DEF Forwards
  <2>. QED  BY <2>3, <2>4, LoseAt
<1>4. ASSUME modq' = modq
      PROVE  \A h \in Handlers : OpenIds(h)' \subseteq OpenIds(h)
  BY <1>2, <1>4 DEF OpenIds, QueuedIds
<1>5. CASE AnswersItself(r)
  <2>1. PICK kind \in {"error", "inactive", "describing"} :
          /\ SendBack(r.hid, <<Answer(r, kind)>>)
          /\ \/ kind = "error" /\ r.mod \notin Mods
             \/ kind = "describing" /\ r.kind = "describe"
             \/ kind = "inactive" /\ r.kind = "deactivate"
    BY <1>5 DEF AnswersItself
  <2>2. r.kind # "quit" /\ modq' = modq
    BY <1>5 DEF AnswersItself
  <2>. DEFINE h == r.hid
              i == r.id
              x == Answer(r, kind)
  <2>3. /\ h \in Handlers /\ x \in Message /\ x.id = i /\ x.kind # "update"
        /\ r \in RequestsOf(h)
        /\ i \in 1 .. Len(asked[h]) /\ asked[h][i] = r
    BY <1>1, <2>1, <2>2, AnswerType
    DEF Answer, Request, RequestsOf, Ingoing, Made
  <2>4. Destination(asked[h][i]) \notin Mods
    <3>1. Destination(r) = Nobody
      BY <2>1 DEF Destination, ModuleRequests
    <3>. QED  BY <2>3, <3>1, ChannelsAssumption DEF ChannelsAssumption
  <2>5. \A g \in Handlers : g # h => r \notin RequestsOf(g)
    BY DEF RequestsOf
  <2>6. outbox' = outbox \/ outbox' = [outbox EXCEPT ![h] = @ \o <<x>>]
    BY <2>1, SendBackShape
  <2>7. ToldIn(asked[h], <<x>>) = <<Last(i)>>
    <3>1. LastIn(asked[h], x) = TRUE
      BY <2>3 DEF LastIn
    <3>. QED  BY <2>3, <3>1, ToldInShort DEF Last
  <2>. HIDE DEF h, i, x
  <2>8. /\ i \in RequestIds(h) /\ i \in Nat /\ i \in OpenIds(h)
        /\ RequestIds(h)' = RequestIds(h) \ {i}
    <3>1. i \in Nat
      BY <2>3, LenProperties DEF SafeInv, TypeOK, ConnectionTypeOK
    <3>2. RequestIds(h) = RequestIds(h)' \cup {i} /\ Below({i}, RequestIds(h)')
      BY <1>2, <2>3 DEF i
    <3>3. i \notin RequestIds(h)'
      BY <3>1, <3>2 DEF Below
    <3>. QED  BY <3>1, <3>2, <3>3 DEF OpenIds
  <2>9. OpenIds(h)' = OpenIds(h) \ {i}
    <3>1. \A m \in Mods : i \notin QueuedIds(h, m) /\ i \notin AnswerIds(h, m)
      BY <2>3, <2>8 DEF SafeInv, OrderInv, OrderOf, InLine, Below
    <3>2. \A m \in Mods : QueuedIds(h, m)' = QueuedIds(h, m) /\ AnswerIds(h, m)' = AnswerIds(h, m)
      BY <1>2, <2>2, <2>3 DEF QueuedIds
    <3>. QED  BY <2>8, <3>1, <3>2 DEF OpenIds
  <2>10. \A g \in Handlers : g # h => OpenIds(g)' = OpenIds(g)
    BY <1>2, <2>2, <2>5 DEF OpenIds, QueuedIds
  <2>11. <<x>> \in Seq(Message)
    BY <2>3
  <2>12. CASE outbox' = [outbox EXCEPT ![h] = @ \o <<x>>]
    BY <2>3, <2>4, <2>7, <2>8, <2>9, <2>10, <2>11, <2>12, CloseAt
  <2>. QED  BY <1>4, <2>2, <2>6, <2>12, LoseAt
<1>6. CASE TakesSilently(r)
  BY <1>4, <1>6, LoseAt DEF TakesSilently
<1>. QED  BY <1>1, <1>3, <1>5, <1>6

\* What the updates of an activation, alone or followed by Active, are.
LEMMA ActivationMessages ==
    ASSUME NEW e \in ModReply, NEW q, q[e.id].kind = "activate"
    PROVE  /\ Append(InitialUpdates(e), Answer(e, "active")) \in Seq(Message)
           /\ ToldIn(q, Append(InitialUpdates(e), Answer(e, "active")))
                \in {<<Last(e.id)>>, <<Part(e.id), Last(e.id)>>}
           /\ InitialUpdates(e) \in Seq(Message)
           /\ InitialUpdates(e) = <<>> \/ ToldIn(q, InitialUpdates(e)) = <<Part(e.id)>>
<1>. DEFINE x == [kind |-> "update", mod |-> e.from, val |-> e.val, id |-> e.id]
            y == Answer(e, "active")
<1>1. x \in Message \/ InitialUpdates(e) = <<>>
  BY DEF InitialUpdates, ModReply, Message, Names
<1>2. y \in Message /\ y.id = e.id /\ y.kind = "active"
  BY AnswerType DEF Answer
<1>3. InitialUpdates(e) \in {<<>>, <<x>>}
  BY DEF InitialUpdates
<1>4. x.id = e.id /\ LastIn(q, x) = FALSE
  BY DEF LastIn
<1>. HIDE DEF x, y
<1>5. Append(<<>>, y) = <<y>> /\ Append(<<x>>, y) = <<x, y>>
  BY ShortAppend
<1>6. LastIn(q, y) = TRUE
  BY <1>2 DEF LastIn
<1>7. ToldIn(q, <<y>>) = <<Last(e.id)>>
  <2>1. ToldIn(q, <<y>>) = <<[id |-> y.id, last |-> LastIn(q, y)]>>
    BY <1>2, ToldInShort
  <2>. QED  BY <1>2, <1>6, <2>1 DEF Last
<1>8. CASE InitialUpdates(e) = <<>>
  <2>1. Append(InitialUpdates(e), y) = <<y>>
    BY <1>5, <1>8
  <2>. DEFINE t == <<y>>
  <2>2. t \in Seq(Message)
    BY <1>2
  <2>3. <<>> \in Seq(Message)
    OBVIOUS
  <2>4. Append(InitialUpdates(e), y) = t /\ ToldIn(q, t) = <<Last(e.id)>>
    BY <1>7, <2>1
  <2>. HIDE DEF t
  <2>. QED  BY <1>8, <2>2, <2>3, <2>4 DEF y
<1>9. CASE x \in Message /\ InitialUpdates(e) = <<x>>
  <2>1. ToldIn(q, <<x>>) = <<Part(e.id)>>
    <3>1. ToldIn(q, <<x>>) = <<[id |-> x.id, last |-> LastIn(q, x)]>>
      BY <1>2, <1>9, ToldInShort
    <3>. QED  BY <1>4, <3>1 DEF Part
  <2>2. ToldIn(q, <<x, y>>) = <<Part(e.id), Last(e.id)>>
    <3>1. ToldIn(q, <<x, y>>) = <<[id |-> x.id, last |-> LastIn(q, x)],
                                  [id |-> y.id, last |-> LastIn(q, y)]>>
      BY <1>2, <1>9, ToldInShort
    <3>. QED  BY <1>2, <1>4, <1>6, <3>1 DEF Part, Last
  <2>. DEFINE t == <<x, y>>
              u == <<x>>
  <2>3. t \in Seq(Message) /\ u \in Seq(Message)
    BY <1>2, <1>9
  <2>4. /\ Append(InitialUpdates(e), y) = t /\ ToldIn(q, t) = <<Part(e.id), Last(e.id)>>
        /\ InitialUpdates(e) = u /\ ToldIn(q, u) = <<Part(e.id)>>
    BY <1>5, <1>9, <2>1, <2>2
  <2>. HIDE DEF t, u
  <2>. QED  BY <2>3, <2>4 DEF y
<1>. QED  BY <1>1, <1>3, <1>8, <1>9

\* The first reply e answers request i of h to module m; unless it is the answer
\* of one module among others to a global activation, i is closed by it.
LEMMA ReplyCloses ==
    ASSUME SafeInv, replies # <<>>, replies' = Tail(replies),
           UNCHANGED <<requests, modq, asked>>,
           NEW h \in Handlers, NEW m \in Mods, Head(replies) \in AnswersTo(h, m),
           NEW i \in Nat, i = Head(replies).id
    PROVE  /\ i \in AnswerIds(h, m) /\ i \in OpenIds(h)
           /\ asked[h][i] \in Queued(m)
           /\ \A g \in Handlers : g # h => OpenIds(g)' = OpenIds(g)
           /\ OpenIds(h)' \in {OpenIds(h), OpenIds(h) \ {i}}
           /\ (asked[h][i].mod = m \/ \A n \in StillOwing : n = m)
                => OpenIds(h)' = OpenIds(h) \ {i}
           /\ Destination(asked[h][i]) \in Mods =>
                \A j \in OpenIds(h) :
                  Destination(asked[h][j]) = Destination(asked[h][i]) => i <= j
<1>1. \A g \in Handlers : \A n \in Mods : ~(g = h /\ n = m) => AnswerIds(g, n)' = AnswerIds(g, n)
  <2>1. ASSUME NEW g \in Handlers, NEW n \in Mods, ~(g = h /\ n = m)
        PROVE  AnswerIds(g, n)' = AnswerIds(g, n)
    <3>1. Head(replies) \notin AnswersTo(g, n)
      BY <2>1 DEF AnswersTo
    <3>2. AnswerIds(g, n) = AnswerIds(g, n)' \cup
            (IF Head(replies) \in AnswersTo(g, n) THEN {Head(replies).id} ELSE {})
      BY ReplyTaken DEF SafeInv
    <3>. QED  BY <3>1, <3>2
  <2>. QED  BY <2>1
<1>2. AnswerIds(h, m) = AnswerIds(h, m)' \cup {i}
  BY ReplyTaken DEF SafeInv
<1>3. Below({i}, AnswerIds(h, m)')
  <2>1. replies \in Seq(ModReply) /\ Ascending(replies, AnswersTo(h, m))
    BY QueueTypes DEF SafeInv, OrderInv, OrderOf
  <2>. QED  BY <2>1, IdsTail DEF AnswerIds
<1>4. \A g \in Handlers : \A n \in Mods :
        QueuedIds(g, n)' = QueuedIds(g, n) /\ RequestIds(g)' = RequestIds(g)
  BY DEF QueuedIds, RequestIds
<1>5. i \notin AnswerIds(h, m)'
  BY <1>3 DEF Below
<1>6. i \in AnswerIds(h, m) /\ i \in OpenIds(h)
  BY <1>2 DEF OpenIds
<1>7. /\ Below(AnswerIds(h, m), QueuedIds(h, m)) /\ Below(AnswerIds(h, m), RequestIds(h))
  BY DEF SafeInv, OrderInv, OrderOf, InLine
<1>8. /\ i \notin QueuedIds(h, m) /\ i \notin RequestIds(h)
      /\ \A j \in QueuedIds(h, m) \cup RequestIds(h) \cup AnswerIds(h, m)' : i < j
  BY <1>3, <1>6, <1>7 DEF Below
<1>9. /\ RequestIds(h) \subseteq 1 .. Len(asked[h])
      /\ \A n \in Mods : \A j \in QueuedIds(h, n) \cup AnswerIds(h, n) :
           /\ j \in 1 .. Len(asked[h])
           /\ asked[h][j] \in Queued(n)
           /\ asked[h][j].mod = All => n \in StillOwing
  BY OpenFacts DEF SafeInv
<1>10. \A n \in Mods : \A r \in Queued(n) :
         /\ r.mod = n \/ (r.mod = All /\ r.kind = "activate")
         /\ Destination(r) \in Mods => Destination(r) = n
  BY ChannelsAssumption, QueueTypes
  DEF ChannelsAssumption, SafeInv, Queued, Destination, ModuleRequests
<1>11. asked[h][i] \in Queued(m)
  BY <1>6, <1>9
<1>12. \A g \in Handlers : g # h => OpenIds(g)' = OpenIds(g)
  BY <1>1, <1>4 DEF OpenIds
<1>13. OpenIds(h)' \in {OpenIds(h), OpenIds(h) \ {i}}
  <2>1. OpenIds(h)' \cup {i} = OpenIds(h)
    BY <1>1, <1>2, <1>4 DEF OpenIds
  <2>. QED  BY <2>1
<1>14. ASSUME asked[h][i].mod = m \/ \A n \in StillOwing : n = m
       PROVE  OpenIds(h)' = OpenIds(h) \ {i}
  <2>1. ASSUME NEW n \in Mods, i \in QueuedIds(h, n) \cup AnswerIds(h, n)
        PROVE  n = m
    <3>1. asked[h][i] \in Queued(n) /\ (asked[h][i].mod = All => n \in StillOwing)
      BY <1>9, <2>1
    <3>2. asked[h][i].mod = n \/ asked[h][i].mod = All
      BY <1>10, <3>1
    <3>3. CASE asked[h][i].mod = m
      <4>1. All \notin Mods
        BY QueueTypes DEF SafeInv
      <4>. QED  BY <3>2, <3>3, <4>1
    <3>4. CASE \A l \in StillOwing : l = m
      <4>1. asked[h][i] \in Queued(m) /\ (asked[h][i].mod = All => m \in StillOwing)
        BY <1>6, <1>9
      <4>2. asked[h][i].mod = m \/ asked[h][i].mod = All
        BY <1>10, <4>1
      <4>3. asked[h][i].mod = m => n = m
        BY <3>3
      <4>. QED  BY <3>1, <3>4, <4>2, <4>3
    <3>. QED  BY <1>14, <3>3, <3>4
  <2>2. i \notin OpenIds(h)'
    BY <1>1, <1>4, <1>5, <1>8, <2>1 DEF OpenIds
  <2>. QED  BY <1>6, <1>13, <2>2
<1>15. ASSUME Destination(asked[h][i]) \in Mods, NEW j \in OpenIds(h),
              Destination(asked[h][j]) = Destination(asked[h][i])
       PROVE  i <= j
  <2>1. Destination(asked[h][j]) = m
    BY <1>10, <1>11, <1>15
  <2>2. CASE j \in RequestIds(h)
    BY <1>8, <1>9, <2>2
  <2>3. ASSUME NEW n \in Mods, j \in QueuedIds(h, n) \cup AnswerIds(h, n)
        PROVE  i <= j
    <3>1. asked[h][j] \in Queued(n) /\ j \in 1 .. Len(asked[h])
      BY <1>9, <2>3
    <3>2. n = m
      BY <1>10, <2>1, <3>1
    <3>3. j = i \/ i < j
      BY <1>2, <1>8, <2>3, <3>2
    <3>. QED  BY <3>1, <3>3
  <2>. QED  BY <2>2, <2>3 DEF OpenIds
<1>. QED  BY <1>6, <1>11, <1>12, <1>13, <1>14, <1>15

\* When the count is one, the module that answers is the only one that owes.
LEMMA LastOwing ==
    ASSUME SafeInv, remaining = 1, NEW m \in StillOwing
    PROVE  \A n \in StillOwing : n = m
<1>1. StillOwing \subseteq Mods /\ IsFiniteSet(StillOwing) /\ Cardinality(StillOwing) <= 1
  BY StillOwingFinite DEF SafeInv, CountInv, StillOwing
<1>2. ASSUME NEW n \in StillOwing, n # m
      PROVE  FALSE
  <2>1. {n, m} \subseteq StillOwing
    OBVIOUS
  <2>2. Cardinality({n, m}) <= Cardinality(StillOwing)
    BY <1>1, <2>1, FS_Subset
  <2>3. Cardinality({n, m}) = 2
    <3>1. IsFiniteSet({m}) /\ Cardinality({m}) = 1
      BY FS_Singleton
    <3>2. Cardinality({m} \cup {n}) = Cardinality({m}) + 1
      BY <1>2, <3>1, FS_AddElement
    <3>3. {m} \cup {n} = {n, m}
      OBVIOUS
    <3>. QED  BY <3>1, <3>2, <3>3
  <2>. QED  BY <1>1, <2>2, <2>3, StillOwingFinite DEF StillOwing
<1>. QED  BY <1>2

\* A message to h leaves request i open, or is the last one that is told.
LEMMA InformAt ==
    ASSUME SafeInv, SafeInv', asked' = asked, NEW h \in Handlers, NEW i \in OpenIds(h),
           OpenIds(h)' \in {OpenIds(h), OpenIds(h) \ {i}},
           \A g \in Handlers : g # h => OpenIds(g)' = OpenIds(g),
           NEW ms \in Seq(Message), outbox' = [outbox EXCEPT ![h] = @ \o ms],
           ToldIn(asked[h], ms) = <<Part(i)>>
    PROVE  AsService!Inform(h)
<1>1. i \in InFlight(h)
  BY BothInFlight
<1>2. i \in Nat
  BY <1>1, LenProperties DEF InFlight, SafeInv, TypeOK, ConnectionTypeOK
<1>3. OpenBar' = OpenBar \/ OpenBar' = [OpenBar EXCEPT ![h] = @ \ {i}]
  BY BothInFlight DEF OpenBar
<1>4. /\ ToldBar' = [ToldBar EXCEPT ![h] = @ \o ToldIn(asked[h], ms)]
      /\ ToldBar[h] \in Seq(ServiceMessage)
  BY ToldAfter DEF SafeInv
<1>5. ToldBar[h] \o <<Part(i)>> = Append(ToldBar[h], Part(i))
  BY <1>2, <1>4, AppendsLast
<1>6. ToldBar = [g \in Handlers |-> ToldBar[g]]
  BY DEF ToldBar
<1>7. ToldBar' = [ToldBar EXCEPT ![h] = Append(@, Part(i))]
  BY <1>4, <1>5, <1>6
<1>. QED  BY <1>1, <1>3, <1>7, SameMade, InformStep

\* An event is told to the handlers of S.
LEMMA TellAt ==
    ASSUME SafeInv, SafeInv', asked' = asked,
           \A g \in Handlers : OpenIds(g)' = OpenIds(g),
           NEW x \in Message, x.id = 0, x.kind = "update", NEW S \in SUBSET Handlers,
           outbox' = [h \in Handlers |-> IF h \in S THEN Append(outbox[h], x) ELSE outbox[h]]
    PROVE  AsService!Tell
<1>1. OpenBar' = OpenBar
  BY BothInFlight DEF OpenBar
<1>2. outbox \in [Handlers -> Seq(Message)]
  BY QueueTypes DEF SafeInv
<1>3. \A h \in Handlers : /\ ToldTo(h) = ToldIn(asked[h], outbox[h])
                          /\ ToldTo(h)' = ToldIn(asked[h], outbox'[h])
  BY DEF ToldTo, ToldIn, IsLast, LastIn
<1>4. ASSUME NEW h \in Handlers
      PROVE  ToldIn(asked[h], Append(outbox[h], x)) = Append(ToldIn(asked[h], outbox[h]), Part(0))
  <2>. DEFINE q == asked[h]
              s == outbox[h]
              t == <<x>>
  <2>1. s \in Seq(Message) /\ t \in Seq(Message) /\ Append(s, x) = s \o t
    BY <1>2, AppendIsConcat
  <2>2. ToldIn(q, t) = <<Part(0)>>
    <3>1. ToldIn(q, t) = <<[id |-> x.id, last |-> LastIn(q, x)]>>
      BY ToldInShort
    <3>2. LastIn(q, x) = FALSE
      BY DEF LastIn
    <3>. QED  BY <3>1, <3>2 DEF Part
  <2>. HIDE DEF q, s, t
  <2>3. ToldIn(q, s \o t) = ToldIn(q, s) \o ToldIn(q, t)
    BY <2>1, ToldInConcat
  <2>4. ToldIn(q, s) \in Seq(ServiceMessage)
    BY <2>1, ToldInType
  <2>5. ToldIn(q, s) \o <<Part(0)>> = Append(ToldIn(q, s), Part(0))
    BY <2>4, AppendsLast
  <2>6. ToldIn(q, Append(s, x)) = Append(ToldIn(q, s), Part(0))
    BY <2>1, <2>2, <2>3, <2>5
  <2>. QED  BY <2>6 DEF q, s
<1>5. \A h \in Handlers :
        outbox'[h] = IF h \in S THEN Append(outbox[h], x) ELSE outbox[h]
  OBVIOUS
<1>6. ToldBar' = [h \in Handlers |-> IF h \in S THEN Append(ToldBar[h], Part(0))
                                                ELSE ToldBar[h]]
  BY <1>3, <1>4, <1>5 DEF ToldBar
<1>. QED  BY <1>1, <1>6, SameMade, TellStep

\* The request that reply e answers.
LEMMA AnswerFacts ==
    ASSUME SafeInv, NEW e \in Outgoing, e \in ModReply, e.to \in Handlers
    PROVE  /\ e.id \in 1 .. Len(asked[e.to])
           /\ e \in AnswersTo(e.to, e.from)
           /\ asked[e.to][e.id] \in Queued(e.from)
           /\ e \in AnswersOf(e.from, asked[e.to][e.id])
<1>1. PICK r \in Queued(e.from) : e \in AnswersOf(e.from, r)
  BY OutgoingFacts DEF SafeInv
<1>2. e.to = r.hid /\ e.id = r.id
  BY <1>1 DEF AnswersOf
<1>3. r.id \in 1 .. Len(asked[r.hid]) /\ asked[r.hid][r.id] = r
  BY DEF Queued, Made
<1>4. asked[e.to][e.id] = r
  BY <1>2, <1>3
<1>. QED  BY <1>1, <1>2, <1>3, <1>4 DEF AnswersTo

\* A reply that is taken changes no open requests but those it answers.
LEMMA ReplyLoses ==
    ASSUME SafeInv, replies # <<>>, replies' = Tail(replies),
           UNCHANGED <<requests, modq>>, NEW h \in Handlers
    PROVE  /\ OpenIds(h)' \subseteq OpenIds(h)
           /\ Head(replies).to # h => OpenIds(h)' = OpenIds(h)
<1>1. RequestIds(h)' = RequestIds(h) /\ \A m \in Mods : QueuedIds(h, m)' = QueuedIds(h, m)
  BY DEF RequestIds, QueuedIds
<1>2. \A m \in Mods : AnswerIds(h, m) = AnswerIds(h, m)' \cup
        (IF Head(replies) \in AnswersTo(h, m) THEN {Head(replies).id} ELSE {})
  BY ReplyTaken DEF SafeInv
<1>3. Head(replies).to # h => \A m \in Mods : Head(replies) \notin AnswersTo(h, m)
  BY DEF AnswersTo
<1>4. \A m \in Mods : AnswerIds(h, m)' \subseteq AnswerIds(h, m)
  BY <1>2
<1>5. Head(replies).to # h => \A m \in Mods : AnswerIds(h, m)' = AnswerIds(h, m)
  BY <1>2, <1>3
<1>. QED  BY <1>1, <1>4, <1>5 DEF OpenIds

\* A reply that the dispatcher takes is an event, or informs of a request or
\* closes it, or is lost.
LEMMA ServiceAtReply ==
    ASSUME SafeInv, SafeInv', RouteReply, asked' = asked
    PROVE  \/ AsService!Lose \/ AsService!Tell
           \/ \E h \in Handlers : AsService!Inform(h) \/ AsService!Close(h)
<1>1. PICK e \in ModReply :
        /\ e = Head(replies) /\ e \in Outgoing /\ e.from \in Mods
        /\ replies # <<>> /\ replies' = Tail(replies)
        /\ UNCHANGED <<requests, modq>>
        /\ e.to # Nobody => e.to \in Handlers
  <2>1. /\ replies # <<>> /\ replies \in Seq(ModReply) /\ Head(replies) \in ModReply
        /\ replies' = Tail(replies) /\ UNCHANGED <<requests, modq>>
    BY NodeTyped, ReplyShape, QueueTypes DEF SafeInv
  <2>2. Head(replies) \in Outgoing
    BY <2>1, EveryTail DEF SafeInv, MatchInv
  <2>3. Head(replies).from \in Mods /\ Head(replies).to \in Handlers \cup {Nobody}
    BY <2>1 DEF ModReply
  <2>. QED  BY <2>1, <2>2, <2>3
<1>2. ASSUME outbox' = outbox
      PROVE  AsService!Lose
  BY <1>1, <1>2, ReplyLoses, LoseAt
<1>3. CASE RouteEvent
  <2>1. e.to = Nobody /\ e.kind = "update"
    BY <1>1, <1>3 DEF RouteEvent
  <2>2. e.id = 0
    BY <1>1, <2>1, OutgoingFacts DEF SafeInv, Emissions
  <2>3. Relay(e) \in Message /\ Relay(e).id = 0 /\ Relay(e).kind = "update"
    BY <2>1, <2>2, RelayType DEF Relay
  <2>4. \A g \in Handlers : OpenIds(g)' = OpenIds(g)
    BY <1>1, <2>1, ReplyLoses, QueueTypes DEF SafeInv
  <2>5. active[e.from] \cap handlers \in SUBSET Handlers
    BY <1>1 DEF SafeInv, TypeOK, DispatcherTypeOK
  <2>6. outbox' = [h \in Handlers |-> IF h \in active[e.from] \cap handlers
                                        THEN Append(outbox[h], Relay(e)) ELSE outbox[h]]
    BY <1>1, <1>3 DEF RouteEvent
  <2>. QED  BY <2>3, <2>4, <2>5, <2>6, TellAt
<1>4. ASSUME NEW h \in Handlers, e.to = h, NEW i, e.id = i
      PROVE  /\ i \in Nat /\ i \in OpenIds(h)
             /\ e \in AnswersOf(e.from, asked[h][i])
             /\ asked[h][i] \in Queued(e.from)
             /\ \A g \in Handlers : g # h => OpenIds(g)' = OpenIds(g)
             /\ OpenIds(h)' \in {OpenIds(h), OpenIds(h) \ {i}}
             /\ (asked[h][i].mod = e.from \/ \A n \in StillOwing : n = e.from)
                  => OpenIds(h)' = OpenIds(h) \ {i}
             /\ Destination(asked[h][i]) \in Mods =>
                  \A j \in OpenIds(h) :
                    Destination(asked[h][j]) = Destination(asked[h][i]) => i <= j
  <2>1. e \in AnswersTo(h, e.from) /\ e \in AnswersOf(e.from, asked[h][i])
    BY <1>1, <1>4, AnswerFacts
  <2>2. i \in Nat
    BY <1>4 DEF ModReply
  <2>3. Head(replies) \in AnswersTo(h, e.from) /\ i = Head(replies).id
    BY <1>1, <1>4, <2>1
  <2>. QED  BY <1>1, <2>1, <2>2, <2>3, ReplyCloses
\* The messages ms close the request.
<1>5. ASSUME NEW h \in Handlers, e.to = h, NEW i, e.id = i,
             OpenIds(h)' = OpenIds(h) \ {i},
             NEW ms \in Seq(Message), SendBack(h, ms),
             ToldIn(asked[h], ms) \in {<<Last(i)>>, <<Part(i), Last(i)>>}
      PROVE  AsService!Lose \/ AsService!Close(h)
  <2>1. CASE outbox' = outbox
    BY <1>2, <2>1
  <2>2. CASE outbox' = [outbox EXCEPT ![h] = @ \o ms]
    <3>1. /\ i \in OpenIds(h)
          /\ \A g \in Handlers : g # h => OpenIds(g)' = OpenIds(g)
          /\ Destination(asked[h][i]) \in Mods =>
               \A j \in OpenIds(h) :
                 Destination(asked[h][j]) = Destination(asked[h][i]) => i <= j
      BY <1>4, <1>5
    <3>. QED  BY <1>5, <2>2, <3>1, CloseAt
  <2>. QED  BY <1>5, <2>1, <2>2, SendBackShape
<1>6. CASE RouteAnswer
  <2>1. e.to \in Handlers /\ e.kind # "initupdates" /\ SendBack(e.to, <<Relay(e)>>)
    BY <1>1, <1>6 DEF RouteAnswer
  <2>2. PICK h, i : h \in Handlers /\ e.to = h /\ e.id = i
    BY <2>1
  <2>. DEFINE r == asked[h][i]
              ms == <<Relay(e)>>
  <2>3. e \in AnswersOf(e.from, r) /\ r \in Queued(e.from)
    BY <1>4, <2>2
  <2>4. OpenIds(h)' = OpenIds(h) \ {i}
    <3>1. r.mod = e.from
      BY <2>1, <2>3 DEF AnswersOf, Queued, ModuleRequests
    <3>. QED  BY <1>4, <2>2, <3>1
  <2>5. ToldIn(asked[h], ms) = <<Last(i)>>
    <3>1. /\ Relay(e) \in Message /\ Relay(e).id = i
          /\ Relay(e).kind = "update" => i # 0 /\ r.kind = "read"
      <4>1. r.id # 0 /\ r.id = i
        BY <1>1, <2>2, <2>3, AnswerFacts, LenProperties
        DEF AnswersOf, SafeInv, TypeOK, ConnectionTypeOK
      <4>. QED  BY <2>1, <2>2, <2>3, <4>1, RelayType DEF Relay, AnswersOf
    <3>2. LastIn(asked[h], Relay(e)) = TRUE
      BY <3>1 DEF LastIn
    <3>3. ToldIn(asked[h], ms) = <<[id |-> Relay(e).id, last |-> LastIn(asked[h], Relay(e))]>>
      BY <3>1, ToldInShort
    <3>. QED  BY <3>1, <3>2, <3>3 DEF Last
  <2>6. ms \in Seq(Message) /\ SendBack(h, ms)
    <3>1. Relay(e) \in Message  BY <2>1, RelayType
    <3>. QED  BY <2>1, <2>2, <3>1
  <2>. HIDE DEF ms
  <2>. QED  BY <1>5, <2>2, <2>4, <2>5, <2>6
\* What an answer to an activation tells.
<1>7. ASSUME e.kind = "initupdates", NEW h \in Handlers, e.to = h, NEW i, e.id = i
      PROVE  /\ Append(InitialUpdates(e), Answer(e, "active")) \in Seq(Message)
             /\ ToldIn(asked[h], Append(InitialUpdates(e), Answer(e, "active")))
                  \in {<<Last(i)>>, <<Part(i), Last(i)>>}
             /\ InitialUpdates(e) \in Seq(Message)
             /\ InitialUpdates(e) # <<>> =>
                  ToldIn(asked[h], InitialUpdates(e)) = <<Part(i)>>
  <2>1. asked[h][e.id].kind = "activate"
    BY <1>4, <1>7 DEF AnswersOf
  <2>. QED  BY <1>7, <2>1, ActivationMessages
<1>8. CASE RouteInitUpdates
  <2>1. /\ e.to \in Handlers /\ e.kind = "initupdates" /\ e.mod # All
        /\ SendBack(e.to, Append(InitialUpdates(e), Answer(e, "active")))
    BY <1>1, <1>8 DEF RouteInitUpdates
  <2>2. PICK h, i : h \in Handlers /\ e.to = h /\ e.id = i
    BY <2>1
  <2>3. OpenIds(h)' = OpenIds(h) \ {i}
    <3>1. asked[h][i].mod = e.from
      BY <1>4, <2>1, <2>2 DEF AnswersOf, Queued
    <3>. QED  BY <1>4, <2>2, <3>1
  <2>. DEFINE ms == Append(InitialUpdates(e), Answer(e, "active"))
  <2>4. /\ ms \in Seq(Message) /\ SendBack(h, ms)
        /\ ToldIn(asked[h], ms) \in {<<Last(i)>>, <<Part(i), Last(i)>>}
    BY <1>7, <2>1, <2>2
  <2>. HIDE DEF ms
  <2>. QED  BY <1>5, <2>2, <2>3, <2>4
<1>9. CASE RouteInitUpdatesAll
  <2>1. /\ e.to \in Handlers /\ e.kind = "initupdates" /\ e.mod = All
        /\ remaining' = remaining - 1
        /\ \/ /\ remaining' = 0
              /\ SendBack(e.to, Append(InitialUpdates(e), Answer(e, "active")))
           \/ outbox' = outbox
           \/ InitialUpdates(e) # <<>> /\ SendBack(e.to, InitialUpdates(e))
    BY <1>1, <1>9, Zenon DEF RouteInitUpdatesAll, Countdown, SendNothing
  <2>2. PICK h, i : h \in Handlers /\ e.to = h /\ e.id = i
    BY <2>1
  <2>3. CASE /\ remaining' = 0
             /\ SendBack(e.to, Append(InitialUpdates(e), Answer(e, "active")))
    <3>1. OpenIds(h)' = OpenIds(h) \ {i}
      <4>1. remaining = 1
        BY <2>1, <2>3 DEF SafeInv, TypeOK, DispatcherTypeOK
      <4>2. e \in GlobalAnswers(e.from)
        BY <2>1 DEF GlobalAnswers
      <4>3. ~None(replies, GlobalAnswers(e.from))
        BY <1>1, <4>2, TailCount, QueueTypes DEF SafeInv
      <4>4. e.from \in StillOwing
        BY <1>1, <4>3 DEF StillOwing
      <4>5. \A n \in StillOwing : n = e.from
        BY <4>1, <4>4, LastOwing
      <4>. QED  BY <1>4, <2>2, <4>5
    <3>. DEFINE ms == Append(InitialUpdates(e), Answer(e, "active"))
    <3>2. /\ ms \in Seq(Message) /\ SendBack(h, ms)
          /\ ToldIn(asked[h], ms) \in {<<Last(i)>>, <<Part(i), Last(i)>>}
      BY <1>7, <2>1, <2>2, <2>3
    <3>. HIDE DEF ms
    <3>. QED  BY <1>5, <2>2, <3>1, <3>2
  <2>4. CASE InitialUpdates(e) # <<>> /\ SendBack(e.to, InitialUpdates(e))
    <3>1. CASE outbox' = outbox
      BY <1>2, <3>1
    <3>2. CASE outbox' = [outbox EXCEPT ![h] = @ \o InitialUpdates(e)]
      <4>1. /\ InitialUpdates(e) \in Seq(Message)
            /\ ToldIn(asked[h], InitialUpdates(e)) = <<Part(i)>>
        BY <1>7, <2>1, <2>2, <2>4
      <4>2. /\ i \in OpenIds(h)
            /\ OpenIds(h)' \in {OpenIds(h), OpenIds(h) \ {i}}
            /\ \A g \in Handlers : g # h => OpenIds(g)' = OpenIds(g)
        BY <1>4, <2>2
      <4>. QED  BY <2>2, <3>2, <4>1, <4>2, InformAt
    <3>. DEFINE ms == InitialUpdates(e)
    <3>3. ms \in Seq(Message) /\ SendBack(h, ms)
      BY <1>7, <2>1, <2>2, <2>4
    <3>4. outbox' \in {outbox, [outbox EXCEPT ![h] = @ \o ms]}
      <4>. HIDE DEF ms
      <4>. QED  BY <2>2, <3>3, SendBackShape
    <3>. QED  BY <3>1, <3>2, <3>4
  <2>. QED  BY <1>2, <2>1, <2>3, <2>4
<1>10. CASE RouteDescription
  BY <1>2, <1>10 DEF RouteDescription
<1>. QED  BY <1>3, <1>6, <1>8, <1>9, <1>10 DEF RouteReply

\* A request is added to those of the dispatcher, or none is.
LEMMA RequestAdded ==
    ASSUME SafeInv, NEW r \in Request, requests' = Append(requests, r),
           modq' = modq, replies' = replies, NEW g \in Handlers
    PROVE  OpenIds(g)' = IF r \in RequestsOf(g) THEN OpenIds(g) \cup {r.id} ELSE OpenIds(g)
<1>1. /\ r \notin RequestsOf(g) => RequestIds(g)' = RequestIds(g)
      /\ r \in RequestsOf(g) => RequestIds(g)' = RequestIds(g) \cup {r.id}
  <2>. DEFINE G == RequestsOf(g)
  <2>1. requests \in Seq(Request)
    BY QueueTypes DEF SafeInv
  <2>2. RequestIds(g) = Ids(requests, G) /\ RequestIds(g)' = Ids(Append(requests, r), G)
    BY DEF RequestIds
  <2>. HIDE DEF G
  <2>3. Ids(requests \o <<r>>, G) = Ids(requests, G) \cup (IF r \in G THEN {r.id} ELSE {})
    BY <2>1, IdsSnoc
  <2>4. Append(requests, r) = requests \o <<r>>
    BY <2>1, AppendIsConcat
  <2>. QED  BY <2>2, <2>3, <2>4 DEF G
<1>2. \A m \in Mods : QueuedIds(g, m)' = QueuedIds(g, m) /\ AnswerIds(g, m)' = AnswerIds(g, m)
  BY DEF QueuedIds, AnswerIds
<1>. QED  BY <1>1, <1>2 DEF OpenIds

LEMMA SameOpen ==
    ASSUME UNCHANGED <<requests, modq, replies>>, NEW g \in Handlers
    PROVE  OpenIds(g)' = OpenIds(g)
BY DEF OpenIds, RequestIds, QueuedIds, AnswerIds

\* A step of a connection makes a request, or changes nothing.
LEMMA ServiceAtConnection ==
    ASSUME SafeInv, SafeInv', NEW h \in Handlers, ConnectionNext(h)
    PROVE  AsService!Lose \/ AsService!Ask(h)
<1>1. /\ UNCHANGED <<modq, replies>>
      /\ MakesRequest(h) \/ SendsQuit(h) \/ UNCHANGED <<requests, outbox, asked>>
  BY ConnectionShape DEF SafeInv
<1>2. CASE UNCHANGED <<requests, outbox, asked>>
  BY <1>1, <1>2, SameOpen, LoseAt
<1>3. CASE SendsQuit(h)
  <2>1. PICK r \in Request : r.kind = "quit" /\ requests' = Append(requests, r)
    BY <1>3 DEF SendsQuit
  <2>2. \A g \in Handlers : r \notin RequestsOf(g)
    BY <2>1 DEF RequestsOf
  <2>3. \A g \in Handlers : OpenIds(g)' = OpenIds(g)
    BY <1>1, <2>1, <2>2, RequestAdded
  <2>. QED  BY <1>3, <2>3, LoseAt DEF SendsQuit
<1>4. CASE MakesRequest(h)
  <2>1. PICK r \in Request :
          /\ r.hid = h /\ r.id = Len(asked[h]) + 1 /\ r.kind # "quit"
          /\ asked' = [asked EXCEPT ![h] = Append(@, r)]
          /\ \/ requests' = Append(requests, r) /\ outbox' = outbox
             \/ /\ requests' = requests
                /\ outbox' \in {outbox, [outbox EXCEPT ![h] = Append(@, Answer(r, "pong"))]}
    BY <1>4 DEF MakesRequest
  <2>. DEFINE q == asked[h]
              s == outbox[h]
              i == Len(q) + 1
              d == Destination(r)
              x == Answer(r, "pong")
  <2>2. /\ q \in Seq(Request) /\ s \in Seq(Message)
        /\ Len(q) \in Nat /\ r.id = i /\ d \in Mods \cup {Nobody}
        /\ x \in Message /\ x.id = i /\ LastIn(Append(q, r), x) = TRUE
    <3>1. q \in Seq(Request) /\ s \in Seq(Message) /\ Len(q) \in Nat
      BY QueueTypes, LenProperties DEF SafeInv, TypeOK, ConnectionTypeOK
    <3>2. x \in Message /\ x.id = r.id /\ LastIn(Append(q, r), x) = TRUE
      BY AnswerType DEF Answer, LastIn
    <3>. QED  BY <2>1, <3>1, <3>2 DEF Destination
  <2>3. /\ asked'[h] = Append(q, r)
        /\ \A g \in Handlers : g # h => asked'[g] = asked[g]
        /\ outbox' = outbox \/ outbox' = [outbox EXCEPT ![h] = Append(s, x)]
        /\ outbox'[h] = s \/ outbox'[h] = Append(s, x)
        /\ \A g \in Handlers : g # h => outbox'[g] = outbox[g]
        /\ outbox' = outbox => outbox'[h] = s
    BY <2>1, QueueTypes DEF SafeInv, TypeOK, ConnectionTypeOK
  <2>4. /\ \A g \in Handlers : /\ MadeBar[g] = MadeIn(asked[g])
                               /\ MadeBar'[g] = MadeIn(asked'[g])
        /\ \A g \in Handlers : /\ ToldBar[g] = ToldIn(asked[g], outbox[g])
                               /\ ToldBar'[g] = ToldIn(asked'[g], outbox'[g])
        /\ MadeBar = [g \in Handlers |-> MadeBar[g]]
        /\ MadeBar' = [g \in Handlers |-> MadeBar'[g]]
        /\ ToldBar = [g \in Handlers |-> ToldBar[g]]
        /\ ToldBar' = [g \in Handlers |-> ToldBar'[g]]
    BY DEF MadeBar, MadeBy, MadeIn, ToldBar, ToldTo, ToldIn, IsLast, LastIn
  <2>5. /\ MadeIn(Append(q, r)) = Append(MadeIn(q), d) /\ Len(MadeIn(q)) = Len(q)
        /\ ToldIn(Append(q, r), s) = ToldIn(q, s)
        /\ ToldIn(Append(q, r), Append(s, x)) = Append(ToldIn(q, s), Last(i))
    <3>1. \A k \in 1 .. Len(s) : s[k].id <= Len(q)
      BY DEF SafeInv, MatchInv, Every, Known
    <3>. DEFINE t == <<x>>
    <3>2. t \in Seq(Message) /\ Append(s, x) = s \o t
      BY <2>2, AppendIsConcat
    <3>3. ToldIn(Append(q, r), t) = <<Last(i)>>
      <4>1. ToldIn(Append(q, r), t) = <<[id |-> x.id, last |-> LastIn(Append(q, r), x)]>>
        BY <2>2, ToldInShort
      <4>. QED  BY <2>2, <4>1 DEF Last
    <3>. HIDE DEF q, s, i, d, x, t
    <3>4. MadeIn(Append(q, r)) = Append(MadeIn(q), d) /\ Len(MadeIn(q)) = Len(q)
      BY <2>2, MadeInAppend DEF d
    <3>5. ToldIn(Append(q, r), s) = ToldIn(q, s)
      BY <2>2, <3>1, ToldInGrows
    <3>6. ToldIn(Append(q, r), s \o t) = ToldIn(Append(q, r), s) \o ToldIn(Append(q, r), t)
      BY <2>2, <3>2, ToldInConcat
    <3>7. ToldIn(q, s) \o <<Last(i)>> = Append(ToldIn(q, s), Last(i))
      <4>1. ToldIn(q, s) \in Seq(ServiceMessage) /\ i \in Nat
        BY <2>2, ToldInType DEF i
      <4>. QED  BY <4>1, AppendsLast
    <3>. QED  BY <3>2, <3>3, <3>4, <3>5, <3>6, <3>7
  <2>. HIDE DEF q, s, i, d, x
  <2>6. MadeBar' = [MadeBar EXCEPT ![h] = Append(@, d)]
    <3>1. MadeBar[h] = MadeIn(q)
      BY <2>4 DEF q
    <3>2. MadeBar'[h] = Append(MadeBar[h], d)
      BY <2>3, <2>4, <2>5, <3>1
    <3>3. \A g \in Handlers : g # h => MadeBar'[g] = MadeBar[g]
      BY <2>3, <2>4
    <3>. QED  BY <2>4, <3>2, <3>3
  <2>7. i = Len(MadeBar[h]) + 1
    BY <2>4, <2>5 DEF q, i
  <2>8. /\ outbox' = outbox => ToldBar' = ToldBar
        /\ outbox' = [outbox EXCEPT ![h] = Append(s, x)] =>
             ToldBar' = [ToldBar EXCEPT ![h] = Append(@, Last(i))]
    <3>1. ToldBar[h] = ToldIn(q, s)
      BY <2>4 DEF q, s
    <3>2. \A g \in Handlers : g # h => ToldBar'[g] = ToldBar[g]
      BY <2>3, <2>4
    <3>3. outbox'[h] = s => ToldBar'[h] = ToldBar[h]
      BY <2>3, <2>4, <2>5, <3>1
    <3>4. outbox'[h] = Append(s, x) => ToldBar'[h] = Append(ToldBar[h], Last(i))
      BY <2>3, <2>4, <2>5, <3>1
    <3>5. outbox' = [outbox EXCEPT ![h] = Append(s, x)] => outbox'[h] = Append(s, x)
      BY QueueTypes DEF SafeInv
    <3>. QED  BY <2>3, <2>4, <3>2, <3>3, <3>4, <3>5
  <2>9. /\ \A g \in Handlers : InFlight(g)' = OpenIds(g)' /\ InFlight(g) = OpenIds(g)
        /\ OpenBar = [g \in Handlers |-> InFlight(g)]
        /\ OpenBar' = [g \in Handlers |-> InFlight(g)']
    BY BothInFlight DEF OpenBar
  <2>10. CASE requests' = Append(requests, r) /\ outbox' = outbox
    <3>1. r \in RequestsOf(h) /\ \A g \in Handlers : g # h => r \notin RequestsOf(g)
      BY <2>1 DEF RequestsOf
    <3>2. /\ OpenIds(h)' = OpenIds(h) \cup {i}
          /\ \A g \in Handlers : g # h => OpenIds(g)' = OpenIds(g)
      BY <1>1, <2>2, <2>10, <3>1, RequestAdded
    <3>3. OpenBar' = [OpenBar EXCEPT ![h] = @ \cup {i}]
      BY <2>9, <3>2
    <3>. QED  BY <2>2, <2>6, <2>7, <2>8, <2>10, <3>3, AskStep
  <2>11. CASE requests' = requests
    <3>1. OpenBar' = OpenBar
      BY <1>1, <2>9, <2>11, SameOpen
    <3>. QED  BY <2>2, <2>3, <2>6, <2>7, <2>8, <3>1, AskStep
  <2>. QED  BY <2>1, <2>10, <2>11
<1>. QED  BY <1>1, <1>2, <1>3, <1>4

-----------------------------------------------------------------------------
\* SecNode implements Service (server.rs:156-311, module.rs:280-308,
\* lib.rs:47-57): whatever panics, drained queues, restarts, refusals and
\* dropped messages do, no request is answered after its last answer, twice,
\* or before an earlier one to the same module that is still open.
THEOREM Implements == Spec => ImplementsService
<1>1. Init => AsService!Init
  <2>. SUFFICES ASSUME Init PROVE AsService!Init
    OBVIOUS
  <2>1. /\ requests = <<>> /\ replies = <<>> /\ \A m \in Mods : modq[m] = <<>>
        /\ \A h \in Handlers : outbox[h] = <<>> /\ asked[h] = <<>>
    BY DEF Init, ChannelsInit, ConnectionInit
  <2>2. \A f : (DOMAIN f = {} /\ f = [i \in {} |-> f[i]]) => f = <<>>
    OBVIOUS
  <2>3. ASSUME NEW h \in Handlers
        PROVE  MadeBy(h) = <<>> /\ InFlight(h) = {} /\ ToldTo(h) = <<>>
    <3>1. DOMAIN asked[h] = {} /\ DOMAIN outbox[h] = {}
      BY <2>1
    <3>. QED  BY <3>1 DEF MadeBy, InFlight, ToldTo
  <2>. QED  BY <2>3 DEF AsService!Init, MadeBy
<1>2. SafeInv /\ SafeInv' /\ [Next]_vars => [AsService!Next]_(AsService!serviceVars)
  <2>. SUFFICES ASSUME SafeInv, SafeInv', [Next]_vars
                PROVE  [AsService!Next]_(AsService!serviceVars)
    OBVIOUS
  <2>1. CASE DispatcherStep
    <3>1. asked' = asked /\ DispatcherNext
      BY <2>1 DEF DispatcherStep, connVars
    <3>2. CASE Register
      <4>1. UNCHANGED <<requests, modq, replies, outbox>>
        BY <3>2 DEF Register
      <4>. QED  BY <3>1, <4>1, SameOpen, LoseAt DEF AsService!Next
    <3>3. CASE DispatchRequest
      BY <3>1, <3>3, ServiceAtRequest DEF AsService!Next
    <3>4. CASE RouteReply
      BY <3>1, <3>4, ServiceAtReply DEF AsService!Next
    <3>. QED  BY <3>1, <3>2, <3>3, <3>4 DEF DispatcherNext
  <2>2. ASSUME NEW m \in Mods, ModuleStep(m)
        PROVE  AsService!Next
    BY <2>2, ServiceAtModule DEF ModuleStep, connVars, AsService!Next
  <2>3. ASSUME NEW h \in Handlers, ConnectionStep(h)
        PROVE  AsService!Next
    BY <2>3, ServiceAtConnection DEF ConnectionStep, AsService!Next
  <2>4. CASE UNCHANGED vars
    BY <2>4, SameOpen, LoseAt DEF vars, chanVars, connVars, AsService!Next
  <2>. QED  BY <2>1, <2>2, <2>3, <2>4 DEF Next
<1>3. TypeOK /\ MatchInv /\ OrderInv /\ GlobalCount => SafeInv
  BY CountInvIsGlobalCount DEF SafeInv
<1>. QED
  BY <1>1, <1>2, <1>3, TypeCorrect, MatchCorrect, OrderCorrect, CountCorrect, PTL
  DEF Spec, ImplementsService, AsService!Spec
=============================================================================
