-------------------------- MODULE CallingNodeProofs --------------------------
(***************************************************************************)
(* Proofs about CallingNode, for every set of handlers, finite set of      *)
(* modules, wiring of them, users, and number of calls.                    *)
(***************************************************************************)
EXTENDS CallingNode, NodeLemmas

-----------------------------------------------------------------------------
(* The inductive invariant                                                  *)

\* A caller that runs has a client.  Without this TypeOK is not inductive.
OwnInv == \A m \in Callers : mstate[m] = "running" => client[m] # Nobody

\* All calls of client h go to the module of that name.
CallsOnly(h, name) == \A i \in 1 .. Len(calls[h]) : calls[h][i].mod = name

NameOf(h) == calls[h][1].mod

\* A client is made for one module, and has one owner.
NameInv ==
    /\ \A h \in Handlers : /\ CallsOnly(h, NameOf(h))
                           /\ lstate[h] = "none" => calls[h] = <<>>
    /\ \A h \in DOMAIN Users : CallsOnly(h, Users[h])
    /\ \A m \in Mods : client[m] # Nobody =>
         /\ m \in Callers /\ lstate[client[m]] # "none"
         /\ CallsOnly(client[m], iomod[m])
         /\ \A n \in Mods : client[n] = client[m] => n = m

\* Only a running caller that waits for its peer serves a request.
ServingInv ==
    \A m \in Mods :
      serving[m] # <<>> => m \in Callers /\ mstate[m] = "running" /\ Blocked(m)

\* The requests module m has yet to answer.
Pending(m) == serving[m] \o modq[m]

\* Message x, for client h, goes back to a call of h.
OfCall(h, x) == x.id \in 1 .. Len(calls[h])

Sent == {r \in Request : r.kind # "quit" =>
                            /\ r.kind \in ModuleRequests \cup {"ping"}
                            /\ OfCall(r.hid, r) /\ r.mod = NameOf(r.hid)}
SentTo(m) == {r \in Sent : r.kind \in ModuleRequests /\ r.mod = m}
SentBack == {e \in ModReply : e.to # Nobody =>
                                 /\ e.kind # "initupdates"
                                 /\ OfCall(e.to, e) /\ e.from = NameOf(e.to)}

\* Whatever is on its way belongs to a call, and to the one module its client
\* calls.
MatchInv ==
    /\ Every(requests, Sent)
    /\ \A m \in Mods : Every(Pending(m), SentTo(m)) /\ active[m] = {}
    /\ Every(replies, SentBack)
    /\ \A h \in Handlers : Every(outbox[h], {x \in Message : OfCall(h, x)})

From(h) == {r \in Request : r.hid = h /\ r.kind # "quit"}
To(h) == {e \in ModReply : e.to = h}

ToldIds(h) == Ids(outbox[h], Message)
AnswerIds(h) == Ids(replies, To(h))
PendingIds(h) == UNION {Ids(Pending(m), From(h)) : m \in Mods}
RequestIds(h) == Ids(requests, From(h))

\* The calls of a client stay in order on the way there and back.
OrderOf(h) ==
    /\ Ascending(outbox[h], Message)
    /\ Ascending(replies, To(h))
    /\ \A m \in Mods : Ascending(Pending(m), From(h))
    /\ Ascending(requests, From(h))
    /\ InLine(ToldIds(h), AnswerIds(h), PendingIds(h), RequestIds(h))

OrderInv == \A h \in Handlers : OrderOf(h)

\* The call that the last message h took answers.
LastTaken(h) == IF taken[h] = 0 THEN 0 ELSE outbox[h][taken[h]].id

\* The replies are behind by at most the calls that timed out.
LagOf(h) ==
    /\ Len(results[h]) <= TimeOuts(h, Len(results[h])) + LastTaken(h)
    /\ \A i \in 1 .. Len(results[h]) :
         LET got == results[h][i].got
         IN  /\ got <= LastTaken(h)
             /\ got # 0 => /\ got <= i
                          /\ i - got <= TimeOuts(h, i - 1)
                          /\ \A j \in 1 .. i - 1 : results[h][j].got < got

LagInv == \A h \in Handlers : LagOf(h)

-----------------------------------------------------------------------------
(* Type correctness *)

LEMMA NodeTyped ==
    ASSUME TypeOK
    PROVE  NodeTypes
BY DEF TypeOK, NodeTypes

\* The channels of the dispatcher only grow at the end of the reply channels.
LEMMA OutboxGrows ==
    ASSUME NodeTypes, DispatcherNext, NEW h \in Handlers
    PROVE  /\ Len(outbox[h]) <= Len(outbox'[h])
           /\ \A i \in 1 .. Len(outbox[h]) : outbox'[h][i] = outbox[h][i]
<1>1. outbox \in [Handlers -> Seq(Message)]
  BY DEF NodeTypes, ChannelsTypeOK
<1>2. ASSUME NEW ms \in Seq(Message), outbox'[h] = outbox[h] \o ms
      PROVE  /\ Len(outbox[h]) <= Len(outbox'[h])
             /\ \A i \in 1 .. Len(outbox[h]) : outbox'[h][i] = outbox[h][i]
  <2>. DEFINE s == outbox[h]
  <2>1. s \in Seq(Message)
    BY <1>1
  <2>. HIDE DEF s
  <2>2. /\ Len(s) \in Nat /\ Len(ms) \in Nat /\ Len(s \o ms) = Len(s) + Len(ms)
        /\ \A i \in 1 .. Len(s) : (s \o ms)[i] = s[i]
    BY <2>1, ConcatProperties, LenProperties
  <2>3. outbox'[h] = s \o ms
    BY <1>2 DEF s
  <2>. QED  BY <2>2, <2>3 DEF s
<1>3. Len(outbox[h]) \in Nat
  BY <1>1, LenProperties
<1>4. ASSUME outbox'[h] = outbox[h]
      PROVE  /\ Len(outbox[h]) <= Len(outbox'[h])
             /\ \A i \in 1 .. Len(outbox[h]) : outbox'[h][i] = outbox[h][i]
  BY <1>3, <1>4
<1>5. ASSUME NEW g \in Handlers, NEW ms \in Seq(Message),
             outbox' \in {outbox, [outbox EXCEPT ![g] = @ \o ms]}
      PROVE  outbox'[h] = outbox[h] \/ outbox'[h] = outbox[h] \o ms
  BY <1>1, <1>5
<1>6. CASE Register
  BY <1>4, <1>6 DEF Register
<1>7. CASE DispatchRequest
  <2>. DEFINE r == Head(requests)
  <2>1. r \in Request /\ (Forwards(r) \/ AnswersItself(r) \/ TakesSilently(r))
    BY <1>7, RequestShape
  <2>. HIDE DEF r
  <2>2. CASE Forwards(r) \/ TakesSilently(r)
    BY <1>4, <2>2 DEF Forwards, TakesSilently
  <2>3. CASE AnswersItself(r)
    <3>1. PICK kind \in {"error", "inactive", "describing"} :
            SendBack(r.hid, <<Answer(r, kind)>>)
      BY <2>3 DEF AnswersItself
    <3>2. Answer(r, kind) \in Message /\ r.hid \in Handlers
      BY <2>1, AnswerType DEF Request
    <3>. DEFINE ms == <<Answer(r, kind)>>
    <3>3. ms \in Seq(Message) /\ SendBack(r.hid, ms)
      BY <3>1, <3>2
    <3>. HIDE DEF ms
    <3>4. outbox' \in {outbox, [outbox EXCEPT ![r.hid] = @ \o ms]}
      BY <3>3, SendBackShape
    <3>. QED  BY <1>2, <1>4, <1>5, <3>2, <3>3, <3>4
  <2>. QED  BY <2>1, <2>2, <2>3
<1>8. CASE RouteReply
  <2>. DEFINE e == Head(replies)
  <2>1. e \in ModReply /\ (RoutesEvent(e) \/ RoutesAnswer(e))
    BY <1>8, ReplyShape
  <2>. HIDE DEF e
  <2>2. CASE RoutesEvent(e)
    <3>1. \/ outbox'[h] = outbox[h]
          \/ e.kind = "update" /\ outbox'[h] = Append(outbox[h], Relay(e))
      BY <2>2 DEF RoutesEvent
    <3>2. CASE e.kind = "update" /\ outbox'[h] = Append(outbox[h], Relay(e))
      <4>1. Relay(e) \in Message
        BY <2>1, <3>2, RelayType
      <4>2. <<Relay(e)>> \in Seq(Message) /\ outbox'[h] = outbox[h] \o <<Relay(e)>>
        BY <1>1, <3>2, <4>1, AppendIsConcat
      <4>. QED  BY <1>2, <4>2
    <3>. QED  BY <1>4, <3>1, <3>2
  <2>3. CASE RoutesAnswer(e)
    <3>1. PICK ms : TellsOf(e, ms) /\ outbox' \in {outbox, [outbox EXCEPT ![e.to] = @ \o ms]}
      BY <2>3 DEF RoutesAnswer
    <3>2. ms \in Seq(Message)
      <4>1. ms \in Seq(Tellings(e)) /\ Tellings(e) \subseteq Message
        BY <3>1 DEF TellsOf, Tellings
      <4>. QED  BY <4>1, SeqMonotonic
    <3>. QED  BY <1>2, <1>4, <1>5, <2>3, <3>1, <3>2 DEF RoutesAnswer
  <2>. QED  BY <2>1, <2>2, <2>3
<1>. QED  BY <1>6, <1>7, <1>8 DEF DispatcherNext

\* The step of a client of that call.
CallOf(h, kind, mod, val) ==
    [hid |-> h, id |-> Len(calls[h]) + 1, kind |-> kind, mod |-> mod, val |-> val]

LEMMA TransactType ==
    ASSUME TypeOK, NEW h \in Handlers, NEW kind \in RequestKinds, NEW mod \in Names,
           NEW val \in Vals \cup {NoVal}, Transact(h, kind, mod, val)
    PROVE  /\ CallOf(h, kind, mod, val) \in Request
           /\ requests' = Append(requests, CallOf(h, kind, mod, val))
           /\ calls' = [calls EXCEPT ![h] = Append(@, CallOf(h, kind, mod, val))]
           /\ requests' \in Seq(Request) /\ calls' \in [Handlers -> Seq(Request)]
           /\ Len(calls[h]) \in Nat /\ Len(calls'[h]) = Len(calls[h]) + 1
           /\ Len(results[h]) = Len(calls[h])
<1>1. /\ calls \in [Handlers -> Seq(Request)] /\ requests \in Seq(Request)
      /\ Len(calls[h]) - Len(results[h]) \in {0, 1}
      /\ results[h] \in Seq([got : Nat, ok : BOOLEAN])
  BY DEF TypeOK, ChannelsTypeOK, LocalTypeOK
<1>2. Len(calls[h]) \in Nat /\ Len(results[h]) \in Nat
  BY <1>1, LenProperties
<1>. DEFINE r == CallOf(h, kind, mod, val)
<1>3. r \in Request
  BY <1>2 DEF CallOf, Request
<1>4. /\ ~Calling(h) /\ requests' = Append(requests, r)
      /\ calls' = [calls EXCEPT ![h] = Append(@, r)]
  BY DEF Transact, CallOf
<1>. HIDE DEF r
<1>5. /\ Append(calls[h], r) \in Seq(Request)
      /\ Len(Append(calls[h], r)) = Len(calls[h]) + 1
      /\ Append(requests, r) \in Seq(Request)
  BY <1>1, <1>3, AppendProperties
<1>6. Len(results[h]) = Len(calls[h])
  BY <1>1, <1>2, <1>4 DEF Calling
<1>. QED  BY <1>1, <1>2, <1>3, <1>4, <1>5, <1>6 DEF r

LEMMA QuitType ==
    ASSUME NEW h \in Handlers
    PROVE  QuitOf(h) \in Request /\ QuitOf(h).kind = "quit" /\ QuitOf(h).hid = h
BY DEF QuitOf, Request, RequestKinds, Names

\* A step of the local client h, with and without a message.
LEMMA ReturnType ==
    ASSUME TypeOK, NEW h \in Handlers, Calling(h), NEW got \in Nat, NEW ok \in BOOLEAN,
           Return(h, got, ok)
    PROVE  /\ results' \in [Handlers -> Seq([got : Nat, ok : BOOLEAN])]
           /\ results' = [results EXCEPT ![h] = Append(@, [got |-> got, ok |-> ok])]
           /\ UNCHANGED <<lstate, calls>>
           /\ Len(results[h]) \in Nat /\ Len(results'[h]) = Len(results[h]) + 1
           /\ Len(calls[h]) = Len(results[h]) + 1
           /\ results'[h][Len(results[h]) + 1] = [got |-> got, ok |-> ok]
           /\ \A i \in 1 .. Len(results[h]) : results'[h][i] = results[h][i]
<1>. DEFINE T == [got : Nat, ok : BOOLEAN]
            x == [got |-> got, ok |-> ok]
<1>1. /\ results \in [Handlers -> Seq(T)] /\ calls[h] \in Seq(Request)
      /\ Len(calls[h]) - Len(results[h]) \in {0, 1}
  BY DEF TypeOK, LocalTypeOK
<1>2. x \in T
  OBVIOUS
<1>3. /\ results' = [results EXCEPT ![h] = Append(@, x)]
      /\ UNCHANGED <<lstate, calls>>
  BY DEF Return
<1>. HIDE DEF T, x
<1>4. Len(calls[h]) \in Nat /\ Len(results[h]) \in Nat
  BY <1>1, LenProperties
<1>5. /\ Append(results[h], x) \in Seq(T)
      /\ Len(Append(results[h], x)) = Len(results[h]) + 1
      /\ Append(results[h], x)[Len(results[h]) + 1] = x
      /\ \A i \in 1 .. Len(results[h]) : Append(results[h], x)[i] = results[h][i]
  BY <1>1, <1>2, AppendProperties
<1>6. Len(calls[h]) = Len(results[h]) + 1
  BY <1>1, <1>4 DEF Calling
<1>. QED  BY <1>1, <1>3, <1>4, <1>5, <1>6 DEF T, x

\* The two ways in which a call returns.
LEMMA ReceiveType ==
    ASSUME TypeOK, NEW h \in Handlers, Receive(h) \/ TimeOut(h)
    PROVE  /\ Calling(h) /\ UNCHANGED <<lstate, calls>>
           /\ \E got \in Nat, ok \in BOOLEAN :
                /\ Return(h, got, ok)
                /\ \/ /\ taken[h] < Len(outbox[h]) /\ taken[h] + 1 \in 1 .. Len(outbox[h])
                      /\ taken' = [taken EXCEPT ![h] = @ + 1]
                      /\ got = outbox[h][taken[h] + 1].id
                   \/ got = 0 /\ taken' = taken
<1>1. outbox[h] \in Seq(Message) /\ taken \in [Handlers -> Nat] /\ taken[h] \in Nat
  BY DEF TypeOK, ChannelsTypeOK, LocalTypeOK
<1>2. Len(outbox[h]) \in Nat
  BY <1>1, LenProperties
<1>3. CASE Receive(h)
  <2>. DEFINE msg == outbox[h][taken[h] + 1]
              b == (msg.kind = Expected(calls[h][Len(calls[h])].kind))
  <2>1. /\ taken[h] < Len(outbox[h]) /\ Calling(h) /\ Return(h, msg.id, b)
        /\ taken' = [taken EXCEPT ![h] = @ + 1]
    BY <1>3 DEF Receive, Unread, TakeOff
  <2>2. taken[h] + 1 \in 1 .. Len(outbox[h])
    BY <1>1, <1>2, <2>1
  <2>3. msg \in Message
    BY <1>1, <2>2, ElementOfSeq
  <2>4. msg.id \in Nat
    BY <2>3 DEF Message
  <2>5. b \in BOOLEAN
    OBVIOUS
  <2>. HIDE DEF b
  <2>. QED  BY <2>1, <2>2, <2>4, <2>5 DEF Return
<1>4. CASE TimeOut(h)
  BY <1>4 DEF TimeOut, Return
<1>. QED  BY <1>3, <1>4

LEMMA LocalReturns ==
    ASSUME TypeOK, NEW h \in Handlers, Receive(h) \/ TimeOut(h), outbox' = outbox
    PROVE  LocalTypeOK'
<1>1. PICK got \in Nat, ok \in BOOLEAN :
        /\ Return(h, got, ok) /\ Calling(h)
        /\ \/ taken[h] < Len(outbox[h]) /\ taken' = [taken EXCEPT ![h] = @ + 1]
           \/ taken' = taken
  BY ReceiveType
<1>2. /\ results' \in [Handlers -> Seq([got : Nat, ok : BOOLEAN])]
      /\ results' = [results EXCEPT ![h] = Append(@, [got |-> got, ok |-> ok])]
      /\ UNCHANGED <<lstate, calls>>
      /\ Len(results[h]) \in Nat /\ Len(results'[h]) = Len(results[h]) + 1
      /\ Len(calls[h]) = Len(results[h]) + 1
  BY <1>1, ReturnType
<1>3. LocalTypeOK /\ outbox \in [Handlers -> Seq(Message)]
  BY DEF TypeOK, ChannelsTypeOK
<1>4. \A g \in Handlers : Len(outbox[g]) \in Nat
  BY <1>3, LenProperties
<1>5. taken' \in [Handlers -> Nat] /\ \A g \in Handlers : taken'[g] <= Len(outbox'[g])
  <2>1. taken \in [Handlers -> Nat] /\ \A g \in Handlers : taken[g] <= Len(outbox[g])
    BY <1>3 DEF LocalTypeOK
  <2>2. taken[h] + 1 \in Nat /\ taken[h] \in Nat
    BY <2>1
  <2>3. CASE taken[h] < Len(outbox[h]) /\ taken' = [taken EXCEPT ![h] = @ + 1]
    <3>1. taken' \in [Handlers -> Nat]
      BY <2>1, <2>2, <2>3
    <3>2. \A g \in Handlers : taken'[g] = IF g = h THEN taken[g] + 1 ELSE taken[g]
      BY <2>1, <2>3
    <3>. QED  BY <1>4, <2>1, <2>2, <2>3, <3>1, <3>2
  <2>. QED  BY <1>1, <2>1, <2>3
<1>6. \A g \in Handlers : Len(calls'[g]) - Len(results'[g]) \in {0, 1}
  <2>1. \A g \in Handlers : g # h => results'[g] = results[g]
    BY <1>2, <1>3 DEF LocalTypeOK
  <2>. QED  BY <1>2, <1>3, <2>1 DEF LocalTypeOK
<1>. QED  BY <1>2, <1>3, <1>5, <1>6 DEF LocalTypeOK

\* A client makes a call; it may be new.
LEMMA LocalCalls ==
    ASSUME TypeOK, NEW h \in Handlers, NEW kind \in RequestKinds, NEW mod \in Names,
           NEW val \in Vals \cup {NoVal}, Transact(h, kind, mod, val),
           UNCHANGED <<taken, results, outbox>>,
           lstate' \in {lstate, [lstate EXCEPT ![h] = "live"]}
    PROVE  LocalTypeOK'
<1>1. /\ calls' = [calls EXCEPT ![h] = Append(@, CallOf(h, kind, mod, val))]
      /\ calls' \in [Handlers -> Seq(Request)]
      /\ Len(calls[h]) \in Nat /\ Len(calls'[h]) = Len(calls[h]) + 1
      /\ Len(results[h]) = Len(calls[h])
  BY TransactType
<1>2. LocalTypeOK
  BY DEF TypeOK
<1>3. \A g \in Handlers : Len(calls'[g]) - Len(results'[g]) \in {0, 1}
  <2>1. \A g \in Handlers : g # h => calls'[g] = calls[g]
    BY <1>1, <1>2 DEF LocalTypeOK
  <2>. QED  BY <1>1, <1>2, <2>1 DEF LocalTypeOK
<1>4. lstate' \in [Handlers -> {"none", "live", "dropped"}]
  BY <1>2 DEF LocalTypeOK
<1>. QED  BY <1>1, <1>2, <1>3, <1>4 DEF LocalTypeOK

LEMMA CallerFacts ==
    ASSUME TypeOK
    PROVE  /\ Callers \subseteq Mods
           /\ \A m \in Callers : iomod[m] \in Names
           /\ \A m \in Mods : client[m] # Nobody => client[m] \in Pool /\ client[m] \in Handlers
           /\ DefaultVal \in Vals \cup {NoVal}
           /\ DOMAIN Users \subseteq Handlers \ Pool /\ Pool \subseteq Handlers
           /\ "do" \in RequestKinds /\ "quit" \in RequestKinds
<1>1. PICK S \in SUBSET Mods : iomod \in [S -> Names]
  BY ToellnerAssumption DEF ToellnerAssumption, TypeOK, CallerTypeOK
<1>2. \A m \in Mods : client[m] \in Pool \cup {Nobody}
  BY DEF TypeOK, CallerTypeOK
<1>. QED
  BY <1>1, <1>2, ToellnerAssumption, CallingAssumption, ModuleAssumption
  DEF ToellnerAssumption, CallingAssumption, ModuleAssumption, Callers, RequestKinds,
      ModuleRequests

\* A step of an ordinary module leaves the states of the others alone.
LEMMA OthersStay ==
    ASSUME NodeTypes, NEW m \in Mods, ModuleNext(m), NEW n \in Mods, n # m
    PROVE  mstate'[n] = mstate[n]
<1>1. mstate \in [Mods -> {"starting", "running", "panicked", "waiting"}]
  BY DEF NodeTypes, ModuleTypeOK
<1>. QED
  BY <1>1
  DEF ModuleNext, StartOk, StartFails, HandleRequest, HandleRead, HandleChange, HandleDo,
      HandleActivate, TakeModRequest, Poll, Panic, Drain, Wake, HardwareDrift

\* What m does with its requests and its replies when a read comes to an end.
LEMMA ServingShape ==
    ASSUME TypeOK, NEW m \in Mods
    PROVE  \/ serving[m] = <<>>
           \/ \E r \in Request : serving[m] = <<r>>
<1>1. serving[m] \in Seq(Request) /\ Len(serving[m]) <= 1
  BY DEF TypeOK, CallerTypeOK
<1>2. Len(serving[m]) \in Nat
  BY <1>1, LenProperties
<1>3. CASE Len(serving[m]) = 0
  BY <1>1, <1>3, EmptySeq
<1>4. CASE Len(serving[m]) = 1
  <2>1. serving[m][1] \in Request
    BY <1>1, <1>4, ElementOfSeq
  <2>2. serving[m] = [i \in 1 .. 1 |-> serving[m][i]]
    BY <1>1, <1>4
  <2>. QED  BY <2>1, <2>2
<1>. QED  BY <1>1, <1>2, <1>3, <1>4

LEMMA SentType ==
    ASSUME TypeOK, NEW m \in Mods, NEW v \in Vals
    PROVE  /\ Announce(m, DefaultVal, v) \o Description(m) \in Seq(ModReply)
           /\ Announce(m, cache[m], v)
                \o [k \in DOMAIN serving[m] |-> Report(m, serving[m][k], "update", v)]
              \in Seq(ModReply)
           /\ [k \in DOMAIN serving[m] |-> Refusal(m, serving[m][k])] \in Seq(ModReply)
<1>. DEFINE rs == [k \in DOMAIN serving[m] |-> Report(m, serving[m][k], "update", v)]
            es == [k \in DOMAIN serving[m] |-> Refusal(m, serving[m][k])]
<1>1. rs \in Seq(ModReply) /\ es \in Seq(ModReply)
  <2>1. CASE serving[m] = <<>>
    BY <2>1
  <2>2. ASSUME NEW r \in Request, serving[m] = <<r>>
        PROVE  rs \in Seq(ModReply) /\ es \in Seq(ModReply)
    <3>1. Report(m, r, "update", v) \in ModReply /\ Refusal(m, r) \in ModReply
      BY MessagesType
    <3>2. rs = <<Report(m, r, "update", v)>> /\ es = <<Refusal(m, r)>>
      BY <2>2
    <3>. QED  BY <3>1, <3>2
  <2>. QED  BY <2>1, <2>2, ServingShape
<1>. HIDE DEF rs, es
<1>2. /\ Announce(m, DefaultVal, v) \in Seq(ModReply)
      /\ Announce(m, cache[m], v) \in Seq(ModReply)
      /\ Description(m) \in Seq(ModReply)
  BY EmissionsShape, EmissionsAreReplies
<1>3. /\ Announce(m, DefaultVal, v) \o Description(m) \in Seq(ModReply)
      /\ Announce(m, cache[m], v) \o rs \in Seq(ModReply)
  BY <1>1, <1>2, ConcatProperties
<1>. QED  BY <1>1, <1>3 DEF rs, es

\* A read of caller m ends, for good or not.
LEMMA EndType ==
    ASSUME TypeOK, NEW m \in Callers, outbox' = outbox, modq' = modq,
           UNCHANGED <<hw, drift, iomod, polls>>, UNCHANGED dispVars,
           client[m] # Nobody, LocalTypeOK',
           (\E v \in Representable : ValueRead(m, v)) \/ ValueFails(m)
    PROVE  TypeOK'
<1>1. m \in Mods /\ client[m] \in Handlers
  BY CallerFacts
<1>2. /\ ChannelsTypeOK /\ ModuleTypeOK /\ CallerTypeOK /\ DispatcherTypeOK
      /\ NodeTypes /\ DispatcherTypeOK'
  BY NodeTyped DEF TypeOK, dispVars, DispatcherTypeOK
<1>3. serving' = [serving EXCEPT ![m] = <<>>] /\ connections' = connections
  BY DEF ValueRead, ValueFails
<1>4. /\ serving' \in [Mods -> Seq(Request)]
      /\ \A n \in Mods : Len(serving'[n]) <= 1
  <2>1. <<>> \in Seq(Request) /\ Len(<<>>) <= 1
    OBVIOUS
  <2>2. \A n \in Mods : serving'[n] = IF n = m THEN <<>> ELSE serving[n]
    BY <1>2, <1>3 DEF CallerTypeOK
  <2>. QED  BY <1>1, <1>2, <1>3, <2>1, <2>2 DEF CallerTypeOK
<1>5. CASE ValueFails(m)
  <2>1. /\ QuitOf(client[m]) \in Request
        /\ [k \in DOMAIN serving[m] |-> Refusal(m, serving[m][k])] \in Seq(ModReply)
    BY <1>1, QuitType, SentType, ModuleAssumption DEF ModuleAssumption
  <2>2. requests' \in Seq(Request)
    <3>1. Append(requests, QuitOf(client[m])) \in Seq(Request)
      BY <1>2, <2>1, AppendProperties DEF ChannelsTypeOK
    <3>. QED  BY <1>2, <1>5, <3>1 DEF ValueFails, ChannelsTypeOK
  <2>3. replies' \in Seq(ModReply)
    BY <1>2, <1>5, <2>1, SendType DEF ValueFails, ChannelsTypeOK
  <2>4. /\ mstate' \in [Mods -> {"starting", "running", "panicked", "waiting"}]
        /\ cache' = cache /\ client' \in [Mods -> Pool \cup {Nobody}]
    BY <1>2, <1>5 DEF ValueFails, ModuleTypeOK, CallerTypeOK
  <2>5. ChannelsTypeOK' /\ ModuleTypeOK' /\ CallerTypeOK'
    BY <1>2, <1>3, <1>4, <2>2, <2>3, <2>4 DEF ChannelsTypeOK, ModuleTypeOK, CallerTypeOK
  <2>. QED  BY <1>2, <2>5 DEF TypeOK
<1>6. ASSUME NEW v \in Representable, ValueRead(m, v)
      PROVE  TypeOK'
  <2>1. v \in Vals
    BY ModuleAssumption DEF ModuleAssumption
  <2>2. /\ Announce(m, DefaultVal, v) \o Description(m) \in Seq(ModReply)
        /\ Announce(m, cache[m], v)
             \o [k \in DOMAIN serving[m] |-> Report(m, serving[m][k], "update", v)]
           \in Seq(ModReply)
    BY <1>1, <2>1, SentType
  <2>3. replies' \in Seq(ModReply)
    BY <1>2, <1>6, <2>2, SendType DEF ValueRead
  <2>4. /\ mstate' \in [Mods -> {"starting", "running", "panicked", "waiting"}]
        /\ cache' \in [Mods -> Vals] /\ UNCHANGED <<requests, client>>
    BY <1>2, <1>6, <2>1 DEF ValueRead, ModuleTypeOK, Cached
  <2>5. ChannelsTypeOK' /\ ModuleTypeOK' /\ CallerTypeOK'
    BY <1>2, <1>3, <1>4, <2>3, <2>4 DEF ChannelsTypeOK, ModuleTypeOK, CallerTypeOK
  <2>. QED  BY <1>2, <2>5 DEF TypeOK
<1>. QED  BY <1>5, <1>6

LEMMA CallerType ==
    ASSUME TypeOK, OwnInv, NEW m \in Callers, CallerStep(m)
    PROVE  TypeOK'
<1>1. m \in Mods /\ iomod[m] \in Names
  BY CallerFacts
<1>2. /\ ChannelsTypeOK /\ ModuleTypeOK /\ CallerTypeOK /\ DispatcherTypeOK /\ LocalTypeOK
      /\ NodeTypes /\ DispatcherTypeOK'
  BY NodeTyped DEF TypeOK, CallerStep, dispVars, DispatcherTypeOK
<1>3. ASSUME NEW h \in Handlers, CallPeer(m, h)
      PROVE  requests' \in Seq(Request)
  BY <1>1, <1>3, CallerFacts, TransactType DEF CallPeer
<1>4. ASSUME NEW h \in Handlers, CallPeer(m, h), UNCHANGED <<taken, results, outbox>>,
             lstate' \in {lstate, [lstate EXCEPT ![h] = "live"]}
      PROVE  LocalTypeOK'
  BY <1>1, <1>4, CallerFacts, LocalCalls DEF CallPeer
<1>5. ASSUME Ready(m)
      PROVE  client[m] \in Handlers
  BY <1>1, <1>5, CallerFacts DEF OwnInv, Ready
<1>6. CASE Create(m)
  <2>1. /\ UNCHANGED <<modq, replies, outbox, taken, results, cache, hw, drift,
                       iomod, serving, polls>>
    BY <1>6 DEF Create
  <2>2. CASE /\ mstate' = [mstate EXCEPT ![m] = "panicked"]
             /\ UNCHANGED <<client, lstate, calls, connections, requests>>
    <3>1. ChannelsTypeOK' /\ ModuleTypeOK' /\ CallerTypeOK' /\ LocalTypeOK'
      BY <1>2, <2>1, <2>2 DEF ChannelsTypeOK, ModuleTypeOK, CallerTypeOK, LocalTypeOK
    <3>. QED  BY <1>2, <3>1 DEF TypeOK
  <2>3. ASSUME NEW h \in Pool, NewClient(h), CallPeer(m, h),
               client' = [client EXCEPT ![m] = h], mstate' = mstate
        PROVE  TypeOK'
    <3>1. h \in Handlers
      BY CallerFacts
    <3>2. /\ lstate' = [lstate EXCEPT ![h] = "live"]
          /\ connections' = Append(connections, h)
      BY <2>3 DEF NewClient
    <3>3. connections' \in Seq(Handlers) /\ requests' \in Seq(Request)
      BY <1>2, <1>3, <2>3, <3>1, <3>2, AppendProperties DEF ChannelsTypeOK
    <3>4. LocalTypeOK'
      BY <1>4, <2>1, <2>3, <3>1, <3>2
    <3>5. client' \in [Mods -> Pool \cup {Nobody}]
      BY <1>2, <2>3 DEF CallerTypeOK
    <3>6. ChannelsTypeOK' /\ ModuleTypeOK' /\ CallerTypeOK'
      BY <1>2, <2>1, <2>3, <3>3, <3>5 DEF ChannelsTypeOK, ModuleTypeOK, CallerTypeOK
    <3>. QED  BY <1>2, <3>4, <3>6 DEF TypeOK
  <2>. QED  BY <1>6, <2>2, <2>3 DEF Create
<1>7. CASE ServeRead(m)
  <2>1. /\ Ready(m) /\ modq[m] # <<>> /\ modq' = [modq EXCEPT ![m] = Tail(@)]
        /\ serving' = [serving EXCEPT ![m] = <<Head(modq[m])>>]
        /\ CallPeer(m, client[m])
        /\ UNCHANGED <<connections, replies, outbox, lstate, taken, results, modVars,
                       iomod, client, polls>>
    BY <1>7 DEF ServeRead
  <2>2. requests' \in Seq(Request) /\ LocalTypeOK'
    BY <1>3, <1>4, <1>5, <2>1
  <2>3. modq[m] \in Seq(Request)
    BY <1>1, <1>2 DEF ChannelsTypeOK
  <2>4. Head(modq[m]) \in Request /\ Tail(modq[m]) \in Seq(Request)
    BY <2>1, <2>3, TakeType
  <2>5. <<Head(modq[m])>> \in Seq(Request) /\ Len(<<Head(modq[m])>>) = 1
    BY <2>4
  <2>. DEFINE t == <<Head(modq[m])>>
  <2>a. t \in Seq(Request) /\ Len(t) <= 1 /\ serving' = [serving EXCEPT ![m] = t]
    BY <2>1, <2>5
  <2>. HIDE DEF t
  <2>b. \A n \in Mods : serving'[n] = IF n = m THEN t ELSE serving[n]
    BY <1>2, <2>a DEF CallerTypeOK
  <2>6. /\ serving' \in [Mods -> Seq(Request)] /\ \A n \in Mods : Len(serving'[n]) <= 1
        /\ modq' \in [Mods -> Seq(Request)]
    BY <1>1, <1>2, <2>1, <2>4, <2>a, <2>b DEF CallerTypeOK, ChannelsTypeOK
  <2>7. ChannelsTypeOK' /\ ModuleTypeOK' /\ CallerTypeOK'
    BY <1>2, <2>1, <2>2, <2>6 DEF ChannelsTypeOK, ModuleTypeOK, CallerTypeOK, modVars
  <2>. QED  BY <1>2, <2>2, <2>7 DEF TypeOK
<1>8. CASE ServeOther(m)
  <2>1. UNCHANGED <<localVars, callerVars>>
    BY <1>8 DEF ServeOther
  <2>2. CASE HandleActivate(m)
    <3>1. ChannelsTypeOK' /\ ModuleTypeOK'
      BY <1>1, <1>2, <2>2, ModuleType DEF ModuleNext, HandleRequest
    <3>2. CallerTypeOK' /\ outbox' = outbox
      BY <1>2, <2>1, <2>2 DEF CallerTypeOK, callerVars, HandleActivate, TakeModRequest
    <3>3. LocalTypeOK'
      BY <1>2, <2>1, <3>2 DEF LocalTypeOK, localVars
    <3>. QED  BY <1>2, <3>1, <3>2, <3>3 DEF TypeOK
  <2>3. ASSUME NEW kind, TakeModRequest(m, kind), Send(<<Refusal(m, Head(modq[m]))>>),
               UNCHANGED <<cache, hw>>
        PROVE  TypeOK'
    <3>1. Head(modq[m]) \in Request /\ modq' \in [Mods -> Seq(Request)]
      BY <1>1, <1>2, <2>3, TakeModRequestType
    <3>2. <<Refusal(m, Head(modq[m]))>> \in Seq(ModReply)
      <4>1. Refusal(m, Head(modq[m])) \in ModReply
        BY <1>1, <3>1, MessagesType, ModuleAssumption DEF ModuleAssumption
      <4>. QED  BY <4>1
    <3>3. replies' \in Seq(ModReply)
      BY <1>2, <2>3, <3>2, SendType
    <3>4. UNCHANGED <<mstate, drift, connections, requests, outbox>>
      BY <2>3 DEF TakeModRequest
    <3>5. ChannelsTypeOK' /\ ModuleTypeOK'
      BY <1>2, <2>3, <3>1, <3>3, <3>4 DEF ChannelsTypeOK, ModuleTypeOK
    <3>6. CallerTypeOK' /\ LocalTypeOK'
      BY <1>2, <2>1, <3>4 DEF CallerTypeOK, callerVars, LocalTypeOK, localVars
    <3>. QED  BY <1>2, <3>5, <3>6 DEF TypeOK
  <2>. QED  BY <1>8, <2>2, <2>3 DEF ServeOther
<1>9. CASE PollPeer(m)
  <2>1. /\ Ready(m) /\ polls' = polls + 1 /\ CallPeer(m, client[m])
        /\ UNCHANGED <<connections, modq, replies, outbox, lstate, taken, results,
                       modVars, iomod, client, serving>>
    BY <1>9 DEF PollPeer
  <2>2. requests' \in Seq(Request) /\ LocalTypeOK'
    BY <1>3, <1>4, <1>5, <2>1
  <2>3. ChannelsTypeOK' /\ ModuleTypeOK' /\ CallerTypeOK'
    BY <1>2, <2>1, <2>2 DEF ChannelsTypeOK, ModuleTypeOK, CallerTypeOK, modVars
  <2>. QED  BY <1>2, <2>2, <2>3 DEF TypeOK
<1>10. CASE CallReturns(m)
  <2>1. /\ client[m] # Nobody
        /\ Receive(client[m]) \/ TimeOut(client[m])
        /\ (\E v \in Representable : ValueRead(m, v)) \/ ValueFails(m)
        /\ UNCHANGED <<modq, outbox, hw, drift, iomod, polls>>
    BY <1>10 DEF CallReturns, Blocked
  <2>2. LocalTypeOK'
    BY <1>1, <2>1, CallerFacts, LocalReturns
  <2>. QED  BY <2>1, <2>2, EndType DEF CallerStep
<1>11. CASE Restart(m)
  <2>1. UNCHANGED <<localVars, callerVars>> /\ outbox' = outbox /\ ModuleNext(m)
    BY <1>11 DEF Restart, Drain, Wake, chanVars, ModuleNext
  <2>2. ChannelsTypeOK' /\ ModuleTypeOK'
    BY <1>1, <1>2, <2>1, ModuleType
  <2>3. CallerTypeOK' /\ LocalTypeOK'
    BY <1>2, <2>1 DEF CallerTypeOK, callerVars, LocalTypeOK, localVars
  <2>. QED  BY <1>2, <2>2, <2>3 DEF TypeOK
<1>. QED
  BY <1>6, <1>7, <1>8, <1>9, <1>10, <1>11 DEF CallerStep, CallerNext

LEMMA UserType ==
    ASSUME TypeOK, NEW h \in DOMAIN Users, UserStep(h)
    PROVE  TypeOK'
<1>1. h \in Handlers /\ Users[h] \in Names
  BY CallingAssumption DEF CallingAssumption
<1>2. /\ ChannelsTypeOK /\ ModuleTypeOK /\ CallerTypeOK /\ DispatcherTypeOK /\ LocalTypeOK
      /\ ModuleTypeOK' /\ CallerTypeOK' /\ DispatcherTypeOK'
  BY DEF TypeOK, UserStep, dispVars, DispatcherTypeOK, modVars, ModuleTypeOK, callerVars,
         CallerTypeOK
<1>3. CASE UserNew(h)
  <2>1. Append(connections, h) \in Seq(Handlers)
    BY <1>1, <1>2, AppendProperties DEF ChannelsTypeOK
  <2>2. ChannelsTypeOK' /\ LocalTypeOK'
    BY <1>2, <1>3, <2>1 DEF UserNew, NewClient, ChannelsTypeOK, LocalTypeOK
  <2>. QED  BY <1>2, <2>2 DEF TypeOK
<1>4. CASE UserCalls(h)
  <2>1. PICK c \in Calls : Transact(h, c.kind, Users[h], c.val)
    BY <1>4 DEF UserCalls
  <2>2. c.kind \in RequestKinds /\ c.val \in Vals \cup {NoVal}
    BY CallingAssumption DEF CallingAssumption, RequestKinds
  <2>3. UNCHANGED <<lstate, taken, results, connections, modq, replies, outbox>>
    BY <1>4 DEF UserCalls
  <2>4. requests' \in Seq(Request) /\ LocalTypeOK'
    BY <1>1, <2>1, <2>2, <2>3, TransactType, LocalCalls
  <2>5. ChannelsTypeOK'
    BY <1>2, <2>3, <2>4 DEF ChannelsTypeOK
  <2>. QED  BY <1>2, <2>4, <2>5 DEF TypeOK
<1>5. CASE UserReturns(h)
  <2>1. (Receive(h) \/ TimeOut(h)) /\ UNCHANGED chanVars
    BY <1>5 DEF UserReturns
  <2>2. LocalTypeOK' /\ ChannelsTypeOK'
    BY <1>1, <1>2, <2>1, LocalReturns DEF chanVars, ChannelsTypeOK
  <2>. QED  BY <1>2, <2>2 DEF TypeOK
<1>6. CASE UserDrops(h)
  <2>1. Append(requests, QuitOf(h)) \in Seq(Request)
    BY <1>1, <1>2, QuitType, AppendProperties DEF ChannelsTypeOK
  <2>2. ChannelsTypeOK' /\ LocalTypeOK'
    BY <1>2, <1>6, <2>1 DEF UserDrops, DropClient, ChannelsTypeOK, LocalTypeOK
  <2>. QED  BY <1>2, <2>2 DEF TypeOK
<1>. QED  BY <1>3, <1>4, <1>5, <1>6 DEF UserStep, UserNext

\* A step of caller m leaves the state of the other modules alone.
LEMMA CallerOthers ==
    ASSUME TypeOK, NEW m \in Callers, CallerStep(m)
    PROVE  /\ iomod' = iomod
           /\ \A n \in Mods : n # m => /\ mstate'[n] = mstate[n] /\ client'[n] = client[n]
                                       /\ serving'[n] = serving[n]
<1>1. /\ mstate \in [Mods -> {"starting", "running", "panicked", "waiting"}]
      /\ client \in [Mods -> Pool \cup {Nobody}] /\ serving \in [Mods -> Seq(Request)]
  BY DEF TypeOK, ModuleTypeOK, CallerTypeOK
<1>2. CASE Create(m)
  BY <1>1, <1>2 DEF Create
<1>3. CASE ServeRead(m)
  BY <1>1, <1>3 DEF ServeRead, modVars
<1>4. CASE ServeOther(m)
  BY <1>1, <1>4 DEF ServeOther, HandleActivate, TakeModRequest, callerVars
<1>5. CASE PollPeer(m)
  BY <1>1, <1>5 DEF PollPeer, modVars
<1>6. CASE CallReturns(m)
  <2>1. (\E v \in Representable : ValueRead(m, v)) \/ ValueFails(m)
    BY <1>6 DEF CallReturns
  <2>2. iomod' = iomod
    BY <1>6 DEF CallReturns
  <2>3. CASE ValueFails(m)
    BY <1>1, <2>2, <2>3 DEF ValueFails
  <2>4. ASSUME NEW v \in Representable, ValueRead(m, v)
        PROVE  \A n \in Mods : n # m => /\ mstate'[n] = mstate[n] /\ client'[n] = client[n]
                                        /\ serving'[n] = serving[n]
    BY <1>1, <2>4 DEF ValueRead
  <2>. QED  BY <2>1, <2>2, <2>3, <2>4
<1>7. CASE Restart(m)
  BY <1>1, <1>7 DEF Restart, Drain, Wake, callerVars
<1>. QED  BY <1>2, <1>3, <1>4, <1>5, <1>6, <1>7 DEF CallerStep, CallerNext

LEMMA OwnAtCaller ==
    ASSUME TypeOK, OwnInv, NEW m \in Callers, CallerStep(m)
    PROVE  OwnInv'
<1>1. /\ Callers' = Callers /\ m \in Mods /\ Callers \subseteq Mods
      /\ \A n \in Mods : n # m => mstate'[n] = mstate[n] /\ client'[n] = client[n]
  BY CallerOthers, CallerFacts DEF Callers
<1>2. /\ mstate \in [Mods -> {"starting", "running", "panicked", "waiting"}]
      /\ client \in [Mods -> Pool \cup {Nobody}] /\ Nobody \notin Handlers
  BY ChannelsAssumption DEF ChannelsAssumption, TypeOK, ModuleTypeOK, CallerTypeOK
<1>3. mstate'[m] = "running" => client'[m] # Nobody
  <2>1. CASE Create(m)
    <3>1. mstate'[m] # "running"
      BY <1>1, <1>2, <2>1 DEF Create
    <3>. QED  BY <3>1
  <2>2. CASE ServeRead(m) \/ PollPeer(m)
    BY <2>2 DEF ServeRead, PollPeer, modVars, OwnInv
  <2>3. CASE ServeOther(m)
    BY <2>3 DEF ServeOther, HandleActivate, TakeModRequest, callerVars, OwnInv
  <2>4. CASE CallReturns(m)
    <3>1. client[m] # Nobody
      BY <2>4 DEF CallReturns, Blocked
    <3>2. (\E v \in Representable : ValueRead(m, v)) \/ ValueFails(m)
      BY <2>4 DEF CallReturns
    <3>3. CASE ValueFails(m)
      BY <1>1, <1>2, <3>1, <3>3 DEF ValueFails
    <3>4. ASSUME NEW v \in Representable, ValueRead(m, v)
          PROVE  client'[m] # Nobody
      BY <3>1, <3>4 DEF ValueRead
    <3>. QED  BY <3>2, <3>3, <3>4
  <2>5. CASE Restart(m)
    <3>1. mstate'[m] # "running"
      BY <1>1, <1>2, <2>5 DEF Restart, Drain, Wake
    <3>. QED  BY <3>1
  <2>. QED  BY <2>1, <2>2, <2>3, <2>4, <2>5 DEF CallerStep, CallerNext
<1>. QED  BY <1>1, <1>3 DEF OwnInv

LEMMA SafeStep ==
    ASSUME TypeOK, OwnInv, [Next]_vars
    PROVE  TypeOK' /\ OwnInv'
<1>1. /\ NodeTypes /\ ChannelsTypeOK /\ DispatcherTypeOK /\ ModuleTypeOK /\ LocalTypeOK
      /\ CallerTypeOK /\ Callers \subseteq Mods
  BY NodeTyped, CallerFacts DEF TypeOK
<1>2. CASE DispatcherStep
  <2>1. DispatcherNext /\ UNCHANGED <<modVars, localVars, callerVars>>
    BY <1>2 DEF DispatcherStep
  <2>2. ChannelsTypeOK' /\ DispatcherTypeOK'
    BY <1>1, <2>1, DispatcherType
  <2>3. ModuleTypeOK' /\ CallerTypeOK'
    BY <1>1, <2>1 DEF modVars, ModuleTypeOK, callerVars, CallerTypeOK
  <2>4. ASSUME NEW h \in Handlers
        PROVE  taken'[h] <= Len(outbox'[h])
    <3>1. taken[h] \in Nat /\ taken[h] <= Len(outbox[h]) /\ taken' = taken
      BY <1>1, <2>1 DEF LocalTypeOK, localVars
    <3>2. outbox[h] \in Seq(Message) /\ outbox'[h] \in Seq(Message)
      BY <1>1, <2>2 DEF ChannelsTypeOK
    <3>3. Len(outbox[h]) \in Nat /\ Len(outbox'[h]) \in Nat
      BY <3>2, LenProperties
    <3>4. Len(outbox[h]) <= Len(outbox'[h])
      BY <1>1, <2>1, OutboxGrows
    <3>. QED  BY <3>1, <3>3, <3>4
  <2>5. LocalTypeOK'
    BY <1>1, <2>1, <2>4 DEF localVars, LocalTypeOK
  <2>. QED
    BY <2>1, <2>2, <2>3, <2>5 DEF TypeOK, OwnInv, modVars, callerVars, Callers
<1>3. ASSUME NEW m \in Mods \ Callers, ModuleStep(m)
      PROVE  TypeOK' /\ OwnInv'
  <2>1. ModuleNext(m) /\ UNCHANGED <<dispVars, localVars, callerVars>>
    BY <1>3 DEF ModuleStep
  <2>2. ChannelsTypeOK' /\ ModuleTypeOK'
    BY <1>1, <2>1, ModuleType
  <2>3. outbox' = outbox
    BY <1>1, <2>1, ModuleShape DEF Emits, AnswersFirst
  <2>4. DispatcherTypeOK' /\ CallerTypeOK' /\ LocalTypeOK'
    BY <1>1, <2>1, <2>3
    DEF dispVars, DispatcherTypeOK, callerVars, CallerTypeOK, localVars, LocalTypeOK
  <2>5. \A n \in Callers : mstate'[n] = mstate[n] /\ client'[n] = client[n]
    BY <1>1, <2>1, OthersStay DEF callerVars
  <2>. QED  BY <2>1, <2>2, <2>4, <2>5 DEF TypeOK, OwnInv, callerVars, Callers
<1>4. ASSUME NEW m \in Callers, CallerStep(m)
      PROVE  TypeOK' /\ OwnInv'
  BY <1>4, CallerType, OwnAtCaller
<1>5. ASSUME NEW h \in DOMAIN Users, UserStep(h)
      PROVE  TypeOK' /\ OwnInv'
  <2>1. UNCHANGED <<modVars, callerVars>>
    BY <1>5 DEF UserStep
  <2>2. OwnInv'
    BY <2>1 DEF modVars, callerVars, OwnInv, Callers
  <2>. QED  BY <1>5, <2>2, UserType
<1>6. CASE UNCHANGED vars
  BY <1>6
  DEF vars, chanVars, dispVars, modVars, localVars, callerVars, TypeOK, ChannelsTypeOK,
      DispatcherTypeOK, ModuleTypeOK, LocalTypeOK, CallerTypeOK, OwnInv, Callers
<1>. QED  BY <1>2, <1>3, <1>4, <1>5, <1>6 DEF Next

LEMMA SafeInit ==
    ASSUME Init
    PROVE  TypeOK /\ OwnInv
<1>1. ChannelsTypeOK /\ DispatcherTypeOK
  BY DEF Init, ChannelsInit, DispatcherInit, ChannelsTypeOK, DispatcherTypeOK
<1>2. ModuleTypeOK
  BY ModuleAssumption DEF Init, ModuleInit, ModuleTypeOK, ModuleAssumption
<1>3. LocalTypeOK
  BY DEF Init, LocalInit, LocalTypeOK, ChannelsInit
<1>4. CallerTypeOK
  BY DEF Init, CallerInit, CallerTypeOK
<1>5. OwnInv
  <2>1. Callers \subseteq Mods
    BY <1>1, <1>2, <1>3, <1>4, CallerFacts DEF TypeOK
  <2>. QED  BY <2>1 DEF Init, ModuleInit, OwnInv
<1>. QED  BY <1>1, <1>2, <1>3, <1>4, <1>5 DEF TypeOK

LEMMA SafeCorrect == Spec => [](TypeOK /\ OwnInv)
<1>1. Init => TypeOK /\ OwnInv
  BY SafeInit
<1>2. TypeOK /\ OwnInv /\ [Next]_vars => (TypeOK /\ OwnInv)'
  BY SafeStep
<1>. QED  BY <1>1, <1>2, PTL DEF Spec

\* In a node whose modules call each other every variable keeps its type, also
\* when a module panics while its client waits for a reply.
THEOREM CallingTypeCorrect == Spec => []TypeOK
BY SafeCorrect, PTL

-----------------------------------------------------------------------------
(* Whom a client calls                                                      *)

\* h made another call of the module of that name.
Called(h, mod) ==
    /\ \A i \in 1 .. Len(calls'[h]) : calls'[h][i].mod = mod
    /\ calls'[h] # <<>> /\ calls'[h][1].mod = mod
    /\ calls[h] # <<>> => calls'[h][1] = calls[h][1]
    /\ Len(calls'[h]) = Len(calls[h]) + 1
    /\ \A g \in Handlers : g # h => calls'[g] = calls[g]

\* The calls of a client grow at the end, and keep to one module.
LEMMA CallsGrow ==
    ASSUME TypeOK, NEW h \in Handlers, NEW kind \in RequestKinds, NEW mod \in Names,
           NEW val \in Vals \cup {NoVal}, Transact(h, kind, mod, val), CallsOnly(h, mod)
    PROVE  Called(h, mod)
<1>. DEFINE r == CallOf(h, kind, mod, val)
<1>1. r \in Request /\ calls' = [calls EXCEPT ![h] = Append(@, r)] /\ r.mod = mod
  BY TransactType DEF CallOf
<1>. HIDE DEF r
<1>2. calls \in [Handlers -> Seq(Request)] /\ calls[h] \in Seq(Request)
  BY DEF TypeOK, LocalTypeOK
<1>3. /\ Len(calls[h]) \in Nat /\ Len(calls'[h]) = Len(calls[h]) + 1
      /\ \A i \in 1 .. Len(calls[h]) : calls'[h][i] = calls[h][i]
      /\ calls'[h][Len(calls[h]) + 1] = r
  BY <1>1, <1>2, AppendProperties, LenProperties
<1>4. \A i \in 1 .. Len(calls'[h]) : calls'[h][i].mod = mod
  BY <1>1, <1>3 DEF CallsOnly
<1>5. calls'[h] # <<>>
  BY <1>3
<1>6. calls[h] # <<>> => calls'[h][1] = calls[h][1]
  <2>1. calls[h] # <<>> => Len(calls[h]) # 0
    BY <1>2, EmptySeq
  <2>. QED  BY <1>3, <2>1
<1>7. /\ calls'[h][1].mod = mod
      /\ \A g \in Handlers : g # h => calls'[g] = calls[g]
  BY <1>1, <1>2, <1>3, <1>4
<1>. QED  BY <1>3, <1>4, <1>5, <1>6, <1>7 DEF Called

\* What a step of caller m does to the local clients: m's own makes a call or
\* returns from one, or a new one makes its first call.
LEMMA CallerShape ==
    ASSUME TypeOK, OwnInv, NEW m \in Callers, CallerStep(m)
    PROVE  \/ UNCHANGED <<calls, results, taken, lstate>> /\ client'[m] \in {client[m], Nobody}
           \/ /\ CallPeer(m, client[m]) /\ client[m] \in Handlers
              /\ UNCHANGED <<results, taken, lstate, client>>
           \/ \E h \in Handlers :
                /\ CallPeer(m, h) /\ client' = [client EXCEPT ![m] = h]
                /\ lstate[h] = "none" /\ lstate' = [lstate EXCEPT ![h] = "live"]
                /\ UNCHANGED <<results, taken>>
           \/ /\ Receive(client[m]) \/ TimeOut(client[m])
              /\ client[m] \in Handlers /\ client'[m] \in {client[m], Nobody}
              /\ UNCHANGED <<calls, lstate, outbox>>
<1>1. /\ m \in Mods /\ Pool \subseteq Handlers
      /\ \A n \in Mods : client[n] # Nobody => client[n] \in Handlers
      /\ client \in [Mods -> Pool \cup {Nobody}]
  BY CallerFacts DEF TypeOK, CallerTypeOK
<1>2. CASE Create(m)
  <2>1. CASE UNCHANGED <<client, lstate, calls, connections, requests>>
    BY <1>2, <2>1 DEF Create
  <2>2. ASSUME NEW h \in Pool, NewClient(h), CallPeer(m, h),
               client' = [client EXCEPT ![m] = h]
        PROVE  \E g \in Handlers :
                /\ CallPeer(m, g) /\ client' = [client EXCEPT ![m] = g]
                /\ lstate[g] = "none" /\ lstate' = [lstate EXCEPT ![g] = "live"]
    BY <1>1, <2>2 DEF NewClient
  <2>3. UNCHANGED <<results, taken>>
    BY <1>2 DEF Create
  <2>. QED  BY <1>2, <2>1, <2>2, <2>3 DEF Create
<1>3. CASE ServeRead(m) \/ PollPeer(m)
  <2>1. Ready(m) /\ CallPeer(m, client[m]) /\ UNCHANGED <<results, taken, lstate, client>>
    BY <1>3 DEF ServeRead, PollPeer
  <2>2. client[m] \in Handlers
    BY <1>1, <2>1 DEF Ready, OwnInv
  <2>. QED  BY <2>1, <2>2
<1>4. CASE ServeOther(m)
  BY <1>4 DEF ServeOther, localVars, callerVars
<1>5. CASE CallReturns(m)
  <2>1. /\ client[m] \in Handlers /\ outbox' = outbox
        /\ Receive(client[m]) \/ TimeOut(client[m])
    BY <1>1, <1>5 DEF CallReturns, Blocked
  <2>2. UNCHANGED <<calls, lstate>>
    BY <2>1 DEF Receive, TimeOut, Return
  <2>3. (\E v \in Representable : ValueRead(m, v)) \/ ValueFails(m)
    BY <1>5 DEF CallReturns
  <2>4. CASE ValueFails(m)
    BY <1>1, <2>1, <2>2, <2>4 DEF ValueFails
  <2>5. ASSUME NEW v \in Representable, ValueRead(m, v)
        PROVE  client' = client
    BY <2>5 DEF ValueRead
  <2>. QED  BY <2>1, <2>2, <2>3, <2>4, <2>5
<1>6. CASE Restart(m)
  BY <1>6 DEF Restart, localVars, callerVars
<1>. QED  BY <1>2, <1>3, <1>4, <1>5, <1>6 DEF CallerStep, CallerNext

\* The same of a user.
LEMMA UserShape ==
    ASSUME TypeOK, NEW h \in DOMAIN Users, UserStep(h)
    PROVE  \/ /\ UNCHANGED <<calls, results, taken>>
              /\ lstate' = [lstate EXCEPT ![h] = "live"] \/ lstate' = [lstate EXCEPT ![h] = "dropped"]
           \/ /\ \E kind \in ModuleRequests \cup {"ping"}, val \in Vals \cup {NoVal} :
                   Transact(h, kind, Users[h], val)
              /\ lstate[h] = "live" /\ UNCHANGED <<results, taken, lstate>>
           \/ /\ Receive(h) \/ TimeOut(h)
              /\ UNCHANGED <<calls, lstate, outbox>>
<1>1. CASE UserNew(h)
  BY <1>1 DEF UserNew, NewClient
<1>2. CASE UserCalls(h)
  <2>1. \A c \in Calls : c.kind \in ModuleRequests \cup {"ping"} /\ c.val \in Vals \cup {NoVal}
    BY CallingAssumption DEF CallingAssumption
  <2>. QED  BY <1>2, <2>1 DEF UserCalls
<1>3. CASE UserReturns(h)
  BY <1>3 DEF UserReturns, Receive, TimeOut, Return, chanVars
<1>4. CASE UserDrops(h)
  BY <1>4 DEF UserDrops, DropClient
<1>. QED  BY <1>1, <1>2, <1>3, <1>4 DEF UserStep, UserNext

LEMMA NameAtCaller ==
    ASSUME TypeOK, OwnInv, NameInv, NEW m \in Callers, CallerStep(m)
    PROVE  NameInv'
<1>1. /\ m \in Mods /\ Callers' = Callers /\ iomod' = iomod /\ iomod[m] \in Names
      /\ \A n \in Mods : n # m => client'[n] = client[n]
      /\ \A n \in Mods : client[n] # Nobody => client[n] \in Pool /\ client[n] \in Handlers
      /\ DOMAIN Users \subseteq Handlers \ Pool /\ Nobody \notin Handlers
      /\ client \in [Mods -> Pool \cup {Nobody}]
      /\ lstate \in [Handlers -> {"none", "live", "dropped"}]
      /\ "do" \in RequestKinds /\ DefaultVal \in Vals \cup {NoVal}
  BY CallerOthers, CallerFacts, ChannelsAssumption
  DEF Callers, ChannelsAssumption, TypeOK, LocalTypeOK, CallerTypeOK
<1>2. ASSUME calls' = calls, lstate' = lstate, client'[m] \in {client[m], Nobody}
      PROVE  NameInv'
  <2>1. \A g \in Handlers : \A name :
          CallsOnly(g, name) => \A i \in 1 .. Len(calls'[g]) : calls'[g][i].mod = name
    BY <1>2 DEF CallsOnly
  <2>2. \A n \in Mods : client'[n] # Nobody => client'[n] = client[n]
    BY <1>1, <1>2
  <2>. QED  BY <1>1, <1>2, <2>1, <2>2 DEF NameInv, CallsOnly, NameOf
<1>3. ASSUME NEW h \in Handlers, CallPeer(m, h), CallsOnly(h, iomod[m])
      PROVE  /\ \A i \in 1 .. Len(calls'[h]) : calls'[h][i].mod = iomod[m]
             /\ calls'[h] # <<>> /\ calls'[h][1].mod = iomod[m]
             /\ \A g \in Handlers : g # h => calls'[g] = calls[g]
  <2>1. Called(h, iomod[m])
    BY <1>1, <1>3, CallsGrow DEF CallPeer
  <2>. QED  BY <2>1 DEF Called
<1>4. CASE CallPeer(m, client[m]) /\ client[m] \in Handlers /\ UNCHANGED <<lstate, client>>
  <2>. DEFINE h == client[m]
  <2>1. h \in Handlers /\ h \in Pool /\ CallsOnly(h, iomod[m]) /\ lstate[h] # "none"
    BY <1>1, <1>4 DEF NameInv
  <2>2. \A n \in Mods : client[n] = h => n = m
    BY <1>1, <1>4 DEF NameInv
  <2>. HIDE DEF h
  <2>3. CallPeer(m, h)
    BY <1>4 DEF h
  <2>4. \A g \in Handlers : /\ \A i \in 1 .. Len(calls'[g]) : calls'[g][i].mod = calls'[g][1].mod
                            /\ lstate'[g] = "none" => calls'[g] = <<>>
    BY <1>3, <1>4, <2>1, <2>3 DEF NameInv, CallsOnly, NameOf
  <2>5. ASSUME NEW g \in DOMAIN Users
        PROVE  \A i \in 1 .. Len(calls'[g]) : calls'[g][i].mod = Users[g]
    <3>1. g \in Handlers /\ g # h
      BY <1>1, <2>1
    <3>2. calls'[g] = calls[g]
      BY <1>3, <2>1, <2>3, <3>1
    <3>. QED  BY <3>2 DEF NameInv, CallsOnly
  <2>6. \A n \in Mods : client[n] # Nobody =>
          \A i \in 1 .. Len(calls'[client[n]]) : calls'[client[n]][i].mod = iomod[n]
    <3>1. ASSUME NEW n \in Mods, client[n] # Nobody, n # m
          PROVE  \A i \in 1 .. Len(calls'[client[n]]) : calls'[client[n]][i].mod = iomod[n]
      BY <1>1, <1>3, <2>1, <2>2, <2>3, <3>1 DEF NameInv, CallsOnly
    <3>2. \A i \in 1 .. Len(calls'[client[m]]) : calls'[client[m]][i].mod = iomod[m]
      BY <1>3, <2>1, <2>3 DEF h
    <3>. QED  BY <3>1, <3>2
  <2>. QED  BY <1>1, <1>4, <2>4, <2>5, <2>6 DEF NameInv, CallsOnly, NameOf
<1>5. ASSUME NEW h \in Handlers, CallPeer(m, h), client' = [client EXCEPT ![m] = h],
             lstate[h] = "none", lstate' = [lstate EXCEPT ![h] = "live"], h \in Pool
      PROVE  NameInv'
  <2>1. calls[h] = <<>> /\ CallsOnly(h, iomod[m])
    BY <1>5 DEF NameInv, CallsOnly
  <2>2. \A n \in Mods : client[n] # h
    BY <1>1, <1>5 DEF NameInv
  <2>3. \A g \in Handlers : /\ \A i \in 1 .. Len(calls'[g]) : calls'[g][i].mod = calls'[g][1].mod
                            /\ lstate'[g] = "none" => calls'[g] = <<>>
    BY <1>1, <1>3, <1>5, <2>1 DEF NameInv, CallsOnly, NameOf
  <2>4. \A g \in DOMAIN Users : \A i \in 1 .. Len(calls'[g]) : calls'[g][i].mod = Users[g]
    BY <1>1, <1>3, <1>5, <2>1 DEF NameInv, CallsOnly
  <2>5. \A n \in Mods : client'[n] = IF n = m THEN h ELSE client[n]
    BY <1>1, <1>5
  <2>6. ASSUME NEW n \in Mods, client'[n] # Nobody
        PROVE  /\ n \in Callers /\ lstate'[client'[n]] # "none"
               /\ \A i \in 1 .. Len(calls'[client'[n]]) : calls'[client'[n]][i].mod = iomod[n]
               /\ \A k \in Mods : client'[k] = client'[n] => k = n
    <3>1. CASE n = m
      BY <1>1, <1>3, <1>5, <2>1, <2>2, <2>5, <3>1
    <3>2. CASE n # m
      BY <1>1, <1>3, <1>5, <2>1, <2>2, <2>5, <2>6, <3>2 DEF NameInv, CallsOnly
    <3>. QED  BY <3>1, <3>2
  <2>. QED  BY <1>1, <2>3, <2>4, <2>6 DEF NameInv, CallsOnly, NameOf
<1>6. \A h \in Handlers : client' = [client EXCEPT ![m] = h] => h \in Pool
  BY <1>1, CallerType, ChannelsAssumption DEF ChannelsAssumption, TypeOK, CallerTypeOK
<1>. QED  BY <1>1, <1>2, <1>4, <1>5, <1>6, CallerShape

LEMMA NameAtUser ==
    ASSUME TypeOK, NameInv, NEW h \in DOMAIN Users, UserStep(h)
    PROVE  NameInv'
<1>1. /\ Callers' = Callers /\ iomod' = iomod /\ client' = client
      /\ h \in Handlers /\ h \notin Pool
      /\ \A n \in Mods : client[n] # Nobody => client[n] \in Pool /\ client[n] \in Handlers
      /\ DOMAIN Users \subseteq Handlers \ Pool
      /\ lstate \in [Handlers -> {"none", "live", "dropped"}]
      /\ Users[h] \in Names
  BY CallerFacts, CallingAssumption
  DEF UserStep, callerVars, Callers, TypeOK, LocalTypeOK, CallingAssumption
<1>2. ASSUME calls' = calls, \A g \in Handlers : lstate'[g] = "none" => lstate[g] = "none"
      PROVE  NameInv'
  <2>1. \A g \in Handlers : \A name :
          CallsOnly(g, name) => \A i \in 1 .. Len(calls'[g]) : calls'[g][i].mod = name
    BY <1>2 DEF CallsOnly
  <2>. QED  BY <1>1, <1>2, <2>1 DEF NameInv, CallsOnly, NameOf
<1>3. ASSUME NEW kind \in ModuleRequests \cup {"ping"}, NEW val \in Vals \cup {NoVal},
             Transact(h, kind, Users[h], val), lstate[h] = "live", lstate' = lstate
      PROVE  NameInv'
  <2>1. kind \in RequestKinds /\ CallsOnly(h, Users[h])
    BY DEF RequestKinds, NameInv
  <2>2. /\ \A i \in 1 .. Len(calls'[h]) : calls'[h][i].mod = Users[h]
        /\ calls'[h] # <<>> /\ calls'[h][1].mod = Users[h]
        /\ \A g \in Handlers : g # h => calls'[g] = calls[g]
    <3>1. Called(h, Users[h])
      BY <1>1, <1>3, <2>1, CallsGrow
    <3>. QED  BY <3>1 DEF Called
  <2>3. \A g \in Handlers : /\ \A i \in 1 .. Len(calls'[g]) : calls'[g][i].mod = calls'[g][1].mod
                            /\ lstate'[g] = "none" => calls'[g] = <<>>
    BY <1>3, <2>2 DEF NameInv, CallsOnly, NameOf
  <2>4. \A g \in DOMAIN Users : \A i \in 1 .. Len(calls'[g]) : calls'[g][i].mod = Users[g]
    BY <1>1, <2>2 DEF NameInv, CallsOnly
  <2>5. \A n \in Mods : client[n] # Nobody => calls'[client[n]] = calls[client[n]]
    BY <1>1, <2>2
  <2>. QED  BY <1>1, <1>3, <2>3, <2>4, <2>5 DEF NameInv, CallsOnly, NameOf
<1>. QED  BY <1>1, <1>2, <1>3, UserShape

LEMMA NameStep ==
    ASSUME TypeOK, OwnInv, NameInv, [Next]_vars
    PROVE  NameInv'
<1>1. ASSUME UNCHANGED <<localVars, callerVars>>
      PROVE  NameInv'
  BY <1>1 DEF localVars, callerVars, NameInv, CallsOnly, NameOf, Callers
<1>2. CASE DispatcherStep
  BY <1>1, <1>2 DEF DispatcherStep
<1>3. ASSUME NEW m \in Mods \ Callers, ModuleStep(m)
      PROVE  NameInv'
  BY <1>1, <1>3 DEF ModuleStep
<1>4. CASE UNCHANGED vars
  BY <1>1, <1>4 DEF vars
<1>. QED  BY <1>2, <1>3, <1>4, NameAtCaller, NameAtUser DEF Next

LEMMA NameInit ==
    ASSUME Init
    PROVE  NameInv
<1>1. /\ \A h \in Handlers : calls[h] = <<>>
      /\ \A m \in Mods : client[m] = Nobody
      /\ DOMAIN Users \subseteq Handlers
  BY CallingAssumption DEF Init, LocalInit, CallerInit, CallingAssumption
<1>. QED  BY <1>1 DEF NameInv, CallsOnly

-----------------------------------------------------------------------------
(* The request a caller serves while its thread is blocked                  *)

\* A call changes the calls of one client, a return its results.
LEMMA OneClient ==
    ASSUME TypeOK, NEW h \in Handlers
    PROVE  /\ \A kind, mod, val : Transact(h, kind, mod, val) =>
                \A g \in Handlers : g # h => calls'[g] = calls[g]
           /\ Receive(h) \/ TimeOut(h) =>
                \A g \in Handlers : g # h => results'[g] = results[g]
<1>1. calls \in [Handlers -> Seq(Request)] /\ results \in [Handlers -> Seq([got : Nat, ok : BOOLEAN])]
  BY DEF TypeOK, LocalTypeOK
<1>2. ASSUME NEW kind, NEW mod, NEW val, Transact(h, kind, mod, val)
      PROVE  \A g \in Handlers : g # h => calls'[g] = calls[g]
  BY <1>1, <1>2 DEF Transact
<1>3. ASSUME Receive(h) \/ TimeOut(h)
      PROVE  \A g \in Handlers : g # h => results'[g] = results[g]
  BY <1>1, <1>3 DEF Receive, TimeOut, Return
<1>. QED  BY <1>2, <1>3

\* A step of caller m leaves the clients of others alone.
LEMMA CallerClients ==
    ASSUME TypeOK, OwnInv, NEW m \in Callers, CallerStep(m),
           NEW g \in Handlers, g # client[m], lstate[g] # "none"
    PROVE  calls'[g] = calls[g] /\ results'[g] = results[g]
<1>1. ASSUME NEW h \in Handlers, CallPeer(m, h), h # g, results' = results
      PROVE  calls'[g] = calls[g] /\ results'[g] = results[g]
  BY <1>1, OneClient DEF CallPeer
<1>2. CASE UNCHANGED <<calls, results, taken, lstate>>
  BY <1>2
<1>3. CASE CallPeer(m, client[m]) /\ client[m] \in Handlers /\ results' = results
  BY <1>1, <1>3
<1>4. ASSUME NEW h \in Handlers, CallPeer(m, h), lstate[h] = "none", results' = results
      PROVE  calls'[g] = calls[g] /\ results'[g] = results[g]
  BY <1>1, <1>4
<1>5. CASE /\ Receive(client[m]) \/ TimeOut(client[m])
           /\ client[m] \in Handlers /\ calls' = calls
  BY <1>5, OneClient
<1>. QED  BY <1>2, <1>3, <1>4, <1>5, CallerShape

LEMMA UserClients ==
    ASSUME TypeOK, NEW h \in DOMAIN Users, UserStep(h), NEW g \in Handlers, g # h
    PROVE  calls'[g] = calls[g] /\ results'[g] = results[g]
<1>1. h \in Handlers
  BY CallingAssumption DEF CallingAssumption
<1>2. ASSUME NEW kind, NEW val, Transact(h, kind, Users[h], val), results' = results
      PROVE  calls'[g] = calls[g] /\ results'[g] = results[g]
  BY <1>1, <1>2, OneClient
<1>3. CASE (Receive(h) \/ TimeOut(h)) /\ calls' = calls
  BY <1>1, <1>3, OneClient
<1>. QED  BY <1>2, <1>3, UserShape

LEMMA ServingStep ==
    ASSUME TypeOK, OwnInv, NameInv, ServingInv, [Next]_vars
    PROVE  ServingInv'
<1>1. /\ \A n \in Mods : client[n] # Nobody =>
           client[n] \in Pool /\ client[n] \in Handlers /\ lstate[client[n]] # "none"
      /\ Callers \subseteq Mods /\ DOMAIN Users \subseteq Handlers \ Pool
      /\ serving \in [Mods -> Seq(Request)]
      /\ mstate \in [Mods -> {"starting", "running", "panicked", "waiting"}]
  BY CallerFacts DEF NameInv, TypeOK, CallerTypeOK, ModuleTypeOK
<1>2. ASSUME NEW n \in Mods, Callers' = Callers,
             serving'[n] = serving[n], mstate'[n] = mstate[n], client'[n] = client[n],
             client[n] # Nobody =>
               calls'[client[n]] = calls[client[n]] /\ results'[client[n]] = results[client[n]]
      PROVE  serving'[n] # <<>> =>
               /\ n \in Callers' /\ mstate'[n] = "running"
               /\ client'[n] # Nobody /\ Len(results'[client'[n]]) < Len(calls'[client'[n]])
  BY <1>2 DEF ServingInv, Blocked, Calling
<1>3. ASSUME \A n \in Mods : serving'[n] # <<>> =>
               /\ n \in Callers' /\ mstate'[n] = "running"
               /\ client'[n] # Nobody /\ Len(results'[client'[n]]) < Len(calls'[client'[n]])
      PROVE  ServingInv'
  BY <1>3 DEF ServingInv, Blocked, Calling, Callers
<1>4. ASSUME UNCHANGED <<modVars, localVars, callerVars>>
      PROVE  ServingInv'
  BY <1>4 DEF modVars, localVars, callerVars, ServingInv, Blocked, Calling, Callers
<1>5. CASE DispatcherStep
  BY <1>4, <1>5 DEF DispatcherStep
<1>6. CASE UNCHANGED vars
  BY <1>4, <1>6 DEF vars
<1>7. ASSUME NEW m \in Mods \ Callers, ModuleStep(m)
      PROVE  ServingInv'
  <2>1. UNCHANGED <<localVars, callerVars>> /\ ModuleNext(m) /\ NodeTypes
    BY <1>7, NodeTyped DEF ModuleStep
  <2>2. \A n \in Mods : n # m => mstate'[n] = mstate[n]
    BY <2>1, OthersStay
  <2>3. serving[m] = <<>>
    BY <1>7 DEF ServingInv
  <2>. QED
    BY <2>1, <2>2, <2>3 DEF localVars, callerVars, ServingInv, Blocked, Calling, Callers
<1>8. ASSUME NEW m \in Callers, CallerStep(m)
      PROVE  ServingInv'
  <2>1. /\ m \in Mods /\ Callers' = Callers
        /\ \A n \in Mods : n # m => /\ mstate'[n] = mstate[n] /\ client'[n] = client[n]
                                    /\ serving'[n] = serving[n]
    BY <1>1, <1>8, CallerOthers DEF Callers
  <2>2. ASSUME NEW n \in Mods, n # m, client[n] # Nobody
        PROVE  calls'[client[n]] = calls[client[n]] /\ results'[client[n]] = results[client[n]]
    <3>1. client[n] # client[m]
      BY <2>1, <2>2 DEF NameInv
    <3>2. client[n] \in Handlers /\ lstate[client[n]] # "none"
      BY <1>1, <2>2
    <3>. QED  BY <1>8, <3>1, <3>2, CallerClients
  <2>3. serving'[m] # <<>> =>
          /\ mstate'[m] = "running"
          /\ client'[m] # Nobody /\ Len(results'[client'[m]]) < Len(calls'[client'[m]])
    <3>1. CASE Create(m) \/ Restart(m)
      <4>1. mstate[m] # "running" /\ serving'[m] = serving[m]
        BY <3>1 DEF Create, Restart, Drain, Wake, callerVars
      <4>. QED  BY <2>1, <4>1 DEF ServingInv
    <3>2. CASE ServeRead(m)
      <4>1. /\ Ready(m) /\ CallPeer(m, client[m])
            /\ UNCHANGED <<results, client, mstate>>
        BY <3>2 DEF ServeRead, modVars
      <4>2. client[m] # Nobody /\ client[m] \in Handlers /\ mstate[m] = "running"
        BY <1>1, <2>1, <4>1 DEF Ready, OwnInv
      <4>3. /\ Len(calls[client[m]]) \in Nat
            /\ Len(calls'[client[m]]) = Len(calls[client[m]]) + 1
            /\ Len(results[client[m]]) = Len(calls[client[m]])
        BY <4>1, <4>2, CallerFacts, TransactType DEF CallPeer
      <4>. QED  BY <4>1, <4>2, <4>3
    <3>3. CASE ServeOther(m) \/ PollPeer(m)
      <4>1. Ready(m) /\ serving'[m] = serving[m]
        BY <3>3 DEF ServeOther, PollPeer, callerVars
      <4>. QED  BY <2>1, <4>1 DEF ServingInv, Ready
    <3>4. CASE CallReturns(m)
      <4>1. (\E v \in Representable : ValueRead(m, v)) \/ ValueFails(m)
        BY <3>4 DEF CallReturns
      <4>2. serving' = [serving EXCEPT ![m] = <<>>]
        BY <4>1 DEF ValueRead, ValueFails
      <4>. QED  BY <1>1, <2>1, <4>2
    <3>. QED  BY <1>8, <3>1, <3>2, <3>3, <3>4 DEF CallerStep, CallerNext
  <2>4. ASSUME NEW n \in Mods
        PROVE  serving'[n] # <<>> =>
                 /\ n \in Callers' /\ mstate'[n] = "running"
                 /\ client'[n] # Nobody /\ Len(results'[client'[n]]) < Len(calls'[client'[n]])
    <3>1. CASE n = m
      BY <1>8, <2>1, <2>3, <3>1
    <3>2. CASE n # m
      BY <1>2, <2>1, <2>2, <3>2
    <3>. QED  BY <3>1, <3>2
  <2>. QED  BY <1>3, <2>4
<1>9. ASSUME NEW h \in DOMAIN Users, UserStep(h)
      PROVE  ServingInv'
  <2>1. UNCHANGED <<modVars, callerVars>> /\ Callers' = Callers
    BY <1>9 DEF UserStep, callerVars, Callers
  <2>2. ASSUME NEW n \in Mods, client[n] # Nobody
        PROVE  calls'[client[n]] = calls[client[n]] /\ results'[client[n]] = results[client[n]]
    BY <1>1, <1>9, <2>2, UserClients
  <2>. QED  BY <1>2, <1>3, <2>1, <2>2 DEF modVars, callerVars
<1>. QED  BY <1>5, <1>6, <1>7, <1>8, <1>9 DEF Next

LEMMA ServingInit ==
    ASSUME Init
    PROVE  ServingInv
BY DEF Init, CallerInit, ServingInv

-----------------------------------------------------------------------------
(* The shapes of the steps                                                  *)

\* What module m may reply to request r.
RepliesTo(m, r) ==
    {e \in ModReply : /\ e.to = r.hid /\ e.id = r.id /\ e.from = m
                      /\ e.kind = "initupdates" => r.kind = "activate"}

OthersPend(m) == \A n \in Mods : n # m => Pending(n)' = Pending(n)

\* Module m answers none of its requests, and may lose the first or all of them.
WorksSilently(m) ==
    /\ \E es \in Seq(Emissions(m)) : replies' = replies \o es
    /\ OthersPend(m)
    /\ \/ Pending(m)' = Pending(m)
       \/ Pending(m) # <<>> /\ Pending(m)' = Tail(Pending(m))
       \/ Pending(m)' = <<>>

\* Module m answers the first of its requests, after events.
WorksOff(m) ==
    /\ Pending(m) # <<>> /\ Pending(m)' = Tail(Pending(m))
    /\ OthersPend(m)
    /\ \E es \in Seq(Emissions(m)), e \in RepliesTo(m, Head(Pending(m))) :
         replies' = replies \o (es \o <<e>>)

\* Client h makes a call.
Asks(h) ==
    /\ \E kind \in ModuleRequests \cup {"ping"}, mod \in Names, val \in Vals \cup {NoVal} :
         Transact(h, kind, mod, val) /\ CallsOnly(h, mod)
    /\ \A n \in Mods : Pending(n)' = Pending(n)
    /\ UNCHANGED <<replies, outbox, active, results, taken>>

\* No call is made; a client may quit.
AtMostQuits ==
    /\ UNCHANGED <<calls, outbox, active>>
    /\ requests' = requests \/ \E h \in Handlers : requests' = Append(requests, QuitOf(h))

LEMMA PendingFacts ==
    ASSUME TypeOK, NEW m \in Mods
    PROVE  /\ serving[m] \in Seq(Request) /\ modq[m] \in Seq(Request)
           /\ Pending(m) \in Seq(Request)
           /\ serving[m] = <<>> => Pending(m) = modq[m]
           /\ \A r \in Request : serving[m] = <<r>> =>
                Pending(m) # <<>> /\ Head(Pending(m)) = r /\ Tail(Pending(m)) = modq[m]
<1>1. serving[m] \in Seq(Request) /\ modq[m] \in Seq(Request)
  BY DEF TypeOK, CallerTypeOK, ChannelsTypeOK
<1>2. \A r \in Request : /\ <<r>> \o modq[m] # <<>>
                         /\ Head(<<r>> \o modq[m]) = r /\ Tail(<<r>> \o modq[m]) = modq[m]
  BY <1>1, FirstOfConcat
<1>3. <<>> \o modq[m] = modq[m] /\ serving[m] \o modq[m] \in Seq(Request)
  BY <1>1, ConcatEmptySeq, ConcatProperties
<1>. QED  BY <1>1, <1>2, <1>3 DEF Pending

LEMMA PendingPrimed ==
    ASSUME TypeOK', NEW m \in Mods
    PROVE  /\ serving'[m] = <<>> => Pending(m)' = modq'[m]
           /\ Pending(m)' = serving'[m] \o modq'[m]
<1>1. modq'[m] \in Seq(Request)
  BY DEF TypeOK, ChannelsTypeOK
<1>2. <<>> \o modq'[m] = modq'[m]
  BY <1>1, ConcatEmptySeq
<1>. QED  BY <1>2 DEF Pending

\* A module that serves nothing works as every module does.
LEMMA WorkShape ==
    ASSUME TypeOK, TypeOK', NEW m \in Mods, serving[m] = <<>>, serving' = serving,
           Emits(m) \/ AnswersFirst(m)
    PROVE  (WorksSilently(m) \/ WorksOff(m)) /\ UNCHANGED <<requests, outbox>>
<1>1. /\ Pending(m) = modq[m] /\ Pending(m)' = modq'[m]
      /\ modq \in [Mods -> Seq(Request)]
  BY PendingFacts, PendingPrimed DEF TypeOK, ChannelsTypeOK
<1>2. TakesNothing(m) \/ TakesFirst(m) \/ TakesAll(m)
  BY DEF Emits, AnswersFirst
<1>3. OthersPend(m)
  <2>1. \A n \in Mods : n # m => modq'[n] = modq[n]
    BY <1>1, <1>2 DEF TakesNothing, TakesFirst, TakesAll
  <2>. QED  BY <2>1 DEF OthersPend, Pending
<1>4. CASE Emits(m)
  <2>1. \/ modq'[m] = modq[m]
        \/ modq[m] # <<>> /\ modq'[m] = Tail(modq[m])
        \/ modq'[m] = <<>>
    BY <1>1, <1>2 DEF TakesNothing, TakesFirst, TakesAll
  <2>. QED  BY <1>1, <1>3, <1>4, <2>1 DEF Emits, WorksSilently
<1>5. CASE AnswersFirst(m)
  <2>1. modq[m] # <<>> /\ modq'[m] = Tail(modq[m])
    BY <1>1, <1>5 DEF AnswersFirst, TakesFirst
  <2>2. AnswersOf(m, Head(modq[m])) \subseteq RepliesTo(m, Head(modq[m]))
    BY DEF AnswersOf, RepliesTo
  <2>. QED  BY <1>1, <1>3, <1>5, <2>1, <2>2 DEF AnswersFirst, WorksOff
<1>. QED  BY <1>4, <1>5 DEF Emits, AnswersFirst

\* The read of caller m ends.
LEMMA EndShape ==
    ASSUME TypeOK, TypeOK', ServingInv, NEW m \in Callers, CallerStep(m), CallReturns(m)
    PROVE  (WorksSilently(m) \/ WorksOff(m)) /\ AtMostQuits
<1>1. m \in Mods /\ client[m] \in Handlers
  BY CallerFacts DEF CallReturns, Blocked
<1>2. /\ serving' = [serving EXCEPT ![m] = <<>>] /\ modq' = modq
      /\ UNCHANGED <<outbox, calls, active>>
      /\ (\E v \in Representable : ValueRead(m, v)) \/ ValueFails(m)
  BY <1>1
  DEF CallReturns, ValueRead, ValueFails, CallerStep, dispVars, Receive, TimeOut, Return
<1>3. /\ serving \in [Mods -> Seq(Request)] /\ replies \in Seq(ModReply)
      /\ modq[m] \in Seq(Request)
  BY <1>1 DEF TypeOK, CallerTypeOK, ChannelsTypeOK
<1>4. OthersPend(m) /\ Pending(m)' = modq'[m]
  BY <1>1, <1>2, <1>3, PendingPrimed DEF OthersPend, Pending
<1>5. ASSUME NEW es \in Seq(Emissions(m)), Send(es), serving[m] = <<>>
      PROVE  WorksSilently(m)
  <2>1. Pending(m)' = Pending(m)
    BY <1>1, <1>2, <1>4, <1>5, PendingFacts
  <2>. QED  BY <1>4, <1>5, <2>1 DEF WorksSilently, Send
<1>6. ASSUME NEW es \in Seq(Emissions(m)), NEW r \in Request, serving[m] = <<r>>,
             NEW e \in RepliesTo(m, r), Send(es \o <<e>>)
      PROVE  WorksOff(m)
  <2>1. /\ Pending(m) # <<>> /\ Head(Pending(m)) = r
        /\ Pending(m)' = Tail(Pending(m))
    BY <1>1, <1>2, <1>4, <1>6, PendingFacts
  <2>. QED  BY <1>4, <1>6, <2>1 DEF WorksOff, Send
<1>7. ASSUME NEW r \in Request, NEW v \in Vals
      PROVE  Report(m, r, "update", v) \in RepliesTo(m, r) /\ Refusal(m, r) \in RepliesTo(m, r)
  <2>1. Reply(m, r, "update", v) \in ModReply /\ Refusal(m, r) \in ModReply
    BY <1>1, MessagesType
  <2>. QED  BY <2>1 DEF Report, Refusal, Reply, RepliesTo
<1>8. mstate[m] = "starting" => serving[m] = <<>>
  BY <1>1 DEF ServingInv
<1>9. /\ \A old : \A v \in Vals : Announce(m, old, v) \in Seq(Emissions(m))
      /\ Description(m) \in Seq(Emissions(m)) /\ <<>> \in Seq(Emissions(m))
  BY <1>1, EmissionsShape
<1>10. ASSUME NEW v \in Representable, ValueRead(m, v)
       PROVE  (WorksSilently(m) \/ WorksOff(m)) /\ AtMostQuits
  <2>1. v \in Vals /\ requests' = requests
    BY <1>10, ModuleAssumption DEF ModuleAssumption, ValueRead
  <2>2. AtMostQuits
    BY <1>2, <2>1 DEF AtMostQuits
  <2>3. CASE mstate[m] = "starting" /\ Send(Announce(m, DefaultVal, v) \o Description(m))
    <3>1. Announce(m, DefaultVal, v) \o Description(m) \in Seq(Emissions(m))
      BY <1>9, <2>1, ConcatProperties
    <3>. QED  BY <1>5, <1>8, <2>2, <2>3, <3>1
  <2>4. CASE Send(Announce(m, cache[m], v)
                   \o [k \in DOMAIN serving[m] |-> Report(m, serving[m][k], "update", v)])
    <3>. DEFINE es == Announce(m, cache[m], v)
                rs == [k \in DOMAIN serving[m] |-> Report(m, serving[m][k], "update", v)]
    <3>1. es \in Seq(Emissions(m))
      BY <1>9, <2>1
    <3>2. CASE serving[m] = <<>>
      <4>1. rs = <<>>
        BY <3>2
      <4>. HIDE DEF es, rs
      <4>2. es \o rs = es
        BY <3>1, <4>1, ConcatEmptySeq
      <4>3. Send(es)
        BY <2>4, <4>2 DEF es, rs
      <4>. QED  BY <1>5, <2>2, <3>1, <3>2, <4>3
    <3>3. ASSUME NEW r \in Request, serving[m] = <<r>>
          PROVE  WorksOff(m)
      <4>1. rs = <<Report(m, r, "update", v)>>
        BY <3>3
      <4>. HIDE DEF es, rs
      <4>2. Send(es \o rs)
        BY <2>4 DEF es, rs
      <4>3. Send(es \o <<Report(m, r, "update", v)>>)
        BY <4>1, <4>2
      <4>4. Report(m, r, "update", v) \in RepliesTo(m, r)
        BY <1>7, <2>1
      <4>. QED  BY <1>6, <3>1, <3>3, <4>3, <4>4
    <3>. QED  BY <1>1, <2>2, <3>2, <3>3, ServingShape
  <2>. QED  BY <1>10, <2>3, <2>4 DEF ValueRead
<1>11. CASE ValueFails(m)
  <2>1. CASE /\ mstate[m] = "starting" /\ requests' = Append(requests, QuitOf(client[m]))
             /\ replies' = replies
    <3>1. AtMostQuits
      BY <1>1, <1>2, <2>1 DEF AtMostQuits
    <3>2. Send(<<>>)
      BY <1>3, <2>1, ConcatEmptySeq DEF Send
    <3>. QED  BY <1>5, <1>8, <1>9, <2>1, <3>1, <3>2
  <2>2. CASE /\ Send([k \in DOMAIN serving[m] |-> Refusal(m, serving[m][k])])
             /\ requests' = requests
    <3>. DEFINE rs == [k \in DOMAIN serving[m] |-> Refusal(m, serving[m][k])]
    <3>1. AtMostQuits
      BY <1>2, <2>2 DEF AtMostQuits
    <3>2. CASE serving[m] = <<>>
      <4>1. rs = <<>>
        BY <3>2
      <4>. HIDE DEF rs
      <4>2. Send(rs)
        BY <2>2 DEF rs
      <4>3. Send(<<>>)
        BY <4>1, <4>2
      <4>. QED  BY <1>5, <1>9, <3>1, <3>2, <4>3
    <3>3. ASSUME NEW r \in Request, serving[m] = <<r>>
          PROVE  WorksOff(m)
      <4>. DEFINE t == <<Refusal(m, r)>>
      <4>1. rs = t
        BY <3>3
      <4>2. Refusal(m, r) \in RepliesTo(m, r) /\ Refusal(m, r) \in ModReply
        BY <1>7, ModuleAssumption DEF ModuleAssumption, RepliesTo
      <4>3. t \in Seq(ModReply)
        BY <4>2
      <4>. HIDE DEF rs, t
      <4>4. Send(rs)
        BY <2>2 DEF rs
      <4>5. <<>> \o t = t
        BY <4>3, ConcatEmptySeq
      <4>6. Send(<<>> \o t)
        BY <4>1, <4>4, <4>5
      <4>. QED  BY <1>6, <1>9, <3>3, <4>2, <4>6 DEF t
    <3>. QED  BY <1>1, <3>1, <3>2, <3>3, ServingShape
  <2>. QED  BY <1>11, <2>1, <2>2 DEF ValueFails
<1>. QED  BY <1>2, <1>10, <1>11

Rests == AtMostQuits /\ replies' = replies /\ \A n \in Mods : Pending(n)' = Pending(n)

LEMMA CallerStepShape ==
    ASSUME TypeOK, TypeOK', OwnInv, NameInv, ServingInv, NEW m \in Callers, CallerStep(m)
    PROVE  \/ (WorksSilently(m) \/ WorksOff(m)) /\ AtMostQuits
           \/ \E h \in Handlers : Asks(h)
           \/ Rests
<1>1. /\ m \in Mods /\ active' = active /\ iomod[m] \in Names /\ NodeTypes
      /\ DefaultVal \in Vals \cup {NoVal} /\ Pool \subseteq Handlers
      /\ modq \in [Mods -> Seq(Request)] /\ serving \in [Mods -> Seq(Request)]
  BY CallerFacts, NodeTyped DEF CallerStep, dispVars, TypeOK, ChannelsTypeOK, CallerTypeOK
<1>2. ASSUME UNCHANGED <<modq, serving>>
      PROVE  \A n \in Mods : Pending(n)' = Pending(n)
  BY <1>2 DEF Pending
<1>3. ASSUME NEW h \in Handlers, CallPeer(m, h), CallsOnly(h, iomod[m]),
             \A n \in Mods : Pending(n)' = Pending(n),
             UNCHANGED <<replies, outbox, results, taken>>
      PROVE  Asks(h)
  BY <1>1, <1>3 DEF Asks, CallPeer, ModuleRequests
<1>4. Ready(m) => /\ client[m] \in Handlers /\ CallsOnly(client[m], iomod[m])
                  /\ serving[m] = <<>>
  BY <1>1, CallerFacts DEF Ready, OwnInv, NameInv, ServingInv
<1>5. CASE Create(m)
  <2>1. UNCHANGED <<modq, replies, outbox, taken, results, serving>>
    BY <1>5 DEF Create
  <2>2. CASE UNCHANGED <<calls, requests>>
    BY <1>1, <1>2, <2>1, <2>2 DEF Rests, AtMostQuits
  <2>3. ASSUME NEW h \in Pool, NewClient(h), CallPeer(m, h)
        PROVE  Asks(h)
    <3>1. h \in Handlers /\ CallsOnly(h, iomod[m])
      BY <1>1, <2>3 DEF NewClient, NameInv, CallsOnly
    <3>. QED  BY <1>2, <1>3, <2>1, <2>3, <3>1
  <2>. QED  BY <1>1, <1>5, <2>2, <2>3 DEF Create
<1>6. CASE ServeRead(m)
  <2>1. /\ Ready(m) /\ modq[m] # <<>> /\ modq' = [modq EXCEPT ![m] = Tail(@)]
        /\ serving' = [serving EXCEPT ![m] = <<Head(modq[m])>>]
        /\ CallPeer(m, client[m])
        /\ UNCHANGED <<replies, outbox, taken, results>>
    BY <1>6 DEF ServeRead
  <2>2. Pending(m)' = <<Head(modq[m])>> \o Tail(modq[m])
    BY <1>1, <2>1, PendingPrimed
  <2>3. modq[m] \in Seq(Request) /\ <<Head(modq[m])>> \o Tail(modq[m]) = modq[m]
    BY <1>1, <2>1, FirstAndRest
  <2>4. Pending(m)' = Pending(m)
    BY <1>1, <1>4, <2>1, <2>2, <2>3, PendingFacts
  <2>5. ASSUME NEW n \in Mods, n # m
        PROVE  Pending(n)' = Pending(n)
    BY <1>1, <2>1, <2>5 DEF Pending
  <2>. QED  BY <1>3, <1>4, <2>1, <2>4, <2>5
<1>7. CASE ServeOther(m)
  <2>1. Ready(m) /\ UNCHANGED <<localVars, callerVars>>
    BY <1>7 DEF ServeOther
  <2>2. AnswersFirst(m) \/ Emits(m)
    <3>1. CASE HandleActivate(m)
      BY <1>1, <3>1, ModuleShape DEF ModuleNext, HandleRequest
    <3>2. ASSUME NEW kind \in {"change", "do"}, TakeModRequest(m, kind),
                 Send(<<Refusal(m, Head(modq[m]))>>)
          PROVE  AnswersFirst(m)
      <4>. DEFINE r == Head(modq[m])
                  t == <<Refusal(m, r)>>
      <4>1. r \in Request /\ r.kind = kind /\ mstate[m] = "running" /\ TakesFirst(m)
            /\ UNCHANGED <<connections, requests, outbox>>
        BY <1>1, <3>2, TakeModRequestType DEF TakeModRequest, TakesFirst
      <4>2. Refusal(m, r) \in ModReply
        BY <1>1, <4>1, MessagesType, ModuleAssumption DEF ModuleAssumption
      <4>3. Refusal(m, r) \in AnswersOf(m, r)
        BY <4>1, <4>2 DEF Refusal, Reply, AnswersOf
      <4>4. t \in Seq(ModReply)
        BY <4>2
      <4>5. Send(t)
        BY <3>2
      <4>. HIDE DEF t
      <4>6. <<>> \o t = t
        BY <4>4, ConcatEmptySeq
      <4>7. replies' = replies \o (<<>> \o t)
        BY <4>5, <4>6 DEF Send
      <4>8. <<>> \in Seq(Emissions(m))
        BY <1>1, EmissionsShape
      <4>. QED  BY <4>1, <4>3, <4>7, <4>8 DEF AnswersFirst, t
    <3>. QED  BY <1>7, <3>1, <3>2 DEF ServeOther
  <2>3. serving[m] = <<>> /\ serving' = serving /\ calls' = calls
    BY <1>4, <2>1 DEF localVars, callerVars
  <2>4. (WorksSilently(m) \/ WorksOff(m)) /\ UNCHANGED <<requests, outbox>>
    BY <1>1, <2>2, <2>3, WorkShape
  <2>. QED  BY <1>1, <2>3, <2>4 DEF AtMostQuits
<1>8. CASE PollPeer(m)
  <2>1. /\ Ready(m) /\ CallPeer(m, client[m])
        /\ UNCHANGED <<modq, serving, replies, outbox, taken, results>>
    BY <1>8 DEF PollPeer
  <2>. QED  BY <1>2, <1>3, <1>4, <2>1
<1>9. CASE CallReturns(m)
  BY <1>9, EndShape
<1>10. CASE Restart(m)
  <2>1. /\ UNCHANGED <<localVars, callerVars>> /\ ModuleNext(m) /\ mstate[m] # "running"
    BY <1>10 DEF Restart, Drain, Wake, ModuleNext
  <2>2. serving[m] = <<>> /\ serving' = serving /\ calls' = calls
    BY <1>1, <2>1 DEF localVars, callerVars, ServingInv
  <2>3. Emits(m) \/ AnswersFirst(m)
    BY <1>1, <2>1, ModuleShape
  <2>4. (WorksSilently(m) \/ WorksOff(m)) /\ UNCHANGED <<requests, outbox>>
    BY <1>1, <2>2, <2>3, WorkShape
  <2>. QED  BY <1>1, <2>2, <2>4 DEF AtMostQuits
<1>. QED
  BY <1>5, <1>6, <1>7, <1>8, <1>9, <1>10 DEF CallerStep, CallerNext

LEMMA UserStepShape ==
    ASSUME TypeOK, NameInv, NEW h \in DOMAIN Users, UserStep(h)
    PROVE  Asks(h) \/ Rests
<1>1. /\ h \in Handlers /\ Users[h] \in Names /\ active' = active
      /\ serving' = serving /\ CallsOnly(h, Users[h])
  BY CallingAssumption DEF CallingAssumption, UserStep, dispVars, callerVars, NameInv
<1>2. ASSUME modq' = modq
      PROVE  \A n \in Mods : Pending(n)' = Pending(n)
  BY <1>1, <1>2 DEF Pending
<1>3. CASE UserNew(h)
  BY <1>1, <1>2, <1>3 DEF UserNew, Rests, AtMostQuits
<1>4. CASE UserCalls(h)
  <2>1. PICK c \in Calls : Transact(h, c.kind, Users[h], c.val)
    BY <1>4 DEF UserCalls
  <2>2. c.kind \in ModuleRequests \cup {"ping"} /\ c.val \in Vals \cup {NoVal}
    BY CallingAssumption DEF CallingAssumption
  <2>3. UNCHANGED <<modq, replies, outbox, results, taken>>
    BY <1>4 DEF UserCalls
  <2>. QED  BY <1>1, <1>2, <2>1, <2>2, <2>3 DEF Asks
<1>5. CASE UserReturns(h)
  BY <1>1, <1>2, <1>5 DEF UserReturns, Receive, TimeOut, Return, chanVars, Rests, AtMostQuits
<1>6. CASE UserDrops(h)
  BY <1>1, <1>2, <1>6 DEF UserDrops, DropClient, Rests, AtMostQuits
<1>. QED  BY <1>3, <1>4, <1>5, <1>6 DEF UserStep, UserNext

LEMMA NextShape ==
    ASSUME TypeOK, TypeOK', OwnInv, NameInv, ServingInv, [Next]_vars
    PROVE  \/ DispatcherStep
           \/ \E m \in Mods : (WorksSilently(m) \/ WorksOff(m)) /\ AtMostQuits
           \/ \E h \in Handlers : Asks(h)
           \/ Rests
<1>1. Callers \subseteq Mods /\ DOMAIN Users \subseteq Handlers
  BY CallerFacts
<1>2. ASSUME NEW m \in Mods \ Callers, ModuleStep(m)
      PROVE  (WorksSilently(m) \/ WorksOff(m)) /\ AtMostQuits
  <2>1. ModuleNext(m) /\ UNCHANGED <<dispVars, localVars, callerVars>> /\ NodeTypes
    BY <1>2, NodeTyped DEF ModuleStep
  <2>2. serving[m] = <<>> /\ serving' = serving /\ calls' = calls /\ active' = active
    BY <2>1 DEF localVars, callerVars, dispVars, ServingInv
  <2>3. Emits(m) \/ AnswersFirst(m)
    BY <2>1, ModuleShape
  <2>4. (WorksSilently(m) \/ WorksOff(m)) /\ UNCHANGED <<requests, outbox>>
    BY <2>2, <2>3, WorkShape
  <2>. QED  BY <2>2, <2>4 DEF AtMostQuits
<1>3. CASE UNCHANGED vars
  BY <1>3 DEF vars, chanVars, dispVars, localVars, callerVars, Rests, AtMostQuits, Pending
<1>. QED
  BY <1>1, <1>2, <1>3, CallerStepShape, UserStepShape DEF Next
-----------------------------------------------------------------------------
(* Which call a message belongs to                                          *)

\* The calls of a client only grow at the end.
CallsKept ==
    \A h \in Handlers : /\ Len(calls[h]) \in Nat /\ Len(calls'[h]) \in Nat
                        /\ Len(calls[h]) <= Len(calls'[h])
                        /\ calls[h] # <<>> => calls'[h][1] = calls[h][1]

LEMMA AsksCalled ==
    ASSUME TypeOK, NEW h \in Handlers, Asks(h)
    PROVE  \E mod \in Names : CallsOnly(h, mod) /\ Called(h, mod)
<1>1. PICK kind \in ModuleRequests \cup {"ping"}, mod \in Names, val \in Vals \cup {NoVal} :
        Transact(h, kind, mod, val) /\ CallsOnly(h, mod)
  BY DEF Asks
<1>2. kind \in RequestKinds
  BY DEF RequestKinds
<1>. QED  BY <1>1, <1>2, CallsGrow

LEMMA CallsKeptStep ==
    ASSUME TypeOK, TypeOK', OwnInv, NameInv, ServingInv, [Next]_vars
    PROVE  CallsKept
<1>1. \A h \in Handlers : calls[h] \in Seq(Request) /\ calls'[h] \in Seq(Request)
  BY DEF TypeOK, LocalTypeOK
<1>2. \A h \in Handlers : Len(calls[h]) \in Nat /\ Len(calls'[h]) \in Nat
  BY <1>1, LenProperties
<1>3. CASE calls' = calls
  BY <1>2, <1>3 DEF CallsKept
<1>4. ASSUME NEW h \in Handlers, Asks(h)
      PROVE  CallsKept
  <2>1. PICK mod \in Names : Called(h, mod)
    BY <1>4, AsksCalled
  <2>. QED  BY <1>2, <2>1 DEF Called, CallsKept
<1>5. \/ calls' = calls
      \/ \E h \in Handlers : Asks(h)
  BY NextShape DEF DispatcherStep, localVars, AtMostQuits, Rests
<1>. QED  BY <1>3, <1>4, <1>5

\* What belongs to a call goes on belonging to it.
LEMMA SentStays ==
    ASSUME TypeOK, CallsKept
    PROVE  /\ Sent \subseteq Sent' /\ SentBack \subseteq SentBack'
           /\ \A m : SentTo(m) \subseteq SentTo(m)'
           /\ \A h \in Handlers : {x \in Message : OfCall(h, x)}
                                    \subseteq {x \in Message : OfCall(h, x)'}
<1>1. ASSUME NEW h \in Handlers, NEW i \in 1 .. Len(calls[h])
      PROVE  i \in 1 .. Len(calls'[h]) /\ calls'[h][1] = calls[h][1]
  <2>1. /\ Len(calls[h]) \in Nat /\ Len(calls'[h]) \in Nat
        /\ Len(calls[h]) <= Len(calls'[h])
        /\ calls[h] # <<>> => calls'[h][1] = calls[h][1]
    BY DEF CallsKept
  <2>2. calls[h] # <<>>
    BY <2>1
  <2>. QED  BY <2>1, <2>2
<1>2. \A r \in Request : r.hid \in Handlers
  BY DEF Request
<1>3. \A e \in ModReply : e.to # Nobody => e.to \in Handlers
  BY DEF ModReply
<1>4. Sent \subseteq Sent'
  BY <1>1, <1>2 DEF Sent, OfCall, NameOf
<1>5. SentBack \subseteq SentBack'
  BY <1>1, <1>3 DEF SentBack, OfCall, NameOf
<1>6. \A m : SentTo(m) \subseteq SentTo(m)'
  BY <1>4 DEF SentTo
<1>7. \A h \in Handlers : {x \in Message : OfCall(h, x)} \subseteq {x \in Message : OfCall(h, x)'}
  BY <1>1 DEF OfCall
<1>. QED  BY <1>4, <1>5, <1>6, <1>7
-----------------------------------------------------------------------------
(* The dispatcher, when nothing is ever activated                           *)

SamePending == \A n \in Mods : Pending(n)' = Pending(n)

\* x may be put on the reply channel of h.
Tells(h, x) ==
    /\ h \in Handlers /\ x \in Message
    /\ \A g \in Handlers : \/ outbox'[g] = outbox[g]
                           \/ g = h /\ outbox'[g] = Append(outbox[g], x)

TakesOne ==
    /\ requests # <<>> /\ requests' = Tail(requests)
    /\ replies' = replies

\* The first request goes to its module, is refused as there is none, or is
\* dropped.
PassesOn ==
    /\ TakesOne /\ outbox' = outbox
    /\ \E m \in Mods : /\ Head(requests) \in SentTo(m)
                       /\ Pending(m)' = Append(Pending(m), Head(requests))
                       /\ OthersPend(m)
Refuses ==
    /\ TakesOne /\ SamePending
    /\ Head(requests).kind # "quit" /\ Head(requests).mod \notin Mods
    /\ Tells(Head(requests).hid, Answer(Head(requests), "error"))
Drops == TakesOne /\ SamePending /\ outbox' = outbox

\* The first reply goes to the client it is for, or to nobody.
Routes ==
    /\ replies # <<>> /\ replies' = Tail(replies)
    /\ requests' = requests /\ SamePending
    /\ outbox' = outbox \/ Tells(Head(replies).to, Relay(Head(replies)))

LEMMA TellsShape ==
    ASSUME TypeOK, NEW h \in Handlers, NEW x \in Message, SendBack(h, <<x>>)
    PROVE  Tells(h, x)
<1>1. outbox \in [Handlers -> Seq(Message)]
  BY DEF TypeOK, ChannelsTypeOK
<1>2. outbox' \in {outbox, [outbox EXCEPT ![h] = @ \o <<x>>]}
  BY SendBackShape
<1>3. outbox[h] \o <<x>> = Append(outbox[h], x)
  BY <1>1, AppendIsConcat
<1>4. \A g \in Handlers : outbox'[g] = outbox[g] \/ (g = h /\ outbox'[g] = outbox[h] \o <<x>>)
  BY <1>1, <1>2
<1>. QED  BY <1>3, <1>4 DEF Tells

LEMMA RequestsTaken ==
    ASSUME TypeOK, MatchInv, DispatchRequest, serving' = serving
    PROVE  PassesOn \/ Refuses \/ Drops
<1>. DEFINE r == Head(requests)
<1>1. /\ requests \in Seq(Request) /\ serving \in [Mods -> Seq(Request)]
      /\ modq \in [Mods -> Seq(Request)]
  BY DEF TypeOK, ChannelsTypeOK, CallerTypeOK
<1>2. /\ TakesOne /\ requests # <<>> /\ r \in Request
      /\ Forwards(r) \/ AnswersItself(r) \/ TakesSilently(r)
  BY NodeTyped, RequestShape DEF TakesOne
<1>3. /\ r \in Sent /\ r.hid \in Handlers
      /\ r.kind # "quit" => r.kind \in ModuleRequests \cup {"ping"}
  BY <1>1, <1>2, EveryTail DEF MatchInv, Sent, Request
<1>4. modq' = modq => SamePending
  BY DEF SamePending, Pending
<1>. HIDE DEF r
<1>5. CASE Forwards(r)
  <2>1. PICK S \in SUBSET Mods : /\ Forward(S, r)
                                 /\ r.kind \in ModuleRequests \cup {"activate"}
                                 /\ S = {r.mod} \/ r.kind = "activate"
    BY <1>5 DEF Forwards
  <2>2. r.kind \in ModuleRequests /\ S = {r.mod}
    BY <1>3, <2>1 DEF ModuleRequests
  <2>3. PICK m \in Mods : m = r.mod
    BY <2>2
  <2>4. r \in SentTo(m) /\ outbox' = outbox
    BY <1>3, <1>5, <2>2, <2>3 DEF SentTo, Forwards
  <2>5. \A n \in Mods : modq'[n] = IF n = m THEN Append(modq[n], r) ELSE modq[n]
    BY <2>1, <2>2, <2>3 DEF Forward
  <2>6. serving[m] \o Append(modq[m], r) = Append(serving[m] \o modq[m], r)
    BY <1>1, <1>2, ConcatAppend
  <2>7. Pending(m)' = Append(Pending(m), r)
    BY <1>1, <2>5, <2>6 DEF Pending
  <2>8. OthersPend(m)
    BY <2>5 DEF OthersPend, Pending
  <2>. QED  BY <1>2, <2>4, <2>7, <2>8 DEF PassesOn, r
<1>6. CASE AnswersItself(r)
  <2>1. PICK kind \in {"error", "inactive", "describing"} :
          /\ SendBack(r.hid, <<Answer(r, kind)>>)
          /\ \/ kind = "error" /\ r.mod \notin Mods
             \/ kind = "describing" /\ r.kind = "describe"
             \/ kind = "inactive" /\ r.kind = "deactivate"
    BY <1>6 DEF AnswersItself
  <2>2. kind = "error" /\ r.mod \notin Mods /\ r.kind # "quit" /\ modq' = modq
    BY <1>3, <1>6, <2>1 DEF AnswersItself, ModuleRequests
  <2>3. Answer(r, "error") \in Message
    BY <1>2, AnswerType
  <2>4. Tells(r.hid, Answer(r, "error"))
    BY <1>3, <2>1, <2>2, <2>3, TellsShape
  <2>. QED  BY <1>2, <1>4, <2>2, <2>4 DEF Refuses, r
<1>7. CASE TakesSilently(r)
  BY <1>2, <1>4, <1>7 DEF TakesSilently, Drops
<1>. QED  BY <1>2, <1>5, <1>6, <1>7, Zenon

LEMMA RepliesTaken ==
    ASSUME TypeOK, MatchInv, RouteReply, serving' = serving
    PROVE  Routes /\ active' = active
<1>. DEFINE e == Head(replies)
<1>1. /\ replies # <<>> /\ e \in ModReply /\ replies' = Tail(replies)
      /\ UNCHANGED <<requests, modq>>
  BY NodeTyped, ReplyShape
<1>2. SamePending
  BY <1>1 DEF SamePending, Pending
<1>3. e \in SentBack
  <2>1. replies \in Seq(ModReply)
    BY DEF TypeOK, ChannelsTypeOK
  <2>. QED  BY <1>1, <2>1, EveryTail DEF MatchInv
<1>4. CASE RouteDescription
  BY <1>1, <1>2, <1>4 DEF RouteDescription, Routes
<1>5. CASE RouteEvent
  <2>1. active[e.from] = {}
    BY <1>1 DEF MatchInv, ModReply
  <2>2. outbox' = [h \in Handlers |-> outbox[h]] /\ active' = active
    BY <1>5, <2>1 DEF RouteEvent
  <2>3. outbox' = outbox
    BY <2>2 DEF TypeOK, ChannelsTypeOK
  <2>. QED  BY <1>1, <1>2, <2>2, <2>3 DEF Routes
<1>6. CASE RouteInitUpdates \/ RouteInitUpdatesAll
  BY <1>3, <1>6 DEF RouteInitUpdates, RouteInitUpdatesAll, SentBack
<1>7. CASE RouteAnswer
  <2>1. /\ e.to # Nobody /\ e.kind # "initupdates" /\ active' = active
        /\ SendBack(e.to, <<Relay(e)>>)
    BY <1>7 DEF RouteAnswer
  <2>2. e.to \in Handlers
    BY <1>1, <2>1 DEF ModReply
  <2>3. Relay(e) \in Message
    BY <1>1, <2>1, RelayType
  <2>4. Tells(e.to, Relay(e))
    BY <2>1, <2>2, <2>3, TellsShape
  <2>. QED  BY <1>1, <1>2, <2>1, <2>4 DEF Routes
<1>. QED  BY <1>4, <1>5, <1>6, <1>7 DEF RouteReply

\* The dispatcher never makes anybody active.
LEMMA DispatcherShape ==
    ASSUME TypeOK, MatchInv, DispatcherStep
    PROVE  /\ \A m \in Mods : active'[m] = {}
           /\ \/ PassesOn \/ Refuses \/ Drops \/ Routes
              \/ SamePending /\ UNCHANGED <<requests, replies, outbox>>
<1>1. DispatcherNext /\ serving' = serving
  BY DEF DispatcherStep, callerVars
<1>2. \A m \in Mods : active[m] = {}
  BY DEF MatchInv
<1>3. CASE Register
  BY <1>1, <1>2, <1>3 DEF Register, SamePending, Pending
<1>4. CASE DispatchRequest
  <2>. DEFINE r == Head(requests)
  <2>1. /\ requests # <<>> /\ requests \in Seq(Request)
        /\ Forwards(r) \/ AnswersItself(r) \/ TakesSilently(r)
    BY <1>4, NodeTyped, RequestShape DEF TypeOK, ChannelsTypeOK
  <2>. HIDE DEF r
  <2>2. \A name : \A m \in Mods : Without(name, r.hid)[m] = {}
    BY <1>2 DEF Without
  <2>3. active' = active \/ \E name : active' = Without(name, r.hid)
    BY <2>1 DEF Forwards, AnswersItself, TakesSilently
  <2>. QED  BY <1>1, <1>2, <1>4, <2>2, <2>3, RequestsTaken
<1>5. CASE RouteReply
  BY <1>1, <1>2, <1>5, RepliesTaken
<1>. QED  BY <1>1, <1>3, <1>4, <1>5 DEF DispatcherNext
-----------------------------------------------------------------------------
(* Every message belongs to a call                                          *)

\* What was there before the step still belongs to its call after it.
MatchKept ==
    /\ Every(requests, Sent')
    /\ \A m \in Mods : Every(Pending(m), SentTo(m)')
    /\ Every(replies, SentBack')
    /\ \A h \in Handlers : Every(outbox[h], {x \in Message : OfCall(h, x)'})

LEMMA MatchKeeps ==
    ASSUME TypeOK, CallsKept, MatchInv
    PROVE  MatchKept
<1>1. /\ Sent \subseteq Sent' /\ SentBack \subseteq SentBack'
      /\ \A m : SentTo(m) \subseteq SentTo(m)'
      /\ \A h \in Handlers : {x \in Message : OfCall(h, x)} \subseteq {x \in Message : OfCall(h, x)'}
  BY SentStays
<1>2. Every(requests, Sent') /\ Every(replies, SentBack')
  BY <1>1, EveryOfMore DEF MatchInv
<1>3. ASSUME NEW m \in Mods
      PROVE  Every(Pending(m), SentTo(m)')
  BY <1>1, EveryOfMore DEF MatchInv
<1>4. ASSUME NEW h \in Handlers
      PROVE  Every(outbox[h], {x \in Message : OfCall(h, x)'})
  <2>1. Every(outbox[h], {x \in Message : OfCall(h, x)})
    BY DEF MatchInv
  <2>. QED  BY <1>1, <2>1, EveryOfMore
<1>. QED  BY <1>2, <1>3, <1>4 DEF MatchKept

\* A request that is added is one of a call, or a quit.
LEMMA MatchRequests ==
    ASSUME TypeOK, MatchKept, NEW r \in Sent', requests' \in {requests, Append(requests, r)}
    PROVE  Every(requests', Sent')
<1>1. requests \in Seq(Request) /\ r \in Request /\ Every(requests, Sent')
  BY DEF TypeOK, ChannelsTypeOK, Sent, MatchKept
<1>2. Every(Append(requests, r), Sent')
  BY <1>1, EveryAppend
<1>. QED  BY <1>1, <1>2

LEMMA MatchQuits ==
    ASSUME TypeOK, MatchKept, AtMostQuits
    PROVE  Every(requests', Sent')
<1>1. CASE requests' = requests
  BY <1>1 DEF MatchKept
<1>2. ASSUME NEW h \in Handlers, requests' = Append(requests, QuitOf(h))
      PROVE  Every(requests', Sent')
  <2>1. QuitOf(h) \in Sent'
    BY QuitType DEF Sent
  <2>. QED  BY <1>2, <2>1, MatchRequests
<1>. QED  BY <1>1, <1>2 DEF AtMostQuits

\* The requests that wait for the modules, when one of them takes some.
LEMMA MatchPending ==
    ASSUME TypeOK, MatchKept, NEW m \in Mods, OthersPend(m),
           \/ Pending(m)' = Pending(m)
           \/ Pending(m) # <<>> /\ Pending(m)' = Tail(Pending(m))
           \/ Pending(m)' = <<>>
    PROVE  \A n \in Mods : Every(Pending(n)', SentTo(n)')
<1>1. Every(Pending(m), SentTo(m)') /\ Pending(m) \in Seq(Request)
  BY PendingFacts DEF MatchKept
<1>2. Pending(m) # <<>> => Every(Tail(Pending(m)), SentTo(m)')
  BY <1>1, EveryTail
<1>3. Every(Pending(m)', SentTo(m)')
  BY <1>1, <1>2, EveryOfEmpty
<1>4. ASSUME NEW n \in Mods
      PROVE  Every(Pending(n)', SentTo(n)')
  BY <1>3 DEF MatchKept, OthersPend
<1>. QED  BY <1>4

LEMMA MatchAtModule ==
    ASSUME TypeOK, MatchInv, MatchKept, NEW m \in Mods, WorksSilently(m) \/ WorksOff(m),
           AtMostQuits
    PROVE  MatchInv'
<1>1. replies \in Seq(ModReply) /\ Every(replies, SentBack') /\ calls' = calls
  BY DEF TypeOK, ChannelsTypeOK, MatchKept, AtMostQuits
<1>2. ASSUME NEW es \in Seq(Emissions(m))
      PROVE  es \in Seq(ModReply) /\ Every(es, SentBack')
  <2>1. Emissions(m) \subseteq SentBack'
    BY DEF Emissions, SentBack
  <2>. QED  BY <2>1, EmissionsAreReplies, EveryOfMore
<1>3. Every(replies', SentBack')
  <2>1. ASSUME NEW es \in Seq(Emissions(m)), replies' = replies \o es
        PROVE  Every(replies', SentBack')
    BY <1>1, <1>2, <2>1, EveryConcat
  <2>2. CASE WorksOff(m)
    <3>. DEFINE r == Head(Pending(m))
    <3>1. r \in SentTo(m)
      <4>1. Every(Pending(m), SentTo(m)) /\ Pending(m) \in Seq(Request) /\ Pending(m) # <<>>
        BY <2>2, PendingFacts DEF MatchInv, WorksOff
      <4>. QED  BY <4>1, EveryTail
    <3>2. PICK es \in Seq(Emissions(m)), e \in RepliesTo(m, r) :
            replies' = replies \o (es \o <<e>>)
      BY <2>2 DEF WorksOff
    <3>. HIDE DEF r
    <3>3. /\ r.kind # "quit" /\ r.kind # "activate"
          /\ OfCall(r.hid, r) /\ r.mod = m /\ r.mod = NameOf(r.hid)
      BY <3>1 DEF SentTo, Sent, ModuleRequests
    <3>4. e \in SentBack' /\ e \in ModReply
      BY <1>1, <3>2, <3>3 DEF RepliesTo, SentBack, OfCall, NameOf
    <3>. DEFINE t == <<e>>
    <3>5. t \in Seq(ModReply) /\ Every(t, SentBack')
      BY <3>4, EveryOfOne
    <3>. HIDE DEF t
    <3>6. es \o t \in Seq(ModReply) /\ Every(es \o t, SentBack')
      BY <1>2, <3>5, EveryConcat, ConcatProperties
    <3>7. Every(replies \o (es \o t), SentBack')
      BY <1>1, <3>6, EveryConcat
    <3>. QED  BY <3>2, <3>7 DEF t
  <2>. QED  BY <2>1, <2>2 DEF WorksSilently
<1>4. \A n \in Mods : Every(Pending(n)', SentTo(n)')
  BY MatchPending DEF WorksSilently, WorksOff
<1>5. Every(requests', Sent')
  BY MatchQuits
<1>6. (\A n \in Mods : active'[n] = {}) /\ outbox' = outbox
  BY DEF MatchInv, AtMostQuits
<1>. QED  BY <1>3, <1>4, <1>5, <1>6 DEF MatchInv, MatchKept

LEMMA MatchAtCall ==
    ASSUME TypeOK, MatchInv, MatchKept, NEW h \in Handlers, Asks(h)
    PROVE  MatchInv'
<1>1. PICK kind \in ModuleRequests \cup {"ping"}, mod \in Names, val \in Vals \cup {NoVal} :
        Transact(h, kind, mod, val) /\ CallsOnly(h, mod)
  BY DEF Asks
<1>2. kind \in RequestKinds
  BY DEF RequestKinds
<1>. DEFINE r == CallOf(h, kind, mod, val)
<1>3. /\ r \in Request /\ requests' = Append(requests, r) /\ Len(calls[h]) \in Nat
      /\ Len(calls'[h]) = Len(calls[h]) + 1
      /\ r.hid = h /\ r.id = Len(calls[h]) + 1 /\ r.mod = mod /\ r.kind = kind
  BY <1>1, <1>2, TransactType DEF CallOf
<1>4. calls'[h][1].mod = mod
  <2>1. Called(h, mod)
    BY <1>1, <1>2, CallsGrow
  <2>. QED  BY <2>1 DEF Called
<1>. HIDE DEF r
<1>5. r \in Sent'
  <2>1. r.id \in 1 .. Len(calls'[h])
    BY <1>3
  <2>. QED  BY <1>3, <1>4, <2>1 DEF Sent, OfCall, NameOf
<1>6. Every(requests', Sent')
  BY <1>3, <1>5, MatchRequests
<1>7. \A n \in Mods : Every(Pending(n)', SentTo(n)')
  BY DEF MatchKept, Asks
<1>8. /\ UNCHANGED <<replies, outbox>>
      /\ \A n \in Mods : active'[n] = {}
  BY DEF Asks, MatchInv
<1>. QED  BY <1>6, <1>7, <1>8 DEF MatchInv, MatchKept

LEMMA MatchTold ==
    ASSUME TypeOK, MatchKept, NEW h \in Handlers, NEW x \in Message, OfCall(h, x),
           calls' = calls, Tells(h, x)
    PROVE  \A g \in Handlers : Every(outbox'[g], {y \in Message : OfCall(g, y)'})
<1>1. ASSUME NEW g \in Handlers
      PROVE  Every(outbox'[g], {y \in Message : OfCall(g, y)'})
  <2>. DEFINE G == {y \in Message : OfCall(g, y)'}
  <2>1. outbox[g] \in Seq(Message) /\ Every(outbox[g], G)
    BY DEF TypeOK, ChannelsTypeOK, MatchKept
  <2>2. g = h => x \in G
    BY DEF OfCall
  <2>. HIDE DEF G
  <2>3. g = h => Every(Append(outbox[g], x), G)
    BY <2>1, <2>2, EveryAppend
  <2>4. Every(outbox'[g], G)
    BY <2>1, <2>3 DEF Tells
  <2>. QED  BY <2>4 DEF G
<1>. QED  BY <1>1

LEMMA MatchAtDispatcher ==
    ASSUME TypeOK, MatchInv, MatchKept, DispatcherStep
    PROVE  MatchInv'
<1>1. /\ requests \in Seq(Request) /\ replies \in Seq(ModReply)
      /\ Every(requests, Sent') /\ Every(replies, SentBack')
      /\ Every(requests, Sent) /\ Every(replies, SentBack)
      /\ \A h \in Handlers : Every(outbox[h], {x \in Message : OfCall(h, x)'})
      /\ \A n \in Mods : Every(Pending(n), SentTo(n)')
  BY DEF TypeOK, ChannelsTypeOK, MatchKept, MatchInv
<1>2. /\ calls' = calls /\ \A n \in Mods : active'[n] = {}
      /\ \/ PassesOn \/ Refuses \/ Drops \/ Routes
         \/ SamePending /\ UNCHANGED <<requests, replies, outbox>>
  BY DispatcherShape DEF DispatcherStep, localVars
<1>3. ASSUME TakesOne
      PROVE  /\ Every(requests', Sent') /\ Every(replies', SentBack')
             /\ Head(requests) \in Sent
  BY <1>1, <1>3, EveryTail DEF TakesOne
<1>4. ASSUME SamePending
      PROVE  \A n \in Mods : Every(Pending(n)', SentTo(n)')
  BY <1>1, <1>4 DEF SamePending
<1>5. ASSUME Every(requests', Sent'), Every(replies', SentBack'),
             \A n \in Mods : Every(Pending(n)', SentTo(n)'),
             \A h \in Handlers : Every(outbox'[h], {x \in Message : OfCall(h, x)'})
      PROVE  MatchInv'
  BY <1>2, <1>5 DEF MatchInv
<1>6. CASE PassesOn
  <2>. DEFINE r == Head(requests)
  <2>1. PICK m \in Mods : /\ r \in SentTo(m) /\ OthersPend(m)
                          /\ Pending(m)' = Append(Pending(m), r)
    BY <1>6 DEF PassesOn
  <2>. HIDE DEF r
  <2>2. r \in SentTo(m)' /\ r \in Request
    BY <1>2, <2>1 DEF SentTo, Sent, OfCall, NameOf
  <2>3. Every(Append(Pending(m), r), SentTo(m)')
    BY <1>1, <2>2, PendingFacts, EveryAppend
  <2>4. ASSUME NEW n \in Mods
        PROVE  Every(Pending(n)', SentTo(n)')
    BY <1>1, <2>1, <2>3 DEF OthersPend
  <2>. QED  BY <1>1, <1>3, <1>5, <1>6, <2>4 DEF PassesOn
<1>7. CASE Refuses
  <2>. DEFINE r == Head(requests)
              x == Answer(r, "error")
  <2>1. /\ TakesOne /\ SamePending /\ r \in Sent /\ r.kind # "quit"
        /\ Tells(r.hid, x)
    BY <1>3, <1>7 DEF Refuses
  <2>2. r.hid \in Handlers /\ x \in Message
    BY <2>1 DEF Tells
  <2>3. OfCall(r.hid, x)
    BY <2>1 DEF Sent, OfCall, Answer
  <2>. HIDE DEF r, x
  <2>. QED  BY <1>2, <1>3, <1>4, <1>5, <2>1, <2>2, <2>3, MatchTold
<1>8. CASE Drops
  BY <1>1, <1>3, <1>4, <1>5, <1>8 DEF Drops
<1>9. CASE Routes
  <2>. DEFINE e == Head(replies)
              x == Relay(e)
  <2>1. e \in SentBack /\ Every(replies', SentBack') /\ requests' = requests /\ SamePending
    BY <1>1, <1>9, EveryTail DEF Routes
  <2>2. CASE outbox' = outbox
    BY <1>1, <1>4, <1>5, <2>1, <2>2
  <2>3. CASE Tells(e.to, x)
    <3>1. e.to \in Handlers /\ x \in Message
      BY <2>3 DEF Tells
    <3>2. e.to # Nobody
      BY <3>1, ChannelsAssumption DEF ChannelsAssumption
    <3>3. OfCall(e.to, x)
      BY <2>1, <3>2 DEF SentBack, OfCall, Relay
    <3>. HIDE DEF e, x
    <3>. QED  BY <1>1, <1>2, <1>4, <1>5, <2>1, <2>3, <3>1, <3>3, MatchTold
  <2>. QED  BY <1>9, <2>2, <2>3 DEF Routes
<1>10. CASE SamePending /\ UNCHANGED <<requests, replies, outbox>>
  BY <1>1, <1>4, <1>5, <1>10
<1>. QED  BY <1>2, <1>6, <1>7, <1>8, <1>9, <1>10

LEMMA MatchStep ==
    ASSUME TypeOK, TypeOK', OwnInv, NameInv, ServingInv, MatchInv, [Next]_vars
    PROVE  MatchInv'
<1>1. MatchKept
  BY CallsKeptStep, MatchKeeps
<1>2. ASSUME Rests
      PROVE  MatchInv'
  <2>1. Every(requests', Sent')
    BY <1>1, <1>2, MatchQuits DEF Rests
  <2>. QED  BY <1>1, <1>2, <2>1 DEF Rests, AtMostQuits, MatchInv, MatchKept
<1>. QED  BY <1>1, <1>2, NextShape, MatchAtModule, MatchAtCall, MatchAtDispatcher

LEMMA MatchInit ==
    ASSUME Init
    PROVE  MatchInv
<1>1. \A m \in Mods : Pending(m) = <<>>
  <2>1. \A m \in Mods : serving[m] = <<>> /\ modq[m] = <<>>
    BY DEF Init, CallerInit, ChannelsInit
  <2>2. <<>> \in Seq(Request)
    OBVIOUS
  <2>. QED  BY <2>1, <2>2, ConcatEmptySeq DEF Pending
<1>2. /\ requests = <<>> /\ replies = <<>>
      /\ \A h \in Handlers : outbox[h] = <<>>
      /\ \A m \in Mods : active[m] = {}
  BY DEF Init, ChannelsInit, DispatcherInit
<1>. QED  BY <1>1, <1>2, EveryOfEmpty DEF MatchInv
-----------------------------------------------------------------------------
(* The calls of a client stay in order                                      *)

LEMMA OrderShrinks ==
    ASSUME NEW h \in Handlers, OrderOf(h),
           Ascending(outbox'[h], Message), Ascending(replies', To(h)),
           \A m \in Mods : Ascending(Pending(m)', From(h)),
           Ascending(requests', From(h)),
           ToldIds(h)' \subseteq ToldIds(h), AnswerIds(h)' \subseteq AnswerIds(h),
           PendingIds(h)' \subseteq PendingIds(h), RequestIds(h)' \subseteq RequestIds(h)
    PROVE  OrderOf(h)'
<1>1. InLine(ToldIds(h)', AnswerIds(h)', PendingIds(h)', RequestIds(h)')
  BY InLineShrinks DEF OrderOf
<1>. QED  BY <1>1 DEF OrderOf

\* The four places, while one of them changes.
LEMMA ToldStay ==
    ASSUME NEW h \in Handlers, OrderOf(h), outbox'[h] = outbox[h]
    PROVE  Ascending(outbox'[h], Message) /\ ToldIds(h)' = ToldIds(h)
BY DEF OrderOf, ToldIds

LEMMA AnswersStay ==
    ASSUME NEW h \in Handlers, OrderOf(h), replies' = replies
    PROVE  Ascending(replies', To(h)) /\ AnswerIds(h)' = AnswerIds(h)
BY DEF OrderOf, AnswerIds

LEMMA PendingStays ==
    ASSUME NEW h \in Handlers, OrderOf(h), SamePending
    PROVE  /\ \A n \in Mods : Ascending(Pending(n)', From(h))
           /\ PendingIds(h)' = PendingIds(h)
BY DEF OrderOf, PendingIds, SamePending

LEMMA RequestsStay ==
    ASSUME NEW h \in Handlers, OrderOf(h), requests' = requests
    PROVE  Ascending(requests', From(h)) /\ RequestIds(h)' = RequestIds(h)
BY DEF OrderOf, RequestIds

LEMMA RequestsShrink ==
    ASSUME TypeOK, NEW h \in Handlers, OrderOf(h), TakesOne
    PROVE  /\ Ascending(requests', From(h)) /\ RequestIds(h)' \subseteq RequestIds(h)
           /\ Head(requests) \in From(h) =>
                /\ Head(requests).id \in RequestIds(h)
                /\ Below({Head(requests).id}, RequestIds(h)')
<1>1. requests \in Seq(Request) /\ requests # <<>> /\ requests' = Tail(requests)
  BY DEF TypeOK, ChannelsTypeOK, TakesOne
<1>. QED  BY <1>1, IdsTail DEF OrderOf, RequestIds

\* A quit is none of the calls.
LEMMA QuitsStay ==
    ASSUME TypeOK, NEW h \in Handlers, OrderOf(h), AtMostQuits
    PROVE  Ascending(requests', From(h)) /\ RequestIds(h)' = RequestIds(h)
<1>1. CASE requests' = requests
  BY <1>1, RequestsStay
<1>2. ASSUME NEW g \in Handlers, requests' = Append(requests, QuitOf(g))
      PROVE  Ascending(requests', From(h)) /\ RequestIds(h)' = RequestIds(h)
  <2>. DEFINE r == QuitOf(g)
  <2>1. requests \in Seq(Request) /\ r \in Request /\ r \notin From(h)
    BY QuitType DEF TypeOK, ChannelsTypeOK, From
  <2>. HIDE DEF r
  <2>2. Ids(Append(requests, r), From(h)) = Ids(requests, From(h))
        /\ Ascending(Append(requests, r), From(h))
    BY <2>1, IdsAppendOut DEF OrderOf
  <2>. QED  BY <1>2, <2>2 DEF RequestIds, r
<1>. QED  BY <1>1, <1>2 DEF AtMostQuits

\* Of client h there is nothing at a module it does not call.
LEMMA NothingElsewhere ==
    ASSUME MatchInv, NEW h \in Handlers, NEW m \in Mods, NameOf(h) # m
    PROVE  Ids(Pending(m), From(h)) = {}
<1>1. SentTo(m) \cap From(h) = {}
  BY DEF SentTo, Sent, From, ModuleRequests
<1>2. Every(Pending(m), SentTo(m))
  BY DEF MatchInv
<1>. QED  BY <1>1, <1>2, EveryIsNone, IdsOfNone

LEMMA OrderAtForward ==
    ASSUME TypeOK, NEW h \in Handlers, OrderOf(h), PassesOn
    PROVE  OrderOf(h)'
<1>. DEFINE r == Head(requests)
<1>1. PICK m \in Mods : /\ r \in SentTo(m) /\ OthersPend(m)
                        /\ Pending(m)' = Append(Pending(m), r)
  BY DEF PassesOn
<1>2. /\ Ascending(requests', From(h)) /\ RequestIds(h)' \subseteq RequestIds(h)
      /\ r \in From(h) => r.id \in RequestIds(h) /\ Below({r.id}, RequestIds(h)')
  BY RequestsShrink DEF PassesOn
<1>3. /\ Ascending(outbox'[h], Message) /\ ToldIds(h)' = ToldIds(h)
      /\ Ascending(replies', To(h)) /\ AnswerIds(h)' = AnswerIds(h)
  BY ToldStay, AnswersStay DEF PassesOn, TakesOne
<1>. HIDE DEF r
<1>4. /\ Pending(m) \in Seq(Request) /\ r \in Request
      /\ Ascending(Pending(m), From(h))
      /\ Ids(Pending(m), From(h)) \subseteq PendingIds(h)
      /\ InLine(ToldIds(h), AnswerIds(h), PendingIds(h), RequestIds(h))
  BY <1>1, PendingFacts DEF SentTo, Sent, OrderOf, PendingIds
<1>5. \A n \in Mods : Ascending(Pending(n)', From(h)) <=> (n = m => Ascending(Append(Pending(m), r), From(h)))
  BY <1>1 DEF OthersPend, OrderOf
<1>6. PendingIds(h)' = UNION {Ids(Pending(n)', From(h)) : n \in Mods}
  BY DEF PendingIds
<1>7. CASE r \in From(h)
  <2>1. Below(PendingIds(h), {r.id})
    BY <1>2, <1>4, <1>7 DEF InLine, Below
  <2>2. Below(Ids(Pending(m), From(h)), {r.id})
    BY <1>4, <2>1 DEF Below
  <2>3. /\ Ids(Append(Pending(m), r), From(h)) = Ids(Pending(m), From(h)) \cup {r.id}
        /\ Ascending(Append(Pending(m), r), From(h))
    BY <1>4, <1>7, <2>2, IdsAppendIn
  <2>4. \A n \in Mods : Ids(Pending(n)', From(h)) \subseteq PendingIds(h) \cup {r.id}
    BY <1>1, <1>4, <2>3 DEF OthersPend, PendingIds
  <2>5. PendingIds(h)' \subseteq PendingIds(h) \cup {r.id}
    BY <1>6, <2>4
  <2>6. InLine(ToldIds(h), AnswerIds(h), PendingIds(h) \cup {r.id}, RequestIds(h)')
    BY <1>2, <1>4, <1>7, InLineForward
  <2>7. InLine(ToldIds(h), AnswerIds(h), PendingIds(h)', RequestIds(h)')
    BY <2>5, <2>6, InLineShrinks
  <2>. QED  BY <1>2, <1>3, <1>5, <2>3, <2>7 DEF OrderOf
<1>8. CASE r \notin From(h)
  <2>1. /\ Ids(Append(Pending(m), r), From(h)) = Ids(Pending(m), From(h))
        /\ Ascending(Append(Pending(m), r), From(h))
    BY <1>4, <1>8, IdsAppendOut
  <2>2. \A n \in Mods : Ids(Pending(n)', From(h)) \subseteq PendingIds(h)
    BY <1>1, <1>4, <2>1 DEF OthersPend, PendingIds
  <2>3. PendingIds(h)' \subseteq PendingIds(h)
    BY <1>6, <2>2
  <2>. QED  BY <1>2, <1>3, <1>5, <2>1, <2>3, OrderShrinks
<1>. QED  BY <1>7, <1>8

\* Client h is told x, that answers the call d.
LEMMA OrderTold ==
    ASSUME TypeOK, NEW h \in Handlers, OrderOf(h), NEW x \in Message, NEW g, Tells(g, x),
           g = h => Below(ToldIds(h), {x.id})
    PROVE  /\ Ascending(outbox'[h], Message)
           /\ ToldIds(h)' \subseteq ToldIds(h) \cup (IF g = h THEN {x.id} ELSE {})
<1>1. outbox[h] \in Seq(Message) /\ Ascending(outbox[h], Message)
  BY DEF TypeOK, ChannelsTypeOK, OrderOf
<1>2. outbox'[h] = outbox[h] \/ (g = h /\ outbox'[h] = Append(outbox[h], x))
  BY DEF Tells
<1>3. CASE outbox'[h] = outbox[h]
  BY <1>3, ToldStay
<1>4. CASE g = h /\ outbox'[h] = Append(outbox[h], x)
  <2>1. Below(Ids(outbox[h], Message), {x.id})
    BY <1>4 DEF ToldIds
  <2>2. /\ Ids(Append(outbox[h], x), Message) = Ids(outbox[h], Message) \cup {x.id}
        /\ Ascending(Append(outbox[h], x), Message)
    BY <1>1, <2>1, IdsAppendIn
  <2>. QED  BY <1>4, <2>2 DEF ToldIds
<1>. QED  BY <1>2, <1>3, <1>4

LEMMA OrderAtRefusal ==
    ASSUME TypeOK, MatchInv, NEW h \in Handlers, OrderOf(h), Refuses
    PROVE  OrderOf(h)'
<1>. DEFINE r == Head(requests)
            x == Answer(r, "error")
<1>1. /\ r.kind # "quit" /\ r.mod \notin Mods /\ Tells(r.hid, x) /\ x \in Message
      /\ x.id = r.id /\ TakesOne /\ SamePending /\ replies' = replies
  BY DEF Refuses, Tells, Answer, TakesOne
<1>2. /\ Ascending(requests', From(h)) /\ RequestIds(h)' \subseteq RequestIds(h)
      /\ r \in From(h) => r.id \in RequestIds(h) /\ Below({r.id}, RequestIds(h)')
  BY <1>1, RequestsShrink
<1>3. r \in Sent /\ r \in Request
  BY EveryTail DEF Refuses, TakesOne, MatchInv, TypeOK, ChannelsTypeOK, Sent
<1>4. /\ Ascending(replies', To(h)) /\ AnswerIds(h)' = AnswerIds(h)
      /\ \A n \in Mods : Ascending(Pending(n)', From(h))
      /\ PendingIds(h)' = PendingIds(h)
      /\ InLine(ToldIds(h), AnswerIds(h), PendingIds(h), RequestIds(h))
  BY <1>1, AnswersStay, PendingStays DEF OrderOf
<1>. HIDE DEF r, x
<1>5. CASE r.hid = h
  <2>1. r \in From(h) /\ NameOf(h) \notin Mods
    BY <1>1, <1>3, <1>5 DEF From, Sent
  <2>2. Below(ToldIds(h), {x.id})
    BY <1>1, <1>2, <1>4, <2>1 DEF InLine, Below
  <2>3. Ascending(outbox'[h], Message) /\ ToldIds(h)' \subseteq ToldIds(h) \cup {r.id}
    BY <1>1, <1>5, <2>2, OrderTold
  <2>4. AnswerIds(h) = {}
    <3>1. \A e \in SentBack : e \notin To(h)
      BY <2>1, ChannelsAssumption DEF SentBack, To, ModReply, ChannelsAssumption
    <3>2. Every(replies, SentBack)
      BY DEF MatchInv
    <3>3. None(replies, To(h))
      BY <3>1, <3>2 DEF Every, None
    <3>. QED  BY <3>3, IdsOfNone DEF AnswerIds
  <2>5. PendingIds(h) = {}
    BY <2>1, NothingElsewhere DEF PendingIds
  <2>6. InLine(ToldIds(h)', AnswerIds(h)', PendingIds(h)', RequestIds(h)')
    BY <1>2, <1>4, <2>1, <2>3, <2>4, <2>5 DEF InLine, Below
  <2>. QED  BY <1>2, <1>4, <2>3, <2>6 DEF OrderOf
<1>6. CASE r.hid # h
  <2>1. Ascending(outbox'[h], Message) /\ ToldIds(h)' \subseteq ToldIds(h)
    BY <1>1, <1>6, OrderTold
  <2>. QED  BY <1>2, <1>4, <2>1, OrderShrinks
<1>. QED  BY <1>5, <1>6

LEMMA OrderAtReply ==
    ASSUME TypeOK, MatchInv, NEW h \in Handlers, OrderOf(h), Routes
    PROVE  OrderOf(h)'
<1>. DEFINE e == Head(replies)
            x == Relay(e)
<1>1. /\ replies \in Seq(ModReply) /\ replies # <<>> /\ replies' = Tail(replies)
      /\ e \in ModReply /\ x.id = e.id /\ requests' = requests /\ SamePending
      /\ outbox' = outbox \/ Tells(e.to, x)
  BY TakeType DEF TypeOK, ChannelsTypeOK, Routes, Relay
<1>2. /\ AnswerIds(h)' \subseteq AnswerIds(h) /\ Ascending(replies', To(h))
      /\ e \in To(h) => e.id \in AnswerIds(h) /\ Below({e.id}, AnswerIds(h)')
  BY <1>1, IdsTail DEF OrderOf, AnswerIds
<1>3. /\ Ascending(requests', From(h)) /\ RequestIds(h)' = RequestIds(h)
      /\ \A n \in Mods : Ascending(Pending(n)', From(h))
      /\ PendingIds(h)' = PendingIds(h)
      /\ InLine(ToldIds(h), AnswerIds(h), PendingIds(h), RequestIds(h))
  BY <1>1, RequestsStay, PendingStays DEF OrderOf
<1>. HIDE DEF e, x
<1>4. CASE outbox' = outbox
  <2>1. Ascending(outbox'[h], Message) /\ ToldIds(h)' = ToldIds(h)
    BY <1>4, ToldStay
  <2>. QED  BY <1>2, <1>3, <2>1, OrderShrinks
<1>5. CASE Tells(e.to, x) /\ e.to = h
  <2>1. e \in To(h) /\ x \in Message
    BY <1>1, <1>5 DEF To, Tells
  <2>2. Below(ToldIds(h), {x.id})
    BY <1>1, <1>2, <1>3, <2>1 DEF InLine, Below
  <2>3. Ascending(outbox'[h], Message) /\ ToldIds(h)' \subseteq ToldIds(h) \cup {e.id}
    BY <1>1, <1>5, <2>1, <2>2, OrderTold
  <2>4. InLine(ToldIds(h)', AnswerIds(h)', PendingIds(h), RequestIds(h))
    BY <1>2, <1>3, <2>1, <2>3, InLineTell
  <2>. QED  BY <1>2, <1>3, <2>3, <2>4 DEF OrderOf
<1>6. CASE Tells(e.to, x) /\ e.to # h
  <2>1. x \in Message
    BY <1>6 DEF Tells
  <2>2. Ascending(outbox'[h], Message) /\ ToldIds(h)' \subseteq ToldIds(h)
    BY <1>6, <2>1, OrderTold
  <2>. QED  BY <1>2, <1>3, <2>2, OrderShrinks
<1>. QED  BY <1>1, <1>4, <1>5, <1>6

LEMMA OrderAtDispatcher ==
    ASSUME TypeOK, MatchInv, OrderInv, DispatcherStep
    PROVE  OrderInv'
<1>. SUFFICES ASSUME NEW h \in Handlers
              PROVE  OrderOf(h)'
  BY DEF OrderInv
<1>1. OrderOf(h)
  BY DEF OrderInv
<1>2. CASE PassesOn \/ Refuses \/ Routes
  BY <1>1, <1>2, OrderAtForward, OrderAtRefusal, OrderAtReply
<1>3. CASE Drops
  <2>1. TakesOne /\ SamePending /\ UNCHANGED <<outbox, replies>>
    BY <1>3 DEF Drops, TakesOne
  <2>. QED
    BY <1>1, <2>1, RequestsShrink, PendingStays, ToldStay, AnswersStay, OrderShrinks
<1>4. CASE SamePending /\ UNCHANGED <<requests, replies, outbox>>
  BY <1>1, <1>4, RequestsStay, PendingStays, ToldStay, AnswersStay, OrderShrinks
<1>. QED  BY <1>2, <1>3, <1>4, DispatcherShape
\* Module m takes none, the first or all of its requests.
LEMMA PendingShrinks ==
    ASSUME TypeOK, NEW h \in Handlers, OrderOf(h), NEW m \in Mods, OthersPend(m),
           \/ Pending(m)' = Pending(m)
           \/ Pending(m) # <<>> /\ Pending(m)' = Tail(Pending(m))
           \/ Pending(m)' = <<>>
    PROVE  /\ \A n \in Mods : Ascending(Pending(n)', From(h))
           /\ PendingIds(h)' \subseteq PendingIds(h)
           /\ Ids(Pending(m)', From(h)) \subseteq Ids(Pending(m), From(h))
<1>1. /\ Pending(m) \in Seq(Request)
      /\ \A n \in Mods : Ascending(Pending(n), From(h))
  BY PendingFacts DEF OrderOf
<1>2. Pending(m) # <<>> => /\ Ids(Tail(Pending(m)), From(h)) \subseteq Ids(Pending(m), From(h))
                           /\ Ascending(Tail(Pending(m)), From(h))
  BY <1>1, IdsTail
<1>3. Ids(<<>>, From(h)) = {} /\ Ascending(<<>>, From(h))
  BY IdsOfEmpty
<1>4. /\ Ascending(Pending(m)', From(h))
      /\ Ids(Pending(m)', From(h)) \subseteq Ids(Pending(m), From(h))
  BY <1>1, <1>2, <1>3
<1>5. \A n \in Mods : /\ Ascending(Pending(n)', From(h))
                      /\ Ids(Pending(n)', From(h)) \subseteq Ids(Pending(n), From(h))
  BY <1>1, <1>4 DEF OthersPend
<1>6. /\ PendingIds(h)' = UNION {Ids(Pending(n)', From(h)) : n \in Mods}
      /\ \A n \in Mods : Ids(Pending(n), From(h)) \subseteq PendingIds(h)
  BY DEF PendingIds
<1>7. \A n \in Mods : Ids(Pending(n)', From(h)) \subseteq PendingIds(h)
  BY <1>5, <1>6
<1>8. PendingIds(h)' \subseteq PendingIds(h)
  BY <1>6, <1>7
<1>. QED  BY <1>4, <1>5, <1>8

\* A module sends es, none of which is for h.
LEMMA RepliesOther ==
    ASSUME TypeOK, NEW h \in Handlers, OrderOf(h), NEW es \in Seq(ModReply),
           None(es, To(h)), replies' = replies \o es
    PROVE  Ascending(replies', To(h)) /\ AnswerIds(h)' = AnswerIds(h)
<1>1. replies \in Seq(ModReply) /\ Ascending(replies, To(h))
  BY DEF TypeOK, ChannelsTypeOK, OrderOf
<1>2. Ids(es, To(h)) = {} /\ Ascending(es, To(h))
  BY IdsOfNone
<1>3. Below(Ids(replies, To(h)), Ids(es, To(h)))
  BY <1>2 DEF Below
<1>4. /\ Ids(replies \o es, To(h)) = Ids(replies, To(h)) \cup Ids(es, To(h))
      /\ Ascending(replies \o es, To(h))
  BY <1>1, <1>2, <1>3, IdsConcatUp
<1>. QED  BY <1>2, <1>4 DEF AnswerIds

LEMMA EmissionsOther ==
    ASSUME NEW h \in Handlers, NEW m \in Mods, NEW es \in Seq(Emissions(m))
    PROVE  es \in Seq(ModReply) /\ None(es, To(h))
<1>1. Emissions(m) \cap To(h) = {}
  BY ChannelsAssumption DEF ChannelsAssumption, Emissions, To
<1>. QED  BY <1>1, EmissionsAreReplies, EveryIsNone

LEMMA OrderAtAnswer ==
    ASSUME TypeOK, MatchInv, NEW h \in Handlers, OrderOf(h), NEW m \in Mods, WorksOff(m),
           AtMostQuits
    PROVE  OrderOf(h)'
<1>. DEFINE r == Head(Pending(m))
<1>1. /\ Pending(m) \in Seq(Request) /\ Pending(m) # <<>>
      /\ Pending(m)' = Tail(Pending(m)) /\ OthersPend(m)
      /\ Ascending(Pending(m), From(h)) /\ replies \in Seq(ModReply)
      /\ Ascending(replies, To(h))
      /\ InLine(ToldIds(h), AnswerIds(h), PendingIds(h), RequestIds(h))
  BY PendingFacts DEF WorksOff, OrderOf, TypeOK, ChannelsTypeOK
<1>2. r \in SentTo(m)
  <2>1. Every(Pending(m), SentTo(m))
    BY DEF MatchInv
  <2>. QED  BY <1>1, <2>1, EveryTail
<1>3. PICK es \in Seq(Emissions(m)), e \in RepliesTo(m, r) : replies' = replies \o (es \o <<e>>)
  BY DEF WorksOff
<1>4. es \in Seq(ModReply) /\ None(es, To(h))
  BY EmissionsOther
<1>5. r \in From(h) =>
        r.id \in Ids(Pending(m), From(h)) /\ Below({r.id}, Ids(Pending(m)', From(h)))
  BY <1>1, IdsTail
<1>6. /\ \A n \in Mods : Ascending(Pending(n)', From(h))
      /\ PendingIds(h)' \subseteq PendingIds(h)
  BY <1>1, PendingShrinks
<1>7. /\ Ascending(outbox'[h], Message) /\ ToldIds(h)' = ToldIds(h)
      /\ Ascending(requests', From(h)) /\ RequestIds(h)' = RequestIds(h)
  BY ToldStay, QuitsStay DEF AtMostQuits
<1>. HIDE DEF r
<1>8. /\ e \in ModReply /\ e.to = r.hid /\ e.id = r.id
      /\ r \in Request /\ r.kind # "quit" /\ r.mod = m /\ r.mod = NameOf(r.hid)
  BY <1>2, <1>3 DEF RepliesTo, SentTo, Sent, ModuleRequests
<1>. DEFINE t == <<e>>
<1>9. t \in Seq(ModReply) /\ Ascending(t, To(h)) /\ (e \in To(h) => Ids(t, To(h)) = {e.id})
  <2>1. t \in Seq(ModReply)
    BY <1>8
  <2>2. Ascending(t, To(h)) /\ Ids(t, To(h)) = IF e \in To(h) THEN {e.id} ELSE {}
    BY IdsOfOne, Zenon
  <2>. HIDE DEF t
  <2>. QED  BY <2>1, <2>2
<1>10. e \notin To(h) => None(t, To(h))
  BY NoneOfOne
<1>. HIDE DEF t
<1>11. es \o t \in Seq(ModReply) /\ replies' = replies \o (es \o t)
  BY <1>3, <1>4, <1>9, ConcatProperties DEF t
<1>12. CASE r.hid = h
  <2>1. r \in From(h) /\ e \in To(h) /\ NameOf(h) = m
    BY <1>8, <1>12 DEF From, To
  <2>2. r.id \in PendingIds(h)
    BY <1>5, <2>1 DEF PendingIds
  <2>3. Below({r.id}, PendingIds(h)')
    <3>1. \A n \in Mods : n # m => Ids(Pending(n)', From(h)) = {}
      BY <1>1, <2>1, NothingElsewhere DEF OthersPend
    <3>2. \A n \in Mods : Below({r.id}, Ids(Pending(n)', From(h)))
      BY <1>5, <2>1, <3>1 DEF Below
    <3>3. PendingIds(h)' = UNION {Ids(Pending(n)', From(h)) : n \in Mods}
      BY DEF PendingIds
    <3>. QED  BY <3>2, <3>3 DEF Below
  <2>4. Ids(es, To(h)) = {} /\ Ascending(es, To(h)) /\ Ids(t, To(h)) = {r.id}
    BY <1>4, <1>8, <1>9, <2>1, IdsOfNone
  <2>5. Ids(es \o t, To(h)) = {r.id} /\ Ascending(es \o t, To(h))
    <3>1. Below(Ids(es, To(h)), Ids(t, To(h)))
      BY <2>4 DEF Below
    <3>2. /\ Ids(es \o t, To(h)) = Ids(es, To(h)) \cup Ids(t, To(h))
          /\ Ascending(es \o t, To(h))
      BY <1>4, <1>9, <2>4, <3>1, IdsConcatUp
    <3>. QED  BY <2>4, <3>2
  <2>6. Below(Ids(replies, To(h)), Ids(es \o t, To(h)))
    BY <1>1, <2>2, <2>5 DEF InLine, Below, AnswerIds
  <2>7. /\ Ids(replies \o (es \o t), To(h)) = Ids(replies, To(h)) \cup Ids(es \o t, To(h))
        /\ Ascending(replies \o (es \o t), To(h))
    BY <1>1, <1>11, <2>5, <2>6, IdsConcatUp
  <2>8. AnswerIds(h)' = AnswerIds(h) \cup {r.id} /\ Ascending(replies', To(h))
    BY <1>11, <2>5, <2>7 DEF AnswerIds
  <2>9. InLine(ToldIds(h), AnswerIds(h) \cup {r.id}, PendingIds(h)', RequestIds(h))
    BY <1>1, <1>6, <2>2, <2>3, InLineAnswer
  <2>. QED  BY <1>6, <1>7, <2>8, <2>9 DEF OrderOf
<1>13. CASE r.hid # h
  <2>1. None(t, To(h))
    BY <1>8, <1>10, <1>13 DEF To
  <2>2. None(es \o t, To(h))
    BY <1>4, <1>9, <2>1, ConcatNone
  <2>3. Ascending(replies', To(h)) /\ AnswerIds(h)' = AnswerIds(h)
    BY <1>11, <2>2, RepliesOther
  <2>. QED  BY <1>6, <1>7, <2>3, OrderShrinks
<1>. QED  BY <1>12, <1>13

LEMMA OrderAtModule ==
    ASSUME TypeOK, MatchInv, OrderInv, NEW m \in Mods, WorksSilently(m) \/ WorksOff(m),
           AtMostQuits
    PROVE  OrderInv'
<1>. SUFFICES ASSUME NEW h \in Handlers
              PROVE  OrderOf(h)'
  BY DEF OrderInv
<1>1. OrderOf(h)
  BY DEF OrderInv
<1>2. CASE WorksSilently(m)
  <2>1. PICK es \in Seq(Emissions(m)) : replies' = replies \o es
    BY <1>2 DEF WorksSilently
  <2>2. es \in Seq(ModReply) /\ None(es, To(h))
    BY EmissionsOther
  <2>3. Ascending(replies', To(h)) /\ AnswerIds(h)' = AnswerIds(h)
    BY <1>1, <2>1, <2>2, RepliesOther
  <2>4. /\ \A n \in Mods : Ascending(Pending(n)', From(h))
        /\ PendingIds(h)' \subseteq PendingIds(h)
    BY <1>1, <1>2, PendingShrinks DEF WorksSilently
  <2>5. /\ Ascending(outbox'[h], Message) /\ ToldIds(h)' = ToldIds(h)
        /\ Ascending(requests', From(h)) /\ RequestIds(h)' = RequestIds(h)
    BY <1>1, ToldStay, QuitsStay DEF AtMostQuits
  <2>. QED  BY <1>1, <2>3, <2>4, <2>5, OrderShrinks
<1>. QED  BY <1>1, <1>2, OrderAtAnswer

\* All that is on its way is of earlier calls than the next one.
LEMMA OrderAtCall ==
    ASSUME TypeOK, MatchInv, OrderInv, NEW g \in Handlers, Asks(g)
    PROVE  OrderInv'
<1>. SUFFICES ASSUME NEW h \in Handlers
              PROVE  OrderOf(h)'
  BY DEF OrderInv
<1>1. OrderOf(h)
  BY DEF OrderInv
<1>2. PICK kind \in ModuleRequests \cup {"ping"}, mod \in Names, val \in Vals \cup {NoVal} :
        Transact(g, kind, mod, val)
  BY DEF Asks
<1>. DEFINE r == CallOf(g, kind, mod, val)
<1>3. /\ r \in Request /\ requests' = Append(requests, r) /\ Len(calls[g]) \in Nat
      /\ r.hid = g /\ r.id = Len(calls[g]) + 1 /\ r.kind # "quit"
  <2>1. kind \in RequestKinds
    BY DEF RequestKinds
  <2>2. kind # "quit"
    BY DEF ModuleRequests
  <2>. QED  BY <1>2, <2>1, <2>2, TransactType DEF CallOf
<1>. HIDE DEF r
<1>4. /\ Ascending(outbox'[h], Message) /\ ToldIds(h)' = ToldIds(h)
      /\ Ascending(replies', To(h)) /\ AnswerIds(h)' = AnswerIds(h)
      /\ \A n \in Mods : Ascending(Pending(n)', From(h))
      /\ PendingIds(h)' = PendingIds(h)
      /\ InLine(ToldIds(h), AnswerIds(h), PendingIds(h), RequestIds(h))
  BY <1>1, ToldStay, AnswersStay, PendingStays DEF Asks, SamePending, OrderOf
<1>5. requests \in Seq(Request) /\ Ascending(requests, From(h))
  BY <1>1 DEF TypeOK, ChannelsTypeOK, OrderOf
<1>6. CASE g = h
  <2>. DEFINE d == r.id
  <2>1. \A x : OfCall(h, x) => x.id < d
    BY <1>3, <1>6 DEF OfCall
  <2>2. r \in From(h)
    BY <1>3, <1>6 DEF From
  <2>. HIDE DEF d
  <2>3. Below(ToldIds(h), {d})
    <3>1. Every(outbox[h], {x \in Message : OfCall(h, x)})
      BY DEF MatchInv
    <3>. QED  BY <2>1, <3>1, IdsBelow DEF ToldIds
  <2>4. Below(AnswerIds(h), {d})
    <3>1. Every(replies, SentBack) /\ Nobody \notin Handlers
      BY ChannelsAssumption DEF MatchInv, ChannelsAssumption
    <3>2. \A e \in SentBack : e \in To(h) => e.id < d
      BY <2>1, <3>1 DEF SentBack, To
    <3>. QED  BY <3>1, <3>2, IdsBelow DEF AnswerIds
  <2>5. \A e \in Sent : e \in From(h) => e.id < d
    BY <2>1 DEF Sent, From
  <2>6. Below(RequestIds(h), {d})
    <3>1. Every(requests, Sent)
      BY DEF MatchInv
    <3>. QED  BY <2>5, <3>1, IdsBelow DEF RequestIds
  <2>7. \A n \in Mods : Below(Ids(Pending(n), From(h)), {d})
    <3>1. ASSUME NEW n \in Mods
          PROVE  Below(Ids(Pending(n), From(h)), {d})
      <4>1. Every(Pending(n), SentTo(n)) /\ \A e \in SentTo(n) : e \in From(h) => e.id < d
        BY <2>5 DEF MatchInv, SentTo
      <4>. QED  BY <4>1, IdsBelow
    <3>. QED  BY <3>1
  <2>8. Below(PendingIds(h), {d})
    BY <2>7 DEF PendingIds, Below
  <2>9. /\ Ids(Append(requests, r), From(h)) = Ids(requests, From(h)) \cup {d}
        /\ Ascending(Append(requests, r), From(h))
    BY <1>3, <1>5, <2>2, <2>6, IdsAppendIn DEF RequestIds, d
  <2>10. RequestIds(h)' = RequestIds(h) \cup {d}
    BY <1>3, <2>9 DEF RequestIds
  <2>11. Below(ToldIds(h) \cup AnswerIds(h) \cup PendingIds(h) \cup RequestIds(h), {d})
    BY <2>3, <2>4, <2>6, <2>8 DEF Below
  <2>12. InLine(ToldIds(h), AnswerIds(h), PendingIds(h), RequestIds(h) \cup {d})
    BY <1>4, <2>11, InLineAsks
  <2>. QED  BY <1>3, <1>4, <2>9, <2>10, <2>12 DEF OrderOf
<1>7. CASE g # h
  <2>1. r \notin From(h)
    BY <1>3, <1>7 DEF From
  <2>2. /\ Ids(Append(requests, r), From(h)) = Ids(requests, From(h))
        /\ Ascending(Append(requests, r), From(h))
    BY <1>3, <1>5, <2>1, IdsAppendOut
  <2>3. Ascending(requests', From(h)) /\ RequestIds(h)' = RequestIds(h)
    BY <1>3, <2>2 DEF RequestIds
  <2>. QED  BY <1>1, <1>4, <2>3, OrderShrinks
<1>. QED  BY <1>6, <1>7

LEMMA OrderStep ==
    ASSUME TypeOK, TypeOK', OwnInv, NameInv, ServingInv, MatchInv, OrderInv, [Next]_vars
    PROVE  OrderInv'
<1>1. ASSUME Rests
      PROVE  OrderInv'
  <2>1. ASSUME NEW h \in Handlers
        PROVE  OrderOf(h)'
    <3>1. OrderOf(h) /\ SamePending /\ AtMostQuits /\ UNCHANGED <<outbox, replies>>
      BY <1>1 DEF OrderInv, Rests, SamePending, AtMostQuits
    <3>. QED  BY <3>1, QuitsStay, PendingStays, ToldStay, AnswersStay, OrderShrinks
  <2>. QED  BY <2>1 DEF OrderInv
<1>. QED  BY <1>1, NextShape, OrderAtModule, OrderAtCall, OrderAtDispatcher

LEMMA OrderInit ==
    ASSUME Init
    PROVE  OrderInv
<1>1. \A m \in Mods : Pending(m) = <<>>
  <2>1. \A m \in Mods : serving[m] = <<>> /\ modq[m] = <<>>
    BY DEF Init, CallerInit, ChannelsInit
  <2>2. <<>> \in Seq(Request)
    OBVIOUS
  <2>. QED  BY <2>1, <2>2, ConcatEmptySeq DEF Pending
<1>2. requests = <<>> /\ replies = <<>> /\ \A h \in Handlers : outbox[h] = <<>>
  BY DEF Init, ChannelsInit
<1>3. ASSUME NEW h \in Handlers
      PROVE  OrderOf(h)
  <2>1. /\ Ascending(outbox[h], Message) /\ ToldIds(h) = {}
        /\ Ascending(replies, To(h)) /\ AnswerIds(h) = {}
        /\ Ascending(requests, From(h)) /\ RequestIds(h) = {}
    BY <1>2, IdsOfEmpty DEF ToldIds, AnswerIds, RequestIds
  <2>2. \A m \in Mods : Ascending(Pending(m), From(h)) /\ Ids(Pending(m), From(h)) = {}
    BY <1>1, IdsOfEmpty
  <2>3. PendingIds(h) = {}
    BY <2>2 DEF PendingIds
  <2>. QED  BY <2>1, <2>2, <2>3 DEF OrderOf, InLine, Below
<1>. QED  BY <1>3 DEF OrderInv
-----------------------------------------------------------------------------
(* How far the replies are behind                                           *)

\* Counting the calls that timed out.
LEMMA CountTimeOuts ==
    ASSUME NEW s, NEW n \in Nat
    PROVE  /\ Cardinality({i \in 1 .. n : s[i].got = 0}) \in Nat
           /\ Cardinality({i \in 1 .. n + 1 : s[i].got = 0})
                = Cardinality({i \in 1 .. n : s[i].got = 0})
                    + (IF s[n + 1].got = 0 THEN 1 ELSE 0)
<1>. DEFINE A == {i \in 1 .. n : s[i].got = 0}
            B == {i \in 1 .. n + 1 : s[i].got = 0}
<1>1. IsFiniteSet(A) /\ n + 1 \notin A
  <2>1. IsFiniteSet(1 .. n)
    BY FS_Interval
  <2>. QED  BY <2>1, FS_Subset
<1>2. B = IF s[n + 1].got = 0 THEN A \cup {n + 1} ELSE A
  <2>1. \A i : i \in 1 .. n + 1 <=> (i \in 1 .. n \/ i = n + 1)
    OBVIOUS
  <2>. QED  BY <2>1
<1>. HIDE DEF A, B
<1>3. /\ Cardinality(A) \in Nat
      /\ Cardinality(A \cup {n + 1}) = Cardinality(A) + 1
  BY <1>1, FS_AddElement, FS_CardinalityType
<1>4. Cardinality(B) = Cardinality(A) + (IF s[n + 1].got = 0 THEN 1 ELSE 0)
  <2>1. CASE s[n + 1].got = 0
    BY <1>2, <1>3, <2>1
  <2>2. CASE s[n + 1].got # 0
    BY <1>2, <1>3, <2>2
  <2>. QED  BY <2>1, <2>2
<1>. QED  BY <1>3, <1>4 DEF A, B

\* What a step does to the local client of h: nothing, or a call of it returns.
LEMMA ClientStep ==
    ASSUME TypeOK, TypeOK', OwnInv, NameInv, ServingInv, [Next]_vars, NEW h \in Handlers
    PROVE  \/ /\ results'[h] = results[h] /\ taken'[h] = taken[h]
              /\ Len(outbox[h]) <= Len(outbox'[h])
              /\ \A i \in 1 .. Len(outbox[h]) : outbox'[h][i] = outbox[h][i]
           \/ (Receive(h) \/ TimeOut(h)) /\ outbox' = outbox
<1>1. /\ outbox[h] \in Seq(Message) /\ taken \in [Handlers -> Nat]
      /\ results \in [Handlers -> Seq([got : Nat, ok : BOOLEAN])]
  BY DEF TypeOK, ChannelsTypeOK, LocalTypeOK
<1>2. Len(outbox[h]) \in Nat
  BY <1>1, LenProperties
<1>3. ASSUME NEW g \in Handlers, Receive(g) \/ TimeOut(g), g # h
      PROVE  results'[h] = results[h] /\ taken'[h] = taken[h]
  BY <1>1, <1>3 DEF Receive, TimeOut, TakeOff, Return
<1>4. CASE DispatcherStep
  BY <1>4, NodeTyped, OutboxGrows DEF DispatcherStep, localVars
<1>5. ASSUME outbox' = outbox, results'[h] = results[h], taken'[h] = taken[h]
      PROVE  /\ results'[h] = results[h] /\ taken'[h] = taken[h]
             /\ Len(outbox[h]) <= Len(outbox'[h])
             /\ \A i \in 1 .. Len(outbox[h]) : outbox'[h][i] = outbox[h][i]
  BY <1>2, <1>5
<1>6. ASSUME NEW m \in Mods \ Callers, ModuleStep(m)
      PROVE  outbox' = outbox /\ UNCHANGED <<results, taken>>
  <2>1. ModuleNext(m) /\ UNCHANGED <<results, taken>>
    BY <1>6 DEF ModuleStep, localVars
  <2>. QED  BY <2>1, NodeTyped, ModuleShape DEF Emits, AnswersFirst
<1>7. ASSUME NEW m \in Callers, CallerStep(m)
      PROVE  /\ outbox' = outbox
             /\ \/ UNCHANGED <<results, taken>>
                \/ \E g \in Handlers : Receive(g) \/ TimeOut(g)
  <2>1. outbox' = outbox
    BY <1>7, CallerStepShape DEF AtMostQuits, Rests, Asks
  <2>. QED  BY <1>7, <2>1, CallerShape
<1>8. ASSUME NEW g \in DOMAIN Users, UserStep(g)
      PROVE  /\ outbox' = outbox
             /\ \/ UNCHANGED <<results, taken>>
                \/ \E k \in Handlers : Receive(k) \/ TimeOut(k)
  <2>1. outbox' = outbox /\ g \in Handlers
    BY <1>8, UserStepShape, CallerFacts DEF AtMostQuits, Rests, Asks
  <2>. QED  BY <1>8, <2>1, UserShape
<1>9. CASE UNCHANGED vars
  BY <1>5, <1>9 DEF vars, chanVars, localVars
<1>10. \/ DispatcherStep
       \/ UNCHANGED vars
       \/ outbox' = outbox /\ UNCHANGED <<results, taken>>
       \/ outbox' = outbox /\ \E g \in Handlers : Receive(g) \/ TimeOut(g)
  BY <1>6, <1>7, <1>8 DEF Next
<1>. QED  BY <1>3, <1>4, <1>5, <1>9, <1>10

\* The replies of a client that makes no step stay as they are.
LEMMA LagStays ==
    ASSUME TypeOK, NEW h \in Handlers, LagOf(h),
           results'[h] = results[h], taken'[h] = taken[h],
           \A i \in 1 .. Len(outbox[h]) : outbox'[h][i] = outbox[h][i]
    PROVE  LagOf(h)'
<1>1. /\ taken[h] \in Nat /\ taken[h] <= Len(outbox[h]) /\ outbox[h] \in Seq(Message)
  BY DEF TypeOK, ChannelsTypeOK, LocalTypeOK
<1>2. Len(outbox[h]) \in Nat
  BY <1>1, LenProperties
<1>3. taken[h] # 0 => taken[h] \in 1 .. Len(outbox[h])
  BY <1>1, <1>2
<1>4. LastTaken(h)' = LastTaken(h)
  BY <1>3 DEF LastTaken
<1>5. \A n : TimeOuts(h, n)' = TimeOuts(h, n)
  BY DEF TimeOuts
<1>. QED  BY <1>4, <1>5 DEF LagOf

\* What lies behind the message last taken answers a later call.
LEMMA UnreadLater ==
    ASSUME TypeOK, MatchInv, OrderInv, NEW h \in Handlers,
           NEW i \in taken[h] + 1 .. Len(outbox[h])
    PROVE  /\ i \in 1 .. Len(outbox[h]) /\ outbox[h][i] \in Message
           /\ outbox[h][i].id \in 1 .. Len(calls[h])
           /\ LastTaken(h) \in Nat /\ LastTaken(h) < outbox[h][i].id
<1>1. /\ taken[h] \in Nat /\ taken[h] <= Len(outbox[h]) /\ outbox[h] \in Seq(Message)
      /\ calls[h] \in Seq(Request)
  BY DEF TypeOK, ChannelsTypeOK, LocalTypeOK
<1>2. Len(outbox[h]) \in Nat /\ Len(calls[h]) \in Nat
  BY <1>1, LenProperties
<1>3. i \in 1 .. Len(outbox[h]) /\ (taken[h] # 0 => taken[h] \in 1 .. Len(outbox[h]) /\ taken[h] < i)
  BY <1>1, <1>2
<1>4. \A k \in 1 .. Len(outbox[h]) : outbox[h][k] \in Message /\ outbox[h][k].id \in 1 .. Len(calls[h])
  <2>1. Every(outbox[h], {x \in Message : OfCall(h, x)})
    BY DEF MatchInv
  <2>. QED  BY <2>1 DEF Every, OfCall
<1>5. CASE taken[h] = 0
  BY <1>2, <1>3, <1>4, <1>5 DEF LastTaken
<1>6. CASE taken[h] # 0
  <2>1. Ascending(outbox[h], Message)
    BY DEF OrderInv, OrderOf
  <2>2. outbox[h][taken[h]].id < outbox[h][i].id
    BY <1>3, <1>4, <1>6, <2>1 DEF Ascending
  <2>3. outbox[h][taken[h]].id \in Nat
    BY <1>3, <1>4, <1>6 DEF Message
  <2>. QED  BY <1>3, <1>4, <1>6, <2>2, <2>3 DEF LastTaken
<1>. QED  BY <1>5, <1>6

LEMMA LastTakenType ==
    ASSUME TypeOK, NEW h \in Handlers
    PROVE  LastTaken(h) \in Nat
<1>1. /\ taken[h] \in Nat /\ taken[h] <= Len(outbox[h]) /\ outbox[h] \in Seq(Message)
  BY DEF TypeOK, ChannelsTypeOK, LocalTypeOK
<1>2. Len(outbox[h]) \in Nat
  BY <1>1, LenProperties
<1>3. CASE taken[h] # 0
  <2>1. taken[h] \in 1 .. Len(outbox[h])
    BY <1>1, <1>2, <1>3
  <2>2. outbox[h][taken[h]] \in Message
    BY <1>1, <2>1, ElementOfSeq
  <2>. QED  BY <1>3, <2>2 DEF LastTaken, Message
<1>. QED  BY <1>3 DEF LastTaken

\* A call returns: with a later answer than all before, or after a time-out.
LEMMA LagAtReturn ==
    ASSUME TypeOK, MatchInv, OrderInv, NEW h \in Handlers, LagOf(h),
           Receive(h) \/ TimeOut(h), outbox' = outbox
    PROVE  LagOf(h)'
<1>0. PICK n : n = Len(results[h])
  OBVIOUS
<1>1. PICK got \in Nat, ok \in BOOLEAN :
        /\ Return(h, got, ok) /\ Calling(h)
        /\ \/ /\ taken[h] < Len(outbox[h]) /\ taken[h] + 1 \in 1 .. Len(outbox[h])
              /\ taken' = [taken EXCEPT ![h] = @ + 1]
              /\ got = outbox[h][taken[h] + 1].id
           \/ got = 0 /\ taken' = taken
  BY ReceiveType
<1>2. /\ n \in Nat /\ Len(results'[h]) = n + 1 /\ Len(calls[h]) = n + 1
      /\ results'[h][n + 1] = [got |-> got, ok |-> ok]
      /\ \A i \in 1 .. n : results'[h][i] = results[h][i]
  BY <1>0, <1>1, ReturnType
<1>. DEFINE L == LastTaken(h)
            L1 == LastTaken(h)'
<1>3. /\ L \in Nat /\ L1 \in Nat
      /\ \/ got = 0 /\ L1 = L
         \/ L < got /\ L1 = got /\ got <= n + 1
  <2>1. L \in Nat /\ taken \in [Handlers -> Nat]
    BY LastTakenType DEF TypeOK, LocalTypeOK
  <2>2. CASE got = 0 /\ taken' = taken
    BY <2>1, <2>2 DEF LastTaken
  <2>3. CASE /\ taken[h] + 1 \in 1 .. Len(outbox[h])
             /\ taken' = [taken EXCEPT ![h] = @ + 1]
             /\ got = outbox[h][taken[h] + 1].id
    <3>1. outbox[h] \in Seq(Message)
      BY DEF TypeOK, ChannelsTypeOK
    <3>2. Len(outbox[h]) \in Nat
      BY <3>1, LenProperties
    <3>3. taken[h] + 1 \in taken[h] + 1 .. Len(outbox[h])
      BY <2>1, <2>3, <3>2
    <3>4. got \in 1 .. Len(calls[h]) /\ L < got
      BY <2>3, <3>3, UnreadLater
    <3>5. taken'[h] = taken[h] + 1 /\ taken[h] + 1 # 0
      BY <2>1, <2>3
    <3>6. L1 = got
      BY <2>3, <3>5 DEF LastTaken
    <3>. QED  BY <1>2, <2>1, <3>4, <3>6
  <2>. QED  BY <1>1, <2>2, <2>3
<1>4. /\ \A k \in 0 .. n : TimeOuts(h, k)' = TimeOuts(h, k) /\ TimeOuts(h, k) \in Nat
      /\ TimeOuts(h, n + 1)' = TimeOuts(h, n) + IF got = 0 THEN 1 ELSE 0
  <2>1. ASSUME NEW k \in 0 .. n
        PROVE  TimeOuts(h, k)' = TimeOuts(h, k) /\ TimeOuts(h, k) \in Nat
    <3>1. k \in Nat /\ \A i \in 1 .. k : i \in 1 .. n
      BY <1>2
    <3>2. {i \in 1 .. k : results'[h][i].got = 0} = {i \in 1 .. k : results[h][i].got = 0}
      BY <1>2, <3>1
    <3>3. Cardinality({i \in 1 .. k : results[h][i].got = 0}) \in Nat
      BY <3>1, CountTimeOuts
    <3>. QED  BY <3>2, <3>3 DEF TimeOuts
  <2>2. TimeOuts(h, n + 1)' = TimeOuts(h, n)' + IF results'[h][n + 1].got = 0 THEN 1 ELSE 0
    BY <1>2, CountTimeOuts DEF TimeOuts
  <2>3. n \in 0 .. n /\ results'[h][n + 1].got = got
    BY <1>2
  <2>4. TimeOuts(h, n)' = TimeOuts(h, n)
    BY <2>1, <2>3
  <2>5. TimeOuts(h, n + 1)' = TimeOuts(h, n) + IF got = 0 THEN 1 ELSE 0
    BY <2>2, <2>3, <2>4
  <2>. QED  BY <2>1, <2>5
<1>5. /\ n <= TimeOuts(h, n) + L
      /\ \A i \in 1 .. n : results[h][i].got <= L
      /\ \A i \in 1 .. n : results[h][i].got \in Nat
  <2>1. results[h] \in Seq([got : Nat, ok : BOOLEAN])
    BY DEF TypeOK, LocalTypeOK
  <2>2. \A i \in 1 .. n : results[h][i] \in [got : Nat, ok : BOOLEAN]
    BY <1>0, <2>1, ElementOfSeq
  <2>. QED  BY <1>0, <2>2 DEF LagOf
<1>. HIDE DEF L, L1
<1>6. n + 1 <= TimeOuts(h, n + 1)' + L1
  BY <1>2, <1>3, <1>4, <1>5
<1>7. ASSUME NEW i \in 1 .. n + 1
      PROVE  LET g == results'[h][i].got
             IN  /\ g <= L1
                 /\ g # 0 => /\ g <= i
                             /\ i - g <= TimeOuts(h, i - 1)'
                             /\ \A j \in 1 .. i - 1 : results'[h][j].got < g
  <2>1. CASE i = n + 1
    <3>a. i - 1 = n /\ n \in 0 .. n
      BY <1>2, <2>1
    <3>b. TimeOuts(h, i - 1)' = TimeOuts(h, n) /\ TimeOuts(h, n) \in Nat
      BY <1>4, <3>a
    <3>c. \A j \in 1 .. n : results'[h][j].got <= L /\ results'[h][j].got \in Nat
      BY <1>2, <1>5
    <3>1. /\ results'[h][i].got = got
          /\ \A j \in 1 .. i - 1 : results'[h][j].got <= L
          /\ TimeOuts(h, i - 1)' = TimeOuts(h, n) /\ TimeOuts(h, n) \in Nat
      BY <1>2, <2>1, <3>a, <3>b, <3>c
    <3>2. got # 0 => \A j \in 1 .. i - 1 : results'[h][j].got < got
      <4>. SUFFICES ASSUME got # 0, NEW j \in 1 .. i - 1
                    PROVE  results'[h][j].got < got
        OBVIOUS
      <4>1. results'[h][j].got <= L /\ results'[h][j].got \in Nat
        BY <3>a, <3>c
      <4>. QED  BY <1>3, <4>1
    <3>3. got # 0 => i - got <= TimeOuts(h, n)
      BY <1>2, <1>3, <1>5, <2>1, <3>1
    <3>. QED  BY <1>3, <2>1, <3>1, <3>2, <3>3
  <2>2. CASE i \in 1 .. n
    <3>1. /\ results'[h][i] = results[h][i] /\ \A j \in 1 .. i - 1 : results'[h][j] = results[h][j]
          /\ TimeOuts(h, i - 1)' = TimeOuts(h, i - 1)
      BY <1>2, <1>4, <2>2
    <3>2. LET g == results[h][i].got
          IN  g # 0 => /\ g <= i
                       /\ i - g <= TimeOuts(h, i - 1)
                       /\ \A j \in 1 .. i - 1 : results[h][j].got < g
      BY <1>0, <2>2 DEF LagOf
    <3>3. results[h][i].got <= L1
      BY <1>3, <1>5, <2>2
    <3>. QED  BY <3>1, <3>2, <3>3
  <2>. QED  BY <1>2, <2>1, <2>2
<1>. QED  BY <1>2, <1>6, <1>7 DEF LagOf, L1

LEMMA LagStep ==
    ASSUME TypeOK, TypeOK', OwnInv, NameInv, ServingInv, MatchInv, OrderInv, LagInv, [Next]_vars
    PROVE  LagInv'
<1>1. ASSUME NEW h \in Handlers
      PROVE  LagOf(h)'
  BY ClientStep, LagStays, LagAtReturn DEF LagInv
<1>. QED  BY <1>1 DEF LagInv

LEMMA LagInit ==
    ASSUME Init
    PROVE  LagInv
<1>1. ASSUME NEW h \in Handlers
      PROVE  LagOf(h)
  <2>1. results[h] = <<>> /\ taken[h] = 0
    BY DEF Init, LocalInit
  <2>2. Len(results[h]) = 0 /\ 1 .. 0 = {}
    BY <2>1
  <2>3. TimeOuts(h, 0) \in Nat
    BY CountTimeOuts DEF TimeOuts
  <2>. QED  BY <2>1, <2>2, <2>3 DEF LagOf, LastTaken
<1>. QED  BY <1>1 DEF LagInv

-----------------------------------------------------------------------------
(* The theorems                                                             *)

IInv == TypeOK /\ OwnInv /\ NameInv /\ ServingInv /\ MatchInv /\ OrderInv /\ LagInv

LEMMA CallingCorrect == Spec => []IInv
<1>1. Init => IInv
  BY SafeInit, NameInit, ServingInit, MatchInit, OrderInit, LagInit DEF IInv
<1>2. IInv /\ [Next]_vars => IInv'
  <2>. SUFFICES ASSUME IInv, [Next]_vars
                PROVE  IInv'
    OBVIOUS
  <2>1. TypeOK /\ OwnInv /\ NameInv /\ ServingInv /\ MatchInv /\ OrderInv /\ LagInv
    BY DEF IInv
  <2>2. TypeOK' /\ OwnInv'
    BY <2>1, SafeStep
  <2>3. NameInv' /\ ServingInv'
    BY <2>1, NameStep, ServingStep
  <2>4. MatchInv' /\ OrderInv' /\ LagInv'
    BY <2>1, <2>2, MatchStep, OrderStep, LagStep
  <2>. QED  BY <2>2, <2>3, <2>4 DEF IInv
<1>. QED  BY <1>1, <1>2, PTL DEF Spec

\* The reply of a local client may be that to an earlier call, but it is never
\* one given before, never one of a call not made yet, and it is behind by no
\* more calls than have timed out (client.rs:124-130).
THEOREM LagStaysBounded == Spec => []LagBounded
<1>1. IInv => LagBounded
  <2>. SUFFICES ASSUME IInv, NEW h \in Handlers, NEW i \in 1 .. Len(results[h]),
                       results[h][i].got # 0
                PROVE  /\ results[h][i].got <= i
                       /\ i - results[h][i].got <= TimeOuts(h, i - 1)
                       /\ \A j \in 1 .. i - 1 : results[h][j].got < results[h][i].got
    BY DEF LagBounded
  <2>1. LagOf(h)
    BY DEF IInv, LagInv
  <2>. QED  BY <2>1 DEF LagOf
<1>. QED  BY <1>1, CallingCorrect, PTL

\* The messages behind the one last taken have ids of their own, all of them
\* later: there are no more of them than calls after that one.
LEMMA UnreadCounted ==
    ASSUME TypeOK, MatchInv, OrderInv, NEW h \in Handlers,
           LastTaken(h) <= Len(calls[h])
    PROVE  Len(outbox[h]) - taken[h] <= Len(calls[h]) - LastTaken(h)
<1>. DEFINE S == taken[h] + 1 .. Len(outbox[h])
            T == LastTaken(h) + 1 .. Len(calls[h])
            f == [i \in S |-> outbox[h][i].id]
<1>1. /\ taken[h] \in Nat /\ Len(outbox[h]) \in Nat /\ taken[h] <= Len(outbox[h])
      /\ Len(calls[h]) \in Nat /\ LastTaken(h) \in Nat
  <2>1. /\ taken[h] \in Nat /\ taken[h] <= Len(outbox[h])
        /\ outbox[h] \in Seq(Message) /\ calls[h] \in Seq(Request)
    BY DEF TypeOK, ChannelsTypeOK, LocalTypeOK
  <2>. QED  BY <2>1, LenProperties, LastTakenType
<1>2. ASSUME NEW i \in S
      PROVE  i \in 1 .. Len(outbox[h]) /\ outbox[h][i] \in Message /\ outbox[h][i].id \in T
  <2>1. /\ i \in 1 .. Len(outbox[h]) /\ outbox[h][i] \in Message
        /\ outbox[h][i].id \in 1 .. Len(calls[h])
        /\ LastTaken(h) < outbox[h][i].id
    BY UnreadLater
  <2>. QED  BY <1>1, <2>1
<1>3. ASSUME NEW i \in S, NEW j \in S, f[i] = f[j]
      PROVE  i = j
  <2>1. Ascending(outbox[h], Message)
    BY DEF OrderInv, OrderOf
  <2>2. /\ i \in 1 .. Len(outbox[h]) /\ outbox[h][i] \in Message
        /\ j \in 1 .. Len(outbox[h]) /\ outbox[h][j] \in Message
        /\ outbox[h][i].id = outbox[h][j].id
    BY <1>2, <1>3
  <2>3. outbox[h][i].id \in Nat
    BY <2>2 DEF Message
  <2>. HIDE DEF S, T, f
  <2>4. ~(i < j) /\ ~(j < i)
    BY <2>1, <2>2, <2>3 DEF Ascending
  <2>. QED  BY <1>1, <2>2, <2>4
<1>4. f \in Injection(S, T)
  BY <1>2, <1>3 DEF Injection, IsInjective
<1>5. ASSUME NEW a \in Nat, NEW b \in Nat, a <= b
      PROVE  IsFiniteSet(a + 1 .. b) /\ Cardinality(a + 1 .. b) = b - a
  <2>. DEFINE c == a + 1
  <2>1. c \in Int /\ b \in Int
    BY <1>5
  <2>. HIDE DEF c
  <2>2. IsFiniteSet(c .. b) /\ Cardinality(c .. b) = IF c > b THEN 0 ELSE b - c + 1
    BY <2>1, FS_Interval
  <2>. USE DEF c
  <2>. QED  BY <1>5, <2>2
<1>6. /\ IsFiniteSet(T) /\ Cardinality(T) = Len(calls[h]) - LastTaken(h)
      /\ Cardinality(S) = Len(outbox[h]) - taken[h]
  BY <1>1, <1>5
<1>. HIDE DEF S, T, f
<1>7. Cardinality(S) <= Cardinality(T)
  BY <1>4, <1>6, FS_Injection
<1>. QED  BY <1>6, <1>7

\* A local client never has more unread messages than it has timed-out calls, one
\* more while it waits, and none of them is as old as an answer it has taken
\* (client.rs:124-130).
THEOREM UnreadStaysBounded == Spec => []UnreadBounded
<1>1. IInv => UnreadBounded
  <2>. SUFFICES ASSUME IInv, NEW h \in Handlers
                PROVE  /\ Len(outbox[h]) - taken[h]
                            <= TimeOuts(h, Len(results[h])) + (IF Calling(h) THEN 1 ELSE 0)
                       /\ \A i \in taken[h] + 1 .. Len(outbox[h]) :
                            /\ outbox[h][i].id \in 1 .. Len(calls[h])
                            /\ \A j \in 1 .. Len(results[h]) : results[h][j].got < outbox[h][i].id
    BY DEF UnreadBounded
  <2>1. TypeOK /\ MatchInv /\ OrderInv /\ LagOf(h)
    BY DEF IInv, LagInv
  <2>2. /\ results[h] \in Seq([got : Nat, ok : BOOLEAN]) /\ calls[h] \in Seq(Request)
        /\ outbox[h] \in Seq(Message) /\ taken[h] \in Nat /\ taken[h] <= Len(outbox[h])
        /\ Len(calls[h]) - Len(results[h]) \in {0, 1}
    BY <2>1 DEF TypeOK, ChannelsTypeOK, LocalTypeOK
  <2>3. /\ Len(results[h]) \in Nat /\ Len(calls[h]) \in Nat /\ Len(outbox[h]) \in Nat
        /\ LastTaken(h) \in Nat
    BY <2>1, <2>2, LenProperties, LastTakenType
  <2>4. TimeOuts(h, Len(results[h])) \in Nat
    BY <2>3, CountTimeOuts DEF TimeOuts
  <2>5. Len(results[h]) <= TimeOuts(h, Len(results[h])) + LastTaken(h)
    BY <2>1 DEF LagOf
  <2>6. LastTaken(h) <= Len(calls[h])
    <3>1. CASE taken[h] # 0
      <4>1. taken[h] \in 1 .. Len(outbox[h])
        BY <2>2, <2>3, <3>1
      <4>2. Every(outbox[h], {x \in Message : OfCall(h, x)})
        BY <2>1 DEF MatchInv
      <4>3. outbox[h][taken[h]].id \in 1 .. Len(calls[h])
        BY <4>1, <4>2 DEF Every, OfCall
      <4>. QED  BY <2>3, <3>1, <4>3 DEF LastTaken
    <3>. QED  BY <2>3, <3>1 DEF LastTaken
  <2>7. Len(outbox[h]) - taken[h] <= Len(calls[h]) - LastTaken(h)
    BY <2>1, <2>6, UnreadCounted
  <2>8. Len(calls[h]) = Len(results[h]) + (IF Calling(h) THEN 1 ELSE 0)
    <3>1. CASE Calling(h)
      BY <2>2, <2>3, <3>1 DEF Calling
    <3>2. CASE ~Calling(h)
      BY <2>2, <2>3, <3>2 DEF Calling
    <3>. QED  BY <3>1, <3>2
  <2>9. Len(outbox[h]) - taken[h]
          <= TimeOuts(h, Len(results[h])) + (IF Calling(h) THEN 1 ELSE 0)
    <3>. DEFINE w == IF Calling(h) THEN 1 ELSE 0
    <3>1. w \in Nat /\ Len(calls[h]) = Len(results[h]) + w
      BY <2>8
    <3>. HIDE DEF w
    <3>2. ASSUME NEW o \in Nat, NEW t \in Nat, NEW c \in Nat, NEW l \in Nat, NEW n \in Nat,
                 NEW r \in Nat, r <= n + l, o - t <= c - l, c = r + w
          PROVE  o - t <= n + w
      BY <3>1, <3>2
    <3>3. Len(outbox[h]) - taken[h] <= TimeOuts(h, Len(results[h])) + w
      BY <2>2, <2>3, <2>4, <2>5, <2>7, <3>1, <3>2
    <3>. QED  BY <3>3 DEF w
  <2>10. ASSUME NEW i \in taken[h] + 1 .. Len(outbox[h])
         PROVE  /\ outbox[h][i].id \in 1 .. Len(calls[h])
                /\ \A j \in 1 .. Len(results[h]) : results[h][j].got < outbox[h][i].id
    <3>1. /\ outbox[h][i].id \in 1 .. Len(calls[h])
          /\ LastTaken(h) < outbox[h][i].id
      BY <2>1, UnreadLater
    <3>2. \A j \in 1 .. Len(results[h]) : results[h][j].got <= LastTaken(h)
      BY <2>1 DEF LagOf
    <3>3. \A j \in 1 .. Len(results[h]) : results[h][j].got \in Nat
      <4>1. \A j \in 1 .. Len(results[h]) : results[h][j] \in [got : Nat, ok : BOOLEAN]
        BY <2>2, ElementOfSeq
      <4>. QED  BY <4>1
    <3>4. outbox[h][i].id \in Nat
      BY <2>3, <3>1
    <3>5. ASSUME NEW j \in 1 .. Len(results[h])
          PROVE  results[h][j].got < outbox[h][i].id
      <4>1. results[h][j].got <= LastTaken(h) /\ results[h][j].got \in Nat
        BY <3>2, <3>3
      <4>. QED  BY <2>3, <3>1, <3>4, <4>1
    <3>. QED  BY <3>1, <3>5
  <2>. QED  BY <2>9, <2>10
<1>. QED  BY <1>1, CallingCorrect, PTL
==============================================================================
