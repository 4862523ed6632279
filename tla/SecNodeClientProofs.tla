-------------------------- MODULE SecNodeClientProofs --------------------------
(***************************************************************************)
(* Proofs about what SecNode tells its clients, beyond the order: whom it  *)
(* sends events, whose activation is done, and what is described.          *)
(***************************************************************************)
EXTENDS SecNodeProofs

-----------------------------------------------------------------------------
(* Who has answered is described                                            *)

Descriptions(m) == {e \in Emissions(m) : e.kind = "describing"}

\* With D described, and replies rs: m is described before reply k is taken.
DescribedBefore(D, rs, m, k) ==
    m \in D \/ \E j \in 1 .. k - 1 : rs[j] \in Descriptions(m)

\* Answers on their way come after the description of who gave them.
AnswersAfterDescription ==
    \A k \in 1 .. Len(replies) :
      (replies[k].id # 0 /\ replies[k].from \in Visible)
        => DescribedBefore(described, replies, replies[k].from, k)

RunningIsDescribed ==
    \A m \in Visible : mstate[m] = "running" => DescribedBefore(described, replies, m, Len(replies) + 1)

\* What needs a description: an answer of m with a result.
Results(m) ==
    {a \in Message : a.mod = m /\ a.id # 0 /\ a.kind \in {"update", "changed", "done"}}

ResultsDescribed ==
    \A h \in Handlers : \A m \in Visible \ described : None(outbox[h], Results(m))

DescribedInv == ResultsDescribed /\ AnswersAfterDescription /\ RunningIsDescribed

\* Messages that are no results of modules that are not described.
LEMMA ResultsAdded ==
    ASSUME TypeOK, ResultsDescribed, described \subseteq described',
           NEW h \in Handlers, NEW ms \in Seq(Message),
           \A m \in Visible \ described' : None(ms, Results(m)),
           outbox' \in {outbox, [outbox EXCEPT ![h] = @ \o ms]}
    PROVE  ResultsDescribed'
<1>. SUFFICES ASSUME NEW g \in Handlers, NEW m \in Visible \ described'
              PROVE  None(outbox'[g], Results(m))
  BY DEF ResultsDescribed
<1>1. None(outbox[g], Results(m)) /\ outbox \in [Handlers -> Seq(Message)]
  BY QueueTypes DEF ResultsDescribed
<1>2. outbox[g] \in Seq(Message)
  BY <1>1
<1>. DEFINE G == Results(m)
<1>3. None(ms, G)
  OBVIOUS
<1>. HIDE DEF G
<1>4. None(outbox[g], G) => None(outbox[g] \o ms, G)
  BY <1>2, <1>3, ConcatNone
<1>5. outbox'[g] = outbox[g] \/ outbox'[g] = outbox[g] \o ms
  BY <1>1
<1>. QED  BY <1>1, <1>4, <1>5 DEF G

\* Replies are added.
LEMMA DescribedGrows ==
    ASSUME TypeOK, NEW es \in Seq(ModReply), replies' = replies \o es,
           described' = described
    PROVE  /\ \A m \in Mods, k \in Nat :
                k <= Len(replies) + 1 /\ DescribedBefore(described, replies, m, k)
                  => DescribedBefore(described', replies', m, k)
           /\ Len(replies') = Len(replies) + Len(es)
           /\ \A k \in 1 .. Len(replies) : replies'[k] = replies[k]
           /\ \A k \in 1 .. Len(es) : replies'[Len(replies) + k] = es[k]
           /\ Len(replies) \in Nat /\ Len(es) \in Nat
<1>1. /\ replies \in Seq(ModReply) /\ Len(replies) \in Nat /\ Len(es) \in Nat
      /\ Len(replies') = Len(replies) + Len(es)
      /\ \A i \in 1 .. Len(replies) + Len(es) :
           replies'[i] = IF i <= Len(replies) THEN replies[i] ELSE es[i - Len(replies)]
  BY QueueTypes, ConcatProperties, LenProperties
<1>2. \A k \in 1 .. Len(replies) : replies'[k] = replies[k]
  BY <1>1
<1>3. \A k \in 1 .. Len(es) : replies'[Len(replies) + k] = es[k]
  BY <1>1
<1>4. ASSUME NEW m \in Mods, NEW k \in Nat, k <= Len(replies) + 1,
             DescribedBefore(described, replies, m, k)
      PROVE  DescribedBefore(described', replies', m, k)
  BY <1>1, <1>2, <1>4 DEF DescribedBefore
<1>. QED  BY <1>1, <1>2, <1>3, <1>4

\* What a step of a module adds, where a description is among it, and from where on
\* it runs.
LEMMA StartShape ==
    ASSUME TypeOK, NEW m \in Mods, ModuleNext(m)
    PROVE  /\ \A n \in Mods : n # m => mstate'[n] = mstate[n]
           /\ mstate'[m] = "running" =>
                \/ mstate[m] = "running"
                \/ /\ InitialEvents(m) \in Seq(ModReply) /\ Description(m) \in Seq(ModReply)
                   /\ replies' = replies \o (InitialEvents(m) \o Description(m))
<1>1. mstate \in [Mods -> {"starting", "running", "panicked", "waiting"}]
  BY DEF TypeOK, ModuleTypeOK
<1>2. CASE StartOk(m)
  <2>1. InitialEvents(m) \in Seq(ModReply) /\ Description(m) \in Seq(ModReply)
    BY NodeTyped, InitialType, DescriptionType
  <2>2. replies' = replies \o (InitialEvents(m) \o Description(m))
    BY <1>2 DEF StartOk, Send
  <2>3. \A n \in Mods : n # m => mstate'[n] = mstate[n]
    BY <1>1, <1>2 DEF StartOk
  <2>. QED  BY <2>1, <2>2, <2>3
<1>3. CASE StartFails(m)
  BY <1>1, <1>3 DEF StartFails
<1>4. CASE HandleRequest(m)
  BY <1>1, <1>4 DEF HandleRequest, HandleRead, HandleChange, HandleDo, HandleActivate,
     TakeModRequest
<1>5. CASE Poll(m) \/ HardwareDrift(m)
  BY <1>1, <1>5 DEF Poll, HardwareDrift
<1>6. CASE Panic(m) \/ Drain(m) \/ Wake(m)
  BY <1>1, <1>6 DEF Panic, Drain, Wake
<1>. QED  BY <1>2, <1>3, <1>4, <1>5, <1>6 DEF ModuleNext

LEMMA DescribedAtModule ==
    ASSUME TypeOK, DescribedInv, NEW m \in Mods, ModuleNext(m), described' = described
    PROVE  DescribedInv'
<1>1. PICK es \in Seq(ModReply) :
        /\ replies' = replies \o es
        /\ \A k \in 1 .. Len(es) :
             es[k].id = 0 \/ (es[k].from = m /\ mstate[m] = "running")
  <2>1. CASE Emits(m)
    <3>1. PICK es \in Seq(Emissions(m)) : replies' = replies \o es
      BY <2>1 DEF Emits
    <3>2. es \in Seq(ModReply) /\ \A k \in 1 .. Len(es) : es[k].id = 0
      BY EmissionsAreReplies DEF Every, Emissions
    <3>. QED  BY <3>1, <3>2
  <2>2. CASE AnswersFirst(m)
    <3>1. PICK es \in Seq(Emissions(m)), e \in AnswersOf(m, Head(modq[m])) :
            replies' = replies \o (es \o <<e>>)
      BY <2>2 DEF AnswersFirst
    <3>. DEFINE t == <<e>>
    <3>2. es \in Seq(ModReply) /\ \A k \in 1 .. Len(es) : es[k].id = 0
      BY EmissionsAreReplies DEF Every, Emissions
    <3>3. /\ e \in ModReply /\ e.from = m /\ t \in Seq(ModReply) /\ Len(t) = 1 /\ t[1] = e
      BY DEF AnswersOf
    <3>. HIDE DEF t
    <3>4. /\ es \o t \in Seq(ModReply) /\ Len(es \o t) = Len(es) + 1 /\ Len(es) \in Nat
          /\ \A k \in 1 .. Len(es) + 1 :
               (es \o t)[k] = IF k <= Len(es) THEN es[k] ELSE t[k - Len(es)]
      <4>1. /\ es \o t \in Seq(ModReply) /\ Len(es \o t) = Len(es) + Len(t)
            /\ \A k \in 1 .. Len(es) + Len(t) :
                 (es \o t)[k] = IF k <= Len(es) THEN es[k] ELSE t[k - Len(es)]
        BY <3>2, <3>3, ConcatProperties
      <4>. QED  BY <3>3, <4>1, LenProperties
    <3>5. mstate[m] = "running"
      BY <2>2 DEF AnswersFirst
    <3>6. ASSUME NEW k \in 1 .. Len(es \o t)
          PROVE  (es \o t)[k].id = 0 \/ (es \o t)[k].from = m
      <4>1. CASE k <= Len(es)
        BY <3>2, <3>4, <4>1
      <4>2. CASE ~(k <= Len(es))
        <5>1. k - Len(es) = 1
          BY <3>4, <4>2
        <5>. QED  BY <3>3, <3>4, <4>2, <5>1
      <4>. QED  BY <4>1, <4>2
    <3>7. replies' = replies \o (es \o t)
      BY <3>1 DEF t
    <3>. QED  BY <3>4, <3>5, <3>6, <3>7
  <2>. QED  BY <2>1, <2>2, NodeTyped, ModuleShape
<1>2. /\ \A n \in Mods, k \in Nat :
           k <= Len(replies) + 1 /\ DescribedBefore(described, replies, n, k)
             => DescribedBefore(described', replies', n, k)
      /\ Len(replies') = Len(replies) + Len(es)
      /\ \A k \in 1 .. Len(replies) : replies'[k] = replies[k]
      /\ \A k \in 1 .. Len(es) : replies'[Len(replies) + k] = es[k]
      /\ Len(replies) \in Nat /\ Len(es) \in Nat
  BY <1>1, DescribedGrows
<1>3. \A n \in Mods, k, l \in Nat :
        k <= l /\ DescribedBefore(described', replies', n, k)
          => DescribedBefore(described', replies', n, l)
  BY DEF DescribedBefore
<1>4. Visible \subseteq Mods
  BY ModuleAssumption DEF ModuleAssumption
<1>5. AnswersAfterDescription'
  <2>. SUFFICES ASSUME NEW k \in 1 .. Len(replies'),
                       replies'[k].id # 0, replies'[k].from \in Visible
                PROVE  DescribedBefore(described', replies', replies'[k].from, k)
    BY DEF AnswersAfterDescription
  <2>1. CASE k \in 1 .. Len(replies)
    BY <1>2, <1>4, <2>1 DEF DescribedInv, AnswersAfterDescription
  <2>2. CASE k \notin 1 .. Len(replies)
    <3>1. k - Len(replies) \in 1 .. Len(es) /\ replies'[k] = es[k - Len(replies)]
      <4>1. k - Len(replies) \in 1 .. Len(es) /\ k = Len(replies) + (k - Len(replies))
        BY <1>2, <2>2
      <4>. QED  BY <1>2, <4>1
    <3>2. replies'[k].from = m /\ mstate[m] = "running" /\ m \in Visible
      BY <1>1, <3>1
    <3>3. DescribedBefore(described', replies', m, Len(replies) + 1)
      BY <1>2, <3>2 DEF DescribedInv, RunningIsDescribed
    <3>. QED  BY <1>2, <1>3, <2>2, <3>2, <3>3
  <2>. QED  BY <2>1, <2>2
<1>6. RunningIsDescribed'
  <2>. SUFFICES ASSUME NEW n \in Visible, mstate'[n] = "running"
                PROVE  DescribedBefore(described', replies', n, Len(replies') + 1)
    BY DEF RunningIsDescribed
  <2>1. CASE mstate[n] = "running"
    <3>1. DescribedBefore(described', replies', n, Len(replies) + 1)
      BY <1>2, <1>4, <2>1 DEF DescribedInv, RunningIsDescribed
    <3>. QED  BY <1>2, <1>3, <1>4, <3>1
  <2>2. CASE mstate[n] # "running"
    <3>1. /\ n = m
          /\ InitialEvents(m) \in Seq(ModReply) /\ Description(m) \in Seq(ModReply)
          /\ replies' = replies \o (InitialEvents(m) \o Description(m))
      BY <1>4, <2>2, StartShape
    <3>2. PICK a \in Seq(ModReply), d \in Descriptions(m), t \in Seq(ModReply) :
            t = <<d>> /\ replies' = replies \o (a \o t)
      <4>. DEFINE d == [to |-> Nobody, id |-> 0, from |-> m, mod |-> m,
                        kind |-> "describing", val |-> NoVal]
      <4>1. d \in Descriptions(m) /\ Description(m) = <<d>>
        BY <3>1 DEF Descriptions, Emissions, ModReply, Names, Description
      <4>. QED  BY <3>1, <4>1
    <3>3. Len(t) = 1 /\ t[1] = d
      BY <3>2
    <3>4. /\ a \o t \in Seq(ModReply) /\ Len(a \o t) = Len(a) + 1 /\ Len(a) \in Nat
          /\ (a \o t)[Len(a) + 1] = d
      <4>1. /\ a \o t \in Seq(ModReply) /\ Len(a \o t) = Len(a) + Len(t)
            /\ \A k \in 1 .. Len(a) + Len(t) :
                 (a \o t)[k] = IF k <= Len(a) THEN a[k] ELSE t[k - Len(a)]
        BY ConcatProperties
      <4>. QED  BY <3>3, <4>1, LenProperties
    <3>5. /\ Len(replies') = Len(replies) + (Len(a) + 1)
          /\ replies'[Len(replies) + (Len(a) + 1)] = d
      BY <3>2, <3>4, DescribedGrows
    <3>6. /\ Len(replies') \in 1 .. (Len(replies') + 1) - 1
          /\ replies'[Len(replies')] \in Descriptions(n)
      <4>1. Len(replies') = Len(replies) + (Len(a) + 1)
        BY <3>5
      <4>2. Len(replies) \in Nat /\ Len(a) \in Nat
        BY <1>2, <3>4
      <4>3. Len(replies') \in 1 .. (Len(replies') + 1) - 1
        BY <4>1, <4>2
      <4>4. replies'[Len(replies')] = d
        BY <3>5, <4>1
      <4>5. n = m
        BY <3>1
      <4>. QED  BY <4>3, <4>4, <4>5
    <3>. QED  BY <3>6 DEF DescribedBefore
  <2>. QED  BY <2>1, <2>2
<1>7. ResultsDescribed'
  <2>1. outbox' = outbox
    BY NodeTyped, ModuleShape DEF Emits, AnswersFirst
  <2>. QED  BY <2>1 DEF DescribedInv, ResultsDescribed
<1>. QED  BY <1>5, <1>6, <1>7 DEF DescribedInv

LEMMA DescribedAtRequest ==
    ASSUME TypeOK, MatchInv, DescribedInv, DispatchRequest, UNCHANGED mstate
    PROVE  DescribedInv'
<1>1. PICK r \in Request :
        /\ r = Head(requests) /\ r \in Ingoing
        /\ UNCHANGED <<replies, described>>
        /\ Forwards(r) \/ AnswersItself(r) \/ TakesSilently(r)
  <2>1. Head(requests) \in Ingoing
    BY NodeTyped, RequestShape, QueueTypes, EveryTail DEF MatchInv
  <2>. QED  BY <2>1, NodeTyped, RequestShape
<1>. DEFINE Harmless(h, ms) ==
               /\ \A m \in Visible \ described' : None(ms, Results(m))
               /\ outbox' \in {outbox, [outbox EXCEPT ![h] = @ \o ms]}
<1>2. \E h \in Handlers, ms \in Seq(Message) : Harmless(h, ms)
  <2>1. ASSUME outbox' = outbox
        PROVE  \E h \in Handlers, ms \in Seq(Message) : Harmless(h, ms)
    <3>1. r.hid \in Handlers /\ <<>> \in Seq(Message)
      BY DEF Request
    <3>. QED  BY <2>1, <3>1, NoneOfEmpty
  <2>2. CASE AnswersItself(r)
    <3>1. PICK kind \in {"error", "inactive", "describing"} :
            SendBack(r.hid, <<Answer(r, kind)>>)
      BY <2>2 DEF AnswersItself
    <3>. DEFINE ms == <<Answer(r, kind)>>
    <3>2. Answer(r, kind) \in Message /\ Answer(r, kind).kind = kind
      BY AnswerType DEF Answer
    <3>3. \A m \in Visible : Answer(r, kind) \notin Results(m)
      BY <3>1, <3>2 DEF Results
    <3>4. ms \in Seq(Message) /\ \A m \in Visible : None(ms, Results(m))
      BY <3>2, <3>3, NoneOfOne
    <3>5. outbox' \in {outbox, [outbox EXCEPT ![r.hid] = @ \o ms]} /\ r.hid \in Handlers
      BY <3>1, SendBackShape DEF Request
    <3>. HIDE DEF ms
    <3>. QED  BY <3>4, <3>5
  <2>. QED  BY <1>1, <2>1, <2>2 DEF Forwards, TakesSilently
<1>3. ResultsDescribed'
  BY <1>1, <1>2, ResultsAdded DEF DescribedInv
<1>. QED
  BY <1>1, <1>3 DEF DescribedInv, AnswersAfterDescription, RunningIsDescribed

\* A description that is taken is kept.
LEMMA DescriptionsKept ==
    ASSUME TypeOK, RouteReply
    PROVE  /\ described \subseteq described'
           /\ \A m \in Mods : Head(replies) \in Descriptions(m) => m \in described'
<1>1. CASE RouteDescription
  BY <1>1 DEF RouteDescription, Descriptions, Emissions
<1>2. CASE RouteEvent
  BY <1>2 DEF RouteEvent, Descriptions
<1>3. ASSUME Head(replies).to # Nobody, described' = described
      PROVE  /\ described \subseteq described'
             /\ \A m \in Mods : Head(replies) \in Descriptions(m) => m \in described'
  BY <1>3 DEF Descriptions, Emissions
<1>. QED
  BY <1>1, <1>2, <1>3 DEF RouteReply, RouteInitUpdates, RouteInitUpdatesAll, RouteAnswer

LEMMA DescribedAtReply ==
    ASSUME TypeOK, MatchInv, DescribedInv, RouteReply, UNCHANGED mstate
    PROVE  DescribedInv'
<1>1. PICK e \in ModReply :
        /\ e = Head(replies) /\ e \in Outgoing /\ e.from \in Mods
        /\ replies # <<>> /\ replies' = Tail(replies) /\ replies \in Seq(ModReply)
        /\ RoutesEvent(e) \/ RoutesAnswer(e)
  <2>1. Head(replies) \in Outgoing /\ replies \in Seq(ModReply)
    BY NodeTyped, ReplyShape, QueueTypes, EveryTail DEF MatchInv
  <2>2. Head(replies).from \in Mods
    BY NodeTyped, ReplyShape DEF ModReply
  <2>. QED  BY <2>1, <2>2, NodeTyped, ReplyShape
<1>2. /\ Len(replies) \in Nat /\ Len(replies') = Len(replies) - 1 /\ Len(replies) > 0
      /\ \A k \in 1 .. Len(replies') : replies'[k] = replies[k + 1]
      /\ replies[1] = e
  BY <1>1, HeadTailProperties, LenProperties, EmptySeq
<1>3. /\ described \subseteq described'
      /\ \A m \in Mods : e \in Descriptions(m) => m \in described'
  BY <1>1, DescriptionsKept
<1>4. ASSUME NEW m \in Mods, NEW k \in Nat, DescribedBefore(described, replies, m, k + 1),
             k <= Len(replies)
      PROVE  DescribedBefore(described', replies', m, k)
  <2>1. CASE m \in described
    BY <1>3, <2>1 DEF DescribedBefore
  <2>2. ASSUME NEW j \in 1 .. k, replies[j] \in Descriptions(m)
        PROVE  DescribedBefore(described', replies', m, k)
    <3>1. CASE j = 1
      BY <1>2, <1>3, <2>2, <3>1 DEF DescribedBefore
    <3>2. CASE j # 1
      <4>1. /\ j - 1 \in 1 .. k - 1 /\ j - 1 \in 1 .. Len(replies')
            /\ (j - 1) + 1 = j
        BY <1>2, <1>4, <3>2
      <4>2. replies'[j - 1] = replies[j]
        BY <1>2, <4>1
      <4>. QED  BY <2>2, <4>1, <4>2 DEF DescribedBefore
    <3>. QED  BY <3>1, <3>2
  <2>. QED  BY <1>4, <2>1, <2>2 DEF DescribedBefore
<1>5. Visible \subseteq Mods
  BY ModuleAssumption DEF ModuleAssumption
<1>6. AnswersAfterDescription'
  <2>. SUFFICES ASSUME NEW k \in 1 .. Len(replies'),
                       replies'[k].id # 0, replies'[k].from \in Visible
                PROVE  DescribedBefore(described', replies', replies'[k].from, k)
    BY DEF AnswersAfterDescription
  <2>1. k + 1 \in 1 .. Len(replies) /\ k \in Nat /\ k <= Len(replies)
    BY <1>2
  <2>2. replies'[k] = replies[k + 1]
    BY <1>2
  <2>3. DescribedBefore(described, replies, replies'[k].from, k + 1)
    BY <2>1, <2>2 DEF DescribedInv, AnswersAfterDescription
  <2>. QED  BY <1>4, <1>5, <2>1, <2>3
<1>7. RunningIsDescribed'
  <2>. SUFFICES ASSUME NEW m \in Visible, mstate[m] = "running"
                PROVE  DescribedBefore(described', replies', m, Len(replies') + 1)
    BY DEF RunningIsDescribed
  <2>1. Len(replies') + 1 = Len(replies)
    BY <1>2
  <2>2. DescribedBefore(described, replies, m, Len(replies) + 1)
    BY DEF DescribedInv, RunningIsDescribed
  <2>. QED  BY <1>2, <1>4, <1>5, <2>1, <2>2
<1>8. ResultsDescribed'
  <2>1. CASE e.to = Nobody
    <3>1. \A m \in Mods : Relay(e) \notin Results(m)
      BY <1>1, <2>1, OutgoingFacts DEF Emissions, Relay, Results
    <3>2. ASSUME NEW h \in Handlers, NEW m \in Visible \ described'
          PROVE  None(outbox'[h], Results(m))
      <4>1. e.to \notin Handlers
        BY <2>1, QueueTypes
      <4>2. RoutesEvent(e)
        BY <1>1, <4>1 DEF RoutesAnswer
      <4>3. outbox'[h] = outbox[h] \/ (Relay(e) \in Message /\ outbox'[h] = Append(outbox[h], Relay(e)))
        <5>1. e.kind = "update" => Relay(e) \in Message
          BY RelayType
        <5>. QED  BY <4>2, <5>1 DEF RoutesEvent
      <4>4. None(outbox[h], Results(m)) /\ outbox[h] \in Seq(Message)
        BY <1>3, QueueTypes DEF DescribedInv, ResultsDescribed
      <4>5. Relay(e) \notin Results(m)
        BY <1>5, <3>1
      <4>. QED  BY <4>3, <4>4, <4>5, AppendOther
    <3>. QED  BY <3>2 DEF ResultsDescribed
  <2>2. CASE e.to # Nobody
    <3>1. PICK h, ms :
            /\ h \in Handlers
            /\ e.to = h /\ TellsOf(e, ms)
            /\ outbox' \in {outbox, [outbox EXCEPT ![h] = @ \o ms]}
      BY <1>1, <2>2 DEF RoutesEvent, RoutesAnswer
    <3>2. ms \in Seq(Message) /\ Every(ms, Tellings(e))
      <4>1. ms \in Seq(Tellings(e)) /\ Tellings(e) \subseteq Message
        BY <3>1 DEF TellsOf, Tellings
      <4>. QED  BY <4>1, SeqMonotonic, ElementOfSeq DEF Every
    <3>3. ASSUME NEW m \in Visible \ described'
          PROVE  None(ms, Results(m))
      <4>1. e.id # 0 => e.from # m
        <5>1. 1 \in 1 .. Len(replies)
          BY <1>2
        <5>2. (e.id # 0 /\ e.from \in Visible) => DescribedBefore(described, replies, e.from, 1)
          BY <1>2, <5>1 DEF DescribedInv, AnswersAfterDescription
        <5>. QED  BY <1>3, <5>2 DEF DescribedBefore
      <4>2. Tellings(e) \cap Results(m) = {}
        BY <4>1 DEF Tellings, Results
      <4>. QED  BY <3>2, <4>2, EveryIsNone
    <3>. QED  BY <1>3, <3>1, <3>2, <3>3, ResultsAdded DEF DescribedInv
  <2>. QED  BY <2>1, <2>2
<1>. QED  BY <1>6, <1>7, <1>8 DEF DescribedInv

LEMMA DescribedAtConnection ==
    ASSUME TypeOK, DescribedInv, NEW h \in Handlers, ConnectionNext(h),
           UNCHANGED <<mstate, described>>
    PROVE  DescribedInv'
<1>1. /\ replies' = replies
      /\ \/ outbox' = outbox
         \/ \E r \in Request : outbox' = [outbox EXCEPT ![h] = Append(@, Answer(r, "pong"))]
  BY ConnectionShape DEF MakesRequest, SendsQuit
<1>2. ASSUME NEW g \in Handlers, NEW m \in Visible \ described
      PROVE  None(outbox'[g], Results(m))
  <2>1. None(outbox[g], Results(m)) /\ outbox[g] \in Seq(Message)
    BY QueueTypes DEF DescribedInv, ResultsDescribed
  <2>2. \/ outbox'[g] = outbox[g]
        \/ \E r \in Request : outbox'[g] = Append(outbox[g], Answer(r, "pong"))
    BY <1>1, QueueTypes
  <2>3. \A r \in Request : Answer(r, "pong") \in Message /\ Answer(r, "pong") \notin Results(m)
    BY AnswerType DEF Answer, Results
  <2>4. \A r \in Request : None(Append(outbox[g], Answer(r, "pong")), Results(m))
    BY <2>1, <2>3, AppendOther
  <2>. QED  BY <2>1, <2>2, <2>4
<1>3. ResultsDescribed'
  BY <1>2 DEF ResultsDescribed
<1>. QED
  BY <1>1, <1>3 DEF DescribedInv, AnswersAfterDescription, RunningIsDescribed

LEMMA DescribedCorrect == Spec => []DescribedInv
<1>1. Init => DescribedInv
  <2>. SUFFICES ASSUME Init PROVE DescribedInv
    OBVIOUS
  <2>1. /\ replies = <<>> /\ \A h \in Handlers : outbox[h] = <<>>
        /\ \A m \in Mods : mstate[m] = "starting"
    BY DEF Init, ChannelsInit, ModuleInit
  <2>2. Visible \subseteq Mods
    BY ModuleAssumption DEF ModuleAssumption
  <2>. QED
    BY <2>1, <2>2, NoneOfEmpty
    DEF DescribedInv, ResultsDescribed, AnswersAfterDescription, RunningIsDescribed
<1>2. TypeOK /\ MatchInv /\ DescribedInv /\ [Next]_vars => DescribedInv'
  <2>. SUFFICES ASSUME TypeOK, MatchInv, DescribedInv, [Next]_vars
                PROVE  DescribedInv'
    OBVIOUS
  <2>1. CASE DispatcherStep
    <3>1. mstate' = mstate /\ DispatcherNext
      BY <2>1 DEF DispatcherStep, modVars
    <3>2. CASE Register
      BY <3>1, <3>2
      DEF Register, DescribedInv, ResultsDescribed, AnswersAfterDescription,
          RunningIsDescribed
    <3>. QED
      BY <3>1, <3>2, DescribedAtRequest, DescribedAtReply DEF DispatcherNext
  <2>2. ASSUME NEW m \in Mods, ModuleStep(m)
        PROVE  DescribedInv'
    BY <2>2, DescribedAtModule DEF ModuleStep, dispVars
  <2>3. ASSUME NEW h \in Handlers, ConnectionStep(h)
        PROVE  DescribedInv'
    BY <2>3, DescribedAtConnection DEF ConnectionStep, dispVars, modVars
  <2>4. CASE UNCHANGED vars
    BY <2>4
    DEF vars, chanVars, dispVars, modVars, DescribedInv, ResultsDescribed,
        AnswersAfterDescription, RunningIsDescribed
  <2>. QED  BY <2>1, <2>2, <2>3, <2>4 DEF Next
<1>. QED  BY <1>1, <1>2, TypeCorrect, MatchCorrect, PTL DEF Spec

\* A client that got a result from a visible module finds it in the descriptive
\* data (module.rs:269-275, server.rs:256-264): also after restarts, and however
\* the dispatcher interleaves what it takes.
THEOREM DescribedFirst == Spec => []AnsweredIsDescribed
<1>1. TypeOK /\ DescribedInv => AnsweredIsDescribed
  <2>. SUFFICES ASSUME TypeOK, DescribedInv, NEW h \in Handlers, NEW i \in 1 .. Len(outbox[h]),
                       outbox[h][i].mod \in Visible, outbox[h][i].id # 0,
                       outbox[h][i].kind \in {"update", "changed", "done"}
                PROVE  outbox[h][i].mod \in described
    BY Zenon DEF AnsweredIsDescribed
  <2>1. outbox[h][i] \in Message
    BY QueueTypes, ElementOfSeq
  <2>2. outbox[h][i] \in Results(outbox[h][i].mod)
    BY <2>1 DEF Results
  <2>. QED  BY <2>2 DEF DescribedInv, ResultsDescribed, None
<1>. QED  BY <1>1, DescribedCorrect, TypeCorrect, PTL

-----------------------------------------------------------------------------
(* Events go to those who were told Active                                  *)

IsEvent(x) == x.kind = "update" /\ x.id = 0
Activates(x, m) == x.kind = "active" /\ Covers(x, m)
Deactivates(x, m) == x.kind = "inactive" /\ Covers(x, m)

\* The last word on m among the first n of the messages s is Active.
Subscribed(s, m, n) ==
    \E j \in 1 .. n : /\ Activates(s[j], m)
                      /\ \A k \in j .. n : ~Deactivates(s[k], m)

EventsAllowed(s) ==
    \A i \in 1 .. Len(s) : IsEvent(s[i]) => Subscribed(s, s[i].mod, i - 1)

\* Of a handler to which nothing was dropped.
EventsOf(h) ==
    /\ EventsAllowed(outbox[h])
    /\ \A m \in Mods : h \in active[m] => Subscribed(outbox[h], m, Len(outbox[h]))

EventInv == \A h \in Handlers \ discarded : EventsOf(h)

\* Messages t that deactivate nothing are added to s.
LEMMA SubscribedGrows ==
    ASSUME NEW S, NEW s \in Seq(S), NEW t \in Seq(S), NEW m,
           \A k \in 1 .. Len(t) : ~Deactivates(t[k], m),
           Subscribed(s, m, Len(s)) \/ \E k \in 1 .. Len(t) : Activates(t[k], m)
    PROVE  Subscribed(s \o t, m, Len(s \o t))
<1>1. /\ Len(s) \in Nat /\ Len(t) \in Nat
      /\ Len(s \o t) = Len(s) + Len(t)
      /\ \A i \in 1 .. Len(s) + Len(t) :
           (s \o t)[i] = IF i <= Len(s) THEN s[i] ELSE t[i - Len(s)]
  BY ConcatProperties, LenProperties
<1>2. \A k \in 1 .. Len(s) : (s \o t)[k] = s[k]
  BY <1>1
<1>3. \A k \in Len(s) + 1 .. Len(s) + Len(t) :
        k - Len(s) \in 1 .. Len(t) /\ (s \o t)[k] = t[k - Len(s)]
  BY <1>1
<1>4. CASE Subscribed(s, m, Len(s))
  <2>1. PICK j \in 1 .. Len(s) : /\ Activates(s[j], m)
                                /\ \A k \in j .. Len(s) : ~Deactivates(s[k], m)
    BY <1>4 DEF Subscribed
  <2>2. ASSUME NEW k \in j .. Len(s) + Len(t)
        PROVE  ~Deactivates((s \o t)[k], m)
    <3>1. (k \in 1 .. Len(s) /\ k \in j .. Len(s)) \/ k \in Len(s) + 1 .. Len(s) + Len(t)
      BY <1>1
    <3>. QED  BY <1>2, <1>3, <2>1, <3>1
  <2>3. j \in 1 .. Len(s) + Len(t) /\ Activates((s \o t)[j], m)
    BY <1>1, <1>2, <2>1
  <2>. QED  BY <1>1, <2>2, <2>3 DEF Subscribed
<1>5. ASSUME NEW j \in 1 .. Len(t), Activates(t[j], m)
      PROVE  Subscribed(s \o t, m, Len(s \o t))
  <2>1. /\ Len(s) + j \in 1 .. Len(s) + Len(t)
        /\ Len(s) + j \in Len(s) + 1 .. Len(s) + Len(t)
        /\ (Len(s) + j) - Len(s) = j
    BY <1>1
  <2>2. Activates((s \o t)[Len(s) + j], m)
    BY <1>3, <1>5, <2>1
  <2>3. ASSUME NEW k \in Len(s) + j .. Len(s) + Len(t)
        PROVE  ~Deactivates((s \o t)[k], m)
    <3>1. k \in Len(s) + 1 .. Len(s) + Len(t)
      BY <1>1
    <3>. QED  BY <1>3, <3>1
  <2>. QED  BY <1>1, <2>1, <2>2, <2>3 DEF Subscribed
<1>. QED  BY <1>4, <1>5

\* Messages t are added to s, of which the events are allowed after s.
LEMMA AllowedGrows ==
    ASSUME NEW S, NEW s \in Seq(S), NEW t \in Seq(S), EventsAllowed(s),
           Len(t) <= 1 \/ \A k \in 1 .. Len(t) : ~IsEvent(t[k]),
           \A k \in 1 .. Len(t) : IsEvent(t[k]) => Subscribed(s, t[k].mod, Len(s))
    PROVE  EventsAllowed(s \o t)
<1>1. /\ Len(s) \in Nat /\ Len(t) \in Nat
      /\ Len(s \o t) = Len(s) + Len(t)
      /\ \A i \in 1 .. Len(s) + Len(t) :
           (s \o t)[i] = IF i <= Len(s) THEN s[i] ELSE t[i - Len(s)]
  BY ConcatProperties, LenProperties
<1>2. ASSUME NEW m, NEW n \in Nat, n <= Len(s), Subscribed(s, m, n)
      PROVE  Subscribed(s \o t, m, n)
  <2>1. \A k \in 1 .. n : (s \o t)[k] = s[k]
    BY <1>1, <1>2
  <2>. QED  BY <1>2, <2>1 DEF Subscribed
<1>. SUFFICES ASSUME NEW i \in 1 .. Len(s) + Len(t), IsEvent((s \o t)[i])
              PROVE  Subscribed(s \o t, (s \o t)[i].mod, i - 1)
  BY <1>1 DEF EventsAllowed
<1>3. CASE i <= Len(s)
  <2>1. (s \o t)[i] = s[i] /\ i - 1 \in Nat /\ i - 1 <= Len(s) /\ i \in 1 .. Len(s)
    BY <1>1, <1>3
  <2>. QED  BY <1>2, <2>1 DEF EventsAllowed
<1>4. CASE ~(i <= Len(s))
  <2>1. i - Len(s) \in 1 .. Len(t) /\ (s \o t)[i] = t[i - Len(s)]
    BY <1>1, <1>4
  <2>2. Len(t) <= 1
    BY <2>1
  <2>3. i - 1 = Len(s)
    BY <1>1, <2>1, <2>2
  <2>. QED  BY <1>1, <1>2, <2>1, <2>3
<1>. QED  BY <1>3, <1>4

\* Handler h is sent messages ms without events: only those they tell so become
\* active.
LEMMA EventsSent ==
    ASSUME TypeOK, EventInv, NEW h \in Handlers, NEW ms \in Seq(Message),
           \A k \in 1 .. Len(ms) : ~IsEvent(ms[k]),
           discarded \subseteq discarded',
           outbox' = [outbox EXCEPT ![h] = @ \o ms],
           \A m \in Mods : \A g \in active'[m] :
             \/ g \in active[m]
             \/ g = h /\ \E k \in 1 .. Len(ms) : Activates(ms[k], m),
           \A m \in Mods : h \in active'[m] =>
             \A k \in 1 .. Len(ms) : ~Deactivates(ms[k], m)
    PROVE  EventInv'
<1>. SUFFICES ASSUME NEW g \in Handlers, g \notin discarded'
              PROVE  EventsOf(g)'
  BY DEF EventInv
<1>1. EventsOf(g) /\ outbox[g] \in Seq(Message)
  BY QueueTypes DEF EventInv
<1>2. CASE g = h
  <2>1. outbox'[h] = outbox[h] \o ms
    BY QueueTypes
  <2>2. EventsAllowed(outbox[h] \o ms)
    BY <1>1, <1>2, AllowedGrows DEF EventsOf
  <2>3. ASSUME NEW m \in Mods, h \in active'[m]
        PROVE  Subscribed(outbox[h] \o ms, m, Len(outbox[h] \o ms))
    <3>1. \A k \in 1 .. Len(ms) : ~Deactivates(ms[k], m)
      BY <2>3
    <3>2. \/ Subscribed(outbox[h], m, Len(outbox[h]))
          \/ \E k \in 1 .. Len(ms) : Activates(ms[k], m)
      BY <1>1, <1>2, <2>3 DEF EventsOf
    <3>3. outbox[h] \in Seq(Message)
      BY <1>1, <1>2
    <3>. QED  BY <3>1, <3>2, <3>3, SubscribedGrows
  <2>. QED  BY <1>2, <2>1, <2>2, <2>3 DEF EventsOf
<1>3. CASE g # h
  <2>1. outbox'[g] = outbox[g]
    BY <1>3, QueueTypes
  <2>. QED  BY <1>1, <1>3, <2>1 DEF EventsOf
<1>. QED  BY <1>2, <1>3

\* Nobody is sent anything, and nobody becomes active but those that miss messages.
LEMMA EventsSame ==
    ASSUME TypeOK, EventInv, outbox' = outbox, discarded \subseteq discarded',
           \A m \in Mods : \A g \in active'[m] : g \in active[m] \/ g \in discarded'
    PROVE  EventInv'
BY DEF EventInv, EventsOf

LEMMA SendBackFacts ==
    ASSUME NEW h, NEW ms, SendBack(h, ms)
    PROVE  /\ discarded \subseteq discarded'
           /\ \/ outbox' = [outbox EXCEPT ![h] = @ \o ms]
              \/ outbox' = outbox /\ h \in discarded'
BY DEF SendBack

\* A single message x is sent to h, or dropped.
LEMMA EventsSentOne ==
    ASSUME TypeOK, EventInv, NEW h \in Handlers, NEW x \in Message, ~IsEvent(x),
           SendBack(h, <<x>>),
           \A m \in Mods : active'[m] \subseteq active[m],
           \A m \in Mods : h \in active'[m] => ~Deactivates(x, m)
    PROVE  EventInv'
<1>. DEFINE ms == <<x>>
<1>1. ms \in Seq(Message) /\ \A k \in 1 .. Len(ms) : ms[k] = x
  OBVIOUS
<1>2. SendBack(h, ms)
  OBVIOUS
<1>. HIDE DEF ms
<1>3. discarded \subseteq discarded'
  BY <1>2, SendBackFacts
<1>4. CASE outbox' = outbox
  BY <1>3, <1>4, EventsSame
<1>5. CASE outbox' = [outbox EXCEPT ![h] = @ \o ms]
  <2>1. \A m \in Mods : \A g \in active'[m] : g \in active[m]
    OBVIOUS
  <2>. QED  BY <1>1, <1>3, <1>5, <2>1, EventsSent
<1>. QED  BY <1>2, <1>4, <1>5, SendBackFacts

LEMMA WithoutLess ==
    ASSUME TypeOK, NEW name, NEW h
    PROVE  \A m \in Mods : /\ Without(name, h)[m] \subseteq active[m]
                           /\ name \in {m, All} => h \notin Without(name, h)[m]
BY DEF Without

LEMMA EventsAtRequest ==
    ASSUME TypeOK, MatchInv, EventInv, DispatchRequest
    PROVE  EventInv'
<1>1. PICK r \in Request :
        /\ r = Head(requests)
        /\ Forwards(r) \/ AnswersItself(r) \/ TakesSilently(r)
  BY NodeTyped, RequestShape
<1>2. CASE Forwards(r)
  BY <1>2, EventsSame DEF Forwards
<1>3. CASE TakesSilently(r)
  <2>1. \A m \in Mods : active'[m] \subseteq active[m]
    BY <1>3, WithoutLess DEF TakesSilently
  <2>. QED  BY <1>3, <2>1, EventsSame DEF TakesSilently
<1>4. CASE AnswersItself(r)
  <2>1. PICK kind \in {"error", "inactive", "describing"} :
          /\ SendBack(r.hid, <<Answer(r, kind)>>)
          /\ \/ kind # "inactive" /\ active' = active
             \/ kind = "inactive" /\ active' = Without(r.mod, r.hid)
    BY <1>4 DEF AnswersItself
  <2>2. /\ Answer(r, kind) \in Message /\ ~IsEvent(Answer(r, kind)) /\ r.hid \in Handlers
        /\ \A m : Deactivates(Answer(r, kind), m) => kind = "inactive" /\ r.mod \in {m, All}
    BY AnswerType DEF Answer, IsEvent, Deactivates, Covers, Request
  <2>3. \A m \in Mods : active'[m] \subseteq active[m]
    BY <2>1, WithoutLess
  <2>4. \A m \in Mods : r.hid \in active'[m] => ~Deactivates(Answer(r, kind), m)
    BY <2>1, <2>2, WithoutLess
  <2>. QED  BY <2>1, <2>2, <2>3, <2>4, EventsSentOne
<1>. QED  BY <1>1, <1>2, <1>3, <1>4

\* The messages that end an activation: no events, and the last one activates.
LEMMA ActivationEvents ==
    ASSUME NEW e \in ModReply, e.id # 0
    PROVE  LET ms == Append(InitialUpdates(e), Answer(e, "active"))
           IN  /\ ms \in Seq(Message)
               /\ \A k \in 1 .. Len(ms) : ~IsEvent(ms[k]) /\ \A m : ~Deactivates(ms[k], m)
               /\ \A m : e.mod \in {m, All} => \E k \in 1 .. Len(ms) : Activates(ms[k], m)
<1>. DEFINE s == InitialUpdates(e)
            y == Answer(e, "active")
            ms == Append(s, y)
<1>1. y \in Message /\ y.id # 0 /\ y.kind = "active" /\ y.mod = e.mod
  BY AnswerType DEF Answer
<1>2. s \in Seq(Message) /\ \A k \in 1 .. Len(s) : s[k].id # 0 /\ s[k].kind = "update"
  BY InitialUpdatesType DEF InitialUpdates
<1>. HIDE DEF s, y
<1>3. /\ ms \in Seq(Message) /\ Len(ms) = Len(s) + 1 /\ Len(s) \in Nat
      /\ \A i \in 1 .. Len(s) : ms[i] = s[i]
      /\ ms[Len(s) + 1] = y
  BY <1>1, <1>2, AppendProperties, LenProperties
<1>. HIDE DEF ms
<1>4. ASSUME NEW k \in 1 .. Len(ms)
      PROVE  ms[k].id # 0 /\ ms[k].kind # "inactive"
  <2>1. k \in 1 .. Len(s) \/ k = Len(s) + 1
    BY <1>3
  <2>. QED  BY <1>1, <1>2, <1>3, <2>1
<1>5. \A k \in 1 .. Len(ms) : ~IsEvent(ms[k]) /\ \A m : ~Deactivates(ms[k], m)
  BY <1>4 DEF IsEvent, Deactivates
<1>6. \A m : e.mod \in {m, All} => Activates(y, m)
  BY <1>1 DEF Activates, Covers
<1>7. Len(s) + 1 \in 1 .. Len(ms)
  BY <1>3
<1>8. ms \in Seq(Message)
  BY <1>3
<1>9. \A m : e.mod \in {m, All} => \E k \in 1 .. Len(ms) : Activates(ms[k], m)
  BY <1>3, <1>6, <1>7
<1>. QED  BY <1>5, <1>8, <1>9 DEF ms, s, y

LEMMA EventsAtReply ==
    ASSUME TypeOK, MatchInv, EventInv, RouteReply
    PROVE  EventInv'
<1>1. PICK e \in ModReply :
        /\ e = Head(replies) /\ e \in Outgoing /\ e.from \in Mods
        /\ e.to # Nobody => e.to \in Handlers
  <2>1. Head(replies) \in Outgoing /\ Head(replies) \in ModReply
    BY NodeTyped, ReplyShape, QueueTypes, EveryTail DEF MatchInv
  <2>. QED  BY <2>1 DEF ModReply
<1>2. e.to \in Handlers => e.id # 0
  BY <1>1, OutgoingFacts
<1>3. active \in [Mods -> SUBSET Handlers]
  BY DEF TypeOK, DispatcherTypeOK
<1>4. CASE RouteDescription
  BY <1>4, EventsSame DEF RouteDescription
<1>5. CASE RouteEvent
  <2>1. /\ e.to = Nobody /\ e.kind = "update"
        /\ outbox' = [h \in Handlers |-> IF h \in active[e.from] \cap handlers
                                           THEN Append(outbox[h], Relay(e)) ELSE outbox[h]]
        /\ discarded' = discarded \cup (active[e.from] \ handlers)
        /\ active' = active
    BY <1>1, <1>5 DEF RouteEvent
  <2>2. Relay(e) \in Message /\ Relay(e).mod = e.from /\ \A m : ~Deactivates(Relay(e), m)
    BY <2>1, RelayType DEF Relay, Deactivates
  <2>. SUFFICES ASSUME NEW h \in Handlers, h \notin discarded'
                PROVE  EventsOf(h)'
    BY DEF EventInv
  <2>3. EventsOf(h) /\ outbox[h] \in Seq(Message)
    BY <2>1, QueueTypes DEF EventInv
  <2>4. CASE h \notin active[e.from] \cap handlers
    <3>1. outbox'[h] = outbox[h]
      BY <2>1, <2>4
    <3>. QED  BY <2>1, <2>3, <3>1 DEF EventsOf
  <2>5. CASE h \in active[e.from] \cap handlers
    <3>. DEFINE x == Relay(e)
                t == <<x>>
                s == outbox[h]
    <3>1. /\ t \in Seq(Message) /\ Len(t) = 1 /\ \A k \in 1 .. Len(t) : t[k] = x
          /\ Append(s, x) = s \o t
      BY <2>2, <2>3, AppendIsConcat
    <3>2. outbox'[h] = Append(s, x)
      BY <2>1, <2>5
    <3>3. s \in Seq(Message) /\ EventsAllowed(s)
          /\ \A m \in Mods : h \in active[m] => Subscribed(s, m, Len(s))
      BY <2>3 DEF EventsOf
    <3>4. x.mod = e.from /\ Subscribed(s, e.from, Len(s))
      BY <1>1, <2>2, <2>5, <3>3
    <3>5. \A k \in 1 .. Len(t) : \A m : ~Deactivates(t[k], m)
      BY <2>2, <3>1
    <3>. HIDE DEF x, t, s
    <3>6. EventsAllowed(s \o t)
      BY <3>1, <3>3, <3>4, AllowedGrows
    <3>7. \A m \in Mods : h \in active[m] => Subscribed(s \o t, m, Len(s \o t))
      BY <3>1, <3>3, <3>5, SubscribedGrows
    <3>. QED  BY <2>1, <3>1, <3>2, <3>6, <3>7 DEF EventsOf
  <2>. QED  BY <2>4, <2>5
<1>6. ASSUME NEW h \in Handlers, e.to = h, NEW D \in SUBSET Mods,
             SendBack(h, Append(InitialUpdates(e), Answer(e, "active"))),
             e.mod = All \/ D = {e.mod},
             \A m \in Mods : active'[m] = IF m \in D THEN active[m] \cup {h} ELSE active[m]
      PROVE  EventInv'
  <2>1. PICK ms \in Seq(Message) :
          /\ ms = Append(InitialUpdates(e), Answer(e, "active"))
          /\ \A k \in 1 .. Len(ms) : ~IsEvent(ms[k])
          /\ \A k \in 1 .. Len(ms) : \A m : ~Deactivates(ms[k], m)
          /\ \A m : e.mod \in {m, All} => \E k \in 1 .. Len(ms) : Activates(ms[k], m)
    <3>1. e.id # 0
      BY <1>2, <1>6
    <3>. QED  BY <3>1, ActivationEvents
  <2>2. SendBack(h, ms)
    BY <1>6, <2>1
  <2>3. discarded \subseteq discarded'
    BY <2>2, SendBackFacts
  <2>4. CASE outbox' = outbox /\ h \in discarded'
    <3>1. ASSUME NEW m \in Mods, NEW g \in active'[m]
          PROVE  g \in active[m] \/ g \in discarded'
      <4>1. g \in active[m] \/ g = h
        BY <1>6
      <4>. QED  BY <2>4, <4>1
    <3>. QED  BY <2>3, <2>4, <3>1, EventsSame
  <2>5. CASE outbox' = [outbox EXCEPT ![h] = @ \o ms]
    <3>1. \A m \in Mods : \A g \in active'[m] :
            g \in active[m] \/ (g = h /\ \E k \in 1 .. Len(ms) : Activates(ms[k], m))
      <4>1. \A m \in D : e.mod \in {m, All}
        BY <1>6
      <4>2. \A m \in D : \E k \in 1 .. Len(ms) : Activates(ms[k], m)
        BY <2>1, <4>1
      <4>3. ASSUME NEW m \in Mods, NEW g \in active'[m]
            PROVE  g \in active[m] \/ (g = h /\ m \in D)
        <5>1. active'[m] = IF m \in D THEN active[m] \cup {h} ELSE active[m]
          BY <1>6
        <5>. QED  BY <5>1
      <4>. QED  BY <4>2, <4>3
    <3>2. \A m \in Mods : h \in active'[m] => \A k \in 1 .. Len(ms) : ~Deactivates(ms[k], m)
      BY <2>1
    <3>. QED  BY <2>1, <2>3, <2>5, <3>1, <3>2, EventsSent
  <2>. QED  BY <2>2, <2>4, <2>5, SendBackFacts
<1>7. CASE RouteInitUpdates
  <2>1. /\ e.to \in Handlers /\ e.mod # All
        /\ SendBack(e.to, Append(InitialUpdates(e), Answer(e, "active")))
        /\ active' = [active EXCEPT ![e.mod] = @ \cup {e.to}]
    BY <1>1, <1>7 DEF RouteInitUpdates
  <2>2. e.mod \in Mods
    BY <1>1, <2>1, OutgoingFacts DEF AnswersOf, Queued
  <2>3. PICK D \in SUBSET Mods :
          /\ D = {e.mod}
          /\ \A m \in Mods : active'[m] = IF m \in D THEN active[m] \cup {e.to} ELSE active[m]
    <3>1. {e.mod} \in SUBSET Mods
      BY <2>2
    <3>2. \A m \in Mods :
            active'[m] = IF m \in {e.mod} THEN active[m] \cup {e.to} ELSE active[m]
      BY <1>3, <2>1, <2>2
    <3>. QED  BY <3>1, <3>2
  <2>. QED  BY <1>6, <2>1, <2>2, <2>3
<1>8. CASE RouteInitUpdatesAll
  <2>1. /\ e.to \in Handlers /\ e.mod = All
        /\ \/ /\ SendBack(e.to, Append(InitialUpdates(e), Answer(e, "active")))
              /\ active' = [m \in Mods |-> active[m] \cup {e.to}]
           \/ /\ \/ outbox' = outbox /\ discarded' = discarded
                 \/ InitialUpdates(e) # <<>> /\ SendBack(e.to, InitialUpdates(e))
              /\ active' = active
    BY <1>1, <1>8, Zenon DEF RouteInitUpdatesAll, SendNothing
  <2>2. CASE /\ SendBack(e.to, Append(InitialUpdates(e), Answer(e, "active")))
             /\ active' = [m \in Mods |-> active[m] \cup {e.to}]
    <3>1. \A m \in Mods : active'[m] = IF m \in Mods THEN active[m] \cup {e.to} ELSE active[m]
      BY <2>2
    <3>2. PICK D \in SUBSET Mods : D = Mods
      OBVIOUS
    <3>3. \A m \in Mods : active'[m] = IF m \in D THEN active[m] \cup {e.to} ELSE active[m]
      BY <3>1, <3>2
    <3>. QED  BY <1>6, <2>1, <2>2, <3>3
  <2>3. CASE outbox' = outbox /\ discarded' = discarded /\ active' = active
    BY <2>3, EventsSame
  <2>4. CASE /\ InitialUpdates(e) # <<>> /\ SendBack(e.to, InitialUpdates(e))
             /\ active' = active
    <3>1. PICK x : InitialUpdates(e) = <<x>> /\ x.id = e.id /\ x.kind = "update"
      BY <2>4 DEF InitialUpdates
    <3>2. x \in Message
      <4>1. <<x>> \in Seq(Message)
        BY <3>1, InitialUpdatesType
      <4>. QED  BY <4>1
    <3>3. ~IsEvent(x) /\ \A m : ~Deactivates(x, m)
      BY <1>2, <2>1, <3>1 DEF IsEvent, Deactivates
    <3>4. SendBack(e.to, <<x>>)
      BY <2>4, <3>1
    <3>. QED  BY <2>1, <2>4, <3>2, <3>3, <3>4, EventsSentOne
  <2>. QED  BY <2>1, <2>2, <2>3, <2>4
<1>9. CASE RouteAnswer
  <2>1. /\ e.to \in Handlers /\ e.kind # "initupdates" /\ active' = active
        /\ SendBack(e.to, <<Relay(e)>>)
    BY <1>1, <1>9 DEF RouteAnswer
  <2>2. Relay(e) \in Message /\ ~IsEvent(Relay(e)) /\ \A m : ~Deactivates(Relay(e), m)
    BY <1>2, <2>1, RelayType DEF Relay, IsEvent, Deactivates, ModReply
  <2>. QED  BY <2>1, <2>2, EventsSentOne
<1>. QED  BY <1>4, <1>5, <1>7, <1>8, <1>9 DEF RouteReply

LEMMA EventsAtConnection ==
    ASSUME TypeOK, EventInv, NEW h \in Handlers, ConnectionNext(h),
           UNCHANGED <<active, discarded>>
    PROVE  EventInv'
<1>1. CASE outbox' = outbox
  BY <1>1, EventsSame
<1>2. ASSUME NEW r \in Request, outbox' = [outbox EXCEPT ![h] = Append(@, Answer(r, "pong"))]
      PROVE  EventInv'
  <2>. DEFINE x == Answer(r, "pong")
              ms == <<x>>
  <2>1. x \in Message /\ ~IsEvent(x) /\ \A m : ~Deactivates(x, m)
    BY AnswerType DEF Answer, IsEvent, Deactivates
  <2>2. /\ ms \in Seq(Message) /\ \A k \in 1 .. Len(ms) : ms[k] = x
        /\ \A s \in Seq(Message) : Append(s, x) = s \o ms
    BY <2>1, AppendIsConcat
  <2>. HIDE DEF x, ms
  <2>3. outbox' = [outbox EXCEPT ![h] = @ \o ms]
    BY <1>2, <2>2, QueueTypes DEF x
  <2>4. /\ \A k \in 1 .. Len(ms) : ~IsEvent(ms[k])
        /\ \A m \in Mods : h \in active'[m] => \A k \in 1 .. Len(ms) : ~Deactivates(ms[k], m)
    BY <2>1, <2>2
  <2>. QED  BY <2>2, <2>3, <2>4, EventsSent
<1>. QED  BY <1>1, <1>2, ConnectionShape DEF MakesRequest, SendsQuit

LEMMA EventCorrect == Spec => []EventInv
<1>1. Init => EventInv
  BY DEF Init, ChannelsInit, DispatcherInit, EventInv, EventsOf, EventsAllowed
<1>2. TypeOK /\ MatchInv /\ EventInv /\ [Next]_vars => EventInv'
  <2>. SUFFICES ASSUME TypeOK, MatchInv, EventInv, [Next]_vars
                PROVE  EventInv'
    OBVIOUS
  <2>1. CASE DispatcherStep
    <3>1. CASE Register
      BY <3>1, EventsSame DEF Register
    <3>. QED
      BY <2>1, <3>1, EventsAtRequest, EventsAtReply DEF DispatcherStep, DispatcherNext
  <2>2. ASSUME NEW m \in Mods, ModuleStep(m)
        PROVE  EventInv'
    <3>1. outbox' = outbox
      BY <2>2, NodeTyped, ModuleShape DEF ModuleStep, Emits, AnswersFirst
    <3>. QED  BY <2>2, <3>1, EventsSame DEF ModuleStep, dispVars
  <2>3. ASSUME NEW h \in Handlers, ConnectionStep(h)
        PROVE  EventInv'
    BY <2>3, EventsAtConnection DEF ConnectionStep, dispVars
  <2>4. CASE UNCHANGED vars
    BY <2>4, EventsSame DEF vars, chanVars, dispVars
  <2>. QED  BY <2>1, <2>2, <2>3, <2>4 DEF Next
<1>. QED  BY <1>1, <1>2, TypeCorrect, MatchCorrect, PTL DEF Spec

\* Events are sent only between Active and Inactive (server.rs:201-202 and
\* 274-279): the dispatcher's sets of active handlers never run ahead of what
\* the handlers were told, whatever was dropped, refused or restarted.
THEOREM EventsBetween == Spec => []EventsOnlyWhenActive
<1>1. EventInv => EventsOnlyWhenActive
  BY Zenon DEF EventInv, EventsOf, EventsAllowed, Subscribed, IsEvent, Activates, Deactivates,
         EventsOnlyWhenActive
<1>. QED  BY <1>1, EventCorrect, PTL

-----------------------------------------------------------------------------
(* What belongs to global activations never comes from nowhere              *)

\* Neither of the requests P is in m's queue, nor of the answers Q on its way.
Quiet(m, P, Q) == None(modq[m], P) /\ None(replies, Q)

\* The dispatcher takes a global activation, and is not busy with another one.
Begins == Forwards(Head(requests)) /\ Head(requests) \in GlobalRequests

LEMMA QuietAtDispatcher ==
    ASSUME TypeOK, NEW m \in Mods, NEW P \in SUBSET GlobalRequests, NEW Q,
           Quiet(m, P, Q), DispatcherNext,
           DispatchRequest /\ Begins => Head(requests) \notin P
    PROVE  Quiet(m, P, Q)'
<1>1. CASE Register
  BY <1>1 DEF Register, Quiet
<1>2. CASE DispatchRequest
  <2>1. PICK r \in Request :
          /\ r = Head(requests) /\ replies' = replies
          /\ Forwards(r) \/ AnswersItself(r) \/ TakesSilently(r)
    BY <1>2, NodeTyped, RequestShape
  <2>2. CASE Forwards(r)
    <3>1. r \notin P
      BY <1>2, <2>1, <2>2 DEF Begins
    <3>2. modq[m] \in Seq(Request) /\ modq'[m] \in {modq[m], Append(modq[m], r)}
      BY <2>2 DEF Forwards, Forward, TypeOK, ChannelsTypeOK
    <3>3. None(modq'[m], P)
      BY <3>1, <3>2, AppendOther DEF Quiet
    <3>. QED  BY <2>1, <3>3 DEF Quiet
  <2>. QED  BY <2>1, <2>2 DEF Quiet, AnswersItself, TakesSilently
<1>3. CASE RouteReply
  <2>1. /\ replies \in Seq(ModReply) /\ replies # <<>>
        /\ replies' = Tail(replies) /\ modq' = modq
    BY <1>3, NodeTyped, ReplyShape DEF TypeOK, ChannelsTypeOK
  <2>. QED  BY <2>1, TailCount DEF Quiet
<1>. QED  BY <1>1, <1>2, <1>3 DEF DispatcherNext

LEMMA QuietAtModule ==
    ASSUME TypeOK, NEW m \in Mods, NEW P \in SUBSET GlobalRequests,
           NEW Q \in SUBSET GlobalAnswers(m),
           \A r \in Request : \A e \in AnswersOf(m, r) : e \in Q => r \in P,
           Quiet(m, P, Q), NEW n \in Mods, ModuleNext(n)
    PROVE  Quiet(m, P, Q)'
<1>1. modq[m] \in Seq(Request) /\ modq[n] \in Seq(Request) /\ replies \in Seq(ModReply)
  BY DEF TypeOK, ChannelsTypeOK
<1>2. ASSUME TakesNothing(n) \/ TakesFirst(n) \/ TakesAll(n)
      PROVE  None(modq'[m], P)
  <2>1. \/ modq'[m] = modq[m]
        \/ modq[m] # <<>> /\ modq'[m] = Tail(modq[m])
        \/ modq'[m] = <<>>
    BY <1>2 DEF TakesNothing, TakesFirst, TakesAll, TypeOK, ChannelsTypeOK
  <2>. QED  BY <1>1, <2>1, TailCount, NoneOfEmpty DEF Quiet
<1>3. ASSUME NEW es \in Seq(Emissions(n))
      PROVE  es \in Seq(ModReply) /\ None(es, Q)
  <2>1. Emissions(n) \cap Q = {}
    BY DEF Emissions, GlobalAnswers
  <2>. QED  BY <2>1, EmissionsAreReplies, EveryIsNone
<1>4. CASE Emits(n)
  <2>1. PICK es \in Seq(Emissions(n)) : replies' = replies \o es
    BY <1>4 DEF Emits
  <2>2. None(replies', Q)
    BY <1>1, <1>3, <2>1, ConcatNone DEF Quiet
  <2>. QED  BY <1>2, <1>4, <2>2 DEF Emits, Quiet
<1>5. CASE AnswersFirst(n)
  <2>1. PICK es \in Seq(Emissions(n)), e \in AnswersOf(n, Head(modq[n])) :
          replies' = replies \o (es \o <<e>>)
    BY <1>5 DEF AnswersFirst
  <2>. DEFINE t == <<e>>
  <2>2. e \notin Q
    <3>. SUFFICES ASSUME e \in Q PROVE FALSE
      OBVIOUS
    <3>1. n = m
      BY DEF AnswersOf, GlobalAnswers
    <3>2. modq[m] # <<>> /\ Head(modq[m]) \in Request
      BY <1>1, <1>5, <3>1, TakeType DEF AnswersFirst, TakesFirst
    <3>3. Head(modq[m]) \in P
      BY <2>1, <3>1, <3>2
    <3>. QED  BY <1>1, <3>2, <3>3, TailCount DEF Quiet
  <2>3. t \in Seq(ModReply) /\ None(t, Q)
    BY <2>2, NoneOfOne DEF AnswersOf
  <2>. HIDE DEF t
  <2>4. es \o t \in Seq(ModReply) /\ None(es \o t, Q)
    BY <1>3, <2>3, ConcatNone, ConcatProperties
  <2>5. None(replies \o (es \o t), Q)
    BY <1>1, <2>4, ConcatNone DEF Quiet
  <2>6. None(replies', Q)
    BY <2>1, <2>5 DEF t
  <2>. QED  BY <1>2, <1>5, <2>6 DEF AnswersFirst, Quiet
<1>. QED  BY <1>4, <1>5, NodeTyped, ModuleShape

LEMMA QuietKept ==
    ASSUME TypeOK, [Next]_vars, NEW m \in Mods, NEW P \in SUBSET GlobalRequests,
           NEW Q \in SUBSET GlobalAnswers(m),
           \A r \in Request : \A e \in AnswersOf(m, r) : e \in Q => r \in P,
           Quiet(m, P, Q),
           DispatchRequest /\ Begins => Head(requests) \notin P
    PROVE  Quiet(m, P, Q)'
<1>1. CASE DispatcherStep
  BY <1>1, QuietAtDispatcher DEF DispatcherStep
<1>2. ASSUME NEW n \in Mods, ModuleStep(n)
      PROVE  Quiet(m, P, Q)'
  BY <1>2, QuietAtModule DEF ModuleStep
<1>3. ASSUME NEW h \in Handlers, ConnectionStep(h)
      PROVE  Quiet(m, P, Q)'
  BY <1>3, ConnectionShape DEF ConnectionStep, Quiet
<1>4. CASE UNCHANGED vars
  BY <1>4 DEF vars, chanVars, Quiet
<1>. QED  BY <1>1, <1>2, <1>3, <1>4 DEF Next

-----------------------------------------------------------------------------
(* All that is on its way of a global activation belongs to one request     *)

OtherRequests(h, i) == {r \in GlobalRequests : r.hid # h \/ r.id # i}
OtherAnswers(m, h, i) == {e \in GlobalAnswers(m) : e.to # h \/ e.id # i}

\* It belongs to request i of handler h.
OwnedBy(h, i) == \A m \in Mods : Quiet(m, OtherRequests(h, i), OtherAnswers(m, h, i))

OneInv == \E h, i : OwnedBy(h, i)

\* Of what begins, nobody owed an answer.
LEMMA NobodyOwes ==
    ASSUME TypeOK, CountInv, DispatchRequest, Begins
    PROVE  /\ StillOwing = {} /\ replies' = replies /\ remaining' = Cardinality(Mods)
           /\ Head(requests) \in Request
           /\ \A m \in Mods : modq'[m] = Append(modq[m], Head(requests))
<1>1. /\ Head(requests) \in Request /\ Head(requests).mod = All
      /\ Head(requests) \in GlobalRequests /\ replies' = replies
  BY NodeTyped, RequestShape DEF Begins, GlobalRequests
<1>2. /\ Forward(Mods, Head(requests)) /\ ~Busy /\ remaining' = Awaited
  BY <1>1, ChannelsAssumption DEF ChannelsAssumption, Begins, Forwards
<1>3. StillOwing = {}
  <2>1. Cardinality(StillOwing) \in Nat /\ IsFiniteSet(StillOwing)
    BY StillOwingFinite DEF StillOwing
  <2>2. Cardinality(StillOwing) = 0
    BY <1>2, <2>1 DEF CountInv, Busy, TypeOK, DispatcherTypeOK
  <2>. QED  BY <2>1, <2>2, FS_EmptySet
<1>. QED  BY <1>1, <1>2, <1>3 DEF Forward, Awaited

\* A module owes nothing that it did not owe, but for what begins.
LEMMA OwingShrinks ==
    ASSUME TypeOK, [Next]_vars, ~(DispatchRequest /\ Begins)
    PROVE  StillOwing' \subseteq StillOwing
<1>. SUFFICES ASSUME NEW m \in Mods, Quiet(m, GlobalRequests, GlobalAnswers(m))
              PROVE  Quiet(m, GlobalRequests, GlobalAnswers(m))'
  BY DEF StillOwing, Quiet, GlobalAnswers
<1>1. \A r \in Request : \A e \in AnswersOf(m, r) : e \in GlobalAnswers(m) => r \in GlobalRequests
  BY DEF AnswersOf, GlobalAnswers, GlobalRequests
<1>. QED  BY <1>1, QuietKept

LEMMA OwnerKept ==
    ASSUME TypeOK, [Next]_vars, NEW h, NEW i, OwnedBy(h, i),
           ~(DispatchRequest /\ Begins)
    PROVE  OwnedBy(h, i)'
<1>. SUFFICES ASSUME NEW m \in Mods
              PROVE  Quiet(m, OtherRequests(h, i), OtherAnswers(m, h, i))'
  BY DEF OwnedBy
<1>. DEFINE P == OtherRequests(h, i)
            Q == OtherAnswers(m, h, i)
<1>1. /\ P \in SUBSET GlobalRequests /\ Q \in SUBSET GlobalAnswers(m)
      /\ \A r \in Request : \A e \in AnswersOf(m, r) : e \in Q => r \in P
      /\ Quiet(m, P, Q)
  BY DEF OtherRequests, OtherAnswers, AnswersOf, GlobalAnswers, GlobalRequests, OwnedBy
<1>2. P' = P /\ Q' = Q
  BY DEF OtherRequests, OtherAnswers, GlobalAnswers, GlobalRequests
<1>. HIDE DEF P, Q
<1>3. Quiet(m, P, Q)'
  BY <1>1, QuietKept
<1>. QED  BY <1>2, <1>3 DEF P, Q

\* What begins is all there is.
LEMMA OwnerNew ==
    ASSUME TypeOK, CountInv, DispatchRequest, Begins
    PROVE  OneInv'
<1>. DEFINE r == Head(requests)
<1>1. PICK h, i : h = r.hid /\ i = r.id
  OBVIOUS
<1>2. ASSUME NEW m \in Mods
      PROVE  /\ None(modq'[m], OtherRequests(h, i))
             /\ None(replies', OtherAnswers(m, h, i))
  <2>1. /\ modq[m] \in Seq(Request) /\ r \in Request
        /\ modq'[m] = Append(modq[m], r) /\ replies' = replies
    BY NobodyOwes DEF TypeOK, ChannelsTypeOK
  <2>2. None(modq[m], GlobalRequests) /\ None(replies, GlobalAnswers(m))
    BY NobodyOwes DEF StillOwing
  <2>3. None(modq[m], OtherRequests(h, i)) /\ None(replies, OtherAnswers(m, h, i))
    BY <2>2 DEF None, OtherRequests, OtherAnswers
  <2>4. r \notin OtherRequests(h, i)
    BY <1>1 DEF OtherRequests
  <2>. HIDE DEF r
  <2>. QED  BY <2>1, <2>3, <2>4, AppendOther
<1>3. OwnedBy(h, i)'
  BY <1>2 DEF OwnedBy, Quiet, OtherRequests, OtherAnswers, GlobalAnswers, GlobalRequests
<1>. QED  BY <1>3 DEF OneInv

LEMMA CountInvCorrect == Spec => []CountInv
<1>1. TypeOK /\ GlobalCount => CountInv
  BY CountInvIsGlobalCount
<1>. QED  BY <1>1, TypeCorrect, CountCorrect, PTL

LEMMA OneCorrect == Spec => []OneInv
<1>1. Init => OneInv
  BY NoneOfEmpty DEF Init, ChannelsInit, OneInv, OwnedBy, Quiet
<1>2. TypeOK /\ CountInv /\ OneInv /\ [Next]_vars => OneInv'
  <2>. SUFFICES ASSUME TypeOK, CountInv, OneInv, [Next]_vars
                PROVE  OneInv'
    OBVIOUS
  <2>1. CASE DispatchRequest /\ Begins
    BY <2>1, OwnerNew
  <2>2. CASE ~(DispatchRequest /\ Begins)
    <3>1. PICK h, i : OwnedBy(h, i)
      BY DEF OneInv
    <3>2. OwnedBy(h, i)'
      BY <2>2, <3>1, OwnerKept
    <3>. QED  BY <3>2 DEF OneInv
  <2>. QED  BY <2>1, <2>2
<1>. QED  BY <1>1, <1>2, TypeCorrect, CountInvCorrect, PTL DEF Spec

\* All that is in flight of a global activation belongs to one request
\* (server.rs:216-229): the second one is let in only when nothing of the
\* first one is left, in no queue and not on its way back.
THEOREM OneAtATime == Spec => []OneGlobalActivation
<1>1. TypeOK /\ OneInv => OneGlobalActivation
  <2>. SUFFICES ASSUME TypeOK, NEW h, NEW i, OwnedBy(h, i)
                PROVE  OneGlobalActivation
    BY DEF OneInv
  <2>1. ASSUME NEW m \in Mods, NEW k \in QueuedGlobal(m)
        PROVE  modq[m][k].hid = h /\ modq[m][k].id = i
    <3>1. k \in 1 .. Len(modq[m]) /\ modq[m][k] \in GlobalRequests
      BY <2>1, ElementOfSeq DEF TypeOK, ChannelsTypeOK, QueuedGlobal, GlobalRequests
    <3>2. modq[m][k] \notin OtherRequests(h, i)
      BY <3>1 DEF OwnedBy, Quiet, None
    <3>. QED  BY <3>1, <3>2 DEF OtherRequests
  <2>2. ASSUME NEW m \in Mods, NEW k \in AnsweredGlobal(m)
        PROVE  replies[k].to = h /\ replies[k].id = i
    <3>1. k \in 1 .. Len(replies) /\ replies[k] \in GlobalAnswers(m)
      BY <2>2, ElementOfSeq DEF TypeOK, ChannelsTypeOK, AnsweredGlobal, GlobalAnswers
    <3>2. replies[k] \notin OtherAnswers(m, h, i)
      BY <3>1 DEF OwnedBy, Quiet, None
    <3>. QED  BY <3>1, <3>2 DEF OtherAnswers
  <2>. QED  BY <2>1, <2>2 DEF OneGlobalActivation
<1>. QED  BY <1>1, TypeCorrect, OneCorrect, PTL

-----------------------------------------------------------------------------
(* Who is told that an activation is done has all its updates               *)

\* The updates of m that answer request i.
Updates(m, i) == {x \in Message : x.kind = "update" /\ x.mod = m /\ x.id = i}

\* The modules of whose updates for request i handler h was sent none.
Missing(h, i) == {m \in Mods : None(outbox[h], Updates(m, i))}

\* What is sent in s is complete, as ActivationComplete says.
Complete(s) ==
    \A k \in 1 .. Len(s) : s[k].kind = "active" =>
      \A m \in Mods : Covers(s[k], m) => \E j \in 1 .. k - 1 : s[j] \in Updates(m, s[k].id)

WithUpdates == {e \in ModReply : e.kind = "initupdates" => e.val # NoVal}

\* Of a global activation, no more updates are missing than answers are awaited.
FewMissing ==
    \A h \in Handlers \ discarded, i \in Nat :
      (OwnedBy(h, i) /\ StillOwing # {}) => Cardinality(Missing(h, i)) <= remaining

CompleteInv ==
    /\ Every(replies, WithUpdates)
    /\ \A h \in Handlers \ discarded : Complete(outbox[h])
    /\ FewMissing

LEMMA CompleteGrows ==
    ASSUME NEW s \in Seq(Message), NEW t \in Seq(Message), Complete(s),
           \A k \in 1 .. Len(t) : t[k].kind = "active" =>
             \A m \in Mods : Covers(t[k], m) =>
               \/ ~None(s, Updates(m, t[k].id))
               \/ \E j \in 1 .. k - 1 : t[j] \in Updates(m, t[k].id)
    PROVE  Complete(s \o t)
<1>. DEFINE u == s \o t
<1>1. /\ Len(s) \in Nat /\ Len(t) \in Nat
      /\ Len(u) = Len(s) + Len(t)
      /\ \A i \in 1 .. Len(s) + Len(t) :
           u[i] = IF i <= Len(s) THEN s[i] ELSE t[i - Len(s)]
  BY ConcatProperties, LenProperties
<1>2. /\ \A j \in 1 .. Len(s) : u[j] = s[j]
      /\ \A j \in 1 .. Len(t) : u[Len(s) + j] = t[j]
  BY <1>1
<1>. HIDE DEF u
<1>. SUFFICES ASSUME NEW k \in 1 .. Len(u), u[k].kind = "active",
                     NEW m \in Mods, Covers(u[k], m)
              PROVE  \E j \in 1 .. k - 1 : u[j] \in Updates(m, u[k].id)
  BY DEF Complete, u
<1>3. CASE k \in 1 .. Len(s)
  <2>1. \E j \in 1 .. k - 1 : s[j] \in Updates(m, s[k].id)
    BY <1>2, <1>3 DEF Complete
  <2>2. \A j \in 1 .. k - 1 : j \in 1 .. Len(s)
    BY <1>1, <1>3
  <2>. QED  BY <1>2, <1>3, <2>1, <2>2
<1>4. CASE k \notin 1 .. Len(s)
  <2>1. PICK l \in 1 .. Len(t) : k = Len(s) + l
    <3>1. k - Len(s) \in 1 .. Len(t) /\ k = Len(s) + (k - Len(s))
      BY <1>1, <1>4
    <3>. QED  BY <3>1
  <2>2. u[k] = t[l]
    BY <1>2, <2>1
  <2>3. CASE ~None(s, Updates(m, t[l].id))
    <3>1. PICK j \in 1 .. Len(s) : s[j] \in Updates(m, t[l].id)
      BY <2>3 DEF None
    <3>2. j \in 1 .. k - 1 /\ u[j] = s[j]
      BY <1>1, <1>2, <2>1
    <3>. QED  BY <2>2, <3>1, <3>2
  <2>4. ASSUME NEW j \in 1 .. l - 1, t[j] \in Updates(m, t[l].id)
        PROVE  \E n \in 1 .. k - 1 : u[n] \in Updates(m, u[k].id)
    <3>1. Len(s) + j \in 1 .. k - 1 /\ j \in 1 .. Len(t)
      BY <1>1, <2>1
    <3>2. u[Len(s) + j] = t[j]
      BY <1>2, <3>1
    <3>. QED  BY <2>2, <2>4, <3>1, <3>2
  <2>. QED  BY <2>2, <2>3, <2>4
<1>. QED  BY <1>3, <1>4

\* What the steps send, but those that end an activation.
LEMMA OtherSends ==
    ASSUME TypeOK, [Next]_vars,
           ~(DispatcherStep /\ (RouteInitUpdates \/ RouteInitUpdatesAll))
    PROVE  /\ discarded \subseteq discarded'
           /\ \A h \in Handlers : \E ms \in Seq(Message) :
                /\ \A k \in 1 .. Len(ms) : ms[k].kind # "active"
                /\ outbox'[h] = outbox[h] \o ms
           /\ remaining' = remaining \/ (DispatchRequest /\ Begins)
<1>. DEFINE Sent(h) == \E ms \in Seq(Message) :
                         /\ \A k \in 1 .. Len(ms) : ms[k].kind # "active"
                         /\ outbox'[h] = outbox[h] \o ms
<1>. SUFFICES /\ discarded \subseteq discarded'
              /\ \A h \in Handlers : Sent(h)
              /\ remaining' = remaining \/ (DispatchRequest /\ Begins)
  OBVIOUS
<1>0. outbox \in [Handlers -> Seq(Message)]
  BY QueueTypes
<1>1. ASSUME NEW h \in Handlers, outbox'[h] = outbox[h]
      PROVE  Sent(h)
  <2>. DEFINE t == <<>>
  <2>1. t \in Seq(Message) /\ Len(t) = 0
    OBVIOUS
  <2>2. outbox[h] \o t = outbox[h]
    BY <1>0, ConcatEmptySeq
  <2>3. \A k \in 1 .. Len(t) : t[k].kind # "active"
    BY <2>1
  <2>. HIDE DEF t
  <2>. QED  BY <1>1, <2>1, <2>2, <2>3
<1>2. ASSUME NEW h \in Handlers, NEW x \in Message, x.kind # "active",
             outbox'[h] = outbox[h] \o <<x>>
      PROVE  Sent(h)
  <2>. DEFINE t == <<x>>
  <2>1. t \in Seq(Message) /\ \A k \in 1 .. Len(t) : t[k].kind # "active"
    BY <1>2
  <2>2. outbox'[h] = outbox[h] \o t
    BY <1>2
  <2>. HIDE DEF t
  <2>. QED  BY <1>2, <2>1, <2>2
<1>. HIDE DEF Sent
<1>3. ASSUME NEW h \in Handlers, NEW x \in Message, x.kind # "active",
             SendBack(h, <<x>>)
      PROVE  discarded \subseteq discarded' /\ \A g \in Handlers : Sent(g)
  <2>1. \A g \in Handlers : outbox'[g] = outbox[g] \/ (g = h /\ outbox'[h] = outbox[h] \o <<x>>)
    BY <1>0, <1>3 DEF SendBack
  <2>. QED  BY <1>1, <1>2, <1>3, <2>1 DEF SendBack
<1>4. CASE DispatcherStep /\ Register
  BY <1>1, <1>4 DEF Register
<1>5. CASE DispatcherStep /\ DispatchRequest
  <2>1. PICK r \in Request :
          /\ r = Head(requests) /\ r.hid \in Handlers
          /\ Forwards(r) \/ AnswersItself(r) \/ TakesSilently(r)
    BY <1>5, NodeTyped, RequestShape DEF Request
  <2>2. CASE Forwards(r)
    <3>1. remaining' = remaining \/ (r.mod = All /\ r.kind = "activate")
      BY <2>2 DEF Forwards
    <3>2. remaining' = remaining \/ Begins
      BY <2>1, <2>2, <3>1 DEF Begins, GlobalRequests
    <3>. QED  BY <1>1, <1>5, <2>2, <3>2 DEF Forwards
  <2>3. CASE AnswersItself(r)
    <3>1. PICK kind \in {"error", "inactive", "describing"} :
            SendBack(r.hid, <<Answer(r, kind)>>)
      BY <2>3 DEF AnswersItself
    <3>2. Answer(r, kind) \in Message /\ Answer(r, kind).kind # "active"
      BY AnswerType DEF Answer
    <3>. QED  BY <1>3, <2>1, <2>3, <3>1, <3>2 DEF AnswersItself
  <2>4. CASE TakesSilently(r)
    BY <1>1, <2>4 DEF TakesSilently
  <2>. QED  BY <2>1, <2>2, <2>3, <2>4
<1>6. CASE DispatcherStep /\ RouteReply
  <2>. DEFINE e == Head(replies)
  <2>1. e \in ModReply /\ (e.to # Nobody => e.to \in Handlers)
    BY <1>6, NodeTyped, ReplyShape DEF ModReply
  <2>. HIDE DEF e
  <2>2. CASE RouteDescription
    BY <1>1, <2>2 DEF RouteDescription
  <2>3. CASE RouteEvent
    <3>1. Relay(e) \in Message /\ Relay(e).kind # "active"
      BY <2>1, <2>3, RelayType DEF RouteEvent, Relay, e
    <3>2. ASSUME NEW h \in Handlers
          PROVE  outbox'[h] = outbox[h] \/ outbox'[h] = outbox[h] \o <<Relay(e)>>
      <4>1. Append(outbox[h], Relay(e)) = outbox[h] \o <<Relay(e)>>
        BY <1>0, <3>1, AppendIsConcat
      <4>. QED  BY <2>3, <4>1 DEF RouteEvent, e
    <3>3. discarded \subseteq discarded' /\ remaining' = remaining
      BY <2>3 DEF RouteEvent
    <3>. QED  BY <1>1, <1>2, <3>1, <3>2, <3>3
  <2>4. CASE RouteAnswer
    <3>1. /\ e.to \in Handlers /\ SendBack(e.to, <<Relay(e)>>) /\ e.kind # "initupdates"
          /\ remaining' = remaining
      BY <2>1, <2>4 DEF RouteAnswer, e
    <3>2. Relay(e) \in Message /\ Relay(e).kind # "active"
      BY <2>1, <3>1, RelayType DEF Relay, ModReply
    <3>. QED  BY <1>3, <3>1, <3>2
  <2>. QED  BY <1>6, <2>2, <2>3, <2>4 DEF RouteReply
<1>7. ASSUME NEW m \in Mods, ModuleStep(m)
      PROVE  outbox' = outbox /\ discarded' = discarded /\ remaining' = remaining
  BY <1>7, NodeTyped, ModuleShape DEF ModuleStep, Emits, AnswersFirst, dispVars
<1>8. ASSUME NEW h \in Handlers, ConnectionStep(h)
      PROVE  /\ discarded' = discarded /\ remaining' = remaining
             /\ \A g \in Handlers : Sent(g)
  <2>1. \/ outbox' = outbox
        \/ \E r \in Request : outbox' = [outbox EXCEPT ![h] = Append(@, Answer(r, "pong"))]
    BY <1>8, ConnectionShape DEF ConnectionStep, MakesRequest, SendsQuit
  <2>2. ASSUME NEW r \in Request, outbox' = [outbox EXCEPT ![h] = Append(@, Answer(r, "pong"))],
               NEW g \in Handlers
        PROVE  Sent(g)
    <3>1. Answer(r, "pong") \in Message /\ Answer(r, "pong").kind # "active"
      BY AnswerType DEF Answer
    <3>2. Append(outbox[h], Answer(r, "pong")) = outbox[h] \o <<Answer(r, "pong")>>
      BY <1>0, <3>1, AppendIsConcat
    <3>3. outbox'[g] = outbox[g] \/ (g = h /\ outbox'[h] = outbox[h] \o <<Answer(r, "pong")>>)
      BY <1>0, <2>2, <3>2
    <3>. QED  BY <1>1, <1>2, <3>1, <3>3
  <2>. QED  BY <1>1, <1>8, <2>1, <2>2 DEF ConnectionStep, dispVars
<1>9. CASE UNCHANGED vars
  BY <1>1, <1>9 DEF vars, chanVars, dispVars
<1>. QED
  <2>1. DispatcherStep => Register \/ DispatchRequest \/ RouteReply
    BY DEF DispatcherStep, DispatcherNext
  <2>. QED  BY <1>1, <1>4, <1>5, <1>6, <1>7, <1>8, <1>9, <2>1 DEF Next

\* Only one request owns what is on its way.
LEMMA SameOwner ==
    ASSUME NEW m, NEW q, NEW rs,
           ~None(q, GlobalRequests) \/ ~None(rs, GlobalAnswers(m)),
           NEW h, NEW i, None(q, OtherRequests(h, i)), None(rs, OtherAnswers(m, h, i)),
           NEW g, NEW j, None(q, OtherRequests(g, j)), None(rs, OtherAnswers(m, g, j))
    PROVE  h = g /\ i = j
BY DEF None, OtherRequests, OtherAnswers

LEMMA OwnerWas ==
    ASSUME TypeOK, OneInv, [Next]_vars, ~(DispatchRequest /\ Begins),
           NEW h, NEW i, OwnedBy(h, i)', StillOwing' # {}
    PROVE  OwnedBy(h, i) /\ StillOwing # {}
<1>1. PICK g, j : OwnedBy(g, j)
  BY DEF OneInv
<1>2. OwnedBy(g, j)'
  BY <1>1, OwnerKept
<1>3. PICK m \in Mods :
        ~None(modq'[m], GlobalRequests) \/ ~None(replies', GlobalAnswers(m))
  BY DEF StillOwing, GlobalRequests, GlobalAnswers
<1>4. /\ None(modq'[m], OtherRequests(h, i)) /\ None(replies', OtherAnswers(m, h, i))
      /\ None(modq'[m], OtherRequests(g, j)) /\ None(replies', OtherAnswers(m, g, j))
  BY <1>2
  DEF OwnedBy, Quiet, OtherRequests, OtherAnswers, GlobalRequests, GlobalAnswers
<1>5. h = g /\ i = j
  BY <1>3, <1>4, SameOwner
<1>. QED  BY <1>1, <1>5, OwingShrinks

\* Of a module that still owes its answer, the owner has no update.
LEMMA OwingIsMissing ==
    ASSUME TypeOK, MatchInv, OrderInv, NEW h \in Handlers, NEW i, OwnedBy(h, i),
           NEW m \in StillOwing
    PROVE  m \in Missing(h, i)
<1>1. m \in Mods
  BY DEF StillOwing
<1>2. i \in Nat /\ i # 0 /\ (i \in QueuedIds(h, m) \/ i \in AnswerIds(h, m))
  <2>1. ASSUME NEW k \in 1 .. Len(modq[m]), modq[m][k] \in GlobalRequests
        PROVE  i \in Nat /\ i # 0 /\ i \in QueuedIds(h, m)
    <3>1. modq[m][k] \notin OtherRequests(h, i)
      BY <1>1 DEF OwnedBy, Quiet, None
    <3>2. modq[m][k].hid = h /\ modq[m][k].id = i
      BY <2>1, <3>1 DEF OtherRequests
    <3>3. modq[m][k] \in RequestsOf(h)
      BY <2>1, <3>2 DEF RequestsOf, GlobalRequests
    <3>4. modq[m][k] \in Queued(m)
      BY <1>1 DEF MatchInv, Every
    <3>. QED  BY <3>2, <3>3, <3>4 DEF QueuedIds, Ids, Queued, Made, Request
  <2>2. ASSUME NEW k \in 1 .. Len(replies), replies[k] \in GlobalAnswers(m)
        PROVE  i \in Nat /\ i # 0 /\ i \in AnswerIds(h, m)
    <3>1. replies[k] \notin OtherAnswers(m, h, i)
      BY <1>1 DEF OwnedBy, Quiet, None
    <3>2. replies[k].to = h /\ replies[k].id = i
      BY <2>2, <3>1 DEF OtherAnswers
    <3>3. replies[k] \in AnswersTo(h, m) /\ replies[k] \in ModReply
      BY <2>2, <3>2 DEF AnswersTo, GlobalAnswers
    <3>4. replies[k] \in Outgoing
      BY <1>1 DEF MatchInv, Every
    <3>5. i \in 1 .. Len(asked[h])
      BY <3>2, <3>3, <3>4, OutgoingFacts
    <3>. QED  BY <3>2, <3>3, <3>5 DEF AnswerIds, Ids, ModReply
  <2>. QED  BY <1>1, <2>1, <2>2 DEF StillOwing, None
<1>3. Below(ToldIds(h, m), {i})
  BY <1>1, <1>2 DEF OrderInv, OrderOf, InLine, Below
<1>4. ASSUME NEW k \in 1 .. Len(outbox[h]), outbox[h][k] \in Updates(m, i)
      PROVE  FALSE
  <2>1. outbox[h][k] \in Told(m) /\ outbox[h][k].id = i
    BY <1>2, <1>4 DEF Updates, Told
  <2>2. i \in ToldIds(h, m)
    BY <2>1 DEF ToldIds, Ids
  <2>. QED  BY <1>2, <1>3, <2>2 DEF Below
<1>. QED  BY <1>1, <1>4 DEF Missing, None

\* What h is sent makes up for what it misses.
LEMMA MissingShrinks ==
    ASSUME TypeOK, NEW h \in Handlers, NEW ms \in Seq(Message),
           outbox'[h] = outbox[h] \o ms, NEW i
    PROVE  /\ Missing(h, i)' \subseteq Missing(h, i)
           /\ \A m \in Missing(h, i)' : None(ms, Updates(m, i))
           /\ Missing(h, i) \in SUBSET Mods
           /\ Missing(h, i)' \in SUBSET Mods
<1>1. outbox[h] \in Seq(Message)
  BY QueueTypes
<1>2. /\ Len(outbox[h]) \in Nat /\ Len(ms) \in Nat
      /\ Len(outbox'[h]) = Len(outbox[h]) + Len(ms)
      /\ \A k \in 1 .. Len(outbox[h]) + Len(ms) :
           outbox'[h][k] = IF k <= Len(outbox[h]) THEN outbox[h][k] ELSE ms[k - Len(outbox[h])]
  BY <1>1, ConcatProperties, LenProperties
<1>3. /\ \A k \in 1 .. Len(outbox[h]) :
           k \in 1 .. Len(outbox'[h]) /\ outbox'[h][k] = outbox[h][k]
      /\ \A k \in 1 .. Len(ms) :
           Len(outbox[h]) + k \in 1 .. Len(outbox'[h]) /\ outbox'[h][Len(outbox[h]) + k] = ms[k]
  BY <1>2
<1>4. ASSUME NEW G, None(outbox'[h], G)
      PROVE  None(outbox[h], G) /\ None(ms, G)
  BY <1>3, <1>4 DEF None
<1>. QED  BY <1>4 DEF Missing, Updates

\* A step in which the count stays, or a new one begins.
LEMMA FewMissingKept ==
    ASSUME TypeOK, CountInv, OneInv, FewMissing, [Next]_vars,
           discarded \subseteq discarded',
           \A h \in Handlers : \E ms \in Seq(Message) : outbox'[h] = outbox[h] \o ms,
           remaining' = remaining \/ (DispatchRequest /\ Begins)
    PROVE  FewMissing'
<1>. SUFFICES ASSUME NEW h \in Handlers, h \notin discarded', NEW i \in Nat,
                     OwnedBy(h, i)', StillOwing' # {}
              PROVE  Cardinality(Missing(h, i)') <= remaining'
  BY DEF FewMissing
<1>1. Missing(h, i)' \subseteq Missing(h, i) /\ Missing(h, i) \in SUBSET Mods
  BY MissingShrinks
<1>2. CASE DispatchRequest /\ Begins
  <2>1. IsFiniteSet(Mods) /\ Missing(h, i)' \subseteq Mods
    BY <1>1, StillOwingFinite
  <2>. QED  BY <1>2, <2>1, NobodyOwes, FS_Subset
<1>3. CASE ~(DispatchRequest /\ Begins)
  <2>1. Cardinality(Missing(h, i)) <= remaining
    BY <1>3, OwnerWas DEF FewMissing
  <2>2. /\ Cardinality(Missing(h, i)') <= Cardinality(Missing(h, i))
        /\ Cardinality(Missing(h, i)) \in Nat /\ Cardinality(Missing(h, i)') \in Nat
    BY <1>1, StillOwingFinite, FS_Subset
  <2>3. remaining' = remaining /\ remaining \in Int
    BY <1>3 DEF TypeOK, DispatcherTypeOK
  <2>. QED  BY <2>1, <2>2, <2>3
<1>. QED  BY <1>2, <1>3

\* The messages that end an activation: an update, and Active.
LEMMA LastMessages ==
    ASSUME NEW e \in ModReply, e.kind = "initupdates", e.val # NoVal
    PROVE  \E x, y \in Message :
             /\ InitialUpdates(e) = <<x>>
             /\ Append(InitialUpdates(e), Answer(e, "active")) = <<x, y>>
             /\ x \in Updates(e.from, e.id) /\ x.kind = "update"
             /\ y.kind = "active" /\ y.mod = e.mod /\ y.id = e.id
<1>. DEFINE x == [kind |-> "update", mod |-> e.from, val |-> e.val, id |-> e.id]
            y == Answer(e, "active")
<1>1. x \in Updates(e.from, e.id) /\ x.kind = "update" /\ x \in Message
  BY DEF ModReply, Message, Names, Updates
<1>2. y \in Message /\ y.kind = "active" /\ y.mod = e.mod /\ y.id = e.id
  BY AnswerType DEF Answer
<1>3. InitialUpdates(e) = <<x>>
  BY DEF InitialUpdates
<1>. HIDE DEF x, y
<1>4. Append(<<x>>, y) = <<x, y>>
  BY ShortAppend
<1>. QED  BY <1>1, <1>2, <1>3, <1>4 DEF y

-----------------------------------------------------------------------------
(* The values that modules send                                             *)

\* What m sends while it caches v: every update is of that value, if it has a JSON
\* form.
OfValue(m, v) ==
    {e \in ModReply : /\ e.from = m
                      /\ (v \in Representable /\ e.kind \in {"update", "initupdates"})
                         => e.val = v}

Events(m) == {e \in ModReply : e.to = Nobody /\ e.kind = "update" /\ e.from = m}

\* The value of m that needs no event: the one it had, or may start with silently.
Before(m) == IF mstate[m] = "running" THEN cache[m] ELSE SilentStart(m)

\* All that module m sends in a step is of one value, the one it has cached then. If
\* that is another one than before, an event says so.
LEMMA ModuleValues ==
    ASSUME TypeOK, NEW m \in Mods, ModuleNext(m)
    PROVE  \E es \in Seq(ModReply), v \in Vals :
             /\ replies' = replies \o es
             /\ Every(es, OfValue(m, v))
             /\ mstate'[m] = "running" =>
                  /\ v = cache'[m]
                  /\ v \in Representable => v = Before(m) \/ ~None(es, Events(m))
<1>. DEFINE Sent(es, v) ==
              /\ replies' = replies \o es
              /\ Every(es, OfValue(m, v))
              /\ mstate'[m] = "running" =>
                   /\ v = cache'[m]
                   /\ v \in Representable => v = Before(m) \/ ~None(es, Events(m))
<1>. SUFFICES \E es \in Seq(ModReply), v \in Vals : Sent(es, v)
  OBVIOUS
<1>. DEFINE r == Head(modq[m])
            none == <<>>
<1>1. /\ replies \in Seq(ModReply) /\ cache \in [Mods -> Vals] /\ hw \in [Mods -> Vals]
      /\ mstate \in [Mods -> {"starting", "running", "panicked", "waiting"}]
      /\ replies \o none = replies /\ none \in Seq(ModReply)
      /\ \A G : Every(none, G)
  BY ConcatEmptySeq, EveryOfEmpty DEF TypeOK, ChannelsTypeOK, ModuleTypeOK
<1>2. ASSUME NEW old, NEW v \in Vals
      PROVE  /\ Announce(m, old, v) \in Seq(ModReply)
             /\ Every(Announce(m, old, v), OfValue(m, v))
             /\ v \in Representable => v = old \/ ~None(Announce(m, old, v), Events(m))
  <2>1. /\ Event(m, v) \in ModReply
        /\ Event(m, v) \in OfValue(m, v) /\ Event(m, v) \in Events(m)
    BY DEF Event, ModReply, Names, OfValue, Events
  <2>2. CASE v = old \/ v \notin Representable
    BY <2>2, EveryOfEmpty DEF Announce
  <2>3. CASE v # old /\ v \in Representable
    <3>1. Announce(m, old, v) = <<Event(m, v)>>
      BY <2>3 DEF Announce
    <3>. QED  BY <2>1, <3>1, EveryOfOne DEF None
  <2>. QED  BY <2>2, <2>3
<1>3. ASSUME NEW e \in ModReply, NEW v \in Vals, e \in OfValue(m, v), NEW old
      PROVE  /\ <<e>> \in Seq(ModReply) /\ Every(<<e>>, OfValue(m, v))
             /\ Announce(m, old, v) \o <<e>> \in Seq(ModReply)
             /\ Every(Announce(m, old, v) \o <<e>>, OfValue(m, v))
             /\ v \in Representable =>
                  v = old \/ ~None(Announce(m, old, v) \o <<e>>, Events(m))
  <2>. DEFINE t == <<e>>
              a == Announce(m, old, v)
  <2>1. t \in Seq(ModReply) /\ Every(t, OfValue(m, v))
    BY <1>3, EveryOfOne
  <2>2. /\ a \in Seq(ModReply) /\ Every(a, OfValue(m, v))
        /\ v \in Representable => v = old \/ ~None(a, Events(m))
    BY <1>2
  <2>. HIDE DEF t, a
  <2>3. /\ a \o t \in Seq(ModReply) /\ Every(a \o t, OfValue(m, v))
        /\ Len(a) \in Nat /\ Len(t) \in Nat /\ Len(a \o t) = Len(a) + Len(t)
        /\ \A i \in 1 .. Len(a) + Len(t) :
             (a \o t)[i] = IF i <= Len(a) THEN a[i] ELSE t[i - Len(a)]
    BY <2>1, <2>2, EveryConcat, ConcatProperties, LenProperties
  <2>4. ~None(a, Events(m)) => ~None(a \o t, Events(m))
    BY <2>3 DEF None
  <2>. QED  BY <2>1, <2>2, <2>3, <2>4 DEF t, a
<1>4. ASSUME NEW kind, TakeModRequest(m, kind)
      PROVE  r \in Request /\ mstate' = mstate /\ mstate[m] = "running"
  BY <1>4, NodeTyped, TakeModRequestType DEF TakeModRequest
<1>5. ASSUME r \in Request, NEW v \in Vals \cup {NoVal}, NEW w \in Vals,
             NEW kind \in {"update", "changed", "done", "error", "initupdates"},
             (w \in Representable /\ kind \in {"update", "initupdates"}) => v = w
      PROVE  Reply(m, r, kind, v) \in ModReply /\ Reply(m, r, kind, v) \in OfValue(m, w)
  <2>1. Reply(m, r, kind, v) \in ModReply
    BY <1>5, MessagesType
  <2>. QED  BY <1>5, <2>1 DEF Reply, OfValue
<1>6. ASSUME r \in Request, NEW w \in Vals
      PROVE  Refusal(m, r) \in ModReply /\ Refusal(m, r) \in OfValue(m, w)
  BY <1>5, <1>6 DEF Refusal
<1>. HIDE DEF r, none
<1>7. ASSUME replies' = replies, cache'[m] = cache[m],
             mstate'[m] = "running" => mstate[m] = "running"
      PROVE  \E es \in Seq(ModReply), v \in Vals : Sent(es, v)
  <2>1. Sent(none, cache[m])
    BY <1>1, <1>7 DEF Before
  <2>. QED  BY <1>1, <2>1
<1>8. CASE StartOk(m)
  <2>. DEFINE v == InitialValue(m)
              d == Description(m)
              a == InitialEvents(m)
  <2>1. v \in Vals /\ d \in Seq(ModReply) /\ a \in Seq(ModReply)
    BY NodeTyped, InitialType, DescriptionType
  <2>2. Every(d, OfValue(m, v))
    <3>. DEFINE x == [to |-> Nobody, id |-> 0, from |-> m, mod |-> m,
                      kind |-> "describing", val |-> NoVal]
    <3>1. x \in OfValue(m, v)
      BY DEF OfValue, ModReply, Names
    <3>2. d = <<x>> \/ d = <<>>
      BY DEF Description
    <3>. HIDE DEF x, d
    <3>. QED  BY <3>1, <3>2, EveryOfOne, EveryOfEmpty
  <2>3. /\ Every(a, OfValue(m, v))
        /\ v \in Representable => v = SilentStart(m) \/ ~None(a, Events(m))
    BY <1>2, <2>1, EveryOfEmpty DEF InitialEvents, InitialValue, SilentStart
  <2>. HIDE DEF d, a
  <2>4. /\ a \o d \in Seq(ModReply) /\ Every(a \o d, OfValue(m, v))
        /\ ~None(a, Events(m)) => ~None(a \o d, Events(m))
    BY <2>1, <2>2, <2>3, EveryConcat, ConcatProperties, NoneOfParts
  <2>5. replies' = replies \o (a \o d) /\ cache'[m] = v /\ mstate[m] # "running"
    BY <1>1, <1>8 DEF StartOk, Send, Cached, a, d
  <2>6. Sent(a \o d, v)
    BY <2>3, <2>4, <2>5 DEF Before
  <2>. QED  BY <2>1, <2>4, <2>6
<1>9. CASE StartFails(m)
  <2>. DEFINE v == InitialValue(m)
              a == InitialEvents(m)
  <2>1. v \in Vals /\ a \in Seq(ModReply) /\ Every(a, OfValue(m, v))
    BY <1>2, NodeTyped, InitialType, EveryOfEmpty DEF InitialEvents
  <2>2. /\ replies' = replies \/ replies' = replies \o a
        /\ cache' = cache /\ mstate[m] # "running" /\ mstate'[m] # "running"
    BY <1>1, <1>9 DEF StartFails, Send
  <2>. HIDE DEF a
  <2>3. CASE replies' = replies \o a
    <3>1. Sent(a, v)
      BY <2>1, <2>2, <2>3
    <3>. QED  BY <2>1, <3>1
  <2>. QED  BY <1>7, <2>2, <2>3
<1>10. ASSUME NEW e \in ModReply, NEW v \in Vals, e \in OfValue(m, v),
              \/ Send(<<e>>) /\ v = cache[m]
              \/ Send(Announce(m, cache[m], v) \o <<e>>),
              cache'[m] = v, mstate[m] = "running"
       PROVE  \E es \in Seq(ModReply), w \in Vals : Sent(es, w)
  <2>1. \E es \in Seq(ModReply) :
          /\ replies' = replies \o es /\ Every(es, OfValue(m, v))
          /\ v \in Representable => v = cache[m] \/ ~None(es, Events(m))
    BY <1>3, <1>10 DEF Send
  <2>. QED  BY <1>10, <2>1 DEF Before
<1>11. CASE HandleRead(m)
  <2>. DEFINE v == IF Class[m] = "sw" THEN cache[m] ELSE hw[m]
  <2>1. r \in Request /\ v \in Vals /\ mstate[m] = "running"
    BY <1>1, <1>4, <1>11 DEF HandleRead
  <2>2. CASE Send(<<Refusal(m, r)>>) /\ cache' = cache
    BY <1>1, <1>6, <1>10, <2>1, <2>2
  <2>3. CASE Cached(m, v) /\ Send(Announce(m, cache[m], v) \o <<Report(m, r, "update", v)>>)
    <3>1. /\ Report(m, r, "update", v) \in ModReply
          /\ Report(m, r, "update", v) \in OfValue(m, v)
      BY <1>5, <1>6, <2>1 DEF Report
    <3>2. cache'[m] = v
      BY <1>1, <2>3 DEF Cached
    <3>. QED  BY <1>10, <2>1, <2>3, <3>1, <3>2
  <2>. QED  BY <1>11, <2>2, <2>3 DEF HandleRead, r
<1>12. CASE HandleChange(m)
  <2>1. r \in Request /\ mstate[m] = "running"
    BY <1>4, <1>12 DEF HandleChange
  <2>2. CASE Send(<<Refusal(m, r)>>) /\ cache' = cache
    BY <1>1, <1>6, <1>10, <2>1, <2>2
  <2>3. CASE /\ r.val \in Representable /\ Cached(m, r.val)
             /\ \/ Send(Announce(m, cache[m], r.val) \o <<Reply(m, r, "changed", r.val)>>)
                \/ Send(Announce(m, cache[m], r.val) \o <<Refusal(m, r)>>)
    <3>1. r.val \in Vals
      BY <2>3, ModuleAssumption DEF ModuleAssumption
    <3>2. /\ Reply(m, r, "changed", r.val) \in ModReply
          /\ Reply(m, r, "changed", r.val) \in OfValue(m, r.val)
      BY <1>5, <2>1, <3>1
    <3>3. cache'[m] = r.val
      BY <1>1, <2>3, <3>1 DEF Cached
    <3>. QED  BY <1>6, <1>10, <2>1, <2>3, <3>1, <3>2, <3>3
  <2>. QED  BY <1>12, <2>2, <2>3 DEF HandleChange, r
<1>13. CASE HandleDo(m)
  <2>1. r \in Request /\ cache' = cache /\ mstate[m] = "running"
    BY <1>4, <1>13 DEF HandleDo
  <2>2. /\ Reply(m, r, "done", NoVal) \in ModReply
        /\ Reply(m, r, "done", NoVal) \in OfValue(m, cache[m])
    BY <1>1, <1>5, <2>1
  <2>3. Send(<<Refusal(m, r)>>) \/ Send(<<Reply(m, r, "done", NoVal)>>)
    BY <1>13 DEF HandleDo, r
  <2>. QED  BY <1>1, <1>6, <1>10, <2>1, <2>2, <2>3
<1>14. CASE HandleActivate(m)
  <2>. DEFINE v == IF cache[m] \in Representable THEN cache[m] ELSE NoVal
  <2>1. r \in Request /\ cache' = cache /\ mstate[m] = "running"
    BY <1>4, <1>14 DEF HandleActivate
  <2>2. v \in Vals \cup {NoVal} /\ (cache[m] \in Representable => v = cache[m])
    BY <1>1
  <2>. HIDE DEF v
  <2>3. /\ Reply(m, r, "initupdates", v) \in ModReply
        /\ Reply(m, r, "initupdates", v) \in OfValue(m, cache[m])
    BY <1>1, <1>5, <2>1, <2>2
  <2>4. Send(<<Reply(m, r, "initupdates", v)>>)
    BY <1>14 DEF HandleActivate, r, v
  <2>. QED  BY <1>1, <1>10, <2>1, <2>3, <2>4
<1>15. CASE Poll(m)
  <2>1. hw[m] \in Vals /\ cache'[m] = hw[m] /\ mstate[m] = "running"
    BY <1>1, <1>15 DEF Poll, Cached
  <2>2. Send(Announce(m, cache[m], hw[m]))
    BY <1>15 DEF Poll
  <2>3. Sent(Announce(m, cache[m], hw[m]), hw[m])
    BY <1>2, <2>1, <2>2 DEF Send, Before
  <2>. QED  BY <1>2, <2>1, <2>3
<1>16. CASE Panic(m) \/ Drain(m) \/ Wake(m) \/ HardwareDrift(m)
  <2>1. /\ replies' = replies /\ cache' = cache
        /\ mstate'[m] = "running" => mstate[m] = "running"
    BY <1>1, <1>16 DEF Panic, Drain, Wake, HardwareDrift, chanVars
  <2>. QED  BY <1>7, <2>1
<1>. HIDE DEF Sent
<1>. QED
  BY <1>8, <1>9, <1>11, <1>12, <1>13, <1>14, <1>15, <1>16 DEF ModuleNext, HandleRequest

-----------------------------------------------------------------------------
(* Completeness through the steps                                           *)

\* The answers of modules to activations on their way have updates.
LEMMA UpdatesKept ==
    ASSUME Vals \subseteq Representable, TypeOK, Every(replies, WithUpdates), [Next]_vars
    PROVE  Every(replies', WithUpdates)
<1>1. replies \in Seq(ModReply)
  BY QueueTypes
<1>2. CASE DispatcherStep
  <2>1. replies' = replies \/ (replies # <<>> /\ replies' = Tail(replies))
    BY <1>2, NodeTyped, RequestShape, ReplyShape DEF DispatcherStep, DispatcherNext, Register
  <2>. QED  BY <1>1, <2>1, EveryTail
<1>3. ASSUME NEW m \in Mods, ModuleStep(m)
      PROVE  Every(replies', WithUpdates)
  <2>1. PICK es \in Seq(ModReply), v \in Vals :
          replies' = replies \o es /\ Every(es, OfValue(m, v))
    BY <1>3, ModuleValues DEF ModuleStep
  <2>2. v \in Representable
    OBVIOUS
  <2>3. OfValue(m, v) \subseteq WithUpdates
    BY <2>2, ChannelsAssumption DEF ChannelsAssumption, OfValue, WithUpdates
  <2>. QED  BY <1>1, <2>1, <2>3, EveryOfMore, EveryConcat
<1>4. ASSUME NEW h \in Handlers, ConnectionStep(h)
      PROVE  Every(replies', WithUpdates)
  BY <1>4, ConnectionShape DEF ConnectionStep
<1>5. CASE UNCHANGED vars
  BY <1>5 DEF vars, chanVars
<1>. QED  BY <1>2, <1>3, <1>4, <1>5 DEF Next

\* A module answers an activation of its own.
LEMMA CompleteAtModule ==
    ASSUME TypeOK, MatchInv, CountInv, OneInv, CompleteInv,
           DispatcherStep, RouteInitUpdates
    PROVE  FewMissing' /\ \A h \in Handlers \ discarded' : Complete(outbox'[h])
<1>. DEFINE e == Head(replies)
<1>1. /\ e \in ModReply /\ e \in Outgoing /\ e \in WithUpdates
      /\ e.to \in Handlers /\ e.from \in Mods /\ e.kind = "initupdates" /\ e.mod # All
      /\ SendBack(e.to, Append(InitialUpdates(e), Answer(e, "active")))
      /\ remaining' = remaining
  <2>1. /\ e \in ModReply /\ e \in Outgoing /\ e \in WithUpdates
    BY NodeTyped, ReplyShape, QueueTypes, EveryTail DEF MatchInv, CompleteInv, RouteReply
  <2>. QED  BY <2>1 DEF RouteInitUpdates, ModReply
<1>2. e.mod = e.from
  BY <1>1, OutgoingFacts DEF AnswersOf, Queued
<1>3. PICK x, y \in Message :
        /\ Append(InitialUpdates(e), Answer(e, "active")) = <<x, y>>
        /\ x \in Updates(e.from, e.id) /\ x.kind = "update"
        /\ y.kind = "active" /\ y.mod = e.mod /\ y.id = e.id
  <2>1. e.val # NoVal
    BY <1>1 DEF WithUpdates
  <2>. QED  BY <1>1, <2>1, LastMessages, Zenon
<1>. DEFINE ms == <<x, y>>
<1>4. ms \in Seq(Message) /\ Len(ms) = 2 /\ ms[1] = x /\ ms[2] = y
  OBVIOUS
<1>5. PICK h \in Handlers : h = e.to
  BY <1>1
<1>6. /\ e.from \in Mods /\ e.mod = e.from /\ SendBack(h, ms)
  BY <1>1, <1>2, <1>3, <1>5
<1>7. outbox \in [Handlers -> Seq(Message)] /\ All \notin Mods
  BY QueueTypes
<1>. HIDE DEF e, ms
<1>8. /\ discarded \subseteq discarded'
      /\ \A g \in Handlers :
           \/ outbox'[g] = outbox[g] /\ (g = h => h \in discarded')
           \/ g = h /\ outbox'[g] = outbox[g] \o ms
  BY <1>6, <1>7 DEF SendBack
<1>9. FewMissing'
  <2>1. \A g \in Handlers : \E t \in Seq(Message) : outbox'[g] = outbox[g] \o t
    <3>1. \A s \in Seq(Message) : s \o <<>> = s
      BY ConcatEmptySeq
    <3>2. <<>> \in Seq(Message)
      OBVIOUS
    <3>. QED  BY <1>4, <1>7, <1>8, <3>1, <3>2
  <2>. QED  BY <1>1, <1>8, <2>1, FewMissingKept DEF CompleteInv, DispatcherStep, Next,
            DispatcherNext, RouteReply
<1>10. Complete(outbox[h]) => Complete(outbox[h] \o ms)
  <2>. SUFFICES ASSUME Complete(outbox[h]), NEW k \in 1 .. Len(ms), ms[k].kind = "active",
                       NEW m \in Mods, Covers(ms[k], m)
                PROVE  \E j \in 1 .. k - 1 : ms[j] \in Updates(m, ms[k].id)
    BY <1>4, <1>7, CompleteGrows
  <2>1. k = 2
    BY <1>3, <1>4
  <2>2. m = e.from
    BY <1>2, <1>3, <1>4, <1>1, <2>1 DEF Covers
  <2>3. 1 \in 1 .. k - 1 /\ ms[1] \in Updates(m, ms[k].id)
    BY <1>3, <1>4, <2>1, <2>2
  <2>. QED  BY <2>3
<1>. QED  BY <1>8, <1>9, <1>10 DEF CompleteInv

\* A module answers a global activation: one update less is missing, and with the
\* last answer none.
LEMMA CompleteAtAll ==
    ASSUME TypeOK, MatchInv, OrderInv, CountInv, OneInv, CompleteInv,
           DispatcherStep, RouteInitUpdatesAll
    PROVE  FewMissing' /\ \A h \in Handlers \ discarded' : Complete(outbox'[h])
<1>. DEFINE e == Head(replies)
<1>1. /\ replies \in Seq(ModReply) /\ replies # <<>>
      /\ e \in ModReply /\ e \in WithUpdates
      /\ e.to \in Handlers /\ e.from \in Mods /\ e.kind = "initupdates" /\ e.mod = All
      /\ e.id \in Nat
      /\ remaining' = remaining - 1 /\ remaining \in Int
  <2>1. /\ replies \in Seq(ModReply) /\ replies # <<>>
        /\ e \in ModReply /\ e \in WithUpdates
    BY NodeTyped, ReplyShape, QueueTypes, EveryTail DEF CompleteInv, RouteReply
  <2>2. remaining' = remaining - 1 /\ remaining \in Int
    BY Zenon DEF RouteInitUpdatesAll, Countdown, TypeOK, DispatcherTypeOK
  <2>. QED  BY <2>1, <2>2 DEF RouteInitUpdatesAll, ModReply
<1>2. PICK x, y \in Message :
        /\ InitialUpdates(e) = <<x>>
        /\ Append(InitialUpdates(e), Answer(e, "active")) = <<x, y>>
        /\ x \in Updates(e.from, e.id) /\ x.kind = "update"
        /\ y.kind = "active" /\ y.mod = e.mod /\ y.id = e.id
  BY <1>1, LastMessages DEF WithUpdates
<1>3. PICK h \in Handlers, i \in Nat, n \in Mods : h = e.to /\ i = e.id /\ n = e.from
  BY <1>1
<1>. DEFINE one == <<x>>
            both == <<x, y>>
<1>4. /\ one \in Seq(Message) /\ Len(one) = 1 /\ one[1] = x
      /\ both \in Seq(Message) /\ Len(both) = 2 /\ both[1] = x /\ both[2] = y
  OBVIOUS
<1>5. PICK ms \in Seq(Message) :
        /\ SendBack(h, ms)
        /\ 1 \in 1 .. Len(ms) /\ ms[1] = x
        /\ \/ Len(ms) = 1 /\ remaining' # 0
           \/ Len(ms) = 2 /\ ms[2] = y /\ remaining' = 0
  <2>1. one # <<>>
    BY <1>4
  <2>2. \/ SendBack(h, both) /\ remaining' = 0
        \/ SendBack(h, one) /\ remaining' # 0
    BY <1>2, <1>3, <2>1, Zenon DEF RouteInitUpdatesAll
  <2>. HIDE DEF one, both
  <2>. QED  BY <1>4, <2>2
<1>6. n \in StillOwing /\ OwnedBy(h, i)
  <2>1. e \in GlobalAnswers(n)
    BY <1>1, <1>3 DEF GlobalAnswers
  <2>2. ~None(replies, GlobalAnswers(n))
    BY <1>1, <2>1, TailCount
  <2>3. PICK g, j : OwnedBy(g, j)
    BY DEF OneInv
  <2>4. None(replies, OtherAnswers(n, g, j))
    BY <2>3 DEF OwnedBy, Quiet
  <2>5. e \notin OtherAnswers(n, g, j)
    BY <1>1, <2>4, TailCount
  <2>6. h = g /\ i = j
    BY <1>3, <2>1, <2>5 DEF OtherAnswers
  <2>. QED  BY <2>2, <2>3, <2>6 DEF StillOwing
<1>7. outbox \in [Handlers -> Seq(Message)] /\ x \in Updates(n, i) /\ y.id = i
  BY <1>2, <1>3, QueueTypes
<1>. HIDE DEF e, one, both
<1>8. /\ discarded \subseteq discarded'
      /\ \A g \in Handlers :
           \/ outbox'[g] = outbox[g] /\ (g = h => h \in discarded')
           \/ g = h /\ outbox'[g] = outbox[g] \o ms
  BY <1>5, <1>7 DEF SendBack
<1>9. n \in Missing(h, i)
  BY <1>6, OwingIsMissing
<1>10. /\ Missing(h, i) \in SUBSET Mods
       /\ h \notin discarded => Cardinality(Missing(h, i)) <= remaining
  BY <1>6 DEF CompleteInv, FewMissing, Missing
<1>11. FewMissing'
  <2>. SUFFICES ASSUME NEW g \in Handlers, g \notin discarded', NEW j \in Nat,
                       OwnedBy(g, j)', StillOwing' # {}
                PROVE  Cardinality(Missing(g, j)') <= remaining'
    BY DEF FewMissing
  <2>1. ~(DispatchRequest /\ Begins)
    BY <1>1, NodeTyped, RequestShape, ReplyShape, TailDiffers DEF RouteReply
  <2>2. [Next]_vars
    BY DEF Next
  <2>3. OwnedBy(g, j)
    BY <2>1, <2>2, OwnerWas
  <2>4. /\ ~None(modq[n], GlobalRequests) \/ ~None(replies, GlobalAnswers(n))
        /\ None(modq[n], OtherRequests(g, j)) /\ None(replies, OtherAnswers(n, g, j))
        /\ None(modq[n], OtherRequests(h, i)) /\ None(replies, OtherAnswers(n, h, i))
    BY <1>6, <2>3 DEF StillOwing, OwnedBy, Quiet
  <2>5. g = h /\ j = i
    BY <2>4, SameOwner
  <2>6. outbox'[h] = outbox[h] \o ms /\ h \notin discarded
    BY <1>8, <2>5
  <2>7. ~None(ms, Updates(n, i))
    BY <1>5, <1>7 DEF None
  <2>8. Missing(h, i)' \subseteq Missing(h, i) \ {n} /\ Missing(h, i)' \in SUBSET Mods
    BY <2>6, <2>7, MissingShrinks
  <2>9. /\ Cardinality(Missing(h, i) \ {n}) = Cardinality(Missing(h, i)) - 1
        /\ Cardinality(Missing(h, i)) \in Nat /\ IsFiniteSet(Missing(h, i) \ {n})
    BY <1>9, <1>10, StillOwingFinite, FS_RemoveElement
  <2>10. Cardinality(Missing(h, i)') <= Cardinality(Missing(h, i) \ {n})
    BY <2>8, <2>9, FS_Subset
  <2>11. Cardinality(Missing(h, i)') \in Nat
    BY <2>8, StillOwingFinite
  <2>. QED  BY <1>1, <1>10, <2>5, <2>6, <2>9, <2>10, <2>11
<1>12. ASSUME h \notin discarded, Complete(outbox[h])
       PROVE  Complete(outbox[h] \o ms)
  <2>. SUFFICES ASSUME NEW k \in 1 .. Len(ms), ms[k].kind = "active",
                       NEW m \in Mods, Covers(ms[k], m)
                PROVE  \/ ~None(outbox[h], Updates(m, ms[k].id))
                       \/ \E j \in 1 .. k - 1 : ms[j] \in Updates(m, ms[k].id)
    BY <1>7, <1>12, CompleteGrows
  <2>1. Len(ms) = 2 /\ ms[2] = y /\ remaining' = 0 /\ k = 2
    BY <1>2, <1>5
  <2>2. Missing(h, i) \ {n} = {}
    <3>1. /\ Cardinality(Missing(h, i) \ {n}) = Cardinality(Missing(h, i)) - 1
          /\ Cardinality(Missing(h, i)) \in Nat /\ IsFiniteSet(Missing(h, i) \ {n})
          /\ Cardinality(Missing(h, i) \ {n}) \in Nat
      BY <1>9, <1>10, StillOwingFinite, FS_RemoveElement
    <3>2. Cardinality(Missing(h, i) \ {n}) = 0
      BY <1>1, <1>10, <1>12, <2>1, <3>1
    <3>. QED  BY <3>1, <3>2, FS_EmptySet
  <2>3. CASE m = n
    <3>1. 1 \in 1 .. k - 1 /\ ms[1] \in Updates(m, ms[k].id)
      BY <1>5, <1>7, <2>1, <2>3
    <3>. QED  BY <3>1
  <2>4. CASE m # n
    <3>1. ~None(outbox[h], Updates(m, i))
      BY <2>2, <2>4 DEF Missing
    <3>. QED  BY <1>7, <2>1, <3>1
  <2>. QED  BY <2>3, <2>4
<1>. QED  BY <1>8, <1>11, <1>12 DEF CompleteInv

LEMMA CompleteCorrect ==
    ASSUME Vals \subseteq Representable
    PROVE  Spec => []CompleteInv
<1>1. Init => CompleteInv
  BY EveryOfEmpty, NoneOfEmpty
  DEF Init, ChannelsInit, DispatcherInit, CompleteInv, Complete, FewMissing, StillOwing
<1>2. TypeOK /\ MatchInv /\ OrderInv /\ CountInv /\ OneInv /\ CompleteInv /\ [Next]_vars
        => CompleteInv'
  <2>. SUFFICES ASSUME TypeOK, MatchInv, OrderInv, CountInv, OneInv, CompleteInv,
                       [Next]_vars
                PROVE  CompleteInv'
    OBVIOUS
  <2>1. Every(replies', WithUpdates)
    BY UpdatesKept DEF CompleteInv
  <2>2. FewMissing' /\ \A h \in Handlers \ discarded' : Complete(outbox'[h])
    <3>1. CASE DispatcherStep /\ RouteInitUpdates
      BY <3>1, CompleteAtModule
    <3>2. CASE DispatcherStep /\ RouteInitUpdatesAll
      BY <3>2, CompleteAtAll
    <3>3. CASE ~(DispatcherStep /\ (RouteInitUpdates \/ RouteInitUpdatesAll))
      <4>1. /\ discarded \subseteq discarded'
            /\ \A h \in Handlers : \E ms \in Seq(Message) :
                 /\ \A k \in 1 .. Len(ms) : ms[k].kind # "active"
                 /\ outbox'[h] = outbox[h] \o ms
            /\ remaining' = remaining \/ (DispatchRequest /\ Begins)
        BY <3>3, OtherSends
      <4>2. FewMissing'
        BY <4>1, FewMissingKept DEF CompleteInv
      <4>3. ASSUME NEW h \in Handlers, h \notin discarded'
            PROVE  Complete(outbox'[h])
        <5>1. PICK ms \in Seq(Message) :
                /\ \A k \in 1 .. Len(ms) : ms[k].kind # "active"
                /\ outbox'[h] = outbox[h] \o ms
          BY <4>1
        <5>2. Complete(outbox[h]) /\ outbox[h] \in Seq(Message)
          BY <4>1, <4>3, QueueTypes DEF CompleteInv
        <5>. QED  BY <5>1, <5>2, CompleteGrows
      <4>. QED  BY <4>2, <4>3
    <3>. QED  BY <3>1, <3>2, <3>3
  <2>. QED  BY <2>1, <2>2 DEF CompleteInv, WithUpdates
<1>. QED
  BY <1>1, <1>2, TypeCorrect, MatchCorrect, OrderCorrect, CountInvCorrect, OneCorrect, PTL
  DEF Spec

\* Before a handler is told that its activation is done, it has been sent an
\* update for that request from every module it activated (server.rs:280-298,
\* module.rs:147-149): where every value can be sent, what is counted down is
\* exactly what is missing.
THEOREM ActivationsComplete ==
    ASSUME Vals \subseteq Representable
    PROVE  Spec => []ActivationComplete
<1>1. CompleteInv => ActivationComplete
  BY DEF CompleteInv, Complete, Updates, ActivationComplete
<1>. QED  BY <1>1, CompleteCorrect, PTL

-----------------------------------------------------------------------------
(* Who activated a module is up to date                                     *)

UpdatesOf(m) == {x \in Message : x.kind = "update" /\ x.mod = m}

\* No element of s after position k is in G.
NoneAfter(s, k, G) == \A j \in 1 .. Len(s) : j > k => s[j] \notin G

\* The last update of m in s has value v.
Latest(s, m, v) ==
    \E k \in 1 .. Len(s) : s[k] \in UpdatesOf(m) /\ s[k].val = v /\ NoneAfter(s, k, UpdatesOf(m))

LEMMA LatestIsLast ==
    ASSUME TypeOK, NEW h \in Handlers, NEW m, NEW v, Latest(outbox[h], m, v)
    PROVE  LastUpdate(h, m) = v
<1>. DEFINE s == outbox[h]
            U == {i \in 1 .. Len(s) : s[i].kind = "update" /\ s[i].mod = m}
<1>1. s \in Seq(Message) /\ Len(s) \in Nat /\ \A i \in 1 .. Len(s) : s[i] \in Message
  BY QueueTypes, LenProperties, ElementOfSeq
<1>2. PICK k \in 1 .. Len(s) :
        s[k] \in UpdatesOf(m) /\ s[k].val = v /\ NoneAfter(s, k, UpdatesOf(m))
  BY DEF Latest
<1>3. k \in U /\ U \subseteq 1 .. Len(s)
  BY <1>2 DEF UpdatesOf
<1>4. \A j \in U : s[j] \in UpdatesOf(m)
  BY <1>1 DEF UpdatesOf
<1>5. LastUpdate(h, m) = IF U = {} THEN NoVal ELSE s[CHOOSE i \in U : \A j \in U : j <= i].val
  BY DEF LastUpdate
<1>. HIDE DEF s, U
<1>6. \A j \in U : j <= k
  BY <1>1, <1>2, <1>3, <1>4 DEF NoneAfter
<1>7. (CHOOSE i \in U : \A j \in U : j <= i) = k
  <2>1. \A i \in U : (\A j \in U : j <= i) => i = k
    BY <1>1, <1>3, <1>6
  <2>. QED  BY <1>3, <1>6, <2>1
<1>. QED  BY <1>2, <1>3, <1>5, <1>7

\* What is added to s decides what the last update is, if it has one.
LEMMA LatestConcat ==
    ASSUME NEW s \in Seq(Message), NEW t \in Seq(Message), NEW m, NEW v
    PROVE  /\ Latest(t, m, v) => Latest(s \o t, m, v)
           /\ (None(t, UpdatesOf(m)) /\ Latest(s, m, v)) => Latest(s \o t, m, v)
<1>. DEFINE u == s \o t
            G == UpdatesOf(m)
<1>1. /\ Len(s) \in Nat /\ Len(t) \in Nat /\ Len(u) = Len(s) + Len(t)
      /\ \A i \in 1 .. Len(s) + Len(t) : u[i] = IF i <= Len(s) THEN s[i] ELSE t[i - Len(s)]
  BY ConcatProperties, LenProperties
<1>. HIDE DEF u, G
<1>2. \A i \in 1 .. Len(s) : i \in 1 .. Len(u) /\ u[i] = s[i]
  BY <1>1
<1>3. ASSUME NEW i \in 1 .. Len(t)
      PROVE  Len(s) + i \in 1 .. Len(u) /\ u[Len(s) + i] = t[i]
  <2>1. Len(s) + i \in 1 .. Len(s) + Len(t) /\ ~(Len(s) + i <= Len(s))
        /\ (Len(s) + i) - Len(s) = i
    BY <1>1
  <2>. QED  BY <1>1, <2>1
<1>4. \A j \in 1 .. Len(u) : j > Len(s) =>
        j - Len(s) \in 1 .. Len(t) /\ u[j] = t[j - Len(s)]
  BY <1>1
<1>5. ASSUME NEW k \in 1 .. Len(t), t[k] \in G, t[k].val = v, NoneAfter(t, k, G)
      PROVE  Latest(u, m, v)
  <2>1. NoneAfter(u, Len(s) + k, G)
    <3>. SUFFICES ASSUME NEW j \in 1 .. Len(u), j > Len(s) + k
                  PROVE  u[j] \notin G
      BY DEF NoneAfter
    <3>1. j > Len(s) /\ j - Len(s) > k
      BY <1>1
    <3>. QED  BY <1>4, <1>5, <3>1 DEF NoneAfter
  <2>. QED  BY <1>3, <1>5, <2>1 DEF Latest, G
<1>6. ASSUME None(t, G), NEW k \in 1 .. Len(s), s[k] \in G, s[k].val = v, NoneAfter(s, k, G)
      PROVE  Latest(u, m, v)
  <2>1. NoneAfter(u, k, G)
    <3>. SUFFICES ASSUME NEW j \in 1 .. Len(u), j > k
                  PROVE  u[j] \notin G
      BY DEF NoneAfter
    <3>1. CASE j > Len(s)
      BY <1>4, <1>6, <3>1 DEF None
    <3>2. CASE j \in 1 .. Len(s)
      BY <1>2, <1>6, <3>2 DEF NoneAfter
    <3>. QED  BY <1>1, <3>1, <3>2
  <2>. QED  BY <1>2, <1>6, <2>1 DEF Latest, G
<1>. QED  BY <1>5, <1>6 DEF Latest, u, G

\* The last one is an update of value v.
LEMMA LatestOfOne ==
    ASSUME NEW x \in Message, NEW m, x \in UpdatesOf(m)
    PROVE  Latest(<<x>>, m, x.val)
<1>. DEFINE t == <<x>>
<1>1. Len(t) = 1 /\ t[1] = x
  OBVIOUS
<1>. HIDE DEF t
<1>2. NoneAfter(t, 1, UpdatesOf(m))
  BY <1>1 DEF NoneAfter
<1>. QED  BY <1>1, <1>2 DEF Latest, t

\* What module m says of its value: in answers and events.
Activations(m) == {e \in ModReply : e.kind = "initupdates" /\ e.from = m /\ e.mod = m}

Carriers(m) == {e \in ModReply : e.kind \in {"update", "initupdates"} /\ e.from = m}

\* A value of m in s that somebody in A is sent is v, if no event follows: of what
\* was sent before the first activation was answered nothing is said, for nobody
\* is sent it.
FreshIn(s, A, m, v) ==
    \A k \in 1 .. Len(s) :
      (/\ s[k] \in Carriers(m)
       /\ NoneAfter(s, k, Events(m))
       /\ A # {} \/ \E j \in 1 .. k : s[j] \in Activations(m))
      => s[k].val = v

\* The handlers that activated m by itself, and were dropped nothing.
Alone(m) == {h \in active[m] \ discarded : ActivatedAlone(h, m)}

Fresh(m) == FreshIn(replies, Alone(m), m, cache[m])

Untouched(m) == Alone(m) = {} /\ None(replies, Activations(m))

UpToDate(m) ==
    \A h \in Alone(m) : None(replies, Events(m)) => Latest(outbox[h], m, cache[m])

\* A module that has not run yet, and does not panic, was not activated.
UpdateOf(m) ==
    /\ mstate[m] # "running" => m \in Panicky \/ Untouched(m)
    /\ (mstate[m] = "running" /\ ~Unannounced(m, cache[m])) => Fresh(m) /\ UpToDate(m)

UpdateInv == \A m \in Mods : UpdateOf(m)

\* h is sent nothing of G.
NotSent(h, G) == \E ms \in Seq(Message) : None(ms, G) /\ outbox'[h] = outbox[h] \o ms

LEMMA NotSentNothing ==
    ASSUME TypeOK, NEW h \in Handlers, NEW G, outbox'[h] = outbox[h]
    PROVE  NotSent(h, G)
<1>. DEFINE t == <<>>
<1>1. t \in Seq(Message) /\ None(t, G) /\ outbox[h] \o t = outbox[h]
  BY QueueTypes, NoneOfEmpty, ConcatEmptySeq
<1>. HIDE DEF t
<1>. QED  BY <1>1 DEF NotSent

LEMMA NotSentOne ==
    ASSUME TypeOK, NEW h \in Handlers, NEW G, NEW x \in Message, x \notin G,
           outbox'[h] \in {outbox[h], Append(outbox[h], x), outbox[h] \o <<x>>}
    PROVE  NotSent(h, G)
<1>. DEFINE t == <<x>>
<1>1. t \in Seq(Message) /\ None(t, G) /\ Append(outbox[h], x) = outbox[h] \o t
  BY QueueTypes, NoneOfOne, AppendIsConcat
<1>2. outbox'[h] \in {outbox[h], outbox[h] \o t}
  BY <1>1
<1>. HIDE DEF t
<1>. QED  BY <1>1, <1>2, NotSentNothing DEF NotSent

\* What only replies bring is sent in no other step.
LEMMA RepliesBring ==
    ASSUME TypeOK, [Next]_vars, ~(DispatcherStep /\ RouteReply), NEW h \in Handlers,
           NEW G, \A x \in G : x.kind \notin {"error", "inactive", "describing", "pong"}
    PROVE  NotSent(h, G)
<1>0. outbox \in [Handlers -> Seq(Message)]
  BY QueueTypes
<1>1. ASSUME NEW g \in Handlers, NEW r \in Request,
             NEW kind \in {"error", "inactive", "describing", "pong"},
             \/ SendBack(g, <<Answer(r, kind)>>)
             \/ outbox' = [outbox EXCEPT ![g] = Append(@, Answer(r, kind))]
      PROVE  NotSent(h, G)
  <2>1. Answer(r, kind) \in Message /\ Answer(r, kind) \notin G
    BY AnswerType DEF Answer
  <2>2. outbox'[h] \in {outbox[h], Append(outbox[h], Answer(r, kind)),
                        outbox[h] \o <<Answer(r, kind)>>}
    BY <1>0, <1>1 DEF SendBack
  <2>. QED  BY <2>1, <2>2, NotSentOne
<1>2. CASE DispatcherStep /\ Register
  BY <1>2, NotSentNothing DEF Register
<1>3. CASE DispatcherStep /\ DispatchRequest
  <2>1. PICK r \in Request :
          /\ r = Head(requests) /\ r.hid \in Handlers
          /\ Forwards(r) \/ AnswersItself(r) \/ TakesSilently(r)
    BY <1>3, NodeTyped, RequestShape DEF Request
  <2>2. CASE Forwards(r) \/ TakesSilently(r)
    BY <2>2, NotSentNothing DEF Forwards, TakesSilently
  <2>3. CASE AnswersItself(r)
    <3>1. PICK kind \in {"error", "inactive", "describing"} :
            SendBack(r.hid, <<Answer(r, kind)>>)
      BY <2>3 DEF AnswersItself
    <3>. QED  BY <1>1, <2>1, <3>1
  <2>. QED  BY <2>1, <2>2, <2>3
<1>4. ASSUME NEW n \in Mods, ModuleStep(n)
      PROVE  NotSent(h, G)
  BY <1>4, NodeTyped, ModuleShape, NotSentNothing DEF ModuleStep, Emits, AnswersFirst
<1>5. ASSUME NEW g \in Handlers, ConnectionStep(g)
      PROVE  NotSent(h, G)
  <2>1. \/ outbox' = outbox
        \/ \E r \in Request : outbox' = [outbox EXCEPT ![g] = Append(@, Answer(r, "pong"))]
    BY <1>5, ConnectionShape DEF ConnectionStep, MakesRequest, SendsQuit
  <2>. QED  BY <1>1, <2>1, NotSentNothing
<1>6. CASE UNCHANGED vars
  BY <1>6, NotSentNothing DEF vars, chanVars
<1>. QED
  <2>1. DispatcherStep => Register \/ DispatchRequest \/ RouteReply
    BY DEF DispatcherStep, DispatcherNext
  <2>. QED  BY <1>2, <1>3, <1>4, <1>5, <1>6, <2>1 DEF Next

\* A reply of which nothing is in G brings nothing of G.
LEMMA ReplyBringsOther ==
    ASSUME TypeOK, RouteReply, NEW h \in Handlers, NEW G, Tellings(Head(replies)) \cap G = {}
    PROVE  NotSent(h, G)
<1>0. outbox \in [Handlers -> Seq(Message)]
  BY QueueTypes
<1>1. PICK e \in ModReply : e = Head(replies) /\ (RoutesEvent(e) \/ RoutesAnswer(e))
  BY NodeTyped, ReplyShape
<1>2. CASE RoutesEvent(e)
  <2>1. \/ outbox' = outbox
        \/ e.kind = "update" /\ outbox'[h] \in {outbox[h], Append(outbox[h], Relay(e))}
    BY <1>0, <1>2 DEF RoutesEvent
  <2>2. e.kind = "update" => Relay(e) \in Message /\ Relay(e) \in Tellings(e)
    BY RelayType DEF Relay, Tellings
  <2>. QED  BY <1>1, <2>1, <2>2, NotSentNothing, NotSentOne
<1>3. CASE RoutesAnswer(e)
  <2>1. PICK ms : TellsOf(e, ms) /\ outbox' \in {outbox, [outbox EXCEPT ![e.to] = @ \o ms]}
    BY <1>3 DEF RoutesAnswer
  <2>2. ms \in Seq(Tellings(e)) /\ Tellings(e) \subseteq Message
    BY <2>1 DEF TellsOf, Tellings
  <2>3. ms \in Seq(Message) /\ None(ms, G)
    <3>1. Len(ms) \in Nat /\ \A i \in 1 .. Len(ms) : ms[i] \in Tellings(e)
      BY <2>2, ElementOfSeq, LenProperties
    <3>2. ms \in Seq(Message)
      BY <2>2
    <3>. QED  BY <1>1, <3>1, <3>2 DEF None
  <2>4. outbox'[h] = outbox[h] \/ outbox'[h] = outbox[h] \o ms
    BY <1>0, <2>1
  <2>. QED  BY <2>3, <2>4, NotSentNothing DEF NotSent
<1>. QED  BY <1>1, <1>2, <1>3

\* Steps that give no client an update of m.
LEMMA OtherUpdates ==
    ASSUME TypeOK, [Next]_vars, NEW m,
           ~(DispatcherStep /\ RouteReply /\ Head(replies).from = m),
           NEW h \in Handlers
    PROVE  NotSent(h, UpdatesOf(m))
<1>1. CASE DispatcherStep /\ RouteReply
  <2>1. Tellings(Head(replies)) \cap UpdatesOf(m) = {}
    BY <1>1 DEF Tellings, UpdatesOf
  <2>. QED  BY <1>1, <2>1, ReplyBringsOther
<1>2. CASE ~(DispatcherStep /\ RouteReply)
  BY <1>2, RepliesBring DEF UpdatesOf
<1>. QED  BY <1>1, <1>2

\* That the activation of that name is done: a module's, or All.
ActiveOf(n) == {x \in Message : x.kind = "active" /\ x.mod = n}

\* Steps that tell no client so.
LEMMA OtherActives ==
    ASSUME TypeOK, [Next]_vars, NEW n,
           ~(/\ DispatcherStep /\ (RouteInitUpdates \/ RouteInitUpdatesAll)
             /\ Head(replies).mod = n),
           NEW h \in Handlers
    PROVE  NotSent(h, ActiveOf(n))
<1>1. CASE DispatcherStep /\ (RouteInitUpdates \/ RouteInitUpdatesAll)
  <2>1. Tellings(Head(replies)) \cap ActiveOf(n) = {}
    BY <1>1 DEF Tellings, ActiveOf
  <2>. QED  BY <1>1, <2>1, ReplyBringsOther DEF RouteReply
<1>2. CASE DispatcherStep /\ (RouteDescription \/ RouteEvent \/ RouteAnswer)
  <2>1. outbox \in [Handlers -> Seq(Message)]
    BY QueueTypes
  <2>2. PICK e \in ModReply : e = Head(replies)
    BY <1>2, NodeTyped, ReplyShape DEF RouteReply
  <2>3. CASE RouteDescription
    BY <2>3, NotSentNothing DEF RouteDescription
  <2>4. CASE RouteEvent \/ RouteAnswer
    <3>1. e.kind # "initupdates"
      BY <2>2, <2>4 DEF RouteEvent, RouteAnswer
    <3>2. Relay(e) \in Message /\ Relay(e) \notin ActiveOf(n)
      BY <3>1, RelayType DEF Relay, ActiveOf, ModReply
    <3>3. outbox'[h] \in {outbox[h], Append(outbox[h], Relay(e)), outbox[h] \o <<Relay(e)>>}
      BY <2>1, <2>2, <2>4 DEF RouteEvent, RouteAnswer, SendBack
    <3>. QED  BY <3>2, <3>3, NotSentOne
  <2>. QED  BY <1>2, <2>3, <2>4
<1>3. CASE ~(DispatcherStep /\ RouteReply)
  BY <1>3, RepliesBring DEF ActiveOf
<1>. QED  BY <1>1, <1>2, <1>3 DEF RouteReply

\* The last Active in s that covers m is of m alone.
AloneIn(s, m) ==
    \E i \in 1 .. Len(s) : s[i] \in ActiveOf(m) /\ NoneAfter(s, i, ActiveOf(All))

LEMMA AloneIsIn ==
    ASSUME NEW s \in Seq(Message), NEW m
    PROVE  AloneIn(s, m) <=>
             \E i \in 1 .. Len(s) : /\ s[i].kind = "active" /\ s[i].mod = m
                                    /\ \A j \in i + 1 .. Len(s) :
                                         ~(s[j].kind = "active" /\ s[j].mod = All)
<1>1. Len(s) \in Nat /\ \A i \in 1 .. Len(s) : s[i] \in Message
  BY LenProperties, ElementOfSeq
<1>2. \A i \in 1 .. Len(s) : \A n :
        s[i] \in ActiveOf(n) <=> s[i].kind = "active" /\ s[i].mod = n
  BY <1>1 DEF ActiveOf
<1>3. ASSUME NEW i \in 1 .. Len(s)
      PROVE  (\A j \in i + 1 .. Len(s) : ~(s[j].kind = "active" /\ s[j].mod = All))
             <=> NoneAfter(s, i, ActiveOf(All))
  BY <1>1, <1>2 DEF NoneAfter
<1>. QED  BY <1>2, <1>3 DEF AloneIn

\* Nobody becomes alone by messages that do not say so.
LEMMA AloneConcat ==
    ASSUME NEW s \in Seq(Message), NEW t \in Seq(Message), NEW m,
           None(t, ActiveOf(m)), AloneIn(s \o t, m)
    PROVE  AloneIn(s, m) /\ None(t, ActiveOf(All))
<1>. DEFINE u == s \o t
<1>1. /\ Len(s) \in Nat /\ Len(t) \in Nat /\ Len(u) = Len(s) + Len(t)
      /\ \A i \in 1 .. Len(s) + Len(t) : u[i] = IF i <= Len(s) THEN s[i] ELSE t[i - Len(s)]
  BY ConcatProperties, LenProperties
<1>2. PICK i \in 1 .. Len(u) : u[i] \in ActiveOf(m) /\ NoneAfter(u, i, ActiveOf(All))
  BY DEF AloneIn
<1>. HIDE DEF u
<1>3. i \in 1 .. Len(s) /\ s[i] = u[i]
  <2>1. CASE i > Len(s)
    <3>1. i - Len(s) \in 1 .. Len(t) /\ t[i - Len(s)] = u[i]
      BY <1>1, <1>2, <2>1
    <3>. QED  BY <1>2, <3>1 DEF None
  <2>2. CASE ~(i > Len(s))
    BY <1>1, <1>2, <2>2
  <2>. QED  BY <2>1, <2>2
<1>4. NoneAfter(s, i, ActiveOf(All))
  <2>. SUFFICES ASSUME NEW j \in 1 .. Len(s), j > i
                PROVE  s[j] \notin ActiveOf(All)
    BY DEF NoneAfter
  <2>1. j \in 1 .. Len(u) /\ u[j] = s[j]
    BY <1>1
  <2>. QED  BY <1>2, <2>1 DEF NoneAfter
<1>5. None(t, ActiveOf(All))
  <2>. SUFFICES ASSUME NEW j \in 1 .. Len(t)
                PROVE  t[j] \notin ActiveOf(All)
    BY DEF None
  <2>1. Len(s) + j \in 1 .. Len(s) + Len(t) /\ ~(Len(s) + j <= Len(s))
        /\ (Len(s) + j) - Len(s) = j /\ Len(s) + j > i
    BY <1>1, <1>3
  <2>2. u[Len(s) + j] = t[j]
    BY <1>1, <2>1
  <2>. QED  BY <1>1, <1>2, <2>1, <2>2 DEF NoneAfter
<1>. QED  BY <1>2, <1>3, <1>4, <1>5 DEF AloneIn

\* What was dropped stays so, and only answers to activations make anybody active.
LEMMA ActiveShrinks ==
    ASSUME TypeOK, [Next]_vars, NEW m \in Mods
    PROVE  /\ discarded \subseteq discarded'
           /\ ~(DispatcherStep /\ (RouteInitUpdates \/ RouteInitUpdatesAll)) =>
                active'[m] \subseteq active[m]
<1>1. active \in [Mods -> SUBSET Handlers]
  BY DEF TypeOK, DispatcherTypeOK
<1>2. CASE DispatcherStep /\ (Register \/ DispatchRequest)
  BY <1>1, <1>2, NodeTyped, RequestShape
  DEF Register, Forwards, AnswersItself, TakesSilently, SendBack, Without
<1>3. CASE DispatcherStep /\ RouteReply
  BY <1>3 DEF RouteReply, RouteDescription, RouteEvent, RouteInitUpdates,
              RouteInitUpdatesAll, RouteAnswer, SendNothing, SendBack
<1>4. CASE (\E n \in Mods : ModuleStep(n)) \/ (\E h \in Handlers : ConnectionStep(h))
  BY <1>4 DEF ModuleStep, ConnectionStep, dispVars
<1>5. CASE UNCHANGED vars
  BY <1>5 DEF vars, dispVars
<1>. QED  BY <1>2, <1>3, <1>4, <1>5 DEF Next, DispatcherStep, DispatcherNext

\* Nobody becomes alone but by the answer to an activation of the module.
LEMMA AloneShrinks ==
    ASSUME TypeOK, TypeOK', [Next]_vars, NEW m \in Mods,
           ~(DispatcherStep /\ RouteInitUpdates /\ Head(replies).mod = m)
    PROVE  Alone(m)' \subseteq Alone(m)
<1>. SUFFICES ASSUME NEW h \in Alone(m)'
              PROVE  h \in Alone(m)
  OBVIOUS
<1>1. /\ outbox \in [Handlers -> Seq(Message)] /\ All \notin Mods
      /\ active \in [Mods -> SUBSET Handlers]
  BY QueueTypes DEF TypeOK, DispatcherTypeOK
<1>2. h \in active'[m] /\ h \notin discarded' /\ h \in Handlers
  BY DEF Alone, TypeOK, DispatcherTypeOK
<1>3. h \notin discarded
  BY <1>2, ActiveShrinks
<1>4. NotSent(h, ActiveOf(m))
  BY <1>1, <1>2, OtherActives DEF RouteInitUpdatesAll
<1>5. outbox'[h] \in Seq(Message) /\ AloneIn(outbox'[h], m)
  <2>1. outbox'[h] \in Seq(Message)
    BY <1>1, <1>2, <1>4, ConcatProperties DEF NotSent
  <2>2. ActivatedAlone(h, m)'
    BY DEF Alone
  <2>. QED  BY <2>1, <2>2, AloneIsIn DEF ActivatedAlone
<1>6. AloneIn(outbox[h], m)
  BY <1>1, <1>2, <1>4, <1>5, AloneConcat DEF NotSent
<1>7. h \in active[m]
  <2>1. CASE DispatcherStep /\ RouteInitUpdatesAll
    <3>. DEFINE e == Head(replies)
                ms == Append(InitialUpdates(e), Answer(e, "active"))
    <3>1. e \in ModReply /\ e.mod = All
      BY <2>1, NodeTyped, ReplyShape DEF RouteReply, RouteInitUpdatesAll
    <3>2. \/ active' = active
          \/ SendBack(e.to, ms) /\ active'[m] = active[m] \cup {e.to}
      BY <2>1 DEF RouteInitUpdatesAll
    <3>. SUFFICES ASSUME SendBack(e.to, ms), h = e.to
                  PROVE  FALSE
      BY <1>2, <3>2
    <3>3. outbox'[h] = outbox[h] \o ms
      BY <1>1, <1>2 DEF SendBack
    <3>4. ms \in Seq(Message) /\ None(ms, ActiveOf(m)) /\ ~None(ms, ActiveOf(All))
      <4>1. InitialUpdates(e) \in Seq(Message) /\ Answer(e, "active") \in Message
        BY <3>1, InitialUpdatesType, AnswerType
      <4>2. None(InitialUpdates(e), ActiveOf(m))
        BY <3>1, NoneOfEmpty, NoneOfOne DEF InitialUpdates, ActiveOf
      <4>3. Answer(e, "active") \notin ActiveOf(m) /\ Answer(e, "active") \in ActiveOf(All)
        BY <1>1, <3>1, <4>1 DEF Answer, ActiveOf
      <4>4. ms \in Seq(Message) /\ None(ms, ActiveOf(m))
        BY <4>1, <4>2, <4>3, AppendOther
      <4>5. Len(ms) \in 1 .. Len(ms) /\ ms[Len(ms)] = Answer(e, "active")
        BY <4>1, AppendProperties, LenProperties
      <4>. QED  BY <4>3, <4>4, <4>5 DEF None
    <3>. QED  BY <1>1, <1>2, <1>5, <3>3, <3>4, AloneConcat
  <2>2. CASE DispatcherStep /\ RouteInitUpdates
    <3>1. active'[m] = active[m]
      BY <1>1, <2>2 DEF RouteInitUpdates
    <3>. QED  BY <1>2, <3>1
  <2>3. CASE ~(DispatcherStep /\ (RouteInitUpdates \/ RouteInitUpdatesAll))
    BY <1>2, <2>3, ActiveShrinks
  <2>. QED  BY <2>1, <2>2, <2>3
<1>. QED  BY <1>1, <1>2, <1>3, <1>6, <1>7, AloneIsIn DEF Alone, ActivatedAlone

\* A reply that gives m's value as v, if it gives it.
Valued(m, v) == {e \in ModReply : e \in Carriers(m) => e.val = v}

LEMMA FreshConcat ==
    ASSUME NEW s \in Seq(ModReply), NEW t \in Seq(ModReply), NEW A, NEW m, NEW w,
           Every(t, Valued(m, w)), FreshIn(s, A, m, w) \/ ~None(t, Events(m))
    PROVE  FreshIn(s \o t, A, m, w)
<1>. DEFINE u == s \o t
            G == Events(m)
<1>1. /\ Len(s) \in Nat /\ Len(t) \in Nat /\ Len(u) = Len(s) + Len(t)
      /\ \A i \in 1 .. Len(s) + Len(t) : u[i] = IF i <= Len(s) THEN s[i] ELSE t[i - Len(s)]
  BY ConcatProperties, LenProperties
<1>. HIDE DEF u, G
<1>2. \A i \in 1 .. Len(s) : i \in 1 .. Len(u) /\ u[i] = s[i]
  BY <1>1
<1>3. ASSUME NEW i \in 1 .. Len(t)
      PROVE  Len(s) + i \in 1 .. Len(u) /\ u[Len(s) + i] = t[i]
  <2>1. Len(s) + i \in 1 .. Len(s) + Len(t) /\ ~(Len(s) + i <= Len(s))
        /\ (Len(s) + i) - Len(s) = i
    BY <1>1
  <2>. QED  BY <1>1, <2>1
<1>4. \A j \in 1 .. Len(u) : j > Len(s) =>
        j - Len(s) \in 1 .. Len(t) /\ u[j] = t[j - Len(s)]
  BY <1>1
<1>. SUFFICES ASSUME NEW k \in 1 .. Len(u), u[k] \in Carriers(m), NoneAfter(u, k, G),
                     A # {} \/ \E j \in 1 .. k : u[j] \in Activations(m)
              PROVE  u[k].val = w
  BY DEF FreshIn, u, G
<1>5. CASE k \in 1 .. Len(s)
  <2>1. NoneAfter(s, k, G)
    BY <1>2 DEF NoneAfter
  <2>2. None(t, G)
    <3>. SUFFICES ASSUME NEW i \in 1 .. Len(t)
                  PROVE  t[i] \notin G
      BY DEF None
    <3>1. Len(s) + i \in 1 .. Len(u) /\ Len(s) + i > k /\ u[Len(s) + i] = t[i]
      BY <1>1, <1>3, <1>5
    <3>. QED  BY <3>1 DEF NoneAfter
  <2>3. \A j \in 1 .. k : u[j] = s[j]
    BY <1>1, <1>2, <1>5
  <2>4. FreshIn(s, A, m, w)
    BY <2>2 DEF G
  <2>5. s[k] \in Carriers(m) /\ (A # {} \/ \E j \in 1 .. k : s[j] \in Activations(m))
    BY <1>2, <1>5, <2>3
  <2>6. s[k].val = w
    BY <1>5, <2>1, <2>4, <2>5 DEF FreshIn, G
  <2>. QED  BY <1>2, <1>5, <2>6
<1>6. CASE k > Len(s)
  <2>1. k - Len(s) \in 1 .. Len(t) /\ u[k] = t[k - Len(s)]
    BY <1>4, <1>6
  <2>2. t[k - Len(s)] \in Valued(m, w)
    BY <2>1 DEF Every
  <2>. QED  BY <2>1, <2>2 DEF Valued
<1>. QED  BY <1>1, <1>5, <1>6

LEMMA FreshTail ==
    ASSUME NEW s \in Seq(ModReply), s # <<>>, NEW A, NEW B, NEW m, NEW v,
           FreshIn(s, A, m, v), B = {} \/ A # {} \/ Head(s) \in Activations(m)
    PROVE  FreshIn(Tail(s), B, m, v)
<1>. DEFINE t == Tail(s)
            G == Events(m)
<1>1. /\ Len(s) \in Nat \ {0} /\ Len(t) = Len(s) - 1 /\ Head(s) = s[1]
      /\ \A i \in 1 .. Len(t) : t[i] = s[i + 1]
  BY HeadTailProperties, EmptySeq, LenProperties
<1>. HIDE DEF t, G
<1>. SUFFICES ASSUME NEW k \in 1 .. Len(t), t[k] \in Carriers(m), NoneAfter(t, k, G),
                     B # {} \/ \E j \in 1 .. k : t[j] \in Activations(m)
              PROVE  t[k].val = v
  BY DEF FreshIn, t, G
<1>2. k + 1 \in 1 .. Len(s) /\ s[k + 1] = t[k]
  BY <1>1
<1>3. NoneAfter(s, k + 1, G)
  <2>. SUFFICES ASSUME NEW j \in 1 .. Len(s), j > k + 1
                PROVE  s[j] \notin G
    BY DEF NoneAfter
  <2>1. j - 1 \in 1 .. Len(t) /\ j - 1 > k /\ (j - 1) + 1 = j
    BY <1>1
  <2>2. t[j - 1] = s[j]
    BY <1>1, <2>1
  <2>. QED  BY <2>1, <2>2 DEF NoneAfter
<1>4. A # {} \/ \E j \in 1 .. k + 1 : s[j] \in Activations(m)
  <2>1. CASE Head(s) \in Activations(m)
    <3>1. 1 \in 1 .. k + 1 /\ s[1] \in Activations(m)
      BY <1>1, <2>1
    <3>. QED  BY <3>1
  <2>2. ASSUME NEW j \in 1 .. k, t[j] \in Activations(m)
        PROVE  \E i \in 1 .. k + 1 : s[i] \in Activations(m)
    <3>1. j + 1 \in 1 .. k + 1 /\ j \in 1 .. Len(t)
      BY <1>1
    <3>2. s[j + 1] = t[j]
      BY <1>1, <3>1
    <3>. QED  BY <2>2, <3>1, <3>2
  <2>. QED  BY <2>1, <2>2
<1>. QED  BY <1>2, <1>3, <1>4 DEF FreshIn, G

\* Before any activation is answered, nothing is said.
LEMMA FreshOfNone ==
    ASSUME NEW s \in Seq(ModReply), NEW m, NEW v, None(s, Activations(m))
    PROVE  FreshIn(s, {}, m, v)
<1>. SUFFICES ASSUME NEW k \in 1 .. Len(s), NEW j \in 1 .. k, s[j] \in Activations(m)
              PROVE  FALSE
  BY DEF FreshIn
<1>1. j \in 1 .. Len(s)
  BY LenProperties
<1>. QED  BY <1>1 DEF None

\* What the head of the queue says.
LEMMA FreshHead ==
    ASSUME NEW s \in Seq(ModReply), s # <<>>, NEW A, NEW m, NEW v, FreshIn(s, A, m, v),
           Head(s) \in Carriers(m), None(Tail(s), Events(m)),
           A # {} \/ Head(s) \in Activations(m)
    PROVE  Head(s).val = v
<1>. DEFINE t == Tail(s)
<1>1. /\ Len(s) \in Nat \ {0} /\ Len(t) = Len(s) - 1 /\ Head(s) = s[1]
      /\ \A i \in 1 .. Len(t) : t[i] = s[i + 1]
  BY HeadTailProperties, EmptySeq, LenProperties
<1>2. None(t, Events(m))
  OBVIOUS
<1>. HIDE DEF t
<1>3. NoneAfter(s, 1, Events(m))
  <2>. SUFFICES ASSUME NEW j \in 1 .. Len(s), j > 1
                PROVE  s[j] \notin Events(m)
    BY DEF NoneAfter
  <2>1. j - 1 \in 1 .. Len(t) /\ (j - 1) + 1 = j
    BY <1>1
  <2>2. t[j - 1] = s[j]
    BY <1>1, <2>1
  <2>. QED  BY <1>2, <2>1, <2>2 DEF None
<1>4. 1 \in 1 .. Len(s) /\ (A # {} \/ \E j \in 1 .. 1 : s[j] \in Activations(m))
  BY <1>1
<1>. QED  BY <1>1, <1>3, <1>4 DEF FreshIn

\* What a step of module n leaves alone; only a panic stops a module that runs.
LEMMA ModuleKeeps ==
    ASSUME TypeOK, NEW n \in Mods, ModuleNext(n)
    PROVE  /\ \A m \in Mods : m # n => cache'[m] = cache[m] /\ mstate'[m] = mstate[m]
           /\ mstate[n] = "running" => mstate'[n] = "running" \/ n \in Panicky
           /\ outbox' = outbox
<1>1. /\ cache \in [Mods -> Vals]
      /\ mstate \in [Mods -> {"starting", "running", "panicked", "waiting"}]
  BY DEF TypeOK, ModuleTypeOK
<1>2. cache' = cache \/ \E v : Cached(n, v)
  BY DEF ModuleNext, StartOk, StartFails, HandleRequest, HandleRead, HandleChange, HandleDo,
         HandleActivate, Poll, Panic, Drain, Wake, HardwareDrift
<1>3. \/ mstate' = mstate
      \/ mstate[n] # "running" /\ \E v : mstate' = [mstate EXCEPT ![n] = v]
      \/ n \in Panicky /\ \E v : mstate' = [mstate EXCEPT ![n] = v]
  BY DEF ModuleNext, StartOk, StartFails, HandleRequest, HandleRead, HandleChange, HandleDo,
         HandleActivate, TakeModRequest, Poll, Panic, Drain, Wake, HardwareDrift
<1>. QED  BY <1>1, <1>2, <1>3, NodeTyped, ModuleShape DEF Cached, Emits, AnswersFirst

LEMMA UpdateAtModule ==
    ASSUME TypeOK, NEW n \in Mods, ModuleStep(n), NEW m \in Mods, UpdateOf(m)
    PROVE  UpdateOf(m)'
<1>1. ModuleNext(n) /\ active' = active /\ discarded' = discarded
  BY DEF ModuleStep, dispVars
<1>2. /\ m # n => cache'[m] = cache[m] /\ mstate'[m] = mstate[m]
      /\ mstate[m] = "running" => mstate'[m] = "running" \/ m \in Panicky
      /\ outbox' = outbox
  BY <1>1, ModuleKeeps
<1>3. replies \in Seq(ModReply)
  BY QueueTypes
<1>4. Alone(m)' = Alone(m)
  BY <1>1, <1>2 DEF Alone, ActivatedAlone
<1>5. CASE mstate[m] # "running" /\ Untouched(m)
  <2>1. Alone(m) = {} /\ None(replies, Activations(m))
    BY <1>5 DEF Untouched
  <2>2. ASSUME NEW es \in Seq(Emissions(n))
        PROVE  es \in Seq(ModReply) /\ None(es, Activations(m))
    <3>1. Emissions(n) \cap Activations(m) = {}
      BY DEF Emissions, Activations
    <3>. QED  BY <3>1, EmissionsAreReplies, EveryIsNone
  <2>3. ASSUME Emits(n)
        PROVE  None(replies', Activations(m))
    <3>1. PICK es \in Seq(Emissions(n)) : replies' = replies \o es
      BY <2>3 DEF Emits
    <3>. QED  BY <1>3, <2>1, <2>2, <3>1, ConcatNone, ConcatProperties
  <2>4. ASSUME AnswersFirst(n)
        PROVE  None(replies', Activations(m))
    <3>1. PICK es \in Seq(Emissions(n)), e \in AnswersOf(n, Head(modq[n])) :
            replies' = replies \o (es \o <<e>>)
      BY <2>4 DEF AnswersFirst
    <3>2. m # n
      BY <1>5, <2>4 DEF AnswersFirst
    <3>. DEFINE t == <<e>>
    <3>3. t \in Seq(ModReply) /\ None(t, Activations(m))
      <4>1. e \in ModReply /\ e \notin Activations(m)
        BY <3>2 DEF AnswersOf, Activations
      <4>. QED  BY <4>1, NoneOfOne
    <3>4. replies' = replies \o (es \o t)
      BY <3>1
    <3>. HIDE DEF t
    <3>5. es \o t \in Seq(ModReply) /\ None(es \o t, Activations(m))
      BY <2>2, <3>3, ConcatNone, ConcatProperties
    <3>. QED  BY <1>3, <2>1, <3>4, <3>5, ConcatNone, ConcatProperties
  <2>5. Untouched(m)'
    BY <1>1, <1>4, <2>1, <2>3, <2>4, NodeTyped, ModuleShape DEF Untouched, Activations
  <2>6. replies' \in Seq(ModReply)
    BY <1>1, NodeTyped, ModuleType DEF ChannelsTypeOK
  <2>7. Fresh(m)'
    BY <2>5, <2>6, FreshOfNone DEF Untouched, Fresh, Activations
  <2>8. UpToDate(m)'
    BY <2>5 DEF Untouched, UpToDate
  <2>. QED  BY <2>5, <2>7, <2>8 DEF UpdateOf
<1>6. CASE mstate[m] = "running" \/ ~Untouched(m)
  <2>1. mstate'[m] # "running" => m \in Panicky
    BY <1>2, <1>6, ModuleKeeps DEF UpdateOf
  <2>. DEFINE w == cache'[m]
  <2>2. ASSUME mstate'[m] = "running", ~Unannounced(m, w)
        PROVE  Fresh(m)' /\ UpToDate(m)'
    <3>1. PICK es \in Seq(ModReply), v \in Vals :
            /\ replies' = replies \o es
            /\ Every(es, OfValue(n, v))
            /\ mstate'[n] = "running" =>
                 /\ v = cache'[n]
                 /\ v \in Representable => v = Before(n) \/ ~None(es, Events(n))
      BY <1>1, ModuleValues
    <3>2. Every(es, Valued(m, w))
      <4>1. OfValue(n, v) \subseteq Valued(m, w)
        BY <2>2, <3>1 DEF OfValue, Valued, Carriers, Unannounced
      <4>. QED  BY <3>1, <4>1, EveryOfMore
    <3>3. \/ ~None(es, Events(m))
          \/ cache[m] = w /\ Fresh(m) /\ UpToDate(m)
      <4>1. CASE m # n
        BY <1>2, <1>6, <2>2, <4>1 DEF UpdateOf, Unannounced
      <4>2. CASE m = n /\ mstate[m] = "running"
        BY <2>2, <3>1, <4>2 DEF UpdateOf, Unannounced, Before
      <4>3. CASE m = n /\ mstate[m] # "running"
        <5>1. m \in Panicky
          BY <1>6, <4>3 DEF UpdateOf
        <5>. QED  BY <2>2, <3>1, <4>3, <5>1 DEF Unannounced, Before
      <4>. QED  BY <4>1, <4>2, <4>3
    <3>4. FreshIn(replies, Alone(m), m, w) \/ ~None(es, Events(m))
      BY <3>3 DEF Fresh
    <3>5. FreshIn(replies \o es, Alone(m), m, w)
      BY <1>3, <3>2, <3>4, FreshConcat
    <3>6. Fresh(m)'
      BY <1>4, <3>1, <3>5 DEF Fresh, FreshIn, Carriers, Activations, Events
    <3>7. None(replies', Events(m)) => /\ None(replies, Events(m))
                                       /\ cache[m] = w /\ UpToDate(m)
      BY <1>3, <3>1, <3>3, NoneOfParts
    <3>8. None(replies', Events(m)) => \A h \in Alone(m) : Latest(outbox[h], m, w)
      BY <3>7 DEF UpToDate
    <3>9. UpToDate(m)'
      BY <1>2, <1>4, <3>8 DEF UpToDate, Latest, UpdatesOf, Events
    <3>. QED  BY <3>6, <3>9
  <2>. QED  BY <2>1, <2>2 DEF UpdateOf, Unannounced, SilentStart
<1>. QED  BY <1>5, <1>6

\* Steps that route no reply of m, and by which nobody becomes alone for m.
LEMMA UpdateKept ==
    ASSUME TypeOK, [Next]_vars, NEW m \in Mods, UpdateOf(m),
           mstate' = mstate, cache' = cache, Alone(m)' \subseteq Alone(m),
           \/ replies' = replies /\ ~RouteReply
           \/ replies # <<>> /\ replies' = Tail(replies) /\ Head(replies).from # m
    PROVE  UpdateOf(m)'
<1>1. replies \in Seq(ModReply) /\ outbox \in [Handlers -> Seq(Message)]
      /\ Alone(m) \subseteq Handlers
  BY QueueTypes DEF TypeOK, DispatcherTypeOK, Alone
<1>2. /\ None(replies, Activations(m)) => None(replies', Activations(m))
      /\ None(replies', Events(m)) => None(replies, Events(m))
  <2>1. CASE replies # <<>> /\ replies' = Tail(replies) /\ Head(replies).from # m
    <3>1. Head(replies) \notin Events(m)
      BY <2>1 DEF Events
    <3>. QED  BY <1>1, <2>1, <3>1, TailCount, HeadNone
  <2>. QED  BY <2>1
<1>3. mstate'[m] # "running" => m \in Panicky \/ Untouched(m)'
  BY <1>2 DEF UpdateOf, Untouched, Activations
<1>4. ASSUME Fresh(m)
      PROVE  Fresh(m)'
  <2>1. FreshIn(replies, Alone(m), m, cache[m])
    BY <1>4 DEF Fresh
  <2>2. CASE replies' = replies
    <3>1. FreshIn(replies, Alone(m)', m, cache[m])
      BY <2>1 DEF FreshIn
    <3>. QED  BY <2>2, <3>1 DEF Fresh, FreshIn, Carriers, Activations, Events
  <2>3. CASE replies # <<>> /\ replies' = Tail(replies)
    <3>1. FreshIn(Tail(replies), Alone(m)', m, cache[m])
      <4>1. Alone(m)' = {} \/ Alone(m) # {}
        OBVIOUS
      <4>. QED  BY <1>1, <2>1, <2>3, <4>1, FreshTail
    <3>. QED  BY <2>3, <3>1 DEF Fresh, FreshIn, Carriers, Activations, Events
  <2>. QED  BY <2>2, <2>3
<1>5. ASSUME UpToDate(m)
      PROVE  UpToDate(m)'
  <2>1. ASSUME NEW h \in Alone(m)', None(replies', Events(m))
        PROVE  Latest(outbox'[h], m, cache[m])
    <3>1. h \in Handlers /\ Latest(outbox[h], m, cache[m])
      BY <1>1, <1>2, <1>5, <2>1 DEF UpToDate
    <3>2. ~(DispatcherStep /\ RouteReply /\ Head(replies).from = m)
      OBVIOUS
    <3>3. PICK ms \in Seq(Message) : None(ms, UpdatesOf(m)) /\ outbox'[h] = outbox[h] \o ms
      BY <3>1, <3>2, OtherUpdates DEF NotSent
    <3>. QED  BY <1>1, <3>1, <3>3, LatestConcat
  <2>. QED  BY <2>1 DEF UpToDate, Latest, UpdatesOf, Events
<1>. QED  BY <1>3, <1>4, <1>5 DEF UpdateOf, Unannounced, SilentStart

\* A reply of m with a value tells it to whom it is sent.
LEMMA ToldLatest ==
    ASSUME NEW s \in Seq(Message), NEW e \in ModReply, e.from \in Mods, e.val # NoVal
    PROVE  /\ e.kind = "update" => Latest(s \o <<Relay(e)>>, e.from, e.val)
           /\ Latest(s \o InitialUpdates(e), e.from, e.val)
           /\ Latest(s \o Append(InitialUpdates(e), Answer(e, "active")), e.from, e.val)
<1>. DEFINE x == [kind |-> "update", mod |-> e.from, val |-> e.val, id |-> e.id]
            y == Answer(e, "active")
            m == e.from
            t == <<x>>
            u == <<y>>
<1>1. x \in Message /\ x \in UpdatesOf(m) /\ x.val = e.val
  BY DEF ModReply, Message, Names, UpdatesOf
<1>2. y \in Message /\ y \notin UpdatesOf(m)
  BY AnswerType DEF Answer, UpdatesOf
<1>3. InitialUpdates(e) = t /\ (e.kind = "update" => Relay(e) = x)
  BY DEF InitialUpdates, Relay
<1>4. t \in Seq(Message) /\ u \in Seq(Message) /\ Append(t, y) = t \o u
  BY <1>1, <1>2
<1>5. Latest(t, m, e.val) /\ None(u, UpdatesOf(m))
  BY <1>1, <1>2, LatestOfOne, NoneOfOne
<1>6. e.kind = "update" => <<Relay(e)>> = t
  BY <1>3
<1>. HIDE DEF x, y, t, u, m
<1>7. Latest(s \o t, m, e.val)
  BY <1>4, <1>5, LatestConcat
<1>8. Latest(t \o u, m, e.val) /\ t \o u \in Seq(Message)
  BY <1>4, <1>5, LatestConcat, ConcatProperties
<1>9. Latest(s \o (t \o u), m, e.val)
  BY <1>8, LatestConcat
<1>10. Append(InitialUpdates(e), Answer(e, "active")) = t \o u
  BY <1>3, <1>4 DEF y
<1>. QED  BY <1>3, <1>6, <1>7, <1>9, <1>10 DEF m

LEMMA UpdateAtReply ==
    ASSUME TypeOK, TypeOK', MatchInv, [Next]_vars, DispatcherStep, RouteReply,
           NEW m \in Mods, Head(replies).from = m, UpdateOf(m)
    PROVE  UpdateOf(m)'
<1>. DEFINE e == Head(replies)
<1>1. /\ replies # <<>> /\ replies' = Tail(replies)
      /\ e \in ModReply /\ e \in Outgoing /\ e.from = m
  BY NodeTyped, ReplyShape, QueueTypes, EveryTail DEF MatchInv
<1>2. /\ replies \in Seq(ModReply) /\ outbox \in [Handlers -> Seq(Message)]
      /\ active \in [Mods -> SUBSET Handlers] /\ cache[m] \in Vals
      /\ mstate' = mstate /\ cache' = cache
      /\ Alone(m)' \subseteq Handlers
  BY QueueTypes DEF TypeOK, DispatcherTypeOK, ModuleTypeOK, DispatcherStep, modVars, Alone
<1>3. RouteDescription \/ RouteEvent \/ RouteInitUpdates \/ RouteInitUpdatesAll \/ RouteAnswer
  BY DEF RouteReply
<1>4. RouteInitUpdates => e \in Activations(m) /\ e.to \in Handlers /\ e.mod = m
  <2>. SUFFICES ASSUME RouteInitUpdates
                PROVE  e \in Activations(m) /\ e.to \in Handlers /\ e.mod = m
    OBVIOUS
  <2>1. e.kind = "initupdates" /\ e.to \in Handlers /\ e.mod # All
    BY <1>1 DEF RouteInitUpdates, ModReply
  <2>2. e.mod = m
    BY <1>1, <2>1, OutgoingFacts DEF AnswersOf, Queued
  <2>. QED  BY <1>1, <2>1, <2>2 DEF Activations
<1>5. ~RouteInitUpdates => Alone(m)' \subseteq Alone(m)
  BY AloneShrinks
<1>6. ASSUME NEW h \in Alone(m)', RouteInitUpdates => h # e.to
      PROVE  h \in Alone(m)
  <2>1. CASE RouteInitUpdates
    <3>1. h \in Handlers /\ h \in active'[m] /\ h \notin discarded' /\ ActivatedAlone(h, m)'
      BY <1>2 DEF Alone
    <3>2. h \in active[m] /\ h \notin discarded /\ outbox'[h] = outbox[h]
      BY <1>2, <1>6, <2>1, <3>1 DEF RouteInitUpdates, SendBack
    <3>. QED  BY <3>1, <3>2 DEF Alone, ActivatedAlone
  <2>2. CASE ~RouteInitUpdates
    BY <1>5, <2>2
  <2>. QED  BY <2>1, <2>2
<1>7. None(replies', Events(m)) /\ e \notin Events(m) => None(replies, Events(m))
  BY <1>1, <1>2, HeadNone
<1>8. mstate'[m] # "running" => m \in Panicky \/ Untouched(m)'
  <2>. SUFFICES ASSUME mstate[m] # "running", m \notin Panicky
                PROVE  Alone(m)' = {} /\ None(replies', Activations(m))
    BY <1>2 DEF Untouched, Activations
  <2>1. Alone(m) = {} /\ None(replies, Activations(m))
    BY DEF UpdateOf, Untouched
  <2>2. e \notin Activations(m) /\ None(replies', Activations(m))
    BY <1>1, <1>2, <2>1, TailCount
  <2>. QED  BY <1>4, <1>5, <2>1, <2>2
<1>9. ASSUME Fresh(m)
      PROVE  Fresh(m)'
  <2>1. FreshIn(replies, Alone(m), m, cache[m])
    BY <1>9 DEF Fresh
  <2>2. Alone(m)' = {} \/ Alone(m) # {} \/ e \in Activations(m)
    BY <1>4, <1>5
  <2>3. FreshIn(replies', Alone(m)', m, cache[m])
    BY <1>1, <1>2, <2>1, <2>2, FreshTail
  <2>. QED  BY <1>2, <2>3 DEF Fresh, FreshIn, Carriers, Activations, Events
<1>10. ASSUME Fresh(m), UpToDate(m)
       PROVE  UpToDate(m)'
  <2>1. ASSUME None(replies', Events(m)), e \in Carriers(m),
               Alone(m) # {} \/ e \in Activations(m)
        PROVE  e.val = cache[m] /\ e.val # NoVal
    <3>1. e.val = cache[m]
      BY <1>1, <1>2, <1>10, <2>1, FreshHead DEF Fresh
    <3>. QED  BY <1>2, <3>1, ChannelsAssumption DEF ChannelsAssumption
  <2>. SUFFICES ASSUME NEW h \in Alone(m)', None(replies', Events(m))
                PROVE  Latest(outbox'[h], m, cache[m])
    BY <1>2 DEF UpToDate, Latest, UpdatesOf, Events
  <2>2. h \in Handlers /\ h \notin discarded' /\ outbox[h] \in Seq(Message)
    BY <1>2 DEF Alone
  <2>3. ASSUME h \in Alone(m), e \notin Events(m)
        PROVE  Latest(outbox[h], m, cache[m])
    BY <1>7, <1>10, <2>3 DEF UpToDate
  <2>4. CASE RouteDescription
    <3>1. outbox' = outbox /\ e \notin Events(m) /\ h \in Alone(m)
      BY <1>4, <1>6, <2>4 DEF RouteDescription, Events, RouteInitUpdates
    <3>. QED  BY <2>3, <3>1
  <2>5. CASE RouteEvent
    <3>1. h \in Alone(m) /\ e.kind = "update"
      BY <1>6, <2>5 DEF RouteEvent, RouteInitUpdates
    <3>2. h \in handlers
      BY <1>1, <2>2, <2>5, <3>1 DEF RouteEvent, Alone
    <3>3. outbox'[h] = Append(outbox[h], Relay(e))
      BY <1>1, <2>2, <2>5, <3>1, <3>2 DEF RouteEvent, Alone
    <3>4. e.val = cache[m] /\ e.val # NoVal
      BY <1>1, <2>1, <3>1 DEF Carriers
    <3>5. Relay(e) \in Message
      BY <1>1, <3>1, RelayType
    <3>6. Append(outbox[h], Relay(e)) = outbox[h] \o <<Relay(e)>>
      BY <2>2, <3>5, AppendIsConcat
    <3>7. Latest(outbox[h] \o <<Relay(e)>>, m, e.val)
      BY <1>1, <2>2, <3>1, <3>4, ToldLatest
    <3>. QED  BY <3>3, <3>4, <3>6, <3>7
  <2>6. CASE RouteAnswer
    <3>1. /\ e.to # Nobody /\ e.kind # "initupdates" /\ e \notin Events(m)
          /\ SendBack(e.to, <<Relay(e)>>)
      BY <2>6 DEF RouteAnswer, Events
    <3>2. h \in Alone(m)
      BY <1>6, <2>6 DEF RouteAnswer, RouteInitUpdates
    <3>3. CASE h # e.to
      <4>1. outbox'[h] = outbox[h]
        BY <1>2, <2>2, <3>1, <3>3 DEF SendBack
      <4>. QED  BY <2>3, <3>1, <3>2, <4>1
    <3>4. CASE h = e.to
      <4>1. outbox'[h] = outbox[h] \o <<Relay(e)>>
        BY <1>2, <2>2, <3>1, <3>4 DEF SendBack
      <4>2. CASE e.kind = "update"
        <5>1. e.val = cache[m] /\ e.val # NoVal
          BY <1>1, <2>1, <3>2, <4>2 DEF Carriers
        <5>2. Latest(outbox[h] \o <<Relay(e)>>, m, e.val)
          BY <1>1, <2>2, <4>2, <5>1, ToldLatest
        <5>. QED  BY <4>1, <5>1, <5>2
      <4>3. CASE e.kind # "update"
        <5>. DEFINE t == <<Relay(e)>>
        <5>1. Relay(e) \in Message /\ Relay(e) \notin UpdatesOf(m)
          BY <1>1, <3>1, <4>3, RelayType DEF Relay, UpdatesOf
        <5>2. t \in Seq(Message) /\ None(t, UpdatesOf(m)) /\ outbox'[h] = outbox[h] \o t
          BY <4>1, <5>1, NoneOfOne
        <5>. HIDE DEF t
        <5>3. Latest(outbox[h], m, cache[m])
          BY <2>3, <3>1, <3>2
        <5>. QED  BY <2>2, <5>2, <5>3, LatestConcat
      <4>. QED  BY <4>2, <4>3
    <3>. QED  BY <3>3, <3>4
  <2>7. CASE RouteInitUpdates \/ RouteInitUpdatesAll
    <3>. DEFINE one == InitialUpdates(e)
                ms == Append(InitialUpdates(e), Answer(e, "active"))
    <3>1. e \notin Events(m) /\ e \in Carriers(m)
      BY <1>1, <2>7 DEF RouteInitUpdates, RouteInitUpdatesAll, Events, Carriers
    <3>2. SendBack(e.to, ms) \/ SendBack(e.to, one) \/ (one = <<>> /\ outbox' = outbox)
      BY <2>7 DEF RouteInitUpdates, RouteInitUpdatesAll, SendNothing
    <3>3. CASE h # e.to
      <4>1. outbox'[h] = outbox[h]
        BY <1>2, <2>2, <3>2, <3>3 DEF SendBack
      <4>2. h \in Alone(m)
        BY <1>6, <3>3
      <4>. QED  BY <2>3, <3>1, <4>1, <4>2
    <3>4. CASE h = e.to
      <4>1. h \in Alone(m) \/ e \in Activations(m)
        BY <1>4, <1>5
      <4>2. e.val = cache[m] /\ e.val # NoVal
        BY <2>1, <3>1, <4>1
      <4>3. Latest(outbox[h] \o one, m, e.val) /\ Latest(outbox[h] \o ms, m, e.val)
        BY <1>1, <2>2, <4>2, ToldLatest
      <4>4. one # <<>>
        BY <4>2 DEF InitialUpdates
      <4>. HIDE DEF one, ms
      <4>5. outbox'[h] = outbox[h] \o one \/ outbox'[h] = outbox[h] \o ms
        BY <1>2, <2>2, <3>2, <3>4, <4>4 DEF SendBack
      <4>. QED  BY <4>2, <4>3, <4>5
    <3>. QED  BY <3>3, <3>4
  <2>. QED  BY <1>3, <2>4, <2>5, <2>6, <2>7
<1>. QED  BY <1>2, <1>8, <1>9, <1>10 DEF UpdateOf, Unannounced, SilentStart

LEMMA UpdateCorrect == Spec => []UpdateInv
<1>1. Init => UpdateInv
  <2>. SUFFICES ASSUME Init, NEW m \in Mods
                PROVE  UpdateOf(m)
    BY DEF UpdateInv
  <2>. DEFINE none == <<>>
  <2>1. replies = none /\ active[m] = {} /\ mstate[m] = "starting"
    BY DEF Init, ChannelsInit, DispatcherInit, ModuleInit
  <2>2. \A G : None(none, G)
    BY NoneOfEmpty
  <2>. HIDE DEF none
  <2>. QED  BY <2>1, <2>2 DEF UpdateOf, Untouched, Alone
<1>2. TypeOK /\ TypeOK' /\ MatchInv /\ UpdateInv /\ [Next]_vars => UpdateInv'
  <2>. SUFFICES ASSUME TypeOK, TypeOK', MatchInv, UpdateInv, [Next]_vars, NEW m \in Mods
                PROVE  UpdateOf(m)'
    BY DEF UpdateInv
  <2>1. UpdateOf(m)
    BY DEF UpdateInv
  <2>2. CASE DispatcherStep /\ RouteReply
    <3>1. Head(replies) \in ModReply /\ replies # <<>> /\ replies' = Tail(replies)
      BY <2>2, NodeTyped, ReplyShape
    <3>2. CASE Head(replies).from = m
      BY <2>1, <2>2, <3>2, UpdateAtReply
    <3>3. CASE Head(replies).from # m
      <4>1. mstate' = mstate /\ cache' = cache
        BY <2>2 DEF DispatcherStep, modVars
      <4>2. RouteInitUpdates => Head(replies).mod # m
        <5>. SUFFICES ASSUME RouteInitUpdates
                      PROVE  Head(replies).mod # m
          OBVIOUS
        <5>1. Head(replies) \in Outgoing
          BY <3>1, QueueTypes, EveryTail DEF MatchInv
        <5>2. Head(replies).to \in Handlers /\ Head(replies).mod # All
          BY <3>1 DEF RouteInitUpdates, ModReply
        <5>. QED  BY <3>1, <3>3, <5>1, <5>2, OutgoingFacts DEF AnswersOf, Queued
      <4>3. Alone(m)' \subseteq Alone(m)
        BY <4>2, AloneShrinks
      <4>. QED  BY <2>1, <3>1, <3>3, <4>1, <4>3, UpdateKept
    <3>. QED  BY <3>2, <3>3
  <2>3. CASE DispatcherStep /\ ~RouteReply
    <3>1. Register \/ DispatchRequest
      BY <2>3 DEF DispatcherStep, DispatcherNext
    <3>2. mstate' = mstate /\ cache' = cache /\ replies' = replies
      BY <2>3, <3>1, NodeTyped, RequestShape DEF DispatcherStep, modVars, Register
    <3>3. Alone(m)' \subseteq Alone(m)
      BY <2>3, AloneShrinks DEF RouteReply
    <3>. QED  BY <2>1, <2>3, <3>2, <3>3, UpdateKept
  <2>4. ASSUME NEW n \in Mods, ModuleStep(n)
        PROVE  UpdateOf(m)'
    BY <2>1, <2>4, UpdateAtModule
  <2>5. CASE (\E h \in Handlers : ConnectionStep(h)) \/ UNCHANGED vars
    <3>1. UNCHANGED <<dispVars, modVars, replies>>
      BY <2>5, ConnectionShape DEF ConnectionStep, vars, chanVars
    <3>2. ~RouteReply
      BY <3>1, NodeTyped, ReplyShape, QueueTypes, TailDiffers
    <3>3. Alone(m)' \subseteq Alone(m)
      BY <3>2, AloneShrinks DEF RouteReply
    <3>. QED  BY <2>1, <3>1, <3>2, <3>3, UpdateKept DEF modVars
  <2>. QED  BY <2>2, <2>3, <2>4, <2>5 DEF Next
<1>. QED  BY <1>1, <1>2, TypeCorrect, MatchCorrect, PTL DEF Spec

\* A client that activated a module by itself has been sent the value its cache
\* holds, or an event is on its way (module.rs:147-148, derive/src/module.rs:284-289),
\* whatever panics, starts again, fails, hangs up or is activated besides, unless that
\* value has no JSON form or is the one a restarted module takes without an event
\* (lib.rs:44-60).
THEOREM SubscribersFollow == Spec => []SubscriberFollows
<1>1. TypeOK /\ UpdateInv => SubscriberFollows
  <2>. SUFFICES ASSUME TypeOK, UpdateInv, NEW m \in Mods, NEW h \in active[m] \ discarded,
                       mstate[m] = "running", ~EventPending(m),
                       ActivatedAlone(h, m), ~Unannounced(m, cache[m])
                PROVE  LastUpdate(h, m) = cache[m]
    BY DEF SubscriberFollows
  <2>1. None(replies, Events(m))
    BY DEF EventPending, Events, None
  <2>2. h \in Handlers /\ Latest(outbox[h], m, cache[m])
    BY <2>1 DEF UpdateInv, UpdateOf, UpToDate, Alone, TypeOK, DispatcherTypeOK
  <2>. QED  BY <2>2, LatestIsLast
<1>. QED  BY <1>1, UpdateCorrect, TypeCorrect, PTL

-----------------------------------------------------------------------------
(* Where nobody activates all modules                                       *)

NoGlobal ==
    /\ None(requests, GlobalRequests)
    /\ \A m \in Mods : Quiet(m, GlobalRequests, GlobalAnswers(m))

\* Nobody has been told that all modules are active.
NoneActiveOfAll == \A h \in Handlers : None(outbox[h], ActiveOf(All))

\* Nobody activates all modules.
LEMMA NoGlobalKept ==
    ASSUME \A c \in Menu : ~(c.kind = "activate" /\ c.mod = All),
           TypeOK, NoGlobal, [Next]_vars
    PROVE  NoGlobal'
<1>1. requests \in Seq(Request)
  BY QueueTypes
<1>2. DispatchRequest /\ Begins => Head(requests) \notin GlobalRequests
  <2>. SUFFICES ASSUME DispatchRequest
                PROVE  Head(requests) \notin GlobalRequests
    OBVIOUS
  <2>1. requests # <<>>
    BY NodeTyped, RequestShape
  <2>. QED  BY <1>1, <2>1, TailCount DEF NoGlobal
<1>3. ASSUME NEW m \in Mods
      PROVE  Quiet(m, GlobalRequests, GlobalAnswers(m))'
  <2>. DEFINE P == GlobalRequests
              Q == GlobalAnswers(m)
  <2>1. /\ P' = P /\ Q' = Q /\ P \in SUBSET GlobalRequests /\ Q \in SUBSET GlobalAnswers(m)
        /\ Quiet(m, P, Q)
        /\ \A r \in Request : \A e \in AnswersOf(m, r) : e \in Q => r \in P
    BY DEF AnswersOf, GlobalAnswers, GlobalRequests, NoGlobal
  <2>2. DispatchRequest /\ Begins => Head(requests) \notin P
    BY <1>2
  <2>. HIDE DEF P, Q
  <2>3. Quiet(m, P, Q)'
    BY <2>1, <2>2, QuietKept
  <2>. QED  BY <2>1, <2>3 DEF P, Q
<1>4. None(requests', GlobalRequests)
  <2>0. None(requests, GlobalRequests)
    BY DEF NoGlobal
  <2>1. CASE DispatcherStep
    <3>1. requests' = requests \/ (requests # <<>> /\ requests' = Tail(requests))
      BY <2>1, NodeTyped, RequestShape, ReplyShape DEF DispatcherStep, DispatcherNext, Register
    <3>. QED  BY <1>1, <2>0, <3>1, TailCount
  <2>2. ASSUME NEW m \in Mods, ModuleStep(m)
        PROVE  None(requests', GlobalRequests)
    BY <2>0, <2>2, NodeTyped, ModuleShape DEF ModuleStep, Emits, AnswersFirst
  <2>3. ASSUME NEW h \in Handlers, ConnectionStep(h)
        PROVE  None(requests', GlobalRequests)
    <3>1. ASSUME NEW r \in Request, r.kind # "activate" \/ r.mod # All,
                 requests' = Append(requests, r)
          PROVE  None(requests', GlobalRequests)
      BY <1>1, <2>0, <3>1, AppendOther DEF GlobalRequests
    <3>2. CASE ForwardRequest(h)
      <4>1. PICK c \in Menu : requests' = Append(requests, RequestOf(h, c))
        BY <3>2 DEF ForwardRequest
      <4>2. /\ RequestOf(h, c) \in Request
            /\ RequestOf(h, c).kind = c.kind /\ RequestOf(h, c).mod = c.mod
        BY RequestOfType DEF RequestOf
      <4>. QED  BY <3>1, <4>1, <4>2
    <3>3. CASE HangUp(h)
      <4>1. PICK c \in Menu : /\ c.kind = "quit"
                              /\ requests' = Append(requests, [RequestOf(h, c) EXCEPT !.id = 0])
        BY <3>3 DEF HangUp
      <4>2. RequestOf(h, c) \in Request /\ RequestOf(h, c).kind = "quit"
        BY <4>1, RequestOfType DEF RequestOf
      <4>3. /\ [RequestOf(h, c) EXCEPT !.id = 0] \in Request
            /\ [RequestOf(h, c) EXCEPT !.id = 0].kind = "quit"
        BY <4>2 DEF Request
      <4>. QED  BY <3>1, <4>1, <4>3
    <3>4. CASE Accept(h) \/ AnswerLocally(h) \/ SenderFails(h)
      <4>1. requests' = requests
        BY <3>4 DEF Accept, AnswerLocally, SenderFails, chanVars
      <4>. QED  BY <2>0, <4>1
    <3>. QED  BY <2>3, <3>2, <3>3, <3>4 DEF ConnectionStep, ConnectionNext
  <2>4. CASE UNCHANGED vars
    BY <2>0, <2>4 DEF vars, chanVars
  <2>. QED  BY <2>1, <2>2, <2>3, <2>4 DEF Next
<1>5. GlobalRequests' = GlobalRequests
  BY DEF GlobalRequests
<1>. QED  BY <1>3, <1>4, <1>5 DEF NoGlobal

LEMMA NoneActiveOfAllKept ==
    ASSUME TypeOK, NoGlobal, NoneActiveOfAll, [Next]_vars
    PROVE  NoneActiveOfAll'
<1>. SUFFICES ASSUME NEW h \in Handlers
              PROVE  None(outbox'[h], ActiveOf(All))
  BY DEF NoneActiveOfAll, ActiveOf
<1>1. ~(/\ DispatcherStep /\ (RouteInitUpdates \/ RouteInitUpdatesAll)
        /\ Head(replies).mod = All)
  <2>. SUFFICES ASSUME RouteInitUpdatesAll
                PROVE  FALSE
    BY DEF RouteInitUpdates
  <2>. DEFINE e == Head(replies)
  <2>1. replies # <<>> /\ e \in ModReply /\ e.from \in Mods
    BY NodeTyped, ReplyShape DEF RouteReply, ModReply
  <2>2. e \in GlobalAnswers(e.from)
    BY <2>1 DEF RouteInitUpdatesAll, GlobalAnswers
  <2>3. None(replies, GlobalAnswers(e.from))
    BY <2>1 DEF NoGlobal, Quiet
  <2>. QED  BY <2>1, <2>2, <2>3, QueueTypes, TailCount
<1>2. PICK ms \in Seq(Message) : None(ms, ActiveOf(All)) /\ outbox'[h] = outbox[h] \o ms
  BY <1>1, OtherActives DEF NotSent
<1>3. outbox[h] \in Seq(Message) /\ None(outbox[h], ActiveOf(All))
  BY QueueTypes DEF NoneActiveOfAll
<1>. QED  BY <1>2, <1>3, ConcatNone

LEMMA NoGlobalCorrect ==
    ASSUME \A c \in Menu : ~(c.kind = "activate" /\ c.mod = All)
    PROVE  Spec => [](NoGlobal /\ NoneActiveOfAll)
<1>1. Init => NoGlobal /\ NoneActiveOfAll
  <2>. SUFFICES ASSUME Init
                PROVE  NoGlobal /\ NoneActiveOfAll
    OBVIOUS
  <2>. DEFINE none == <<>>
  <2>1. /\ replies = none /\ requests = none
        /\ \A m \in Mods : modq[m] = none
        /\ \A h \in Handlers : outbox[h] = none
    BY DEF Init, ChannelsInit
  <2>2. \A G : None(none, G)
    BY NoneOfEmpty
  <2>. HIDE DEF none
  <2>. QED  BY <2>1, <2>2 DEF NoGlobal, Quiet, NoneActiveOfAll
<1>2. TypeOK /\ NoGlobal /\ NoneActiveOfAll /\ [Next]_vars => (NoGlobal /\ NoneActiveOfAll)'
  BY NoGlobalKept, NoneActiveOfAllKept
<1>. QED  BY <1>1, <1>2, TypeCorrect, PTL DEF Spec

\* Every client that is active for a module is up to date, without exception
\* (module.rs:147-148), where modules do not panic, every value has a JSON form, and
\* nobody activates all modules: a module that starts again and the last answer to a
\* global activation are where the code does lose a change (lib.rs:44-60,
\* server.rs:292).
COROLLARY SubscribersUpToDate ==
    ASSUME Panicky = {}, Vals \subseteq Representable,
           \A c \in Menu : ~(c.kind = "activate" /\ c.mod = All)
    PROVE  Spec => []SubscriberUpToDate
<1>1. TypeOK /\ EventInv /\ NoneActiveOfAll /\ SubscriberFollows => SubscriberUpToDate
  <2>. SUFFICES ASSUME TypeOK, EventInv, NoneActiveOfAll, SubscriberFollows,
                       NEW m \in Mods, NEW h \in active[m] \ discarded,
                       mstate[m] = "running", ~EventPending(m)
                PROVE  LastUpdate(h, m) = cache[m]
    BY DEF SubscriberUpToDate
  <2>. DEFINE s == outbox[h]
  <2>1. h \in Handlers \ discarded /\ cache[m] \in Vals
    BY DEF TypeOK, DispatcherTypeOK, ModuleTypeOK
  <2>2. /\ s \in Seq(Message) /\ Len(s) \in Nat
        /\ \A i \in 1 .. Len(s) : s[i] \in Message
        /\ None(s, ActiveOf(All))
    BY <2>1, QueueTypes, LenProperties, ElementOfSeq DEF NoneActiveOfAll
  <2>3. Subscribed(s, m, Len(s))
    BY <2>1 DEF EventInv, EventsOf
  <2>. HIDE DEF s
  <2>4. PICK j \in 1 .. Len(s) : s[j].kind = "active" /\ s[j].mod \in {m, All}
    BY <2>3 DEF Subscribed, Activates, Covers
  <2>5. \A i \in 1 .. Len(s) : ~(s[i].kind = "active" /\ s[i].mod = All)
    BY <2>2 DEF None, ActiveOf
  <2>6. s[j].kind = "active" /\ s[j].mod = m
    BY <2>4, <2>5
  <2>7. \A i \in j + 1 .. Len(s) : i \in 1 .. Len(s)
    BY <2>2
  <2>8. ActivatedAlone(h, m)
    BY <2>5, <2>6, <2>7 DEF ActivatedAlone, s
  <2>9. ~Unannounced(m, cache[m])
    BY <2>1 DEF Unannounced
  <2>. QED  BY <2>8, <2>9 DEF SubscriberFollows
<1>. QED  BY <1>1, SubscribersFollow, EventCorrect, NoGlobalCorrect, TypeCorrect, PTL
==============================================================================
