------------------------------- MODULE SecNode -------------------------------
(***************************************************************************)
(* A SEC node: the dispatcher, the threads of its modules and the          *)
(* connections of its clients (Server::start, core/src/server.rs:101-153), *)
(* and what they owe each other.                                           *)
(***************************************************************************)
EXTENDS Dispatcher, ModuleThread, Connection

vars == <<chanVars, dispVars, modVars, connVars>>

Init ==
    /\ ChannelsInit
    /\ DispatcherInit
    /\ ModuleInit
    /\ ConnectionInit

DispatcherStep == DispatcherNext /\ UNCHANGED <<modVars, connVars>>

ModuleStep(m) == ModuleNext(m) /\ UNCHANGED <<dispVars, connVars>>

ConnectionStep(h) == ConnectionNext(h) /\ UNCHANGED <<dispVars, modVars>>

Next ==
    \/ DispatcherStep
    \/ \E m \in Mods : ModuleStep(m)
    \/ \E h \in Handlers : ConnectionStep(h)

Spec == Init /\ [][Next]_vars

\* select! picks one of the ready channels at random, so a channel that stays
\* ready is served in the end; module threads go on running.  Clients owe
\* nothing.
Fairness ==
    /\ WF_vars(Register /\ UNCHANGED <<modVars, connVars>>)
    /\ WF_vars(DispatchRequest /\ UNCHANGED <<modVars, connVars>>)
    /\ WF_vars(RouteReply /\ UNCHANGED <<modVars, connVars>>)
    /\ \A m \in Mods :
         /\ WF_vars((StartOk(m) \/ StartFails(m)) /\ UNCHANGED <<dispVars, connVars>>)
         /\ WF_vars(HandleRequest(m) /\ UNCHANGED <<dispVars, connVars>>)
         /\ WF_vars(Poll(m) /\ UNCHANGED <<dispVars, connVars>>)
         /\ WF_vars(Drain(m) /\ UNCHANGED <<dispVars, connVars>>)
         /\ WF_vars(Wake(m) /\ UNCHANGED <<dispVars, connVars>>)

FairSpec == Spec /\ Fairness

\* Every variable holds a value of its type (core/src/server.rs:59-66 and
\* 158-166, 179): the channels carry only messages their readers expect.
TypeOK == ChannelsTypeOK /\ DispatcherTypeOK /\ ModuleTypeOK /\ ConnectionTypeOK

-----------------------------------------------------------------------------
(* Global activation: the count of the modules that have not answered yet.  *)

QueuedGlobal(m) ==
    {i \in 1 .. Len(modq[m]) : modq[m][i].kind = "activate" /\ modq[m][i].mod = All}

AnsweredGlobal(m) ==
    {i \in 1 .. Len(replies) : /\ replies[i].kind = "initupdates"
                               /\ replies[i].mod = All
                               /\ replies[i].from = m}

Owing == {m \in Mods : QueuedGlobal(m) # {} \/ AnsweredGlobal(m) # {}}

\* global_activate_remaining (server.rs:179, 228, 292) never runs below the
\* number of modules that have still to answer, and none of them has to answer
\* twice: the decrement cannot underflow, however requests, panics and
\* hang-ups interleave.
GlobalCount ==
    /\ Cardinality(Owing) <= remaining
    /\ \A m \in Mods :
         /\ \A i, j \in QueuedGlobal(m) : i = j
         /\ \A i, j \in AnsweredGlobal(m) : i = j
         /\ QueuedGlobal(m) = {} \/ AnsweredGlobal(m) = {}

\* All that is in flight of a global activation belongs to one request, so the
\* handler that is made active is the one that got the updates
\* (server.rs:216-221: "only one can be inflight").
OneGlobalActivation ==
    \A m, n \in Mods :
      /\ \A i \in QueuedGlobal(m), j \in QueuedGlobal(n) :
           modq[m][i].hid = modq[n][j].hid /\ modq[m][i].id = modq[n][j].id
      /\ \A i \in QueuedGlobal(m), j \in AnsweredGlobal(n) :
           modq[m][i].hid = replies[j].to /\ modq[m][i].id = replies[j].id
      /\ \A i \in AnsweredGlobal(m), j \in AnsweredGlobal(n) :
           replies[i].to = replies[j].to /\ replies[i].id = replies[j].id

\* A global activation is refused with "already activating" (server.rs:216-219)
\* only while one is being processed.
RefusedOnlyWhenBusy == remaining > 0 => Owing # {}

\* A global activation that was begun comes to its end (server.rs:205), also
\* when its client hangs up, unless a module panics (lib.rs:51-52 drops its share).
GlobalActivationEnds ==
    [](\A m \in Mods : mstate[m] # "panicked") => (remaining > 0 ~> remaining = 0)

-----------------------------------------------------------------------------
(* What a client is told: properties of outbox[h], in the order of sending. *)

Covers(msg, m) == msg.mod \in {m, All}

\* Before a handler is told that its activation is done, it has been sent an
\* update for that request from every module it activated (server.rs:201-205,
\* module.rs:147-149), unless messages to it were dropped.
ActivationComplete ==
    \A h \in Handlers \ discarded : \A i \in 1 .. Len(outbox[h]) :
      outbox[h][i].kind = "active" =>
        \A m \in Mods : Covers(outbox[h][i], m) =>
          \E j \in 1 .. i - 1 : /\ outbox[h][j].kind = "update"
                                /\ outbox[h][j].mod = m
                                /\ outbox[h][j].id = outbox[h][i].id

\* An event of a module is sent only to a client whose last word on that
\* module was Active (server.rs:201-202: "Other events should not be sent";
\* 274-279): never before Active, never after Inactive.
EventsOnlyWhenActive ==
    \A h \in Handlers \ discarded : \A i \in 1 .. Len(outbox[h]) :
      (outbox[h][i].kind = "update" /\ outbox[h][i].id = 0) =>
        \E j \in 1 .. i - 1 :
          /\ outbox[h][j].kind = "active" /\ Covers(outbox[h][j], outbox[h][i].mod)
          /\ \A k \in j .. i - 1 :
               ~(outbox[h][k].kind = "inactive" /\ Covers(outbox[h][k], outbox[h][i].mod))

\* The last value of m that h was sent: an event, a reply or an initial update.
LastUpdate(h, m) ==
    LET U == {i \in 1 .. Len(outbox[h]) : outbox[h][i].kind = "update"
                                          /\ outbox[h][i].mod = m}
    IN  IF U = {} THEN NoVal
        ELSE outbox[h][CHOOSE i \in U : \A j \in U : j <= i].val

EventPending(m) ==
    \E i \in 1 .. Len(replies) : /\ replies[i].to = Nobody
                                 /\ replies[i].kind = "update"
                                 /\ replies[i].from = m

\* A client that is active for a module has been sent the value its cache
\* holds, or an event that says so is on its way (module.rs:147-148,
\* derive/src/module.rs:284-289): no change is lost between the initial
\* updates and the first event. Where modules start again the code does not keep
\* it; SubscriberFollows below is what is left then.
SubscriberUpToDate ==
    \A m \in Mods : \A h \in active[m] \ discarded :
      (mstate[m] = "running" /\ ~EventPending(m)) => LastUpdate(h, m) = cache[m]

\* The last Active of h that covers m is of m alone.
ActivatedAlone(h, m) ==
    \E i \in 1 .. Len(outbox[h]) :
      /\ outbox[h][i].kind = "active" /\ outbox[h][i].mod = m
      /\ \A j \in i + 1 .. Len(outbox[h]) :
           ~(outbox[h][j].kind = "active" /\ outbox[h][j].mod = All)

\* The value a module starts from without an event: one that is set in software
\* only, or that the cache of a new module holds anyway.
SilentStart(m) == IF Class[m] = "sw" THEN InitVal[m] ELSE DefaultVal

\* A value of m that a client may miss: it has no JSON form, or m may have been
\* started again with it (lib.rs:44-60, derive/src/module.rs:284-289).
Unannounced(m, v) == v \notin Representable \/ (m \in Panicky /\ v = SilentStart(m))

\* Nothing but such a value keeps a client that activated a module by itself from
\* being up to date, whatever panics, restarts, fails or is activated besides: as
\* soon as the module holds another value the client has it, or an event is on its
\* way (derive/src/module.rs:284-289, server.rs:274-279).
SubscriberFollows ==
    \A m \in Mods : \A h \in active[m] \ discarded :
      (/\ mstate[m] = "running" /\ ~EventPending(m)
       /\ ActivatedAlone(h, m) /\ ~Unannounced(m, cache[m]))
      => LastUpdate(h, m) = cache[m]

\* A module answers a client's requests in the order they were made, and none
\* twice (module.rs:282-307); only an activation has updates before its Active.
RepliesInOrder ==
    \A h \in Handlers : \A j \in 1 .. Len(outbox[h]) : \A i \in 1 .. j - 1 :
      LET a == outbox[h][i]
          b == outbox[h][j]
          ofModule(x) == x.id # 0 /\ x.kind \notin {"inactive", "pong"}
      IN  (ofModule(a) /\ ofModule(b) /\ a.mod = b.mod /\ a.mod \in Mods) =>
            \/ a.id < b.id
            \/ a.id = b.id /\ a.kind = "update" /\ b.kind = "active"

\* A client that got an answer from a visible module finds it in the
\* descriptive data from then on: the module describes itself before it serves
\* (module.rs:269-275), and restarts do not withdraw the description.
AnsweredIsDescribed ==
    \A h \in Handlers : \A i \in 1 .. Len(outbox[h]) :
      LET a == outbox[h][i]
      IN  (a.mod \in Visible /\ a.id # 0 /\ a.kind \in {"update", "changed", "done"})
            => a.mod \in described

-----------------------------------------------------------------------------
(* The node as a service.                                                    *)

\* The module that answers a request, or Nobody: the node itself answers it,
\* or all modules do.
Destination(r) ==
    IF r.kind \in ModuleRequests \cup {"activate"} /\ r.mod \in Mods THEN r.mod ELSE Nobody

InChannel(ch, h, i) == \E k \in DOMAIN ch : ch[k].hid = h /\ ch[k].id = i

\* The requests of h that are on their way, or whose answer is.
InFlight(h) ==
    {i \in DOMAIN asked[h] :
       \/ InChannel(requests, h, i)
       \/ \E m \in Mods : InChannel(modq[m], h, i)
       \/ \E k \in DOMAIN replies : replies[k].to = h /\ replies[k].id = i}

Answered(h, i) ==
    \E k \in DOMAIN outbox[h] :
      /\ outbox[h][k].id = i
      /\ asked[h][i].kind = "activate" => outbox[h][k].kind \in {"active", "error"}

\* The module of the request panics, or a share of a global activation is lost.
LostInPanic(h, i) ==
    LET r == asked[h][i]
    IN  /\ r.kind \in ModuleRequests \cup {"activate"}
        /\ IF r.mod = All THEN Cardinality(Owing) < remaining
           ELSE r.mod \in Mods /\ mstate[r.mod] = "panicked"

\* Every request of a client that stays is answered (the arms of
\* server.rs:189-253 and 302-304, module.rs:280-308), the one that wakes a panicked
\* module included (lib.rs:54-57).  Only what a panic or send_back has dropped is not.
EveryRequestAnswered ==
    \A h \in Handlers : \A i \in 1 .. MaxRequests[h] :
      (conn[h] = "open" /\ i \in InFlight(h))
        ~> \/ conn[h] # "open" \/ h \in discarded
           \/ i \in DOMAIN asked[h] /\ (Answered(h, i) \/ LostInPanic(h, i))

\* An update that answers no read is an event, or is followed by Active.
IsLast(h, msg) ==
    msg.kind = "update" => msg.id # 0 /\ asked[h][msg.id].kind = "read"

ToldTo(h) ==
    [k \in DOMAIN outbox[h] |->
       [id |-> outbox[h][k].id, last |-> IsLast(h, outbox[h][k])]]

AsService == INSTANCE Service WITH
    Clients <- Handlers,
    Ordered <- Mods,
    Node <- Nobody,
    made <- [h \in Handlers |-> [i \in DOMAIN asked[h] |-> Destination(asked[h][i])]],
    open <- [h \in Handlers |-> InFlight(h)],
    told <- [h \in Handlers |-> ToldTo(h)]

\* Requests, answers and events through all threads and channels are a service
\* (server.rs:156-311, module.rs:280-308, lib.rs:47-57): through panics, drained
\* queues, restarts and refusals no request is answered after its last answer,
\* twice, or before an earlier one to the same module that is not lost.
ImplementsService == AsService!Spec

-----------------------------------------------------------------------------
(* What a test says, and the code does not keep.                            *)

\* Every request of an open connection is answered in full: bench.py:47-51
\* expects a reply to each of the reads it sends as soon as it is connected.
NoReplyDropped == \A h \in discarded : conn[h] # "open"
=============================================================================
