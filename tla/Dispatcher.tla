----------------------------- MODULE Dispatcher -----------------------------
(***************************************************************************)
(* The dispatcher thread (core/src/server.rs:156-311): one loop around a   *)
(* select! over three channels.  A branch of the select! runs to its end   *)
(* before the next one, so every branch is one atomic action; which of the *)
(* ready channels is served next is not determined.                        *)
(***************************************************************************)
EXTENDS Channels

VARIABLES
    handlers,   \* handlers with a reply channel
    active,     \* active[m]: handlers that are sent the events of m
    remaining,  \* global_activate_remaining
    described,  \* modules with an entry in the descriptive data
    discarded   \* history: handlers for which send_back dropped a message

dispVars == <<handlers, active, remaining, described, discarded>>

\* Dispatcher::send_back, for the messages ms in order: a handler that is not
\* registered (not yet, or no more) gets nothing, and nobody is told.
SendBack(h, ms) ==
    \/ /\ h \in handlers
       /\ outbox' = [outbox EXCEPT ![h] = @ \o ms]
       /\ UNCHANGED discarded
    \/ /\ h \notin handlers
       /\ discarded' = discarded \cup {h}
       /\ UNCHANGED outbox

SendNothing == UNCHANGED <<outbox, discarded>>

Forward(S, r) ==
    modq' = [m \in Mods |-> IF m \in S THEN Append(modq[m], r) ELSE modq[m]]

\* The active sets when h is inactive for the module of that name, or for all.
WithoutAllOnly(name, h) ==  \* mutant: a single module is forgotten
    [m \in Mods |-> IF name = All THEN active[m] \ {h} ELSE active[m]]
Without(name, h) ==
    [m \in Mods |-> IF name \in {m, All} THEN active[m] \ {h} ELSE active[m]]

-----------------------------------------------------------------------------
(* recv(self.connections) *)

Register ==
    /\ connections # <<>>
    /\ handlers' = handlers \cup {Head(connections)}
    /\ connections' = Tail(connections)
    /\ UNCHANGED <<requests, modq, replies, outbox,
                   active, remaining, described, discarded>>

-----------------------------------------------------------------------------
(* recv(self.requests) *)

TakeRequest(kinds) ==
    /\ requests # <<>>
    /\ Head(requests).kind \in kinds
    /\ requests' = Tail(requests)
    /\ UNCHANGED <<connections, replies>>

DispatchCommandSilently ==  \* mutant: an unknown module is not reported
    /\ TakeRequest(ModuleRequests)
    /\ Forward({Head(requests).mod}, Head(requests))
    /\ SendNothing
    /\ UNCHANGED <<handlers, active, remaining, described>>

\* Do, Change and Read go to the module, if there is one of that name.
DispatchCommand ==
    /\ TakeRequest(ModuleRequests)
    /\ LET r == Head(requests) IN
         \/ r.mod \in Mods /\ Forward({r.mod}, r) /\ SendNothing
         \/ r.mod \notin Mods /\ SendBack(r.hid, <<Answer(r, "error")>>)
                              /\ UNCHANGED modq
    /\ UNCHANGED <<handlers, active, remaining, described>>

DispatchActivateModule ==
    /\ TakeRequest({"activate"})
    /\ LET r == Head(requests) IN
         /\ r.mod # All
         /\ \/ r.mod \in Mods /\ Forward({r.mod}, r) /\ SendNothing
            \/ r.mod \notin Mods /\ SendBack(r.hid, <<Answer(r, "error")>>)
                                 /\ UNCHANGED modq
    /\ UNCHANGED <<handlers, active, remaining, described>>

BusyUntilLast == remaining > 1  \* mutant: off by one
Busy == remaining > 0

AwaitedButOne == Cardinality(Mods) - 1  \* mutant: off by one
Awaited == Cardinality(Mods)

\* Only one global activation can be in flight: a second one is refused.
DispatchActivateAll ==
    /\ TakeRequest({"activate"})
    /\ LET r == Head(requests) IN
         /\ r.mod = All
         /\ \/ /\ Busy
               /\ SendBack(r.hid, <<Answer(r, "error")>>)
               /\ UNCHANGED <<modq, remaining>>
            \/ /\ ~Busy
               /\ Forward(Mods, r)
               /\ remaining' = Awaited
               /\ SendNothing
    /\ UNCHANGED <<handlers, active, described>>

DispatchDeactivate ==
    /\ TakeRequest({"deactivate"})
    /\ LET r == Head(requests) IN
         \/ /\ r.mod \in Mods \cup {All}
            /\ active' = Without(r.mod, r.hid)
            /\ SendBack(r.hid, <<Answer(r, "inactive")>>)
         \/ /\ r.mod \notin Mods \cup {All}
            /\ SendBack(r.hid, <<Answer(r, "error")>>)
            /\ UNCHANGED active
    /\ UNCHANGED <<modq, handlers, remaining, described>>

DispatchDescribe ==
    /\ TakeRequest({"describe"})
    /\ LET r == Head(requests) IN SendBack(r.hid, <<Answer(r, "describing")>>)
    /\ UNCHANGED <<modq, handlers, active, remaining, described>>

\* The handler has quit: it is removed from all active lists too.
DispatchQuit ==
    /\ TakeRequest({"quit"})
    /\ LET h == Head(requests).hid IN
         /\ handlers' = handlers \ {h}
         /\ active' = Without(All, h)
    /\ UNCHANGED <<modq, outbox, remaining, described, discarded>>

\* Anything else is logged and dropped; of our requests, Ping.
DispatchUnexpected ==
    /\ TakeRequest({"ping"})
    /\ UNCHANGED <<modq, outbox, dispVars>>

DispatchRequest ==
    \/ DispatchCommand
    \/ DispatchActivateModule
    \/ DispatchActivateAll
    \/ DispatchDeactivate
    \/ DispatchDescribe
    \/ DispatchQuit
    \/ DispatchUnexpected

-----------------------------------------------------------------------------
(* recv(self.replies) *)

TakeReply ==
    /\ replies # <<>>
    /\ replies' = Tail(replies)
    /\ UNCHANGED <<connections, requests, modq>>

\* The message a client is given for module reply e.
Relay(e) == [kind |-> e.kind, mod |-> e.from, val |-> e.val, id |-> e.id]

RouteDescriptionAlone ==  \* mutant: the descriptive data is replaced
    /\ TakeReply
    /\ Head(replies).to = Nobody
    /\ Head(replies).kind = "describing"
    /\ described' = {Head(replies).from}
    /\ UNCHANGED <<outbox, handlers, active, remaining, discarded>>

\* Descriptive data is not sent on, but kept.
RouteDescription ==
    /\ TakeReply
    /\ Head(replies).to = Nobody
    /\ Head(replies).kind = "describing"
    /\ described' = described \cup {Head(replies).from}
    /\ UNCHANGED <<outbox, handlers, active, remaining, discarded>>

\* An event goes to every handler that is active for its module.
RouteEvent ==
    /\ TakeReply
    /\ LET e == Head(replies) IN
         /\ e.to = Nobody
         /\ e.kind = "update"
         /\ outbox' = [h \in Handlers |-> IF h \in active[e.from] \cap handlers
                                            THEN Append(outbox[h], Relay(e))
                                            ELSE outbox[h]]
         /\ discarded' = discarded \cup (active[e.from] \ handlers)
    /\ UNCHANGED <<handlers, active, remaining, described>>

InitialUpdates(e) ==
    IF e.val = NoVal
      THEN <<>>
      ELSE <<[kind |-> "update", mod |-> e.from, val |-> e.val, id |-> e.id]>>

\* The initial updates of one activated module, then Active.
RouteInitUpdates ==
    /\ TakeReply
    /\ LET e == Head(replies) IN
         /\ e.to # Nobody
         /\ e.kind = "initupdates"
         /\ e.mod # All
         /\ SendBack(e.to, Append(InitialUpdates(e), Answer(e, "active")))
         /\ active' = [active EXCEPT ![e.mod] = @ \cup {e.to}]
    /\ UNCHANGED <<handlers, remaining, described>>

CountdownUnlessGone(e) ==  \* mutant: an answer to a handler that quit is skipped
    remaining' = IF e.to \in handlers THEN remaining - 1 ELSE remaining
Countdown(e) == remaining' = remaining - 1

\* The initial updates of one module of a global activation.  Those of the
\* last module are followed by Active, and only then do all events flow.
RouteInitUpdatesAll ==
    /\ TakeReply
    /\ LET e == Head(replies) IN
         /\ e.to # Nobody
         /\ e.kind = "initupdates"
         /\ e.mod = All
         /\ Countdown(e)
         /\ \/ /\ remaining' = 0
               /\ SendBack(e.to, Append(InitialUpdates(e), Answer(e, "active")))
               /\ active' = [m \in Mods |-> active[m] \cup {e.to}]
            \/ /\ remaining' # 0
               /\ IF InitialUpdates(e) = <<>> THEN SendNothing
                                              ELSE SendBack(e.to, InitialUpdates(e))
               /\ UNCHANGED active
    /\ UNCHANGED <<handlers, described>>

RouteAnything ==  \* mutant: no case for InitUpdates
    /\ TakeReply
    /\ LET e == Head(replies) IN
         /\ e.to # Nobody
         /\ SendBack(e.to, <<Relay(e)>>)
    /\ UNCHANGED <<handlers, active, remaining, described>>

RouteAnswer ==
    /\ TakeReply
    /\ LET e == Head(replies) IN
         /\ e.to # Nobody
         /\ e.kind # "initupdates"
         /\ SendBack(e.to, <<Relay(e)>>)
    /\ UNCHANGED <<handlers, active, remaining, described>>

RouteReply ==
    \/ RouteDescription
    \/ RouteEvent
    \/ RouteInitUpdates
    \/ RouteInitUpdatesAll
    \/ RouteAnswer

-----------------------------------------------------------------------------
DispatcherInit ==
    /\ handlers = {}
    /\ active = [m \in Mods |-> {}]
    /\ remaining = 0
    /\ described = {}
    /\ discarded = {}

DispatcherNext == Register \/ DispatchRequest \/ RouteReply

DispatcherTypeOK ==
    /\ handlers \in SUBSET Handlers
    /\ active \in [Mods -> SUBSET Handlers]
    /\ remaining \in Int
    /\ described \in SUBSET Mods
    /\ discarded \in SUBSET Handlers
=============================================================================
