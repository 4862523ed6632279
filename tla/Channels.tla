------------------------------ MODULE Channels ------------------------------
(***************************************************************************)
(* The messages of a SEC node and the channels its threads exchange them   *)
(* over (core/src/server.rs:58-72, core/src/proto.rs:53-98).               *)
(*                                                                         *)
(* Every channel is an unbounded crossbeam channel: reliable, first in     *)
(* first out.  A parameter's value is a member of Vals and every module    *)
(* has one parameter and one command.  A request carries `id`, its         *)
(* position among the requests of its handler: it stands for the original  *)
(* line that IncomingMsg.0 carries along, and lets a property tell which   *)
(* request a message answers.  Messages that answer nothing (events) have  *)
(* id 0.                                                                   *)
(***************************************************************************)
EXTENDS Integers, Sequences, FiniteSets

CONSTANTS
    Handlers,   \* handler ids: one per TCP connection or local client
    Mods,       \* names of the configured modules
    Vals,       \* values of a parameter
    Nobody,     \* the None of Option<HandlerId>: addressed to no handler
    NoVal       \* no value, or a value from_json refuses

All == ""                       \* the empty module name: all modules
NoSuchMod == "no such module"   \* a name that is not configured

ASSUME ChannelsAssumption ==
    /\ IsFiniteSet(Mods)
    /\ All \notin Mods /\ NoSuchMod \notin Mods
    /\ Nobody \notin Handlers \cup Mods
    /\ NoVal \notin Vals

VARIABLES
    connections,  \* CON_SENDER's channel: handlers the dispatcher has to learn of
    requests,     \* REQ_SENDER's channel: requests for the dispatcher
    modq,         \* modq[m]: the request channel of module m
    replies,      \* replies and events of all modules, for the dispatcher
    outbox        \* outbox[h]: everything ever put on h's reply channel; the
                  \* client has seen a prefix of it

chanVars == <<connections, requests, modq, replies, outbox>>

Names == Mods \cup {All, NoSuchMod}

ModuleRequests == {"read", "change", "do"}

RequestKinds ==
    ModuleRequests \cup {"activate", "deactivate", "describe", "quit", "ping"}

Request ==
    [hid : Handlers, id : Nat, kind : RequestKinds, mod : Names,
     val : Vals \cup {NoVal}]

\* What a module sends.  mod is the module named in the request: All in an
\* answer to a global activation.  An initupdates with NoVal has no updates.
ModReply ==
    [to : Handlers \cup {Nobody}, id : Nat, from : Mods, mod : Names,
     kind : {"update", "changed", "done", "error", "initupdates", "describing"},
     val : Vals \cup {NoVal}]

\* What a client is sent.
Message ==
    [kind : {"update", "changed", "done", "error", "describing", "active",
             "inactive", "pong"},
     mod : Names, val : Vals \cup {NoVal}, id : Nat]

\* The answer of the given kind to request or reply r, without a value.
Answer(r, kind) == [kind |-> kind, mod |-> r.mod, val |-> NoVal, id |-> r.id]

ChannelsInit ==
    /\ connections = <<>>
    /\ requests = <<>>
    /\ modq = [m \in Mods |-> <<>>]
    /\ replies = <<>>
    /\ outbox = [h \in Handlers |-> <<>>]

ChannelsTypeOK ==
    /\ connections \in Seq(Handlers)
    /\ requests \in Seq(Request)
    /\ modq \in [Mods -> Seq(Request)]
    /\ replies \in Seq(ModReply)
    /\ outbox \in [Handlers -> Seq(Message)]
=============================================================================
