------------------------------ MODULE Toellner ------------------------------
(***************************************************************************)
(* The thread of a module that reads its value through another module, as  *)
(* the Toellner power supply does (modules/src/toellner.rs): a readonly    *)
(* parameter whose every read is a call of the communicate command of      *)
(* module iomod, made through a LocalClient.  While the call lasts the     *)
(* thread does nothing else.  Each start of the module has a new client.   *)
(***************************************************************************)
EXTENDS LocalClient, ModuleThread

CONSTANTS
    Wirings,  \* possible configurations: the modules of this class, each with
              \* the name of the module it calls
    Pool,     \* the handler ids (numbers) that their clients get
    MaxPolls  \* bound: polls of all callers

ASSUME ToellnerAssumption ==
    /\ Wirings \subseteq UNION {[S -> Names] : S \in SUBSET Mods}
    /\ Pool \subseteq Handlers \cap Nat
    /\ MaxPolls \in Nat

VARIABLES
    iomod,    \* iomod[m]: the configured name of the module m calls, for every m
              \* of this class
    client,   \* client[m]: m's client, or Nobody
    serving,  \* serving[m]: the read request being served: one or none
    polls     \* number of polls so far

callerVars == <<iomod, client, serving, polls>>

Callers == DOMAIN iomod

Blocked(m) == client[m] # Nobody /\ Calling(client[m])

Ready(m) == mstate[m] = "running" /\ ~Blocked(m)

\* self.io.command("communicate", ...): an argument that from_json accepts.
CallPeer(m, h) == Transact(h, "do", iomod[m], DefaultVal)

\* next_handler_id
IsFresh(h) == h \in Pool /\ lstate[h] = "none" /\ \A k \in Pool : k < h => lstate[k] # "none"

\* create makes the client, init_params reads the value.  Without a module name
\* the module cannot be created.
Create(m) ==
    /\ mstate[m] = "starting" /\ client[m] = Nobody
    /\ \/ /\ iomod[m] = All
          /\ mstate' = [mstate EXCEPT ![m] = "panicked"]
          /\ UNCHANGED <<client, lstate, calls, connections, requests>>
       \/ /\ iomod[m] # All
          /\ \E h \in Pool : /\ IsFresh(h)
                             /\ NewClient(h)
                             /\ CallPeer(m, h)
                             /\ client' = [client EXCEPT ![m] = h]
          /\ UNCHANGED mstate
    /\ UNCHANGED <<modq, replies, outbox, taken, results, cache, hw, drift,
                   iomod, serving, polls>>

\* A read request is taken, and waits for the peer.
ServeRead(m) ==
    /\ Ready(m)
    /\ modq[m] # <<>> /\ Head(modq[m]).kind = "read"
    /\ modq' = [modq EXCEPT ![m] = Tail(@)]
    /\ serving' = [serving EXCEPT ![m] = <<Head(modq[m])>>]
    /\ CallPeer(m, client[m])
    /\ UNCHANGED <<connections, replies, outbox, lstate, taken, results, modVars,
                   iomod, client, polls>>

\* Other requests are answered at once: the target cannot be written, and there
\* are no commands.
ServeOther(m) ==
    /\ Ready(m)
    /\ \/ HandleActivate(m)
       \/ /\ \E kind \in {"change", "do"} : TakeModRequest(m, kind)
          /\ Send(<<Refusal(m, Head(modq[m]))>>)
          /\ UNCHANGED <<cache, hw>>
    /\ UNCHANGED <<localVars, callerVars>>

PollPeer(m) ==
    /\ Ready(m) /\ polls < MaxPolls
    /\ polls' = polls + 1
    /\ CallPeer(m, client[m])
    /\ UNCHANGED <<connections, modq, replies, outbox, lstate, taken, results,
                   modVars, iomod, client, serving>>

\* What becomes of a read that gives v: for a request, for a poll, or for the
\* initialisation, which ends with the description.
ValueRead(m, v) ==
    /\ Cached(m, v)
    /\ \/ /\ mstate[m] = "starting"
          /\ Send(Announce(m, DefaultVal, v) \o Description(m))
          /\ mstate' = [mstate EXCEPT ![m] = "running"]
       \/ /\ mstate[m] = "running"
          /\ Send(Announce(m, cache[m], v)
                  \o [k \in DOMAIN serving[m] |-> Report(m, serving[m][k], "update", v)])
          /\ UNCHANGED mstate
    /\ serving' = [serving EXCEPT ![m] = <<>>]
    /\ UNCHANGED <<connections, requests, client>>

\* A read that fails.  In the initialisation the module panics, and its client
\* is dropped with it.
ValueFails(m) ==
    /\ \/ /\ mstate[m] = "starting"
          /\ mstate' = [mstate EXCEPT ![m] = "panicked"]
          /\ requests' = Append(requests, QuitOf(client[m]))
          /\ client' = [client EXCEPT ![m] = Nobody]
          /\ UNCHANGED replies
       \/ /\ mstate[m] = "running"
          /\ Send([k \in DOMAIN serving[m] |-> Refusal(m, serving[m][k])])
          /\ UNCHANGED <<mstate, requests, client>>
    /\ serving' = [serving EXCEPT ![m] = <<>>]
    /\ UNCHANGED <<connections, cache>>

\* The call returns, and with it the read.  A reply need not be a number.
CallReturns(m) ==
    /\ Blocked(m)
    /\ \/ /\ Receive(client[m])
          /\ \/ Succeeded(client[m]) /\ \E v \in Representable : ValueRead(m, v)
             \/ ValueFails(m)
       \/ TimeOut(client[m]) /\ ValueFails(m)
    /\ UNCHANGED <<modq, outbox, hw, drift, iomod, polls>>

CallerInit ==
    /\ iomod \in Wirings
    /\ client = [m \in Mods |-> Nobody]
    /\ serving = [m \in Mods |-> <<>>]
    /\ polls = 0

\* inner_run does the same for every class of modules.
Restart(m) == (Drain(m) \/ Wake(m)) /\ UNCHANGED <<localVars, callerVars>>

CallerTypeOK ==
    /\ iomod \in Wirings
    /\ client \in [Mods -> Pool \cup {Nobody}]
    /\ serving \in [Mods -> Seq(Request)]
    /\ \A m \in Mods : Len(serving[m]) <= 1
    /\ polls \in Nat

CallerNext(m) ==
    Create(m) \/ ServeRead(m) \/ ServeOther(m) \/ PollPeer(m) \/ CallReturns(m) \/ Restart(m)
=============================================================================
