---------------------------- MODULE ModuleThread ----------------------------
(***************************************************************************)
(* The thread of a module: the loop of Module::run                         *)
(* (core/src/module.rs:257-321), the methods the derive macro generates    *)
(* for it (derive/src/module.rs:275-346, 479-546) and the loop around it   *)
(* that restarts a module after a panic (modules/src/lib.rs:44-60).        *)
(*                                                                         *)
(* The handling of one request or of one poll tick is one atomic action:   *)
(* the events it emits and its answer reach the dispatcher's channel next  *)
(* to each other.                                                          *)
(***************************************************************************)
EXTENDS Channels

CONSTANTS
    Class,          \* Class[m]: "rw" / "ro": a writable / readonly parameter of
                    \* the hardware; "sw": a software-only one
    Visible,        \* modules whose visibility is not none
    Faulty,         \* modules whose hardware access may return an error
    Panicky,        \* modules whose code may panic
    Representable,  \* the values to_json and from_json accept
    DefaultVal,     \* Repr::default(): what the cache of a new module holds
    InitVal,        \* InitVal[m]: the configured or default initial value
    PowerOn,        \* what the hardware may hold at the start
    MaxDrift        \* bound: how often the hardware changes by itself

ASSUME ModuleAssumption ==
    /\ Class \in [Mods -> {"rw", "ro", "sw"}]
    /\ Visible \subseteq Mods
    /\ Representable \subseteq Vals
    /\ DefaultVal \in Vals
    /\ InitVal \in [Mods -> Vals]
    /\ PowerOn \subseteq Vals
    /\ MaxDrift \in Nat

VARIABLES
    mstate,  \* mstate[m]: where m's thread is
    cache,   \* cache[m]: ModParam::data of m's parameter
    hw,      \* hw[m]: the value the hardware holds
    drift    \* number of changes of the hardware so far

modVars == <<mstate, cache, hw, drift>>

Event(m, v) ==
    [to |-> Nobody, id |-> 0, from |-> m, mod |-> m, kind |-> "update", val |-> v]

AnnounceNothing(m, old, new) == <<>>  \* mutant: the event is forgotten

\* ModParam::update: a changed value is cached, and announced unless to_json
\* fails (then the cache has changed, and no event says so).
Announce(m, old, new) ==
    IF new # old /\ new \in Representable THEN <<Event(m, new)>> ELSE <<>>

Reply(m, r, kind, v) ==
    [to |-> r.hid, id |-> r.id, from |-> m, mod |-> r.mod, kind |-> kind, val |-> v]

Refusal(m, r) == Reply(m, r, "error", NoVal)

\* The reply that reports value v: an error if to_json fails.
Report(m, r, kind, v) ==
    IF v \in Representable THEN Reply(m, r, kind, v) ELSE Refusal(m, r)

Send(es) == replies' = replies \o es

Cached(m, v) == cache' = [cache EXCEPT ![m] = v]

Written(m, v) == hw' = [hw EXCEPT ![m] = v]

-----------------------------------------------------------------------------
(* T::create, init_params, setup and the description, before the loop.     *)

InitialValue(m) == IF Class[m] = "ro" THEN hw[m] ELSE InitVal[m]

\* A software-only parameter is set without an event.
InitialEvents(m) ==
    IF Class[m] = "sw" THEN <<>> ELSE Announce(m, DefaultVal, InitialValue(m))

Description(m) ==
    IF m \in Visible
      THEN <<[to |-> Nobody, id |-> 0, from |-> m, mod |-> m,
              kind |-> "describing", val |-> NoVal]>>
      ELSE <<>>

InitialWrite(m) == IF Class[m] = "rw" THEN Written(m, InitVal[m]) ELSE UNCHANGED hw

StartOk(m) ==
    /\ mstate[m] = "starting"
    /\ Class[m] = "sw" \/ InitialValue(m) \in Representable
    /\ InitialWrite(m)
    /\ Cached(m, InitialValue(m))
    /\ Send(InitialEvents(m) \o Description(m))
    /\ mstate' = [mstate EXCEPT ![m] = "running"]
    /\ UNCHANGED <<drift, connections, requests, modq, outbox>>

\* Initialisation fails, by a panic: an initial value is refused before it is
\* written, a hardware access fails, or setup fails after the initialisation.
StartFails(m) ==
    /\ mstate[m] = "starting"
    /\ \/ Class[m] # "sw" /\ InitialValue(m) \notin Representable
          /\ UNCHANGED <<hw, replies>>
       \/ m \in Faulty /\ UNCHANGED <<hw, replies>>
       \/ /\ m \in Faulty /\ InitialValue(m) \in Representable
          /\ InitialWrite(m)
          /\ UNCHANGED replies \/ Send(InitialEvents(m))
    /\ mstate' = [mstate EXCEPT ![m] = "panicked"]
    /\ UNCHANGED <<cache, drift, connections, requests, modq, outbox>>

-----------------------------------------------------------------------------
(* The request branch of the loop *)

TakeModRequest(m, kind) ==
    /\ mstate[m] = "running"
    /\ modq[m] # <<>>
    /\ Head(modq[m]).kind = kind
    /\ modq' = [modq EXCEPT ![m] = Tail(@)]
    /\ UNCHANGED <<mstate, drift, connections, requests, outbox>>

\* read: a software-only parameter is answered from the cache; for any other
\* the hardware is read, the value cached and a change of it announced.
HandleRead(m) ==
    /\ TakeModRequest(m, "read")
    /\ LET r == Head(modq[m])
           v == IF Class[m] = "sw" THEN cache[m] ELSE hw[m]
       IN  \/ /\ Class[m] # "sw" /\ m \in Faulty
              /\ Send(<<Refusal(m, r)>>)
              /\ UNCHANGED cache
           \/ /\ Cached(m, v)
              /\ Send(Announce(m, cache[m], v) \o <<Report(m, r, "update", v)>>)
    /\ UNCHANGED hw

\* change: the value is checked, written, and read back from the hardware.
HandleChange(m) ==
    /\ TakeModRequest(m, "change")
    /\ LET r == Head(modq[m])
           refuse == Send(<<Refusal(m, r)>>)
           accepted(answer) ==
               Cached(m, r.val) /\ Send(Announce(m, cache[m], r.val) \o <<answer>>)
       IN  \/ /\ Class[m] = "ro" \/ r.val \notin Representable
              /\ refuse /\ UNCHANGED <<cache, hw>>
           \/ /\ Class[m] = "rw" /\ r.val \in Representable
              /\ \/ m \in Faulty /\ refuse /\ UNCHANGED <<cache, hw>>
                 \/ m \in Faulty /\ Written(m, r.val) /\ refuse /\ UNCHANGED cache
                 \/ Written(m, r.val) /\ accepted(Reply(m, r, "changed", r.val))
           \/ /\ Class[m] = "sw" /\ r.val \in Representable
              /\ \/ accepted(Reply(m, r, "changed", r.val))
                 \/ m \in Faulty /\ r.val # cache[m] /\ accepted(Refusal(m, r))
              /\ UNCHANGED hw

\* A command may change what the hardware holds.
HandleDo(m) ==
    /\ TakeModRequest(m, "do")
    /\ LET r == Head(modq[m]) IN
         \/ /\ m \in Faulty \/ r.val \notin Representable
            /\ Send(<<Refusal(m, r)>>) /\ UNCHANGED hw
         \/ /\ r.val \in Representable
            /\ Send(<<Reply(m, r, "done", NoVal)>>)
            /\ \E v \in Vals : Written(m, v)
    /\ UNCHANGED cache

\* activate_updates: the cached value, unless to_json fails.
HandleActivate(m) ==
    /\ TakeModRequest(m, "activate")
    /\ LET v == IF cache[m] \in Representable THEN cache[m] ELSE NoVal
       IN  Send(<<Reply(m, Head(modq[m]), "initupdates", v)>>)
    /\ UNCHANGED <<cache, hw>>

HandleRequest(m) ==
    HandleRead(m) \/ HandleChange(m) \/ HandleDo(m) \/ HandleActivate(m)

-----------------------------------------------------------------------------
(* The ticker branches: poll_normal and poll_busy read the parameter and    *)
(* drop the result.  Software-only parameters are not polled.               *)

Poll(m) ==
    /\ mstate[m] = "running" /\ Class[m] # "sw"
    /\ Cached(m, hw[m])
    /\ Send(Announce(m, cache[m], hw[m]))
    /\ UNCHANGED <<mstate, hw, drift, connections, requests, modq, outbox>>

-----------------------------------------------------------------------------
(* inner_run *)

PanicAndRequeue(m) ==  \* mutant: the request is put back, behind the others
    /\ m \in Panicky /\ mstate[m] = "running"
    /\ modq[m] # <<>> /\ modq' = [modq EXCEPT ![m] = Append(Tail(@), Head(@))]
    /\ UNCHANGED <<mstate, cache, hw, drift, connections, requests, replies, outbox>>

\* The module's code panics, in a poll or with the request it was handling.
Panic(m) ==
    /\ m \in Panicky /\ mstate[m] = "running"
    /\ \/ UNCHANGED modq
       \/ modq[m] # <<>> /\ modq' = [modq EXCEPT ![m] = Tail(@)]
    /\ mstate' = [mstate EXCEPT ![m] = "panicked"]
    /\ UNCHANGED <<cache, hw, drift, connections, requests, replies, outbox>>

DrainRefusing(m) ==  \* mutant: the pending requests are refused, not removed
    /\ mstate[m] = "panicked"
    /\ replies' = replies \o [i \in DOMAIN modq[m] |-> Refusal(m, modq[m][i])]
    /\ mstate' = [mstate EXCEPT ![m] = "waiting"]
    /\ UNCHANGED <<cache, hw, drift, connections, requests, modq, outbox>>

\* All pending requests are removed.
Drain(m) ==
    /\ mstate[m] = "panicked"
    /\ modq' = [modq EXCEPT ![m] = <<>>]
    /\ mstate' = [mstate EXCEPT ![m] = "waiting"]
    /\ UNCHANGED <<cache, hw, drift, connections, requests, replies, outbox>>

\* The next request makes the module start again.
Wake(m) ==
    /\ mstate[m] = "waiting"
    /\ modq[m] # <<>>
    /\ mstate' = [mstate EXCEPT ![m] = "starting"]
    /\ UNCHANGED <<cache, hw, drift, chanVars>>

-----------------------------------------------------------------------------
\* The hardware changes by itself (bounded by MaxDrift).
HardwareDrift(m) ==
    /\ drift < MaxDrift
    /\ drift' = drift + 1
    /\ \E v \in Vals \ {hw[m]} : Written(m, v)
    /\ UNCHANGED <<mstate, cache, chanVars>>

ModuleInit ==
    /\ mstate = [m \in Mods |-> "starting"]
    /\ cache = [m \in Mods |-> DefaultVal]
    /\ hw \in [Mods -> PowerOn]
    /\ drift = 0

ModuleNext(m) ==
    \/ StartOk(m) \/ StartFails(m)
    \/ HandleRequest(m) \/ Poll(m)
    \/ Panic(m) \/ Drain(m) \/ Wake(m)
    \/ HardwareDrift(m)

ModuleTypeOK ==
    /\ mstate \in [Mods -> {"starting", "running", "panicked", "waiting"}]
    /\ cache \in [Mods -> Vals]
    /\ hw \in [Mods -> Vals]
    /\ drift \in Nat
=============================================================================
