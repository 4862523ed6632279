----------------------------- MODULE CallingNode -----------------------------
(***************************************************************************)
(* A SEC node whose modules call each other: the dispatcher, ordinary      *)
(* modules, modules that read through others (Toellner), and users, local  *)
(* clients in the hands of code of which nothing else is known.            *)
(***************************************************************************)
EXTENDS Dispatcher, Toellner

CONSTANTS
    Users,    \* the users: Users[h] is the name of the module that the client
              \* with handler id h was made for
    Calls,    \* what users may call: records with kind and val
    MaxCalls  \* bound: calls of each user

ASSUME CallingAssumption ==
    /\ DOMAIN Users \subseteq Handlers \ Pool
    /\ Users \in [DOMAIN Users -> Names]
    /\ Calls \subseteq [kind : ModuleRequests \cup {"ping"}, val : Vals \cup {NoVal}]
    /\ MaxCalls \in Nat

vars == <<chanVars, dispVars, modVars, localVars, callerVars>>

UserNew(h) ==
    /\ NewClient(h)
    /\ UNCHANGED <<calls, taken, results, requests, modq, replies, outbox>>

UserCalls(h) ==
    /\ lstate[h] = "live" /\ Len(calls[h]) < MaxCalls
    /\ \E c \in Calls : Transact(h, c.kind, Users[h], c.val)
    /\ UNCHANGED <<lstate, taken, results, connections, modq, replies, outbox>>

UserReturns(h) == (Receive(h) \/ TimeOut(h)) /\ UNCHANGED chanVars

UserDrops(h) ==
    /\ DropClient(h)
    /\ UNCHANGED <<calls, taken, results, connections, modq, replies, outbox>>

UserNext(h) == UserNew(h) \/ UserCalls(h) \/ UserReturns(h) \/ UserDrops(h)

Init ==
    /\ ChannelsInit /\ DispatcherInit /\ ModuleInit
    /\ LocalInit /\ CallerInit

DispatcherStep == DispatcherNext /\ UNCHANGED <<modVars, localVars, callerVars>>

ModuleStep(m) == ModuleNext(m) /\ UNCHANGED <<dispVars, localVars, callerVars>>

CallerStep(m) == CallerNext(m) /\ UNCHANGED dispVars

UserStep(h) == UserNext(h) /\ UNCHANGED <<dispVars, modVars, callerVars>>

Next ==
    \/ DispatcherStep
    \/ \E m \in Mods \ Callers : ModuleStep(m)
    \/ \E m \in Callers : CallerStep(m)
    \/ \E h \in DOMAIN Users : UserStep(h)

Spec == Init /\ [][Next]_vars

CallerRuns(m) == m \in Callers /\ (Create(m) \/ CallReturns(m) \/ Restart(m))
CallerServes(m) == m \in Callers /\ (ServeRead(m) \/ ServeOther(m))

\* A call returns after two seconds at the latest, the thread of a module goes
\* on, and the dispatcher serves all its channels.
Fairness ==
    /\ WF_vars(Register /\ UNCHANGED <<modVars, localVars, callerVars>>)
    /\ WF_vars(DispatchRequest /\ UNCHANGED <<modVars, localVars, callerVars>>)
    /\ WF_vars(RouteReply /\ UNCHANGED <<modVars, localVars, callerVars>>)
    /\ \A m \in Mods :
         /\ WF_vars(CallerRuns(m) /\ UNCHANGED dispVars)
         /\ SF_vars(CallerServes(m) /\ UNCHANGED dispVars)

FairSpec == Spec /\ Fairness

-----------------------------------------------------------------------------
\* Every variable has its type (server.rs:58-72, client.rs:42-54); each
\* client has one call at a time and takes only what it was sent.
TypeOK ==
    /\ ChannelsTypeOK /\ DispatcherTypeOK /\ ModuleTypeOK
    /\ LocalTypeOK /\ CallerTypeOK

TimeOuts(h, n) == Cardinality({i \in 1 .. n : results[h][i].got = 0})

\* How far the replies of a local client (client.rs:124-130) can be off: never
\* ahead of the call, never twice the same, and behind it by no more calls than
\* have timed out before.  A client whose calls never timed out gets the answer
\* to each of its calls.
LagBounded ==
    \A h \in Handlers : \A i \in 1 .. Len(results[h]) :
      LET got == results[h][i].got
      IN  got # 0 =>
            /\ got <= i
            /\ i - got <= TimeOuts(h, i - 1)
            /\ \A j \in 1 .. i - 1 : results[h][j].got < got

\* What piles up in the reply channel of a client (client.rs:124-130) is bounded by
\* its time-outs: there are no more unread messages than calls that timed out, and
\* one more while a call lasts.  Each of them answers a call that was made, and a
\* later one than all that were taken for answers before.
UnreadBounded ==
    \A h \in Handlers :
      /\ Len(outbox[h]) - taken[h]
           <= TimeOuts(h, Len(results[h])) + (IF Calling(h) THEN 1 ELSE 0)
      /\ \A i \in taken[h] + 1 .. Len(outbox[h]) :
           /\ outbox[h][i].id \in 1 .. Len(calls[h])
           /\ \A j \in 1 .. Len(results[h]) : results[h][j].got < outbox[h][i].id

\* The bound on clients stops m: it would start again, and Pool has none left.
OutOfClients(m) ==
    /\ m \in Callers /\ iomod[m] # All
    /\ mstate[m] = "starting" /\ client[m] = Nobody
    /\ ~\E h \in Pool : IsFresh(h)

\* Modules that call each other, in a circle or themselves, do not block for
\* good (toellner.rs:65, client.rs:126): what is in the queue of a calling module
\* is served or drained in the end, unless the bound on clients stops the module.
QueuesEmptied ==
    \A m \in Mods : (m \in Callers /\ modq[m] # <<>>)
                      ~> (modq[m] = <<>> \/ OutOfClients(m))
=============================================================================
