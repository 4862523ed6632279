---------------------------- MODULE LocalClient -----------------------------
(***************************************************************************)
(* The blocking client by which a module calls another module of its node  *)
(* (core/src/client.rs:42-162): a handler without a socket, that waits for *)
(* the reply to each of its requests, for two seconds at most.             *)
(*                                                                         *)
(* An operation leaves the channels it does not name to the module that    *)
(* composes it.                                                            *)
(***************************************************************************)
EXTENDS Channels

VARIABLES
    lstate,   \* lstate[h]: none, live or dropped
    calls,    \* calls[h]: the requests h has sent
    taken,    \* taken[h]: how many messages h took off its reply channel
    results   \* results[h]: what its calls returned: the id of the request that
              \* was answered (0: timed out), and whether the call returned Ok

localVars == <<lstate, calls, taken, results>>

\* Between transact's send and what it returns: the thread blocks.
Calling(h) == Len(results[h]) < Len(calls[h])

\* LocalClient::new tells the dispatcher, and does not wait for it.
NewClient(h) ==
    /\ lstate[h] = "none"
    /\ lstate' = [lstate EXCEPT ![h] = "live"]
    /\ connections' = Append(connections, h)

\* transact sends the request of a call ...
Transact(h, kind, mod, val) ==
    /\ ~Calling(h)
    /\ LET r == [hid |-> h, id |-> Len(calls[h]) + 1, kind |-> kind, mod |-> mod,
                 val |-> val]
       IN  /\ calls' = [calls EXCEPT ![h] = Append(@, r)]
           /\ requests' = Append(requests, r)

Return(h, got, ok) ==
    /\ results' = [results EXCEPT ![h] = Append(@, [got |-> got, ok |-> ok])]
    /\ UNCHANGED <<lstate, calls>>

\* The kind of message that answers a call of that kind with success.
Expected(kind) ==
    CASE kind = "read" -> "update"
      [] kind = "change" -> "changed"
      [] kind = "do" -> "done"
      [] kind = "ping" -> "pong"

Unread(h) == taken[h] < Len(outbox[h])

PeekOnly(h) == UNCHANGED taken  \* mutant: the message stays in the channel
TakeOff(h) == taken' = [taken EXCEPT ![h] = @ + 1]

\* ... and takes the next message from the reply channel.  read, change,
\* command and ping look at the kind of it only.
Receive(h) ==
    /\ Calling(h) /\ Unread(h)
    /\ LET msg == outbox[h][taken[h] + 1]
       IN  Return(h, msg.id, msg.kind = Expected(calls[h][Len(calls[h])].kind))
    /\ TakeOff(h)

BlocksForGood(h) == FALSE /\ UNCHANGED localVars  \* mutant: recv without timeout

TimeOutAndSkip(h) ==  \* mutant: the late message is counted as taken
    /\ Calling(h) /\ ~Unread(h)
    /\ Return(h, 0, FALSE)
    /\ TakeOff(h)

\* The two seconds are over and there is none.
TimeOut(h) ==
    /\ Calling(h) /\ ~Unread(h)
    /\ Return(h, 0, FALSE)
    /\ UNCHANGED taken

\* The last call returned Ok.
Succeeded(h) == results'[h][Len(results'[h])].ok

\* A dropped client sends Quit.
QuitOf(h) == [hid |-> h, id |-> 0, kind |-> "quit", mod |-> All, val |-> NoVal]

DropClient(h) ==
    /\ lstate[h] = "live" /\ ~Calling(h)
    /\ lstate' = [lstate EXCEPT ![h] = "dropped"]
    /\ requests' = Append(requests, QuitOf(h))

LocalInit ==
    /\ lstate = [h \in Handlers |-> "none"]
    /\ calls = [h \in Handlers |-> <<>>]
    /\ taken = [h \in Handlers |-> 0]
    /\ results = [h \in Handlers |-> <<>>]

\* A call returns before the next one is made, and nobody takes a message that
\* is not there.
LocalTypeOK ==
    /\ lstate \in [Handlers -> {"none", "live", "dropped"}]
    /\ calls \in [Handlers -> Seq(Request)]
    /\ taken \in [Handlers -> Nat]
    /\ results \in [Handlers -> Seq([got : Nat, ok : BOOLEAN])]
    /\ \A h \in Handlers : /\ taken[h] <= Len(outbox[h])
                           /\ Len(calls[h]) - Len(results[h]) \in {0, 1}
=============================================================================
