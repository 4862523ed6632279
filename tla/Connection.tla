----------------------------- MODULE Connection -----------------------------
(***************************************************************************)
(* A TCP client's connection: the listener that accepts it and the two     *)
(* threads of its Handler (core/src/server.rs:82-97 and 318-430).          *)
(*                                                                         *)
(* The receiving thread parses the client's lines, forwards most requests  *)
(* to the dispatcher and answers a few itself; the sending thread writes   *)
(* to the socket what arrives on the reply channel.                        *)
(***************************************************************************)
EXTENDS Channels

CONSTANTS
    Menu,         \* what clients send: records with kind, mod and val; quit
                  \* stands for hanging up, ping for anything answered locally
    Flaky,        \* handlers whose sending thread may meet a write error
    MaxRequests   \* bound: MaxRequests[h]: requests of connection h

ASSUME ConnectionAssumption ==
    /\ Menu \subseteq [kind : RequestKinds, mod : Names, val : Vals \cup {NoVal}]
    /\ \A c \in Menu : c.kind = "describe" => c.mod = All  \* names no module
    /\ MaxRequests \in [Handlers -> Nat]

VARIABLES
    conn,   \* conn[h]: new, open, deaf (the sending thread is gone), closed
            \* (Quit was sent) or crashed (it was not)
    asked   \* asked[h]: the requests of h's client, in order

connVars == <<conn, asked>>

RequestOf(h, c) ==
    [hid |-> h, id |-> Len(asked[h]) + 1, kind |-> c.kind, mod |-> c.mod,
     val |-> c.val]

Receiving(h) == conn[h] \in {"open", "deaf"}

Asks(h, c) ==
    /\ Receiving(h)
    /\ Len(asked[h]) < MaxRequests[h]
    /\ asked' = [asked EXCEPT ![h] = Append(@, RequestOf(h, c))]

\* The listener tells the dispatcher of the handler, then starts its threads.
Accept(h) ==
    /\ conn[h] = "new"
    /\ conn' = [conn EXCEPT ![h] = "open"]
    /\ connections' = Append(connections, h)
    /\ UNCHANGED <<asked, requests, modq, replies, outbox>>

\* Most messages must go through the dispatcher.
ForwardRequest(h) ==
    /\ \E c \in Menu :
         /\ c.kind \notin {"ping", "quit"}
         /\ Asks(h, c)
         /\ requests' = Append(requests, RequestOf(h, c))
    /\ UNCHANGED <<conn, connections, modq, replies, outbox>>

\* Ping, *IDN? and lines that do not parse are answered from here: the
\* answer may overtake those that come through the dispatcher.  With the
\* sending thread gone, putting it on the reply channel panics.
AnswerLocally(h) ==
    /\ \E c \in Menu :
         /\ c.kind = "ping"
         /\ Asks(h, c)
         /\ \/ /\ conn[h] = "open"
               /\ outbox' = [outbox EXCEPT ![h] = Append(@, Answer(RequestOf(h, c), "pong"))]
               /\ UNCHANGED conn
            \/ /\ conn[h] = "deaf"
               /\ conn' = [conn EXCEPT ![h] = "crashed"]
               /\ UNCHANGED outbox
    /\ UNCHANGED <<connections, requests, modq, replies>>

\* The client hangs up, a read fails or a line is too long: send Quit.
HangUp(h) ==
    /\ Receiving(h)
    /\ \E c \in Menu :
         /\ c.kind = "quit"
         /\ requests' = Append(requests, [RequestOf(h, c) EXCEPT !.id = 0])
    /\ conn' = [conn EXCEPT ![h] = "closed"]
    /\ UNCHANGED <<asked, connections, modq, replies, outbox>>

\* A write error ends the sending thread, and nothing else.
SenderFails(h) ==
    /\ h \in Flaky
    /\ conn[h] = "open"
    /\ outbox[h] # <<>>
    /\ conn' = [conn EXCEPT ![h] = "deaf"]
    /\ UNCHANGED <<asked, chanVars>>

ConnectionInit ==
    /\ conn = [h \in Handlers |-> "new"]
    /\ asked = [h \in Handlers |-> <<>>]

ConnectionNext(h) ==
    Accept(h) \/ ForwardRequest(h) \/ AnswerLocally(h) \/ HangUp(h) \/ SenderFails(h)

ConnectionTypeOK ==
    /\ conn \in [Handlers -> {"new", "open", "deaf", "closed", "crashed"}]
    /\ asked \in [Handlers -> Seq(Request)]
=============================================================================
