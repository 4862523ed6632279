------------------------------- MODULE Lines --------------------------------
(***************************************************************************)
(* The receiving thread of a connection: Handler::handle, process and      *)
(* handle_msg (core/src/server.rs:353-429).  Bytes come in chunks of any   *)
(* size, lines are cut out of them, parsed, and forwarded to the           *)
(* dispatcher or answered on the spot.                                     *)
(*                                                                         *)
(* A line that was sent is one of Wire's lines, drawn out over a number of *)
(* bytes; a byte of it is a record that names its line and its place.      *)
(***************************************************************************)
EXTENDS Wire, SequencesExt, FiniteSetsExt

CONSTANTS
    RecvBufLen,  \* RECVBUF_LEN: the bytes one read returns at most
    MaxMsgLen,   \* MAX_MSG_LEN: the bytes of an unfinished line that are kept
    MaxWidth,    \* bound: the bytes of a line without its ending
    Second       \* what is sent after the first line, as in sent

ASSUME LengthAssumption == RecvBufLen \in Nat \ {0} /\ MaxMsgLen \in Nat /\ MaxWidth \in Nat

\* What a client may send as one line.
Sendable == [line : Lines, width : Nat \ {0}, cr : BOOLEAN]

ASSUME SecondAssumption == Second \in Sendable

CR == [line |-> Absent, at |-> 0, of |-> 13]
LF == [line |-> Absent, at |-> 0, of |-> 10]
Quit == [kind |-> "quit"]

VARIABLES
    sent,       \* the lines the client sends, as [line, width, cr]
    stream,     \* the bytes not yet received
    buf,        \* the bytes received and not yet processed
    forwarded,  \* the messages sent to the dispatcher
    answered,   \* the replies sent from here
    widest,     \* the length of the longest line that was processed
    open        \* the loop of Handler::handle runs

lineVars == <<sent, stream, buf, forwarded, answered, widest, open>>

Bytes(s) ==
    [i \in 1..s.width |-> [line |-> s.line, at |-> i, of |-> s.width]]
        \o (IF s.cr THEN <<CR>> ELSE <<>>) \o <<LF>>

-----------------------------------------------------------------------------
\* The lines that end in b, one after the other, without their line feed.
Feeds(b) == {i \in DOMAIN b : b[i] = LF}
Feed(b, k) == CHOOSE i \in Feeds(b) : Cardinality({j \in Feeds(b) : j <= i}) = k

WholeLines(b) ==
    LET from(k) == IF k = 1 THEN 1 ELSE Feed(b, k - 1) + 1
    IN  [k \in 1..Cardinality(Feeds(b)) |-> SubSeq(b, from(k), Feed(b, k) - 1)]

ClearBuffer(b) ==  \* mutant: buf.clear() in place of buf.drain(..from)
    IF LF \in ToSet(b) THEN <<>> ELSE b

\* What drain leaves: the bytes behind the last line feed.
Unfinished(b) == SubSeq(b, Max({0} \cup Feeds(b)) + 1, Len(b))

TrimEnd(text) == SubSeq(text, 1, Max({0} \cup {i \in DOMAIN text : text[i] # CR}))

\* The message in a text: what was sent as a line must come in whole, anything
\* else is no message.
MessageOf(text) ==
    IF /\ text # <<>> /\ CR \notin ToSet(text)
       /\ \A i \in DOMAIN text :
            text[i] = [line |-> text[1].line, at |-> i, of |-> Len(text)]
      THEN Parse(text[1].line)
      ELSE Error

Forwards == {"change", "do", "read", "describe", "activate", "deactivate"}

Forwarded(m) == IF m.kind \in Forwards THEN <<m>> ELSE <<>>

\* Handler::handle_msg answers a ping and an identification, and process the
\* lines that are no messages; a message of a kind only servers send is dropped.
LocalAnswer(m) ==
    CASE m = Error -> <<Error>>
      [] m.kind = "ping" -> <<[kind |-> "pong", spec |-> m.spec, data |-> Time]>>
      [] m.kind = "*IDN?" -> <<[kind |-> IdentReply]>>
      [] OTHER -> <<>>

AllForwarded(msgs) == FlattenSeq([i \in DOMAIN msgs |-> Forwarded(msgs[i])])
AllAnswered(msgs) == FlattenSeq([i \in DOMAIN msgs |-> LocalAnswer(msgs[i])])

NoLimit(rest) == TRUE  \* mutant: the length limit is forgotten

WithinLimit(rest) == Len(rest) <= MaxMsgLen

-----------------------------------------------------------------------------
\* n bytes come in: every line they complete is processed, the rest is kept
\* if it is not too long, and ends the connection if it is.
TakeIn(n) ==
    LET b == buf \o SubSeq(stream, 1, n)
        texts == WholeLines(b)
        msgs == [k \in DOMAIN texts |-> MessageOf(TrimEnd(texts[k]))]
        goesOn == WithinLimit(Unfinished(b))
    IN  /\ stream' = SubSeq(stream, n + 1, Len(stream))
        /\ buf' = Unfinished(b)
        /\ widest' = Max({widest} \cup {Len(texts[k]) : k \in DOMAIN texts})
        /\ forwarded' = forwarded \o AllForwarded(msgs) \o (IF goesOn THEN <<>> ELSE <<Quit>>)
        /\ answered' = answered \o AllAnswered(msgs)
        /\ open' = goesOn

ReadChunk ==
    /\ open
    /\ \E n \in 1..Min({RecvBufLen, Len(stream)}) : TakeIn(n)
    /\ UNCHANGED sent

\* The client has closed the connection, or the read fails.
ReadEnds ==
    /\ open
    /\ open' = FALSE
    /\ forwarded' = Append(forwarded, Quit)
    /\ UNCHANGED <<sent, stream, buf, answered, widest>>

Init ==
    /\ \E l \in Lines, w \in 1..MaxWidth, c \in BOOLEAN :
         sent = <<[line |-> l, width |-> w, cr |-> c], Second>>
    /\ stream = Bytes(sent[1]) \o Bytes(sent[2])
    /\ buf = <<>> /\ forwarded = <<>> /\ answered = <<>>
    /\ widest = 0
    /\ open = TRUE

Next == ReadChunk \/ ReadEnds

Spec == Init /\ [][Next]_lineVars

-----------------------------------------------------------------------------
\* The lines whose last byte has been received.
Arrived ==
    [k \in 1..(Len(sent) - Cardinality(Feeds(stream))) |-> Parse(sent[k].line)]

\* However the bytes are cut into chunks, every line that has come in was
\* processed once, in order, as the line that was sent, with either line ending,
\* and one Quit follows the last of them when the loop ends (server.rs:400-427).
ChunkingInvisible ==
    /\ forwarded = AllForwarded(Arrived) \o (IF open THEN <<>> ELSE <<Quit>>)
    /\ answered = AllAnswered(Arrived)

\* A client that sends a longer line than the limit and one full chunk is not
\* served: the buffer of a connection that goes on holds no more than the limit,
\* and no line that was processed is longer (server.rs:421-425).
LengthLimit ==
    /\ open => Len(buf) <= MaxMsgLen
    /\ widest < MaxMsgLen + RecvBufLen

\* A message is printed to a line that parses to the same message
\* (proto.rs:178-181: "Serialize" a Msg back to a String), with every specifier
\* that parses, but for a pong, a description or an error with an empty one:
\* these print a gap that the expression for messages does not admit.  Stated of
\* every message that has arrived and of the replies to them.
ComesBack ==
    \A m \in ToSet(Arrived \o answered) \ {Error} :
      IF Gap(m) THEN Parse(Display(m)) = Error ELSE Parse(Display(m)) = m
=============================================================================
