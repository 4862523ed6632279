-------------------------------- MODULE Comm --------------------------------
(***************************************************************************)
(* The line-based connection of a communication module                     *)
(* (modules/src/support/comm.rs, serial.rs and tcp.rs): a reader thread    *)
(* that collects what the device sends in a shared buffer and reconnects   *)
(* when the connection is lost, and the client side of the module's own    *)
(* thread.  The module thread makes one call at a time; a panic drops the  *)
(* client, and the restarted module sets up a new one.                     *)
(*                                                                         *)
(* Every request k is answered by the text k and an end of line, or not at *)
(* all; the reader may get the bytes of several answers, or of a part of   *)
(* one, in one read.  The buffer lock is held from one action's start to   *)
(* its end, and waiting for the condition variable gives it up.            *)
(***************************************************************************)
EXTENDS Naturals, Sequences

CONSTANTS
    MaxCalls,   \* bound: calls of the client
    MaxFaults   \* bound: losses of the connection

ASSUME CommAssumption == MaxCalls \in Nat /\ MaxFaults \in Nat

EOL == 0
Texts == 1 .. MaxCalls
Bytes == Texts \cup {EOL}

VARIABLES
    buffer,     \* CommShared::buffer
    connected,  \* CommShared::connected
    stop,       \* CommShared::stop, and while there is no CommShared
    reader,     \* the reader thread: reading, connecting or done
    client,     \* the module thread: none (no CommClient), idle, waiting (for
                \* seen_eol) or notified (it has to take the lock again)
    op,         \* the call being made: its kind and number, and whether nothing
                \* was on its way from the device when it was made
    results,    \* what the calls returned
    link,       \* up: the connection to the device works
    wire,       \* bytes on their way from the device to the reader
    todo,       \* requests the device has got and not answered
    partial,    \* what the device has got of a request without its end of line
    faults      \* how often the connection was lost

threadVars == <<buffer, connected, stop, reader>>
clientVars == <<client, op, results>>
deviceVars == <<link, wire, todo, partial, faults>>
vars == <<threadVars, clientVars, deviceVars>>

HasLine(b) == \E i \in 1 .. Len(b) : b[i] = EOL

FirstEOL(b) == CHOOSE i \in 1 .. Len(b) : b[i] = EOL /\ \A j \in 1 .. i - 1 : b[j] # EOL

Op == [kind : {"communicate", "readline", "writeline", "write", "read"}, id : 0 .. MaxCalls,
       clean : BOOLEAN]

Result == [op : Op, outcome : {"line", "data", "written", "timeout", "error"},
           got : Seq(Bytes)]

-----------------------------------------------------------------------------
(* CommClient *)

CallOf(kind) == [kind |-> kind, id |-> Len(results) + 1,
                 clean |-> /\ wire = <<>> /\ todo = <<>> /\ partial = <<>>
                           /\ link = "up"]

Starts(kind) == client = "idle" /\ Len(results) < MaxCalls /\ op' = CallOf(kind)

\* The call is over.
Returns(o, outcome, got) ==
    results' = Append(results, [op |-> o, outcome |-> outcome, got |-> got])

\* A line completes what the device has got of a request before.
Whole(k) == IF partial = <<>> THEN k ELSE Head(partial)

WriteNothing(k) ==  \* mutant: the end of line without the text
    /\ todo' = IF link = "up" THEN Append(todo, EOL) ELSE todo
    /\ UNCHANGED <<link, wire, partial, faults>>

\* CommClient::write of a line; over a lost connection nothing may arrive.
WriteOk(k) ==
    /\ todo' = IF link = "up" THEN Append(todo, Whole(k)) ELSE todo
    /\ partial' = <<>>
    /\ UNCHANGED <<link, wire, faults>>

\* Text without an end of line, unless the text itself has one.
WriteText(k) ==
    IF link = "up"
      THEN \/ WriteOk(k)
           \/ /\ partial' = Append(partial, k)
              /\ UNCHANGED <<link, wire, todo, faults>>
      ELSE UNCHANGED deviceVars

\* A write fails, at once or after a part of the text (tcp.rs:83: the write
\* timeout).
WriteFails(k) ==
    \/ UNCHANGED deviceVars
    \/ /\ link = "up"
       /\ partial' = Append(partial, k)
       /\ UNCHANGED <<link, wire, todo, faults>>

KeepBuffer == UNCHANGED buffer  \* mutant: old input is not cleared
ClearBuffer == buffer' = <<>>

\* communicate: clear the buffer, write the request and wait for a line.
Communicate ==
    /\ Starts("communicate")
    /\ ClearBuffer
    /\ \/ WriteOk(op'.id) /\ client' = "waiting" /\ UNCHANGED results
       \/ WriteFails(op'.id) /\ Returns(op', "error", <<>>) /\ UNCHANGED client
    /\ UNCHANGED <<connected, stop, reader>>

\* readline: wait for a line, whatever the buffer holds.
ReadLine ==
    /\ Starts("readline")
    /\ client' = "waiting"
    /\ UNCHANGED <<results, threadVars, deviceVars>>

WriteLine ==
    /\ Starts("writeline")
    /\ \/ WriteOk(op'.id) /\ Returns(op', "written", <<>>)
       \/ WriteFails(op'.id) /\ Returns(op', "error", <<>>)
    /\ UNCHANGED <<client, threadVars>>

\* do_write: the input as it is.
Write ==
    /\ Starts("write")
    /\ \/ WriteText(op'.id) /\ Returns(op', "written", <<>>)
       \/ WriteFails(op'.id) /\ Returns(op', "error", <<>>)
    /\ UNCHANGED <<client, threadVars>>

\* do_read: all that is in the buffer.
ReadBuffer ==
    /\ Starts("read")
    /\ Returns(op', "data", buffer)
    /\ buffer' = <<>>
    /\ UNCHANGED <<client, connected, stop, reader, deviceVars>>

\* get_line: take the first line off the buffer.
GetLine ==
    /\ client = "notified"
    /\ LET end == FirstEOL(buffer) IN
         /\ Returns(op, "line", SubSeq(buffer, 1, end - 1))
         /\ buffer' = SubSeq(buffer, end + 1, Len(buffer))
    /\ client' = "idle"
    /\ UNCHANGED <<op, connected, stop, reader, deviceVars>>

\* wait_eol: "no response".
TimeOut ==
    /\ client = "waiting"
    /\ Returns(op, "timeout", <<>>)
    /\ client' = "idle"
    /\ UNCHANGED <<op, threadVars, deviceVars>>

\* do_multi_communicate panics, and so may the rest of the module: teardown
\* drops the client, which tells the reader thread to stop.
DropClient ==
    /\ client = "idle"
    /\ client' = "none"
    /\ stop' = TRUE
    /\ UNCHANGED <<op, results, buffer, connected, reader, deviceVars>>

\* setup of a module that starts: CommThread::spawn, with a connection, a buffer
\* and a thread of its own; a thread that has not seen its stop yet keeps to
\* the old ones.  A setup that fails leaves no client, as before.
Setup ==
    /\ client = "none"
    /\ client' = "idle"
    /\ buffer' = <<>> /\ connected' = TRUE /\ stop' = FALSE /\ reader' = "reading"
    /\ link' = "up" /\ wire' = <<>> /\ todo' = <<>> /\ partial' = <<>>
    /\ UNCHANGED <<op, results, faults>>

-----------------------------------------------------------------------------
(* CommThread::thread *)

WakeAlways(b) == b # <<>>  \* mutant: any input wakes the client
WakesClient(b) == HasLine(b)

\* A read returns some bytes.  The thread looks at stop only after it.
ReaderGets ==
    /\ reader = "reading"
    /\ \E n \in 1 .. Len(wire) :
         /\ buffer' = buffer \o SubSeq(wire, 1, n)
         /\ wire' = SubSeq(wire, n + 1, Len(wire))
    /\ client' = IF client = "waiting" /\ WakesClient(buffer') THEN "notified" ELSE client
    /\ reader' = IF stop THEN "done" ELSE "reading"
    /\ connected' = ~stop
    /\ UNCHANGED <<stop, op, results, link, todo, partial, faults>>

ReaderGivesUp ==  \* mutant: a lost connection ends the thread
    /\ reader = "reading" /\ link = "down" /\ wire = <<>>
    /\ reader' = "done"
    /\ connected' = FALSE
    /\ UNCHANGED <<buffer, stop, clientVars, deviceVars>>

\* A read returns nothing, or an error: the connection is lost.
ReaderFails ==
    /\ reader = "reading" /\ link = "down" /\ wire = <<>>
    /\ reader' = IF stop THEN "done" ELSE "connecting"
    /\ connected' = FALSE
    /\ UNCHANGED <<buffer, stop, clientVars, deviceVars>>

\* The connection is set up again; the buffer stays as it was.
Reconnect ==
    /\ reader = "connecting" /\ ~stop
    /\ link' = "up"
    /\ reader' = "reading"
    /\ connected' = TRUE
    /\ UNCHANGED <<buffer, stop, clientVars, wire, todo, partial, faults>>

ReaderStops ==
    /\ reader = "connecting" /\ stop
    /\ reader' = "done"
    /\ UNCHANGED <<buffer, connected, stop, clientVars, deviceVars>>

-----------------------------------------------------------------------------
(* The device and the connection to it *)

DeviceAnswers ==
    /\ todo # <<>> /\ link = "up"
    /\ \/ wire' = wire \o <<Head(todo), EOL>>
       \/ UNCHANGED wire
    /\ todo' = Tail(todo)
    /\ UNCHANGED <<link, partial, faults, threadVars, clientVars>>

\* The connection is lost, with a part of what was on its way.
Disconnect ==
    /\ link = "up" /\ faults < MaxFaults
    /\ link' = "down"
    /\ faults' = faults + 1
    /\ todo' = <<>> /\ partial' = <<>>
    /\ \E n \in 0 .. Len(wire) : wire' = SubSeq(wire, 1, n)
    /\ op' = [op EXCEPT !.clean = FALSE]
    /\ UNCHANGED <<threadVars, client, results>>

-----------------------------------------------------------------------------
Init ==
    /\ buffer = <<>> /\ connected = FALSE /\ stop = TRUE /\ reader = "done"
    /\ client = "none" /\ results = <<>>
    /\ op = [kind |-> "read", id |-> 0, clean |-> TRUE]
    /\ link = "up" /\ wire = <<>> /\ todo = <<>> /\ partial = <<>> /\ faults = 0

ReaderStep == ReaderGets \/ ReaderFails \/ Reconnect \/ ReaderStops

ClientStep ==
    \/ Communicate \/ ReadLine \/ WriteLine \/ Write \/ ReadBuffer
    \/ GetLine \/ TimeOut \/ DropClient \/ Setup

Next == ReaderStep \/ ClientStep \/ DeviceAnswers \/ Disconnect

Spec == Init /\ [][Next]_vars

\* The reader thread runs on, and the device accepts a connection in the end.
FairSpec == Spec /\ WF_vars(ReaderStep) /\ WF_vars(GetLine) /\ WF_vars(TimeOut)

-----------------------------------------------------------------------------
\* Every variable holds a value of its type (comm.rs:38-58).
TypeOK ==
    /\ buffer \in Seq(Bytes)
    /\ connected \in BOOLEAN
    /\ stop \in BOOLEAN
    /\ reader \in {"reading", "connecting", "done"}
    /\ client \in {"none", "idle", "waiting", "notified"}
    /\ op \in Op
    /\ results \in Seq(Result)
    /\ link \in {"up", "down"}
    /\ wire \in Seq(Bytes)
    /\ todo \in Seq(Texts)
    /\ partial \in Seq(Texts)
    /\ faults \in 0 .. MaxFaults

\* The unwrap in get_line (comm.rs:65-72) never fails: a client that was woken
\* finds a whole line, whatever happens before it has the lock again.
WokenFindsLine == client = "notified" => HasLine(buffer)

\* communicate (comm.rs:100-106) never waits while the line it waits for is in
\* the buffer: no notification is missed between the write and the wait.
NoLineMissed ==
    (client = "waiting" /\ op.kind = "communicate") => ~HasLine(buffer)

\* A communicate made when nothing was left on its way to or from the device
\* returns the answer to its own request, whole, unless the connection was lost under
\* it: what earlier calls left in the buffer does no harm (comm.rs:102).
CleanCommunicate ==
    \A i \in 1 .. Len(results) :
      LET r == results[i]
      IN  (r.op.kind = "communicate" /\ r.op.clean /\ r.outcome = "line")
            => r.got = <<r.op.id>>

\* A lost connection is set up again (comm.rs:176-191), unless the thread is
\* told to stop, so that is_connected is true again in the end.
Reconnects == ~connected ~> (connected \/ stop)
=============================================================================
