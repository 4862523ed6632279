-------------------------------- MODULE Service --------------------------------
(***************************************************************************)
(* What a SEC node promises its clients, whatever its threads do: a        *)
(* message answers a request that was made and is still open; the last     *)
(* message for a request closes it, and no other follows; the requests for *)
(* one module are closed in the order they were made.  A request may be    *)
(* lost; events answer no request and come at any time.                    *)
(***************************************************************************)
EXTENDS Naturals, Sequences

CONSTANTS
    Clients,  \* those who ask
    Ordered,  \* destinations whose requests are answered in order
    Node      \* the destination of all other requests; it is not in Ordered

VARIABLES
    made,  \* made[c]: the destinations of c's requests, in order
    open,  \* open[c]: the numbers of c's requests that may still be answered
    told   \* told[c]: the messages to c: the number of the request each one
           \* belongs to (0: an event), and whether it is the last one for it

serviceVars == <<made, open, told>>

Part(i) == [id |-> i, last |-> FALSE]
Last(i) == [id |-> i, last |-> TRUE]

\* Of two requests for the same module the earlier one is closed first.
First(c, i) ==
    made[c][i] \in Ordered => \A j \in open[c] : made[c][j] = made[c][i] => i <= j

\* A request is made: it is open, or answered, or lost at once.
Ask(c) ==
    /\ \E d \in Ordered \cup {Node} : made' = [made EXCEPT ![c] = Append(@, d)]
    /\ LET i == Len(made[c]) + 1 IN
         \/ open' = [open EXCEPT ![c] = @ \cup {i}] /\ UNCHANGED told
         \/ told' = [told EXCEPT ![c] = Append(@, Last(i))] /\ UNCHANGED open
         \/ UNCHANGED <<open, told>>

\* One message, or none, that leaves the request open, or the last that is told.
Inform(c) ==
    \E i \in open[c] :
      /\ told' = [told EXCEPT ![c] = Append(@, Part(i))]
      /\ UNCHANGED open \/ open' = [open EXCEPT ![c] = @ \ {i}]
      /\ UNCHANGED made

\* The last message of a request, alone or after another one.
Close(c) ==
    \E i \in open[c] :
      /\ First(c, i)
      /\ \/ told' = [told EXCEPT ![c] = Append(@, Last(i))]
         \/ told' = [told EXCEPT ![c] = @ \o <<Part(i), Last(i)>>]
      /\ open' = [open EXCEPT ![c] = @ \ {i}]
      /\ UNCHANGED made

\* An event is told to some clients.
Tell ==
    /\ \E S \in SUBSET Clients :
         told' = [c \in Clients |-> IF c \in S THEN Append(told[c], Part(0)) ELSE told[c]]
    /\ UNCHANGED <<made, open>>

\* Requests will not be answered any more.
Lose ==
    /\ open' \in [Clients -> UNION {SUBSET open[c] : c \in Clients}]
    /\ \A c \in Clients : open'[c] \subseteq open[c]
    /\ UNCHANGED <<made, told>>

Init ==
    /\ made = [c \in Clients |-> <<>>]
    /\ open = [c \in Clients |-> {}]
    /\ told = [c \in Clients |-> <<>>]

Next == (\E c \in Clients : Ask(c) \/ Inform(c) \/ Close(c)) \/ Tell \/ Lose

Spec == Init /\ [][Next]_serviceVars
================================================================================
