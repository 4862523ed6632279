--------------------------- MODULE MCCallingNode ----------------------------
(***************************************************************************)
(* Values for the constants of CallingNode: a communication module, two    *)
(* modules that call others, and a user that calls them.                   *)
(***************************************************************************)
EXTENDS CallingNode

CONSTANTS rs, ps

ReadWrite == [m \in Mods |-> "rw"]
AllZero == [m \in Mods |-> 0]

\* The user reads ps.
OneUser == [h \in {1} |-> ps]

\* ps calls the communication module rs, itself, or no module; or both call each
\* other.
CallWirings ==
    [{ps} -> {rs, ps, NoSuchMod, All}] \cup {[m \in {rs, ps} |-> IF m = ps THEN rs ELSE ps]}

UserCallMenu == [kind : {"read", "ping"}, val : {NoVal}]
=============================================================================
