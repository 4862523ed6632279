-------------------------------- MODULE Wire --------------------------------
(***************************************************************************)
(* The messages as lines of text: Msg::parse and the Display of Msg        *)
(* (core/src/proto.rs:35-45 and 121-225).                                  *)
(*                                                                         *)
(* A line is a verb, a specifier and JSON data, the last two optional.  A  *)
(* specifier is kept as the sequence of its parts between colons: the      *)
(* first is the module, the rest the parameter or command; <<"">> is the   *)
(* empty one.  Data is one of a set of JSON values, or no JSON.            *)
(***************************************************************************)
EXTENDS Sequences, Naturals

CONSTANTS
    Words,   \* parts of a specifier: words of letters, digits, _, < and >
    Odd,     \* parts that are no words (in the code, the "." of a description)
    Values,  \* JSON values other than null
    Null,    \* the JSON null
    NoJson,  \* data that is no JSON
    Absent   \* no specifier, no data

Time == "time"  \* the JSON value that comes with a pong

Parts == Words \cup Odd \cup {""}

Specs == {<<a>> : a \in Parts} \cup {<<a, b>> : a, b \in Parts}

ASSUME WireAssumption ==
    /\ "" \notin Words \cup Odd
    /\ Absent \notin Specs
    /\ Absent \notin Values \cup {Null, NoJson, Time}
    /\ NoJson \notin Values \cup {Null, Time}

IsEmpty(spec) == spec = <<"">>

WithParam == {"read", "change", "do", "update", "changed", "done"}
WithModule == {"activate", "deactivate", "active", "inactive"}
WithToken == {"ping", "pong", "describing", "error"}
WithData == {"change", "do", "update", "changed", "done", "describing", "pong", "error"}
Bare == {"describe", "*IDN?"}

Kinds == WithParam \cup WithModule \cup WithToken \cup Bare

IdentReply == "SINE2020&ISSE"  \* the identify reply, which has a format of its own

Lines ==
    [verb : Kinds \cup {"unknown", IdentReply}, spec : Specs \cup {Absent},
     data : Values \cup {Null, NoJson, Absent}]

Error == [kind |-> "no message"]

\* MSG_RE: data only after a specifier, and a specifier that is there is not
\* empty and made of words.
Matches(l) ==
    /\ l.verb # IdentReply
    /\ l.spec = Absent => l.data = Absent
    /\ l.spec # Absent => /\ ~IsEmpty(l.spec)
                          /\ \A i \in DOMAIN l.spec : l.spec[i] \notin Odd

\* Msg::parse_inner.  What a kind of message has no place for is dropped.
Parse(l) ==
    LET spec == IF l.spec = Absent THEN <<"">> ELSE l.spec
        kept == CASE l.verb \in WithModule -> <<Head(spec)>>
                  [] l.verb \in Bare -> <<"">>
                  [] OTHER -> spec
        data == IF l.data = Absent THEN Null ELSE l.data
    IN  IF l = [verb |-> IdentReply, spec |-> Absent, data |-> Absent]
          THEN [kind |-> IdentReply]
        ELSE IF \/ ~Matches(l) \/ l.data = NoJson
                \/ l.verb \notin Kinds
                \/ l.verb \in WithParam /\ Len(spec) = 1
          THEN Error
        ELSE IF l.verb \in WithData
          THEN [kind |-> l.verb, spec |-> kept, data |-> data]
        ELSE [kind |-> l.verb, spec |-> kept]

DisplaySpecAlways(m) ==  \* mutant: an empty module name is not left out
    IF m.kind \in Bare THEN Absent ELSE m.spec

DisplaySpec(m) ==
    IF \/ m.kind \in Bare
       \/ m.kind \in WithModule \cup {"ping"} /\ IsEmpty(m.spec)
      THEN Absent ELSE m.spec

\* The Display of a message.
Display(m) ==
    IF m.kind = IdentReply
      THEN [verb |-> IdentReply, spec |-> Absent, data |-> Absent]
      ELSE [verb |-> m.kind, spec |-> DisplaySpec(m),
            data |-> IF m.kind \in WithData THEN m.data ELSE Absent]

\* The kinds of message whose data follows a specifier that may be empty.
Gap(m) == m.kind \in WithToken \ {"ping"} /\ IsEmpty(m.spec)
=============================================================================
