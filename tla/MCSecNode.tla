------------------------------ MODULE MCSecNode ------------------------------
(***************************************************************************)
(* Values for the constants of SecNode: small nodes, and menus of requests *)
(* that make the cases of each run happen.                                 *)
(***************************************************************************)
EXTENDS SecNode

CONSTANTS m1, m2, h1, h2

\* How many requests the clients make.
TwoEach == [h \in Handlers |-> 2]
OneEach == [h \in Handlers |-> 1]
TwoAndOne == [h \in Handlers |-> IF h = h1 THEN 2 ELSE 1]
Three == [h \in Handlers |-> 3]

\* Classes of the modules.
ReadWrite == [m \in Mods |-> "rw"]
Mixed == [m \in Mods |-> IF m = m1 THEN "ro" ELSE "sw"]
ReadWriteAndSoftware == [m \in Mods |-> IF m = m1 THEN "rw" ELSE "sw"]
WritableAndReadonly == [m \in Mods |-> IF m = m1 THEN "rw" ELSE "ro"]

AllZero == [m \in Mods |-> 0]
AllOne == [m \in Mods |-> 1]

Ask(kind, mod, val) == [kind |-> kind, mod |-> mod, val |-> val]
Plain(kind, mod) == Ask(kind, mod, NoVal)

\* Activations and deactivations, of one module and of all.
ActivationMenu ==
    {Plain("activate", All), Plain("activate", m1), Plain("deactivate", m1)}

\* Requests that follow modules, one or all, read and change them.
SubscriberMenu ==
    {Plain("activate", m1), Plain("activate", All), Plain("deactivate", m1),
     Plain("read", m1), Ask("change", m1, 1), Ask("do", m1, 0),
     Plain("activate", m2), Ask("change", m2, 1)}

\* Requests of all kinds, to modules that fail.
FailureMenu ==
    {Plain("activate", All), Plain("read", m1), Ask("change", m1, 0), Ask("do", m1, 0),
     Plain("change", m2)}

\* A request for every arm of the dispatcher and of a module, one to one module,
\* to all and to none that is there.
AnswerMenu ==
    {Plain("activate", All), Plain("activate", m1), Plain("activate", NoSuchMod),
     Plain("deactivate", All), Plain("deactivate", m1), Plain("deactivate", NoSuchMod),
     Plain("read", m1), Plain("read", NoSuchMod), Ask("change", m1, 0), Ask("do", m1, 0),
     Plain("describe", All), Plain("ping", All), Plain("quit", All)}

GlobalMenu == {Plain("activate", All)}
RestartMenu == {Plain("activate", m1), Plain("read", m1)}
ReadMenu == {Plain("read", m1)}
=============================================================================
