------------------------------ MODULE Startup -------------------------------
(***************************************************************************)
(* From the configuration to a running module: the check of the names in   *)
(* load_config (core/src/config.rs), the rules the macro enforces on       *)
(* declarations and the methods it derives (derive/src/module.rs),         *)
(* ModuleBase::init_parameter and ModParam (core/src/module.rs), for data  *)
(* types with any conversions to and from JSON.                            *)
(*                                                                         *)
(* The module has the parameters p and q.  Hardware is a value for each;   *)
(* it may have q follow when p is written, and the other way round.        *)
(***************************************************************************)
EXTENDS Types, SequencesExt

CONSTANTS
    JsonOf(_, _),   \* to_json: of a data type and a value, JSON or Fail
    ValueOf(_, _),  \* from_json: of a data type and JSON, a value or Fail
    NameSets,   \* the [modules, groups] a configuration file may have
    Fold(_),    \* to_lowercase
    Menu,       \* of each parameter: [info, json, values, default, zero]
    Absent,     \* no default, no entry in the configuration
    MaxSteps    \* bound: steps of the running module

ASSUME FoldAssumption == \A s \in NameSets : \A n \in s.modules : Fold(Fold(n)) = Fold(n)

Params == {"p", "q"}
Other(x) == CHOOSE y \in Params : y # x

VARIABLES
    phase,   \* loading, refused, starting, failed or running
    names,   \* what load_config has to check: [modules, groups], those that it
             \* has seen, folded, and those still to come; forgotten when the
             \* module is created
    decl,    \* the declaration of each parameter
    config,  \* the entry for each parameter in the configuration; forgotten
             \* when the running module takes its first step
    coupled, \* a write to one parameter's hardware changes the other's
    module,  \* [cache, hw, hook, held]: the cached values, the hardware, what
             \* update_<param> got last, and what an active client was told
    todo,    \* the parameters init_params has still to initialise
    steps    \* steps of the running module

vars == <<phase, names, decl, config, coupled, module, todo, steps>>

-----------------------------------------------------------------------------
(* load_config: module names come in the order of a hash map. *)

CheckAsWritten(name) ==  \* mutant: names are not folded
    IF name \in names.groups \cup names.seen THEN "refused" ELSE "loading"

\* Groups are kept as they are written.
CheckName(name) ==
    IF Fold(name) \in names.groups \cup names.seen THEN "refused" ELSE "loading"

LoadName ==
    /\ phase = "loading"
    /\ \E name \in names.left :
         /\ phase' = CheckName(name)
         /\ names' = [names EXCEPT !.left = @ \ {name}, !.seen = @ \cup {Fold(name)}]
    /\ UNCHANGED <<decl, config, coupled, module, todo, steps>>

-----------------------------------------------------------------------------
(* The declaration of a parameter, and the order of initialisation *)

\* The checks of derive_module: hardware that is only read has no default.
Declarable(d) == ~d.swonly /\ d.readonly => d.default = Absent

Declarations(x) ==
    UNION {{d \in [info : {m.info}, swonly : BOOLEAN, readonly : BOOLEAN,
                   default : {m.default, Absent}, zero : {m.zero},
                   json : {m.json}, values : {m.values}] : Declarable(d)} : m \in Menu[x]}

ReadFirst(d) ==  \* mutant: the two groups of hardware parameters swapped
    IF d.swonly THEN 1 ELSE IF d.readonly THEN 2 ELSE 3

Group(d) == IF d.swonly THEN 1 ELSE IF ~d.readonly THEN 2 ELSE 3

\* init_params: by group, and in a group by declaration, p before q.
InitOrder == IF Group(decl["q"]) < Group(decl["p"]) THEN <<"q", "p">> ELSE <<"p", "q">>

-----------------------------------------------------------------------------
(* The derived methods, as operators from a module to [ok, json, m]. *)

Failed(m) == [ok |-> FALSE, json |-> Fail, m |-> m]

RepresentableOnly(x, v, old) ==  \* mutant: nothing sent after a value without JSON
    v # old /\ JsonOf(decl[x].info, old) # Fail

\* PartialEq: a NaN differs from everything.
IsNew(x, v, old) == v # old \/ v = NaN

\* ModParam::update and send_update.  The cache has the value even if it has no
\* JSON form.
Update(m, x, v) ==
    LET json == JsonOf(decl[x].info, v)
        kept == [m EXCEPT !.cache[x] = v]
    IN  IF json = Fail THEN Failed(kept)
        ELSE [ok |-> TRUE, json |-> json,
              m |-> IF IsNew(x, v, m.cache[x]) /\ m.held[x] # Absent
                      THEN [kept EXCEPT !.held[x] = json] ELSE kept]

\* read: from the hardware, unless the parameter is a matter of software.
Read(m, x) ==
    IF decl[x].swonly
      THEN LET json == JsonOf(decl[x].info, m.cache[x])
           IN  [ok |-> json # Fail, json |-> json, m |-> m]
    ELSE IF m.hw[x] = Fail THEN Failed(m)
    ELSE Update(m, x, m.hw[x])

\* write_<param>: the hardware takes the value, and may move the other one.
Written(m, x, v) ==
    LET w == [m EXCEPT !.hw[x] = v]
    IN  IF coupled /\ ~decl[Other(x)].swonly
          THEN [w EXCEPT !.hw[Other(x)] = Head(decl[Other(x)].values)] ELSE w

\* change: hardware is written and read back, software is updated, and the
\* module told of it if that is news.
Change(m, x, json) ==
    LET v == ValueOf(decl[x].info, json)
        u == Update(m, x, v)
    IN  IF decl[x].readonly \/ v = Fail THEN Failed(m)
        ELSE IF decl[x].swonly
          THEN IF u.ok /\ IsNew(x, v, m.cache[x])
                 THEN [u EXCEPT !.m.hook[x] = v] ELSE u
        ELSE IF m.hw[x] = Fail THEN Failed(m)
        ELSE Read(Written(m, x, v), x)

-----------------------------------------------------------------------------
(* init_parameter *)

DefaultFirst(x) ==  \* mutant: the default wins over the configuration
    IF decl[x].default # Absent \/ config[x] = Absent THEN decl[x].default
    ELSE ValueOf(decl[x].info, config[x])

\* Software: the configured value, or else the default; without either the
\* lookup in the configuration panics.
SoftwareValue(x) ==
    IF config[x] # Absent THEN ValueOf(decl[x].info, config[x]) ELSE decl[x].default

InitSoftware(m, x) ==
    LET v == SoftwareValue(x)
        set == [m EXCEPT !.cache[x] = v]
    IN  IF v \in {Fail, Absent} THEN Failed(m)
        ELSE [ok |-> TRUE, json |-> Fail,
              m |-> IF decl[x].readonly THEN set ELSE [set EXCEPT !.hook[x] = v]]

\* Hardware that is written gets the configured value or the default; without
\* either, and when it is readonly, it is read.
InitHardware(m, x) ==
    LET default == JsonOf(decl[x].info, decl[x].default)
    IN  IF decl[x].readonly THEN Read(m, x)
        ELSE IF config[x] # Absent THEN Change(m, x, config[x])
        ELSE IF decl[x].default = Absent THEN Read(m, x)
        ELSE IF default = Fail THEN Failed(m)
        ELSE Change(m, x, default)

InitParameter(m, x) ==
    IF decl[x].swonly THEN InitSoftware(m, x) ELSE InitHardware(m, x)

\* A module is about to be run.
Create ==
    /\ phase = "loading" /\ names.left = {}
    /\ phase' = "starting"
    /\ \E dp \in Declarations("p"), dq \in Declarations("q") :
         /\ decl' = [p |-> dp, q |-> dq]
         /\ \E jp \in ToSet(dp.json) \cup {Absent}, jq \in ToSet(dq.json) \cup {Absent} :
              config' = [p |-> jp, q |-> jq]
         /\ \E hp \in ToSet(dp.values) \cup {Fail}, hq \in ToSet(dq.values) :
              module' = [cache |-> [p |-> dp.zero, q |-> dq.zero],
                         hw |-> [p |-> IF dp.swonly THEN Absent ELSE hp,
                                 q |-> IF dq.swonly THEN Absent ELSE hq],
                         hook |-> [x \in Params |-> Absent],
                         held |-> [x \in Params |-> Absent]]
    /\ coupled' \in BOOLEAN
    /\ todo' = InitOrder'
    /\ names' = [modules |-> {}, groups |-> {}, seen |-> {}, left |-> {}]
    /\ UNCHANGED steps

\* One stanza of init_params; the first that fails ends it.
InitNext ==
    /\ phase = "starting" /\ todo # <<>>
    /\ LET done == InitParameter(module, Head(todo)) IN
         /\ module' = done.m
         /\ todo' = IF done.ok THEN Tail(todo) ELSE <<>>
         /\ phase' = IF ~done.ok THEN "failed"
                     ELSE IF Tail(todo) = <<>> THEN "running" ELSE "starting"
    /\ UNCHANGED <<names, decl, config, coupled, steps>>

-----------------------------------------------------------------------------
(* The running module; requests and drift are about p. *)

Step ==
    /\ phase = "running" /\ steps < MaxSteps
    /\ steps' = steps + 1
    /\ config' = [x \in Params |-> Absent]
    /\ UNCHANGED <<phase, names, decl, coupled, todo>>

\* activate_updates; a client is told nothing (Fail) of a parameter whose value
\* has no JSON form.
Activate ==
    /\ Step
    /\ module' = [module EXCEPT !.held = [x \in Params |-> JsonOf(decl[x].info, module.cache[x])]]

HandleChange ==
    /\ Step
    /\ \E json \in ToSet(decl["p"].json) : module' = Change(module, "p", json).m

HandleRead ==
    /\ Step
    /\ \E x \in Params : module' = Read(module, x).m

HardwareDrift ==
    /\ Step
    /\ ~decl["p"].swonly
    /\ \E v \in ToSet(decl["p"].values) \cup {Fail} : module' = [module EXCEPT !.hw["p"] = v]

Init ==
    /\ phase = "loading"
    /\ \E n \in NameSets :
         names = [modules |-> n.modules, groups |-> n.groups, seen |-> {}, left |-> n.modules]
    /\ decl = <<>> /\ config = <<>> /\ coupled = FALSE /\ module = <<>>
    /\ todo = <<>> /\ steps = 0

Next ==
    \/ LoadName \/ Create \/ InitNext
    \/ Activate \/ HandleChange \/ HandleRead \/ HardwareDrift

Spec == Init /\ [][Next]_vars

-----------------------------------------------------------------------------
Started == phase = "running" /\ steps = 0

\* "Check module names and groups for lowercase-uniqueness" (config.rs:74):
\* whatever the order of the names, none is refused unless it agrees with another
\* one or with a group when both are folded, and if the groups are in lower case
\* all such are found.  Module ts and group Ts, which agree, too, are accepted:
\* the code does not fold the groups (config.rs:79).
VerdictByNames ==
    LET clash == \/ \E n, k \in names.modules : n # k /\ Fold(n) = Fold(k)
                 \/ \E n \in names.modules, g \in names.groups : Fold(n) = Fold(g)
        lowerCase == \A g \in names.groups : Fold(g) = g
    IN  /\ phase = "refused" => clash
        /\ phase = "loading" /\ names.left = {} /\ lowerCase => ~clash

\* When initialisation is done, the parameters that can only be read show the
\* hardware as the written ones have left it (derive/src/module.rs:524-525: "so
\* that the initial read for the other parameters makes use of the written ones").
InitialReadsAreFresh ==
    Started => \A x \in Params : ~decl[x].swonly /\ decl[x].readonly
                                   => module.cache[x] = module.hw[x]

\* A module that starts has taken what the configuration says of the parameters
\* that can be set, from the file before the default, and has told the hardware
\* (with nothing else at work there) or the module of it; a parameter that is a
\* matter of software and not in the file has its default, so that no module
\* starts without a mandatory value (core/src/module.rs:167-228).
ConfigurationTaken ==
    Started =>
      \A x \in Params :
        LET d == decl[x]
            v == ValueOf(d.info, config[x])
        IN  /\ config[x] # Absent /\ (d.swonly \/ ~d.readonly)
                 => /\ v # Fail /\ module.cache[x] = v
                    /\ ~d.swonly /\ ~coupled => module.hw[x] = v
                    /\ d.swonly /\ ~d.readonly => module.hook[x] = v
            /\ config[x] = Absent /\ d.swonly
                 => d.default # Absent /\ module.cache[x] = d.default

\* What an active client was told last of a parameter is its cached value, if
\* that has a JSON form, although values without one come in between
\* (core/src/module.rs:104-116).
HeldIsCached ==
    phase = "running" =>
      \A x \in Params :
        LET json == JsonOf(decl[x].info, module.cache[x])
        IN  (module.held[x] # Absent /\ json # Fail) => module.held[x] = json

ShowsNull(json) ==
    \/ json = JsonNull
    \/ json[1] \in {"arr", "obj"} /\ \E i \in DOMAIN json[2] : json[2][i] = JsonNull

\* Every value that a parameter shows can be written back as it is shown, and
\* shows the same then, but for a NaN or an infinity, alone or as a member, which
\* show as null (core/src/types.rs, derive/src/typeinfo.rs:152-172).
ShownCanBeWritten ==
    phase = "running" =>
      \A x \in Params :
        LET t == decl[x].info
            json == JsonOf(t, module.cache[x])
        IN  json # Fail /\ ~ShowsNull(json)
              => ValueOf(t, json) # Fail /\ JsonOf(t, ValueOf(t, json)) = json
=============================================================================
