---------------------------- MODULE StartupProofs ----------------------------
(***************************************************************************)
(* Proofs about the start of a module, for any names, data types with any  *)
(* conversions, values and hardware.                                       *)
(***************************************************************************)
EXTENDS Startup, TLAPS

-----------------------------------------------------------------------------
(* The module's state                                                       *)

OfParams(f) == f = [x \in Params |-> f[x]]

Shaped(m) ==
    /\ m = [cache |-> m.cache, hw |-> m.hw, hook |-> m.hook, held |-> m.held]
    /\ OfParams(m.cache) /\ OfParams(m.hw) /\ OfParams(m.hook) /\ OfParams(m.held)

\* What the client holds of x goes with the cache.
HeldOf(m, x) ==
    LET json == JsonOf(decl[x].info, m.cache[x])
    IN  (m.held[x] # Absent /\ json # Fail) => m.held[x] = json

\* The result r of a method has changed of m at most x, and x's hardware.
Touches(r, m, x) ==
    /\ Shaped(r.m)
    /\ \A y \in Params \ {x} : /\ r.m.cache[y] = m.cache[y]
                               /\ r.m.hook[y] = m.hook[y]
                               /\ r.m.held[y] = m.held[y]
    /\ m.held[x] = Absent => r.m.held[x] = Absent
    /\ HeldOf(m, x) => HeldOf(r.m, x)

LEMMA UpdateFacts ==
    ASSUME NEW m, Shaped(m), NEW x \in Params, NEW v
    PROVE  LET r == Update(m, x, v)
           IN  /\ Touches(r, m, x)
               /\ r.ok \in BOOLEAN
               /\ r.ok => JsonOf(decl[x].info, v) # Fail
               /\ r.m.cache[x] = v
               /\ r.m.hw = m.hw
               /\ r.m.hook = m.hook
<1>. DEFINE json == JsonOf(decl[x].info, v)
            kept == [m EXCEPT !.cache[x] = v]
            told == [kept EXCEPT !.held[x] = json]
            r == Update(m, x, v)
<1>1. /\ Shaped(kept) /\ kept.cache[x] = v
      /\ kept.hw = m.hw /\ kept.hook = m.hook /\ kept.held = m.held
      /\ \A y \in Params \ {x} : kept.cache[y] = m.cache[y]
  BY DEF Shaped, OfParams
<1>. HIDE DEF kept
<1>2. /\ Shaped(told) /\ told.cache = kept.cache
      /\ told.hw = kept.hw /\ told.hook = kept.hook
      /\ \A y \in Params \ {x} : told.held[y] = kept.held[y]
      /\ told.held[x] = json
  BY <1>1 DEF Shaped, OfParams
<1>. HIDE DEF told, json
<1>3. CASE json = Fail
  <2>1. r = [ok |-> FALSE, json |-> Fail, m |-> kept]
    BY <1>3 DEF Update, Failed, kept, json
  <2>. HIDE DEF r
  <2>2. HeldOf(kept, x)
    BY <1>1, <1>3 DEF HeldOf, json
  <2>. QED  BY <1>1, <2>1, <2>2 DEF Touches, r
<1>4. CASE json # Fail /\ IsNew(x, v, m.cache[x]) /\ m.held[x] # Absent
  <2>1. r = [ok |-> TRUE, json |-> json, m |-> told]
    BY <1>4 DEF Update, kept, json, told
  <2>. HIDE DEF r
  <2>2. HeldOf(told, x)
    BY <1>1, <1>2 DEF HeldOf, json
  <2>. QED  BY <1>1, <1>2, <1>4, <2>1, <2>2 DEF Touches, r, json
<1>5. CASE json # Fail /\ ~(IsNew(x, v, m.cache[x]) /\ m.held[x] # Absent)
  <2>1. r = [ok |-> TRUE, json |-> json, m |-> kept]
    BY <1>5 DEF Update, kept, json, told
  <2>. HIDE DEF r
  <2>2. HeldOf(m, x) => HeldOf(kept, x)
    BY <1>1, <1>5 DEF HeldOf, IsNew, json
  <2>. QED  BY <1>1, <1>5, <2>1, <2>2 DEF Touches, r, json
<1>. QED  BY <1>3, <1>4, <1>5
LEMMA ReadFacts ==
    ASSUME NEW m, Shaped(m), NEW x \in Params
    PROVE  LET r == Read(m, x)
           IN  /\ Touches(r, m, x)
               /\ r.ok \in BOOLEAN
               /\ ~decl[x].swonly /\ r.ok => r.m.cache[x] = m.hw[x]
               /\ r.m.hw = m.hw
               /\ r.m.hook = m.hook
<1>. DEFINE r == Read(m, x)
            json == JsonOf(decl[x].info, m.cache[x])
<1>1. CASE decl[x].swonly
  <2>1. r = [ok |-> json # Fail, json |-> json, m |-> m]
    BY <1>1 DEF Read
  <2>. HIDE DEF r
  <2>2. r.m = m /\ r.ok \in BOOLEAN
    BY <2>1
  <2>. QED  BY <1>1, <2>2 DEF Touches, r
<1>2. CASE ~decl[x].swonly /\ m.hw[x] = Fail
  <2>1. r = [ok |-> FALSE, json |-> Fail, m |-> m]
    BY <1>2 DEF Read, Failed
  <2>. HIDE DEF r
  <2>2. r.m = m /\ r.ok = FALSE
    BY <2>1
  <2>. QED  BY <2>2 DEF Touches, r
<1>3. CASE ~decl[x].swonly /\ m.hw[x] # Fail
  <2>1. r = Update(m, x, m.hw[x])
    BY <1>3 DEF Read
  <2>. HIDE DEF r
  <2>. QED  BY <2>1, UpdateFacts DEF r
<1>. QED  BY <1>1, <1>2, <1>3

LEMMA WrittenFacts ==
    ASSUME NEW m, Shaped(m), NEW x \in Params, NEW v
    PROVE  LET w == Written(m, x, v)
           IN  /\ Shaped(w)
               /\ w.cache = m.cache /\ w.hook = m.hook /\ w.held = m.held
               /\ w.hw[x] = v
               /\ ~coupled => \A y \in Params \ {x} : w.hw[y] = m.hw[y]
<1>1. Other(x) \in Params /\ Other(x) # x
  BY DEF Other, Params
<1>. DEFINE a == [m EXCEPT !.hw[x] = v]
            b == [a EXCEPT !.hw[Other(x)] = Head(decl[Other(x)].values)]
<1>2. /\ Shaped(a) /\ a.cache = m.cache /\ a.hook = m.hook /\ a.held = m.held
      /\ a.hw[x] = v /\ \A y \in Params \ {x} : a.hw[y] = m.hw[y]
  BY DEF Shaped, OfParams
<1>. HIDE DEF a
<1>3. /\ Shaped(b) /\ b.cache = m.cache /\ b.hook = m.hook /\ b.held = m.held
      /\ b.hw[x] = v
  BY <1>1, <1>2 DEF Shaped, OfParams
<1>. HIDE DEF b
<1>4. \/ Written(m, x, v) = b /\ coupled
      \/ Written(m, x, v) = a
  BY DEF Written, a, b
<1>. QED  BY <1>2, <1>3, <1>4

LEMMA ChangeFacts ==
    ASSUME NEW m, Shaped(m), NEW x \in Params, NEW json
    PROVE  LET r == Change(m, x, json)
               v == ValueOf(decl[x].info, json)
           IN  /\ Touches(r, m, x)
               /\ r.ok \in BOOLEAN
               /\ ~coupled => \A y \in Params \ {x} : r.m.hw[y] = m.hw[y]
               /\ r.ok => /\ v # Fail /\ r.m.cache[x] = v
                          /\ ~decl[x].swonly /\ ~coupled => r.m.hw[x] = v
<1>. DEFINE r == Change(m, x, json)
            v == ValueOf(decl[x].info, json)
            u == Update(m, x, v)
            w == Written(m, x, v)
<1>1. CASE decl[x].readonly \/ v = Fail \/ (~decl[x].swonly /\ m.hw[x] = Fail)
  <2>1. r = [ok |-> FALSE, json |-> Fail, m |-> m]
    BY <1>1 DEF Change, Failed
  <2>. HIDE DEF r
  <2>2. r.m = m /\ r.ok = FALSE
    BY <2>1
  <2>. QED  BY <2>2 DEF Touches, r
<1>2. CASE ~decl[x].readonly /\ v # Fail /\ decl[x].swonly
  <2>1. /\ Touches(u, m, x) /\ u.ok \in BOOLEAN /\ u.m.hw = m.hw /\ u.m.hook = m.hook
        /\ u.ok => u.m.cache[x] = v
    BY UpdateFacts
  <2>2. r = IF u.ok /\ IsNew(x, v, m.cache[x]) THEN [u EXCEPT !.m.hook[x] = v] ELSE u
    BY <1>2 DEF Change
  <2>3. u = [ok |-> u.ok, json |-> u.json, m |-> u.m]
    BY DEF Update, Failed
  <2>. HIDE DEF u, r
  <2>. DEFINE n == [u.m EXCEPT !.hook[x] = v]
  <2>4. /\ Shaped(n) /\ n.cache = u.m.cache /\ n.hw = u.m.hw /\ n.held = u.m.held
        /\ \A y \in Params \ {x} : n.hook[y] = u.m.hook[y]
    BY <2>1 DEF Touches, Shaped, OfParams
  <2>5. [u EXCEPT !.m.hook[x] = v].m = n /\ [u EXCEPT !.m.hook[x] = v].ok = u.ok
    BY <2>3
  <2>. HIDE DEF n
  <2>6. r.ok = u.ok /\ (r.m = n \/ r.m = u.m)
    BY <2>2, <2>5
  <2>7. Touches(r, m, x)
    BY <2>1, <2>4, <2>6 DEF Touches, HeldOf
  <2>. QED  BY <1>2, <2>1, <2>4, <2>6, <2>7 DEF r
<1>3. CASE ~decl[x].readonly /\ v # Fail /\ ~decl[x].swonly /\ m.hw[x] # Fail
  <2>1. r = Read(w, x)
    BY <1>3 DEF Change
  <2>2. /\ Shaped(w)
        /\ w.cache = m.cache /\ w.hook = m.hook /\ w.held = m.held
        /\ w.hw[x] = v
        /\ ~coupled => \A y \in Params \ {x} : w.hw[y] = m.hw[y]
    BY WrittenFacts
  <2>. HIDE DEF w, r
  <2>3. /\ Touches(r, w, x)
        /\ r.ok \in BOOLEAN
        /\ r.ok => r.m.cache[x] = w.hw[x]
        /\ r.m.hw = w.hw
    BY <1>3, <2>1, <2>2, ReadFacts
  <2>4. Touches(r, m, x)
    BY <2>2, <2>3 DEF Touches, HeldOf
  <2>. QED  BY <1>3, <2>2, <2>3, <2>4 DEF r
<1>. QED  BY <1>1, <1>2, <1>3
-----------------------------------------------------------------------------
(* Initialisation *)

\* m has taken what the configuration, or else the default, says of x.
Taken(m, x) ==
    LET d == decl[x]
        v == ValueOf(d.info, config[x])
    IN  /\ config[x] # Absent /\ (d.swonly \/ ~d.readonly)
             => /\ v # Fail /\ m.cache[x] = v
                /\ ~d.swonly /\ ~coupled => m.hw[x] = v
                /\ d.swonly /\ ~d.readonly => m.hook[x] = v
        /\ config[x] = Absent /\ d.swonly
             => d.default # Absent /\ m.cache[x] = d.default

Settled(m, x) == Taken(m, x) /\ (Group(decl[x]) = 3 => m.cache[x] = m.hw[x])

NobodyTold(m) == \A x \in Params : m.held[x] = Absent

\* The result r of the initialisation of x leaves the other parameter alone, but
\* for its hardware, if x has written its own.
Initialises(r, m, x) ==
    /\ Shaped(r.m) /\ NobodyTold(r.m)
    /\ \A y \in Params \ {x} : r.m.cache[y] = m.cache[y] /\ r.m.hook[y] = m.hook[y]
    /\ ~coupled => \A y \in Params \ {x} : r.m.hw[y] = m.hw[y]
    /\ Group(decl[x]) # 2 => r.m.hw = m.hw
    /\ r.ok \in BOOLEAN
    /\ r.ok => Settled(r.m, x)

LEMMA TouchesUntold ==
    ASSUME NEW m, NEW x \in Params, NEW r, NobodyTold(m), Touches(r, m, x)
    PROVE  NobodyTold(r.m)
BY DEF NobodyTold, Touches

LEMMA InitSoftwareFacts ==
    ASSUME NEW m, Shaped(m), NobodyTold(m), NEW x \in Params, decl[x].swonly
    PROVE  Initialises(InitSoftware(m, x), m, x)
<1>. DEFINE r == InitSoftware(m, x)
            v == SoftwareValue(x)
            set == [m EXCEPT !.cache[x] = v]
            both == [set EXCEPT !.hook[x] = v]
<1>1. Group(decl[x]) = 1
  BY DEF Group
<1>2. CASE v \in {Fail, Absent}
  <2>1. r = [ok |-> FALSE, json |-> Fail, m |-> m]
    BY <1>2 DEF InitSoftware, Failed
  <2>. HIDE DEF r
  <2>2. r.m = m /\ r.ok = FALSE
    BY <2>1
  <2>. QED  BY <2>2 DEF Initialises, r
<1>3. CASE v \notin {Fail, Absent}
  <2>1. /\ Shaped(set) /\ set.cache[x] = v
        /\ set.hw = m.hw /\ set.hook = m.hook /\ set.held = m.held
        /\ \A y \in Params \ {x} : set.cache[y] = m.cache[y]
    BY DEF Shaped, OfParams
  <2>. HIDE DEF set
  <2>2. /\ Shaped(both) /\ both.cache = set.cache /\ both.hook[x] = v
        /\ both.hw = set.hw /\ both.held = set.held
        /\ \A y \in Params \ {x} : both.hook[y] = set.hook[y]
    BY <2>1 DEF Shaped, OfParams
  <2>. HIDE DEF both
  <2>3. r.ok = TRUE /\ r.m = IF decl[x].readonly THEN set ELSE both
    BY <1>3 DEF InitSoftware, set, both
  <2>. HIDE DEF r
  <2>4. v = IF config[x] # Absent THEN ValueOf(decl[x].info, config[x]) ELSE decl[x].default
    BY DEF SoftwareValue
  <2>. HIDE DEF v
  <2>5. Settled(r.m, x)
    BY <1>1, <1>3, <2>1, <2>2, <2>3, <2>4 DEF Settled, Taken
  <2>6. NobodyTold(r.m)
    BY <2>1, <2>2, <2>3 DEF NobodyTold
  <2>7. /\ Shaped(r.m) /\ r.m.hw = m.hw
        /\ \A y \in Params \ {x} : r.m.cache[y] = m.cache[y] /\ r.m.hook[y] = m.hook[y]
    BY <2>1, <2>2, <2>3
  <2>. QED  BY <2>3, <2>5, <2>6, <2>7 DEF Initialises, r
<1>. QED  BY <1>2, <1>3

LEMMA InitHardwareFacts ==
    ASSUME NEW m, Shaped(m), NobodyTold(m), NEW x \in Params, ~decl[x].swonly
    PROVE  Initialises(InitHardware(m, x), m, x)
<1>. DEFINE r == InitHardware(m, x)
<1>1. Group(decl[x]) = IF decl[x].readonly THEN 3 ELSE 2
  BY DEF Group
<1>2. CASE r = Read(m, x) /\ (decl[x].readonly \/ config[x] = Absent)
  <2>. HIDE DEF r
  <2>1. /\ Touches(r, m, x) /\ r.ok \in BOOLEAN
        /\ r.ok => r.m.cache[x] = m.hw[x]
        /\ r.m.hw = m.hw /\ r.m.hook = m.hook
    BY <1>2, ReadFacts
  <2>2. NobodyTold(r.m)
    BY <2>1, TouchesUntold
  <2>3. r.ok => Settled(r.m, x)
    BY <1>2, <2>1 DEF Settled, Taken
  <2>. QED  BY <2>1, <2>2, <2>3 DEF Initialises, Touches, r
<1>3. ASSUME NEW json, r = Change(m, x, json), ~decl[x].readonly,
             config[x] # Absent => json = config[x]
      PROVE  Initialises(r, m, x)
  <2>. HIDE DEF r
  <2>1. /\ Touches(r, m, x) /\ r.ok \in BOOLEAN
        /\ ~coupled => \A y \in Params \ {x} : r.m.hw[y] = m.hw[y]
        /\ r.ok => /\ ValueOf(decl[x].info, json) # Fail
                   /\ r.m.cache[x] = ValueOf(decl[x].info, json)
                   /\ ~coupled => r.m.hw[x] = ValueOf(decl[x].info, json)
    BY <1>3, ChangeFacts
  <2>2. NobodyTold(r.m)
    BY <2>1, TouchesUntold
  <2>3. r.ok => Settled(r.m, x)
    BY <1>1, <1>3, <2>1 DEF Settled, Taken
  <2>. QED  BY <1>1, <1>3, <2>1, <2>2, <2>3 DEF Initialises, Touches
<1>4. CASE r = Failed(m)
  <2>1. r.m = m /\ r.ok = FALSE
    BY <1>4 DEF Failed
  <2>. HIDE DEF r
  <2>. QED  BY <2>1 DEF Initialises, r
<1>. QED  BY <1>2, <1>3, <1>4 DEF InitHardware

LEMMA InitFacts ==
    ASSUME NEW m, Shaped(m), NobodyTold(m), NEW x \in Params
    PROVE  Initialises(InitParameter(m, x), m, x)
BY InitSoftwareFacts, InitHardwareFacts DEF InitParameter
-----------------------------------------------------------------------------
(* The names *)

Seen == names.modules \ names.left

\* load_config has seen the names that have gone, and none of them clashed; if
\* it has refused them, two of them clash, or one and a group.
NamesInv ==
    /\ names = [modules |-> names.modules, groups |-> names.groups,
                seen |-> names.seen, left |-> names.left]
    /\ phase \in {"loading", "refused"} => \A n \in names.modules : Fold(Fold(n)) = Fold(n)
    /\ phase = "loading" =>
         /\ names.left \subseteq names.modules
         /\ names.seen = {Fold(n) : n \in Seen}
         /\ \A n \in Seen : Fold(n) \notin names.groups
         /\ \A n, k \in Seen : Fold(n) = Fold(k) => n = k
    /\ phase = "refused" =>
         \/ \E n \in names.modules : Fold(n) \in names.groups
         \/ \E n, k \in names.modules : n # k /\ Fold(n) = Fold(k)

LEMMA NamesInit == Init => NamesInv
<1>. SUFFICES ASSUME Init PROVE NamesInv
  OBVIOUS
<1>1. PICK n \in NameSets :
        names = [modules |-> n.modules, groups |-> n.groups, seen |-> {}, left |-> n.modules]
  BY DEF Init
<1>2. \A k \in n.modules : Fold(Fold(k)) = Fold(k)
  BY FoldAssumption
<1>3. phase = "loading" /\ Seen = {}
  BY <1>1 DEF Init, Seen
<1>. QED  BY <1>1, <1>2, <1>3 DEF NamesInv

LEMMA NamesStep == NamesInv /\ [Next]_vars => NamesInv'
<1>. SUFFICES ASSUME NamesInv, [Next]_vars PROVE NamesInv'
  OBVIOUS
<1>1. CASE LoadName
  <2>1. PICK n \in names.left :
          /\ phase' = CheckName(n)
          /\ names' = [names EXCEPT !.left = @ \ {n}, !.seen = @ \cup {Fold(n)}]
    BY <1>1 DEF LoadName
  <2>2. phase = "loading"
    BY <1>1 DEF LoadName
  <2>3. /\ names' = [modules |-> names.modules, groups |-> names.groups,
                     seen |-> names.seen \cup {Fold(n)}, left |-> names.left \ {n}]
        /\ n \in names.modules /\ n \notin Seen /\ Seen' = Seen \cup {n}
    <3>1. names = [modules |-> names.modules, groups |-> names.groups,
                   seen |-> names.seen, left |-> names.left]
      BY DEF NamesInv
    <3>2. names' = [modules |-> names.modules, groups |-> names.groups,
                    seen |-> names.seen \cup {Fold(n)}, left |-> names.left \ {n}]
      BY <2>1, <3>1
    <3>3. n \in names.modules
      BY <2>1, <2>2 DEF NamesInv
    <3>. QED  BY <2>1, <3>2, <3>3 DEF Seen
  <2>4. CASE Fold(n) \in names.groups \cup names.seen
    <3>1. phase' = "refused"
      BY <2>1, <2>4 DEF CheckName
    <3>2. \/ Fold(n) \in names.groups
          \/ \E k \in Seen : Fold(k) = Fold(n)
      BY <2>2, <2>4 DEF NamesInv
    <3>3. Seen \subseteq names.modules
      BY DEF Seen
    <3>. QED  BY <2>2, <2>3, <3>1, <3>2, <3>3 DEF NamesInv
  <2>5. CASE Fold(n) \notin names.groups \cup names.seen
    <3>1. phase' = "loading"
      BY <2>1, <2>5 DEF CheckName
    <3>2. \A k \in Seen : Fold(k) # Fold(n)
      BY <2>2, <2>5 DEF NamesInv
    <3>3. \A k \in Seen' : Fold(k) \notin names'.groups
      BY <2>2, <2>3, <2>5 DEF NamesInv
    <3>4. \A j, k \in Seen' : Fold(j) = Fold(k) => j = k
      BY <2>2, <2>3, <3>2 DEF NamesInv
    <3>5. names'.seen = {Fold(k) : k \in Seen'}
      BY <2>2, <2>3 DEF NamesInv
    <3>6. names'.left \subseteq names'.modules
      BY <2>2, <2>3 DEF NamesInv
    <3>. QED  BY <2>2, <2>3, <3>1, <3>3, <3>4, <3>5, <3>6 DEF NamesInv
  <2>. QED  BY <2>4, <2>5
<1>2. CASE Create
  BY <1>2 DEF Create, NamesInv
<1>3. CASE InitNext
  <2>1. phase' \notin {"loading", "refused"} /\ names' = names
    BY <1>3 DEF InitNext
  <2>. QED  BY <2>1 DEF NamesInv
<1>4. CASE Step
  BY <1>4 DEF Step, NamesInv
<1>5. CASE UNCHANGED vars
  BY <1>5 DEF vars, NamesInv, Seen
<1>. QED  BY <1>1, <1>2, <1>3, <1>4, <1>5 DEF Next, Activate, HandleChange, HandleRead, HardwareDrift

\* Whatever the order of the names, none is refused unless it agrees with another
\* one or with a group when both are folded, and if the groups are in lower case
\* all such are found (config.rs:74-88).
THEOREM VerdictCorrect == Spec => []VerdictByNames
<1>1. NamesInv => VerdictByNames
  <2>. SUFFICES ASSUME NamesInv PROVE VerdictByNames
    OBVIOUS
  <2>1. ASSUME phase = "refused"
        PROVE  \/ \E n, k \in names.modules : n # k /\ Fold(n) = Fold(k)
               \/ \E n \in names.modules, g \in names.groups : Fold(n) = Fold(g)
    <3>1. \A n \in names.modules : Fold(n) = Fold(Fold(n))
      BY <2>1 DEF NamesInv
    <3>. QED  BY <2>1, <3>1 DEF NamesInv
  <2>2. ASSUME phase = "loading", names.left = {}, \A g \in names.groups : Fold(g) = g
        PROVE  /\ \A n, k \in names.modules : Fold(n) = Fold(k) => n = k
               /\ \A n \in names.modules, g \in names.groups : Fold(n) # Fold(g)
    <3>1. Seen = names.modules
      BY <2>2 DEF Seen
    <3>. QED  BY <2>2, <3>1 DEF NamesInv
  <2>. QED  BY <2>1, <2>2 DEF VerdictByNames
<1>. QED  BY <1>1, NamesInit, NamesStep, PTL DEF Spec
-----------------------------------------------------------------------------
(* The stages of a module *)

\* Of the two parameters a is initialised before b, and is not of a later group;
\* both are still to come, or a is settled.
Due ==
    \E a, b \in Params :
      /\ a # b /\ Group(decl[a]) <= Group(decl[b])
      /\ todo = <<a, b>> \/ (todo = <<b>> /\ Settled(module, a))

StagesInv ==
    /\ steps \in Nat
    /\ phase = "starting" => Shaped(module) /\ NobodyTold(module) /\ Due
    /\ phase = "running" => Shaped(module) /\ \A x \in Params : HeldOf(module, x)
    /\ Started => \A x \in Params : Settled(module, x)

LEMMA StagesInit == Init => StagesInv
BY DEF Init, StagesInv, Started

LEMMA CreateStages == StagesInv /\ Create => StagesInv'
<1>. SUFFICES ASSUME StagesInv, Create PROVE StagesInv'
  OBVIOUS
<1>1. phase' = "starting" /\ steps' = steps
  BY DEF Create
<1>2. Shaped(module)' /\ NobodyTold(module)'
  <2>1. PICK c, h :
          module' = [cache |-> [p |-> c.p, q |-> c.q], hw |-> [p |-> h.p, q |-> h.q],
                     hook |-> [x \in Params |-> Absent], held |-> [x \in Params |-> Absent]]
    <3>1. PICK dp \in Declarations("p"), dq \in Declarations("q") :
            \E hp \in ToSet(dp.values) \cup {Fail}, hq \in ToSet(dq.values) :
              module' = [cache |-> [p |-> dp.zero, q |-> dq.zero],
                         hw |-> [p |-> IF dp.swonly THEN Absent ELSE hp,
                                 q |-> IF dq.swonly THEN Absent ELSE hq],
                         hook |-> [x \in Params |-> Absent],
                         held |-> [x \in Params |-> Absent]]
      BY DEF Create
    <3>2. PICK hp, hq :
            module' = [cache |-> [p |-> dp.zero, q |-> dq.zero],
                       hw |-> [p |-> IF dp.swonly THEN Absent ELSE hp,
                               q |-> IF dq.swonly THEN Absent ELSE hq],
                       hook |-> [x \in Params |-> Absent],
                       held |-> [x \in Params |-> Absent]]
      BY <3>1
    <3>. WITNESS [p |-> dp.zero, q |-> dq.zero]
    <3>. WITNESS [p |-> IF dp.swonly THEN Absent ELSE hp,
                  q |-> IF dq.swonly THEN Absent ELSE hq]
    <3>. QED  BY <3>2
  <2>2. /\ OfParams([p |-> c.p, q |-> c.q]) /\ OfParams([p |-> h.p, q |-> h.q])
        /\ OfParams([x \in Params |-> Absent])
    BY DEF OfParams, Params
  <2>. QED  BY <2>1, <2>2 DEF Shaped, NobodyTold
<1>3. Due'
  <2>1. todo' = IF Group(decl["q"])' < Group(decl["p"])' THEN <<"q", "p">> ELSE <<"p", "q">>
    BY DEF Create, InitOrder
  <2>2. \A d : Group(d) \in Nat
    BY DEF Group
  <2>3. "p" # "q" /\ "p" \in Params /\ "q" \in Params
    BY DEF Params
  <2>. QED  BY <2>1, <2>2, <2>3 DEF Due
<1>. QED  BY <1>1, <1>2, <1>3 DEF StagesInv, Started

\* A parameter that is settled stays so when the other one, of its group or a
\* later one, is initialised.
LEMMA StaysSettled ==
    ASSUME NEW m, NEW a \in Params, NEW b \in Params \ {a}, NEW r, Initialises(r, m, b),
           Settled(m, a), Group(decl[a]) <= Group(decl[b])
    PROVE  Settled(r.m, a)
<1>1. Group(decl[a]) = 3 => Group(decl[b]) # 2
  BY DEF Group
<1>2. r.m.cache[a] = m.cache[a] /\ r.m.hook[a] = m.hook[a]
  BY DEF Initialises
<1>3. ~coupled => r.m.hw[a] = m.hw[a]
  BY DEF Initialises
<1>4. Group(decl[a]) = 3 => r.m.hw = m.hw
  BY <1>1 DEF Initialises
<1>. QED  BY <1>2, <1>3, <1>4 DEF Settled, Taken

LEMMA InitNextStages == StagesInv /\ InitNext => StagesInv'
<1>. SUFFICES ASSUME StagesInv, InitNext PROVE StagesInv'
  OBVIOUS
<1>. DEFINE x == Head(todo)
            done == InitParameter(module, x)
<1>1. Shaped(module) /\ NobodyTold(module)
  BY DEF StagesInv, InitNext
<1>2. PICK a \in Params, b \in Params :
        /\ a # b /\ Group(decl[a]) <= Group(decl[b])
        /\ todo = <<a, b>> \/ (todo = <<b>> /\ Settled(module, a))
  BY DEF StagesInv, InitNext, Due
<1>3. /\ module' = done.m
      /\ todo' = IF done.ok THEN Tail(todo) ELSE <<>>
      /\ phase' = IF ~done.ok THEN "failed"
                  ELSE IF Tail(todo) = <<>> THEN "running" ELSE "starting"
      /\ decl' = decl /\ config' = config /\ coupled' = coupled /\ steps' = steps
  BY DEF InitNext
<1>4. x \in Params
  BY <1>2
<1>5. Initialises(done, module, x)
  BY <1>1, <1>4, InitFacts
<1>. HIDE DEF done
<1>6. \A y : Settled(done.m, y) => Settled(module, y)'
  BY <1>3 DEF Settled, Taken
<1>7. Shaped(module)' /\ NobodyTold(module)' /\ steps' \in Nat
  BY <1>3, <1>5 DEF Initialises, StagesInv, Shaped, OfParams, NobodyTold
<1>8. CASE ~done.ok
  BY <1>3, <1>7, <1>8 DEF StagesInv, Started
<1>9. CASE done.ok /\ todo = <<a, b>>
  <2>1. x = a /\ Tail(todo) = <<b>>
    BY <1>9
  <2>2. phase' = "starting" /\ todo' = <<b>>
    BY <1>3, <1>9, <2>1
  <2>3. Settled(module, a)'
    BY <1>5, <1>6, <1>9, <2>1 DEF Initialises
  <2>4. Due'
    BY <1>2, <1>3, <2>2, <2>3 DEF Due
  <2>. QED  BY <1>7, <2>2, <2>4 DEF StagesInv, Started
<1>10. CASE done.ok /\ todo = <<b>>
  <2>1. x = b /\ Tail(todo) = <<>>
    BY <1>10
  <2>2. phase' = "running"
    BY <1>3, <1>10, <2>1
  <2>3. todo # <<a, b>>
    <3>1. Len(todo) = 1 /\ Len(<<a, b>>) = 2
      BY <1>10
    <3>. QED  BY <3>1
  <2>4. Settled(module, b)'
    BY <1>5, <1>6, <1>10, <2>1 DEF Initialises
  <2>5. Settled(done.m, a)
    BY <1>2, <1>5, <2>1, <2>3, StaysSettled
  <2>6. \A y \in Params : y = a \/ y = b
    BY <1>2 DEF Params
  <2>7. \A y \in Params : Settled(module, y)'
    BY <1>6, <2>4, <2>5, <2>6
  <2>8. \A y \in Params : HeldOf(module, y)'
    BY <1>7 DEF HeldOf, NobodyTold
  <2>. QED  BY <1>7, <2>2, <2>7, <2>8 DEF StagesInv
<1>. QED  BY <1>2, <1>8, <1>9, <1>10
\* No step of a running module counts as its start, or leaves what it held
\* behind.
LEMMA RunningStages ==
    StagesInv /\ (Activate \/ HandleChange \/ HandleRead \/ HardwareDrift) => StagesInv'
<1>. SUFFICES ASSUME StagesInv, Activate \/ HandleChange \/ HandleRead \/ HardwareDrift
              PROVE  StagesInv'
  OBVIOUS
<1>1. /\ Step /\ phase = "running" /\ phase' = "running" /\ decl' = decl
      /\ steps' = steps + 1
  BY DEF Activate, HandleChange, HandleRead, HardwareDrift, Step
<1>2. steps' \in Nat /\ ~Started'
  BY <1>1 DEF StagesInv, Started
<1>3. Shaped(module) /\ \A x \in Params : HeldOf(module, x)
  BY <1>1 DEF StagesInv
<1>4. SUFFICES Shaped(module)' /\ \A x \in Params : HeldOf(module', x)
  <2>1. \A x : HeldOf(module', x) => HeldOf(module, x)'
    BY <1>1 DEF HeldOf
  <2>. QED  BY <1>1, <1>2, <1>4, <2>1 DEF StagesInv
<1>5. CASE Activate
  <2>1. module' = [module EXCEPT !.held =
                     [x \in Params |-> JsonOf(decl[x].info, module.cache[x])]]
    BY <1>5 DEF Activate
  <2>. QED  BY <1>3, <2>1 DEF Shaped, OfParams, HeldOf
<1>6. ASSUME NEW x \in Params, NEW r, Touches(r, module, x), module' = r.m
      PROVE  Shaped(module)' /\ \A y \in Params : HeldOf(module', y)
  <2>1. Shaped(module)'
    BY <1>6 DEF Touches, Shaped, OfParams
  <2>2. \A y \in Params : HeldOf(r.m, y)
    BY <1>3, <1>6 DEF Touches, HeldOf
  <2>. QED  BY <1>6, <2>1, <2>2
<1>7. CASE HandleChange
  <2>1. PICK json : module' = Change(module, "p", json).m
    BY <1>7 DEF HandleChange
  <2>2. "p" \in Params
    BY DEF Params
  <2>3. Touches(Change(module, "p", json), module, "p")
    BY <1>3, <2>2, ChangeFacts
  <2>. QED  BY <1>6, <2>1, <2>2, <2>3
<1>8. CASE HandleRead
  <2>1. PICK x \in Params : module' = Read(module, x).m
    BY <1>8 DEF HandleRead
  <2>2. Touches(Read(module, x), module, x)
    BY <1>3, ReadFacts
  <2>. QED  BY <1>6, <2>1, <2>2
<1>9. CASE HardwareDrift
  <2>1. PICK v : module' = [module EXCEPT !.hw["p"] = v]
    BY <1>9 DEF HardwareDrift
  <2>2. Shaped(module)' /\ module'.cache = module.cache /\ module'.held = module.held
    BY <1>3, <2>1 DEF Shaped, OfParams
  <2>. QED  BY <1>3, <2>2 DEF HeldOf
<1>. QED  BY <1>5, <1>7, <1>8, <1>9

THEOREM StagesCorrect == Spec => []StagesInv
<1>1. StagesInv /\ [Next]_vars => StagesInv'
  <2>. SUFFICES ASSUME StagesInv, [Next]_vars PROVE StagesInv'
    OBVIOUS
  <2>1. CASE LoadName
    BY <2>1 DEF LoadName, CheckName, StagesInv, Started
  <2>2. CASE UNCHANGED vars
    <3>1. Started' = Started
      BY <2>2 DEF vars, Started
    <3>2. Due => Due'
      BY <2>2 DEF vars, Due, Settled, Taken
    <3>3. \A x : Settled(module, x) => Settled(module, x)'
      BY <2>2 DEF vars, Settled, Taken
    <3>4. \A x : HeldOf(module, x) => HeldOf(module, x)'
      BY <2>2 DEF vars, HeldOf
    <3>5. (Shaped(module) => Shaped(module)') /\ (NobodyTold(module) => NobodyTold(module)')
      BY <2>2 DEF vars, Shaped, OfParams, NobodyTold
    <3>. QED  BY <2>2, <3>1, <3>2, <3>3, <3>4, <3>5 DEF vars, StagesInv
  <2>. QED  BY <2>1, <2>2, CreateStages, InitNextStages, RunningStages DEF Next
<1>. QED  BY <1>1, StagesInit, PTL DEF Spec

\* Parameters that can only be read start with what the hardware has after the
\* written ones have been initialised (derive/src/module.rs:524-525).
THEOREM InitialReads == Spec => []InitialReadsAreFresh
<1>1. StagesInv => InitialReadsAreFresh
  BY DEF StagesInv, InitialReadsAreFresh, Settled, Group
<1>. QED  BY <1>1, StagesCorrect, PTL

\* A module starts with what the configuration says of the parameters that can
\* be set (core/src/module.rs:167-228).
THEOREM Configured == Spec => []ConfigurationTaken
<1>1. StagesInv => ConfigurationTaken
  BY DEF StagesInv, ConfigurationTaken, Settled, Taken
<1>. QED  BY <1>1, StagesCorrect, PTL

\* What an active client was told last of a parameter is its cached value
\* (core/src/module.rs:104-116).
THEOREM HeldFollowsCache == Spec => []HeldIsCached
<1>1. StagesInv => HeldIsCached
  BY DEF StagesInv, HeldIsCached, HeldOf
<1>. QED  BY <1>1, StagesCorrect, PTL
=============================================================================
