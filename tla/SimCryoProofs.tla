---------------------------- MODULE SimCryoProofs ----------------------------
(***************************************************************************)
(* Proofs about the simulated cryostat: its types, that linked parameters  *)
(* stay linked, that idle means arrived, and that stop stops.              *)
(***************************************************************************)
EXTENDS SimCryo, SequenceTheorems, TLAPS

-----------------------------------------------------------------------------
(* What is planned                                                          *)

\* Taking the first element of a typed queue.
LEMMA TakeType ==
    ASSUME NEW S, NEW s \in Seq(S), s # <<>>
    PROVE  Head(s) \in S /\ Tail(s) \in Seq(S)
BY HeadTailProperties

\* No element of queue s is in the set G.
None(s, G) == \A i \in 1 .. Len(s) : s[i] \notin G

LEMMA NoneOfEmpty ==
    ASSUME NEW G
    PROVE  None(<<>>, G)
BY DEF None

LEMMA NoneOfTail ==
    ASSUME NEW S, NEW s \in Seq(S), s # <<>>, NEW G, None(s, G)
    PROVE  Head(s) \notin G /\ None(Tail(s), G)
<1>1. /\ Len(s) \in Nat \ {0}
      /\ Len(Tail(s)) = Len(s) - 1
      /\ \A i \in 1 .. Len(Tail(s)) : Tail(s)[i] = s[i + 1]
      /\ Head(s) = s[1]
  BY HeadTailProperties, EmptySeq, LenProperties
<1>2. 1 \in 1 .. Len(s) /\ \A i \in 1 .. Len(Tail(s)) : i + 1 \in 1 .. Len(s)
  BY <1>1
<1>. QED  BY <1>1, <1>2 DEF None

LEMMA HeadNone ==
    ASSUME NEW S, NEW s \in Seq(S), s # <<>>, NEW G, Head(s) \notin G, None(Tail(s), G)
    PROVE  None(s, G)
<1>1. /\ Len(s) \in Nat \ {0}
      /\ Len(Tail(s)) = Len(s) - 1
      /\ \A i \in 1 .. Len(Tail(s)) : Tail(s)[i] = s[i + 1]
      /\ Head(s) = s[1]
  BY HeadTailProperties, EmptySeq, LenProperties
<1>2. ASSUME NEW i \in 1 .. Len(s), i # 1
      PROVE  s[i] \notin G
  <2>1. i - 1 \in 1 .. Len(Tail(s)) /\ (i - 1) + 1 = i
    BY <1>1, <1>2
  <2>2. Tail(s)[i - 1] = s[i]
    BY <1>1, <2>1
  <2>. QED  BY <2>1, <2>2 DEF None
<1>. QED  BY <1>1, <1>2 DEF None

-----------------------------------------------------------------------------
(* Steps of the simulation                                                  *)

LEMMA MaxOfTwo ==
    ASSUME NEW a \in Int, NEW b \in Int
    PROVE  Max({a, b}) = IF a >= b THEN a ELSE b
BY DEF Max

LEMMA MinOfTwo ==
    ASSUME NEW a \in Int, NEW b \in Int
    PROVE  Min({a, b}) = IF a <= b THEN a ELSE b
BY DEF Min

\* clamp (simcryo.rs): at most d, in the direction of v.
LEMMA ClampBounds ==
    ASSUME NEW v \in Int, NEW d \in Nat
    PROVE  ClampTo(v, - d, d) = IF v > d THEN d ELSE IF v < - d THEN - d ELSE v
<1>1. Max({- d, d}) = d /\ Min({- d, d}) = - d
  BY MaxOfTwo, MinOfTwo
<1>2. PICK w \in Int : w = Min({v, d}) /\ w = IF v <= d THEN v ELSE d
  BY MinOfTwo
<1>3. Max({w, - d}) = IF w >= - d THEN w ELSE - d
  BY MaxOfTwo
<1>. QED  BY <1>1, <1>2, <1>3 DEF ClampTo

\* A step of the simulation does not pass the target, and one that begins there
\* ends there.
LEMMA SimStepEffect ==
    ASSUME TypeOK, SimStep
    PROVE  /\ vars' \in StateVars
           /\ vars'.target = vars.target /\ vars'.gain = vars.gain /\ vars'.ramp = vars.ramp
           /\ vars.setpoint = vars.target => vars'.setpoint = vars.setpoint
           /\ vars'.ramping = (vars'.setpoint # vars'.target)
<1>. DEFINE s == vars.setpoint
            t == vars.target
            next == s + ClampTo(t - s, - MaxDelta, MaxDelta)
<1>1. vars \in StateVars /\ s \in Nat /\ t \in Nat
  BY DEF TypeOK, StateVars
<1>2. PICK d \in Nat : d = MaxDelta
  <2>1. vars.ramp \in Nat
    BY <1>1, SimCryoAssumption DEF SimCryoAssumption, StateVars
  <2>2. MaxDelta \in Nat
    BY <2>1 DEF MaxDelta
  <2>. QED  BY <2>2
<1>3. ClampTo(t - s, - d, d)
        = IF t - s > d THEN d ELSE IF t - s < - d THEN - d ELSE t - s
  BY <1>1, ClampBounds
<1>4. next \in Nat /\ (s = t => next = s)
  BY <1>1, <1>2, <1>3
<1>5. vars' = [vars EXCEPT !.setpoint = next, !.ramping = next # vars.target]
  BY DEF SimStep
<1>. HIDE DEF next
<1>. QED  BY <1>1, <1>4, <1>5 DEF StateVars


-----------------------------------------------------------------------------
(* Types                                                                    *)

\* The values of a parameter.
Domain(x) ==
    CASE x = "status" -> {"busy", "idle"}
      [] x \in Coefficients -> Gains
      [] x = "pid" -> [Coefficients -> Gains]
      [] x = "ramp" -> Ramps
      [] OTHER -> Nat

LEMMA ActualInDomain ==
    ASSUME NEW v \in StateVars, NEW x \in Params
    PROVE  Actual(x, v) \in Domain(x)
<1>1. CASE x \in {"status", "p", "i", "pid"}
  BY <1>1 DEF Actual, Domain, Coefficients, StateVars
<1>2. CASE x \in {"target", "setpoint", "ramp"}
  BY <1>2 DEF Actual, Domain, Coefficients, StateVars
<1>. QED  BY <1>1, <1>2 DEF Params

\* What the reads of a plan are: each plan is a sequence of parameters.
LEMMA PlanTypes ==
    /\ <<>> \in Seq(Params)
    /\ \A x \in Params : <<x>> \in Seq(Params)
    /\ <<"pid", "p">> \in Seq(Params) /\ <<"pid", "i">> \in Seq(Params)
    /\ <<"p", "i", "pid">> \in Seq(Params) /\ <<"p", "i">> \in Seq(Params)
    /\ BusyPolled \in Seq(Params)
BY DEF Params, BusyPolled

\* What polls read.
LEMMA PollReads ==
    ASSUME PollNormal \/ PollBusy
    PROVE  \E reads \in {<<"p", "i">>, BusyPolled, BusyPolled \o <<"p", "i">>} : Poll(reads)
<1>1. CASE PollBusy
  BY <1>1 DEF PollBusy
<1>2. CASE PollNormal
  <2>1. PICK others \in {<<>>, <<"p", "i">>} :
          Poll((IF cache.status # "busy" THEN BusyPolled ELSE <<>>) \o others)
    BY <1>2 DEF PollNormal
  <2>2. /\ BusyPolled \o <<>> = BusyPolled /\ <<>> \o <<"p", "i">> = <<"p", "i">>
        /\ <<>> \o <<>> = <<>>
    BY PlanTypes, ConcatEmptySeq
  <2>3. ~Poll(<<>>)
    BY DEF Poll
  <2>. QED  BY <2>1, <2>2, <2>3
<1>. QED  BY <1>1, <1>2

\* What a request or a poll leaves to be read.
LEMMA PlanKept ==
    ASSUME plan \in Seq(Params), ModuleStep, ~ReadNext
    PROVE  plan' \in Seq(Params)
<1>1. CASE PollNormal \/ PollBusy
  <2>1. BusyPolled \o <<"p", "i">> \in Seq(Params)
    BY PlanTypes, ConcatProperties
  <2>. QED  BY <1>1, <2>1, PlanTypes, PollReads DEF Poll
<1>2. CASE ReadParam
  BY <1>2, PlanTypes DEF ReadParam, Then
<1>3. CASE ChangeTarget \/ ChangeRamp
  <2>1. "target" \in Params /\ "ramp" \in Params
    BY DEF Params
  <2>. QED  BY <1>3, <2>1, PlanTypes DEF ChangeTarget, ChangeRamp, Then
<1>4. CASE ChangeCoefficient \/ ChangePid
  BY <1>4, PlanTypes DEF ChangeCoefficient, ChangePid, Then, Coefficients
<1>5. CASE Stop
  BY <1>5 DEF Stop
<1>. QED  BY <1>1, <1>2, <1>3, <1>4, <1>5 DEF ModuleStep

\* What the module thread writes to the shared state.
LEMMA VarsKept ==
    ASSUME TypeOK, ModuleStep
    PROVE  vars' \in StateVars
<1>0. vars \in StateVars
  BY DEF TypeOK
<1>1. CASE ReadParam \/ PollNormal \/ PollBusy \/ ReadNext
  <2>1. vars' = vars
    BY <1>1, PollReads DEF ReadParam, Poll, ReadNext
  <2>. QED  BY <1>0, <2>1
<1>2. CASE ChangeTarget \/ ChangeRamp \/ Stop
  BY <1>0, <1>2, SimCryoAssumption
  DEF SimCryoAssumption, ChangeTarget, ChangeRamp, Stop, StateVars
<1>3. CASE ChangeCoefficient
  BY <1>0, <1>3 DEF ChangeCoefficient, StateVars
<1>4. CASE ChangePid
  BY <1>0, <1>4 DEF ChangePid, StateVars
<1>. QED  BY <1>1, <1>2, <1>3, <1>4 DEF ModuleStep

LEMMA TypeKept ==
    ASSUME TypeOK, [Next]_cryoVars
    PROVE  TypeOK'
<1>0. /\ DOMAIN cache = Params /\ \A x \in Params : cache[x] \in Domain(x)
      /\ plan \in Seq(Params) /\ requests \in 0 .. MaxRequests
      /\ MaxRequests \in Nat
  BY SimCryoAssumption DEF SimCryoAssumption, TypeOK, Domain
<1>1. vars' \in StateVars
  BY SimStepEffect, VarsKept DEF Next, cryoVars, TypeOK
<1>2. /\ DOMAIN cache' = Params /\ \A x \in Params : cache'[x] \in Domain(x)
      /\ plan' \in Seq(Params)
  <2>1. CASE ReadNext
    <3>1. PICK y \in Params : y = Head(plan) /\ Tail(plan) \in Seq(Params)
      BY <1>0, <2>1, TakeType DEF ReadNext
    <3>2. Actual(y, vars) \in Domain(y)
      BY ActualInDomain DEF TypeOK
    <3>3. cache' = [cache EXCEPT ![y] = Actual(y, vars)] /\ plan' \in Seq(Params)
      BY <2>1, <3>1 DEF ReadNext
    <3>. QED  BY <1>0, <3>1, <3>2, <3>3
  <2>2. CASE ~ReadNext
    <3>1. cache' = cache
      BY <2>2, PollReads
      DEF Next, ModuleStep, SimStep, cryoVars, ReadParam, ChangeTarget, ChangeRamp,
          ChangeCoefficient, ChangePid, Stop, Poll
    <3>2. plan' \in Seq(Params)
      BY <1>0, <2>2, PlanKept DEF Next, SimStep, cryoVars
    <3>. QED  BY <1>0, <3>1, <3>2
  <2>. QED  BY <2>1, <2>2
<1>3. /\ requests' \in 0 .. MaxRequests
      /\ progress' \in {"set", "taken", "polling", "polled"} /\ halted' \in BOOLEAN
  <2>1. progress \in {"set", "taken", "polling", "polled"} /\ halted \in BOOLEAN
    BY DEF TypeOK
  <2>2. requests' = requests \/ (requests < MaxRequests /\ requests' = requests + 1)
    BY PollReads
    DEF Next, ModuleStep, SimStep, cryoVars, ReadParam, ChangeTarget, ChangeRamp,
        ChangeCoefficient, ChangePid, Stop, Poll, ReadNext, Request
  <2>3. progress' \in {progress, "set", "taken", "polling", "polled"}
    BY PollReads
    DEF Next, ModuleStep, SimStep, cryoVars, ReadParam, ChangeTarget, ChangeRamp,
        ChangeCoefficient, ChangePid, Stop, Poll, ReadNext, Then
  <2>4. halted' \in {halted, TRUE, FALSE}
    BY PollReads
    DEF Next, ModuleStep, SimStep, cryoVars, ReadParam, ChangeTarget, ChangeRamp,
        ChangeCoefficient, ChangePid, Stop, Poll, ReadNext
  <2>5. requests' \in 0 .. MaxRequests
    BY <1>0, <2>2
  <2>6. halted' \in BOOLEAN
    BY <2>1, <2>4, Zenon
  <2>. QED  BY <2>1, <2>3, <2>5, <2>6
<1>. QED  BY <1>1, <1>2, <1>3 DEF TypeOK, Domain

\* Every variable holds a value of its type (simcryo.rs:36-53, 227-268): no
\* step of the simulation leaves the range of the setpoint.
THEOREM CryoTypeCorrect == Spec => []TypeOK
<1>1. Init => TypeOK
  <2>. SUFFICES ASSUME Init
                PROVE  TypeOK
    OBVIOUS
  <2>1. vars \in StateVars
    BY SimCryoAssumption DEF SimCryoAssumption, Init, StateVars
  <2>2. /\ DOMAIN cache = Params /\ \A x \in Params : cache[x] \in Domain(x)
    BY <2>1, ActualInDomain DEF Init
  <2>3. requests \in 0 .. MaxRequests
    BY SimCryoAssumption DEF SimCryoAssumption, Init
  <2>. QED  BY <2>1, <2>2, <2>3, PlanTypes DEF Init, TypeOK, Domain
<1>2. TypeOK /\ [Next]_cryoVars => TypeOK'
  BY TypeKept
<1>. QED  BY <1>1, <1>2, PTL DEF Spec

-----------------------------------------------------------------------------
(* Linked parameters                                                        *)

Linked == {"p", "i", "pid"}

\* What is not about to be read is what the simulation uses.
LinkedInv ==
    \A x \in Linked :
      None(plan, {x}) => cache[x] = Actual(x, vars)

\* What a sequence of at most three reads holds.
LEMMA FewReads ==
    ASSUME NEW x, NEW y, NEW z
    PROVE  /\ None(<<x>>, {z}) => x # z
           /\ None(<<x, y>>, {z}) => x # z /\ y # z
BY DEF None

LEMMA ThreeReads ==
    ASSUME NEW x, NEW y, NEW z, NEW w, None(<<x, y, z>>, {w})
    PROVE  w \notin {x, y, z}
<1>. DEFINE s == <<x, y, z>>
<1>1. Len(s) = 3 /\ s[1] = x /\ s[2] = y /\ s[3] = z
  OBVIOUS
<1>2. None(s, {w})
  OBVIOUS
<1>. HIDE DEF s
<1>. QED  BY <1>1, <1>2 DEF None

LEMMA LinkedKept ==
    ASSUME TypeOK, LinkedInv, [Next]_cryoVars
    PROVE  LinkedInv'
<1>. SUFFICES ASSUME NEW x \in Linked, None(plan', {x})
              PROVE  cache'[x] = Actual(x, vars')
  BY DEF LinkedInv
<1>0. /\ DOMAIN cache = Params /\ x \in Params /\ plan \in Seq(Params)
      /\ vars \in StateVars
  BY DEF TypeOK, Linked, Params
<1>1. ASSUME vars'.gain = vars.gain, cache' = cache, None(plan, {x})
      PROVE  cache'[x] = Actual(x, vars')
  BY <1>1 DEF LinkedInv, Linked, Actual, Coefficients
<1>2. CASE SimStep
  BY <1>1, <1>2, SimStepEffect DEF SimStep
<1>3. CASE ReadNext
  <2>1. PICK y \in Params :
          /\ y = Head(plan) /\ cache' = [cache EXCEPT ![y] = Actual(y, vars)]
          /\ vars' = vars /\ plan # <<>> /\ plan' = Tail(plan)
    BY <1>0, <1>3, TakeType DEF ReadNext
  <2>2. CASE x = y
    BY <1>0, <2>1, <2>2
  <2>3. CASE x # y
    <3>1. None(plan, {x})
      BY <1>0, <2>1, <2>3, HeadNone
    <3>. QED  BY <1>0, <2>1, <2>3, <3>1 DEF LinkedInv
  <2>. QED  BY <2>2, <2>3
<1>4. CASE ~(SimStep \/ ReadNext \/ UNCHANGED cryoVars)
  <2>1. cache' = cache /\ plan = <<>>
    BY <1>4, PollReads
    DEF Next, ModuleStep, ReadParam, ChangeTarget, ChangeRamp,
        ChangeCoefficient, ChangePid, Stop, Poll, Request
  <2>2. None(plan, {x})
    BY <2>1, NoneOfEmpty
  <2>3. CASE ReadParam \/ PollNormal \/ PollBusy
    BY <1>1, <2>1, <2>2, <2>3, PollReads DEF ReadParam, Poll
  <2>4. CASE ChangeTarget \/ ChangeRamp \/ Stop
    BY <1>0, <1>1, <2>1, <2>2, <2>4 DEF ChangeTarget, ChangeRamp, Stop, StateVars
  <2>5. CASE ChangeCoefficient
    <3>1. PICK c \in Coefficients, g \in Gains :
            vars' = [vars EXCEPT !.gain[c] = g] /\ plan' = <<"pid", c>>
      BY <2>5 DEF ChangeCoefficient, Then
    <3>2. x # "pid" /\ x # c /\ x \in Coefficients
      BY <3>1, FewReads DEF Linked, Coefficients
    <3>3. vars'.gain[x] = vars.gain[x]
      BY <1>0, <3>1, <3>2 DEF StateVars
    <3>. QED  BY <2>1, <2>2, <3>2, <3>3 DEF LinkedInv, Actual, Coefficients
  <2>6. CASE ChangePid
    <3>1. None(<<"p", "i", "pid">>, {x})
      BY <2>6 DEF ChangePid, Then
    <3>. QED  BY <3>1, ThreeReads DEF Linked
  <2>. QED  BY <1>4, <2>3, <2>4, <2>5, <2>6 DEF Next, ModuleStep
<1>5. CASE UNCHANGED cryoVars
  BY <1>1, <1>5 DEF cryoVars
<1>. QED  BY <1>2, <1>3, <1>4, <1>5

\* The parameters p, i and pid show the same coefficients, those in use, after
\* every request (simcryo.rs:324-354): what a write changes is read again, and
\* whatever is not about to be read was right.
THEOREM LinkedCorrect == Spec => []LinkedCaches
<1>1. Init => LinkedInv
  BY DEF Init, LinkedInv, Linked, Params
<1>2. TypeOK /\ LinkedInv /\ [Next]_cryoVars => LinkedInv'
  BY LinkedKept
<1>3. LinkedInv => LinkedCaches
  <2>. SUFFICES ASSUME LinkedInv, plan = <<>>
                PROVE  /\ cache.pid = vars.gain
                       /\ \A c \in Coefficients : cache[c] = cache.pid[c]
    BY DEF LinkedCaches
  <2>1. \A x \in Linked : cache[x] = Actual(x, vars)
    BY NoneOfEmpty DEF LinkedInv
  <2>. QED  BY <2>1 DEF Linked, Actual, Coefficients
<1>. QED  BY <1>1, <1>2, <1>3, CryoTypeCorrect, PTL DEF Spec

-----------------------------------------------------------------------------
(* A poll that finds the status idle                                        *)

\* Plans that are about to read the status.
Unread == {BusyPolled, BusyPolled \o <<"p", "i">>}

\* What a poll has collected is of the same time when it has found idle: the
\* setpoint was at the target, and stays there.
IdleInv ==
    /\ progress # "set" => vars.ramping = (vars.setpoint # vars.target)
    /\ progress = "polling" => (None(plan, {"status"}) \/ plan \in Unread)
    /\ progress = "polled" => \A x \in {"status", "target", "setpoint"} : None(plan, {x})
    /\ (/\ progress \in {"polling", "polled"}
        /\ None(plan, {"status"})
        /\ cache.status = "idle")
       => /\ vars.setpoint = vars.target
          /\ \A x \in {"target", "setpoint"} : None(plan, {x}) => cache[x] = vars[x]

\* The status comes first and only once, the target and the setpoint after it.
LEMMA UnreadShape ==
    ASSUME NEW u \in Unread
    PROVE  /\ u \in Seq(Params) /\ u # <<>> /\ Head(u) = "status"
           /\ None(Tail(u), {"status"})
           /\ ~None(u, {"status"})
           /\ ~None(Tail(u), {"target"}) /\ ~None(Tail(u), {"setpoint"})
<1>. DEFINE a == BusyPolled
            b == <<"p", "i">>
<1>1. /\ a \in Seq(Params) /\ Len(a) = 4
      /\ a[1] = "status" /\ a[2] = "target" /\ a[3] = "setpoint" /\ a[4] = "ramp"
      /\ b \in Seq(Params) /\ Len(b) = 2 /\ b[1] = "p" /\ b[2] = "i"
  BY DEF BusyPolled, Params
<1>2. u = a \/ u = a \o b
  BY DEF Unread
<1>. HIDE DEF a, b
<1>3. /\ a \o b \in Seq(Params) /\ Len(a \o b) = 6
      /\ \A i \in 1 .. 4 : (a \o b)[i] = a[i]
      /\ (a \o b)[5] = "p" /\ (a \o b)[6] = "i"
  <2>1. /\ a \o b \in Seq(Params) /\ Len(a \o b) = Len(a) + Len(b)
        /\ \A i \in 1 .. Len(a) + Len(b) :
             (a \o b)[i] = IF i <= Len(a) THEN a[i] ELSE b[i - Len(a)]
    BY <1>1, ConcatProperties
  <2>2. 5 - Len(a) = 1 /\ 6 - Len(a) = 2
    BY <1>1
  <2>. QED  BY <1>1, <2>1, <2>2
<1>4. PICK n \in {4, 6} :
        /\ u \in Seq(Params) /\ Len(u) = n
        /\ u[1] = "status" /\ u[2] = "target" /\ u[3] = "setpoint" /\ u[4] = "ramp"
        /\ n = 6 => u[5] = "p" /\ u[6] = "i"
  <2>1. CASE u = a
    BY <1>1, <2>1
  <2>2. CASE u = a \o b
    BY <1>1, <1>3, <2>2
  <2>. QED  BY <1>2, <2>1, <2>2
<1>5. u # <<>>
  <2>1. Len(<<>>) = 0
    OBVIOUS
  <2>. QED  BY <1>4, <2>1
<1>6. /\ Head(u) = "status" /\ Len(Tail(u)) = n - 1
      /\ \A i \in 1 .. n - 1 : Tail(u)[i] = u[i + 1]
  BY <1>4, <1>5, HeadTailProperties
<1>7. \A i \in 1 .. n - 1 : u[i + 1] # "status"
  BY <1>4
<1>8. Tail(u)[1] = "target" /\ Tail(u)[2] = "setpoint"
  BY <1>4, <1>6
<1>9. None(Tail(u), {"status"})
  BY <1>6, <1>7 DEF None
<1>10. ~None(u, {"status"})
  BY <1>4 DEF None
<1>11. 1 \in 1 .. Len(Tail(u)) /\ 2 \in 1 .. Len(Tail(u))
  BY <1>6
<1>12. ~None(Tail(u), {"target"}) /\ ~None(Tail(u), {"setpoint"})
  BY <1>8, <1>11 DEF None
<1>. QED  BY <1>4, <1>5, <1>6, <1>9, <1>10, <1>12

\* A read of the plan.
LEMMA IdleAtRead ==
    ASSUME TypeOK, IdleInv, ReadNext
    PROVE  IdleInv'
<1>0. DOMAIN cache = Params /\ plan \in Seq(Params) /\ {"status", "target", "setpoint"} \subseteq Params
  BY DEF TypeOK, Params
<1>1. PICK y \in Params :
        /\ y = Head(plan) /\ cache' = [cache EXCEPT ![y] = Actual(y, vars)]
        /\ vars' = vars /\ plan # <<>> /\ plan' = Tail(plan)
        /\ progress' = progress \/ (progress = "polling" /\ progress' = "polled" /\ plan' = <<>>)
  BY <1>0, TakeType DEF ReadNext
<1>2. ASSUME progress \in {"polling", "polled"}, None(plan, {"status"})
      PROVE  /\ None(plan', {"status"})
             /\ cache'.status = "idle" =>
                  /\ vars'.setpoint = vars'.target
                  /\ \A x \in {"target", "setpoint"} :
                       None(plan', {x}) => cache'[x] = vars'[x]
  <2>1. y # "status" /\ None(plan', {"status"})
    BY <1>0, <1>1, <1>2, NoneOfTail
  <2>2. cache'.status = cache.status
    BY <1>0, <1>1, <2>1
  <2>3. ASSUME cache.status = "idle", NEW x \in {"target", "setpoint"}, None(plan', {x})
        PROVE  cache'[x] = vars'[x]
    <3>1. CASE x = y
      BY <1>0, <1>1, <3>1 DEF Actual, Coefficients
    <3>2. CASE x # y
      <4>1. None(plan, {x})
        BY <1>0, <1>1, <2>3, <3>2, HeadNone
      <4>. QED  BY <1>0, <1>1, <1>2, <2>3, <3>2, <4>1 DEF IdleInv
    <3>. QED  BY <3>1, <3>2
  <2>. QED  BY <1>1, <1>2, <2>1, <2>2, <2>3 DEF IdleInv
<1>3. ASSUME progress = "polling", plan \in Unread
      PROVE  /\ None(plan', {"status"}) /\ plan' # <<>>
             /\ cache'.status = "idle" => vars'.setpoint = vars'.target
             /\ \A x \in {"target", "setpoint"} : ~None(plan', {x})
  <2>1. /\ y = "status" /\ None(plan', {"status"})
        /\ ~None(plan', {"target"}) /\ ~None(plan', {"setpoint"})
    BY <1>1, <1>3, UnreadShape
  <2>2. plan' # <<>>
    BY <2>1, NoneOfEmpty
  <2>3. cache'.status = IF vars.ramping THEN "busy" ELSE "idle"
    <3>1. Actual("status", vars) = IF vars.ramping THEN "busy" ELSE "idle"
      BY DEF Actual, Coefficients
    <3>2. cache'.status = Actual("status", vars)
      BY <1>0, <1>1, <2>1
    <3>. QED  BY <3>1, <3>2
  <2>4. vars.ramping = (vars.setpoint # vars.target)
    BY <1>3 DEF IdleInv
  <2>5. cache'.status = "idle" => vars.setpoint = vars.target
    BY <2>3, <2>4
  <2>. QED  BY <1>1, <2>1, <2>2, <2>5
<1>4. CASE progress = "polling" /\ None(plan, {"status"})
  <2>1. progress' = "polled" => \A x \in {"status", "target", "setpoint"} : None(plan', {x})
    BY <1>1, <1>4, NoneOfEmpty
  <2>. QED  BY <1>1, <1>2, <1>4, <2>1 DEF IdleInv
<1>5. CASE progress = "polling" /\ plan \in Unread
  BY <1>1, <1>3, <1>5 DEF IdleInv
<1>6. CASE progress = "polled"
  <2>1. \A x \in {"status", "target", "setpoint"} : None(plan, {x}) /\ None(plan', {x})
    BY <1>0, <1>1, <1>6, NoneOfTail DEF IdleInv
  <2>. QED  BY <1>1, <1>2, <1>6, <2>1 DEF IdleInv
<1>7. CASE progress \notin {"polling", "polled"}
  BY <1>1, <1>7 DEF IdleInv
<1>. QED  BY <1>4, <1>5, <1>6, <1>7 DEF IdleInv

LEMMA IdleAtPoll ==
    ASSUME TypeOK, IdleInv, NEW reads \in {<<"p", "i">>} \cup Unread, Poll(reads)
    PROVE  IdleInv'
<1>1. /\ plan = <<>> /\ plan' = reads /\ UNCHANGED <<vars, cache>>
      /\ progress' = IF progress # "set" /\ \E i \in DOMAIN reads : reads[i] = "status"
                       THEN "polling" ELSE progress
  BY DEF Poll
<1>2. CASE reads = <<"p", "i">>
  <2>. DEFINE b == <<"p", "i">>
  <2>1. b \in Seq(Params) /\ Len(b) = 2 /\ b[1] = "p" /\ b[2] = "i" /\ DOMAIN b = 1 .. 2
    BY DEF Params
  <2>2. b = reads
    BY <1>2
  <2>. HIDE DEF b
  <2>3. ASSUME NEW x \in {"status", "target", "setpoint"}
        PROVE  None(plan, {x}) /\ None(plan', {x})
    <3>1. \A i \in 1 .. 2 : b[i] = "p" \/ b[i] = "i"
      BY <2>1
    <3>2. None(b, {x})
      BY <2>1, <3>1 DEF None
    <3>. QED  BY <1>1, <2>2, <3>2, NoneOfEmpty
  <2>4. progress' = progress
    BY <1>1, <2>1, <2>2
  <2>. QED  BY <1>1, <2>3, <2>4 DEF IdleInv
<1>3. CASE reads \in Unread
  <2>1. ~None(plan', {"status"}) /\ plan' \in Unread /\ reads \in Seq(Params)
    BY <1>1, <1>3, UnreadShape
  <2>2. \E i \in DOMAIN reads : reads[i] = "status"
    BY <1>1, <2>1 DEF None
  <2>3. progress' = IF progress # "set" THEN "polling" ELSE "set"
    BY <1>1, <2>2
  <2>. QED  BY <1>1, <2>1, <2>3 DEF IdleInv
<1>. QED  BY <1>2, <1>3

LEMMA IdleKept ==
    ASSUME TypeOK, IdleInv, [Next]_cryoVars
    PROVE  IdleInv'
<1>0. vars \in StateVars
  BY DEF TypeOK
<1>1. CASE SimStep
  <2>1. /\ vars'.target = vars.target
        /\ vars.setpoint = vars.target => vars'.setpoint = vars.setpoint
        /\ vars'.ramping = (vars'.setpoint # vars'.target)
    BY <1>1, SimStepEffect
  <2>2. /\ UNCHANGED <<cache, plan>>
        /\ progress' = IF progress = "set" THEN "taken" ELSE progress
    BY <1>1 DEF SimStep
  <2>3. \/ progress' = "taken"
        \/ progress' = progress
    BY <2>2
  <2>4. (progress' = progress /\ cache.status = "idle" /\ None(plan, {"status"})
          /\ progress \in {"polling", "polled"})
          => vars'.target = vars.target /\ vars'.setpoint = vars.setpoint
    BY <2>1 DEF IdleInv
  <2>. QED  BY <2>1, <2>2, <2>3, <2>4 DEF IdleInv
<1>2. CASE ReadNext
  BY <1>2, IdleAtRead
<1>3. CASE PollNormal \/ PollBusy
  BY <1>3, PollReads, IdleAtPoll DEF Unread
<1>4. CASE ChangeTarget \/ Stop
  <2>1. progress' = "set"
    BY <1>4 DEF ChangeTarget, Stop
  <2>. QED  BY <2>1 DEF IdleInv
<1>5. CASE ReadParam \/ ChangeRamp \/ ChangeCoefficient \/ ChangePid
  <2>1. /\ progress' = IF progress \in {"polling", "polled"} THEN "taken" ELSE progress
        /\ vars'.target = vars.target /\ vars'.setpoint = vars.setpoint
        /\ vars'.ramping = vars.ramping
    BY <1>0, <1>5
    DEF ReadParam, ChangeRamp, ChangeCoefficient, ChangePid, Then, StateVars
  <2>2. progress' \notin {"polling", "polled"} /\ (progress' # "set" => progress # "set")
    BY <2>1
  <2>. QED  BY <2>1, <2>2 DEF IdleInv
<1>6. CASE UNCHANGED cryoVars
  BY <1>6 DEF cryoVars, IdleInv
<1>. QED  BY <1>1, <1>2, <1>3, <1>4, <1>5, <1>6 DEF Next, ModuleStep

LEMMA IdleCorrect == Spec => []IdleInv
<1>1. Init => IdleInv
  BY DEF Init, IdleInv
<1>2. TypeOK /\ IdleInv /\ [Next]_cryoVars => IdleInv'
  BY IdleKept
<1>. QED  BY <1>1, <1>2, CryoTypeCorrect, PTL DEF Spec

\* Once the simulator has seen a new target, a poll that finds the status idle
\* also finds the setpoint at the target (simcryo.rs:158-173, 228-242),
\* wherever in the poll the simulator's steps fall.
THEOREM IdleMeansThere == Spec => []IdleIsThere
<1>1. IdleInv => IdleIsThere
  BY DEF IdleInv, IdleIsThere
<1>. QED  BY <1>1, IdleCorrect, PTL

-----------------------------------------------------------------------------
(* Stopping                                                                 *)

HaltedInv == halted => vars.target = vars.setpoint

\* After the command stop (simcryo.rs:356-360) the setpoint stays where it is
\* until a new target is set: target and setpoint are equal, and a step of the
\* simulation, whatever the ramp, then changes neither.
THEOREM StopsAtOnce == Spec => StopHolds
<1>1. Init => HaltedInv
  BY DEF Init, HaltedInv
<1>2. TypeOK /\ HaltedInv /\ [Next]_cryoVars
        => HaltedInv' /\ [halted /\ halted' => vars'.setpoint = vars.setpoint]_cryoVars
  <2>. SUFFICES ASSUME TypeOK, HaltedInv, [Next]_cryoVars
                PROVE  /\ HaltedInv'
                       /\ halted /\ halted' => vars'.setpoint = vars.setpoint
    OBVIOUS
  <2>0. vars \in StateVars
    BY DEF TypeOK
  <2>1. CASE SimStep
    BY <2>1, SimStepEffect DEF SimStep, HaltedInv
  <2>2. CASE ChangeTarget
    BY <2>2 DEF ChangeTarget, HaltedInv
  <2>3. CASE Stop
    BY <2>0, <2>3 DEF Stop, HaltedInv, StateVars
  <2>4. CASE ~(SimStep \/ ChangeTarget \/ Stop)
    <3>1. vars'.target = vars.target /\ vars'.setpoint = vars.setpoint /\ halted' = halted
      BY <2>0, <2>4, PollReads
      DEF Next, ModuleStep, ReadParam, ChangeRamp, ChangeCoefficient, ChangePid, Then,
          Poll, ReadNext, cryoVars, StateVars
    <3>. QED  BY <3>1 DEF HaltedInv
  <2>. QED  BY <2>1, <2>2, <2>3, <2>4
<1>. QED  BY <1>1, <1>2, CryoTypeCorrect, PTL DEF Spec, StopHolds
=============================================================================
