------------------------------ MODULE SimCryo -------------------------------
(***************************************************************************)
(* The simulated cryostat (modules/src/simcryo.rs): the module's thread,   *)
(* with its cached parameters, and the simulator's thread work on the same *)
(* StateVars under a lock.  The module thread takes the lock once for each *)
(* write and each read, so the simulator can step between them.            *)
(*                                                                         *)
(* Temperatures are whole numbers.  The simulated physics (sample,         *)
(* regulation, heater, and the mode that switches the heater's control) is *)
(* left out: the setpoint, the target and the status do not depend on it.  *)
(* Of the coefficients p, i and d, d is left out: it is treated like i.    *)
(***************************************************************************)
EXTENDS Integers, Sequences, FiniteSetsExt

CONSTANTS
    Temps,       \* temperatures a client asks for
    Ramps,       \* ramping speeds, per step of the simulator; 0: at once
    Gains,       \* values of a coefficient
    MaxI,        \* the largest i that is declared for the parameter i
    Keep,        \* the None of PID's optional members
    MaxRequests  \* bound: requests of the clients

ASSUME SimCryoAssumption ==
    /\ Temps \subseteq Nat /\ 0 \in Temps
    /\ Ramps \subseteq Nat /\ Ramps # {}
    /\ Gains \subseteq Nat /\ MaxI \in Nat /\ \E g \in Gains : g <= MaxI
    /\ Keep \notin Gains
    /\ MaxRequests \in Nat

VARIABLES
    vars,      \* StateVars, shared by the two threads
    cache,     \* the cached parameters
    plan,      \* reads the module thread has to make before its next request
    requests,  \* number of requests so far
    progress,  \* history: what became of the last target: set, taken (the
               \* simulator has seen it), polling or polled since then
    halted     \* history: no target was set since the last stop

cryoVars == <<vars, cache, plan, requests, progress, halted>>

Coefficients == {"p", "i"}

Within(c, g) == c = "i" => g <= MaxI

StateVars ==
    [target : Nat, setpoint : Nat, ramp : Ramps, ramping : BOOLEAN,
     gain : [Coefficients -> Gains]]

Params == {"status", "target", "setpoint", "ramp", "p", "i", "pid"}

\* The read methods: what a parameter's value is now.
Actual(x, v) ==
    CASE x = "status" -> IF v.ramping THEN "busy" ELSE "idle"
      [] x \in Coefficients -> v.gain[x]
      [] x = "pid" -> v.gain
      [] OTHER -> v[x]

-----------------------------------------------------------------------------
(* The module thread.  A request or poll is taken when the reads of the     *)
(* previous one are done.                                                   *)

Request ==
    /\ plan = <<>>
    /\ requests < MaxRequests
    /\ requests' = requests + 1

\* A read makes what a poll has collected a mix of two times.
Then(reads) ==
    /\ plan' = reads
    /\ progress' = IF progress \in {"polling", "polled"} THEN "taken" ELSE progress

ReadParam ==
    /\ Request
    /\ \E x \in Params : Then(<<x>>)
    /\ UNCHANGED <<vars, cache, halted>>

ChangeTarget ==
    /\ Request
    /\ \E t \in Temps : vars' = [vars EXCEPT !.target = t]
    /\ plan' = <<"target">>
    /\ progress' = "set"
    /\ halted' = FALSE
    /\ UNCHANGED cache

ChangeRamp ==
    /\ Request
    /\ \E r \in Ramps : vars' = [vars EXCEPT !.ramp = r]
    /\ Then(<<"ramp">>)
    /\ UNCHANGED <<cache, halted>>

ChangeCoefficientAlone ==  \* mutant: pid is not read again
    /\ Request
    /\ \E c \in Coefficients, g \in Gains :
         /\ Within(c, g)
         /\ vars' = [vars EXCEPT !.gain[c] = g]
         /\ Then(<<c>>)
    /\ UNCHANGED <<cache, halted>>

\* A coefficient is changed, and pid read again, for it has changed too.
ChangeCoefficient ==
    /\ Request
    /\ \E c \in Coefficients, g \in Gains :
         /\ Within(c, g)
         /\ vars' = [vars EXCEPT !.gain[c] = g]
         /\ Then(<<"pid", c>>)
    /\ UNCHANGED <<cache, halted>>

\* pid changes the coefficients that are given; its own are not limited.
ChangePid ==
    /\ Request
    /\ \E given \in [Coefficients -> Gains \cup {Keep}] :
         vars' = [vars EXCEPT !.gain =
                    [c \in Coefficients |-> IF given[c] = Keep THEN @[c] ELSE given[c]]]
    /\ Then(<<"p", "i", "pid">>)
    /\ UNCHANGED <<cache, halted>>

StopAtCached ==  \* mutant: the setpoint as it was last read
    /\ Request
    /\ vars' = [vars EXCEPT !.target = cache.setpoint]
    /\ progress' = "set" /\ halted' = TRUE
    /\ UNCHANGED <<cache, plan>>

\* The command stop makes the present setpoint the target.
Stop ==
    /\ Request
    /\ vars' = [vars EXCEPT !.target = vars.setpoint]
    /\ progress' = "set" /\ halted' = TRUE
    /\ UNCHANGED <<cache, plan>>

StatusLast == <<"target", "setpoint", "ramp", "status">>  \* mutant: swapped
BusyPolled == <<"status", "target", "setpoint", "ramp">>

Poll(reads) ==
    /\ plan = <<>>
    /\ reads # <<>>
    /\ plan' = reads
    /\ progress' = IF progress # "set" /\ \E i \in DOMAIN reads : reads[i] = "status"
                     THEN "polling" ELSE progress
    /\ UNCHANGED <<vars, cache, requests, halted>>

\* Parameters with busy-poll handling are left to poll_busy while the cached
\* status is busy; p and i are polled every fifth time.
PollNormal ==
    \E others \in {<<>>, <<"p", "i">>} :
      Poll((IF cache.status # "busy" THEN BusyPolled ELSE <<>>) \o others)

PollBusyNever == cache.status # "busy" /\ Poll(BusyPolled)  \* mutant: negated
PollBusy == cache.status = "busy" /\ Poll(BusyPolled)

\* One read: the value is cached.
ReadNext ==
    /\ plan # <<>>
    /\ cache' = [cache EXCEPT ![Head(plan)] = Actual(Head(plan), vars)]
    /\ plan' = Tail(plan)
    /\ progress' = IF progress = "polling" /\ plan' = <<>> THEN "polled" ELSE progress
    /\ UNCHANGED <<vars, requests, halted>>

-----------------------------------------------------------------------------
(* The simulator thread *)

WholeSteps(v, a, b) ==  \* mutant: a step may pass the target
    IF v = 0 THEN 0 ELSE IF v < 0 THEN a ELSE b

\* clamp, whatever the order of the two bounds.
ClampTo(v, a, b) == Max({Min({v, Max({a, b})}), Min({a, b})})

MaxDelta == IF vars.ramp = 0 THEN 10000 ELSE vars.ramp

\* A step of the simulation: the setpoint approaches the target.
SimStep ==
    /\ LET next == vars.setpoint
                     + ClampTo(vars.target - vars.setpoint, - MaxDelta, MaxDelta)
       IN  vars' = [vars EXCEPT !.setpoint = next, !.ramping = next # vars.target]
    /\ progress' = IF progress = "set" THEN "taken" ELSE progress
    /\ UNCHANGED <<cache, plan, requests, halted>>

-----------------------------------------------------------------------------
\* create, init_params and setup are done: the simulator is about to run.
Init ==
    /\ vars \in [target : Temps, setpoint : {0}, ramp : Ramps, ramping : {FALSE},
                 gain : {f \in [Coefficients -> Gains] :
                           \A c \in Coefficients : Within(c, f[c])}]
    /\ cache = [x \in Params |-> Actual(x, vars)]
    /\ plan = <<>>
    /\ requests = 0
    /\ progress = "set"
    /\ halted = FALSE

ModuleStep ==
    \/ ReadParam \/ ChangeTarget \/ ChangeRamp
    \/ ChangeCoefficient \/ ChangePid \/ Stop
    \/ PollNormal \/ PollBusy
    \/ ReadNext

Next == ModuleStep \/ SimStep

Spec == Init /\ [][Next]_cryoVars

\* Both threads run on, and each of the poll tickers is served in the end.
FairSpec ==
    /\ Spec
    /\ WF_cryoVars(SimStep)
    /\ WF_cryoVars(ReadNext)
    /\ SF_cryoVars(PollNormal)
    /\ SF_cryoVars(PollBusy)

-----------------------------------------------------------------------------
\* Every variable holds a value of its type (simcryo.rs:36-53, 227-268).
TypeOK ==
    /\ vars \in StateVars
    /\ DOMAIN cache = Params
    /\ \A x \in Params : cache[x] \in
         CASE x = "status" -> {"busy", "idle"}
           [] x \in Coefficients -> Gains
           [] x = "pid" -> [Coefficients -> Gains]
           [] x = "ramp" -> Ramps
           [] OTHER -> Nat
    /\ plan \in Seq(Params)
    /\ requests \in 0 .. MaxRequests
    /\ progress \in {"set", "taken", "polling", "polled"}
    /\ halted \in BOOLEAN

\* The parameters p, i and pid show the same coefficients, those in use, after
\* every request (simcryo.rs:324-354: each write reads the others again).
LinkedCaches ==
    plan = <<>> => /\ cache.pid = vars.gain
                   /\ \A c \in Coefficients : cache[c] = cache.pid[c]

\* Once the simulator has seen a new target, a poll that finds the status idle
\* also finds the setpoint at the target (simcryo.rs:158-173, 228-242): the
\* status is read first, and what is read after it is no older.
IdleIsThere ==
    (progress = "polled" /\ cache.status = "idle") => cache.setpoint = cache.target

\* After the command stop (simcryo.rs:356-360) the setpoint stays where it is
\* until a new target is set.
StopHolds == [][halted /\ halted' => vars'.setpoint = vars.setpoint]_cryoVars

\* When no more requests come, the setpoint arrives at the target, and the
\* cached status and setpoint come to say so: neither of poll_normal and
\* poll_busy (derive/src/module.rs:533-546) leaves it to the other for good.
MoveEnds ==
    <>[](/\ vars.setpoint = vars.target
         /\ cache.status = "idle"
         /\ cache.setpoint = vars.setpoint)
=============================================================================
