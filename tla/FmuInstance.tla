---------------------------- MODULE FmuInstance ----------------------------
(***************************************************************************)
(* An instance of a model exported as an FMU (fmu2_model_interface.c.inc): *)
(* the functions of FMI 2.0 an importer calls, for Model Exchange (ME) and *)
(* for Co-Simulation (CS), where fmi2DoStep plays the importer itself.     *)
(*                                                                         *)
(* The values of variables are left out.  Kept is whether they are those   *)
(* of the present time, states and inputs: `ode` of what functionODE       *)
(* computes, `alg` of what functionAlgebraics computes from it.            *)
(*                                                                         *)
(* A failed assertion jumps out of the evaluation: through                 *)
(* simulationJumpBuffer (throwStreamPrint) to the innermost try, or, in a  *)
(* Modelica function (omc_assert_fmi), through mmc_jumper, which only      *)
(* fmi2ExitInitializationMode and fmi2CompletedIntegratorStep set.         *)
(***************************************************************************)
EXTENDS Integers, Sequences, FiniteSets, FiniteSetsExt

CONSTANTS
    Models,                      \* see Model
    Horizon,                     \* bound: the time up to which the importer goes
    MaxThrows,                   \* bound: how many evaluations fail
    MaxRounds                    \* bound: how often an event iterates

(* A model: how it is imported, its samples, and whether it has states and
   event indicators. *)
Model == [type : {"ME", "CS"},
          samplesInfo : Seq([start : Int, interval : Nat \ {0}]),
          states : BOOLEAN, indicators : BOOLEAN]

ASSUME FmuAssumption ==
    /\ Models \subseteq Model
    /\ {Horizon, MaxThrows, MaxRounds} \subseteq Nat

VARIABLES
    model,
    comp,                        \* the instance, see Instance
    eventInfo,                   \* what the last event update returned
    step,                        \* the locals of fmi2DoStep, pc = "idle" outside of it
    importer,                    \* what the importer has to keep in mind
    ret                          \* the last call that returned, and its status

vars == <<model, comp, eventInfo, step, importer, ret>>

Samples == DOMAIN model.samplesInfo
(* Crashed: there is no process any more. *)
Mode == {"Instantiated", "InitializationMode", "EventMode", "ContinuousTimeMode",
         "Terminated", "Error", "Crashed"}

Instance ==
    [state : Mode, needUpdate : BOOLEAN,
     time : 0 .. Horizon,                         \* localData[0]->timeValue
     nextSampleTimes : [Samples -> Int], samples : SUBSET Samples,
     ode : BOOLEAN, alg : BOOLEAN,
     rounds : 0 .. MaxRounds,                     \* of the present event iteration
     throws : 0 .. MaxThrows,                     \* history
     givenUp : BOOLEAN,                           \* history: an evaluation failed and none is due
     activated : [Samples -> Seq(Int)]]           \* history: when each sample was active

Calls == {"fmi2Instantiate", "fmi2Reset", "fmi2EnterInitializationMode", "fmi2ExitInitializationMode",
          "fmi2GetReal", "fmi2SetReal", "fmi2Terminate", "fmi2CompletedIntegratorStep",
          "fmi2NewDiscreteStates", "fmi2EnterContinuousTimeMode", "fmi2EnterEventMode", "fmi2SetTime",
          "fmi2SetContinuousStates", "fmi2GetDerivatives", "fmi2GetEventIndicators", "fmi2DoStep"}

NoEvent == [newDiscreteStatesNeeded |-> FALSE, nextEventTimeDefined |-> FALSE, nextEventTime |-> 0]
Idle == [pc |-> "idle", tStart |-> 0, size |-> 0, zc_event |-> FALSE, time_event |-> FALSE]

(* fmi2Instantiate *)
Init ==
    /\ model \in Models
    /\ comp = [state |-> "Instantiated", needUpdate |-> TRUE, time |-> 0,
               nextSampleTimes |-> [i \in Samples |-> 0], samples |-> {},
               ode |-> FALSE, alg |-> FALSE, rounds |-> 0, throws |-> 0, givenUp |-> FALSE,
               activated |-> [i \in Samples |-> <<>>]]
    /\ eventInfo = NoEvent
    /\ step = Idle
    /\ importer = [touched |-> TRUE, settled |-> FALSE, from |-> 0]
    /\ ret = [call |-> "fmi2Instantiate", status |-> "fmi2OK"]

-----------------------------------------------------------------------------
(* What a call may do: a set of outcomes. *)

Outcome(c, status, info) == [comp |-> c, status |-> status, info |-> info]
Done(c) == Outcome(c, "fmi2OK", eventInfo)
Failed(c) == Outcome(c, "fmi2Error", eventInfo)
Thrown(c) ==
    IF c.throws < MaxThrows THEN {Failed([c EXCEPT !.throws = @ + 1])} ELSE {}

(* The next call of a sequence that ends at the first error. *)
Then(outcomes, Call(_)) ==
    {o \in outcomes : o.status # "fmi2OK"}
    \cup UNION {Call(o.comp) : o \in {p \in outcomes : p.status = "fmi2OK"}}

(* invalidState: the states are only checked for Model Exchange. *)
Allowed(c, meStates) == model.type = "CS" \/ c.state \in meStates

functionODE(c) == [c EXCEPT !.ode = TRUE, !.givenUp = FALSE]
functionAlgebraics(c) == [c EXCEPT !.alg = c.ode]
Touched(c) == [c EXCEPT !.needUpdate = TRUE, !.ode = FALSE, !.alg = FALSE, !.givenUp = FALSE]

-----------------------------------------------------------------------------
(* Events *)

(* Mutant: an assertion does not ask for an update. *)
EventUpdateFailedQuiet(c, active) ==
    {[o EXCEPT !.comp.samples = active, !.comp.ode = FALSE, !.comp.alg = FALSE] : o \in Thrown(c)}

(* An assertion in functionDAE, through simulationJumpBuffer: the samples are
   still active. *)
EventUpdateFailed(c, active) ==
    {[o EXCEPT !.comp = [Touched(@) EXCEPT !.samples = active]] : o \in Thrown(c)}

(* An assertion in functionDAE, through the mmc_jumper of a caller: it passes
   the catch, and whether an update is due stays as it was. *)
EventUpdateEscaped(c, active) ==
    {[o EXCEPT !.comp = [@ EXCEPT !.samples = active, !.ode = FALSE, !.alg = FALSE,
                                  !.givenUp = ~c.needUpdate]] : o \in Thrown(c)}

Advanced(c, active) ==
    [i \in Samples |-> IF i \in active
                       THEN c.nextSampleTimes[i] + model.samplesInfo[i].interval
                       ELSE c.nextSampleTimes[i]]

(* With nextSampleEvent, the first of the next times; not used without samples. *)
getNextSampleTimeFMU(next) ==
    IF Samples = {} THEN -1 ELSE Min({next[i] : i \in Samples})

(* Something may have changed that asks for another round, a state maybe. *)
EventUpdated(c, active, again) ==
    LET next == Advanced(c, active)
    IN Outcome([c EXCEPT !.samples = {}, !.nextSampleTimes = next,
                         !.ode = ~again, !.alg = ~again, !.givenUp = FALSE,
                         !.rounds = IF again THEN @ + 1 ELSE 0,
                         !.activated = [i \in Samples |-> IF i \in active THEN Append(@[i], c.time)
                                                          ELSE @[i]]],
               "fmi2OK",
               [newDiscreteStatesNeeded |-> again,
                nextEventTimeDefined |-> Samples # {},
                nextEventTime |-> getNextSampleTimeFMU(next)])

Active(c) == c.samples \cup {i \in Samples : c.nextSampleTimes[i] <= c.time}

fmi2EventUpdate(c) ==
    EventUpdateFailed(c, Active(c))
    \cup {EventUpdated(c, Active(c), again) : again \in {b \in BOOLEAN : b => c.rounds < MaxRounds}}

fmi2NewDiscreteStates(c) ==
    {[o EXCEPT !.info = IF o.status = "fmi2OK" THEN @ ELSE NoEvent] : o \in fmi2EventUpdate(c)}

-----------------------------------------------------------------------------
(* Initialization *)

initialization(c) == [c EXCEPT !.ode = TRUE, !.alg = TRUE, !.givenUp = FALSE]

(* The first point of each sample that is not before the present time. *)
initSample(c) ==
    [c EXCEPT !.nextSampleTimes =
        [i \in Samples |->
            LET start == model.samplesInfo[i].start
                interval == model.samplesInfo[i].interval
            IN IF c.time < start THEN start
               ELSE start + ((c.time - start + interval - 1) \div interval) * interval]]

(* setStartValues, copyStartValuestoInitValues *)
EnterInitializationMode(c) ==
    [c EXCEPT !.state = "InitializationMode", !.ode = FALSE, !.alg = FALSE]

InEventMode(o) == [o EXCEPT !.comp.state = "EventMode"]

(* The status of the event update is ignored, and the state is Event Mode also
   after an assertion; one that escapes the event update fails the call. *)
ExitInitializationMode(c) ==
    LET updated(d) ==
            LET e == initSample(d)
            IN IF Samples = {} THEN {Done(e)}
               ELSE {[o EXCEPT !.status = "fmi2OK"] : o \in fmi2EventUpdate(e)}
                    \cup EventUpdateEscaped(e, Active(e))
        refused == {Failed([c EXCEPT !.state = "Error"])}
    IN IF ~c.needUpdate THEN {InEventMode(o) : o \in updated(c)}
       ELSE refused \cup {InEventMode(o) : o \in Thrown(c) \cup updated(initialization(c))}

(* Reset: what initializeDataStruc sets is set after a simulation only. *)
Reset(c) ==
    LET fresh == IF c.state = "Terminated"
                 THEN [c EXCEPT !.time = 0, !.samples = {}, !.nextSampleTimes = [i \in Samples |-> 0]]
                 ELSE c
    IN [fresh EXCEPT !.state = "Instantiated", !.ode = FALSE, !.alg = FALSE, !.rounds = 0,
                     !.activated = [i \in Samples |-> <<>>]]

-----------------------------------------------------------------------------
(* Values *)

(* An initialization whose failure the getters ignore. *)
InitializationIgnored(c) ==
    IF c.state = "InitializationMode"
    THEN {Done([o.comp EXCEPT !.needUpdate = FALSE, !.ode = FALSE, !.alg = FALSE,
                              !.givenUp = TRUE]) : o \in Thrown(c)}
    ELSE {}

(* fmi2GetReal, fmi2GetInteger, fmi2GetBoolean, fmi2GetString *)
GetValues(c) ==
    LET computed == IF c.state = "InitializationMode" THEN initialization(c)
                    ELSE functionAlgebraics(functionODE(c))
    IN IF c.needUpdate
       THEN {Done([computed EXCEPT !.needUpdate = FALSE])} \cup InitializationIgnored(c)
       ELSE {Done(c)}

fmi2GetDerivatives(c) ==
    IF c.needUpdate
    THEN Thrown(c) \cup {Done([functionODE(c) EXCEPT !.needUpdate = FALSE])}
    ELSE {Done(c)}

fmi2GetEventIndicators(c) ==
    IF model.indicators /\ c.needUpdate
    THEN Thrown(c) \cup {Done([functionODE(c) EXCEPT !.needUpdate = FALSE])}
    ELSE {Done(c)}

(* fmi2SetReal, fmi2SetInteger, fmi2SetBoolean, fmi2SetString *)
SetValues(c) == Touched(c)

fmi2SetContinuousStates(c) == Touched(c)

fmi2CompletedIntegratorStep(c) == Thrown(c) \cup {Done(functionAlgebraics(c))}

fmi2SetTime(c, t) == [Touched(c) EXCEPT !.time = t]

-----------------------------------------------------------------------------
(* The importer calls a function that returns at once. *)

Returns(call, outcomes) ==
    \E o \in outcomes :
        /\ comp' = o.comp
        /\ eventInfo' = o.info
        /\ ret' = [call |-> call, status |-> o.status]

CallEnterInitializationMode ==
    /\ step.pc = "idle" /\ comp.state = "Instantiated"
    /\ importer.touched
    /\ Returns("fmi2EnterInitializationMode", {Done(EnterInitializationMode(comp))})
    /\ UNCHANGED <<model, step, importer>>

CallExitInitializationMode ==
    /\ step.pc = "idle" /\ comp.state = "InitializationMode"
    /\ Returns("fmi2ExitInitializationMode", ExitInitializationMode(comp))
    /\ importer' = [importer EXCEPT !.settled = FALSE, !.from = comp.time]
    /\ UNCHANGED <<model, step>>

(* At any time, also to see the final values. *)
CallGetValues ==
    /\ step.pc = "idle" /\ comp.state \notin {"Instantiated", "Crashed"}
    /\ Returns("fmi2GetReal", GetValues(comp))
    /\ UNCHANGED <<model, step, importer>>

CallSetValues ==
    /\ step.pc = "idle"
    /\ comp.state \in {"Instantiated", "InitializationMode", "EventMode", "ContinuousTimeMode"}
    /\ Returns("fmi2SetReal", {Done(SetValues(comp))})
    /\ importer' = [importer EXCEPT !.touched = @ \/ model.type = "CS"]
    /\ UNCHANGED <<model, step>>

CallTerminate ==
    /\ step.pc = "idle" /\ comp.state \in {"EventMode", "ContinuousTimeMode"}
    /\ Returns("fmi2Terminate", {Done([comp EXCEPT !.state = "Terminated"])})
    /\ UNCHANGED <<model, step, importer>>

(* Before it starts again the importer sets the time (ME) or a value (CS). *)
CallReset ==
    /\ step.pc = "idle" /\ comp.state # "Crashed"
    /\ model.type = "CS" => comp.state = "Terminated"
    /\ Returns("fmi2Reset", {Done(Reset(comp))})
    /\ importer' = [touched |-> FALSE, settled |-> FALSE, from |-> 0]
    /\ UNCHANGED <<model, step>>

(* A call that invalidState refuses. *)
IllegalCall ==
    /\ step.pc = "idle" /\ model.type = "ME" /\ comp.state # "Crashed"
    /\ ~Allowed(comp, {"ContinuousTimeMode"})
    /\ Returns("fmi2CompletedIntegratorStep", {Failed([comp EXCEPT !.state = "Error"])})
    /\ UNCHANGED <<model, step, importer>>

-----------------------------------------------------------------------------
(* Model Exchange *)

Integrating == step.pc = "idle" /\ model.type = "ME" /\ comp.state = "ContinuousTimeMode"

CallNewDiscreteStates ==
    /\ step.pc = "idle" /\ model.type = "ME" /\ comp.state = "EventMode"
    /\ Returns("fmi2NewDiscreteStates", fmi2NewDiscreteStates(comp))
    /\ importer' = [importer EXCEPT !.settled = ret'.status = "fmi2OK"
                                                /\ ~eventInfo'.newDiscreteStatesNeeded]
    /\ UNCHANGED <<model, step>>

CallEnterContinuousTimeMode ==
    /\ step.pc = "idle" /\ model.type = "ME" /\ comp.state = "EventMode"
    /\ importer.settled
    /\ Returns("fmi2EnterContinuousTimeMode", {Done([comp EXCEPT !.state = "ContinuousTimeMode"])})
    /\ importer' = [importer EXCEPT !.from = comp.time]
    /\ UNCHANGED <<model, step>>

CallEnterEventMode ==
    /\ Integrating
    /\ Returns("fmi2EnterEventMode", {Done([comp EXCEPT !.state = "EventMode"])})
    /\ importer' = [importer EXCEPT !.settled = FALSE]
    /\ UNCHANGED <<model, step>>

(* Up to the next time event, and back when the integrator rejects a step; to
   the start before a new simulation. *)
CallSetTime ==
    /\ \/ /\ Integrating
          /\ \E t \in importer.from .. Horizon :
                /\ eventInfo.nextEventTimeDefined => t <= eventInfo.nextEventTime
                /\ Returns("fmi2SetTime", {Done(fmi2SetTime(comp, t))})
       \/ /\ model.type = "ME" /\ comp.state = "Instantiated"
          /\ Returns("fmi2SetTime", {Done(fmi2SetTime(comp, 0))})
    /\ importer' = [importer EXCEPT !.touched = TRUE]
    /\ UNCHANGED <<model, step>>

CallSetContinuousStates ==
    /\ Integrating
    /\ Returns("fmi2SetContinuousStates", {Done(fmi2SetContinuousStates(comp))})
    /\ UNCHANGED <<model, step, importer>>

CallGetDerivatives ==
    /\ step.pc = "idle" /\ model.type = "ME"
    /\ comp.state \in {"EventMode", "ContinuousTimeMode", "Terminated", "Error"}
    /\ \/ Returns("fmi2GetDerivatives", fmi2GetDerivatives(comp))
       \/ Returns("fmi2GetEventIndicators", fmi2GetEventIndicators(comp))
    /\ UNCHANGED <<model, step, importer>>

CallCompletedIntegratorStep ==
    /\ Integrating
    /\ Returns("fmi2CompletedIntegratorStep", fmi2CompletedIntegratorStep(comp))
    /\ importer' = [importer EXCEPT !.from = comp.time]
    /\ UNCHANGED <<model, step>>

-----------------------------------------------------------------------------
(* Co-Simulation: fmi2DoStep, from its call to its return *)

DoStep(size) ==
    /\ step.pc = "idle" /\ model.type = "CS"
    /\ comp.state \in {"EventMode", "ContinuousTimeMode"}
    /\ comp.time + size <= Horizon
    /\ step' = [Idle EXCEPT !.pc = "iterate", !.tStart = comp.time, !.size = size]
    /\ comp' = [comp EXCEPT !.state = "EventMode", !.rounds = 0]
    /\ eventInfo' = [NoEvent EXCEPT !.newDiscreteStatesNeeded = TRUE]
    /\ UNCHANGED <<model, importer, ret>>

tEnd == step.tStart + step.size

Return(status) ==
    /\ step' = [step EXCEPT !.pc = "idle"]
    /\ ret' = [call |-> "fmi2DoStep", status |-> status]

(* fmi2EventIteration, its status is ignored; after an event in the step the
   event indicators are asked for again. *)
EventIteration ==
    /\ step.pc \in {"iterate", "settle"}
    /\ \E o \in fmi2NewDiscreteStates(comp) :
          /\ eventInfo' = o.info
          /\ \/ /\ o.info.newDiscreteStatesNeeded
                /\ comp' = o.comp
                /\ UNCHANGED <<step, ret>>
             \/ /\ ~o.info.newDiscreteStatesNeeded
                /\ \E p \in IF step.pc = "settle" THEN fmi2GetEventIndicators(o.comp) ELSE {Done(o.comp)} :
                      \/ /\ p.status = "fmi2OK"
                         /\ comp' = [p.comp EXCEPT !.state = "ContinuousTimeMode"]
                         /\ step' = [step EXCEPT !.pc = "loop"]
                         /\ UNCHANGED ret
                      \/ /\ p.status # "fmi2OK"
                         /\ comp' = p.comp
                         /\ Return("fmi2Error")
    /\ UNCHANGED <<model, importer>>

(* Mutant: the communication point that is reached counts as the next one. *)
tCommunicationReached ==
    step.tStart + ((comp.time - step.tStart) \div step.size) * step.size

(* The next communication point after the present time. *)
tCommunication ==
    step.tStart + (((comp.time - step.tStart) \div step.size) + 1) * step.size

Point == IF tCommunication > tEnd THEN tEnd ELSE tCommunication

(* Mutant: also time events after the communication point. *)
TimeEventAny == eventInfo.nextEventTimeDefined

TimeEvent == eventInfo.nextEventTimeDefined /\ eventInfo.nextEventTime <= Point

(* Mutant: a time event is only looked at when the step is done. *)
tNextPoint == Point

tNext == IF TimeEvent THEN eventInfo.nextEventTime ELSE Point

(* One step of the explicit Euler method. *)
Integrated ==
    LET derived == IF model.states THEN fmi2GetDerivatives(comp) ELSE {Done(comp)}
        moved(c) == LET d == fmi2SetTime(c, tNext)
                    IN fmi2CompletedIntegratorStep(IF model.states THEN fmi2SetContinuousStates(d) ELSE d)
    IN Then(Then(Then(derived, fmi2GetEventIndicators), moved), fmi2GetEventIndicators)

(* enterEventMode is what fmi2CompletedIntegratorStep asks for; zc_event and
   time_event stay set until the call returns. *)
EulerStep ==
    /\ step.pc = "loop" /\ comp.time < tEnd
    /\ \E o \in Integrated, enterEventMode, crossed \in BOOLEAN :
          /\ enterEventMode => model.states
          /\ crossed => model.indicators
          /\ comp' = o.comp
          /\ \/ /\ o.status # "fmi2OK"
                /\ Return("fmi2Error")
                /\ UNCHANGED eventInfo
             \/ /\ o.status = "fmi2OK"
                /\ LET zc_event == step.zc_event \/ crossed
                       time_event == step.time_event \/ TimeEvent
                       event == enterEventMode \/ zc_event \/ time_event
                   IN /\ step' = [step EXCEPT !.zc_event = zc_event, !.time_event = time_event,
                                              !.pc = IF event THEN "settle" ELSE "loop"]
                      /\ eventInfo' = [eventInfo EXCEPT !.newDiscreteStatesNeeded = event]
                      /\ UNCHANGED ret
    /\ UNCHANGED <<model, importer>>

DoStepReturns ==
    /\ step.pc = "loop" /\ comp.time >= tEnd
    /\ Return("fmi2OK")
    /\ UNCHANGED <<model, comp, eventInfo, importer>>

InDoStep == EventIteration \/ EulerStep \/ DoStepReturns

-----------------------------------------------------------------------------
(* Assertions that nobody catches *)

(* Where an evaluation runs without a target in mmc_jumper: in the getters, which
   have no try at all, in the functions of Model Exchange, and in fmi2DoStep. *)
Unguarded ==
    \/ /\ step.pc = "idle" /\ comp.needUpdate
       /\ comp.state \notin {"Instantiated", "Crashed"}
    \/ step.pc = "idle" /\ model.type = "ME" /\ comp.state = "EventMode"
    \/ step.pc \in {"iterate", "settle"}
    \/ /\ step.pc = "loop" /\ comp.time < tEnd
       /\ model.indicators \/ (model.states /\ comp.needUpdate)

(* The jump through a null pointer ends the process. *)
Crash ==
    /\ Unguarded /\ comp.throws < MaxThrows
    /\ comp' = [comp EXCEPT !.state = "Crashed", !.throws = @ + 1]
    /\ step' = [step EXCEPT !.pc = "idle"]
    /\ ret' = [ret EXCEPT !.status = "none"]
    /\ UNCHANGED <<model, eventInfo, importer>>

-----------------------------------------------------------------------------
ModelExchange ==
    \/ CallNewDiscreteStates \/ CallEnterContinuousTimeMode \/ CallEnterEventMode
    \/ CallSetTime \/ CallSetContinuousStates \/ CallGetDerivatives
    \/ CallCompletedIntegratorStep

Next ==
    \/ CallEnterInitializationMode \/ CallExitInitializationMode
    \/ CallGetValues \/ CallSetValues \/ CallTerminate \/ CallReset \/ IllegalCall
    \/ ModelExchange
    \/ \E size \in 1 .. Horizon : DoStep(size)
    \/ InDoStep
    \/ Crash

Spec == Init /\ [][Next]_vars /\ WF_vars(InDoStep)
-----------------------------------------------------------------------------
(* Properties *)

(* Type correctness. *)
TypeOK ==
    /\ model \in Models
    /\ comp.activated \in [Samples -> Seq(Int)]
    /\ comp \in Instance
    /\ eventInfo \in [newDiscreteStatesNeeded : BOOLEAN, nextEventTimeDefined : BOOLEAN,
                      nextEventTime : Int]
    /\ step \in [pc : {"idle", "iterate", "loop", "settle"}, tStart : Int, size : 0 .. Horizon,
                 zc_event : BOOLEAN, time_event : BOOLEAN]
    /\ importer \in [touched : BOOLEAN, settled : BOOLEAN, from : Int]
    /\ ret \in [call : Calls, status : {"fmi2OK", "fmi2Error", "none"}]

(* What fmi2GetDerivatives and fmi2GetEventIndicators return belongs to the
   present time, states and inputs, whatever was set, refused or interrupted
   before: where no update is asked for there was one.  This does not hold
   between two rounds of an event, and not after two failures (givenUp) until
   something is set or evaluated: that of an initialization that a getter asked
   for, and that of an event update in fmi2ExitInitializationMode which jumps
   past the catch of fmi2EventUpdate.  Every other failure is covered. *)
DerivativesAreCurrent ==
    /\ comp.state \in {"InitializationMode", "EventMode", "ContinuousTimeMode", "Terminated"}
    /\ ~eventInfo.newDiscreteStatesNeeded
    /\ ~comp.needUpdate /\ ~comp.givenUp
    => comp.ode

(* Every point of a sample up to the present time was active once and at its
   own time, through the event updates of initialization, communication
   points, zero crossings and time events; an importer for Model Exchange that
   has reached the next event time has still to enter Event Mode. *)
SamplesOnTime ==
    comp.state = "ContinuousTimeMode" /\ step.pc = "idle" /\ comp.throws = 0 =>
        \A i \in Samples :
            LET points == {p \in 0 .. comp.time :
                              /\ p >= model.samplesInfo[i].start
                              /\ (p - model.samplesInfo[i].start) % model.samplesInfo[i].interval = 0}
                active == comp.activated[i]
            IN /\ \A k \in 2 .. Len(active) : active[k - 1] < active[k]
               /\ {active[k] : k \in DOMAIN active} \in
                     IF model.type = "CS" THEN {points} ELSE {points, points \ {comp.time}}

(* fmi2DoStep without an error ends at the communication point, with the event
   iteration finished, whatever time events and zero crossings were in the
   step and whatever assertions were thrown before. *)
StepEndsAtPoint ==
    ret = [call |-> "fmi2DoStep", status |-> "fmi2OK"] /\ step.pc = "idle"
        => comp.time = tEnd /\ ~eventInfo.newDiscreteStatesNeeded

(* fmi2DoStep returns, also when a time event was late after an assertion and
   the time goes back to it, or an assertion ends the process. *)
StepsReturn == step.pc # "idle" ~> step.pc = "idle"

(* fmi2Terminate: "the final values of all variables can be inquired with the
   fmi2GetXXX(..) functions". *)
FinalValuesAreCurrent ==
    comp.state = "Terminated" /\ ret = [call |-> "fmi2GetReal", status |-> "fmi2OK"]
    /\ model.type = "CS" /\ ~eventInfo.newDiscreteStatesNeeded /\ comp.throws = 0
        => comp.alg
=============================================================================
