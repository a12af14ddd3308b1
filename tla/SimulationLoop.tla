--------------------------- MODULE SimulationLoop ---------------------------
(***************************************************************************)
(* The main loop of the C runtime: performSimulation and simulationUpdate  *)
(* (perform_simulation.c.inc) with the events of events.c and the timers   *)
(* of synchronous.c.                                                       *)
(*                                                                         *)
(* Time counts units that are smaller than SAMPLE_EPS: two times are equal *)
(* or at least one unit apart.  The variables of a model are abstracted to *)
(* the activations whose effect they contain: a slot of the ring buffer    *)
(* localData is the time and this set.  Zero crossings and assertions      *)
(* happen where the environment chooses.                                   *)
(***************************************************************************)
EXTENDS Integers, Sequences, FiniteSets

CONSTANTS
    StepLen,                     \* (stopTime - startTime) / numSteps
    NumSteps,                    \* numSteps
    Eps,                         \* SAMPLE_EPS = SYNC_EPS
    NumEventLimit,               \* chatteringInfo.numEventLimit
    Scenarios                    \* see Scenario

(* A model: the solver it is run with, its sample() operators, the ticks of
   its clocks, what a Boolean clock (if it has one) returns when a state event
   fires it (0 no such clock, 1 a tick, 2 a tick that holds events), the flag
   abortSlow of its run, and bounds of what the environment does to it: zero
   crossings, assertions that fail, new inputs and choices of states. *)
Scenario == [rootFinding : BOOLEAN,
             samples : Seq([start : Nat, interval : Nat \ {0}]),
             ticks : Seq([at : Nat, hold : BOOLEAN]),
             clock : 0 .. 2,
             crossings : Nat,
             throws : Nat,
             restarts : Nat,
             abortSlow : BOOLEAN]

ASSUME LoopAssumption ==
    /\ {StepLen, NumSteps, NumEventLimit} \subseteq Nat \ {0}
    /\ Eps \in Nat
    /\ StepLen % 2 = 0
    /\ Scenarios \subseteq Scenario
    /\ \A m \in Scenarios :              \* insertTimer keeps the list in order
          \A i, j \in DOMAIN m.ticks : i <= j => m.ticks[i].at <= m.ticks[j].at

VARIABLES
    pc,                          \* where the loop is
    model,                       \* the scenario, chosen in Init
    stopTime,                    \* simulationInfo->stopTime
    currentTime,                 \* solverInfo->currentTime
    currentStepSize,             \* solverInfo->currentStepSize
    currStepNo,                  \* __currStepNo
    didEventStep,                \* solverInfo->didEventStep
    syncStep,                    \* syncStep (nonzero)
    syncRet,                     \* syncRet of simulationUpdate
    retry,                       \* retry (nonzero)
    localData,                   \* the three slots of simulationData
    old,                         \* timeValueOld and the ...VarsOld
    nextSampleTimes,             \* simulationInfo->nextSampleTimes
    sampleActivated,             \* simulationInfo->sampleActivated
    timers,                      \* simulationInfo->intvlTimers: sub clocks
    eventLst,                    \* solverInfo->eventLst is not empty
    chat,                        \* simulationInfo->chatteringInfo
    crossing,                    \* environment: where a zero crossing lies, 0: none
    crossings, throws, restarts, \* how often the environment did what it may do
    accepted,                    \* history: the slot the loop has last committed itself to
    activations,                 \* history: the activations scheduled so far
    undone,                      \* history: the activations an assertion interrupted
    restart,                     \* history: an event was handled since the last solver step
    handled                      \* history: the last events of handleEvents

loopVars == <<pc, currentStepSize, currStepNo, didEventStep, syncStep, syncRet, retry>>
timeVars == <<stopTime, currentTime, localData, old>>
eventVars == <<nextSampleTimes, sampleActivated, timers, eventLst, chat, crossing>>
bounds == <<model, crossings, throws, restarts>>
histVars == <<accepted, activations, undone, restart, handled>>
vars == <<loopVars, timeVars, eventVars, bounds, histVars>>

-----------------------------------------------------------------------------
(* No step ends later: after an assertion the step number may be one ahead. *)
Horizon == (NumSteps + model.throws) * StepLen + 4 * Eps
Never == Horizon + 1

Slot(t, effects) == [time |-> t, seen |-> effects]
Sample(i, t) == [kind |-> "sample", id |-> i, at |-> t, hold |-> TRUE]
Tick(i, t, held) == [kind |-> "tick", id |-> i, at |-> t, hold |-> held]
Clock(i, t, held) == [kind |-> "clock", id |-> i, at |-> t, hold |-> held]

Samples == DOMAIN model.samples

(* nextSampleEvent: the first of nextSampleTimes; without samples it is NAN,
   which compares to nothing. *)
NextSample ==
    LET times == {nextSampleTimes[i] : i \in Samples} \cup {Never}
    IN CHOOSE t \in times : \A s \in times : t <= s

(* overwriteOldSimulationData *)
Overwrite(slot) == <<slot, slot, slot>>

(* Everything the samples and ticks of a model schedule up to the horizon. *)
Planned(m) ==
    {a \in {Sample(i, m.samples[i].start + k * m.samples[i].interval) :
                i \in DOMAIN m.samples, k \in 0 .. Horizon} : a.at <= Horizon}
    \cup {Tick(i, m.ticks[i].at, m.ticks[i].hold) : i \in DOMAIN m.ticks}

Init ==
    /\ pc = "head"
    /\ model \in Scenarios
    /\ stopTime = NumSteps * StepLen
    /\ currentTime = 0
    /\ currentStepSize = 0
    /\ currStepNo = 0
    /\ didEventStep = FALSE /\ syncStep = FALSE /\ retry = FALSE
    /\ syncRet = 0
    /\ localData = Overwrite(Slot(0, {}))
    /\ old = Slot(0, {})
    /\ nextSampleTimes = [i \in Samples |-> model.samples[i].start]
    /\ sampleActivated = FALSE /\ eventLst = FALSE
    /\ timers = [i \in DOMAIN model.ticks |->
                    Tick(i, model.ticks[i].at, model.ticks[i].hold)]
    /\ chat = [last |-> [i \in 0 .. NumEventLimit - 1 |-> 0],
               times |-> [i \in 0 .. NumEventLimit - 1 |-> 0],
               idx |-> 0, num |-> 0, emitted |-> FALSE]
    /\ crossing = 0
    /\ crossings = 0 /\ throws = 0 /\ restarts = 0
    /\ accepted = Slot(0, {})
    /\ activations = Planned(model)
    /\ undone = {}
    /\ restart = FALSE
    /\ handled = <<>>

-----------------------------------------------------------------------------
(* The head of the loop: rotate the ring buffer, compute the step size.     *)

Rotate == <<localData[3], localData[1], localData[2]>>

SyncEventStep == didEventStep \/ syncStep

(* Mutant: the step number counts steps that ended at an event, too. *)
StepNoAlways == currStepNo + 1

StepNo == IF SyncEventStep THEN currStepNo ELSE currStepNo + 1

DesiredSize ==
    LET size == StepNo * StepLen - currentTime
    IN IF retry THEN size \div 2 ELSE size

(* Mutant: a point at the end of the step is left to the next one. *)
EndsAtBeyond(size, at) == at < currentTime + size /\ at >= currentTime

(* A step that comes to `at`, or so near that it counts, ends at `at`. *)
EndsAt(size, at) == at <= currentTime + size + Eps /\ at >= currentTime

(* checkForSynchronous *)
SyncSize ==
    IF timers # <<>> /\ EndsAt(DesiredSize, Head(timers).at)
    THEN Head(timers).at - currentTime
    ELSE DesiredSize

(* checkForSampleEvent *)
MeetsSample == EndsAt(SyncSize, NextSample)
StepSize == IF MeetsSample THEN NextSample - currentTime ELSE SyncSize

(* The 1e-15 of the code is less than a unit of time. *)
AlmostEqual == StepSize <= 0 /\ SyncEventStep

(* Mutant: one more step at the stop time. *)
LoopHeadOnce ==
    /\ pc = "head"
    /\ currentTime <= stopTime
    /\ localData' = Rotate
    /\ sampleActivated' = (sampleActivated \/ MeetsSample)
    /\ currentStepSize' = StepSize
    /\ UNCHANGED <<stopTime, currentTime, old, didEventStep, syncStep, syncRet, retry,
                   nextSampleTimes, timers, eventLst, chat, crossing, bounds, histVars>>

LoopHead ==
    /\ pc = "head"
    /\ currentTime < stopTime
    /\ localData' = Rotate
    /\ sampleActivated' = (sampleActivated \/ MeetsSample)
    /\ currentStepSize' = StepSize
    /\ UNCHANGED <<stopTime, currentTime, old, didEventStep, syncStep, syncRet, retry,
                   nextSampleTimes, timers, eventLst, chat, crossing, bounds, histVars>>

(* Mutant: the step is skipped, but the step number stays. *)
SkipStepAgain ==
    /\ AlmostEqual
    /\ LoopHead
    /\ currStepNo' = StepNo
    /\ UNCHANGED pc

SkipStep ==
    /\ AlmostEqual
    /\ LoopHead
    /\ currStepNo' = StepNo + 1
    /\ UNCHANGED pc

NextStep ==
    /\ ~AlmostEqual
    /\ LoopHead
    /\ currStepNo' = StepNo
    /\ pc' = "solve"

(* The loop condition is false. *)
LeaveLoop ==
    /\ pc = "head"
    /\ currentTime >= stopTime
    /\ pc' = "done"
    /\ UNCHANGED <<currentStepSize, currStepNo, didEventStep, syncStep, syncRet, retry,
                   timeVars, eventVars, bounds, histVars>>

-----------------------------------------------------------------------------
(* The solver.  Euler and Runge-Kutta take a whole step from the last slot
   of the ring buffer; DASSL and IDA go on from currentTime and stop at the
   first root.  A zero crossing lies after the beginning of the step. *)
SolveTo(end, root) ==
    /\ pc = "solve"
    /\ pc' = "update"
    /\ currentTime' = end
    /\ localData' = [localData EXCEPT ![1].time = end]
    /\ crossing' = root
    /\ crossings' = IF root = 0 THEN crossings ELSE crossings + 1
    /\ restart' = FALSE
    /\ UNCHANGED <<currentStepSize, currStepNo, didEventStep, syncStep, syncRet, retry,
                   stopTime, old, nextSampleTimes, timers, eventLst, chat,
                   model, throws, restarts, accepted, activations, undone, handled>>

Roots(from, to) ==
    {0} \cup (IF crossings < model.crossings THEN from + 1 .. to ELSE {})

EulerStep ==
    /\ ~model.rootFinding
    /\ LET end == localData[2].time + currentStepSize
       IN \E root \in Roots(old.time, end) : SolveTo(end, root)
    /\ UNCHANGED sampleActivated

(* A step that ends at a root before the sample does not activate it. *)
DasslStep ==
    /\ model.rootFinding
    /\ LET tout == currentTime + currentStepSize
       IN \E root \in Roots(currentTime, tout) : SolveTo(IF root = 0 THEN tout ELSE root, root)
    /\ sampleActivated' = (sampleActivated /\ currentTime' >= NextSample)

-----------------------------------------------------------------------------
(* simulationUpdate.                                                        *)

(* handleTimers: the timers that are due at the current time; what it
   returns: 2 if one of them holds events, 1 if there is one. *)
DueTimers == {i \in DOMAIN timers : timers[i].at <= currentTime + Eps}
Fired(n) == {timers[i] : i \in 1 .. n}
TimersReturn ==
    IF \E i \in DueTimers : timers[i].hold THEN 2
    ELSE IF DueTimers # {} THEN 1 ELSE 0

(* The first n timers have been popped, the first k of them executed. *)
HandleTimers(n, k, slot) ==
    /\ timers' = SubSeq(timers, n + 1, Len(timers))
    /\ localData' = [localData EXCEPT ![1] = [slot EXCEPT !.seen = @ \cup Fired(k)]]

UpdateContinuousSystem ==
    /\ pc = "update"
    /\ pc' = "check"
    /\ HandleTimers(Cardinality(DueTimers), Cardinality(DueTimers), localData[1])
    /\ syncRet' = TimersReturn
    /\ UNCHANGED <<currentStepSize, currStepNo, didEventStep, syncStep, retry,
                   stopTime, currentTime, old, nextSampleTimes, sampleActivated, eventLst, chat,
                   crossing, bounds, histVars>>

(* checkEvents: a root that the solver has not looked for is found by
   bisection and sets the time back to it. *)
CheckEvents ==
    /\ pc = "check"
    /\ LET found == crossing # 0 \/ eventLst
           root == IF crossing # 0 /\ ~model.rootFinding THEN crossing ELSE localData[1].time
           event == found \/ sampleActivated \/ syncRet = 2
       IN /\ eventLst' = found
          /\ currentTime' = IF found THEN root ELSE currentTime
          /\ localData' = IF found THEN [localData EXCEPT ![1].time = root] ELSE localData
          /\ pc' = IF event THEN "event" ELSE "finish"
          /\ didEventStep' = (event /\ didEventStep)
    /\ crossing' = 0
    /\ UNCHANGED <<currentStepSize, currStepNo, syncStep, syncRet, retry, stopTime, old,
                   nextSampleTimes, sampleActivated, timers, chat, bounds, histVars>>

(* Mutant: the oldest event is looked for where the newest will be. *)
ChattersNow(time) ==
    LET t0 == chat.times[chat.idx]
    IN /\ eventLst
       /\ ~chat.emitted
       /\ chat.num - chat.last[chat.idx] + 1 = NumEventLimit
       /\ time - t0 < StepLen

(* The ring of chatteringInfo counts the state events among the last ones. *)
Chatters(time) ==
    LET t0 == chat.times[(chat.idx + 1) % NumEventLimit]
    IN /\ eventLst
       /\ ~chat.emitted
       /\ chat.num - chat.last[chat.idx] + 1 = NumEventLimit
       /\ time - (IF NumEventLimit = 1 THEN time ELSE t0) < StepLen

(* Mutant: the event that leaves the ring is not taken off the count. *)
CountEventUp(time) ==
    LET this == IF eventLst THEN 1 ELSE 0
    IN chat' = [last |-> [chat.last EXCEPT ![chat.idx] = this],
                times |-> chat.times,
                idx |-> (chat.idx + 1) % NumEventLimit,
                num |-> chat.num + this,
                emitted |-> chat.emitted \/ Chatters(time)]

CountEvent(time) ==
    LET this == IF eventLst THEN 1 ELSE 0
    IN chat' = [last |-> [chat.last EXCEPT ![chat.idx] = this],
                times |-> IF eventLst THEN [chat.times EXCEPT ![chat.idx] = time]
                          ELSE chat.times,
                idx |-> (chat.idx + 1) % NumEventLimit,
                num |-> chat.num - chat.last[chat.idx] + this,
                emitted |-> chat.emitted \/ Chatters(time)]

(* insertTimer: before the first timer that is later. *)
InsertTimer(list, timer) ==
    LET n == Cardinality({i \in DOMAIN list : list[i].at <= timer.at})
    IN SubSeq(list, 1, n) \o <<timer>> \o SubSeq(list, n + 1, Len(list))

(* The samples handleEvents activates: those due at the time of the slot,
   which is that of a state event if there is one. *)
Activated == IF sampleActivated
             THEN {i \in Samples : nextSampleTimes[i] <= localData[1].time + Eps}
             ELSE {}

(* What updateDiscreteSystem does for a Boolean clock: a state event may
   fire it (fireClock), which adds a timer for now. *)
FireBooleanClock ==
    IF eventLst /\ model.clock # 0
    THEN LET tick == Clock(Cardinality(activations), currentTime, model.clock = 2)
         IN /\ timers' = InsertTimer(timers, tick)
            /\ activations' = activations \cup {tick}
    ELSE UNCHANGED <<timers, activations>>

(* handleEvents, cleanUpOldValueListAfterEvent, overwriteOldSimulationData *)
HandleEvents ==
    /\ pc = "event"
    /\ ~(model.abortSlow /\ Chatters(localData[1].time))
    /\ pc' = "finish"
    /\ localData' = Overwrite([localData[1] EXCEPT
                        !.seen = @ \cup {Sample(i, nextSampleTimes[i]) : i \in Activated}])
    /\ nextSampleTimes' = [i \in Samples |->
            IF i \in Activated THEN nextSampleTimes[i] + model.samples[i].interval
            ELSE nextSampleTimes[i]]
    /\ sampleActivated' = FALSE
    /\ eventLst' = FALSE
    /\ didEventStep' = TRUE
    /\ CountEvent(localData[1].time)
    /\ FireBooleanClock
    /\ restart' = TRUE
    /\ handled' = LET all == Append(handled, [state |-> eventLst, time |-> localData[1].time])
                  IN IF Len(all) > NumEventLimit THEN Tail(all) ELSE all
    /\ UNCHANGED <<currentStepSize, currStepNo, syncStep, syncRet, retry, stopTime, currentTime,
                   old, crossing, bounds, accepted, undone>>

(* A throw in event handling goes to globalJumpBuffer and ends the run: that
   of chattering with the flag abortSlow, or an assertion of the model. *)
AbortInEvent ==
    /\ pc = "event"
    /\ pc' = "done"
    /\ UNCHANGED <<currentStepSize, currStepNo, didEventStep, syncStep, syncRet, retry,
                   timeVars, eventVars, model, crossings, restarts, histVars>>

AbortSlow ==
    /\ model.abortSlow /\ Chatters(localData[1].time)
    /\ AbortInEvent
    /\ UNCHANGED throws

ThrowInEvent ==
    /\ throws < model.throws
    /\ AbortInEvent
    /\ throws' = throws + 1

MayRestart(chosen) ==
    /\ chosen => restarts < model.restarts
    /\ restarts' = IF chosen THEN restarts + 1 ELSE restarts

(* stateSelection, checkForAsserts, storeOldValues and handleTimers again:
   the loop is repeated while this fires a timer. *)
FinishUpdate(selected) ==
    /\ pc = "finish"
    /\ MayRestart(selected)
    /\ didEventStep' = (didEventStep \/ selected)
    /\ old' = localData[1]
    /\ timers' = SubSeq(timers, Cardinality(DueTimers) + 1, Len(timers))
    /\ LET after == [localData[1] EXCEPT !.seen = @ \cup Fired(Cardinality(DueTimers))]
       IN localData' = IF selected THEN <<after, localData[1], localData[1]>>
                       ELSE [localData EXCEPT ![1] = after]
    /\ syncRet' = IF TimersReturn = 0 THEN syncRet ELSE TimersReturn
    /\ pc' = IF TimersReturn = 0 THEN "emit" ELSE "check"
    /\ syncStep' = IF TimersReturn = 0 THEN syncRet # 0 ELSE syncStep
    /\ retry' = (retry /\ TimersReturn # 0)
    /\ restart' = (restart \/ selected)
    /\ UNCHANGED <<currentStepSize, currStepNo, stopTime, currentTime, nextSampleTimes,
                   sampleActivated, eventLst, chat, crossing, model, crossings, throws,
                   accepted, activations, undone, handled>>

-----------------------------------------------------------------------------
(* Mutant: new input is not taken for an event. *)
EmitStepQuiet(input, terminated) ==
    /\ pc = "emit"
    /\ MayRestart(input)
    /\ pc' = "head"
    /\ UNCHANGED didEventStep
    /\ restart' = (restart \/ input)
    /\ localData' = IF input THEN Overwrite(localData[1]) ELSE localData
    /\ old' = IF input THEN localData[1] ELSE old
    /\ stopTime' = IF terminated THEN currentTime ELSE stopTime
    /\ accepted' = localData[1]
    /\ UNCHANGED <<currentStepSize, currStepNo, syncStep, syncRet, retry, currentTime,
                   eventVars, model, crossings, throws, activations, undone, handled>>

(* fmtEmitStep: the server may have got new input, which is an event; then
   checkSimulationTerminated: terminate() makes this the stop time. *)
EmitStep(input, terminated) ==
    /\ pc = "emit"
    /\ MayRestart(input)
    /\ pc' = "head"
    /\ didEventStep' = (didEventStep \/ input)
    /\ restart' = (restart \/ input)
    /\ localData' = IF input THEN Overwrite(localData[1]) ELSE localData
    /\ old' = IF input THEN localData[1] ELSE old
    /\ stopTime' = IF terminated THEN currentTime ELSE stopTime
    /\ accepted' = localData[1]
    /\ UNCHANGED <<currentStepSize, currStepNo, syncStep, syncRet, retry, currentTime,
                   eventVars, model, crossings, throws, activations, undone, handled>>

(* The solver or a system of equations has failed, or the steady state was
   reached: the loop is left. *)
BreakLoop ==
    /\ pc \in {"emit", "head"}
    /\ pc' = "done"
    /\ UNCHANGED <<currentStepSize, currStepNo, didEventStep, syncStep, syncRet, retry,
                   timeVars, eventVars, bounds, histVars>>

-----------------------------------------------------------------------------
(* Assertions outside of event handling jump to the loop's catch.           *)

Throw ==
    /\ throws < model.throws
    /\ throws' = throws + 1
    /\ pc' = "catch"
    /\ UNCHANGED <<currentStepSize, currStepNo, didEventStep, syncStep, syncRet, retry, stopTime,
                   currentTime, old, nextSampleTimes, sampleActivated, chat, model, crossings,
                   restarts, accepted, activations, undone, restart, handled>>

(* In updateContinuousSystem, or in the equations of the n-th timer. *)
ThrowInUpdate ==
    /\ pc = "update"
    /\ \/ UNCHANGED <<timers, localData>>
       \/ \E n \in DueTimers : HandleTimers(n, n - 1, localData[1])
    /\ Throw
    /\ UNCHANGED <<eventLst, crossing>>

(* In findRoot, which evaluates the model left of the root. *)
ThrowInFindRoot ==
    /\ pc = "check"
    /\ crossing # 0 /\ ~model.rootFinding
    /\ eventLst' = TRUE
    /\ Throw
    /\ UNCHANGED <<timers, localData, crossing>>

(* In stateSelection or checkForAsserts. *)
ThrowInFinish ==
    /\ pc = "finish"
    /\ Throw
    /\ UNCHANGED <<timers, localData, eventLst, crossing>>

(* The activations the program will not come to any more. *)
Consumed == {a \in activations :
                IF a.kind = "sample" THEN a.at < nextSampleTimes[a.id]
                ELSE \A i \in DOMAIN timers : timers[i] # a}

(* Mutant: the old values are restored, but only in the current slot. *)
RetryInSlot ==
    /\ pc = "catch"
    /\ ~retry
    /\ pc' = "head"
    /\ retry' = TRUE
    /\ localData' = [localData EXCEPT ![1] = old]
    /\ currentTime' = old.time
    /\ didEventStep' = TRUE
    /\ crossing' = 0
    /\ accepted' = old
    /\ undone' = Consumed \ old.seen
    /\ UNCHANGED <<currentStepSize, currStepNo, syncStep, syncRet, stopTime, old, nextSampleTimes,
                   sampleActivated, timers, eventLst, chat, bounds,
                   activations, restart, handled>>

(* retrySimulationStep *)
Retry ==
    /\ pc = "catch"
    /\ ~retry
    /\ pc' = "head"
    /\ retry' = TRUE
    /\ localData' = Overwrite(old)
    /\ currentTime' = old.time
    /\ didEventStep' = TRUE
    /\ crossing' = 0
    /\ accepted' = old
    /\ undone' = Consumed \ old.seen
    /\ UNCHANGED <<currentStepSize, currStepNo, syncStep, syncRet, stopTime, old, nextSampleTimes,
                   sampleActivated, timers, eventLst, chat, bounds,
                   activations, restart, handled>>

Terminate ==
    /\ pc = "catch"
    /\ retry
    /\ pc' = "done"
    /\ UNCHANGED <<currentStepSize, currStepNo, didEventStep, syncStep, syncRet, retry,
                   timeVars, eventVars, bounds, histVars>>

(* What the program does by itself. *)
Step ==
    \/ SkipStep \/ NextStep \/ LeaveLoop
    \/ EulerStep \/ DasslStep
    \/ UpdateContinuousSystem \/ CheckEvents \/ HandleEvents
    \/ \E selected \in BOOLEAN : FinishUpdate(selected)
    \/ \E input, terminated \in BOOLEAN : EmitStep(input, terminated)
    \/ AbortSlow \/ Retry \/ Terminate

Next ==
    \/ Step
    \/ BreakLoop \/ ThrowInEvent
    \/ ThrowInUpdate \/ ThrowInFindRoot \/ ThrowInFinish

(* The loop runs on; nothing has to fail. *)
Spec == Init /\ [][Next]_vars /\ WF_vars(Step)
-----------------------------------------------------------------------------
(* Properties *)

Times == -Horizon .. Horizon
SlotType == [time : Times, seen : SUBSET activations]

(* Models the invariants below hold for: every tick holds events (of one that
   does not the slots lose track), and a model with assertions has no
   activation at the start time (the retry of a step of no length is skipped
   for ever). *)
Regular(m) ==
    /\ m.clock # 1
    /\ \A i \in DOMAIN m.ticks : m.ticks[i].hold
    /\ m.throws > 0 => /\ \A i \in DOMAIN m.ticks : m.ticks[i].at > 0
                       /\ \A i \in DOMAIN m.samples : m.samples[i].start > 0

(* Models whose activations take effect in the order of time: where a solver
   without root finding passes a crossing, no tick may lie in the same step,
   since it is run before findRoot goes back to the crossing; nor, when an
   attempt failed, the tick a Boolean clock had in it. *)
InOrderOfTime(m) ==
    \/ m.rootFinding
    \/ m.crossings = 0
    \/ m.ticks = <<>> /\ (m.clock = 0 \/ m.throws = 0)

(* Type correctness; no step that is taken goes backwards. *)
TypeOK ==
    /\ pc \in {"head", "solve", "update", "check", "event", "finish", "emit", "catch", "done"}
    /\ model \in Scenarios
    /\ stopTime \in Times /\ currentTime \in Times /\ currentStepSize \in Times
    /\ pc = "solve" => currentStepSize >= 0
    /\ currStepNo \in 0 .. NumSteps + throws
    /\ {didEventStep, syncStep, retry, sampleActivated, eventLst, restart} \subseteq BOOLEAN
    /\ syncRet \in 0 .. 2
    /\ localData \in [1 .. 3 -> SlotType]
    /\ old \in SlotType
    /\ nextSampleTimes \in [Samples -> Nat]
    /\ \A i \in DOMAIN timers : timers[i] \in activations
    /\ chat \in [last : [0 .. NumEventLimit - 1 -> 0 .. 1],
                 times : [0 .. NumEventLimit - 1 -> Times],
                 idx : 0 .. NumEventLimit - 1, num : 0 .. NumEventLimit, emitted : BOOLEAN]
    /\ crossing \in 0 .. Horizon
    /\ crossings \in 0 .. model.crossings
    /\ throws \in 0 .. model.throws
    /\ restarts \in 0 .. model.restarts
    /\ accepted \in SlotType
    /\ undone \subseteq activations
    /\ Len(handled) <= NumEventLimit

(* The solver starts from the values that were stored last, and the slot it
   writes to has their discrete variables, in spite of the rotation of the
   ring buffer, steps that are skipped, events, and attempts that failed. *)
SlotsAgree ==
    pc = "solve" => /\ localData[2] = old
                    /\ localData[1].seen = old.seen
                    /\ currentTime = old.time

(* After an event, new input or another choice of states the solver is told
   to start anew. *)
SolverRestarts == pc = "solve" /\ restart => didEventStep

(* Without an assertion the simulation does not run past its stop time: the
   last step may end at a tick behind it, and then at a sample behind that. *)
StopsInTime == throws = 0 => currentTime <= NumSteps * StepLen + 2 * Eps

(* Without an assertion no accepted step jumps over a point of the grid, so
   that the result has them all. *)
GridIsKept ==
    [][throws' = 0 => \A k \in 1 .. NumSteps :
          ~(accepted.time < k * StepLen /\ k * StepLen + 2 * Eps < accepted'.time)]_vars

(* Chattering is reported when, and only when, the last numEventLimit events
   were state events within one step. *)
Chattering(events) ==
    /\ Len(events) = NumEventLimit
    /\ \A i \in DOMAIN events : events[i].state
    /\ events[Len(events)].time - events[1].time < StepLen
ChatteringIsReported ==
    [][pc = "event" /\ pc' = "finish" =>
          (chat'.emitted <=> chat.emitted \/ Chattering(handled'))]_vars

(* The accepted steps implement the abstract schedule: time does not run
   back, no activation is jumped over, each has its effect once and stays,
   and only an assertion in a step may cost it. *)
Sched == INSTANCE EventSchedule WITH time <- accepted.time, seen <- accepted.seen,
                                     Reach <- 2 * StepLen + 3 * Eps
ImplementsSchedule == Sched!SchedSpec

(* Accepted steps are in the order of time. *)
TimeGoesOn == [][accepted'.time >= accepted.time]_vars

(* The simulation ends, whatever it meets. *)
RunEnds == <>(pc = "done")
=============================================================================
