----------------------------- MODULE SyncTimers -----------------------------
(***************************************************************************)
(* The clocks of the C runtime (synchronous.c): a list of timers, one for  *)
(* the next tick of every base clock and one for every tick of a sub clock *)
(* in the present interval of its base clock.                              *)
(*                                                                         *)
(* Time counts units of SYNC_EPS; the intervals of a model are such that   *)
(* the ticks of its sub clocks are whole numbers.                          *)
(***************************************************************************)
EXTENDS Sequences, FiniteSets, SequencesExt, Rational

CONSTANTS
    Eps,                         \* SYNC_EPS
    Horizon,                     \* bound: how long the simulation runs
    MaxEvents,                   \* bound: how many state events fire Boolean clocks
    Models                       \* see Model

(* A model: the start time and the base clocks, each with the intervals it may
   have (one of them at each tick) and its sub clocks. *)
SubClock == [shift : [m : Int, n : Nat \ {0}], factor : [m : Nat \ {0}, n : Nat \ {0}],
             holdEvents : BOOLEAN]
Model == [start : Int,
          clocks : Seq([isBoolClock : BOOLEAN, intervals : SUBSET Nat, subs : Seq(SubClock)])]

ASSUME TimersAssumption ==
    /\ {Eps, Horizon, MaxEvents} \subseteq Nat
    /\ Models \subseteq Model
    /\ \A md \in Models : md.start <= Horizon
    /\ \A md \in Models : \A c \in DOMAIN md.clocks :
          /\ md.clocks[c].intervals # {}
          /\ md.clocks[c].isBoolClock \/ \A d \in md.clocks[c].intervals : d > 2 * Eps

VARIABLES
    pc,                          \* "loop", or "handle": in handleTimers
    model,
    currentTime,                 \* solverInfo->currentTime
    intvlTimers,                 \* simulationInfo->intvlTimers
    clocksData,                  \* simulationInfo->clocksData
    inserting,                   \* the timers a tick has still to insert
    ret,                         \* ret of handleTimers
    events,                      \* how many events there were
    fired, ran,                  \* history: how often each base and sub clock ticked
    held                         \* history: a tick of this call holds events

vars == <<pc, model, currentTime, intvlTimers, inserting, clocksData, ret, events, fired, ran, held>>

-----------------------------------------------------------------------------
Clocks == DOMAIN model.clocks
SubsOf(md) == UNION {{<<c, i>> : i \in DOMAIN md.clocks[c].subs} : c \in DOMAIN md.clocks}

Base(c, t) == [type |-> "SYNC_BASE_CLOCK", idx |-> <<c>>, activationTime |-> t]
Sub(s, t) == [type |-> "SYNC_SUB_CLOCK", idx |-> s, activationTime |-> t]

(* initSynchronous: the timers are pushed to the front. *)
FirstTimers(md) ==
    FlattenSeq(Reverse([c \in DOMAIN md.clocks |->
        IF md.clocks[c].isBoolClock THEN <<>> ELSE <<Base(c, md.start)>>]))

Init ==
    /\ pc = "loop"
    /\ model \in Models
    /\ currentTime = model.start
    /\ intvlTimers = FirstTimers(model)
    /\ clocksData = [c \in DOMAIN model.clocks |-> [interval |-> 0, timepoint |-> 0, cnt |-> 0]]
    /\ inserting = <<>>
    /\ ret = 0
    /\ events = 0
    /\ fired = [c \in DOMAIN model.clocks |-> 0]
    /\ ran = [s \in SubsOf(model) |-> 0]
    /\ held = FALSE

-----------------------------------------------------------------------------
(* fireClock *)

(* function_updateSynchronous: what the new interval may be. *)
Intervals(c) ==
    IF model.clocks[c].isBoolClock /\ clocksData[c].cnt > 0
    THEN {currentTime - clocksData[c].timepoint}
    ELSE model.clocks[c].intervals

(* Tick k of a sub clock, if its base clock has the interval d from curTime on;
   kept within this interval. *)
NextTime(sub, k, d, curTime) ==
    LET nextBaseTime == curTime + d
        next_time == (d * (sub.shift.m * sub.factor.n + k * sub.factor.m * sub.shift.n))
                         \div (sub.shift.n * sub.factor.n)
    IN IF next_time >= nextBaseTime THEN nextBaseTime - Eps
       ELSE IF next_time < curTime THEN curTime
       ELSE next_time

SubTimers(c, i, d, curTime) ==
    LET sub == model.clocks[c].subs[i]
        i0 == ceilRat[divRat2Rat(subInt2Rat(clocksData[c].cnt, sub.shift), sub.factor)]
        i1 == floorRatStrict[divRat2Rat(subInt2Rat(clocksData[c].cnt + 1, sub.shift), sub.factor)]
    IN [n \in 1 .. i1 - i0 + 1 |-> Sub(<<c, i>>, NextTime(sub, i0 + n - 1, d, curTime))]

(* The timers for the sub clocks of c, in the order in which they are inserted. *)
fireClock(c, d, curTime) ==
    FlattenSeq([i \in DOMAIN model.clocks[c].subs |-> SubTimers(c, i, d, curTime)])

-----------------------------------------------------------------------------
(* handleTimers *)

(* Mutant: at the end of the list. *)
insertTimerLast(list, timer) == Append(list, timer)

(* Before the first timer that is later. *)
insertTimer(list, timer) ==
    LET n == Cardinality({i \in DOMAIN list : list[i].activationTime <= timer.activationTime})
    IN SubSeq(list, 1, n) \o <<timer>> \o SubSeq(list, n + 1, Len(list))

InsertTimer ==
    /\ inserting # <<>>
    /\ intvlTimers' = insertTimer(intvlTimers, Head(inserting))
    /\ inserting' = Tail(inserting)
    /\ UNCHANGED <<pc, model, currentTime, clocksData, ret, events, fired, ran, held>>

Due == intvlTimers # <<>> /\ Head(intvlTimers).activationTime <= currentTime + Eps

(* Mutant: the next interval starts now, not where this tick was due. *)
handleBaseClockNow ==
    /\ pc = "handle" /\ inserting = <<>> /\ Due
    /\ Head(intvlTimers).type = "SYNC_BASE_CLOCK"
    /\ LET c == Head(intvlTimers).idx[1]
           curTime == currentTime
       IN \E d \in Intervals(c) :
             /\ inserting' = fireClock(c, d, curTime) \o <<Base(c, curTime + d)>>
             /\ clocksData' = [clocksData EXCEPT
                                  ![c] = [interval |-> d, timepoint |-> curTime, cnt |-> @.cnt + 1]]
             /\ fired' = [fired EXCEPT ![c] = @ + 1]
    /\ intvlTimers' = Tail(intvlTimers)
    /\ UNCHANGED <<pc, model, currentTime, ret, events, ran, held>>

(* Mutant: there is no timer for the next tick. *)
handleBaseClockOnce ==
    /\ pc = "handle" /\ inserting = <<>> /\ Due
    /\ Head(intvlTimers).type = "SYNC_BASE_CLOCK"
    /\ LET c == Head(intvlTimers).idx[1]
           curTime == Head(intvlTimers).activationTime
       IN \E d \in Intervals(c) :
             /\ inserting' = fireClock(c, d, curTime)
             /\ clocksData' = [clocksData EXCEPT
                                  ![c] = [interval |-> d, timepoint |-> curTime, cnt |-> @.cnt + 1]]
             /\ fired' = [fired EXCEPT ![c] = @ + 1]
    /\ intvlTimers' = Tail(intvlTimers)
    /\ UNCHANGED <<pc, model, currentTime, ret, events, ran, held>>

handleBaseClock ==
    /\ pc = "handle" /\ inserting = <<>> /\ Due
    /\ Head(intvlTimers).type = "SYNC_BASE_CLOCK"
    /\ LET c == Head(intvlTimers).idx[1]
           curTime == Head(intvlTimers).activationTime
       IN \E d \in Intervals(c) :
             /\ inserting' = fireClock(c, d, curTime) \o <<Base(c, curTime + d)>>
             /\ clocksData' = [clocksData EXCEPT
                                  ![c] = [interval |-> d, timepoint |-> curTime, cnt |-> @.cnt + 1]]
             /\ fired' = [fired EXCEPT ![c] = @ + 1]
    /\ intvlTimers' = Tail(intvlTimers)
    /\ UNCHANGED <<pc, model, currentTime, ret, events, ran, held>>

Holds(s) == model.clocks[s[1]].subs[s[2]].holdEvents

(* Mutant: the ticks are added up. *)
HandledSum(s) == ret + (IF Holds(s) THEN 2 ELSE 1)

(* Mutant: the last tick decides what is returned. *)
HandledLast(s) == IF Holds(s) THEN 2 ELSE 1

Handled(s) == IF Holds(s) THEN 2 ELSE IF ret = 2 THEN ret ELSE 1

HandleSubClock ==
    /\ pc = "handle" /\ inserting = <<>> /\ Due
    /\ Head(intvlTimers).type = "SYNC_SUB_CLOCK"
    /\ LET s == Head(intvlTimers).idx
       IN /\ ret' = Handled(s)
          /\ ran' = [ran EXCEPT ![s] = @ + 1]
          /\ held' = (held \/ Holds(s))
    /\ intvlTimers' = Tail(intvlTimers)
    /\ UNCHANGED <<pc, model, currentTime, inserting, clocksData, events, fired>>

TimersHandled ==
    /\ pc = "handle" /\ inserting = <<>> /\ ~Due
    /\ pc' = "loop"
    /\ UNCHANGED <<model, currentTime, intvlTimers, inserting, clocksData, ret, events, fired, ran, held>>

HandleTimers == InsertTimer \/ handleBaseClock \/ HandleSubClock \/ TimersHandled

-----------------------------------------------------------------------------
(* The simulation loop: a step that would come to the first timer ends there
   (checkForSynchronous), or at an event before it, or at a sample that is at
   most SAMPLE_EPS later (checkForSampleEvent). *)
CallHandleTimers ==
    /\ pc' = "handle"
    /\ ret' = 0
    /\ held' = FALSE

StepEnds ==
    LET first == IF intvlTimers = <<>> THEN Horizon ELSE Head(intvlTimers).activationTime
    IN IF Due THEN {currentTime}
       ELSE {t \in currentTime + 1 .. first + Eps : t <= Horizon}

SolverStep ==
    /\ pc = "loop"
    /\ currentTime' \in StepEnds
    /\ CallHandleTimers
    /\ UNCHANGED <<model, intvlTimers, inserting, clocksData, events, fired, ran>>

(* A state event makes the condition of a Boolean clock true; handleTimers is
   called again at the end of simulationUpdate. *)
FireBooleanClock(c) ==
    /\ pc = "loop" /\ ~Due
    /\ model.clocks[c].isBoolClock
    /\ events < MaxEvents
    /\ events' = events + 1
    /\ \E d \in Intervals(c) :
          /\ inserting' = fireClock(c, d, currentTime)
          /\ clocksData' = [clocksData EXCEPT ![c].interval = d]
    /\ fired' = [fired EXCEPT ![c] = @ + 1]
    /\ CallHandleTimers
    /\ UNCHANGED <<model, currentTime, intvlTimers, ran>>

Next == \/ SolverStep
        \/ HandleTimers
        \/ \E c \in Clocks : FireBooleanClock(c)

Spec == Init /\ [][Next]_vars /\ WF_vars(SolverStep)
             /\ WF_vars(HandleTimers)
-----------------------------------------------------------------------------
(* Properties *)

Timer == [type : {"SYNC_BASE_CLOCK"}, idx : {<<c>> : c \in Clocks}, activationTime : Int]
         \cup [type : {"SYNC_SUB_CLOCK"}, idx : SubsOf(model), activationTime : Int]

(* Type correctness. *)
TypeOK ==
    /\ pc \in {"loop", "handle"}
    /\ model \in Models
    /\ currentTime \in model.start .. Horizon
    /\ intvlTimers \in Seq(Timer) /\ inserting \in Seq(Timer)
    /\ clocksData \in [Clocks -> [interval : Nat, timepoint : Int, cnt : Nat]]
    /\ ret \in 0 .. 2
    /\ events \in 0 .. MaxEvents
    /\ fired \in [Clocks -> Nat]
    /\ ran \in [SubsOf(model) -> Nat]
    /\ held \in BOOLEAN

(* No timer is left behind when time goes on, although only the first one is
   looked at, timers are added while others are taken out, and steps may end
   a little after the first timer. *)
NoTimerPassed ==
    \A i \in DOMAIN intvlTimers : intvlTimers[i].activationTime >= currentTime - Eps

(* Events are handled exactly if a sub clock that holds events has ticked in
   this call, in whatever order the ticks were. *)
HoldEventsAreSeen == pc = "loop" => (ret = 2 <=> held)

(* The timers implement the schedule of the clocks: base clocks tick on their
   grid without drift, and every tick of a sub clock comes once, before the
   next interval of its base clock and, where intervals do not change, on
   time. *)
Sched == INSTANCE ClockSchedule WITH now <- currentTime, MaxIntervals <- Horizon \div (2 * Eps + 1) + 2
ImplementsClocks == Sched!SchedSpec

(* Every base clock goes on to tick until the end. *)
ClocksGoOn ==
    <>(\A c \in Clocks : model.clocks[c].isBoolClock
          \/ clocksData[c].timepoint + clocksData[c].interval > Horizon)

(* shiftSample: "First activation of clock is shifted in time", to
   shift * interval. *)
FirstTickIsShifted ==
    \A s \in SubsOf(model) :
        LET sub == model.clocks[s[1]].subs[s[2]]
            d == clocksData[s[1]].interval
        IN currentTime * sub.shift.n > d * sub.shift.m + Eps * sub.shift.n /\ pc = "loop"
              => ran[s] > 0
=============================================================================
