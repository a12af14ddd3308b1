------------------------ MODULE SimulationLoopProofs ------------------------
EXTENDS SimulationLoop, SequenceTheorems, FiniteSetTheorems, WellFoundedInduction, TLAPS

(* Every set of natural numbers that is not empty has a least one. *)
LEMMA LeastNatural ==
  ASSUME NEW S, S \subseteq Nat, S # {}
  PROVE  \E n \in S : \A m \in S : n <= m
<1> DEFINE R == {ss \in Nat \X Nat : ss[1] < ss[2]}
<1>1. IsWellFoundedOn(R, Nat)
  BY NatLessThanWellFounded DEF OpToRel
<1> HIDE DEF R
<1>2. PICK n \in S : \A m \in S : ~(<<m, n>> \in R)
  BY <1>1, WFMin
<1>3. ASSUME NEW m \in S
      PROVE  n <= m
  <2>1. ~(<<m, n>> \in R)
    BY <1>2
  <2>2. m \in Nat /\ n \in Nat
    OBVIOUS
  <2>3. <<m, n>>[1] = m /\ <<m, n>>[2] = n
    OBVIOUS
  <2>4. ~(m < n)
    BY <2>1, <2>2 DEF R
  <2> QED
    BY <2>2, <2>4
<1> QED
  BY <1>3

-----------------------------------------------------------------------------
(* Slots of the ring buffer. *)

IsSlot(s) == s \in [time : Int, seen : {s.seen}]
IsSlots(l) == l \in [1 .. 3 -> {l[1], l[2], l[3]}] /\ IsSlot(l[1]) /\ IsSlot(l[2]) /\ IsSlot(l[3])

(* A slot whose time is set keeps its effects. *)
LEMMA SlotMoved ==
  ASSUME NEW s, IsSlot(s), NEW t \in Int
  PROVE  LET m == [s EXCEPT !.time = t]
         IN  IsSlot(m) /\ m.time = t /\ m.seen = s.seen
  BY DEF IsSlot

(* A slot whose effects are set keeps its time. *)
LEMMA SlotSeen ==
  ASSUME NEW s, IsSlot(s), NEW A
  PROVE  LET m == [s EXCEPT !.seen = A]
         IN  IsSlot(m) /\ m.time = s.time /\ m.seen = A
  BY DEF IsSlot

(* A slot is its time and its effects. *)
LEMMA SlotEqual ==
  ASSUME NEW s, NEW r, IsSlot(s), IsSlot(r), s.time = r.time, s.seen = r.seen
  PROVE  s = r
  BY DEF IsSlot

(* A slot is made of any time and effects. *)
LEMMA NewSlot ==
  ASSUME NEW t \in Int, NEW A
  PROVE  IsSlot(Slot(t, A)) /\ Slot(t, A).time = t /\ Slot(t, A).seen = A
  BY DEF IsSlot, Slot

(* The first slot of the ring buffer is replaced, the others stay. *)
LEMMA SlotsPut ==
  ASSUME NEW l, IsSlots(l), NEW s, IsSlot(s)
  PROVE  LET m == [l EXCEPT ![1] = s]
         IN  IsSlots(m) /\ m[1] = s /\ m[2] = l[2] /\ m[3] = l[3]
  BY DEF IsSlots

(* Three slots make a ring buffer. *)
LEMMA SlotsTuple ==
  ASSUME NEW r, NEW s, NEW t, IsSlot(r), IsSlot(s), IsSlot(t)
  PROVE  LET m == <<r, s, t>>
         IN  IsSlots(m) /\ m[1] = r /\ m[2] = s /\ m[3] = t
  BY DEF IsSlots

(* overwriteOldSimulationData makes all slots the first. *)
LEMMA SlotsOverwrite ==
  ASSUME NEW s, IsSlot(s)
  PROVE  LET m == Overwrite(s)
         IN  IsSlots(m) /\ m[1] = s /\ m[2] = s /\ m[3] = s
  BY DEF IsSlots, Overwrite

-----------------------------------------------------------------------------
(* Lists of timers. *)

\* What a sequence consists of.
LEMMA SequenceElements ==
  ASSUME NEW A, NEW list \in Seq(A)
  PROVE  /\ Len(list) \in Nat
         /\ DOMAIN list = 1 .. Len(list)
         /\ \A i \in DOMAIN list : list[i] \in A
  OBVIOUS

(* What Append and Tail do to a list and its length. *)
LEMMA Appended ==
  ASSUME NEW A
  PROVE  /\ \A list \in Seq(A), e \in A : /\ Append(list, e) \in Seq(A)
                                         /\ Len(Append(list, e)) = Len(list) + 1
                                         /\ Len(list) \in Nat
                                         /\ Append(list, e) # <<>>
         /\ \A list \in Seq(A) : list # <<>> => /\ Tail(list) \in Seq(A)
                                              /\ Len(Tail(list)) = Len(list) - 1
  OBVIOUS

(* A set of numbers up to n has at most n elements. *)
LEMMA CountUpTo ==
  ASSUME NEW n \in Nat, NEW S, S \subseteq 1 .. n
  PROVE  Cardinality(S) \in 0 .. n /\ (S # {} => Cardinality(S) > 0)
<1>1. IsFiniteSet(1 .. n) /\ Cardinality(1 .. n) = n
  BY FS_Interval
<1>2. IsFiniteSet(S) /\ Cardinality(S) <= n
  BY <1>1, FS_Subset
<1>3. Cardinality(S) \in Nat
  BY <1>2, FS_CardinalityType
<1>4. Cardinality(S) = 0 <=> S = {}
  BY <1>2, FS_EmptySet
<1>5. Cardinality(S) <= n
  BY <1>1, <1>2
<1> DEFINE c == Cardinality(S)
<1> HIDE DEF c
<1>6. c \in Nat /\ c <= n
  BY <1>3, <1>5 DEF c
<1>7. S # {} => c # 0
  BY <1>4 DEF c
<1>8. c \in 0 .. n
  BY <1>6
<1>9. c # 0 => c > 0
  BY <1>6
<1> QED
  BY <1>7, <1>8, <1>9 DEF c

(* What is left of a list of timers is one. *)
LEMMA Popped ==
  ASSUME NEW A, NEW list \in Seq(A), NEW n \in 0 .. Len(list)
  PROVE  SubSeq(list, n + 1, Len(list)) \in Seq(A)
<1>1. \A i \in n + 1 .. Len(list) : list[i] \in A
  OBVIOUS
<1> QED
  BY <1>1, SubSeqProperties

(* insertTimer makes a list of timers. *)
LEMMA Inserted ==
  ASSUME NEW A, NEW list \in Seq(A), NEW timer \in A
  PROVE  InsertTimer(list, timer) \in Seq(A)
<1> DEFINE n == Cardinality({i \in DOMAIN list : list[i].at <= timer.at})
<1>1. n \in 0 .. Len(list)
  <2>1. {i \in DOMAIN list : list[i].at <= timer.at} \subseteq 1 .. Len(list) /\ Len(list) \in Nat
    OBVIOUS
  <2> QED
    BY <2>1, CountUpTo
<1> HIDE DEF n
<1>2. SubSeq(list, n + 1, Len(list)) \in Seq(A)
  BY <1>1, Popped
<1>3. SubSeq(list, 1, n) \in Seq(A)
  <2>1. \A i \in 1 .. n : list[i] \in A
    BY <1>1
  <2> QED
    BY <1>1, <2>1, SubSeqProperties
<1>4. <<timer>> \in Seq(A)
  OBVIOUS
<1>5. (SubSeq(list, 1, n) \o <<timer>>) \o SubSeq(list, n + 1, Len(list)) \in Seq(A)
  BY <1>2, <1>3, <1>4
<1> QED
  BY <1>5 DEF InsertTimer, n

(* The timers that are due are some of the list, and so is what fires. *)
LEMMA DueFacts ==
  ASSUME NEW A, timers \in Seq(A)
  PROVE  /\ Cardinality(DueTimers) \in 0 .. Len(timers)
         /\ Len(timers) \in Nat
         /\ DueTimers \subseteq 1 .. Len(timers)
         /\ Fired(Cardinality(DueTimers)) \subseteq A
         /\ DueTimers = {} => Fired(Cardinality(DueTimers)) = {}
<1>1. DueTimers \subseteq 1 .. Len(timers) /\ Len(timers) \in Nat
  BY DEF DueTimers
<1>2. Cardinality(DueTimers) \in 0 .. Len(timers)
  BY <1>1, CountUpTo
<1>3. Fired(Cardinality(DueTimers)) \subseteq A
  <2>1. \A i \in 1 .. Cardinality(DueTimers) : i \in 1 .. Len(timers)
    BY <1>1, <1>2
  <2> QED
    BY <2>1 DEF Fired
<1>4. DueTimers = {} => Fired(Cardinality(DueTimers)) = {}
  BY FS_EmptySet DEF Fired
<1> QED
  BY <1>1, <1>2, <1>3, <1>4

-----------------------------------------------------------------------------
(* The model and its horizon. *)

\* Products of natural numbers, for steps that only need this much.
LEMMA Products ==
  ASSUME NEW a \in Nat, NEW b \in Nat
  PROVE  a * b \in Nat
  OBVIOUS

(* What a scenario consists of. *)
LEMMA ModelFacts ==
  ASSUME model \in Scenarios
  PROVE  /\ model.rootFinding \in BOOLEAN
         /\ Samples = 1 .. Len(model.samples)
         /\ \A i \in Samples : /\ model.samples[i].start \in Nat
                               /\ model.samples[i].interval \in Nat \ {0}
         /\ model.ticks \in Seq([at : Nat, hold : BOOLEAN])
         /\ \A i \in DOMAIN model.ticks : /\ model.ticks[i].at \in Nat
                                          /\ model.ticks[i].hold \in BOOLEAN
         /\ Len(model.ticks) \in Nat /\ DOMAIN model.ticks = 1 .. Len(model.ticks)
         /\ model.clock \in 0 .. 2
         /\ model.crossings \in Nat /\ model.throws \in Nat /\ model.restarts \in Nat
<1>1. model \in Scenario
  BY LoopAssumption
<1>2. model.samples \in Seq([start : Nat, interval : Nat \ {0}])
  BY <1>1 DEF Scenario
<1>3. model.ticks \in Seq([at : Nat, hold : BOOLEAN])
  BY <1>1 DEF Scenario
<1>4. Samples = 1 .. Len(model.samples)
  BY <1>2 DEF Samples
<1>5. \A i \in Samples : model.samples[i] \in [start : Nat, interval : Nat \ {0}]
  BY <1>2, SequenceElements DEF Samples
<1>6. \A i \in DOMAIN model.ticks : model.ticks[i] \in [at : Nat, hold : BOOLEAN]
  BY <1>3, SequenceElements
<1>7. /\ model.rootFinding \in BOOLEAN
      /\ model.clock \in 0 .. 2
      /\ model.crossings \in Nat /\ model.throws \in Nat /\ model.restarts \in Nat
  BY <1>1 DEF Scenario
<1>8. Len(model.ticks) \in Nat /\ DOMAIN model.ticks = 1 .. Len(model.ticks)
  BY <1>3
<1> QED
  BY <1>3, <1>4, <1>5, <1>6, <1>7, <1>8

(* The horizon is a number, and Never is behind it. *)
LEMMA HorizonIsNat ==
  ASSUME model \in Scenarios
  PROVE  Horizon \in Nat /\ Never \in Nat /\ Never = Horizon + 1
<1>1. model.throws \in Nat
  BY ModelFacts
<1>2. NumSteps + model.throws \in Nat /\ StepLen \in Nat /\ Eps \in Nat
  BY <1>1, LoopAssumption
<1>3. (NumSteps + model.throws) * StepLen \in Nat
  BY <1>2, Products
<1> QED
  BY <1>2, <1>3 DEF Horizon, Never

(* NextSample: the least of the times that are left. *)
LEMMA NextSampleFacts ==
  ASSUME model \in Scenarios, nextSampleTimes \in [Samples -> Nat]
  PROVE  /\ NextSample \in Nat
         /\ NextSample <= Never
         /\ \A i \in Samples : NextSample <= nextSampleTimes[i]
         /\ NextSample = Never \/ \E i \in Samples : NextSample = nextSampleTimes[i]
<1> DEFINE times == {nextSampleTimes[i] : i \in Samples} \cup {Never}
<1>1. times \subseteq Nat /\ times # {}
  BY HorizonIsNat
<1>2. \E t \in times : \A s \in times : t <= s
  BY <1>1, LeastNatural
<1>3. NextSample = CHOOSE t \in times : \A s \in times : t <= s
  BY DEF NextSample
<1>4. NextSample \in times /\ \A s \in times : NextSample <= s
  BY <1>2, <1>3
<1> QED
  BY <1>1, <1>4
-----------------------------------------------------------------------------
(* The inductive invariant. *)

(* Types that need no assumption about the scenarios. *)
Events == Seq([state : BOOLEAN, time : Int])
Rings == [last : [0 .. NumEventLimit - 1 -> 0 .. 1], times : [0 .. NumEventLimit - 1 -> Int],
          idx : 0 .. NumEventLimit - 1, num : Int, emitted : BOOLEAN]

BaseInv ==
    /\ pc \in {"head", "solve", "update", "check", "event", "finish", "emit", "catch", "done"}
    /\ model \in Scenarios
    /\ stopTime \in Int /\ currentTime \in Int /\ currentStepSize \in Int
    /\ currStepNo \in Nat
    /\ didEventStep \in BOOLEAN /\ syncStep \in BOOLEAN /\ retry \in BOOLEAN
    /\ sampleActivated \in BOOLEAN /\ eventLst \in BOOLEAN /\ restart \in BOOLEAN
    /\ syncRet \in 0 .. 2
    /\ IsSlots(localData) /\ IsSlot(old) /\ IsSlot(accepted)
    /\ nextSampleTimes \in [Samples -> Nat]
    /\ \A a \in activations : a.at \in Int /\ a.hold \in BOOLEAN
    /\ timers \in Seq(activations)
    /\ chat \in Rings
    /\ crossing \in Int
    /\ crossings \in 0 .. model.crossings
    /\ throws \in 0 .. model.throws
    /\ restarts \in 0 .. model.restarts
    /\ undone \subseteq activations
    /\ handled \in Events /\ Len(handled) <= NumEventLimit

(* What has an effect was scheduled; ticks hold events, the timers are in
   order, and samples are at their places. *)
Sorted(list) == \A i, j \in DOMAIN list : i <= j => list[i].at <= list[j].at
SampleAt(i, t) == \E k \in Nat : t = model.samples[i].start + k * model.samples[i].interval

EffectInv ==
    /\ Planned(model) \subseteq activations
    /\ localData[1].seen \subseteq activations
    /\ localData[2].seen \subseteq activations
    /\ localData[3].seen \subseteq activations
    /\ old.seen \subseteq activations
    /\ accepted.seen \subseteq activations
    /\ \A i \in Samples : SampleAt(i, nextSampleTimes[i])
    /\ \A i \in DOMAIN timers : timers[i].hold
    /\ Sorted(timers)

(* How far a step goes: to the point of the grid, to a tick that is Eps behind
   it, to a sample Eps behind that, and after an assertion from there. *)
Grid(k) == k * StepLen
ReachOf(k) == Grid(k) + (IF throws = 0 THEN 2 * Eps ELSE 3 * Eps)
Reach == ReachOf(currStepNo)

(* The last point of the grid has been passed, up to one per assertion. *)
Slack == IF throws = 0 THEN 0 ELSE 1
Passed(t) == Grid(currStepNo - 1 - throws) <= t + Slack
Reached(t) == throws > 0 /\ Grid(currStepNo - throws) <= t + 1

TimeInv ==
    /\ currStepNo <= NumSteps + throws
    /\ localData[1].time \in 0 .. Reach
    /\ localData[2].time \in 0 .. Reach
    /\ localData[3].time \in 0 .. Reach
    /\ currentTime \in 0 .. Reach
    /\ currentStepSize \in -Reach .. Reach
    /\ old.time \in 0 .. currentTime
    /\ accepted.time \in 0 .. old.time
    /\ crossing \in 0 .. Reach
    /\ \A i \in 0 .. NumEventLimit - 1 : chat.times[i] \in 0 .. Reach
    /\ Passed(accepted.time)
    /\ retry \/ pc = "catch" => Reached(accepted.time)
    /\ stopTime = Grid(NumSteps) \/ (pc \in {"head", "done"} /\ stopTime = currentTime)

(* Nothing that is due is left behind. *)
TimersAfter(list, t) == \A i \in DOMAIN list : list[i].at > t
SamplesFrom(t) == NextSample >= t /\ (NextSample = t => sampleActivated)

DueInv ==
    /\ model.throws > 0 => NextSample > old.time /\ TimersAfter(timers, old.time)
    /\ pc = "head" => NextSample >= currentTime
    /\ pc = "head" /\ SyncEventStep => NextSample > currentTime /\ TimersAfter(timers, currentTime)
    /\ pc = "solve" => SamplesFrom(currentTime + currentStepSize)
    /\ pc \in {"update", "check", "event"} => SamplesFrom(currentTime)
    /\ pc = "finish" => NextSample > currentTime
    /\ pc = "emit" => NextSample > currentTime /\ TimersAfter(timers, currentTime)

(* A step without an event ends at the point of its number, or before it when
   it is tried again. *)
Point(t) == Grid(currStepNo - throws) <= t /\ t <= Grid(currStepNo)
TimerBy(t) == timers # <<>> /\ Head(timers).at <= t

Alike(effects) == /\ localData[1].seen = effects
                  /\ localData[2].seen = effects
                  /\ localData[3].seen = effects
AllOld == localData[1] = old /\ localData[2] = old /\ localData[3] = old

AtHead == pc = "head" =>
    /\ localData[1] = old /\ accepted = old /\ currentTime = old.time
    /\ Alike(old.seen)
    /\ IF SyncEventStep THEN AllOld ELSE Point(currentTime)
    /\ retry \/ restart \/ eventLst => didEventStep

AtSolve == pc = "solve" =>
    /\ localData[2] = old /\ currentTime = old.time /\ accepted = old
    /\ Alike(old.seen)
    /\ currentStepSize >= 0 /\ currentTime + currentStepSize <= Reach
    /\ eventLst => currentStepSize > 0
    /\ restart => didEventStep
    /\ \/ sampleActivated /\ NextSample = currentTime + currentStepSize
       \/ TimerBy(currentTime + currentStepSize)
       \/ Point(currentTime + currentStepSize)

RootIsNew == /\ localData[1].time = currentTime
             /\ eventLst => currentTime > old.time
             /\ crossing # 0 => old.time < crossing /\ crossing <= currentTime

AtUpdate == pc = "update" =>
    /\ RootIsNew
    /\ Alike(old.seen)
    /\ ~restart
    /\ crossing # 0 \/ sampleActivated \/ TimerBy(currentTime) \/ Point(currentTime)

AtCheck == pc = "check" =>
    /\ RootIsNew
    /\ \/ syncRet = 2
       \/ /\ syncRet = 0
          /\ ~restart
          /\ Alike(localData[1].seen)
          /\ crossing # 0 \/ sampleActivated \/ Point(currentTime)

AtEvent == pc = "event" =>
    /\ RootIsNew
    /\ crossing = 0
    /\ syncRet # 1

AtFinish == pc = "finish" =>
    /\ localData[1].time = currentTime
    /\ Alike(localData[1].seen)
    /\ ~eventLst
    /\ crossing = 0
    /\ syncRet # 1
    /\ IF didEventStep THEN localData[2] = localData[1] /\ localData[3] = localData[1]
       ELSE syncRet = 0 /\ ~restart /\ Point(currentTime)

AtEmit == pc = "emit" =>
    /\ localData[1] = old /\ currentTime = old.time
    /\ Alike(old.seen)
    /\ ~eventLst /\ ~retry
    /\ IF SyncEventStep THEN AllOld ELSE Point(currentTime)
    /\ restart => didEventStep

PlaceInv == AtHead /\ AtSolve /\ AtUpdate /\ AtCheck /\ AtEvent /\ AtFinish /\ AtEmit

LoopInv == BaseInv /\ EffectInv /\ TimeInv /\ DueInv /\ PlaceInv
-----------------------------------------------------------------------------
(* The types are kept by every step. *)

\* The step that is taken, and its parts, are integers.
LEMMA StepSizes ==
  ASSUME BaseInv
  PROVE  /\ StepNo \in Nat
         /\ StepNo * StepLen \in Nat
         /\ DesiredSize \in Int
         /\ SyncSize \in Int
         /\ StepSize \in Int
         /\ MeetsSample \in BOOLEAN
         /\ NextSample \in Nat
         /\ timers # <<>> => /\ Head(timers) = timers[1]
                             /\ 1 \in DOMAIN timers
                             /\ timers[1].at \in Int
<1>1. StepNo \in Nat
  BY DEF StepNo, BaseInv
<1>2. StepNo * StepLen \in Nat
  BY <1>1, Products, LoopAssumption
<1>3. currentTime \in Int /\ retry \in BOOLEAN
  BY DEF BaseInv
<1>4. DesiredSize \in Int
  BY <1>2, <1>3 DEF DesiredSize
<1>5. timers # <<>> => /\ Head(timers) = timers[1]
                       /\ 1 \in DOMAIN timers
                       /\ timers[1].at \in Int
  <2>1. timers \in Seq(activations) /\ \A a \in activations : a.at \in Int
    BY DEF BaseInv
  <2> QED
    BY <2>1
<1>6. SyncSize \in Int
  BY <1>3, <1>4, <1>5 DEF SyncSize
<1>7. NextSample \in Nat
  BY NextSampleFacts DEF BaseInv
<1>8. StepSize \in Int /\ MeetsSample \in BOOLEAN
  BY <1>3, <1>6, <1>7 DEF StepSize, MeetsSample, EndsAt
<1> QED
  BY <1>1, <1>2, <1>4, <1>5, <1>6, <1>7, <1>8

(* The types hold at the start. *)
LEMMA BaseInit ==
  ASSUME Init
  PROVE  BaseInv
<1>1. model \in Scenarios
  BY DEF Init
<1> DEFINE tick(i) == Tick(i, model.ticks[i].at, model.ticks[i].hold)
           sample(i, k) == Sample(i, model.samples[i].start + k * model.samples[i].interval)
<1>2. \A i \in DOMAIN model.ticks : /\ tick(i) \in activations
                                    /\ tick(i).at \in Int /\ tick(i).hold \in BOOLEAN
  BY <1>1, ModelFacts DEF Init, Planned, Tick
<1>3. \A i \in Samples, k \in 0 .. Horizon : /\ sample(i, k).at \in Int
                                             /\ sample(i, k).hold \in BOOLEAN
  <2>1. ASSUME NEW i \in Samples, NEW k \in 0 .. Horizon
        PROVE  model.samples[i].start + k * model.samples[i].interval \in Int
    <3>1. k \in Nat /\ model.samples[i].interval \in Nat /\ model.samples[i].start \in Nat
      BY <1>1, ModelFacts, HorizonIsNat
    <3>2. k * model.samples[i].interval \in Nat
      BY <3>1, Products
    <3> QED
      BY <3>1, <3>2
  <2> QED
    BY <2>1 DEF Sample
<1>4. \A a \in activations : \/ \E i \in Samples, k \in 0 .. Horizon : a = sample(i, k)
                             \/ \E i \in DOMAIN model.ticks : a = tick(i)
  BY DEF Init, Planned, Samples
<1>5. \A a \in activations : a.at \in Int /\ a.hold \in BOOLEAN
  <2> HIDE DEF tick, sample
  <2> QED
    BY <1>2, <1>3, <1>4
<1>6. timers \in Seq(activations)
  <2>1. timers = [i \in 1 .. Len(model.ticks) |-> tick(i)]
    BY <1>1, ModelFacts DEF Init
  <2>2. Len(model.ticks) \in Nat /\ \A i \in 1 .. Len(model.ticks) : tick(i) \in activations
    BY <1>1, <1>2, ModelFacts
  <2> HIDE DEF tick
  <2> QED
    BY <2>1, <2>2
<1>7. IsSlot(Slot(0, {}))
  BY NewSlot
<1>8. IsSlots(localData) /\ IsSlot(old) /\ IsSlot(accepted)
  BY <1>7, SlotsOverwrite DEF Init
<1>9. nextSampleTimes \in [Samples -> Nat]
  BY <1>1, ModelFacts DEF Init
<1>10. chat \in Rings
  <2>1. NumEventLimit \in Nat \ {0}
    BY LoopAssumption
  <2> QED
    BY <2>1 DEF Init, Rings
<1>11. handled \in Events /\ Len(handled) <= NumEventLimit
  <2>1. handled = <<>> /\ NumEventLimit \in Nat
    BY LoopAssumption DEF Init
  <2> QED
    BY <2>1 DEF Events
<1>12. stopTime \in Int /\ currStepNo \in Nat
  <2>1. NumSteps \in Nat /\ StepLen \in Nat
    BY LoopAssumption
  <2>2. NumSteps * StepLen \in Nat
    BY <2>1, Products
  <2> QED
    BY <2>2 DEF Init
<1>13. /\ pc = "head" /\ undone = {}
       /\ currentTime = 0 /\ currentStepSize = 0 /\ syncRet = 0 /\ crossing = 0
       /\ didEventStep = FALSE /\ syncStep = FALSE /\ retry = FALSE
       /\ sampleActivated = FALSE /\ eventLst = FALSE /\ restart = FALSE
  BY DEF Init
<1>14. /\ crossings \in 0 .. model.crossings /\ throws \in 0 .. model.throws
       /\ restarts \in 0 .. model.restarts
  <2>1. crossings = 0 /\ throws = 0 /\ restarts = 0
    BY DEF Init
  <2>2. model.crossings \in Nat /\ model.throws \in Nat /\ model.restarts \in Nat
    BY <1>1, ModelFacts
  <2> QED
    BY <2>1, <2>2
<1>15. /\ currentTime \in Int /\ currentStepSize \in Int /\ syncRet \in 0 .. 2 /\ crossing \in Int
       /\ undone \subseteq activations
  BY <1>13
<1>16. /\ pc \in {"head", "solve", "update", "check", "event", "finish", "emit", "catch", "done"}
       /\ didEventStep \in BOOLEAN /\ syncStep \in BOOLEAN /\ retry \in BOOLEAN
       /\ sampleActivated \in BOOLEAN /\ eventLst \in BOOLEAN /\ restart \in BOOLEAN
  BY <1>13
<1> QED
  BY <1>1, <1>5, <1>6, <1>8, <1>9, <1>10, <1>11, <1>12, <1>14, <1>15, <1>16 DEF BaseInv

(* The head of the loop keeps the types. *)
LEMMA BaseHead ==
  ASSUME BaseInv, LoopHead, pc' \in {"head", "solve"}, currStepNo' \in Nat
  PROVE  BaseInv'
<1>1. IsSlots(localData')
  <2>1. IsSlot(localData[1]) /\ IsSlot(localData[2]) /\ IsSlot(localData[3])
    BY DEF BaseInv, IsSlots
  <2> QED
    BY <2>1, SlotsTuple DEF LoopHead, Rotate
<1>2. currentStepSize' \in Int /\ sampleActivated' \in BOOLEAN
  BY StepSizes DEF LoopHead, BaseInv
<1> QED
  BY <1>1, <1>2 DEF LoopHead, BaseInv, bounds, histVars, Samples

(* The step of a solver keeps the types. *)
LEMMA BaseSolve ==
  ASSUME BaseInv, NEW end \in Int, 
         NEW root \in Roots(currentTime, end) \cup Roots(old.time, end),
         SolveTo(end, root), sampleActivated' \in BOOLEAN
  PROVE  BaseInv'
<1>1. currentTime \in Int /\ old.time \in Int
  BY DEF BaseInv, IsSlot
<1>2. root \in Int /\ (root # 0 => crossings < model.crossings)
  BY <1>1 DEF Roots
<1>3. IsSlots(localData')
  <2>1. IsSlots(localData) /\ IsSlot(localData[1])
    BY DEF BaseInv, IsSlots
  <2>2. localData' = [localData EXCEPT ![1] = [localData[1] EXCEPT !.time = end]]
    BY DEF SolveTo
  <2> QED
    BY <2>1, <2>2, SlotMoved, SlotsPut
<1>4. crossings' \in 0 .. model.crossings
  <2>1. model.crossings \in Nat /\ crossings \in 0 .. model.crossings
    BY ModelFacts DEF BaseInv
  <2> QED
    BY <1>2, <2>1 DEF SolveTo
<1> QED
  BY <1>2, <1>3, <1>4 DEF SolveTo, BaseInv, Samples

(* Timers that are popped or fired are activations. *)
LEMMA TimersStay ==
  ASSUME BaseInv, NEW n \in 0 .. Len(timers), NEW k \in 0 .. Len(timers)
  PROVE  /\ SubSeq(timers, n + 1, Len(timers)) \in Seq(activations)
         /\ Fired(k) \subseteq activations
<1>1. timers \in Seq(activations)
  BY DEF BaseInv
<1>2. \A i \in 1 .. k : timers[i] \in activations
  BY <1>1
<1> QED
  BY <1>1, <1>2, Popped DEF Fired

(* handleTimers writes to the first slot and pops the list. *)
LEMMA BaseTimers ==
  ASSUME BaseInv, NEW n \in 0 .. Len(timers), NEW k \in 0 .. Len(timers),
         HandleTimers(n, k, localData[1])
  PROVE  /\ IsSlots(localData')
         /\ timers' \in Seq(activations)
         /\ localData'[1].seen = localData[1].seen \cup Fired(k)
         /\ localData'[1].time = localData[1].time
         /\ localData'[2] = localData[2] /\ localData'[3] = localData[3]
<1>1. IsSlots(localData) /\ IsSlot(localData[1])
  BY DEF BaseInv, IsSlots
<1>2. localData' = [localData EXCEPT ![1] =
                      [localData[1] EXCEPT !.seen = localData[1].seen \cup Fired(k)]]
  BY DEF HandleTimers
<1>3. timers' \in Seq(activations)
  BY TimersStay DEF HandleTimers
<1> DEFINE slot == [localData[1] EXCEPT !.seen = localData[1].seen \cup Fired(k)]
<1>4. /\ IsSlot(slot) /\ slot.time = localData[1].time
      /\ slot.seen = localData[1].seen \cup Fired(k)
  BY <1>1, SlotSeen
<1> HIDE DEF slot
<1>5. /\ IsSlots(localData') /\ localData'[1] = slot
      /\ localData'[2] = localData[2] /\ localData'[3] = localData[3]
  <2>1. localData' = [localData EXCEPT ![1] = slot]
    BY <1>2 DEF slot
  <2> QED
    BY <1>1, <1>4, <2>1, SlotsPut
<1> QED
  BY <1>3, <1>4, <1>5

(* updateContinuousSystem keeps the types. *)
LEMMA BaseUpdate ==
  ASSUME BaseInv, UpdateContinuousSystem
  PROVE  BaseInv'
<1> DEFINE n == Cardinality(DueTimers)
<1>1. n \in 0 .. Len(timers)
  BY DueFacts DEF BaseInv
<1>2. HandleTimers(n, n, localData[1])
  BY DEF UpdateContinuousSystem
<1> HIDE DEF n
<1>3. IsSlots(localData') /\ timers' \in Seq(activations)
  BY <1>1, <1>2, BaseTimers
<1>4. syncRet' \in 0 .. 2
  BY DEF UpdateContinuousSystem, TimersReturn
<1> QED
  BY <1>3, <1>4 DEF UpdateContinuousSystem, BaseInv, bounds, histVars, Samples

(* checkEvents keeps the types. *)
LEMMA BaseCheck ==
  ASSUME BaseInv, CheckEvents
  PROVE  BaseInv'
<1> DEFINE found == crossing # 0 \/ eventLst
           root == IF crossing # 0 /\ ~model.rootFinding THEN crossing ELSE localData[1].time
           event == found \/ sampleActivated \/ syncRet = 2
<1>1. IsSlots(localData) /\ IsSlot(localData[1]) /\ localData[1].time \in Int
  BY DEF BaseInv, IsSlots, IsSlot
<1>2. root \in Int /\ found \in BOOLEAN /\ event \in BOOLEAN
  BY <1>1 DEF BaseInv
<1>3. /\ eventLst' = found
      /\ currentTime' = IF found THEN root ELSE currentTime
      /\ localData' = IF found THEN [localData EXCEPT ![1] = [localData[1] EXCEPT !.time = root]]
                      ELSE localData
      /\ pc' = IF event THEN "event" ELSE "finish"
      /\ didEventStep' = (event /\ didEventStep)
  BY DEF CheckEvents
<1> HIDE DEF found, root, event
<1>4. IsSlots(localData')
  BY <1>1, <1>2, <1>3, SlotMoved, SlotsPut
<1>5. /\ eventLst' \in BOOLEAN /\ currentTime' \in Int /\ didEventStep' \in BOOLEAN
      /\ pc' \in {"event", "finish"}
  BY <1>2, <1>3 DEF BaseInv
<1> QED
  BY <1>4, <1>5 DEF CheckEvents, BaseInv, bounds, histVars, Samples

(* An index modulo the length of the ring is one of its places. *)
LEMMA Remainders ==
  ASSUME NEW a \in Nat, NEW n \in Nat \ {0}
  PROVE  a % n \in 0 .. n - 1
  OBVIOUS

(* Counting an event writes one place of the ring and goes on to the next. *)
LEMMA RingCounted ==
  ASSUME chat \in Rings, eventLst \in BOOLEAN, NEW time \in Int, CountEvent(time)
  PROVE  /\ chat' \in Rings
         /\ chat'.idx = (chat.idx + 1) % NumEventLimit
         /\ chat'.num = chat.num - chat.last[chat.idx] + (IF eventLst THEN 1 ELSE 0)
         /\ chat'.emitted = (chat.emitted \/ Chatters(time))
         /\ chat'.last = [chat.last EXCEPT ![chat.idx] = IF eventLst THEN 1 ELSE 0]
         /\ chat'.times = IF eventLst THEN [chat.times EXCEPT ![chat.idx] = time] ELSE chat.times
<1> DEFINE this == IF eventLst THEN 1 ELSE 0
<1>1. /\ chat.last \in [0 .. NumEventLimit - 1 -> 0 .. 1]
      /\ chat.times \in [0 .. NumEventLimit - 1 -> Int]
      /\ chat.idx \in 0 .. NumEventLimit - 1
      /\ chat.num \in Int /\ chat.emitted \in BOOLEAN
  BY DEF Rings
<1>2. /\ chat' = [last |-> [chat.last EXCEPT ![chat.idx] = this],
                  times |-> IF eventLst THEN [chat.times EXCEPT ![chat.idx] = time]
                            ELSE chat.times,
                  idx |-> (chat.idx + 1) % NumEventLimit,
                  num |-> chat.num - chat.last[chat.idx] + this,
                  emitted |-> chat.emitted \/ Chatters(time)]
  BY DEF CountEvent
<1>3. this \in 0 .. 1
  OBVIOUS
<1> HIDE DEF this
<1>4. /\ chat'.last = [chat.last EXCEPT ![chat.idx] = this]
      /\ chat'.times = IF eventLst THEN [chat.times EXCEPT ![chat.idx] = time] ELSE chat.times
      /\ chat'.idx = (chat.idx + 1) % NumEventLimit
      /\ chat'.num = chat.num - chat.last[chat.idx] + this
      /\ chat'.emitted = (chat.emitted \/ Chatters(time))
  BY <1>2
<1>5. chat'.last \in [0 .. NumEventLimit - 1 -> 0 .. 1]
  BY <1>1, <1>3, <1>4
<1>6. chat'.times \in [0 .. NumEventLimit - 1 -> Int]
  BY <1>1, <1>4
<1>7. chat'.idx \in 0 .. NumEventLimit - 1
  <2>1. NumEventLimit \in Nat \ {0} /\ chat.idx + 1 \in Nat
    BY <1>1, LoopAssumption
  <2> QED
    BY <1>4, <2>1, Remainders
<1>8. chat'.num \in Int
  <2> DEFINE left == chat.last[chat.idx]
  <2>1. left \in 0 .. 1
    BY <1>1
  <2>2. chat'.num = chat.num - left + this
    BY <1>4
  <2> HIDE DEF left
  <2>3. left \in Int /\ this \in Int /\ chat.num \in Int
    BY <1>1, <1>3, <2>1
  <2> QED
    BY <2>2, <2>3
<1>9. chat'.emitted \in BOOLEAN
  <2>1. Chatters(time) \in BOOLEAN
    BY DEF Chatters
  <2> QED
    BY <1>1, <1>4, <2>1
<1>10. chat' = [last |-> chat'.last, times |-> chat'.times, idx |-> chat'.idx,
                num |-> chat'.num, emitted |-> chat'.emitted]
  BY <1>2, <1>4
<1>11. chat' \in Rings
  BY <1>5, <1>6, <1>7, <1>8, <1>9, <1>10 DEF Rings
<1> QED
  BY <1>4, <1>11 DEF this

(* A Boolean clock that fires adds one activation and one timer. *)
LEMMA ClockFired ==
  ASSUME BaseInv, FireBooleanClock
  PROVE  /\ activations \subseteq activations'
         /\ \A a \in activations' : a.at \in Int /\ a.hold \in BOOLEAN
         /\ timers' \in Seq(activations')
<1>1. timers \in Seq(activations) /\ \A a \in activations : a.at \in Int /\ a.hold \in BOOLEAN
  BY DEF BaseInv
<1>2. CASE eventLst /\ model.clock # 0
  <2> DEFINE tick == Clock(Cardinality(activations), currentTime, model.clock = 2)
  <2>1. tick.at \in Int /\ tick.hold \in BOOLEAN
    BY DEF BaseInv, Clock
  <2>2. timers' = InsertTimer(timers, tick) /\ activations' = activations \cup {tick}
    BY <1>2 DEF FireBooleanClock
  <2> HIDE DEF tick
  <2>3. timers \in Seq(activations') /\ tick \in activations'
    BY <1>1, <2>2
  <2>4. InsertTimer(timers, tick) \in Seq(activations')
    BY <2>3, Inserted
  <2> QED
    BY <1>1, <2>1, <2>2, <2>4
<1>3. CASE ~(eventLst /\ model.clock # 0)
  BY <1>1, <1>3 DEF FireBooleanClock
<1> QED
  BY <1>2, <1>3

(* handleEvents keeps the types. *)
LEMMA BaseEvents ==
  ASSUME BaseInv, HandleEvents
  PROVE  BaseInv'
<1>1. IsSlot(localData[1]) /\ localData[1].time \in Int
  BY DEF BaseInv, IsSlots, IsSlot
<1>2. IsSlots(localData')
  <2> DEFINE effects == localData[1].seen \cup {Sample(i, nextSampleTimes[i]) : i \in Activated}
             slot == [localData[1] EXCEPT !.seen = effects]
  <2>1. IsSlot(slot)
    BY <1>1, SlotSeen
  <2>2. localData' = Overwrite(slot)
    BY DEF HandleEvents
  <2> HIDE DEF slot
  <2> QED
    BY <2>1, <2>2, SlotsOverwrite
<1>3. nextSampleTimes' \in [Samples -> Nat]
  <2>1. \A i \in Samples : nextSampleTimes[i] \in Nat /\ model.samples[i].interval \in Nat
    BY ModelFacts DEF BaseInv
  <2> QED
    BY <2>1 DEF HandleEvents
<1>4. chat' \in Rings
  BY <1>1, RingCounted DEF HandleEvents, BaseInv
<1>5. /\ activations \subseteq activations'
      /\ \A a \in activations' : a.at \in Int /\ a.hold \in BOOLEAN
      /\ timers' \in Seq(activations')
  BY ClockFired DEF HandleEvents
<1>6. handled' \in Events /\ Len(handled') <= NumEventLimit
  <2> DEFINE event == [state |-> eventLst, time |-> localData[1].time]
             all == Append(handled, event)
  <2>1. event \in [state : BOOLEAN, time : Int]
    BY <1>1 DEF BaseInv
  <2>2. handled \in Events /\ Len(handled) <= NumEventLimit /\ NumEventLimit \in Nat
    BY LoopAssumption DEF BaseInv
  <2>3. handled' = IF Len(all) > NumEventLimit THEN Tail(all) ELSE all
    BY DEF HandleEvents
  <2> HIDE DEF event
  <2>4. /\ all \in Events /\ Len(all) = Len(handled) + 1 /\ Len(handled) \in Nat
        /\ all # <<>>
    BY <2>1, <2>2, Appended DEF Events
  <2> HIDE DEF all
  <2>5. Tail(all) \in Events /\ Len(Tail(all)) = Len(all) - 1
    BY <2>4, Appended DEF Events
  <2>6. CASE Len(all) > NumEventLimit
    <3>1. handled' = Tail(all)
      BY <2>3, <2>6
    <3> QED
      BY <2>2, <2>4, <2>5, <3>1
  <2>7. CASE ~(Len(all) > NumEventLimit)
    BY <2>2, <2>3, <2>4, <2>7
  <2> QED
    BY <2>6, <2>7
<1>7. undone' \subseteq activations'
  BY <1>5 DEF HandleEvents, BaseInv
<1> QED
  BY <1>2, <1>3, <1>4, <1>5, <1>6, <1>7 DEF HandleEvents, BaseInv, bounds, Samples

(* The end of simulationUpdate keeps the types. *)
LEMMA BaseFinish ==
  ASSUME BaseInv, NEW selected \in BOOLEAN, FinishUpdate(selected)
  PROVE  BaseInv'
<1> DEFINE n == Cardinality(DueTimers)
           after == [localData[1] EXCEPT !.seen = localData[1].seen \cup Fired(n)]
<1>1. n \in 0 .. Len(timers)
  BY DueFacts DEF BaseInv
<1>2. IsSlots(localData) /\ IsSlot(localData[1])
  BY DEF BaseInv, IsSlots
<1>3. /\ timers' = SubSeq(timers, n + 1, Len(timers))
      /\ old' = localData[1]
      /\ localData' = IF selected THEN <<after, localData[1], localData[1]>>
                      ELSE [localData EXCEPT ![1] = after]
  BY DEF FinishUpdate
<1>4. IsSlot(after)
  BY <1>2, SlotSeen
<1> HIDE DEF n, after
<1>5. timers' \in Seq(activations)
  BY <1>1, <1>3, TimersStay
<1>6. IsSlots(localData')
  BY <1>2, <1>3, <1>4, SlotsPut, SlotsTuple
<1>7. restarts' \in 0 .. model.restarts
  BY ModelFacts DEF FinishUpdate, MayRestart, BaseInv
<1>8. TimersReturn \in 0 .. 2
  BY DEF TimersReturn
<1>9. /\ syncRet' \in 0 .. 2 /\ pc' \in {"emit", "check"}
      /\ syncStep' \in BOOLEAN /\ retry' \in BOOLEAN /\ restart' \in BOOLEAN
      /\ didEventStep' \in BOOLEAN
  BY <1>8 DEF FinishUpdate, BaseInv
<1> QED
  BY <1>2, <1>3, <1>5, <1>6, <1>7, <1>9 DEF FinishUpdate, BaseInv, Samples

(* Emitting a step keeps the types. *)
LEMMA BaseEmit ==
  ASSUME BaseInv, NEW input \in BOOLEAN, NEW terminated \in BOOLEAN, EmitStep(input, terminated)
  PROVE  BaseInv'
<1>1. IsSlots(localData) /\ IsSlot(localData[1]) /\ IsSlot(old)
  BY DEF BaseInv, IsSlots
<1>2. IsSlots(localData') /\ IsSlot(old') /\ IsSlot(accepted')
  BY <1>1, SlotsOverwrite DEF EmitStep
<1>3. restarts' \in 0 .. model.restarts
  BY ModelFacts DEF EmitStep, MayRestart, BaseInv
<1>4. didEventStep' \in BOOLEAN /\ restart' \in BOOLEAN /\ stopTime' \in Int
  BY DEF EmitStep, BaseInv
<1> QED
  BY <1>2, <1>3, <1>4 DEF EmitStep, BaseInv, eventVars, Samples

(* An assertion keeps the types of what it leaves alone. *)
LEMMA BaseThrow ==
  ASSUME BaseInv, Throw, crossing' = crossing, eventLst' \in BOOLEAN,
         IsSlots(localData'), timers' \in Seq(activations)
  PROVE  BaseInv'
<1>1. throws' \in 0 .. model.throws
  BY ModelFacts DEF Throw, BaseInv
<1> QED
  BY <1>1 DEF Throw, BaseInv, Samples

(* The three places of assertions keep the types. *)
LEMMA BaseThrows ==
  ASSUME BaseInv, ThrowInUpdate \/ ThrowInFindRoot \/ ThrowInFinish
  PROVE  BaseInv'
<1>1. IsSlots(localData) /\ timers \in Seq(activations) /\ eventLst \in BOOLEAN
  BY DEF BaseInv
<1>2. CASE ThrowInUpdate
  <2>1. IsSlots(localData') /\ timers' \in Seq(activations)
    <3>1. CASE UNCHANGED <<timers, localData>>
      BY <1>1, <3>1
    <3>2. ASSUME NEW n \in DueTimers, HandleTimers(n, n - 1, localData[1])
          PROVE  IsSlots(localData') /\ timers' \in Seq(activations)
      <4>1. n \in 0 .. Len(timers) /\ n - 1 \in 0 .. Len(timers)
        BY <1>1, DueFacts
      <4> QED
        BY <3>2, <4>1, BaseTimers
    <3> QED
      BY <1>2, <3>1, <3>2 DEF ThrowInUpdate
  <2> QED
    BY <1>1, <1>2, <2>1, BaseThrow DEF ThrowInUpdate
<1>3. CASE ThrowInFindRoot
  BY <1>1, <1>3, BaseThrow DEF ThrowInFindRoot
<1>4. CASE ThrowInFinish
  BY <1>1, <1>4, BaseThrow DEF ThrowInFinish
<1> QED
  BY <1>2, <1>3, <1>4

(* retrySimulationStep keeps the types. *)
LEMMA BaseRetry ==
  ASSUME BaseInv, Retry
  PROVE  BaseInv'
<1>1. IsSlot(old) /\ old.time \in Int
  BY DEF BaseInv, IsSlot
<1>2. IsSlots(localData') /\ IsSlot(accepted')
  BY <1>1, SlotsOverwrite DEF Retry
<1>3. undone' \subseteq activations
  BY DEF Retry, Consumed
<1> QED
  BY <1>1, <1>2, <1>3 DEF Retry, BaseInv, bounds, Samples

(* The steps that end the run change only pc, and an assertion is counted. *)
LEMMA BaseEnd ==
  ASSUME BaseInv, pc' = "done", throws' \in 0 .. model.throws,
         UNCHANGED <<currentStepSize, currStepNo, didEventStep, syncStep, syncRet, retry,
                     timeVars, eventVars, model, crossings, restarts, histVars>>
  PROVE  BaseInv'
  BY DEF BaseInv, timeVars, eventVars, histVars, Samples

(* The ways out of the loop keep the types. *)
LEMMA BaseEnds ==
  ASSUME BaseInv, LeaveLoop \/ AbortSlow \/ Terminate \/ BreakLoop \/ ThrowInEvent
  PROVE  BaseInv'
<1>1. throws \in 0 .. model.throws /\ model.throws \in Nat
  BY ModelFacts DEF BaseInv
<1>2. CASE LeaveLoop
  BY <1>1, <1>2, BaseEnd DEF LeaveLoop, bounds
<1>3. CASE AbortSlow
  BY <1>1, <1>3, BaseEnd DEF AbortSlow, AbortInEvent
<1>4. CASE Terminate
  BY <1>1, <1>4, BaseEnd DEF Terminate, bounds
<1>5. CASE BreakLoop
  BY <1>1, <1>5, BaseEnd DEF BreakLoop, bounds
<1>6. CASE ThrowInEvent
  <2>1. throws' \in 0 .. model.throws
    BY <1>1, <1>6 DEF ThrowInEvent
  <2> QED
    BY <1>6, <2>1, BaseEnd DEF ThrowInEvent, AbortInEvent
<1> QED
  BY <1>2, <1>3, <1>4, <1>5, <1>6

(* Both solvers keep the types. *)
LEMMA BaseSolvers ==
  ASSUME BaseInv, EulerStep \/ DasslStep
  PROVE  BaseInv'
<1>1. /\ currentTime \in Int /\ currentStepSize \in Int /\ sampleActivated \in BOOLEAN
      /\ localData[2].time \in Int /\ old.time \in Int
  BY DEF BaseInv, IsSlots, IsSlot
<1>2. CASE EulerStep
  <2> DEFINE end == localData[2].time + currentStepSize
  <2>1. PICK root \in Roots(old.time, end) : SolveTo(end, root)
    BY <1>2 DEF EulerStep
  <2>2. end \in Int /\ sampleActivated' \in BOOLEAN
    BY <1>1, <1>2 DEF EulerStep
  <2> HIDE DEF end
  <2> QED
    BY <2>1, <2>2, BaseSolve
<1>3. CASE DasslStep
  <2> DEFINE tout == currentTime + currentStepSize
  <2>1. PICK root \in Roots(currentTime, tout) :
               SolveTo(IF root = 0 THEN tout ELSE root, root)
    BY <1>3 DEF DasslStep
  <2> DEFINE end == IF root = 0 THEN tout ELSE root
  <2>2. tout \in Int /\ root \in Int
    BY <1>1, <2>1 DEF Roots
  <2>3. end \in Int /\ SolveTo(end, root)
    BY <2>1, <2>2
  <2>4. sampleActivated' \in BOOLEAN
    BY <1>3 DEF DasslStep
  <2>5. root \in Roots(currentTime, end)
    <3>1. CASE root = 0
      BY <3>1 DEF Roots
    <3>2. CASE root # 0
      <4>1. crossings < model.crossings /\ root \in currentTime + 1 .. tout
        BY <2>1, <3>2 DEF Roots
      <4>2. root \in currentTime + 1 .. end
        BY <1>1, <2>2, <3>2, <4>1
      <4> QED
        BY <4>1, <4>2 DEF Roots
    <3> QED
      BY <3>1, <3>2
  <2> HIDE DEF end
  <2> QED
    BY <2>3, <2>4, <2>5, BaseSolve
<1> QED
  BY <1>2, <1>3

(* A step that is skipped or taken keeps the types. *)
LEMMA BaseHeads ==
  ASSUME BaseInv, SkipStep \/ NextStep
  PROVE  BaseInv'
<1>1. StepNo \in Nat
  BY StepSizes
<1>2. CASE SkipStep
  <2>1. currStepNo' \in Nat
    BY <1>1, <1>2 DEF SkipStep
  <2>2. LoopHead /\ pc' = "head"
    BY <1>2 DEF SkipStep, LoopHead
  <2> QED
    BY <2>1, <2>2, BaseHead
<1>3. CASE NextStep
  <2>1. currStepNo' \in Nat /\ LoopHead /\ pc' = "solve"
    BY <1>1, <1>3 DEF NextStep
  <2> QED
    BY <2>1, BaseHead
<1> QED
  BY <1>2, <1>3

(* Every step keeps the types. *)
LEMMA BaseNext ==
  ASSUME BaseInv, [Next]_vars
  PROVE  BaseInv'
<1>1. CASE Step
  <2>1. CASE SkipStep \/ NextStep
    BY <2>1, BaseHeads
  <2>2. CASE EulerStep \/ DasslStep
    BY <2>2, BaseSolvers
  <2>3. CASE UpdateContinuousSystem \/ CheckEvents \/ HandleEvents
    BY <2>3, BaseUpdate, BaseCheck, BaseEvents
  <2>4. CASE \E selected \in BOOLEAN : FinishUpdate(selected)
    BY <2>4, BaseFinish
  <2>5. CASE \E input, terminated \in BOOLEAN : EmitStep(input, terminated)
    BY <2>5, BaseEmit
  <2>6. CASE LeaveLoop \/ AbortSlow \/ Terminate
    BY <2>6, BaseEnds
  <2>7. CASE Retry
    BY <2>7, BaseRetry
  <2> QED
    BY <1>1, <2>1, <2>2, <2>3, <2>4, <2>5, <2>6, <2>7 DEF Step
<1>2. CASE BreakLoop \/ ThrowInEvent
  BY <1>2, BaseEnds
<1>3. CASE ThrowInUpdate \/ ThrowInFindRoot \/ ThrowInFinish
  BY <1>3, BaseThrows
<1>4. CASE UNCHANGED vars
  BY <1>4 DEF vars, loopVars, timeVars, eventVars, bounds, histVars, BaseInv, Samples
<1> QED
  BY <1>1, <1>2, <1>3, <1>4 DEF Next

(* The types are an invariant, whatever the scenarios are. *)
LEMMA Types == Spec => []BaseInv
<1>1. BaseInv /\ [Next]_vars => BaseInv'
  BY BaseNext
<1> QED
  BY <1>1, BaseInit, PTL DEF Spec

-----------------------------------------------------------------------------
(* Chattering.  The ring of chatteringInfo holds the last events: the place
   written next is that of the oldest one. *)

Age(ring, j) == 1 + (IF j >= ring.idx THEN j - ring.idx ELSE j - ring.idx + NumEventLimit)
Position(ring, events, j) == Age(ring, j) - NumEventLimit + Len(events)
StatePlaces(ring) == {j \in 0 .. NumEventLimit - 1 : ring.last[j] = 1}

RingInv ==
    \A j \in 0 .. NumEventLimit - 1 :
        IF Position(chat, handled, j) > 0
        THEN /\ chat.last[j] = 1 <=> handled[Position(chat, handled, j)].state
             /\ handled[Position(chat, handled, j)].state => chat.times[j] = handled[Position(chat, handled, j)].time
        ELSE chat.last[j] = 0

ChatInv == BaseInv /\ RingInv /\ chat.num = Cardinality(StatePlaces(chat))

(* The last event of the ring is the newest, and every event has a place. *)
LEMMA Places ==
  ASSUME NEW ring, NEW events, ring.idx \in 0 .. NumEventLimit - 1,
         Len(events) \in 0 .. NumEventLimit
  PROVE  /\ NumEventLimit \in Nat \ {0}
         /\ \A j \in 0 .. NumEventLimit - 1 : /\ Age(ring, j) \in 1 .. NumEventLimit
                                              /\ Position(ring, events, j) \in Int
                                              /\ Position(ring, events, j) <= Len(events)
                                              /\ Age(ring, j) = 1 <=> j = ring.idx
         /\ \A p \in 1 .. Len(events) : \E j \in 0 .. NumEventLimit - 1 : Position(ring, events, j) = p
<1>1. NumEventLimit \in Nat \ {0}
  BY LoopAssumption
<1>2. ring.idx \in 0 .. NumEventLimit - 1
  OBVIOUS
<1>3. Len(events) \in 0 .. NumEventLimit
  OBVIOUS
<1>4. \A j \in 0 .. NumEventLimit - 1 : /\ Age(ring, j) \in 1 .. NumEventLimit
                                        /\ Position(ring, events, j) \in Int
                                        /\ Position(ring, events, j) <= Len(events)
                                        /\ Age(ring, j) = 1 <=> j = ring.idx
  <2> DEFINE i == ring.idx
             n == Len(events)
  <2>1. i \in 0 .. NumEventLimit - 1 /\ n \in 0 .. NumEventLimit
    BY <1>2, <1>3
  <2>2. \A j : Age(ring, j) = 1 + (IF j >= i THEN j - i ELSE j - i + NumEventLimit)
    BY DEF Age
  <2>3. \A j : Position(ring, events, j) = Age(ring, j) - NumEventLimit + n
    BY DEF Position
  <2> HIDE DEF i, n
  <2>4. ASSUME NEW j \in 0 .. NumEventLimit - 1
        PROVE  Age(ring, j) \in 1 .. NumEventLimit /\ (Age(ring, j) = 1 <=> j = i)
    BY <1>1, <2>1, <2>2
  <2>5. ASSUME NEW j \in 0 .. NumEventLimit - 1
        PROVE  Position(ring, events, j) \in Int /\ Position(ring, events, j) <= n
    BY <1>1, <2>1, <2>3, <2>4
  <2> QED
    BY <2>4, <2>5 DEF i, n
<1>5. ASSUME NEW p \in 1 .. Len(events)
      PROVE  \E j \in 0 .. NumEventLimit - 1 : Position(ring, events, j) = p
  <2> DEFINE i == ring.idx
             n == Len(events)
             a == p + NumEventLimit - n
             j == IF i + a - 1 < NumEventLimit THEN i + a - 1 ELSE i + a - 1 - NumEventLimit
  <2>1. i \in 0 .. NumEventLimit - 1 /\ n \in 0 .. NumEventLimit /\ p \in 1 .. n
    BY <1>2, <1>3
  <2>2. Age(ring, j) = 1 + (IF j >= i THEN j - i ELSE j - i + NumEventLimit)
    BY DEF Age
  <2>3. Position(ring, events, j) = Age(ring, j) - NumEventLimit + n
    BY DEF Position
  <2> HIDE DEF i, n
  <2>4. a \in 1 .. NumEventLimit
    BY <1>1, <2>1
  <2>5. j \in 0 .. NumEventLimit - 1
    BY <1>1, <2>1, <2>4
  <2>6. Age(ring, j) = a
    BY <1>1, <2>1, <2>2, <2>4
  <2>7. Position(ring, events, j) = p
    BY <1>1, <2>1, <2>3, <2>6
  <2> QED
    BY <2>5, <2>7
<1> QED
  BY <1>1, <1>2, <1>3, <1>4, <1>5

(* The places of the ring. *)
LEMMA RingTypes ==
  ASSUME BaseInv
  PROVE  /\ NumEventLimit \in Nat \ {0}
         /\ chat.idx \in 0 .. NumEventLimit - 1
         /\ Len(handled) \in 0 .. NumEventLimit
<1>1. NumEventLimit \in Nat \ {0}
  BY LoopAssumption
<1>2. chat.idx \in 0 .. NumEventLimit - 1
  BY DEF BaseInv, Rings
<1>3. Len(handled) \in 0 .. NumEventLimit
  <2>1. Len(handled) \in Nat /\ Len(handled) <= NumEventLimit
    BY DEF BaseInv, Events
  <2> QED
    BY <1>1, <2>1
<1> QED
  BY <1>1, <1>2, <1>3

(* The places of the ring after a step. *)
LEMMA RingTypesNext ==
  ASSUME BaseInv'
  PROVE  /\ chat'.idx \in 0 .. NumEventLimit - 1
         /\ Len(handled') \in 0 .. NumEventLimit
<1>1. NumEventLimit \in Nat \ {0}
  BY LoopAssumption
<1>2. chat'.idx \in 0 .. NumEventLimit - 1
  BY DEF BaseInv, Rings
<1>3. Len(handled') \in Nat /\ Len(handled') <= NumEventLimit
  BY DEF BaseInv, Events
<1> QED
  BY <1>1, <1>2, <1>3

(* An event that is handled: the entries of the ring are those before it, and
   its own. *)
LEMMA NextPlaces ==
  ASSUME BaseInv, HandleEvents
  PROVE  LET all == Append(handled, [state |-> eventLst, time |-> localData[1].time])
         IN  /\ chat'.idx = IF chat.idx + 1 = NumEventLimit THEN 0 ELSE chat.idx + 1
             /\ \A j \in 0 .. NumEventLimit - 1 :
                   /\ j # chat.idx => /\ Age(chat', j) = Age(chat, j) - 1
                                      /\ chat'.last[j] = chat.last[j]
                                      /\ chat'.times[j] = chat.times[j]
                   /\ j = chat.idx => /\ Age(chat', j) = NumEventLimit
                                      /\ chat'.last[j] = (IF eventLst THEN 1 ELSE 0)
                                      /\ eventLst => chat'.times[j] = localData[1].time
             /\ Len(all) = Len(handled) + 1
             /\ all[Len(all)] = [state |-> eventLst, time |-> localData[1].time]
             /\ \A p \in 1 .. Len(handled) : all[p] = handled[p]
             /\ Len(handled) < NumEventLimit => handled' = all
             /\ Len(handled) = NumEventLimit =>
                   /\ Len(handled') = NumEventLimit
                   /\ \A p \in 1 .. NumEventLimit : handled'[p] = all[p + 1]
<1> DEFINE event == [state |-> eventLst, time |-> localData[1].time]
           all == Append(handled, event)
           i == chat.idx
<1>1. /\ NumEventLimit \in Nat \ {0} /\ i \in 0 .. NumEventLimit - 1
      /\ Len(handled) \in 0 .. NumEventLimit
  BY RingTypes, Places
<1>2. /\ chat \in Rings /\ eventLst \in BOOLEAN /\ localData[1].time \in Int
      /\ CountEvent(localData[1].time)
  BY DEF BaseInv, IsSlots, IsSlot, HandleEvents
<1>3. /\ chat'.idx = (i + 1) % NumEventLimit
      /\ chat'.last = [chat.last EXCEPT ![i] = IF eventLst THEN 1 ELSE 0]
      /\ chat'.times = IF eventLst THEN [chat.times EXCEPT ![i] = localData[1].time]
                       ELSE chat.times
  BY <1>2, RingCounted
<1>4. /\ chat.last \in [0 .. NumEventLimit - 1 -> 0 .. 1]
      /\ chat.times \in [0 .. NumEventLimit - 1 -> Int]
  BY <1>2 DEF Rings
<1>5. \A j : Age(chat, j) = 1 + (IF j >= i THEN j - i ELSE j - i + NumEventLimit)
  BY DEF Age
<1>6. \A j : Age(chat', j) = 1 + (IF j >= chat'.idx THEN j - chat'.idx
                            ELSE j - chat'.idx + NumEventLimit)
  BY DEF Age
<1>7. handled \in Events /\ event \in [state : BOOLEAN, time : Int]
  BY <1>2 DEF BaseInv
<1>8. handled' = IF Len(all) > NumEventLimit THEN Tail(all) ELSE all
  BY DEF HandleEvents
<1> HIDE DEF i, event
<1>9. chat'.idx = IF i + 1 = NumEventLimit THEN 0 ELSE i + 1
  <2>1. (i + 1) % NumEventLimit = IF i + 1 = NumEventLimit THEN 0 ELSE i + 1
    <3>1. \A a \in Nat, n \in Nat \ {0} : a < n => a % n = a
      OBVIOUS
    <3>2. \A n \in Nat \ {0} : n % n = 0
      OBVIOUS
    <3>3. CASE i + 1 = NumEventLimit
      BY <1>1, <3>2, <3>3
    <3>4. CASE i + 1 # NumEventLimit
      <4>1. i + 1 \in Nat /\ i + 1 < NumEventLimit
        BY <1>1, <3>4
      <4> QED
        BY <1>1, <3>1, <3>4, <4>1
    <3> QED
      BY <3>3, <3>4
  <2> QED
    BY <1>3, <2>1
<1>10. ASSUME NEW j \in 0 .. NumEventLimit - 1
       PROVE  /\ j # i => /\ chat'.last[j] = chat.last[j]
                          /\ chat'.times[j] = chat.times[j]
              /\ j = i => /\ chat'.last[j] = (IF eventLst THEN 1 ELSE 0)
                          /\ eventLst => chat'.times[j] = localData[1].time
  BY <1>1, <1>3, <1>4
<1>11. ASSUME NEW j \in 0 .. NumEventLimit - 1
       PROVE  /\ j # i => Age(chat', j) = Age(chat, j) - 1
              /\ j = i => Age(chat', j) = NumEventLimit
  <2> DEFINE k == chat'.idx
             old_age == Age(chat, j)
             new_age == Age(chat', j)
  <2>1. /\ old_age = 1 + (IF j >= i THEN j - i ELSE j - i + NumEventLimit)
        /\ new_age = 1 + (IF j >= k THEN j - k ELSE j - k + NumEventLimit)
        /\ k = IF i + 1 = NumEventLimit THEN 0 ELSE i + 1
    BY <1>5, <1>6, <1>9
  <2> HIDE DEF k, old_age, new_age
  <2>2. /\ j # i => new_age = old_age - 1
        /\ j = i => new_age = NumEventLimit
    BY <1>1, <2>1
  <2> QED
    BY <2>2 DEF old_age, new_age
<1>12. /\ Len(all) = Len(handled) + 1
       /\ all[Len(all)] = event
       /\ \A p \in 1 .. Len(handled) : all[p] = handled[p]
       /\ all \in Seq([state : BOOLEAN, time : Int])
  BY <1>7, AppendProperties DEF Events
<1> HIDE DEF all
<1>13. Len(handled) < NumEventLimit => handled' = all
  BY <1>1, <1>8, <1>12
<1>14. ASSUME Len(handled) = NumEventLimit
       PROVE  /\ Len(handled') = NumEventLimit
              /\ \A p \in 1 .. NumEventLimit : handled'[p] = all[p + 1]
  <2>1. handled' = Tail(all) /\ Len(all) = NumEventLimit + 1
    BY <1>1, <1>8, <1>12, <1>14
  <2>2. all # <<>>
    BY <1>1, <1>12, <2>1
  <2>3. Len(Tail(all)) = Len(all) - 1 /\ \A p \in 1 .. Len(all) - 1 : Tail(all)[p] = all[p + 1]
    BY <1>12, <2>2, HeadTailProperties
  <2> QED
    BY <1>1, <2>1, <2>3
<1> QED
  BY <1>9, <1>10, <1>11, <1>12, <1>13, <1>14 DEF i, event, all

(* An event that is handled keeps the ring in accord with the last events. *)
LEMMA RingKept ==
  ASSUME BaseInv, BaseInv', RingInv, HandleEvents
  PROVE  RingInv'
<1> DEFINE event == [state |-> eventLst, time |-> localData[1].time]
           all == Append(handled, event)
<1>1. /\ NumEventLimit \in Nat \ {0} /\ chat.idx \in 0 .. NumEventLimit - 1
      /\ Len(handled) \in 0 .. NumEventLimit
      /\ \A j \in 0 .. NumEventLimit - 1 : /\ Age(chat, j) \in 1 .. NumEventLimit
                                           /\ Age(chat, j) = 1 <=> j = chat.idx
  BY RingTypes, Places
<1>2. event.state = eventLst /\ event.time = localData[1].time /\ eventLst \in BOOLEAN
  BY DEF BaseInv
<1> HIDE DEF event
<1>3. /\ \A j \in 0 .. NumEventLimit - 1 :
            /\ j # chat.idx => /\ Age(chat', j) = Age(chat, j) - 1
                               /\ chat'.last[j] = chat.last[j]
                               /\ chat'.times[j] = chat.times[j]
            /\ j = chat.idx => /\ Age(chat', j) = NumEventLimit
                               /\ chat'.last[j] = (IF eventLst THEN 1 ELSE 0)
                               /\ eventLst => chat'.times[j] = localData[1].time
      /\ Len(all) = Len(handled) + 1
      /\ all[Len(all)] = event
      /\ \A p \in 1 .. Len(handled) : all[p] = handled[p]
      /\ Len(handled) < NumEventLimit => handled' = all
      /\ Len(handled) = NumEventLimit =>
            /\ Len(handled') = NumEventLimit
            /\ \A p \in 1 .. NumEventLimit : handled'[p] = all[p + 1]
  BY NextPlaces DEF event
<1> HIDE DEF all
<1>4. \A j : /\ Position(chat, handled, j) = Age(chat, j) - NumEventLimit + Len(handled)
             /\ Position(chat', handled', j) = Age(chat', j) - NumEventLimit + Len(handled')
  BY DEF Position
<1>5. ASSUME NEW j \in 0 .. NumEventLimit - 1
      PROVE  IF Position(chat', handled', j) > 0
             THEN /\ chat'.last[j] = 1 <=> handled'[Position(chat', handled', j)].state
                  /\ handled'[Position(chat', handled', j)].state => chat'.times[j] = handled'[Position(chat', handled', j)].time
             ELSE chat'.last[j] = 0
  <2> DEFINE p == Position(chat, handled, j)
             q == Position(chat', handled', j)
             a == Age(chat, j)
             b == Age(chat', j)
  <2>1. /\ p = a - NumEventLimit + Len(handled)
        /\ q = b - NumEventLimit + Len(handled')
        /\ a \in 1 .. NumEventLimit
    BY <1>1, <1>4
  <2>2. IF p > 0
        THEN /\ chat.last[j] = 1 <=> handled[p].state
             /\ handled[p].state => chat.times[j] = handled[p].time
        ELSE chat.last[j] = 0
    BY DEF RingInv
  <2>3. CASE j = chat.idx
    <3>1. b = NumEventLimit
      BY <1>3, <2>3
    <3> HIDE DEF p, q, a, b
    <3>2. q = Len(handled')
      BY <1>1, <2>1, <3>1, <1>3
    <3>3. handled'[q] = event /\ q > 0
      <4>1. CASE Len(handled) < NumEventLimit
        BY <1>1, <1>3, <3>2, <4>1
      <4>2. CASE Len(handled) = NumEventLimit
        BY <1>1, <1>3, <3>2, <4>2
      <4> QED
        BY <1>1, <4>1, <4>2
    <3>4. chat'.last[j] = (IF eventLst THEN 1 ELSE 0) /\ (eventLst => chat'.times[j] = localData[1].time)
      BY <1>3, <2>3
    <3>5. /\ chat'.last[j] = 1 <=> handled'[q].state
          /\ handled'[q].state => chat'.times[j] = handled'[q].time
      BY <1>2, <3>3, <3>4
    <3> QED
      BY <3>3, <3>5 DEF q
  <2>4. CASE j # chat.idx
    <3>1. b = a - 1 /\ chat'.last[j] = chat.last[j] /\ chat'.times[j] = chat.times[j]
      BY <1>3, <2>4
    <3>2. a # 1
      BY <1>1, <2>4
    <3> HIDE DEF p, q, a, b
    <3>3. CASE Len(handled) < NumEventLimit
      <4>1. q = p
        <5> DEFINE n == Len(handled)
                   m == Len(handled')
        <5>1. m = n + 1
          BY <1>3, <3>3
        <5>2. p = a - NumEventLimit + n /\ q = b - NumEventLimit + m /\ b = a - 1
          BY <2>1, <3>1
        <5>3. n \in Int /\ a \in Int /\ NumEventLimit \in Int
          BY <1>1, <2>1
        <5> HIDE DEF n, m
        <5> QED
          BY <5>1, <5>2, <5>3
      <4>2. p > 0 => handled'[p] = handled[p]
        <5>1. p > 0 => p \in 1 .. Len(handled)
          BY <1>1, <2>1
        <5> QED
          BY <1>3, <3>3, <5>1
      <4>3. IF q > 0
            THEN /\ chat'.last[j] = 1 <=> handled'[q].state
                 /\ handled'[q].state => chat'.times[j] = handled'[q].time
            ELSE chat'.last[j] = 0
        BY <2>2, <3>1, <4>1, <4>2
      <4> QED
        BY <4>3 DEF q
    <3>4. CASE Len(handled) = NumEventLimit
      <4>1. p = a /\ q = p - 1 /\ q \in 1 .. NumEventLimit - 1 /\ p > 0
        <5> DEFINE n == Len(handled)
                   m == Len(handled')
        <5>1. m = NumEventLimit /\ n = NumEventLimit
          BY <1>3, <3>4
        <5>2. p = a - NumEventLimit + n /\ q = b - NumEventLimit + m /\ b = a - 1
          BY <2>1, <3>1
        <5>3. a \in 1 .. NumEventLimit /\ NumEventLimit \in Int /\ a # 1
          BY <1>1, <2>1, <3>2
        <5> HIDE DEF n, m
        <5> QED
          BY <5>1, <5>2, <5>3
      <4>2. handled'[q] = handled[p]
        <5>1. q \in 1 .. NumEventLimit /\ q + 1 = p /\ p \in 1 .. Len(handled)
          <6>1. NumEventLimit \in Int /\ a \in 1 .. NumEventLimit
            BY <1>1, <2>1
          <6>2. q \in 1 .. NumEventLimit /\ q + 1 = p /\ p \in 1 .. NumEventLimit
            BY <4>1, <6>1
          <6> QED
            BY <3>4, <6>2
        <5>2. handled'[q] = all[q + 1]
          BY <1>3, <3>4, <5>1
        <5>3. all[p] = handled[p]
          BY <1>3, <5>1
        <5> QED
          BY <5>1, <5>2, <5>3
      <4>3. /\ q > 0
            /\ chat'.last[j] = 1 <=> handled'[q].state
            /\ handled'[q].state => chat'.times[j] = handled'[q].time
        BY <2>2, <3>1, <4>1, <4>2
      <4> QED
        BY <4>3 DEF q
    <3> QED
      BY <1>1, <3>3, <3>4
  <2> QED
    BY <2>3, <2>4
<1> QED
  BY <1>5 DEF RingInv

(* The count of the ring is kept, too. *)
LEMMA CountKept ==
  ASSUME BaseInv, HandleEvents, chat.num = Cardinality(StatePlaces(chat))
  PROVE  chat'.num = Cardinality(StatePlaces(chat'))
<1> DEFINE i == chat.idx
           rest == StatePlaces(chat) \ {i}
<1>1. NumEventLimit \in Nat \ {0} /\ i \in 0 .. NumEventLimit - 1
  BY RingTypes, Places
<1>2. /\ chat \in Rings /\ eventLst \in BOOLEAN /\ localData[1].time \in Int
      /\ CountEvent(localData[1].time)
  BY DEF BaseInv, IsSlots, IsSlot, HandleEvents
<1>3. /\ chat'.num = chat.num - chat.last[i] + (IF eventLst THEN 1 ELSE 0)
      /\ chat'.last = [chat.last EXCEPT ![i] = IF eventLst THEN 1 ELSE 0]
  BY <1>2, RingCounted
<1>4. chat.last \in [0 .. NumEventLimit - 1 -> 0 .. 1]
  BY <1>2 DEF Rings
<1>5. IsFiniteSet(StatePlaces(chat)) /\ IsFiniteSet(rest)
  <2>1. IsFiniteSet(0 .. NumEventLimit - 1)
    BY <1>1, FS_Interval
  <2>2. StatePlaces(chat) \subseteq 0 .. NumEventLimit - 1 /\ rest \subseteq StatePlaces(chat)
    BY DEF StatePlaces
  <2> QED
    BY <2>1, <2>2, FS_Subset
<1>6. Cardinality(StatePlaces(chat)) \in Nat /\ Cardinality(rest) \in Nat
  BY <1>5, FS_CardinalityType
<1>7. Cardinality(rest) = Cardinality(StatePlaces(chat)) - chat.last[i]
  <2>1. CASE chat.last[i] = 1
    <3>1. i \in StatePlaces(chat)
      BY <1>1, <2>1 DEF StatePlaces
    <3>2. Cardinality(rest) = Cardinality(StatePlaces(chat)) - 1
      BY <1>5, <3>1, FS_RemoveElement
    <3> QED
      BY <2>1, <3>2
  <2>2. CASE chat.last[i] = 0
    <3>1. rest = StatePlaces(chat)
      BY <2>2 DEF StatePlaces
    <3> HIDE DEF rest
    <3> QED
      BY <1>6, <2>2, <3>1
  <2>3. chat.last[i] \in 0 .. 1
    BY <1>1, <1>4
  <2> QED
    BY <2>1, <2>2, <2>3
<1>8. CASE eventLst
  <2>1. StatePlaces(chat') = rest \cup {i}
    BY <1>1, <1>3, <1>4, <1>8 DEF StatePlaces
  <2>2. i \notin rest
    OBVIOUS
  <2> HIDE DEF rest
  <2>3. Cardinality(StatePlaces(chat')) = Cardinality(rest) + 1
    BY <1>5, <2>1, <2>2, FS_AddElement
  <2>4. chat'.num = Cardinality(rest) + 1
    BY <1>3, <1>6, <1>7, <1>8
  <2> QED
    BY <2>3, <2>4
<1>9. CASE ~eventLst
  <2>1. StatePlaces(chat') = rest
    BY <1>1, <1>3, <1>4, <1>9 DEF StatePlaces
  <2> HIDE DEF rest
  <2>2. chat'.num = Cardinality(rest) + 0
    BY <1>3, <1>6, <1>7, <1>9
  <2> QED
    BY <1>6, <2>1, <2>2
<1> QED
  BY <1>2, <1>8, <1>9

(* The ring starts empty. *)
LEMMA ChatInit ==
  ASSUME Init
  PROVE  ChatInv
<1>1. BaseInv
  BY BaseInit
<1>2. handled = <<>> /\ chat.last = [i \in 0 .. NumEventLimit - 1 |-> 0] /\ chat.num = 0
  BY DEF Init
<1>3. StatePlaces(chat) = {}
  BY <1>2 DEF StatePlaces
<1>4. chat.num = Cardinality(StatePlaces(chat))
  BY <1>2, <1>3, FS_EmptySet
<1>5. RingInv
  <2>1. \A j \in 0 .. NumEventLimit - 1 : /\ Position(chat, handled, j) \in Int
                                          /\ Position(chat, handled, j) <= Len(handled)
    BY <1>1, RingTypes, Places
  <2>2. Len(handled) = 0
    BY <1>2
  <2> QED
    BY <1>2, <2>1, <2>2 DEF RingInv
<1> QED
  BY <1>1, <1>4, <1>5 DEF ChatInv

(* Only HandleEvents writes to the ring. *)
LEMMA ChatAlone ==
  ASSUME [Next]_vars, ~HandleEvents
  PROVE  UNCHANGED <<chat, handled>>
<1>1. CASE Step
  BY <1>1 DEF Step, SkipStep, NextStep, LoopHead, LeaveLoop, EulerStep, DasslStep, SolveTo,
     UpdateContinuousSystem, CheckEvents, FinishUpdate, EmitStep, AbortSlow, AbortInEvent,
     Retry, Terminate, histVars, eventVars
<1>2. CASE BreakLoop \/ ThrowInEvent
  BY <1>2 DEF BreakLoop, ThrowInEvent, AbortInEvent, histVars, eventVars
<1>3. CASE ThrowInUpdate \/ ThrowInFindRoot \/ ThrowInFinish
  BY <1>3 DEF ThrowInUpdate, ThrowInFindRoot, ThrowInFinish, Throw
<1>4. CASE UNCHANGED vars
  BY <1>4 DEF vars, histVars, eventVars
<1> QED
  BY <1>1, <1>2, <1>3, <1>4 DEF Next

(* Every step keeps the ring in accord with the last events. *)
LEMMA ChatNext ==
  ASSUME ChatInv, [Next]_vars
  PROVE  ChatInv'
<1>1. BaseInv /\ BaseInv'
  BY BaseNext DEF ChatInv
<1>2. CASE HandleEvents
  BY <1>1, <1>2, RingKept, CountKept DEF ChatInv
<1>3. CASE ~HandleEvents
  BY <1>1, <1>3, ChatAlone DEF ChatInv, RingInv, StatePlaces, Position, Age
<1> QED
  BY <1>2, <1>3

(* Every place of the ring is that of a state event when the count is full. *)
LEMMA CountIsFull ==
  ASSUME NEW ring, ring.num = Cardinality(StatePlaces(ring))
  PROVE  ring.num = NumEventLimit <=> \A j \in 0 .. NumEventLimit - 1 : ring.last[j] = 1
<1>1. NumEventLimit \in Nat \ {0}
  BY LoopAssumption
<1>2. IsFiniteSet(0 .. NumEventLimit - 1) /\ Cardinality(0 .. NumEventLimit - 1) = NumEventLimit
  <2>1. /\ IsFiniteSet(0 .. NumEventLimit - 1)
        /\ Cardinality(0 .. NumEventLimit - 1) =
              IF 0 > NumEventLimit - 1 THEN 0 ELSE (NumEventLimit - 1) - 0 + 1
    BY <1>1, FS_Interval
  <2> QED
    BY <1>1, <2>1
<1>3. StatePlaces(ring) \subseteq 0 .. NumEventLimit - 1
  BY DEF StatePlaces
<1>4. Cardinality(StatePlaces(ring)) = NumEventLimit => StatePlaces(ring) = 0 .. NumEventLimit - 1
  BY <1>2, <1>3, FS_Subset
<1>5. StatePlaces(ring) = 0 .. NumEventLimit - 1 <=> \A j \in 0 .. NumEventLimit - 1 : ring.last[j] = 1
  BY DEF StatePlaces
<1> QED
  BY <1>2, <1>4, <1>5

(* What the code asks of its ring when an event is handled is what the last
   events were. *)
LEMMA ReportIsRight ==
  ASSUME ChatInv, ChatInv', HandleEvents
  PROVE  chat'.emitted <=> (chat.emitted \/ Chattering(handled'))
<1> DEFINE i == chat.idx
           k == chat'.idx
           N == NumEventLimit
           time == localData[1].time
           all == Append(handled, [state |-> eventLst, time |-> localData[1].time])
<1>1. BaseInv /\ BaseInv' /\ RingInv' /\ chat'.num = Cardinality(StatePlaces(chat'))
  BY DEF ChatInv
<1>2. /\ N \in Nat \ {0} /\ i \in 0 .. N - 1 /\ Len(handled) \in 0 .. N
  BY <1>1, RingTypes, Places
<1>3. /\ chat \in Rings /\ chat' \in Rings /\ eventLst \in BOOLEAN /\ time \in Int
      /\ CountEvent(time)
  BY <1>1 DEF BaseInv, IsSlots, IsSlot, HandleEvents
<1>4. /\ chat'.emitted = (chat.emitted \/ Chatters(time))
      /\ chat'.num = chat.num - chat.last[i] + (IF eventLst THEN 1 ELSE 0)
      /\ k = (i + 1) % N
  BY <1>3, RingCounted
<1>5. /\ k = IF i + 1 = N THEN 0 ELSE i + 1
      /\ \A j \in 0 .. N - 1 :
            /\ j # i => /\ Age(chat', j) = Age(chat, j) - 1
                        /\ chat'.last[j] = chat.last[j]
                        /\ chat'.times[j] = chat.times[j]
            /\ j = i => /\ Age(chat', j) = N
                        /\ chat'.last[j] = (IF eventLst THEN 1 ELSE 0)
                        /\ eventLst => chat'.times[j] = time
  BY <1>1, NextPlaces
<1>6. /\ k \in 0 .. N - 1 /\ Len(handled') \in 0 .. N
      /\ \A j \in 0 .. N - 1 : /\ Age(chat', j) \in 1 .. N
                               /\ Position(chat', handled', j) \in Int
                               /\ Age(chat', j) = 1 <=> j = k
      /\ \A p \in 1 .. Len(handled') : \E j \in 0 .. N - 1 : Position(chat', handled', j) = p
  BY <1>1, <1>2, RingTypesNext, Places DEF k
<1>7. \A j : Position(chat', handled', j) = Age(chat', j) - N + Len(handled')
  BY DEF Position
<1>8. chat'.num = N <=> \A j \in 0 .. N - 1 : chat'.last[j] = 1
  BY <1>1, CountIsFull
<1>9. \A j \in 0 .. N - 1 : IF Position(chat', handled', j) > 0
        THEN /\ chat'.last[j] = 1 <=> handled'[Position(chat', handled', j)].state
             /\ handled'[Position(chat', handled', j)].state => chat'.times[j] = handled'[Position(chat', handled', j)].time
        ELSE chat'.last[j] = 0
  BY <1>1 DEF RingInv
<1>10. /\ chat.num \in Int /\ chat.last[i] \in Int
       /\ \A j \in 0 .. N - 1 : chat'.times[j] \in Int
  BY <1>2, <1>3 DEF Rings
<1> HIDE DEF i, k, time
(* The count is full when the last numEventLimit events were state events. *)
<1>11. (eventLst /\ chat.num - chat.last[i] + 1 = N)
       <=> (Len(handled') = N /\ \A p \in 1 .. N : handled'[p].state)
  <2>1. (eventLst /\ chat.num - chat.last[i] + 1 = N) <=> (eventLst /\ chat'.num = N)
    BY <1>4, <1>10
  <2>2. ASSUME \A j \in 0 .. N - 1 : chat'.last[j] = 1
        PROVE  eventLst /\ Len(handled') = N /\ \A p \in 1 .. N : handled'[p].state
    <3>1. eventLst
      <4>1. chat'.last[i] = 1
        BY <1>2, <2>2
      <4> QED
        BY <1>2, <1>5, <4>1
    <3>2. Len(handled') = N
      <4>1. Position(chat', handled', k) > 0
        BY <1>6, <1>9, <2>2
      <4>2. Position(chat', handled', k) = 1 - N + Len(handled')
        BY <1>6, <1>7
      <4> QED
        BY <1>2, <1>6, <4>1, <4>2
    <3>3. ASSUME NEW p \in 1 .. N
          PROVE  handled'[p].state
      <4>1. PICK j \in 0 .. N - 1 : Position(chat', handled', j) = p
        BY <1>6, <3>2
      <4> QED
        BY <1>9, <2>2, <4>1
    <3> QED
      BY <3>1, <3>2, <3>3
  <2>3. ASSUME Len(handled') = N, \A p \in 1 .. N : handled'[p].state
        PROVE  eventLst /\ \A j \in 0 .. N - 1 : chat'.last[j] = 1
    <3>1. ASSUME NEW j \in 0 .. N - 1
          PROVE  chat'.last[j] = 1
      <4>1. Position(chat', handled', j) = Age(chat', j) /\ Age(chat', j) \in 1 .. N
        <5> DEFINE a == Age(chat', j)
                   q == Position(chat', handled', j)
        <5>1. a \in 1 .. N /\ N \in Nat
          BY <1>2, <1>6
        <5>2. q = a - N + N
          BY <1>7, <2>3
        <5> HIDE DEF a, q
        <5>3. q = a /\ a \in 1 .. N
          BY <5>1, <5>2
        <5> QED
          BY <5>3 DEF a, q
      <4>2. Position(chat', handled', j) \in 1 .. N /\ Position(chat', handled', j) > 0
        BY <4>1
      <4> QED
        BY <1>9, <2>3, <4>2
    <3>2. eventLst
      <4>1. chat'.last[i] = 1
        BY <1>2, <3>1
      <4> QED
        BY <1>2, <1>5, <4>1
    <3> QED
      BY <3>1, <3>2
  <2> QED
    BY <1>8, <2>1, <2>2, <2>3
(* The times that are compared are those of the first and the last of them. *)
<1>12. ASSUME eventLst, Len(handled') = N, \A p \in 1 .. N : handled'[p].state
       PROVE  /\ handled'[N].time = time
              /\ handled'[1].time = IF N = 1 THEN time ELSE chat.times[k]
  <2>1. \A j \in 0 .. N - 1 : /\ Position(chat', handled', j) = Age(chat', j)
                              /\ chat'.times[j] = handled'[Age(chat', j)].time
    <3>1. ASSUME NEW j \in 0 .. N - 1
          PROVE  /\ Position(chat', handled', j) = Age(chat', j)
                 /\ chat'.times[j] = handled'[Age(chat', j)].time
      <4>1. Position(chat', handled', j) = Age(chat', j) /\ Age(chat', j) \in 1 .. N
        <5> DEFINE a == Age(chat', j)
                   q == Position(chat', handled', j)
        <5>1. a \in 1 .. N /\ N \in Nat
          BY <1>2, <1>6
        <5>2. q = a - N + N
          BY <1>7, <1>12
        <5> HIDE DEF a, q
        <5>3. q = a /\ a \in 1 .. N
          BY <5>1, <5>2
        <5> QED
          BY <5>3 DEF a, q
      <4>2. Position(chat', handled', j) \in 1 .. N /\ Position(chat', handled', j) > 0
        BY <4>1
      <4> QED
        BY <1>9, <1>12, <4>1, <4>2
    <3> QED
      BY <3>1
  <2>2. handled'[N].time = time
    BY <1>2, <1>5, <1>12, <2>1
  <2>3. handled'[1].time = chat'.times[k]
    BY <1>6, <2>1
  <2>4. N # 1 => k # i
    BY <1>2, <1>5
  <2>5. N # 1 => handled'[1].time = chat.times[k]
    BY <1>5, <1>6, <2>3, <2>4
  <2> QED
    BY <2>2, <2>5
<1>13. Chatters(time) <=> /\ ~chat.emitted
                          /\ eventLst /\ chat.num - chat.last[i] + 1 = N
                          /\ time - (IF N = 1 THEN time ELSE chat.times[k]) < StepLen
  BY <1>4 DEF Chatters, i, k
<1>14. Chattering(handled') <=>
          /\ Len(handled') = N /\ \A p \in 1 .. N : handled'[p].state
          /\ handled'[N].time - handled'[1].time < StepLen
  <2>1. handled' \in Events
    BY <1>1 DEF BaseInv
  <2>2. DOMAIN handled' = 1 .. Len(handled')
    BY <2>1 DEF Events
  <2> QED
    BY <2>2 DEF Chattering
<1>15. ~chat.emitted => (Chatters(time) <=> Chattering(handled'))
  BY <1>11, <1>12, <1>13, <1>14
<1> QED
  BY <1>4, <1>13, <1>15

(* Chattering is reported when, and only when, the last numEventLimit events
   were state events within one step: the ring of chatteringInfo, its index
   and its count tell so without keeping the events. *)
THEOREM ReportsChattering == Spec => ChatteringIsReported
<1>1. ASSUME ChatInv, ChatInv', [Next]_vars, pc = "event", pc' = "finish"
      PROVE  chat'.emitted <=> (chat.emitted \/ Chattering(handled'))
  <2>1. HandleEvents
    BY <1>1 DEF Next, Step, SkipStep, NextStep, LoopHead, LeaveLoop, EulerStep, DasslStep, SolveTo,
       UpdateContinuousSystem, CheckEvents, FinishUpdate, EmitStep, AbortSlow, AbortInEvent,
       Retry, Terminate, BreakLoop, ThrowInEvent, ThrowInUpdate, ThrowInFindRoot, ThrowInFinish,
       vars, loopVars
  <2> QED
    BY <1>1, <2>1, ReportIsRight
<1>2. ChatInv /\ ChatInv' /\ [Next]_vars =>
         (pc = "event" /\ pc' = "finish" =>
             (chat'.emitted <=> (chat.emitted \/ Chattering(handled'))))
  BY <1>1
<1>3. ChatInv /\ [Next]_vars => ChatInv'
  BY ChatNext
<1>4. Init => ChatInv
  BY ChatInit
<1> QED
  BY <1>2, <1>3, <1>4, PTL DEF Spec, ChatteringIsReported

-----------------------------------------------------------------------------
(* Order in the list of timers. *)

(* A list cut in two. *)
LEMMA Parts ==
  ASSUME NEW A, NEW list \in Seq(A), NEW n \in 0 .. Len(list)
  PROVE  /\ SubSeq(list, 1, n) \in Seq(A) /\ Len(SubSeq(list, 1, n)) = n
         /\ \A i \in 1 .. n : SubSeq(list, 1, n)[i] = list[i]
         /\ SubSeq(list, n + 1, Len(list)) \in Seq(A)
         /\ Len(SubSeq(list, n + 1, Len(list))) = Len(list) - n
         /\ \A i \in 1 .. Len(list) - n : SubSeq(list, n + 1, Len(list))[i] = list[i + n]
<1> DEFINE l == Len(list)
           front == SubSeq(list, 1, n)
           back == SubSeq(list, n + 1, l)
<1>1. l \in Nat /\ n \in 0 .. l /\ \A i \in 1 .. l : list[i] \in A
  OBVIOUS
<1> HIDE DEF l
<1>2. /\ \A i \in 1 .. n : list[i] \in A
      /\ \A i \in n + 1 .. l : list[i] \in A
      /\ n + 1 \in 1 .. l + 1 /\ l \in n .. l
  BY <1>1
<1>3. /\ front \in Seq(A) /\ Len(front) = (IF 1 <= n THEN n - 1 + 1 ELSE 0)
      /\ \A i \in 1 .. n - 1 + 1 : front[i] = list[1 + i - 1]
  BY <1>1, <1>2, SubSeqProperties DEF l
<1>4. /\ back \in Seq(A) /\ Len(back) = (IF n + 1 <= l THEN l - (n + 1) + 1 ELSE 0)
      /\ \A i \in 1 .. l - (n + 1) + 1 : back[i] = list[n + 1 + i - 1]
  BY <1>1, <1>2, SubSeqProperties DEF l
<1> HIDE DEF front, back
<1>5. /\ n - 1 + 1 = n
      /\ (IF 1 <= n THEN n - 1 + 1 ELSE 0) = n
      /\ l - (n + 1) + 1 = l - n
      /\ (IF n + 1 <= l THEN l - (n + 1) + 1 ELSE 0) = l - n
      /\ \A i \in Int : 1 + i - 1 = i /\ n + 1 + i - 1 = i + n
  BY <1>1
<1>6. \A i \in 1 .. n : front[i] = list[i]
  BY <1>3, <1>5
<1>7. \A i \in 1 .. l - n : back[i] = list[i + n]
  BY <1>4, <1>5
<1>8. Len(front) = n /\ Len(back) = l - n
  BY <1>3, <1>4, <1>5
<1> QED
  BY <1>3, <1>4, <1>6, <1>7, <1>8 DEF front, back, l

(* A set of positions with no gaps below is counted by its last one. *)
LEMMA PrefixCounted ==
  ASSUME NEW n \in Nat, NEW S, S \subseteq 1 .. n,
         \A i \in S : \A j \in 1 .. i : j \in S
  PROVE  S = 1 .. Cardinality(S)
<1> DEFINE T == (1 .. n + 1) \ S
<1>1. T \subseteq Nat /\ n + 1 \in T
  OBVIOUS
<1>2. PICK t \in T : \A m \in T : t <= m
  BY <1>1, LeastNatural
<1>3. t \in 1 .. n + 1 /\ t \notin S
  OBVIOUS
<1>4. \A j \in 1 .. n : j < t => j \in S
  <2>1. ASSUME NEW j \in 1 .. n, j < t, j \notin S
        PROVE  FALSE
    <3>1. j \in T
      BY <2>1
    <3>2. t <= j
      BY <1>2, <3>1
    <3> QED
      BY <1>3, <2>1, <3>2
  <2> QED
    BY <2>1
<1>5. \A j \in S : j < t
  <2>1. ASSUME NEW j \in S, ~(j < t)
        PROVE  FALSE
    <3>1. t \in 1 .. j
      BY <1>3, <2>1
    <3> QED
      BY <1>3, <3>1
  <2> QED
    BY <2>1
<1> HIDE DEF T
<1>6. S = 1 .. t - 1
  <2>1. \A j \in S : j \in 1 .. t - 1
    BY <1>3, <1>5
  <2>2. \A j \in 1 .. t - 1 : j \in 1 .. n /\ j < t
    BY <1>3
  <2> QED
    BY <1>4, <2>1, <2>2
<1>7. t - 1 \in Nat
  BY <1>3
<1>8. Cardinality(1 .. t - 1) = t - 1
  BY <1>7, FS_Interval
<1> QED
  BY <1>6, <1>8

(* In an ordered list the timers up to a time are the first ones. *)
LEMMA FirstOnes ==
  ASSUME NEW A, NEW list \in Seq(A), \A a \in A : a.at \in Int, Sorted(list), NEW t \in Int
  PROVE  LET early == {i \in DOMAIN list : list[i].at <= t}
         IN  early = 1 .. Cardinality(early) /\ Cardinality(early) \in 0 .. Len(list)
<1> DEFINE early == {i \in DOMAIN list : list[i].at <= t}
<1>1. Len(list) \in Nat /\ DOMAIN list = 1 .. Len(list)
  OBVIOUS
<1>2. early \subseteq 1 .. Len(list)
  BY <1>1
<1>3. \A i \in DOMAIN list : list[i].at \in Int
  OBVIOUS
<1>4. ASSUME NEW i \in early, NEW j \in 1 .. i
      PROVE  j \in early
  <2>1. i \in DOMAIN list /\ j \in DOMAIN list /\ j <= i
    BY <1>1
  <2>2. list[j].at <= list[i].at /\ list[i].at <= t
    BY <2>1 DEF Sorted
  <2> QED
    BY <1>3, <2>1, <2>2
<1> HIDE DEF early
<1>5. early = 1 .. Cardinality(early)
  BY <1>1, <1>2, <1>4, PrefixCounted
<1>6. Cardinality(early) \in 0 .. Len(list)
  BY <1>1, <1>2, CountUpTo
<1> QED
  BY <1>5, <1>6 DEF early

(* What is left of a list is in order. *)
LEMMA Rest ==
  ASSUME NEW A, NEW list \in Seq(A), NEW n \in 0 .. Len(list)
  PROVE  LET rest == SubSeq(list, n + 1, Len(list))
         IN  /\ \A i \in DOMAIN rest : i + n \in DOMAIN list /\ rest[i] = list[i + n]
             /\ Sorted(list) => Sorted(rest)
<1> DEFINE rest == SubSeq(list, n + 1, Len(list))
<1>1. Len(list) \in Nat /\ DOMAIN list = 1 .. Len(list) /\ n \in Nat
  OBVIOUS
<1>2. /\ rest \in Seq(A) /\ Len(rest) = Len(list) - n
      /\ \A i \in 1 .. Len(list) - n : rest[i] = list[i + n]
  BY Parts
<1> HIDE DEF rest
<1>3. DOMAIN rest = 1 .. Len(list) - n
  BY <1>2
<1>4. \A i \in DOMAIN rest : i + n \in DOMAIN list /\ rest[i] = list[i + n]
  <2>1. ASSUME NEW i \in DOMAIN rest
        PROVE  i + n \in DOMAIN list /\ rest[i] = list[i + n]
    <3>1. i \in 1 .. Len(list) - n /\ i + n \in 1 .. Len(list)
      BY <1>1, <1>3
    <3> QED
      BY <1>1, <1>2, <3>1
  <2> QED
    BY <2>1
<1>5. Sorted(list) => Sorted(rest)
  <2>1. ASSUME Sorted(list), NEW i \in DOMAIN rest, NEW j \in DOMAIN rest, i <= j
        PROVE  rest[i].at <= rest[j].at
    <3>1. i + n <= j + n
      BY <1>1, <1>3, <2>1
    <3> QED
      BY <1>4, <2>1, <3>1 DEF Sorted
  <2> QED
    BY <2>1 DEF Sorted
<1> QED
  BY <1>4, <1>5 DEF rest

(* insertTimer: the new timer comes behind those that are not later. *)
LEMMA InsertedPlaces ==
  ASSUME NEW A, NEW list \in Seq(A), \A a \in A : a.at \in Int, Sorted(list), NEW timer \in A
  PROVE  LET new == InsertTimer(list, timer)
         IN  \E n \in 0 .. Len(list) :
                /\ DOMAIN new = 1 .. Len(list) + 1
                /\ \A i \in 1 .. n : new[i] = list[i]
                /\ new[n + 1] = timer
                /\ \A i \in n + 2 .. Len(list) + 1 : new[i] = list[i - 1]
                /\ \A i \in DOMAIN list : list[i].at <= timer.at <=> i \in 1 .. n
<1> DEFINE early == {i \in DOMAIN list : list[i].at <= timer.at}
           n == Cardinality(early)
           new == InsertTimer(list, timer)
<1>1. Len(list) \in Nat /\ DOMAIN list = 1 .. Len(list) /\ timer.at \in Int
  OBVIOUS
<1>2. early = 1 .. n /\ n \in 0 .. Len(list)
  BY <1>1, FirstOnes
<1>3. \A i \in DOMAIN list : list[i].at \in Int
  OBVIOUS
<1>4. \A i \in DOMAIN list : list[i].at <= timer.at <=> i \in 1 .. n
  BY <1>2
<1>5. new = SubSeq(list, 1, n) \o <<timer>> \o SubSeq(list, n + 1, Len(list))
  BY DEF InsertTimer
<1> HIDE DEF n, early, new
<1> DEFINE front == SubSeq(list, 1, n)
           back == SubSeq(list, n + 1, Len(list))
<1>6. /\ front \in Seq(A) /\ Len(front) = n
      /\ \A i \in 1 .. n : front[i] = list[i]
  BY <1>2, Parts
<1>7. /\ back \in Seq(A) /\ Len(back) = Len(list) - n
      /\ \A i \in 1 .. Len(list) - n : back[i] = list[i + n]
  BY <1>2, Parts
<1>8. <<timer>> \in Seq(A) /\ Len(<<timer>>) = 1 /\ <<timer>>[1] = timer
  OBVIOUS
<1>9. new = front \o <<timer>> \o back
  BY <1>5
<1> HIDE DEF front, back
<1>10. /\ DOMAIN new = 1 .. Len(list) + 1
       /\ \A i \in 1 .. n : new[i] = list[i]
       /\ new[n + 1] = timer
       /\ \A i \in n + 2 .. Len(list) + 1 : new[i] = list[i - 1]
  <2> DEFINE mid == front \o <<timer>>
             l == Len(list)
  <2>1. /\ mid \in Seq(A) /\ Len(mid) = n + 1
        /\ \A i \in 1 .. n + 1 : mid[i] = IF i <= n THEN front[i] ELSE <<timer>>[i - n]
    BY <1>6, <1>8, ConcatProperties
  <2>2. /\ mid[n + 1] = timer
        /\ \A i \in 1 .. n : mid[i] = front[i]
    <3>1. n + 1 \in 1 .. n + 1 /\ ~(n + 1 <= n) /\ n + 1 - n = 1
      BY <1>2
    <3>2. \A i \in 1 .. n : i \in 1 .. n + 1 /\ i <= n
      BY <1>2
    <3> QED
      BY <1>8, <2>1, <3>1, <3>2
  <2> HIDE DEF mid
  <2>3. /\ new \in Seq(A) /\ Len(new) = n + 1 + (l - n)
        /\ \A i \in 1 .. n + 1 + (l - n) :
              new[i] = IF i <= n + 1 THEN mid[i] ELSE back[i - (n + 1)]
    <3>1. new = mid \o back
      BY <1>9 DEF mid
    <3>2. /\ new \in Seq(A) /\ Len(new) = Len(mid) + Len(back)
          /\ \A i \in 1 .. Len(mid) + Len(back) :
                new[i] = IF i <= Len(mid) THEN mid[i] ELSE back[i - Len(mid)]
      BY <1>7, <2>1, <3>1, ConcatProperties
    <3>3. Len(mid) = n + 1 /\ Len(back) = l - n
      BY <1>7, <2>1
    <3> HIDE DEF l
    <3> QED
      BY <3>2, <3>3
  <2>4. /\ DOMAIN new = 1 .. l + 1
        /\ \A i \in 1 .. n + 1 : new[i] = mid[i]
        /\ \A i \in n + 2 .. l + 1 : new[i] = back[i - (n + 1)]
    <3>1. l \in Nat /\ n \in 0 .. l
      BY <1>1, <1>2
    <3> HIDE DEF l
    <3>2. n + 1 + (l - n) = l + 1
      BY <3>1
    <3>3. \A i \in 1 .. n + 1 : i \in 1 .. n + 1 + (l - n) /\ i <= n + 1
      BY <3>1
    <3>4. \A i \in n + 2 .. l + 1 : i \in 1 .. n + 1 + (l - n) /\ ~(i <= n + 1)
      BY <3>1
    <3> QED
      BY <2>3, <3>2, <3>3, <3>4
  <2>5. \A i \in n + 2 .. Len(list) + 1 : /\ i - (n + 1) \in 1 .. Len(list) - n
                                          /\ i - (n + 1) + n = i - 1
    BY <1>1, <1>2
  <2>6. n + 1 \in 1 .. n + 1 /\ \A i \in 1 .. n : i \in 1 .. n + 1
    BY <1>2
  <2> QED
    BY <1>6, <1>7, <2>2, <2>4, <2>5, <2>6
<1> QED
  BY <1>2, <1>4, <1>10 DEF new

(* insertTimer keeps the list in order. *)
LEMMA InOrder ==
  ASSUME NEW A, NEW list \in Seq(A), \A a \in A : a.at \in Int, Sorted(list), NEW timer \in A
  PROVE  LET new == InsertTimer(list, timer)
         IN  /\ Sorted(new)
             /\ \A i \in DOMAIN new : new[i] = timer \/ \E j \in DOMAIN list : new[i] = list[j]
<1> DEFINE new == InsertTimer(list, timer)
<1>1. Len(list) \in Nat /\ DOMAIN list = 1 .. Len(list) /\ timer.at \in Int
  OBVIOUS
<1>2. PICK n \in 0 .. Len(list) :
         /\ DOMAIN new = 1 .. Len(list) + 1
         /\ \A i \in 1 .. n : new[i] = list[i]
         /\ new[n + 1] = timer
         /\ \A i \in n + 2 .. Len(list) + 1 : new[i] = list[i - 1]
         /\ \A i \in DOMAIN list : list[i].at <= timer.at <=> i \in 1 .. n
  BY InsertedPlaces
<1>3. \A i \in DOMAIN list : list[i].at \in Int
  OBVIOUS
<1>4. \A i \in DOMAIN list : list[i].at <= timer.at <=> i \in 1 .. n
  BY <1>2
<1> HIDE DEF new
<1>5. /\ DOMAIN new = 1 .. Len(list) + 1
      /\ \A i \in 1 .. n : new[i] = list[i]
      /\ new[n + 1] = timer
      /\ \A i \in n + 2 .. Len(list) + 1 : new[i] = list[i - 1]
  BY <1>2
<1>6. \A i \in DOMAIN new : \/ i \in 1 .. n /\ i \in DOMAIN list /\ new[i] = list[i]
                            \/ i = n + 1 /\ new[i] = timer
                            \/ /\ i \in n + 2 .. Len(list) + 1 /\ new[i] = list[i - 1]
                               /\ i - 1 \in DOMAIN list /\ i - 1 \notin 1 .. n
  <2>1. ASSUME NEW i \in 1 .. Len(list) + 1
        PROVE  \/ i \in 1 .. n /\ i \in 1 .. Len(list)
               \/ i = n + 1
               \/ /\ i \in n + 2 .. Len(list) + 1
                  /\ i - 1 \in 1 .. Len(list) /\ i - 1 \notin 1 .. n
    BY <1>1, <1>2
  <2> QED
    BY <1>1, <1>5, <2>1
<1>7. Sorted(new)
  <2>1. ASSUME NEW i \in DOMAIN new, NEW j \in DOMAIN new, i <= j
        PROVE  new[i].at <= new[j].at
    <3>1. i \in Int /\ j \in Int /\ n \in Int
      BY <1>1, <1>2, <1>5
    <3>2. CASE i \in 1 .. n /\ i \in DOMAIN list /\ new[i] = list[i]
      <4>1. list[i].at <= timer.at
        BY <1>4, <3>2
      <4>2. CASE j \in 1 .. n /\ j \in DOMAIN list /\ new[j] = list[j]
        BY <2>1, <3>2, <4>2 DEF Sorted
      <4>3. CASE j = n + 1 /\ new[j] = timer
        BY <3>2, <4>1, <4>3
      <4>4. CASE /\ j \in n + 2 .. Len(list) + 1 /\ new[j] = list[j - 1]
                 /\ j - 1 \in DOMAIN list /\ j - 1 \notin 1 .. n
        <5>1. i <= j - 1
          BY <3>1, <3>2, <4>4
        <5> QED
          BY <3>2, <4>4, <5>1 DEF Sorted
      <4> QED
        BY <1>6, <4>2, <4>3, <4>4
    <3>3. CASE i = n + 1 /\ new[i] = timer
      <4>1. CASE j = n + 1
        BY <1>1, <3>3, <4>1
      <4>2. CASE /\ j \in n + 2 .. Len(list) + 1 /\ new[j] = list[j - 1]
                 /\ j - 1 \in DOMAIN list /\ j - 1 \notin 1 .. n
        <5>1. ~(list[j - 1].at <= timer.at) /\ list[j - 1].at \in Int
          BY <1>3, <1>4, <4>2
        <5> QED
          BY <1>1, <3>3, <4>2, <5>1
      <4>3. j \notin 1 .. n
        BY <2>1, <3>1, <3>3
      <4> QED
        BY <1>6, <4>1, <4>2, <4>3
    <3>4. CASE /\ i \in n + 2 .. Len(list) + 1 /\ new[i] = list[i - 1]
               /\ i - 1 \in DOMAIN list /\ i - 1 \notin 1 .. n
      <4>1. j \notin 1 .. n /\ j # n + 1
        BY <2>1, <3>1, <3>4
      <4>2. new[j] = list[j - 1] /\ j - 1 \in DOMAIN list
        BY <1>6, <4>1
      <4>3. i - 1 <= j - 1
        BY <2>1, <3>1
      <4> QED
        BY <3>4, <4>2, <4>3 DEF Sorted
    <3> QED
      BY <1>6, <3>2, <3>3, <3>4
  <2> QED
    BY <2>1 DEF Sorted
<1> QED
  BY <1>6, <1>7 DEF new

-----------------------------------------------------------------------------
(* The arithmetic of a step.  For the models the invariant holds for see
   Regular in SimulationLoop. *)

AllRegular == \A m \in Scenarios : Regular(m)

(* The constants are numbers. *)
LEMMA Parameters ==
  /\ StepLen \in Nat \ {0} /\ NumSteps \in Nat \ {0} /\ NumEventLimit \in Nat \ {0} /\ Eps \in Nat
  BY LoopAssumption

(* Points of the grid are numbers. *)
LEMMA GridIsInt == \A k \in Int : Grid(k) \in Int
  BY Parameters DEF Grid

(* The next point of the grid is one step away. *)
LEMMA GridNext == \A k \in Int : Grid(k + 1) = Grid(k) + StepLen
  BY Parameters DEF Grid

(* The grid starts at 0. *)
LEMMA GridZero == Grid(0) = 0
  BY Parameters DEF Grid

(* The grid is in order. *)
LEMMA GridOrder ==
  ASSUME NEW j \in Int, NEW k \in Int, j <= k
  PROVE  Grid(j) <= Grid(k)
<1>1. StepLen \in Nat /\ k - j \in Nat
  BY Parameters
<1>2. (k - j) * StepLen \in Nat
  BY <1>1, Products
<1>3. (k - j) * StepLen = Grid(k) - Grid(j)
  BY <1>1 DEF Grid
<1> QED
  BY <1>2, <1>3, GridIsInt

(* A point before another has a smaller number. *)
LEMMA GridLess ==
  ASSUME NEW j \in Int, NEW k \in Int, Grid(j) < Grid(k)
  PROVE  j < k
<1>1. CASE k <= j
  BY <1>1, GridIsInt, GridOrder
<1> QED
  BY <1>1

(* What is known of a half of a number. *)
LEMMA Halves == \A z \in Int : z \div 2 \in Int /\ 2 * (z \div 2) <= z /\ z <= 2 * (z \div 2) + 1
  OBVIOUS

(* The numbers of the invariant. *)
LEMMA Numbers ==
  ASSUME BaseInv
  PROVE  /\ currStepNo \in Nat /\ throws \in Nat /\ model.throws \in Nat /\ throws <= model.throws
         /\ currentTime \in Int /\ currentStepSize \in Int /\ stopTime \in Int /\ crossing \in Int
         /\ old.time \in Int /\ accepted.time \in Int
         /\ localData[1].time \in Int /\ localData[2].time \in Int /\ localData[3].time \in Int
         /\ NextSample \in Nat /\ Reach \in Int /\ Slack \in 0 .. 1
         /\ \A k \in Int : ReachOf(k) \in Int
<1>1. model.throws \in Nat
  BY ModelFacts DEF BaseInv
<1>2. \A k \in Int : ReachOf(k) \in Int
  BY Parameters, GridIsInt DEF ReachOf
<1>3. currStepNo \in Nat /\ NextSample \in Nat
  BY NextSampleFacts DEF BaseInv
<1>4. /\ old.time \in Int /\ accepted.time \in Int
      /\ localData[1].time \in Int /\ localData[2].time \in Int /\ localData[3].time \in Int
  BY DEF BaseInv, IsSlots, IsSlot
<1>5. throws \in Nat /\ throws <= model.throws
  BY <1>1 DEF BaseInv
<1>6. currentTime \in Int /\ currentStepSize \in Int /\ stopTime \in Int /\ crossing \in Int
  BY DEF BaseInv
<1> QED
  BY <1>1, <1>2, <1>3, <1>4, <1>5, <1>6 DEF Reach, Slack

(* No step reaches the horizon. *)
LEMMA ReachFits ==
  ASSUME BaseInv, currStepNo <= NumSteps + throws
  PROVE  Reach + Eps <= Horizon
<1>1. currStepNo <= NumSteps + model.throws
  BY Numbers, Parameters
<1>2. Grid(currStepNo) <= Grid(NumSteps + model.throws)
  BY <1>1, Numbers, Parameters, GridOrder
<1>3. Horizon = Grid(NumSteps + model.throws) + 4 * Eps
  BY DEF Horizon, Grid
<1>4. Grid(currStepNo) \in Int /\ Grid(NumSteps + model.throws) \in Int /\ Eps \in Nat
  BY Numbers, Parameters, GridIsInt
<1> QED
  BY <1>2, <1>3, <1>4 DEF Reach, ReachOf

(* The step size as the code finds it, without the definitions. *)
LEMMA SizeCases ==
  ASSUME BaseInv
  PROVE  LET size == Grid(StepNo) - currentTime
         IN  /\ size \in Int /\ DesiredSize \in Int /\ SyncSize \in Int /\ StepSize \in Int
             /\ ~retry => DesiredSize = size
             /\ retry => 2 * DesiredSize <= size /\ size <= 2 * DesiredSize + 1
             /\ \/ SyncSize = DesiredSize
                \/ /\ timers # <<>> /\ Head(timers) = timers[1] /\ 1 \in DOMAIN timers
                   /\ SyncSize = timers[1].at - currentTime /\ timers[1].at \in Int
                   /\ SyncSize >= 0 /\ SyncSize <= DesiredSize + Eps
             /\ \/ /\ MeetsSample /\ StepSize = NextSample - currentTime
                   /\ StepSize >= 0 /\ StepSize <= SyncSize + Eps
                \/ /\ ~MeetsSample /\ StepSize = SyncSize
                   /\ NextSample < currentTime \/ NextSample > currentTime + SyncSize + Eps
<1> DEFINE size == Grid(StepNo) - currentTime
<1>1. /\ StepNo \in Nat /\ DesiredSize \in Int /\ SyncSize \in Int /\ StepSize \in Int
      /\ NextSample \in Nat /\ currentTime \in Int /\ Eps \in Nat
      /\ timers # <<>> => /\ Head(timers) = timers[1] /\ 1 \in DOMAIN timers
                          /\ timers[1].at \in Int
  BY StepSizes, Numbers, Parameters
<1>2. size \in Int
  BY <1>1, GridIsInt
<1>3. DesiredSize = IF retry THEN size \div 2 ELSE size
  BY DEF DesiredSize, Grid
<1> HIDE DEF size
<1>4. /\ ~retry => DesiredSize = size
      /\ retry => 2 * DesiredSize <= size /\ size <= 2 * DesiredSize + 1
  BY <1>2, <1>3, Halves
<1>5. \/ SyncSize = DesiredSize
      \/ /\ timers # <<>> /\ Head(timers) = timers[1] /\ 1 \in DOMAIN timers
         /\ SyncSize = timers[1].at - currentTime /\ timers[1].at \in Int
         /\ SyncSize >= 0 /\ SyncSize <= DesiredSize + Eps
  <2>1. CASE timers # <<>> /\ EndsAt(DesiredSize, Head(timers).at)
    <3>1. /\ SyncSize = timers[1].at - currentTime
          /\ timers[1].at <= currentTime + DesiredSize + Eps /\ timers[1].at >= currentTime
      BY <1>1, <2>1 DEF SyncSize, EndsAt
    <3> QED
      BY <1>1, <2>1, <3>1
  <2>2. CASE ~(timers # <<>> /\ EndsAt(DesiredSize, Head(timers).at))
    BY <2>2 DEF SyncSize
  <2> QED
    BY <2>1, <2>2
<1>6. \/ /\ MeetsSample /\ StepSize = NextSample - currentTime
         /\ StepSize >= 0 /\ StepSize <= SyncSize + Eps
      \/ /\ ~MeetsSample /\ StepSize = SyncSize
         /\ NextSample < currentTime \/ NextSample > currentTime + SyncSize + Eps
  <2>1. CASE MeetsSample
    <3>1. /\ StepSize = NextSample - currentTime
          /\ NextSample <= currentTime + SyncSize + Eps /\ NextSample >= currentTime
      BY <2>1 DEF MeetsSample, StepSize, EndsAt
    <3> QED
      BY <1>1, <2>1, <3>1
  <2>2. CASE ~MeetsSample
    <3>1. /\ StepSize = SyncSize
          /\ ~(NextSample <= currentTime + SyncSize + Eps /\ NextSample >= currentTime)
      BY <2>2 DEF MeetsSample, StepSize, EndsAt
    <3> QED
      BY <1>1, <2>2, <3>1
  <2> QED
    BY <2>1, <2>2
<1> QED
  BY <1>1, <1>2, <1>4, <1>5, <1>6 DEF size

(* What holds at the head of the loop. *)
LEMMA HeadFacts ==
  ASSUME BaseInv, TimeInv, DueInv, AtHead, pc = "head"
  PROVE  /\ currentTime \in 0 .. Reach /\ currentTime = old.time /\ currentTime = accepted.time
         /\ currentTime < stopTime => stopTime = Grid(NumSteps)
         /\ NextSample >= currentTime
         /\ SyncEventStep => NextSample > currentTime /\ TimersAfter(timers, currentTime)
         /\ ~SyncEventStep => Point(currentTime)
         /\ retry => SyncEventStep
         /\ Grid(currStepNo - 1 - throws) <= currentTime + Slack
         /\ retry => throws > 0 /\ Grid(currStepNo - throws) <= currentTime + 1
<1>1. currentTime = old.time /\ currentTime = accepted.time
  BY DEF AtHead
<1>2. /\ currentTime \in 0 .. Reach
      /\ Passed(accepted.time) /\ (retry => Reached(accepted.time))
      /\ currentTime < stopTime => stopTime = Grid(NumSteps)
  BY Numbers DEF TimeInv
<1>3. /\ NextSample >= currentTime
      /\ SyncEventStep => NextSample > currentTime /\ TimersAfter(timers, currentTime)
  BY DEF DueInv
<1>4. (~SyncEventStep => Point(currentTime)) /\ (retry => SyncEventStep)
  BY DEF AtHead, SyncEventStep
<1> QED
  BY <1>1, <1>2, <1>3, <1>4 DEF Passed, Reached

(* A step that is skipped: the point of its number has been passed. *)
LEMMA Skipped ==
  ASSUME BaseInv, TimeInv, DueInv, AtHead, pc = "head", currentTime < stopTime, AlmostEqual
  PROVE  /\ SyncEventStep /\ StepNo = currStepNo /\ ~MeetsSample
         /\ Grid(currStepNo) <= currentTime + Slack
         /\ StepSize \in -Reach .. 0
         /\ currStepNo + 1 <= NumSteps + throws
<1> DEFINE c == currentTime
           g == Grid(currStepNo)
           size == Grid(StepNo) - c
           D == DesiredSize
<1>1. SyncEventStep /\ StepNo = currStepNo /\ StepSize <= 0
  BY DEF AlmostEqual, StepNo
<1>2. /\ c \in 0 .. Reach /\ stopTime = Grid(NumSteps) /\ c < stopTime
      /\ NextSample > c /\ TimersAfter(timers, c) /\ (retry => throws > 0)
  BY <1>1, HeadFacts
<1>3. /\ size \in Int /\ D \in Int /\ SyncSize \in Int /\ StepSize \in Int
      /\ ~retry => D = size
      /\ retry => 2 * D <= size /\ size <= 2 * D + 1
      /\ \/ SyncSize = D
         \/ 1 \in DOMAIN timers /\ SyncSize = timers[1].at - c /\ timers[1].at \in Int
      /\ \/ MeetsSample /\ StepSize = NextSample - c
         \/ ~MeetsSample /\ StepSize = SyncSize
  BY SizeCases
<1>4. /\ currStepNo \in Nat /\ throws \in Nat /\ NextSample \in Nat /\ g \in Int
      /\ c \in Int /\ Reach \in Int /\ Slack \in 0 .. 1
  BY Numbers, GridIsInt
<1>5. size = g - c
  BY <1>1
<1>6. Slack = IF throws = 0 THEN 0 ELSE 1
  BY DEF Slack
<1>7. g >= 0
  BY <1>4, Parameters, Products DEF Grid
<1>8. Grid(NumSteps) \in Int /\ NumSteps \in Nat
  BY GridIsInt, Parameters
<1> HIDE DEF c, g, size, D
<1>9. ~MeetsSample /\ StepSize = SyncSize
  BY <1>1, <1>2, <1>3, <1>4
<1>10. SyncSize = D
  <2>1. 1 \in DOMAIN timers => timers[1].at > c
    BY <1>2 DEF TimersAfter
  <2> QED
    BY <1>1, <1>3, <1>4, <1>9, <2>1
<1>11. D <= 0 /\ StepSize = D
  BY <1>1, <1>9, <1>10
<1>12. g <= c + Slack /\ D >= -Reach
  <2>1. CASE retry
    BY <1>2, <1>3, <1>4, <1>5, <1>6, <1>7, <1>11, <2>1
  <2>2. CASE ~retry
    BY <1>2, <1>3, <1>4, <1>5, <1>6, <1>7, <1>11, <2>2
  <2> QED
    BY <2>1, <2>2
<1>13. currStepNo + 1 <= NumSteps + throws
  <2>1. CASE throws = 0
    <3>1. g < Grid(NumSteps)
      BY <1>2, <1>4, <1>6, <1>8, <1>12, <2>1
    <3>2. currStepNo < NumSteps
      BY <1>4, <1>8, <3>1, GridLess DEF g
    <3> QED
      BY <1>4, <1>8, <2>1, <3>2
  <2>2. CASE throws > 0
    <3>1. g <= Grid(NumSteps)
      BY <1>2, <1>4, <1>6, <1>8, <1>12, <2>2
    <3>2. Grid(NumSteps + 1) = Grid(NumSteps) + StepLen /\ StepLen \in Nat \ {0}
      BY <1>8, GridNext, Parameters
    <3>3. g < Grid(NumSteps + 1)
      BY <1>4, <1>8, <3>1, <3>2
    <3>4. currStepNo < NumSteps + 1
      BY <1>4, <1>8, <3>3, GridLess DEF g
    <3> QED
      BY <1>4, <1>8, <2>2, <3>4
  <2> QED
    BY <1>4, <2>1, <2>2
<1> QED
  BY <1>1, <1>3, <1>4, <1>9, <1>11, <1>12, <1>13 DEF c, g

(* A step that is taken: where it ends, and why. *)
LEMMA Taken ==
  ASSUME BaseInv, TimeInv, DueInv, AtHead, pc = "head", currentTime < stopTime, ~AlmostEqual
  PROVE  LET end == currentTime + StepSize
         IN  /\ currStepNo <= StepNo /\ StepNo <= NumSteps + throws
             /\ SyncEventStep => StepNo = currStepNo
             /\ StepSize >= 0 /\ (SyncEventStep => StepSize > 0)
             /\ end <= ReachOf(StepNo)
             /\ NextSample >= end /\ (NextSample = end => MeetsSample)
             /\ \/ MeetsSample /\ NextSample = end
                \/ TimerBy(end)
                \/ Grid(StepNo - throws) <= end /\ end <= Grid(StepNo)
             /\ Grid(StepNo - 1 - throws) <= currentTime + Slack
<1> DEFINE c == currentTime
           g == Grid(StepNo)
           size == Grid(StepNo) - c
           D == DesiredSize
           e == c + StepSize
           early == Grid(StepNo - throws)
<1>1. /\ c \in 0 .. Reach /\ stopTime = Grid(NumSteps) /\ c < stopTime
      /\ NextSample >= c
      /\ retry => SyncEventStep /\ throws > 0 /\ Grid(currStepNo - throws) <= c + 1
      /\ ~SyncEventStep => Point(c)
      /\ Grid(currStepNo - 1 - throws) <= c + Slack
  BY HeadFacts
<1>2. /\ size \in Int /\ D \in Int /\ SyncSize \in Int /\ StepSize \in Int
      /\ ~retry => D = size
      /\ retry => 2 * D <= size /\ size <= 2 * D + 1
      /\ \/ SyncSize = D
         \/ /\ timers # <<>> /\ Head(timers) = timers[1]
            /\ SyncSize = timers[1].at - c /\ timers[1].at \in Int
            /\ SyncSize >= 0 /\ SyncSize <= D + Eps
      /\ \/ /\ MeetsSample /\ StepSize = NextSample - c
            /\ StepSize >= 0 /\ StepSize <= SyncSize + Eps
         \/ /\ ~MeetsSample /\ StepSize = SyncSize
            /\ NextSample < c \/ NextSample > c + SyncSize + Eps
  BY SizeCases
<1>3. /\ currStepNo \in Nat /\ throws \in Nat /\ NextSample \in Nat /\ StepNo \in Nat
      /\ c \in Int /\ Reach \in Int /\ Slack \in 0 .. 1 /\ Eps \in Nat
      /\ NumSteps \in Nat /\ StepLen \in Nat \ {0}
  BY Numbers, StepSizes, Parameters
<1>4. g \in Int /\ early \in Int /\ size = g - c
  BY <1>3, GridIsInt
<1>5. ReachOf(StepNo) = g + (IF throws = 0 THEN 2 * Eps ELSE 3 * Eps)
  BY DEF ReachOf
<1>6. early <= g
  <2>1. StepNo - throws \in Int /\ StepNo - throws <= StepNo
    BY <1>3
  <2> QED
    BY <1>3, <2>1, GridOrder
<1>7. StepNo = IF SyncEventStep THEN currStepNo ELSE currStepNo + 1
  BY DEF StepNo
<1>8. (StepSize > 0 \/ ~SyncEventStep)
  BY <1>2 DEF AlmostEqual
<1>9. ~SyncEventStep => /\ ~retry
                        /\ g = Grid(currStepNo) + StepLen
                        /\ Grid(currStepNo - throws) <= c /\ c <= Grid(currStepNo)
                        /\ StepNo = currStepNo + 1
  BY <1>1, <1>3, <1>7, GridNext DEF Point
<1>10. StepNo <= NumSteps + throws
  <2>1. CASE SyncEventStep
    BY <1>7, <2>1 DEF TimeInv
  <2>2. CASE ~SyncEventStep
    <3>1. Grid(currStepNo - throws) < Grid(NumSteps)
      <4>1. Grid(currStepNo - throws) \in Int /\ Grid(NumSteps) \in Int
        BY <1>3, GridIsInt
      <4> QED
        BY <1>1, <1>3, <1>9, <2>2, <4>1
    <3>2. currStepNo - throws < NumSteps
      BY <1>3, <3>1, GridLess
    <3> QED
      BY <1>3, <1>9, <2>2, <3>2
  <2> QED
    BY <2>1, <2>2
<1>11. Grid(StepNo - 1 - throws) <= c + Slack
  <2>1. CASE SyncEventStep
    BY <1>1, <1>7, <2>1
  <2>2. CASE ~SyncEventStep
    <3>1. StepNo - 1 - throws = currStepNo - throws
      BY <1>3, <1>9, <2>2
    <3>2. Grid(currStepNo - throws) \in Int
      BY <1>3, GridIsInt
    <3> QED
      BY <1>3, <1>9, <2>2, <3>1, <3>2
  <2> QED
    BY <2>1, <2>2
<1>12. retry => throws > 0 /\ early <= c + 1 /\ SyncEventStep
  BY <1>1, <1>7
<1>13. c <= g \/ SyncEventStep
  <2>1. Grid(currStepNo) \in Int
    BY <1>3, GridIsInt
  <2> QED
    BY <1>3, <1>4, <1>9, <2>1
<1> HIDE DEF c, g, size, D, e, early
(* No step runs backwards. *)
<1>14. StepSize >= 0
  <2>1. CASE SyncEventStep
    BY <1>2, <1>8, <2>1
  <2>2. CASE ~SyncEventStep
    <3>1. D >= 0
      BY <1>2, <1>3, <1>4, <1>9, <1>13, <2>2
    <3> QED
      BY <1>2, <1>3, <3>1
  <2> QED
    BY <2>1, <2>2
(* A tick is at most 2 * Eps behind the point, a sample Eps more. *)
<1>15. SyncSize >= 0 \/ SyncSize = D
  BY <1>2
<1>16. e = c + StepSize /\ e \in Int
  BY <1>2, <1>3 DEF e
<1>17. e <= ReachOf(StepNo)
  <2>1. CASE retry
    <3>1. throws # 0 /\ ReachOf(StepNo) = g + 3 * Eps
      BY <1>3, <1>5, <1>12, <2>1
    <3>2. 2 * D <= g - c
      BY <1>2, <1>4, <2>1
    <3>3. c + SyncSize <= g + 2 * Eps \/ SyncSize < 0
      BY <1>2, <1>3, <1>4, <3>2
    <3>4. CASE StepSize = SyncSize
      BY <1>2, <1>3, <1>4, <1>14, <1>16, <3>1, <3>3, <3>4
    <3>5. CASE StepSize >= 0 /\ StepSize <= SyncSize + Eps
      <4>1. CASE SyncSize >= 0
        BY <1>2, <1>3, <1>4, <1>16, <3>1, <3>3, <3>5, <4>1
      <4>2. CASE SyncSize = D
        <5>1. StepSize <= D + Eps /\ 0 <= StepSize
          BY <3>5, <4>2
        <5>2. 2 * StepSize <= g - c + 2 * Eps
          BY <1>2, <1>3, <1>4, <3>2, <5>1
        <5>3. StepSize <= g - c + 2 * Eps
          BY <1>2, <1>3, <1>4, <5>1, <5>2
        <5> QED
          BY <1>2, <1>3, <1>4, <1>16, <3>1, <5>3
      <4> QED
        BY <1>15, <4>1, <4>2
    <3> QED
      BY <1>2, <3>4, <3>5
  <2>2. CASE ~retry
    <3>1. D = g - c
      BY <1>2, <1>4, <2>2
    <3>2. SyncSize <= g - c + Eps
      BY <1>2, <1>3, <1>4, <3>1
    <3>3. StepSize <= g - c + 2 * Eps
      BY <1>2, <1>3, <1>4, <3>2
    <3>4. e <= g + 2 * Eps
      BY <1>2, <1>3, <1>4, <1>16, <3>3
    <3> QED
      BY <1>3, <1>4, <1>5, <1>16, <3>4
  <2> QED
    BY <2>1, <2>2
<1>18. NextSample >= e /\ (NextSample = e => MeetsSample)
  BY <1>1, <1>2, <1>3, <1>16
<1>19. \/ MeetsSample /\ NextSample = e
       \/ TimerBy(e)
       \/ early <= e /\ e <= g
  <2>1. CASE MeetsSample
    BY <1>2, <1>3, <1>16, <2>1
  <2>2. CASE ~MeetsSample /\ SyncSize # D
    <3>1. timers # <<>> /\ Head(timers).at = e
      BY <1>2, <1>3, <1>16, <2>2
    <3> QED
      BY <1>16, <3>1 DEF TimerBy
  <2>3. CASE ~MeetsSample /\ SyncSize = D
    <3>1. StepSize = D
      BY <1>2, <2>3
    <3>2. CASE retry
      <4>1. D > 0 /\ 2 * D <= g - c /\ early <= c + 1
        BY <1>2, <1>4, <1>8, <1>12, <3>1, <3>2
      <4> QED
        BY <1>2, <1>3, <1>4, <1>16, <3>1, <4>1
    <3>3. CASE ~retry
      <4>1. e = g
        BY <1>2, <1>3, <1>4, <1>16, <3>1, <3>3
      <4> QED
        BY <1>4, <1>6, <4>1
    <3> QED
      BY <3>2, <3>3
  <2> QED
    BY <2>1, <2>2, <2>3
<1>20. currStepNo <= StepNo
  BY <1>3, <1>7
<1> QED
  BY <1>7, <1>8, <1>10, <1>11, <1>14, <1>17, <1>18, <1>19, <1>20 DEF c, e, g, early

-----------------------------------------------------------------------------
(* The steps of the program keep the invariant. *)

OtherInv == EffectInv /\ TimeInv /\ DueInv /\ PlaceInv

(* The next sample depends on the model and the times of its samples only. *)
LEMMA NextSampleKept ==
  ASSUME model' = model, nextSampleTimes' = nextSampleTimes
  PROVE  NextSample' = NextSample /\ Samples' = Samples
  BY DEF NextSample, Samples, Never, Horizon

(* A later step and an assertion reach farther. *)
LEMMA ReachGrows ==
  ASSUME BaseInv, currStepNo' \in Nat, currStepNo <= currStepNo',
         throws' \in Nat, throws <= throws'
  PROVE  Reach <= Reach' /\ Reach' \in Int
<1>1. Grid(currStepNo) <= Grid(currStepNo')
  BY Numbers, GridOrder
<1>2. Grid(currStepNo) \in Int /\ Grid(currStepNo') \in Int /\ Eps \in Nat /\ throws \in Nat
  BY Numbers, GridIsInt, Parameters
<1>3. /\ Reach = Grid(currStepNo) + (IF throws = 0 THEN 2 * Eps ELSE 3 * Eps)
      /\ Reach' = Grid(currStepNo') + (IF throws' = 0 THEN 2 * Eps ELSE 3 * Eps)
  BY DEF Reach, ReachOf
<1> QED
  BY <1>1, <1>2, <1>3

(* A wider interval holds what a narrower one does. *)
LEMMA Wider ==
  ASSUME NEW a \in Int, NEW b \in Int, a <= b
  PROVE  /\ \A x \in 0 .. a : x \in 0 .. b
         /\ \A x \in -a .. a : x \in -b .. b
         /\ a \in Nat => \A x \in -a .. 0 : x \in -b .. b
  OBVIOUS

(* Times that were within reach still are. *)
LEMMA TimesStay ==
  ASSUME BaseInv, TimeInv, Reach <= Reach', Reach' \in Int
  PROVE  /\ localData[1].time \in 0 .. Reach'
         /\ localData[2].time \in 0 .. Reach'
         /\ localData[3].time \in 0 .. Reach'
         /\ currentTime \in 0 .. Reach'
         /\ currentStepSize \in -Reach' .. Reach'
         /\ crossing \in 0 .. Reach'
         /\ \A i \in 0 .. NumEventLimit - 1 : chat.times[i] \in 0 .. Reach'
         /\ old.time \in 0 .. Reach'
         /\ accepted.time \in 0 .. Reach'
<1>1. Reach \in Int
  BY Numbers
<1>2. /\ localData[1].time \in 0 .. Reach
      /\ localData[2].time \in 0 .. Reach
      /\ localData[3].time \in 0 .. Reach
      /\ currentTime \in 0 .. Reach
      /\ currentStepSize \in -Reach .. Reach
      /\ crossing \in 0 .. Reach
      /\ \A i \in 0 .. NumEventLimit - 1 : chat.times[i] \in 0 .. Reach
      /\ old.time \in 0 .. currentTime
      /\ accepted.time \in 0 .. old.time
  BY DEF TimeInv
<1>3. /\ \A x \in 0 .. Reach : x \in 0 .. Reach'
      /\ \A x \in -Reach .. Reach : x \in -Reach' .. Reach'
  BY <1>1, Wider
<1>4. old.time \in 0 .. Reach /\ accepted.time \in 0 .. Reach
  BY <1>1, <1>2
<1> QED
  BY <1>2, <1>3, <1>4

(* A step that is skipped passes a point of the grid that time has passed already. *)
LEMMA InvSkip ==
  ASSUME LoopInv, SkipStep
  PROVE  OtherInv'
<1>1. /\ BaseInv /\ EffectInv /\ TimeInv /\ DueInv /\ PlaceInv /\ AtHead
  BY DEF LoopInv, PlaceInv
<1>2. /\ pc = "head" /\ pc' = "head" /\ currentTime < stopTime /\ AlmostEqual
      /\ localData' = Rotate
      /\ sampleActivated' = (sampleActivated \/ MeetsSample)
      /\ currentStepSize' = StepSize /\ currStepNo' = StepNo + 1
      /\ UNCHANGED <<stopTime, currentTime, old, didEventStep, syncStep, syncRet, retry,
                     nextSampleTimes, timers, eventLst, chat, crossing, bounds, histVars>>
  BY DEF SkipStep, LoopHead
<1>3. /\ model' = model /\ throws' = throws
      /\ accepted' = accepted /\ activations' = activations /\ restart' = restart
  BY <1>2 DEF bounds, histVars
<1>4. /\ SyncEventStep /\ StepNo = currStepNo /\ ~MeetsSample
      /\ Grid(currStepNo) <= currentTime + Slack
      /\ StepSize \in -Reach .. 0
      /\ currStepNo + 1 <= NumSteps + throws
  BY <1>1, <1>2, Skipped
<1>5. /\ localData[1] = old /\ localData[2] = old /\ localData[3] = old
      /\ accepted = old /\ currentTime = old.time
      /\ retry \/ restart \/ eventLst => didEventStep
  BY <1>1, <1>2, <1>4 DEF AtHead, AllOld
<1>6. localData'[1] = old /\ localData'[2] = old /\ localData'[3] = old
  BY <1>2, <1>5 DEF Rotate
<1>7. /\ currStepNo \in Nat /\ throws \in Nat /\ Reach \in Int /\ Slack \in 0 .. 1
      /\ currentTime \in Int /\ StepSize \in Int
  BY <1>1, Numbers, StepSizes
<1>8. currStepNo' = currStepNo + 1 /\ sampleActivated' = sampleActivated
  BY <1>1, <1>2, <1>4 DEF BaseInv
<1>9. Reach <= Reach' /\ Reach' \in Int
  BY <1>1, <1>3, <1>7, <1>8, ReachGrows
<1>10. NextSample' = NextSample /\ Samples' = Samples
  BY <1>2, <1>3, NextSampleKept
<1>11. EffectInv'
  BY <1>1, <1>2, <1>3, <1>6, <1>10 DEF EffectInv, SampleAt, Planned, Horizon
<1>12. TimeInv'
  <2>1. /\ localData'[1].time \in 0 .. Reach'
        /\ localData'[2].time \in 0 .. Reach'
        /\ localData'[3].time \in 0 .. Reach'
        /\ currentTime' \in 0 .. Reach'
        /\ crossing' \in 0 .. Reach'
        /\ \A i \in 0 .. NumEventLimit - 1 : chat'.times[i] \in 0 .. Reach'
    BY <1>1, <1>2, <1>6, <1>9, TimesStay
  <2>2. currentStepSize' \in -Reach' .. Reach'
    <3>1. Reach \in Nat
      BY <1>1, <1>7 DEF TimeInv
    <3>2. StepSize \in -Reach' .. Reach'
      BY <1>4, <1>7, <1>9, <3>1, Wider
    <3> QED
      BY <1>2, <3>2
  <2>3. currStepNo' <= NumSteps + throws'
    BY <1>3, <1>4, <1>8
  <2>4. Passed(accepted.time)'
    <3>1. currStepNo' - 1 - throws' = currStepNo - throws /\ Slack' = Slack
      BY <1>3, <1>7, <1>8 DEF Slack
    <3>2. currStepNo - throws \in Int /\ currStepNo - throws <= currStepNo
      BY <1>7
    <3>3. Grid(currStepNo - throws) <= Grid(currStepNo)
      BY <1>7, <3>2, GridOrder
    <3>4. Grid(currStepNo - throws) \in Int /\ Grid(currStepNo) \in Int
      BY <1>7, <3>2, GridIsInt
    <3>5. Grid(currStepNo - throws) <= currentTime + Slack
      BY <1>4, <1>7, <3>3, <3>4
    <3> QED
      BY <1>3, <1>5, <3>1, <3>5 DEF Passed
  <2>5. retry => Reached(accepted.time)'
    <3>1. ASSUME retry
          PROVE  throws > 0
      BY <1>1, <3>1 DEF TimeInv, Reached
    <3>2. ASSUME retry
          PROVE  Grid(currStepNo' - throws') <= currentTime + 1
      <4>1. /\ currStepNo' - throws' \in Int /\ currStepNo' - throws' <= currStepNo
        BY <1>3, <1>7, <1>8, <3>1, <3>2
      <4>2. Grid(currStepNo' - throws') <= Grid(currStepNo)
        BY <1>7, <4>1, GridOrder
      <4>3. Grid(currStepNo' - throws') \in Int /\ Grid(currStepNo) \in Int
        BY <1>7, <4>1, GridIsInt
      <4> QED
        BY <1>4, <1>7, <4>2, <4>3
    <3> QED
      BY <1>3, <1>5, <3>1, <3>2 DEF Reached
  <2>6. /\ old'.time \in 0 .. currentTime' /\ accepted'.time \in 0 .. old'.time
        /\ stopTime' = Grid(NumSteps) \/ (pc' \in {"head", "done"} /\ stopTime' = currentTime')
    BY <1>1, <1>2, <1>3 DEF TimeInv
  <2> QED
    BY <1>2, <2>1, <2>2, <2>3, <2>4, <2>5, <2>6 DEF TimeInv
<1>13. DueInv'
  BY <1>1, <1>2, <1>3, <1>8, <1>10 DEF DueInv, SyncEventStep, TimersAfter
<1>14. PlaceInv'
  <2>1. AtHead'
    BY <1>2, <1>3, <1>4, <1>5, <1>6 DEF AtHead, Alike, SyncEventStep, AllOld
  <2> QED
    BY <1>2, <2>1 DEF PlaceInv, AtSolve, AtUpdate, AtCheck, AtEvent, AtFinish, AtEmit
<1> QED
  BY <1>11, <1>12, <1>13, <1>14 DEF OtherInv

(* A step that is taken ends within reach and at, or before, all that is due. *)
LEMMA InvNext ==
  ASSUME LoopInv, NextStep
  PROVE  OtherInv'
<1>1. /\ BaseInv /\ EffectInv /\ TimeInv /\ DueInv /\ PlaceInv /\ AtHead
  BY DEF LoopInv, PlaceInv
<1>2. /\ pc = "head" /\ pc' = "solve" /\ currentTime < stopTime /\ ~AlmostEqual
      /\ localData' = Rotate
      /\ sampleActivated' = (sampleActivated \/ MeetsSample)
      /\ currentStepSize' = StepSize /\ currStepNo' = StepNo
      /\ UNCHANGED <<stopTime, currentTime, old, didEventStep, syncStep, syncRet, retry,
                     nextSampleTimes, timers, eventLst, chat, crossing, bounds, histVars>>
  BY DEF NextStep, LoopHead
<1>3. /\ model' = model /\ throws' = throws
      /\ accepted' = accepted /\ activations' = activations /\ restart' = restart
  BY <1>2 DEF bounds, histVars
<1> DEFINE end == currentTime + StepSize
<1>4. /\ currStepNo <= StepNo /\ StepNo <= NumSteps + throws
      /\ SyncEventStep => StepNo = currStepNo
      /\ StepSize >= 0 /\ (SyncEventStep => StepSize > 0)
      /\ end <= ReachOf(StepNo)
      /\ NextSample >= end /\ (NextSample = end => MeetsSample)
      /\ \/ MeetsSample /\ NextSample = end
         \/ TimerBy(end)
         \/ Grid(StepNo - throws) <= end /\ end <= Grid(StepNo)
      /\ Grid(StepNo - 1 - throws) <= currentTime + Slack
  BY <1>1, <1>2, Taken
<1>5. /\ localData[1] = old /\ accepted = old /\ currentTime = old.time
      /\ localData[2].seen = old.seen /\ localData[3].seen = old.seen
      /\ retry \/ restart \/ eventLst => didEventStep
  BY <1>1, <1>2 DEF AtHead, Alike
<1>6. /\ localData'[1] = localData[3] /\ localData'[2] = old /\ localData'[3] = localData[2]
  BY <1>2, <1>5 DEF Rotate
<1>7. /\ currStepNo \in Nat /\ throws \in Nat /\ Reach \in Int /\ Slack \in 0 .. 1
      /\ currentTime \in Int /\ StepSize \in Int /\ StepNo \in Nat
  BY <1>1, Numbers, StepSizes
<1>8. Reach <= Reach' /\ Reach' \in Int /\ Reach' = ReachOf(StepNo)
  <2>1. Reach' = ReachOf(StepNo)
    BY <1>2, <1>3 DEF Reach, ReachOf
  <2> QED
    BY <1>1, <1>2, <1>3, <1>4, <1>7, <2>1, ReachGrows
<1>9. NextSample' = NextSample /\ Samples' = Samples
  BY <1>2, <1>3, NextSampleKept
<1>10. currentTime' + currentStepSize' = end
  BY <1>2
<1>11. EffectInv'
  BY <1>1, <1>2, <1>3, <1>5, <1>6, <1>9 DEF EffectInv, SampleAt, Planned, Horizon
<1>12. TimeInv'
  <2>1. /\ localData'[1].time \in 0 .. Reach'
        /\ localData'[2].time \in 0 .. Reach'
        /\ localData'[3].time \in 0 .. Reach'
        /\ currentTime' \in 0 .. Reach'
        /\ crossing' \in 0 .. Reach'
        /\ \A i \in 0 .. NumEventLimit - 1 : chat'.times[i] \in 0 .. Reach'
    BY <1>1, <1>2, <1>6, <1>8, TimesStay
  <2>2. currentStepSize' \in -Reach' .. Reach'
    <3>1. currentTime \in Nat /\ currentTime + StepSize <= Reach'
      BY <1>1, <1>4, <1>7, <1>8 DEF TimeInv
    <3> QED
      BY <1>2, <1>4, <1>7, <1>8, <3>1
  <2>3. Passed(accepted.time)' /\ currStepNo' <= NumSteps + throws'
    BY <1>2, <1>3, <1>4, <1>5 DEF Passed, Slack
  <2>4. retry => Reached(accepted.time)'
    <3>1. retry => SyncEventStep
      BY <1>5 DEF SyncEventStep
    <3> QED
      BY <1>1, <1>2, <1>3, <1>4, <3>1 DEF TimeInv, Reached
  <2>5. /\ old'.time \in 0 .. currentTime' /\ accepted'.time \in 0 .. old'.time
        /\ stopTime' = Grid(NumSteps)
    BY <1>1, <1>2, <1>3, <1>7, Numbers DEF TimeInv
  <2> QED
    BY <1>2, <2>1, <2>2, <2>3, <2>4, <2>5 DEF TimeInv
<1>13. DueInv'
  <2>1. SamplesFrom(currentTime + currentStepSize)'
    BY <1>2, <1>4, <1>9, <1>10 DEF SamplesFrom
  <2> QED
    BY <1>1, <1>2, <1>3, <1>9, <2>1 DEF DueInv, TimersAfter
<1>14. PlaceInv'
  <2>1. AtSolve'
    <3>1. /\ localData'[2] = old' /\ currentTime' = old'.time /\ accepted' = old'
          /\ Alike(old.seen)'
      BY <1>2, <1>3, <1>5, <1>6 DEF Alike
    <3>2. /\ currentStepSize' >= 0 /\ currentTime' + currentStepSize' <= Reach'
          /\ restart' => didEventStep'
      BY <1>2, <1>3, <1>4, <1>5, <1>8
    <3>3. eventLst' => currentStepSize' > 0
      BY <1>2, <1>4, <1>5 DEF SyncEventStep
    <3>4. \/ sampleActivated' /\ NextSample' = currentTime' + currentStepSize'
          \/ TimerBy(currentTime + currentStepSize)'
          \/ Point(currentTime + currentStepSize)'
      BY <1>2, <1>3, <1>4, <1>9, <1>10 DEF TimerBy, Point
    <3> QED
      BY <3>1, <3>2, <3>3, <3>4 DEF AtSolve
  <2> QED
    BY <1>2, <2>1 DEF PlaceInv, AtHead, AtUpdate, AtCheck, AtEvent, AtFinish, AtEmit
<1> QED
  BY <1>11, <1>12, <1>13, <1>14 DEF OtherInv

(* The solver comes to the end of the step or to a root in it. *)
LEMMA InvSolveTo ==
  ASSUME LoopInv, NEW end \in Int, NEW root \in Int, SolveTo(end, root),
         root # 0 => old.time < root /\ root <= end,
         old.time <= end, end <= Reach, eventLst => end > old.time,
         NextSample >= end, NextSample = end => sampleActivated',
         root # 0 \/ sampleActivated' \/ TimerBy(end) \/ Point(end)
  PROVE  OtherInv'
<1>1. /\ BaseInv /\ EffectInv /\ TimeInv /\ DueInv /\ PlaceInv /\ AtSolve
  BY DEF LoopInv, PlaceInv
<1>2. /\ pc = "solve" /\ pc' = "update" /\ currentTime' = end
      /\ localData' = [localData EXCEPT ![1] = [localData[1] EXCEPT !.time = end]]
      /\ crossing' = root /\ restart' = FALSE
      /\ UNCHANGED <<currentStepSize, currStepNo, didEventStep, syncStep, syncRet, retry,
                     stopTime, old, nextSampleTimes, timers, eventLst, chat,
                     model, throws, restarts, accepted, activations, undone, handled>>
  BY DEF SolveTo
<1>3. /\ localData[2] = old /\ currentTime = old.time /\ accepted = old
      /\ Alike(old.seen)
  BY <1>1, <1>2 DEF AtSolve
<1>4. /\ localData'[1].time = end /\ localData'[1].seen = localData[1].seen
      /\ localData'[2] = localData[2] /\ localData'[3] = localData[3]
  <2> DEFINE slot == [localData[1] EXCEPT !.time = end]
  <2>1. IsSlots(localData) /\ IsSlot(localData[1])
    BY <1>1 DEF BaseInv, IsSlots
  <2>2. IsSlot(slot) /\ slot.time = end /\ slot.seen = localData[1].seen
    BY <2>1, SlotMoved
  <2>3. localData' = [localData EXCEPT ![1] = slot]
    BY <1>2
  <2> HIDE DEF slot
  <2> QED
    BY <2>1, <2>2, <2>3, SlotsPut
<1>5. /\ Reach' = Reach /\ Slack' = Slack /\ Reach \in Int
      /\ NextSample' = NextSample /\ Samples' = Samples
  BY <1>1, <1>2, Numbers, NextSampleKept DEF Reach, ReachOf, Slack
<1>6. EffectInv'
  BY <1>1, <1>2, <1>4, <1>5 DEF EffectInv, SampleAt, Planned, Horizon
<1>7. end \in 0 .. Reach /\ old.time \in 0 .. end /\ root \in 0 .. Reach
  <2>1. old.time \in Nat /\ currentTime \in 0 .. Reach
    BY <1>1, Numbers DEF TimeInv
  <2> QED
    BY <1>5, <2>1
<1>8. TimeInv'
  BY <1>1, <1>2, <1>4, <1>5, <1>7 DEF TimeInv, Passed, Reached
<1>9. DueInv'
  BY <1>1, <1>2, <1>5 DEF DueInv, TimersAfter, SamplesFrom
<1>10. AtUpdate'
  <2>1. RootIsNew'
    BY <1>2, <1>4 DEF RootIsNew
  <2>2. Alike(old.seen)'
    BY <1>2, <1>3, <1>4 DEF Alike
  <2>3. crossing' # 0 \/ sampleActivated' \/ TimerBy(currentTime)' \/ Point(currentTime)'
    BY <1>2 DEF TimerBy, Point
  <2> QED
    BY <1>2, <2>1, <2>2, <2>3 DEF AtUpdate
<1>11. PlaceInv'
  BY <1>2, <1>10 DEF PlaceInv, AtHead, AtSolve, AtCheck, AtEvent, AtFinish, AtEmit
<1> QED
  BY <1>6, <1>8, <1>9, <1>11 DEF OtherInv

(* Both solvers keep the invariant. *)
LEMMA InvSolve ==
  ASSUME LoopInv, EulerStep \/ DasslStep
  PROVE  OtherInv'
<1> DEFINE end == currentTime + currentStepSize
<1>1. BaseInv /\ TimeInv /\ DueInv /\ AtSolve
  BY DEF LoopInv, PlaceInv
<1>2. pc = "solve"
  BY DEF EulerStep, DasslStep, SolveTo
<1>3. /\ localData[2] = old /\ currentTime = old.time
      /\ currentStepSize >= 0 /\ end <= Reach
      /\ eventLst => currentStepSize > 0
      /\ (sampleActivated /\ NextSample = end) \/ TimerBy(end) \/ Point(end)
  BY <1>1, <1>2 DEF AtSolve
<1>4. NextSample >= end /\ (NextSample = end => sampleActivated)
  BY <1>1, <1>2 DEF DueInv, SamplesFrom
<1>5. /\ currentTime \in Int /\ currentStepSize \in Int /\ old.time \in Int /\ Reach \in Int
      /\ NextSample \in Int
  BY <1>1, Numbers
<1>6. CASE EulerStep
  <2>1. PICK root \in Roots(old.time, end) : SolveTo(end, root)
    BY <1>3, <1>6 DEF EulerStep
  <2>2. sampleActivated' = sampleActivated
    BY <1>6 DEF EulerStep
  <2>3. root \in Int /\ (root # 0 => old.time < root /\ root <= end) /\ end \in Int
    BY <1>5, <2>1 DEF Roots
  <2>4. old.time <= end /\ (eventLst => end > old.time)
    BY <1>3, <1>5
  <2> HIDE DEF end
  <2> QED
    BY <1>3, <1>4, <2>1, <2>2, <2>3, <2>4, InvSolveTo
<1>7. CASE DasslStep
  <2>1. PICK root \in Roots(currentTime, end) : SolveTo(IF root = 0 THEN end ELSE root, root)
    BY <1>7 DEF DasslStep
  <2>2. sampleActivated' = (sampleActivated /\ currentTime' >= NextSample)
    BY <1>7 DEF DasslStep
  <2>3. root \in Int /\ (root # 0 => old.time < root /\ root <= end) /\ end \in Int
    BY <1>3, <1>5, <2>1 DEF Roots
  <2> HIDE DEF end
  <2>4. CASE root = 0
    <3>1. SolveTo(end, root) /\ currentTime' = end
      BY <2>1, <2>4 DEF SolveTo
    <3>2. old.time <= end /\ (eventLst => end > old.time)
      BY <1>3, <1>5 DEF end
    <3>3. /\ NextSample = end => sampleActivated'
      BY <1>4, <1>5, <2>2, <2>3, <3>1
    <3> QED
      BY <1>3, <1>4, <2>3, <2>4, <3>1, <3>2, <3>3, InvSolveTo
  <2>5. CASE root # 0
    <3>1. SolveTo(root, root) /\ currentTime' = root
      BY <2>1, <2>5 DEF SolveTo
    <3>2. old.time <= root /\ root > old.time /\ root <= Reach /\ NextSample >= root
      BY <1>3, <1>4, <1>5, <2>3, <2>5
    <3>3. ASSUME NextSample = root
          PROVE  sampleActivated'
      <4>1. root = end
        BY <1>4, <2>3, <2>5, <3>3
      <4>2. sampleActivated
        BY <1>4, <3>3, <4>1
      <4>3. currentTime' >= NextSample
        BY <2>3, <3>1, <3>3
      <4> QED
        BY <2>2, <4>2, <4>3
    <3> QED
      BY <2>3, <2>5, <3>1, <3>2, <3>3, InvSolveTo
  <2> QED
    BY <2>4, <2>5
<1> QED
  BY <1>6, <1>7

-----------------------------------------------------------------------------
(* Timers that are popped. *)

\* Timers that are left when the first ones are popped are still in order.
LEMMA TimersLeft ==
  ASSUME BaseInv, EffectInv, NEW n \in 0 .. Len(timers)
  PROVE  LET rest == SubSeq(timers, n + 1, Len(timers))
         IN  /\ \A i \in DOMAIN rest : rest[i].hold
             /\ Sorted(rest)
             /\ \A t \in Int : TimersAfter(timers, t) => TimersAfter(rest, t)
<1>1. timers \in Seq(activations)
  BY DEF BaseInv
<1>2. (\A i \in DOMAIN timers : timers[i].hold) /\ Sorted(timers)
  BY DEF EffectInv
<1> DEFINE rest == SubSeq(timers, n + 1, Len(timers))
<1>3. /\ \A i \in DOMAIN rest : i + n \in DOMAIN timers /\ rest[i] = timers[i + n]
      /\ Sorted(rest)
  BY <1>1, <1>2, Rest
<1> HIDE DEF rest
<1>4. \A t \in Int : TimersAfter(timers, t) => TimersAfter(rest, t)
  BY <1>3 DEF TimersAfter
<1> QED
  BY <1>2, <1>3, <1>4 DEF rest

(* handleTimers leaves no timer that is due. *)
LEMMA DueGone ==
  ASSUME BaseInv, EffectInv
  PROVE  TimersAfter(SubSeq(timers, Cardinality(DueTimers) + 1, Len(timers)), currentTime)
<1> DEFINE n == Cardinality(DueTimers)
           rest == SubSeq(timers, n + 1, Len(timers))
<1>1. /\ timers \in Seq(activations) /\ \A a \in activations : a.at \in Int
      /\ Sorted(timers) /\ currentTime \in Int /\ Eps \in Nat
  BY Parameters DEF BaseInv, EffectInv
<1>2. currentTime + Eps \in Int
  BY <1>1
<1>3. DueTimers = 1 .. n /\ n \in 0 .. Len(timers)
  BY <1>1, <1>2, FirstOnes DEF DueTimers
<1> HIDE DEF n
<1>4. \A i \in DOMAIN rest : i + n \in DOMAIN timers /\ rest[i] = timers[i + n]
  BY <1>1, <1>3, Rest
<1>5. DOMAIN rest \subseteq Nat \ {0}
  <2>1. rest \in Seq(activations)
    BY <1>1, <1>3, Popped
  <2> HIDE DEF rest
  <2> QED
    BY <2>1
<1> HIDE DEF rest
<1>6. ASSUME NEW i \in DOMAIN rest
      PROVE  rest[i].at > currentTime
  <2>1. i + n \notin 1 .. n /\ n \in Nat
    BY <1>3, <1>5
  <2>2. i + n \in DOMAIN timers /\ i + n \notin DueTimers /\ timers[i + n].at \in Int
    BY <1>1, <1>3, <1>4, <2>1
  <2>3. ~(timers[i + n].at <= currentTime + Eps)
    BY <2>2 DEF DueTimers
  <2> QED
    BY <1>1, <1>4, <2>2, <2>3
<1> QED
  BY <1>6 DEF TimersAfter, rest, n

(* With ticks that hold events handleTimers returns 0 or 2. *)
LEMMA WhatTimersReturn ==
  ASSUME BaseInv, EffectInv
  PROVE  /\ TimersReturn \in {0, 2}
         /\ TimersReturn = 0 <=> DueTimers = {}
         /\ TimersReturn = 0 => /\ Fired(Cardinality(DueTimers)) = {}
                                /\ TimersAfter(timers, currentTime)
         /\ TimerBy(currentTime) => TimersReturn = 2
         /\ Fired(Cardinality(DueTimers)) \subseteq activations
         /\ Cardinality(DueTimers) \in 0 .. Len(timers)
<1>1. /\ timers \in Seq(activations) /\ \A a \in activations : a.at \in Int
      /\ currentTime \in Int /\ Eps \in Nat
      /\ \A i \in DOMAIN timers : timers[i].hold
  BY Parameters DEF BaseInv, EffectInv
<1>2. TimersReturn = IF DueTimers # {} THEN 2 ELSE 0
  BY <1>1 DEF TimersReturn, DueTimers
<1>3. /\ DueTimers = {} => Fired(Cardinality(DueTimers)) = {}
      /\ Fired(Cardinality(DueTimers)) \subseteq activations
      /\ Cardinality(DueTimers) \in 0 .. Len(timers)
  BY <1>1, DueFacts
<1>4. DueTimers = {} => TimersAfter(timers, currentTime)
  BY <1>1 DEF DueTimers, TimersAfter
<1>5. TimerBy(currentTime) => DueTimers # {}
  <2>1. ASSUME TimerBy(currentTime)
        PROVE  1 \in DueTimers
    <3>1. timers # <<>> /\ Head(timers).at <= currentTime
      BY <2>1 DEF TimerBy
    <3>2. 1 \in DOMAIN timers /\ Head(timers) = timers[1]
      BY <1>1, <3>1
    <3>3. timers[1].at \in Int /\ timers[1].at <= currentTime + Eps
      BY <1>1, <3>1, <3>2
    <3> QED
      BY <3>2, <3>3 DEF DueTimers
  <2> QED
    BY <2>1
<1> QED
  BY <1>2, <1>3, <1>4, <1>5

(* updateContinuousSystem keeps the invariant: timers that fire make an event. *)
LEMMA InvUpdate ==
  ASSUME LoopInv, UpdateContinuousSystem
  PROVE  OtherInv'
<1> DEFINE n == Cardinality(DueTimers)
<1>1. /\ BaseInv /\ EffectInv /\ TimeInv /\ DueInv /\ PlaceInv /\ AtUpdate
  BY DEF LoopInv, PlaceInv
<1>2. /\ pc = "update" /\ pc' = "check" /\ HandleTimers(n, n, localData[1])
      /\ syncRet' = TimersReturn
      /\ UNCHANGED <<currentStepSize, currStepNo, didEventStep, syncStep, retry, stopTime,
                     currentTime, old, nextSampleTimes, sampleActivated, eventLst, chat, crossing>>
      /\ model' = model /\ throws' = throws
      /\ accepted' = accepted /\ activations' = activations /\ restart' = restart
  BY DEF UpdateContinuousSystem, bounds, histVars
<1>3. /\ RootIsNew /\ Alike(old.seen) /\ ~restart
      /\ crossing # 0 \/ sampleActivated \/ TimerBy(currentTime) \/ Point(currentTime)
  BY <1>1, <1>2 DEF AtUpdate
<1>4. /\ TimersReturn \in {0, 2}
      /\ TimersReturn = 0 => Fired(n) = {}
      /\ TimerBy(currentTime) => TimersReturn = 2
      /\ Fired(n) \subseteq activations
      /\ n \in 0 .. Len(timers)
  BY <1>1, WhatTimersReturn
<1>5. timers' = SubSeq(timers, n + 1, Len(timers))
  BY <1>2 DEF HandleTimers
<1> HIDE DEF n
<1>6. /\ localData'[1].seen = localData[1].seen \cup Fired(n)
      /\ localData'[1].time = localData[1].time
      /\ localData'[2] = localData[2] /\ localData'[3] = localData[3]
  BY <1>1, <1>2, <1>4, BaseTimers
<1>7. /\ \A i \in DOMAIN timers' : timers'[i].hold
      /\ Sorted(timers')
      /\ \A t \in Int : TimersAfter(timers, t) => TimersAfter(timers', t)
  BY <1>1, <1>4, <1>5, TimersLeft
<1>8. /\ Reach' = Reach /\ Slack' = Slack
      /\ NextSample' = NextSample /\ Samples' = Samples
  BY <1>1, <1>2, NextSampleKept DEF Reach, ReachOf, Slack
<1>9. EffectInv'
  BY <1>1, <1>2, <1>4, <1>6, <1>7, <1>8 DEF EffectInv, SampleAt, Planned, Horizon
<1>10. TimeInv'
  BY <1>1, <1>2, <1>6, <1>8 DEF TimeInv, Passed, Reached
<1>11. DueInv'
  <2>1. old.time \in Int
    BY <1>1, Numbers
  <2> QED
    BY <1>1, <1>2, <1>7, <1>8, <2>1 DEF DueInv, SamplesFrom
<1>12. AtCheck'
  <2>1. RootIsNew'
    BY <1>2, <1>3, <1>6 DEF RootIsNew
  <2>2. CASE TimersReturn = 2
    BY <1>2, <2>1, <2>2 DEF AtCheck
  <2>3. CASE TimersReturn = 0
    <3>1. Alike(localData[1].seen)'
      BY <1>3, <1>4, <1>6, <2>3 DEF Alike
    <3>2. crossing' # 0 \/ sampleActivated' \/ Point(currentTime)'
      BY <1>2, <1>3, <1>4, <2>3 DEF Point
    <3> QED
      BY <1>2, <1>3, <2>1, <2>3, <3>1, <3>2 DEF AtCheck
  <2> QED
    BY <1>4, <2>2, <2>3
<1>13. PlaceInv'
  BY <1>2, <1>12 DEF PlaceInv, AtHead, AtSolve, AtUpdate, AtEvent, AtFinish, AtEmit
<1> QED
  BY <1>9, <1>10, <1>11, <1>13 DEF OtherInv

(* checkEvents keeps the invariant: going back to a root leaves nothing behind. *)
LEMMA InvCheck ==
  ASSUME LoopInv, CheckEvents
  PROVE  OtherInv'
<1> DEFINE found == crossing # 0 \/ eventLst
           root == IF crossing # 0 /\ ~model.rootFinding THEN crossing ELSE localData[1].time
           event == found \/ sampleActivated \/ syncRet = 2
<1>1. /\ BaseInv /\ EffectInv /\ TimeInv /\ DueInv /\ PlaceInv /\ AtCheck
  BY DEF LoopInv, PlaceInv
<1>2. /\ pc = "check" /\ pc' = (IF event THEN "event" ELSE "finish")
      /\ eventLst' = found
      /\ currentTime' = IF found THEN root ELSE currentTime
      /\ localData' = IF found THEN [localData EXCEPT ![1] = [localData[1] EXCEPT !.time = root]]
                      ELSE localData
      /\ didEventStep' = (event /\ didEventStep)
      /\ crossing' = 0
      /\ UNCHANGED <<currentStepSize, currStepNo, syncStep, syncRet, retry, stopTime, old,
                     nextSampleTimes, sampleActivated, timers, chat>>
      /\ model' = model /\ throws' = throws
      /\ accepted' = accepted /\ activations' = activations /\ restart' = restart
  BY DEF CheckEvents, bounds, histVars
<1>3. /\ localData[1].time = currentTime
      /\ eventLst => currentTime > old.time
      /\ crossing # 0 => old.time < crossing /\ crossing <= currentTime
      /\ \/ syncRet = 2
         \/ /\ syncRet = 0 /\ ~restart /\ Alike(localData[1].seen)
            /\ crossing # 0 \/ sampleActivated \/ Point(currentTime)
  BY <1>1, <1>2 DEF AtCheck, RootIsNew
<1>4. /\ currentTime \in Int /\ old.time \in Int /\ crossing \in Int /\ Reach \in Int
      /\ NextSample \in Int
  BY <1>1, Numbers
<1>5. /\ root \in Int /\ root <= currentTime
      /\ found => old.time < root
  BY <1>3, <1>4
<1>6. found \in BOOLEAN /\ event \in BOOLEAN /\ (found => event)
  OBVIOUS
<1>7. ~event => /\ ~found /\ ~sampleActivated /\ syncRet # 2 /\ crossing = 0
  OBVIOUS
<1>8. sampleActivated => event
  OBVIOUS
<1> HIDE DEF found, root, event
<1>9. /\ localData'[1].time = currentTime' /\ localData'[1].seen = localData[1].seen
      /\ localData'[2] = localData[2] /\ localData'[3] = localData[3]
  <2>1. CASE found
    <3> DEFINE slot == [localData[1] EXCEPT !.time = root]
    <3>1. IsSlots(localData) /\ IsSlot(localData[1])
      BY <1>1 DEF BaseInv, IsSlots
    <3>2. IsSlot(slot) /\ slot.time = root /\ slot.seen = localData[1].seen
      BY <1>5, <3>1, SlotMoved
    <3>3. localData' = [localData EXCEPT ![1] = slot] /\ currentTime' = root
      BY <1>2, <2>1
    <3> HIDE DEF slot
    <3> QED
      BY <3>1, <3>2, <3>3, SlotsPut
  <2>2. CASE ~found
    BY <1>2, <1>3, <2>2
  <2> QED
    BY <2>1, <2>2
<1>10. /\ currentTime' \in Int /\ currentTime' <= currentTime /\ old.time <= currentTime'
       /\ found => old.time < currentTime'
       /\ ~found => currentTime' = currentTime
  <2>1. old.time <= currentTime
    BY <1>1, <1>4 DEF TimeInv
  <2> QED
    BY <1>2, <1>4, <1>5, <2>1
<1>11. /\ Reach' = Reach /\ Slack' = Slack
       /\ NextSample' = NextSample /\ Samples' = Samples
  BY <1>2, NextSampleKept DEF Reach, ReachOf, Slack
<1>12. currentTime' \in 0 .. Reach /\ old.time \in 0 .. currentTime' /\ 0 \in 0 .. Reach
  <2>1. old.time \in Nat /\ currentTime \in 0 .. Reach
    BY <1>1, <1>4 DEF TimeInv
  <2> QED
    BY <1>4, <1>10, <2>1
<1>13. SamplesFrom(currentTime) /\ NextSample >= currentTime'
       /\ (NextSample = currentTime' => sampleActivated)
  <2>1. SamplesFrom(currentTime)
    BY <1>1, <1>2 DEF DueInv
  <2>2. NextSample >= currentTime /\ (NextSample = currentTime => sampleActivated)
    BY <2>1 DEF SamplesFrom
  <2>3. NextSample >= currentTime'
    BY <1>4, <1>10, <2>2
  <2>4. NextSample = currentTime' => NextSample = currentTime
    BY <1>4, <1>10, <2>2
  <2> QED
    BY <2>1, <2>2, <2>3, <2>4
<1>14. EffectInv'
  BY <1>1, <1>2, <1>9, <1>11 DEF EffectInv, SampleAt, Planned, Horizon
<1>15. TimeInv'
  BY <1>1, <1>2, <1>9, <1>11, <1>12 DEF TimeInv, Passed, Reached
<1>16. DueInv'
  <2>1. pc' = "finish" => NextSample > currentTime'
    BY <1>2, <1>4, <1>7, <1>10, <1>13
  <2> QED
    BY <1>1, <1>2, <1>11, <1>13, <2>1 DEF DueInv, SamplesFrom, TimersAfter
<1>17. AtEvent' /\ AtFinish'
  <2>1. CASE event
    <3>1. RootIsNew'
      BY <1>2, <1>9, <1>10 DEF RootIsNew
    <3> QED
      BY <1>2, <1>3, <2>1, <3>1 DEF AtEvent, AtFinish
  <2>2. CASE ~event
    <3>1. syncRet = 0 /\ ~restart /\ Alike(localData[1].seen) /\ Point(currentTime) /\ ~found
      BY <1>3, <1>7, <2>2
    <3>2. Alike(localData[1].seen)' /\ Point(currentTime)'
      BY <1>2, <1>9, <1>10, <3>1 DEF Alike, Point
    <3>3. didEventStep' = FALSE /\ eventLst' = FALSE /\ pc' = "finish"
      BY <1>2, <1>6, <2>2, <3>1
    <3>4. syncRet' = 0 /\ restart' = FALSE /\ localData'[1].time = currentTime'
      BY <1>1, <1>2, <1>9, <3>1 DEF BaseInv
    <3> QED
      BY <1>2, <3>2, <3>3, <3>4 DEF AtEvent, AtFinish
  <2> QED
    BY <2>1, <2>2
<1>18. PlaceInv'
  BY <1>2, <1>17 DEF PlaceInv, AtHead, AtSolve, AtUpdate, AtCheck, AtEmit
<1> QED
  BY <1>14, <1>15, <1>16, <1>18 DEF OtherInv

(* What the plan consists of does not change with the lists. *)
LEMMA SamplesStay ==
  ASSUME EffectInv, model' = model, nextSampleTimes' = nextSampleTimes
  PROVE  /\ Planned(model)' = Planned(model) /\ Planned(model) \subseteq activations
         /\ (\A i \in Samples : SampleAt(i, nextSampleTimes[i]))'
<1>1. Planned(model)' = Planned(model)
  BY DEF Planned, Horizon
<1>2. Samples' = Samples
  BY DEF Samples
<1> QED
  BY <1>1, <1>2 DEF EffectInv, SampleAt

(* The end of simulationUpdate keeps the invariant: it goes on when no timer is due. *)
LEMMA InvFinish ==
  ASSUME LoopInv, NEW selected \in BOOLEAN, FinishUpdate(selected)
  PROVE  OtherInv'
<1> DEFINE n == Cardinality(DueTimers)
           after == [localData[1] EXCEPT !.seen = localData[1].seen \cup Fired(n)]
<1>1. /\ BaseInv /\ EffectInv /\ TimeInv /\ DueInv /\ PlaceInv /\ AtFinish
  BY DEF LoopInv, PlaceInv
<1>2. /\ pc = "finish"
      /\ didEventStep' = (didEventStep \/ selected)
      /\ old' = localData[1]
      /\ timers' = SubSeq(timers, n + 1, Len(timers))
      /\ localData' = IF selected THEN <<after, localData[1], localData[1]>>
                      ELSE [localData EXCEPT ![1] = after]
      /\ syncRet' = IF TimersReturn = 0 THEN syncRet ELSE TimersReturn
      /\ pc' = IF TimersReturn = 0 THEN "emit" ELSE "check"
      /\ syncStep' = IF TimersReturn = 0 THEN syncRet # 0 ELSE syncStep
      /\ retry' = (retry /\ TimersReturn # 0)
      /\ restart' = (restart \/ selected)
      /\ UNCHANGED <<currentStepSize, currStepNo, stopTime, currentTime, nextSampleTimes,
                     sampleActivated, eventLst, chat, crossing, model, throws,
                     accepted, activations>>
  BY DEF FinishUpdate
<1>3. /\ localData[1].time = currentTime
      /\ Alike(localData[1].seen)
      /\ ~eventLst /\ crossing = 0 /\ syncRet # 1
      /\ IF didEventStep THEN localData[2] = localData[1] /\ localData[3] = localData[1]
         ELSE syncRet = 0 /\ ~restart /\ Point(currentTime)
  BY <1>1, <1>2 DEF AtFinish
<1>4. /\ TimersReturn \in {0, 2}
      /\ TimersReturn = 0 => Fired(n) = {}
      /\ Fired(n) \subseteq activations
      /\ n \in 0 .. Len(timers)
  BY <1>1, WhatTimersReturn
<1>5. TimersAfter(timers', currentTime)
  BY <1>1, <1>2, DueGone
<1> HIDE DEF n
<1>6. IsSlots(localData) /\ IsSlot(localData[1])
  BY <1>1 DEF BaseInv, IsSlots
<1>7. /\ IsSlot(after) /\ after.time = currentTime
      /\ after.seen = localData[1].seen \cup Fired(n)
      /\ TimersReturn = 0 => after = localData[1]
  <2>1. /\ IsSlot(after) /\ after.time = localData[1].time
        /\ after.seen = localData[1].seen \cup Fired(n)
    BY <1>6, SlotSeen
  <2> HIDE DEF after
  <2>2. ASSUME TimersReturn = 0
        PROVE  after = localData[1]
    <3>1. after.seen = localData[1].seen
      BY <1>4, <2>1, <2>2
    <3> QED
      BY <1>6, <2>1, <3>1, SlotEqual
  <2> QED
    BY <1>3, <2>1, <2>2
<1> HIDE DEF after
<1>8. /\ localData'[1] = after
      /\ selected => localData'[2] = localData[1] /\ localData'[3] = localData[1]
      /\ ~selected => localData'[2] = localData[2] /\ localData'[3] = localData[3]
  BY <1>2, <1>6, <1>7, SlotsPut, SlotsTuple
<1>9. /\ \A i \in DOMAIN timers' : timers'[i].hold
      /\ Sorted(timers')
  BY <1>1, <1>2, <1>4, TimersLeft
<1>10. /\ Reach' = Reach /\ Slack' = Slack
       /\ NextSample' = NextSample /\ Samples' = Samples
  BY <1>2, NextSampleKept DEF Reach, ReachOf, Slack
<1>11. EffectInv'
  <2>1. /\ localData'[1].seen \subseteq activations
        /\ localData'[2].seen \subseteq activations
        /\ localData'[3].seen \subseteq activations
        /\ old'.seen \subseteq activations
    BY <1>1, <1>2, <1>4, <1>7, <1>8 DEF EffectInv
  <2> QED
    BY <1>1, <1>2, <1>9, <2>1, SamplesStay DEF EffectInv
<1>12. /\ currentTime \in Int /\ old.time \in Int /\ accepted.time \in Int /\ Reach \in Int
  BY <1>1, Numbers
<1>13. TimeInv'
  <2>1. /\ localData'[1].time \in 0 .. Reach
        /\ localData'[2].time \in 0 .. Reach
        /\ localData'[3].time \in 0 .. Reach
    BY <1>1, <1>7, <1>8 DEF TimeInv
  <2>2. old'.time \in 0 .. currentTime /\ accepted.time \in 0 .. old'.time
    BY <1>1, <1>2, <1>3, <1>12 DEF TimeInv
  <2>3. retry' \/ pc' = "catch" => Reached(accepted.time)'
    BY <1>1, <1>2 DEF TimeInv, Reached
  <2> QED
    BY <1>1, <1>2, <1>10, <2>1, <2>2, <2>3 DEF TimeInv, Passed
<1>14. NextSample > currentTime
  BY <1>1, <1>2 DEF DueInv
<1>15. DueInv'
  <2>1. old'.time = currentTime /\ NextSample \in Int /\ pc' \in {"emit", "check"}
    BY <1>1, <1>2, <1>3, Numbers
  <2>2. SamplesFrom(currentTime)'
    BY <1>2, <1>10, <1>12, <1>14, <2>1 DEF SamplesFrom
  <2> QED
    BY <1>2, <1>5, <1>10, <1>14, <2>1, <2>2 DEF DueInv, TimersAfter
<1>16. AtCheck' /\ AtEmit'
  <2>1. CASE TimersReturn = 2
    <3>1. pc' = "check" /\ syncRet' = 2
      BY <1>2, <2>1
    <3>2. RootIsNew'
      BY <1>2, <1>3, <1>7, <1>8 DEF RootIsNew
    <3> QED
      BY <3>1, <3>2 DEF AtCheck, AtEmit
  <2>2. CASE TimersReturn = 0
    <3>1. pc' = "emit" /\ syncStep' = (syncRet # 0) /\ ~retry'
      BY <1>2, <2>2
    <3>2. localData'[1] = old' /\ currentTime' = old'.time /\ ~eventLst'
      BY <1>2, <1>3, <1>7, <1>8, <2>2
    <3>3. Alike(old.seen)'
      BY <1>2, <1>3, <1>8, <3>2 DEF Alike
    <3>4. restart' => didEventStep'
      BY <1>2, <1>3
    <3>5. CASE didEventStep \/ selected
      <4>1. AllOld' /\ SyncEventStep'
        BY <1>2, <1>3, <1>8, <3>2, <3>5 DEF AllOld, SyncEventStep
      <4> QED
        BY <3>1, <3>2, <3>3, <3>4, <4>1 DEF AtCheck, AtEmit
    <3>6. CASE ~(didEventStep \/ selected)
      <4>1. ~SyncEventStep' /\ Point(currentTime)'
        BY <1>2, <1>3, <3>1, <3>6 DEF SyncEventStep, Point
      <4> QED
        BY <3>1, <3>2, <3>3, <3>4, <4>1 DEF AtCheck, AtEmit
    <3> QED
      BY <3>5, <3>6
  <2> QED
    BY <1>4, <2>1, <2>2
<1>17. PlaceInv'
  <2>1. pc' \in {"emit", "check"}
    BY <1>2
  <2> QED
    BY <1>16, <2>1 DEF PlaceInv, AtHead, AtSolve, AtUpdate, AtEvent, AtFinish
<1> QED
  BY <1>11, <1>13, <1>15, <1>17 DEF OtherInv

(* The loop commits itself to later slots only. *)
LEMMA PassedOn ==
  ASSUME BaseInv, TimeInv
  PROVE  /\ Passed(old.time)
         /\ Reached(accepted.time) => Reached(old.time)
<1>1. /\ old.time \in Int /\ accepted.time \in Int /\ currStepNo \in Nat /\ throws \in Nat
      /\ Slack \in 0 .. 1 /\ currentTime \in Int
  BY Numbers
<1>2. accepted.time <= old.time /\ Passed(accepted.time)
  BY <1>1 DEF TimeInv
<1>3. Grid(currStepNo - 1 - throws) \in Int /\ Grid(currStepNo - throws) \in Int
  BY <1>1, GridIsInt
<1> QED
  BY <1>1, <1>2, <1>3 DEF Passed, Reached

(* Emitting a step keeps the invariant: the loop commits itself to the old values. *)
LEMMA InvEmit ==
  ASSUME LoopInv, NEW input \in BOOLEAN, NEW terminated \in BOOLEAN, EmitStep(input, terminated)
  PROVE  OtherInv'
<1>1. /\ BaseInv /\ EffectInv /\ TimeInv /\ DueInv /\ PlaceInv /\ AtEmit
  BY DEF LoopInv, PlaceInv
<1>2. /\ pc = "emit" /\ pc' = "head"
      /\ didEventStep' = (didEventStep \/ input)
      /\ restart' = (restart \/ input)
      /\ localData' = IF input THEN Overwrite(localData[1]) ELSE localData
      /\ old' = IF input THEN localData[1] ELSE old
      /\ stopTime' = IF terminated THEN currentTime ELSE stopTime
      /\ accepted' = localData[1]
      /\ UNCHANGED <<currentStepSize, currStepNo, syncStep, syncRet, retry, currentTime,
                     nextSampleTimes, sampleActivated, timers, eventLst, chat, crossing,
                     model, throws, activations>>
  BY DEF EmitStep, eventVars
<1>3. /\ localData[1] = old /\ currentTime = old.time
      /\ Alike(old.seen)
      /\ ~eventLst /\ ~retry
      /\ IF SyncEventStep THEN AllOld ELSE Point(currentTime)
      /\ restart => didEventStep
  BY <1>1, <1>2 DEF AtEmit
<1>4. old' = old /\ accepted' = old
  BY <1>2, <1>3
<1>5. /\ localData'[1] = old
      /\ localData'[2] \in {old, localData[2]} /\ localData'[3] \in {old, localData[3]}
      /\ input \/ SyncEventStep => localData'[2] = old /\ localData'[3] = old
  BY <1>2, <1>3 DEF Overwrite, AllOld
<1>6. /\ Reach' = Reach /\ Slack' = Slack
      /\ NextSample' = NextSample /\ Samples' = Samples
  BY <1>2, NextSampleKept DEF Reach, ReachOf, Slack
<1>7. EffectInv'
  BY <1>1, <1>2, <1>4, <1>5, <1>6 DEF EffectInv, SampleAt, Planned, Horizon
<1>8. TimeInv'
  <2>1. old.time \in 0 .. currentTime /\ old.time \in 0 .. old.time /\ old.time \in 0 .. Reach
    BY <1>1, <1>3, Numbers DEF TimeInv
  <2>2. Passed(accepted.time)'
    BY <1>1, <1>2, <1>4, <1>6, PassedOn DEF Passed
  <2>3. stopTime' = Grid(NumSteps) \/ stopTime' = currentTime'
    BY <1>1, <1>2 DEF TimeInv
  <2>4. /\ localData'[1].time \in 0 .. Reach
        /\ localData'[2].time \in 0 .. Reach
        /\ localData'[3].time \in 0 .. Reach
    BY <1>1, <1>5, <2>1 DEF TimeInv
  <2> QED
    BY <1>1, <1>2, <1>3, <1>4, <1>6, <2>1, <2>2, <2>3, <2>4 DEF TimeInv
<1>9. DueInv'
  <2>1. NextSample > currentTime /\ TimersAfter(timers, currentTime) /\ NextSample \in Int
        /\ currentTime \in Int
    BY <1>1, <1>2, Numbers DEF DueInv
  <2>2. NextSample >= currentTime
    BY <2>1
  <2> QED
    BY <1>2, <1>3, <1>4, <1>6, <2>1, <2>2 DEF DueInv, TimersAfter
<1>10. AtHead'
  <2>1. Alike(old.seen)'
    BY <1>3, <1>4, <1>5 DEF Alike
  <2>2. retry' \/ restart' \/ eventLst' => didEventStep'
    BY <1>2, <1>3
  <2>3. CASE input \/ SyncEventStep
    <3>1. AllOld' /\ SyncEventStep'
      BY <1>2, <1>4, <1>5, <2>3 DEF AllOld, SyncEventStep
    <3> QED
      BY <1>2, <1>3, <1>4, <1>5, <2>1, <2>2, <3>1 DEF AtHead
  <2>4. CASE ~(input \/ SyncEventStep)
    <3>1. ~SyncEventStep' /\ Point(currentTime)'
      BY <1>2, <1>3, <2>4 DEF SyncEventStep, Point
    <3> QED
      BY <1>2, <1>3, <1>4, <1>5, <2>1, <2>2, <3>1 DEF AtHead
  <2> QED
    BY <2>3, <2>4
<1>11. PlaceInv'
  BY <1>2, <1>10 DEF PlaceInv, AtSolve, AtUpdate, AtCheck, AtEvent, AtFinish, AtEmit
<1> QED
  BY <1>7, <1>8, <1>9, <1>11 DEF OtherInv

(* retrySimulationStep keeps the invariant: what it goes back to has left nothing behind. *)
LEMMA InvRetry ==
  ASSUME LoopInv, Retry
  PROVE  OtherInv'
<1>1. /\ BaseInv /\ EffectInv /\ TimeInv /\ DueInv /\ PlaceInv
  BY DEF LoopInv
<1>2. /\ pc = "catch" /\ pc' = "head" /\ retry' = TRUE
      /\ localData' = Overwrite(old) /\ currentTime' = old.time
      /\ didEventStep' = TRUE /\ crossing' = 0 /\ accepted' = old
      /\ UNCHANGED <<currentStepSize, currStepNo, syncStep, syncRet, stopTime, old,
                     nextSampleTimes, sampleActivated, timers, eventLst, chat, activations>>
      /\ model' = model /\ throws' = throws
  BY DEF Retry, bounds
<1>3. localData'[1] = old /\ localData'[2] = old /\ localData'[3] = old
  BY <1>2 DEF Overwrite
<1>4. /\ Reach' = Reach /\ Slack' = Slack
      /\ NextSample' = NextSample /\ Samples' = Samples
  BY <1>2, NextSampleKept DEF Reach, ReachOf, Slack
<1>5. EffectInv'
  BY <1>1, <1>2, <1>3, <1>4 DEF EffectInv, SampleAt, Planned, Horizon
<1>6. throws > 0 /\ Reached(old.time)
  BY <1>1, <1>2, PassedOn DEF TimeInv, Reached
<1>7. /\ old.time \in 0 .. old.time /\ old.time \in 0 .. Reach /\ 0 \in 0 .. Reach
  <2>1. /\ old.time \in Int /\ currentTime \in Int /\ Reach \in Int
    BY <1>1, Numbers
  <2>2. old.time \in 0 .. currentTime /\ currentTime \in 0 .. Reach
    BY <1>1 DEF TimeInv
  <2> QED
    BY <2>1, <2>2
<1>8. TimeInv'
  <2>1. Passed(accepted.time)' /\ Reached(accepted.time)'
    BY <1>1, <1>2, <1>4, <1>6, PassedOn DEF Passed, Reached
  <2> QED
    BY <1>1, <1>2, <1>3, <1>4, <1>7, <2>1 DEF TimeInv
<1>9. NextSample > old.time /\ TimersAfter(timers, old.time) /\ NextSample >= old.time
  <2>1. model.throws > 0
    BY <1>1, <1>6, Numbers
  <2>2. NextSample \in Int /\ old.time \in Int
    BY <1>1, Numbers
  <2> QED
    BY <1>1, <2>1, <2>2 DEF DueInv
<1>10. DueInv'
  BY <1>2, <1>4, <1>9 DEF DueInv, TimersAfter
<1>11. AtHead'
  BY <1>2, <1>3 DEF AtHead, Alike, AllOld, SyncEventStep
<1>12. PlaceInv'
  BY <1>2, <1>11 DEF PlaceInv, AtSolve, AtUpdate, AtCheck, AtEvent, AtFinish, AtEmit
<1> QED
  BY <1>5, <1>8, <1>10, <1>12 DEF OtherInv

(* An assertion costs one point of the grid. *)
LEMMA ThrowCounted ==
  ASSUME BaseInv, TimeInv, currStepNo' = currStepNo, accepted' = accepted, throws' = throws + 1
  PROVE  /\ Reach <= Reach' /\ Reach' \in Int
         /\ currStepNo' <= NumSteps + throws'
         /\ Passed(accepted.time)' /\ Reached(accepted.time)'
<1>1. /\ accepted.time \in Int /\ currStepNo \in Nat /\ throws \in Nat
      /\ Slack \in 0 .. 1 /\ NumSteps \in Nat
  BY Numbers, Parameters
<1>2. Reach <= Reach' /\ Reach' \in Int
  <2>1. /\ currStepNo' \in Nat /\ currStepNo <= currStepNo'
        /\ throws' \in Nat /\ throws <= throws'
    BY <1>1
  <2> QED
    BY <2>1, ReachGrows
<1>3. currStepNo' <= NumSteps + throws'
  <2>1. currStepNo <= NumSteps + throws
    BY DEF TimeInv
  <2> QED
    BY <1>1, <2>1
<1>4. Grid(currStepNo - 1 - throws) <= accepted.time + Slack
  BY DEF TimeInv, Passed
<1> DEFINE p == currStepNo - 1 - throws
<1>5. p \in Int /\ p - 1 \in Int /\ p - 1 <= p
  BY <1>1
<1>6. currStepNo' - 1 - throws' = p - 1 /\ currStepNo' - throws' = p
  BY <1>1
<1> HIDE DEF p
<1>7. Grid(p - 1) <= Grid(p) /\ Grid(p) \in Int /\ Grid(p - 1) \in Int
  BY <1>5, GridOrder, GridIsInt
<1>8. Grid(p) <= accepted.time + 1 /\ Grid(p - 1) <= accepted.time + 1
  <2>1. Grid(p) <= accepted.time + Slack
    BY <1>4 DEF p
  <2> QED
    BY <1>1, <1>7, <2>1
<1>9. throws' > 0 /\ Slack' = 1
  <2>1. throws' # 0 /\ throws' > 0
    BY <1>1
  <2> QED
    BY <2>1 DEF Slack
<1> QED
  BY <1>2, <1>3, <1>6, <1>8, <1>9 DEF Passed, Reached

(* An assertion keeps the invariant: it costs one point of the grid. *)
LEMMA InvThrow ==
  ASSUME LoopInv, ThrowInUpdate \/ ThrowInFindRoot \/ ThrowInFinish
  PROVE  OtherInv'
<1>1. /\ BaseInv /\ EffectInv /\ TimeInv /\ DueInv
  BY DEF LoopInv
<1>2. /\ pc \in {"update", "check", "finish"} /\ pc' = "catch" /\ throws' = throws + 1
      /\ UNCHANGED <<currentStepSize, currStepNo, didEventStep, syncStep, syncRet, retry,
                     stopTime, currentTime, old, nextSampleTimes, sampleActivated, chat, model,
                     accepted, activations, restart, crossing>>
  BY DEF ThrowInUpdate, ThrowInFindRoot, ThrowInFinish, Throw
<1>3. /\ localData'[1].time = localData[1].time
      /\ localData'[1].seen \subseteq activations
      /\ localData'[2] = localData[2] /\ localData'[3] = localData[3]
      /\ \A i \in DOMAIN timers' : timers'[i].hold
      /\ Sorted(timers')
      /\ \A t \in Int : TimersAfter(timers, t) => TimersAfter(timers', t)
  <2>1. CASE UNCHANGED <<timers, localData>>
    BY <1>1, <2>1 DEF EffectInv
  <2>2. ASSUME NEW n \in DueTimers, HandleTimers(n, n - 1, localData[1])
        PROVE  /\ localData'[1].time = localData[1].time
               /\ localData'[1].seen \subseteq activations
               /\ localData'[2] = localData[2] /\ localData'[3] = localData[3]
               /\ \A i \in DOMAIN timers' : timers'[i].hold
               /\ Sorted(timers')
               /\ \A t \in Int : TimersAfter(timers, t) => TimersAfter(timers', t)
    <3>1. timers \in Seq(activations)
      BY <1>1 DEF BaseInv
    <3>2. n \in 0 .. Len(timers) /\ n - 1 \in 0 .. Len(timers)
      BY <3>1, DueFacts
    <3>3. /\ localData'[1].seen = localData[1].seen \cup Fired(n - 1)
          /\ localData'[1].time = localData[1].time
          /\ localData'[2] = localData[2] /\ localData'[3] = localData[3]
      BY <1>1, <2>2, <3>2, BaseTimers
    <3>4. Fired(n - 1) \subseteq activations
      BY <1>1, <3>2, TimersStay
    <3>5. timers' = SubSeq(timers, n + 1, Len(timers))
      BY <2>2 DEF HandleTimers
    <3>6. /\ \A i \in DOMAIN timers' : timers'[i].hold
          /\ Sorted(timers')
          /\ \A t \in Int : TimersAfter(timers, t) => TimersAfter(timers', t)
      BY <1>1, <3>2, <3>5, TimersLeft
    <3> QED
      BY <1>1, <3>3, <3>4, <3>6 DEF EffectInv
  <2>3. CASE ThrowInUpdate
    BY <2>1, <2>2, <2>3 DEF ThrowInUpdate
  <2>4. CASE ThrowInFindRoot \/ ThrowInFinish
    BY <2>1, <2>4 DEF ThrowInFindRoot, ThrowInFinish
  <2> QED
    BY <2>3, <2>4
<1>4. /\ Reach <= Reach' /\ Reach' \in Int
      /\ currStepNo' <= NumSteps + throws'
      /\ Passed(accepted.time)' /\ Reached(accepted.time)'
  BY <1>1, <1>2, ThrowCounted
<1>5. NextSample' = NextSample
  BY <1>2, NextSampleKept
<1>6. EffectInv'
  BY <1>1, <1>2, <1>3, SamplesStay DEF EffectInv
<1>7. TimeInv'
  <2>1. stopTime = Grid(NumSteps)
    BY <1>1, <1>2 DEF TimeInv
  <2>2. /\ localData'[1].time \in 0 .. Reach'
        /\ localData'[2].time \in 0 .. Reach'
        /\ localData'[3].time \in 0 .. Reach'
        /\ currentTime' \in 0 .. Reach'
        /\ currentStepSize' \in -Reach' .. Reach'
        /\ crossing' \in 0 .. Reach'
        /\ \A i \in 0 .. NumEventLimit - 1 : chat'.times[i] \in 0 .. Reach'
    BY <1>1, <1>2, <1>3, <1>4, TimesStay
  <2>3. old'.time \in 0 .. currentTime' /\ accepted'.time \in 0 .. old'.time
    BY <1>1, <1>2 DEF TimeInv
  <2> QED
    BY <1>2, <1>4, <2>1, <2>2, <2>3 DEF TimeInv
<1>8. DueInv'
  BY <1>1, <1>2, <1>3, <1>5, Numbers DEF DueInv
<1>9. PlaceInv'
  BY <1>2 DEF PlaceInv, AtHead, AtSolve, AtUpdate, AtCheck, AtEvent, AtFinish, AtEmit
<1> QED
  BY <1>6, <1>7, <1>8, <1>9 DEF OtherInv

(* The end of the run keeps the invariant. *)
LEMMA InvEnd ==
  ASSUME LoopInv, pc' = "done", throws' = throws \/ throws' = throws + 1,
         throws' # throws => pc # "head",
         UNCHANGED <<currentStepSize, currStepNo, didEventStep, syncStep, syncRet, retry,
                     timeVars, eventVars, model, crossings, restarts, histVars>>
  PROVE  OtherInv'
<1>1. /\ BaseInv /\ EffectInv /\ TimeInv /\ DueInv
  BY DEF LoopInv
<1>2. UNCHANGED <<currentStepSize, currStepNo, didEventStep, syncStep, syncRet, retry,
                  stopTime, currentTime, localData, old, nextSampleTimes, sampleActivated,
                  timers, eventLst, chat, crossing, model, accepted, activations, restart>>
  BY DEF timeVars, eventVars, histVars
<1>3. NextSample' = NextSample
  BY <1>2, NextSampleKept
<1>4. EffectInv'
  BY <1>1, <1>2, SamplesStay DEF EffectInv
<1>5. TimeInv'
  <2>1. CASE throws' = throws
    <3>1. Reach' = Reach /\ Slack' = Slack
      BY <1>2, <2>1 DEF Reach, ReachOf, Slack
    <3>2. retry => Reached(accepted.time)'
      BY <1>1, <1>2, <2>1 DEF TimeInv, Reached
    <3>3. Passed(accepted.time)'
      BY <1>1, <1>2, <2>1, <3>1 DEF TimeInv, Passed
    <3> QED
      BY <1>1, <1>2, <2>1, <3>1, <3>2, <3>3 DEF TimeInv
  <2>2. CASE throws' = throws + 1
    <3>1. /\ Reach <= Reach' /\ Reach' \in Int
          /\ currStepNo' <= NumSteps + throws'
          /\ Passed(accepted.time)' /\ Reached(accepted.time)'
      BY <1>1, <1>2, <2>2, ThrowCounted
    <3>2. /\ localData'[1].time \in 0 .. Reach'
          /\ localData'[2].time \in 0 .. Reach'
          /\ localData'[3].time \in 0 .. Reach'
          /\ currentTime' \in 0 .. Reach'
          /\ currentStepSize' \in -Reach' .. Reach'
          /\ crossing' \in 0 .. Reach'
          /\ \A i \in 0 .. NumEventLimit - 1 : chat'.times[i] \in 0 .. Reach'
      BY <1>1, <1>2, <3>1, TimesStay
    <3>3. old'.time \in 0 .. currentTime' /\ accepted'.time \in 0 .. old'.time
      BY <1>1, <1>2 DEF TimeInv
    <3>4. stopTime' = Grid(NumSteps) \/ stopTime' = currentTime'
      BY <1>1, <1>2 DEF TimeInv
    <3> QED
      BY <3>1, <3>2, <3>3, <3>4 DEF TimeInv
  <2> QED
    BY <2>1, <2>2
<1>6. DueInv'
  BY <1>1, <1>2, <1>3 DEF DueInv, TimersAfter
<1>7. PlaceInv'
  BY DEF PlaceInv, AtHead, AtSolve, AtUpdate, AtCheck, AtEvent, AtFinish, AtEmit
<1> QED
  BY <1>4, <1>5, <1>6, <1>7 DEF OtherInv

(* The ways out of the loop keep the invariant. *)
LEMMA InvEnds ==
  ASSUME LoopInv, LeaveLoop \/ BreakLoop \/ AbortSlow \/ ThrowInEvent \/ Terminate
  PROVE  OtherInv'
<1>1. CASE LeaveLoop
  BY <1>1, InvEnd DEF LeaveLoop, bounds
<1>2. CASE BreakLoop
  BY <1>2, InvEnd DEF BreakLoop, bounds
<1>3. CASE AbortSlow
  BY <1>3, InvEnd DEF AbortSlow, AbortInEvent
<1>4. CASE ThrowInEvent
  BY <1>4, InvEnd DEF ThrowInEvent, AbortInEvent
<1>5. CASE Terminate
  BY <1>5, InvEnd DEF Terminate, bounds
<1> QED
  BY <1>1, <1>2, <1>3, <1>4, <1>5

(* A step that changes nothing keeps the invariant. *)
LEMMA InvStays ==
  ASSUME LoopInv, UNCHANGED vars
  PROVE  OtherInv'
<1>1. /\ BaseInv /\ EffectInv /\ TimeInv /\ DueInv /\ PlaceInv
  BY DEF LoopInv
<1>2. UNCHANGED <<pc, currentStepSize, currStepNo, didEventStep, syncStep, syncRet, retry,
                  stopTime, currentTime, localData, old, nextSampleTimes, sampleActivated,
                  timers, eventLst, chat, crossing, model, throws, accepted, activations, restart>>
  BY DEF vars, loopVars, timeVars, eventVars, bounds, histVars
<1>3. Reach' = Reach /\ Slack' = Slack /\ NextSample' = NextSample
  BY <1>2, NextSampleKept DEF Reach, ReachOf, Slack
<1>4. EffectInv'
  BY <1>1, <1>2, SamplesStay DEF EffectInv
<1>5. TimeInv'
  BY <1>1, <1>2, <1>3 DEF TimeInv, Passed, Reached
<1>6. DueInv'
  BY <1>1, <1>2, <1>3 DEF DueInv, TimersAfter, SamplesFrom, SyncEventStep
<1>7. AtHead' /\ AtSolve' /\ AtUpdate' /\ AtCheck'
  BY <1>1, <1>2, <1>3 DEF PlaceInv, AtHead, AtSolve, AtUpdate, AtCheck, SyncEventStep,
        Alike, AllOld, Point, TimerBy, RootIsNew, Reach
<1>8. AtEvent' /\ AtFinish' /\ AtEmit'
  BY <1>1, <1>2 DEF PlaceInv, AtEvent, AtFinish, AtEmit, SyncEventStep, Alike, AllOld, Point,
        RootIsNew
<1> QED
  BY <1>4, <1>5, <1>6, <1>7, <1>8 DEF OtherInv, PlaceInv

(* The samples that are left after an event. *)
LEMMA LaterSamples ==
  ASSUME BaseInv, model' = model, nextSampleTimes' \in [Samples -> Nat],
         NEW t \in Int, t < Never, \A i \in Samples : nextSampleTimes'[i] > t
  PROVE  NextSample' > t /\ NextSample' \in Nat
<1> DEFINE times == {nextSampleTimes'[i] : i \in Samples} \cup {Never}
<1>1. times \subseteq Nat /\ times # {} /\ \A s \in times : s > t
  BY HorizonIsNat DEF BaseInv
<1>2. \E s \in times : \A r \in times : s <= r
  BY <1>1, LeastNatural
<1>3. Samples' = Samples /\ Never' = Never
  BY DEF Samples, Never, Horizon
<1>4. NextSample' = CHOOSE s \in times : \A r \in times : s <= r
  BY <1>3 DEF NextSample
<1>5. NextSample' \in times
  BY <1>2, <1>4
<1> QED
  BY <1>1, <1>5

(* A sample that is activated was planned. *)
LEMMA SamplesPlanned ==
  ASSUME LoopInv, pc = "event", NEW i \in Activated
  PROVE  /\ Sample(i, nextSampleTimes[i]) \in activations
         /\ i \in Samples
<1>1. BaseInv /\ EffectInv /\ TimeInv /\ AtEvent
  BY DEF LoopInv, PlaceInv
<1>2. i \in Samples /\ nextSampleTimes[i] <= localData[1].time + Eps
  BY DEF Activated
<1>3. localData[1].time = currentTime /\ currentTime \in 0 .. Reach
  BY <1>1 DEF AtEvent, RootIsNew, TimeInv
<1>4. Reach + Eps <= Horizon /\ Reach \in Int /\ Eps \in Nat /\ Horizon \in Nat
      /\ currentTime \in Int
  BY <1>1, ReachFits, Numbers, Parameters, HorizonIsNat DEF TimeInv, BaseInv
<1> DEFINE first == model.samples[i].start
           step == model.samples[i].interval
<1>5. PICK k \in Nat : nextSampleTimes[i] = first + k * step
  BY <1>1, <1>2 DEF EffectInv, SampleAt
<1>6. first \in Nat /\ step \in Nat \ {0} /\ nextSampleTimes[i] \in Nat
  BY <1>1, <1>2, ModelFacts DEF BaseInv
<1>7. first + k * step <= Horizon
  <2>1. nextSampleTimes[i] <= Horizon
    BY <1>2, <1>3, <1>4, <1>6
  <2> QED
    BY <1>5, <2>1
<1> HIDE DEF first, step
<1>8. k <= k * step /\ k * step \in Nat
  <2>1. k * step \in Nat /\ step - 1 \in Nat
    BY <1>6, Products
  <2>2. k * (step - 1) \in Nat
    BY <2>1, Products
  <2>3. k * step = k * (step - 1) + k
    BY <1>6
  <2> QED
    BY <2>1, <2>2, <2>3
<1>9. k \in 0 .. Horizon
  BY <1>4, <1>6, <1>7, <1>8
<1>10. Sample(i, first + k * step) \in Planned(model)
  <2>1. Sample(i, first + k * step).at <= Horizon
    BY <1>7 DEF Sample
  <2> QED
    BY <1>2, <1>9, <2>1 DEF Planned, Samples, first, step
<1> QED
  BY <1>1, <1>2, <1>5, <1>10 DEF EffectInv

(* A timer that an event adds is one for now, and comes to its place. *)
LEMMA ClockInOrder ==
  ASSUME LoopInv, AllRegular, pc = "event", FireBooleanClock
  PROVE  /\ \A j \in DOMAIN timers' : timers'[j].hold
         /\ Sorted(timers')
         /\ TimersAfter(timers, old.time) => TimersAfter(timers', old.time)
<1>1. BaseInv /\ EffectInv /\ AtEvent
  BY DEF LoopInv, PlaceInv
<1>2. CASE eventLst /\ model.clock # 0
  <2> DEFINE tick == Clock(Cardinality(activations), currentTime, model.clock = 2)
             A == activations \cup {tick}
  <2>1. timers' = InsertTimer(timers, tick)
    BY <1>2 DEF FireBooleanClock
  <2>2. model.clock = 2
    BY <1>1, <1>2, ModelFacts DEF AllRegular, Regular, BaseInv
  <2>3. tick.at = currentTime /\ tick.hold
    BY <2>2 DEF Clock
  <2>4. currentTime > old.time /\ currentTime \in Int /\ old.time \in Int
    BY <1>1, <1>2, Numbers DEF AtEvent, RootIsNew
  <2> HIDE DEF tick
  <2>5. /\ timers \in Seq(A) /\ (\A a \in A : a.at \in Int) /\ tick \in A
    BY <1>1, <2>3, <2>4 DEF BaseInv
  <2> HIDE DEF A
  <2>6. Sorted(timers) /\ \A j \in DOMAIN timers : timers[j].hold
    BY <1>1 DEF EffectInv
  <2>7. /\ Sorted(timers')
        /\ \A j \in DOMAIN timers' : timers'[j] = tick \/ \E k \in DOMAIN timers : timers'[j] = timers[k]
    BY <2>1, <2>5, <2>6, InOrder
  <2>8. \A j \in DOMAIN timers' : timers'[j].hold
    BY <2>3, <2>6, <2>7
  <2>9. TimersAfter(timers, old.time) => TimersAfter(timers', old.time)
    BY <2>3, <2>4, <2>7 DEF TimersAfter
  <2> QED
    BY <2>7, <2>8, <2>9
<1>3. CASE ~(eventLst /\ model.clock # 0)
  BY <1>1, <1>3 DEF FireBooleanClock, EffectInv
<1> QED
  BY <1>2, <1>3

(* handleEvents keeps the invariant: the samples that are due move on. *)
LEMMA InvEvents ==
  ASSUME LoopInv, AllRegular, HandleEvents
  PROVE  OtherInv'
<1> DEFINE effects == localData[1].seen \cup {Sample(i, nextSampleTimes[i]) : i \in Activated}
           slot == [localData[1] EXCEPT !.seen = effects]
<1>1. /\ BaseInv /\ EffectInv /\ TimeInv /\ DueInv /\ AtEvent
  BY DEF LoopInv, PlaceInv
<1>2. /\ pc = "event" /\ pc' = "finish"
      /\ localData' = Overwrite(slot)
      /\ nextSampleTimes' = [i \in Samples |->
            IF i \in Activated THEN nextSampleTimes[i] + model.samples[i].interval
            ELSE nextSampleTimes[i]]
      /\ sampleActivated' = FALSE /\ eventLst' = FALSE /\ didEventStep' = TRUE
      /\ CountEvent(localData[1].time) /\ FireBooleanClock
      /\ UNCHANGED <<currentStepSize, currStepNo, syncStep, syncRet, retry, stopTime, currentTime,
                     old, crossing, accepted>>
      /\ model' = model /\ throws' = throws
  BY DEF HandleEvents, bounds
<1>3. /\ localData[1].time = currentTime /\ crossing = 0 /\ syncRet # 1
  BY <1>1, <1>2 DEF AtEvent, RootIsNew
<1>4. /\ IsSlot(slot) /\ slot.time = currentTime /\ slot.seen = effects
  <2>1. IsSlot(localData[1])
    BY <1>1 DEF BaseInv, IsSlots
  <2> HIDE DEF effects
  <2> QED
    BY <1>3, <2>1, SlotSeen
<1> HIDE DEF slot
<1>5. localData'[1] = slot /\ localData'[2] = slot /\ localData'[3] = slot
  BY <1>2 DEF Overwrite
<1>6. activations \subseteq activations'
  BY <1>1, <1>2, ClockFired
<1>7. effects \subseteq activations'
  <2>1. \A i \in Activated : Sample(i, nextSampleTimes[i]) \in activations
    BY <1>2, SamplesPlanned
  <2> QED
    BY <1>1, <1>6, <2>1 DEF EffectInv
<1> HIDE DEF effects
<1>8. /\ \A j \in DOMAIN timers' : timers'[j].hold
      /\ Sorted(timers')
      /\ TimersAfter(timers, old.time) => TimersAfter(timers', old.time)
  BY <1>2, ClockInOrder
<1>9. Samples' = Samples /\ Planned(model)' = Planned(model)
  BY <1>2 DEF Samples, Planned, Horizon
<1>10. Reach' = Reach /\ Slack' = Slack
  BY <1>2 DEF Reach, ReachOf, Slack
<1>11. \A i \in Samples : /\ nextSampleTimes[i] \in Nat
                          /\ model.samples[i].interval \in Nat \ {0}
                          /\ model.samples[i].start \in Nat
                          /\ NextSample <= nextSampleTimes[i]
  BY <1>1, ModelFacts, NextSampleFacts DEF BaseInv
<1>12. EffectInv'
  <2>1. ASSUME NEW i \in Samples
        PROVE  SampleAt(i, nextSampleTimes[i])'
    <3> DEFINE first == model.samples[i].start
               step == model.samples[i].interval
    <3>1. PICK k \in Nat : nextSampleTimes[i] = first + k * step
      BY <1>1 DEF EffectInv, SampleAt
    <3>2. first \in Nat /\ step \in Nat
      BY <1>11
    <3>3. nextSampleTimes'[i] \in {nextSampleTimes[i], nextSampleTimes[i] + step}
      BY <1>2
    <3>4. model'.samples[i].start = first /\ model'.samples[i].interval = step
      BY <1>2
    <3> HIDE DEF first, step
    <3>5. (k + 1) * step = k * step + step /\ k * step \in Nat
      BY <3>2, Products
    <3>6. first + (k + 1) * step = first + k * step + step
      BY <3>2, <3>5
    <3>7. \E m \in Nat : nextSampleTimes'[i] = first + m * step
      BY <3>1, <3>3, <3>6
    <3> QED
      BY <3>4, <3>7 DEF SampleAt
  <2>2. /\ Planned(model)' \subseteq activations'
        /\ old'.seen \subseteq activations' /\ accepted'.seen \subseteq activations'
    BY <1>1, <1>2, <1>6, <1>9 DEF EffectInv
  <2>3. /\ localData'[1].seen \subseteq activations'
        /\ localData'[2].seen \subseteq activations'
        /\ localData'[3].seen \subseteq activations'
    BY <1>4, <1>5, <1>7
  <2>4. (\A i \in Samples : SampleAt(i, nextSampleTimes[i]))'
    BY <1>9, <2>1
  <2> QED
    BY <1>8, <2>2, <2>3, <2>4 DEF EffectInv
<1>13. TimeInv'
  <2>1. \A i \in 0 .. NumEventLimit - 1 : chat'.times[i] \in 0 .. Reach
    <3>1. currentTime \in 0 .. Reach /\ \A i \in 0 .. NumEventLimit - 1 : chat.times[i] \in 0 .. Reach
      BY <1>1 DEF TimeInv
    <3>2. chat'.times = IF eventLst THEN [chat.times EXCEPT ![chat.idx] = currentTime]
                        ELSE chat.times
      BY <1>2, <1>3 DEF CountEvent
    <3>3. chat.times \in [0 .. NumEventLimit - 1 -> Int]
      BY <1>1 DEF BaseInv, Rings
    <3> QED
      BY <3>1, <3>2, <3>3
  <2>2. stopTime = Grid(NumSteps)
    BY <1>1, <1>2 DEF TimeInv
  <2>3. currentTime \in 0 .. Reach
    BY <1>1 DEF TimeInv
  <2>4. /\ localData'[1].time \in 0 .. Reach
        /\ localData'[2].time \in 0 .. Reach
        /\ localData'[3].time \in 0 .. Reach
    BY <1>4, <1>5, <2>3
  <2>5. retry' \/ pc' = "catch" => Reached(accepted.time)'
    BY <1>1, <1>2 DEF TimeInv, Reached
  <2> QED
    BY <1>1, <1>2, <1>10, <2>1, <2>2, <2>3, <2>4, <2>5 DEF TimeInv, Passed
<1>14. NextSample' > currentTime /\ NextSample' \in Nat
  <2>1. NextSample >= currentTime /\ (NextSample = currentTime => sampleActivated)
    BY <1>1, <1>2 DEF DueInv, SamplesFrom
  <2>2. /\ currentTime \in Int /\ NextSample \in Int /\ Eps \in Nat /\ sampleActivated \in BOOLEAN
    BY <1>1, Numbers, Parameters DEF BaseInv
  <2>3. ASSUME NEW i \in Samples
        PROVE  nextSampleTimes'[i] > currentTime
    <3>1. CASE i \in Activated
      <4>1. nextSampleTimes'[i] = nextSampleTimes[i] + model.samples[i].interval
        BY <1>2, <3>1
      <4>2. nextSampleTimes[i] >= currentTime
        BY <1>11, <2>1, <2>2
      <4>3. nextSampleTimes[i] \in Nat /\ model.samples[i].interval \in Nat \ {0}
        BY <1>11
      <4> QED
        BY <2>2, <4>1, <4>2, <4>3
    <3>2. CASE i \notin Activated
      <4>1. nextSampleTimes'[i] = nextSampleTimes[i] /\ nextSampleTimes[i] \in Nat
        BY <1>2, <1>11, <3>2
      <4>2. CASE sampleActivated
        <5>1. ~(nextSampleTimes[i] <= currentTime + Eps)
          BY <1>3, <3>2, <4>2 DEF Activated
        <5> QED
          BY <2>2, <4>1, <5>1
      <4>3. CASE ~sampleActivated
        BY <1>11, <2>1, <2>2, <4>1, <4>3
      <4> QED
        BY <4>2, <4>3
    <3> QED
      BY <3>1, <3>2
  <2>4. currentTime < Never
    <3>1. Reach + Eps <= Horizon /\ Reach \in Int /\ Horizon \in Nat /\ Never = Horizon + 1
      BY <1>1, ReachFits, Numbers, HorizonIsNat DEF TimeInv, BaseInv
    <3>2. currentTime \in 0 .. Reach
      BY <1>1 DEF TimeInv
    <3> QED
      BY <2>2, <3>1, <3>2
  <2>5. nextSampleTimes' \in [Samples -> Nat]
    BY <1>2, <1>11
  <2> QED
    BY <1>1, <1>2, <2>2, <2>3, <2>4, <2>5, LaterSamples
<1>15. DueInv'
  <2>1. NextSample' > old.time
    <3>1. old.time <= currentTime /\ old.time \in Int /\ currentTime \in Int
      BY <1>1, Numbers DEF TimeInv
    <3> QED
      BY <1>14, <3>1
  <2>2. model.throws > 0 => TimersAfter(timers', old.time)
    BY <1>1, <1>8 DEF DueInv
  <2> QED
    BY <1>2, <1>14, <2>1, <2>2 DEF DueInv, TimersAfter
<1>16. PlaceInv'
  <2>1. AtFinish'
    BY <1>2, <1>3, <1>4, <1>5 DEF AtFinish, Alike
  <2> QED
    BY <1>2, <2>1 DEF PlaceInv, AtHead, AtSolve, AtUpdate, AtCheck, AtEvent, AtEmit
<1> QED
  BY <1>12, <1>13, <1>15, <1>16 DEF OtherInv

-----------------------------------------------------------------------------
(* The invariant holds, and what follows from it. *)

\* The invariant holds when the simulation starts.
LEMMA InvInit ==
  ASSUME Init, AllRegular
  PROVE  LoopInv
<1>1. BaseInv
  BY BaseInit
<1>2. /\ pc = "head" /\ model \in Scenarios /\ stopTime = Grid(NumSteps)
      /\ currentTime = 0 /\ currentStepSize = 0 /\ currStepNo = 0 /\ throws = 0
      /\ didEventStep = FALSE /\ syncStep = FALSE /\ retry = FALSE /\ restart = FALSE
      /\ sampleActivated = FALSE /\ eventLst = FALSE /\ crossing = 0
      /\ old = Slot(0, {}) /\ accepted = Slot(0, {})
      /\ localData = Overwrite(Slot(0, {}))
      /\ nextSampleTimes = [i \in Samples |-> model.samples[i].start]
      /\ timers = [i \in DOMAIN model.ticks |-> Tick(i, model.ticks[i].at, model.ticks[i].hold)]
      /\ chat.times = [i \in 0 .. NumEventLimit - 1 |-> 0]
      /\ activations = Planned(model)
  BY DEF Init, Grid
<1>3. /\ localData[1] = old /\ localData[2] = old /\ localData[3] = old /\ accepted = old
      /\ old.time = 0 /\ old.seen = {}
  BY <1>2 DEF Overwrite, Slot
<1>4. \A i \in DOMAIN timers : /\ timers[i].at = model.ticks[i].at /\ i \in DOMAIN model.ticks
                               /\ timers[i].hold = model.ticks[i].hold
  BY <1>2 DEF Tick
<1>5. Regular(model)
  BY <1>2 DEF AllRegular
<1>6. EffectInv
  <2>1. \A i \in Samples : SampleAt(i, nextSampleTimes[i])
    <3>1. ASSUME NEW i \in Samples
          PROVE  nextSampleTimes[i] = model.samples[i].start + 0 * model.samples[i].interval
      <4>1. nextSampleTimes[i] = model.samples[i].start
        BY <1>2
      <4>2. model.samples[i].start \in Nat /\ model.samples[i].interval \in Nat
        BY <1>2, ModelFacts
      <4> QED
        BY <4>1, <4>2
    <3> QED
      BY <3>1 DEF SampleAt
  <2>2. Sorted(timers)
    <3>1. \A i, j \in DOMAIN model.ticks : i <= j => model.ticks[i].at <= model.ticks[j].at
      BY <1>2, LoopAssumption
    <3>2. ASSUME NEW i \in DOMAIN timers, NEW j \in DOMAIN timers, i <= j
          PROVE  timers[i].at <= timers[j].at
      BY <1>4, <3>1, <3>2
    <3> QED
      BY <3>2 DEF Sorted
  <2>3. \A i \in DOMAIN timers : timers[i].hold
    BY <1>4, <1>5 DEF Regular
  <2> QED
    BY <1>2, <1>3, <2>1, <2>2, <2>3 DEF EffectInv
<1>7. TimeInv
  <2>1. Reach = 2 * Eps /\ Slack = 0 /\ Eps \in Nat /\ NumSteps \in Nat
    BY <1>2, GridZero, Parameters DEF Reach, ReachOf, Slack
  <2>2. 0 \in 0 .. Reach /\ 0 \in -Reach .. Reach /\ 0 \in 0 .. 0
    BY <2>1
  <2>3. currStepNo <= NumSteps + throws
    BY <1>2, <2>1
  <2>4. Passed(accepted.time)
    <3>1. currStepNo - 1 - throws = -1
      BY <1>2
    <3>2. Grid(-1) <= Grid(0) /\ Grid(-1) \in Int
      BY GridOrder, GridIsInt
    <3> QED
      BY <1>3, <2>1, <3>1, <3>2, GridZero DEF Passed
  <2> QED
    BY <1>2, <1>3, <2>2, <2>3, <2>4 DEF TimeInv
<1>8. DueInv
  <2>1. NextSample \in Nat /\ (NextSample = Never \/ \E i \in Samples : NextSample = nextSampleTimes[i])
        /\ Never > 0
    BY <1>1, NextSampleFacts, HorizonIsNat DEF BaseInv
  <2>2. ASSUME model.throws > 0
        PROVE  NextSample > 0 /\ TimersAfter(timers, 0)
    <3>1. \A i \in Samples : nextSampleTimes[i] > 0
      BY <1>2, <1>5, <2>2 DEF Regular, Samples
    <3>2. TimersAfter(timers, 0)
      BY <1>4, <1>5, <2>2 DEF Regular, TimersAfter
    <3> QED
      BY <2>1, <3>1, <3>2
  <2>3. NextSample >= 0
    BY <2>1
  <2> QED
    BY <1>2, <1>3, <2>2, <2>3 DEF DueInv, SyncEventStep
<1>9. PlaceInv
  <2>1. Point(currentTime)
    BY <1>2, GridZero DEF Point
  <2>2. AtHead
    BY <1>2, <1>3, <2>1 DEF AtHead, Alike, SyncEventStep
  <2> QED
    BY <1>2, <2>2 DEF PlaceInv, AtSolve, AtUpdate, AtCheck, AtEvent, AtFinish, AtEmit
<1> QED
  BY <1>1, <1>6, <1>7, <1>8, <1>9 DEF LoopInv

(* Every step keeps the invariant. *)
LEMMA InvKept ==
  ASSUME LoopInv, [Next]_vars, AllRegular
  PROVE  LoopInv'
<1>1. BaseInv'
  BY BaseNext DEF LoopInv
<1> SUFFICES OtherInv'
  BY <1>1 DEF OtherInv, LoopInv
<1>2. CASE Step
  <2>1. CASE SkipStep
    BY <2>1, InvSkip
  <2>2. CASE NextStep
    BY <2>2, InvNext
  <2>3. CASE EulerStep \/ DasslStep
    BY <2>3, InvSolve
  <2>4. CASE UpdateContinuousSystem
    BY <2>4, InvUpdate
  <2>5. CASE CheckEvents
    BY <2>5, InvCheck
  <2>6. CASE HandleEvents
    BY <2>6, InvEvents
  <2>7. CASE \E selected \in BOOLEAN : FinishUpdate(selected)
    BY <2>7, InvFinish
  <2>8. CASE \E input, terminated \in BOOLEAN : EmitStep(input, terminated)
    BY <2>8, InvEmit
  <2>9. CASE Retry
    BY <2>9, InvRetry
  <2>10. CASE LeaveLoop \/ AbortSlow \/ Terminate
    BY <2>10, InvEnds
  <2> QED
    BY <1>2, <2>1, <2>2, <2>3, <2>4, <2>5, <2>6, <2>7, <2>8, <2>9, <2>10 DEF Step
<1>3. CASE BreakLoop \/ ThrowInEvent
  BY <1>3, InvEnds
<1>4. CASE ThrowInUpdate \/ ThrowInFindRoot \/ ThrowInFinish
  BY <1>4, InvThrow
<1>5. CASE UNCHANGED vars
  BY <1>5, InvStays
<1> QED
  BY <1>2, <1>3, <1>4, <1>5 DEF Next

(* The invariant holds. *)
LEMMA Invariance ==
  ASSUME AllRegular
  PROVE  Spec => []LoopInv
<1>1. Init => LoopInv
  BY InvInit
<1>2. LoopInv /\ [Next]_vars => LoopInv'
  BY InvKept
<1> QED
  BY <1>1, <1>2, PTL DEF Spec

(* The count of chatteringInfo stays below its limit. *)
LEMMA CountStays ==
  ASSUME ChatInv
  PROVE  chat.num \in 0 .. NumEventLimit
<1>1. NumEventLimit \in Nat \ {0}
  BY Parameters
<1>2. IsFiniteSet(0 .. NumEventLimit - 1) /\ Cardinality(0 .. NumEventLimit - 1) = NumEventLimit
  <2>1. /\ IsFiniteSet(0 .. NumEventLimit - 1)
        /\ Cardinality(0 .. NumEventLimit - 1) =
              IF 0 > NumEventLimit - 1 THEN 0 ELSE (NumEventLimit - 1) - 0 + 1
    BY <1>1, FS_Interval
  <2> QED
    BY <1>1, <2>1
<1>3. StatePlaces(chat) \subseteq 0 .. NumEventLimit - 1
  BY DEF StatePlaces
<1> DEFINE n == Cardinality(StatePlaces(chat))
<1>4. IsFiniteSet(StatePlaces(chat)) /\ n <= NumEventLimit
  BY <1>2, <1>3, FS_Subset
<1>5. n \in Nat
  BY <1>4, FS_CardinalityType
<1>6. chat.num = n
  BY DEF ChatInv
<1> HIDE DEF n
<1> QED
  BY <1>1, <1>4, <1>5, <1>6

(* A slot with a time in range and scheduled effects is well typed. *)
LEMMA SlotIsTyped ==
  ASSUME NEW s, IsSlot(s), s.time \in Times, s.seen \subseteq activations
  PROVE  s \in SlotType
  BY DEF IsSlot, SlotType

(* The invariant implies the type invariant. *)
LEMMA TypesFollow ==
  ASSUME LoopInv, ChatInv
  PROVE  TypeOK
<1>1. BaseInv /\ EffectInv /\ TimeInv
  BY DEF LoopInv
<1>2. /\ Reach \in Int /\ Horizon \in Nat /\ Reach <= Horizon
  <2>1. Reach + Eps <= Horizon /\ Reach \in Int /\ Eps \in Nat /\ Horizon \in Nat
    BY <1>1, ReachFits, Numbers, Parameters, HorizonIsNat DEF TimeInv, BaseInv
  <2> QED
    BY <2>1
<1>3. \A t \in 0 .. Reach : t \in Times /\ t \in 0 .. Horizon
  BY <1>2 DEF Times
<1>4. \A t \in -Reach .. Reach : t \in Times
  BY <1>2 DEF Times
<1>5. /\ localData[1].time \in 0 .. Reach
      /\ localData[2].time \in 0 .. Reach
      /\ localData[3].time \in 0 .. Reach
      /\ currentTime \in 0 .. Reach
      /\ currentStepSize \in -Reach .. Reach
      /\ crossing \in 0 .. Reach
      /\ \A i \in 0 .. NumEventLimit - 1 : chat.times[i] \in 0 .. Reach
      /\ currStepNo <= NumSteps + throws
  BY <1>1 DEF TimeInv
<1>6. old.time \in 0 .. Reach /\ accepted.time \in 0 .. Reach
  BY <1>1, <1>2, <1>5, Numbers DEF TimeInv
<1>7. stopTime \in Times
  <2>1. CASE stopTime = Grid(NumSteps)
    <3>1. /\ NumSteps \in Nat /\ model.throws \in Nat /\ Eps \in Nat
      BY <1>1, Numbers, Parameters
    <3>2. /\ NumSteps <= NumSteps + model.throws /\ NumSteps + model.throws \in Int
          /\ 0 <= NumSteps
      BY <3>1
    <3>3. Grid(NumSteps) <= Grid(NumSteps + model.throws) /\ Grid(0) <= Grid(NumSteps)
      BY <3>1, <3>2, GridOrder
    <3>4. Horizon = Grid(NumSteps + model.throws) + 4 * Eps
      BY DEF Horizon, Grid
    <3>5. Grid(NumSteps) \in Int /\ Grid(NumSteps + model.throws) \in Int
      BY <3>1, <3>2, GridIsInt
    <3> QED
      BY <1>2, <2>1, <3>1, <3>3, <3>4, <3>5, GridZero DEF Times
  <2>2. CASE stopTime = currentTime
    BY <1>3, <1>5, <2>2
  <2> QED
    BY <1>1, <2>1, <2>2 DEF TimeInv
<1>8. localData \in [1 .. 3 -> SlotType] /\ old \in SlotType /\ accepted \in SlotType
  <2>1. /\ IsSlots(localData) /\ IsSlot(localData[1]) /\ IsSlot(localData[2])
        /\ IsSlot(localData[3]) /\ IsSlot(old) /\ IsSlot(accepted)
    BY <1>1 DEF BaseInv, IsSlots
  <2>2. /\ localData[1] \in SlotType /\ localData[2] \in SlotType /\ localData[3] \in SlotType
        /\ old \in SlotType /\ accepted \in SlotType
    BY <1>1, <1>3, <1>5, <1>6, <2>1, SlotIsTyped DEF EffectInv
  <2>3. localData \in [1 .. 3 -> {localData[1], localData[2], localData[3]}]
    BY <2>1 DEF IsSlots
  <2> QED
    BY <2>2, <2>3
<1>9. chat \in [last : [0 .. NumEventLimit - 1 -> 0 .. 1],
                times : [0 .. NumEventLimit - 1 -> Times],
                idx : 0 .. NumEventLimit - 1, num : 0 .. NumEventLimit, emitted : BOOLEAN]
  <2>1. chat \in Rings /\ chat.num \in 0 .. NumEventLimit
    BY <1>1, CountStays DEF BaseInv
  <2>2. chat.times \in [0 .. NumEventLimit - 1 -> Times]
    BY <1>3, <1>5, <2>1 DEF Rings
  <2> QED
    BY <2>1, <2>2 DEF Rings
<1>10. currStepNo \in 0 .. NumSteps + throws
  BY <1>1, <1>5, Numbers, Parameters
<1>11. \A i \in DOMAIN timers : timers[i] \in activations
  BY <1>1 DEF BaseInv
<1>12. /\ currentTime \in Times /\ currentStepSize \in Times /\ crossing \in 0 .. Horizon
  BY <1>3, <1>4, <1>5
<1>13. pc = "solve" => currentStepSize >= 0
  <2>1. AtSolve
    BY DEF LoopInv, PlaceInv
  <2> QED
    BY <2>1 DEF AtSolve
<1> QED
  BY <1>1, <1>7, <1>8, <1>9, <1>10, <1>11, <1>12, <1>13 DEF BaseInv, TypeOK

(* Type correctness, and no step is taken backwards, for every model whose ticks
   hold events and, if it has assertions, has nothing scheduled at the start
   time. *)
THEOREM TypeCorrect ==
  ASSUME AllRegular
  PROVE  Spec => []TypeOK
<1>1. LoopInv /\ ChatInv => TypeOK
  BY TypesFollow
<1>2. ChatInv /\ [Next]_vars => ChatInv'
  BY ChatNext
<1>3. Init => ChatInv
  BY ChatInit
<1> QED
  BY <1>1, <1>2, <1>3, Invariance, PTL DEF Spec

(* The solver starts from the values that were stored last, with their
   discrete variables, and is told to start anew after an event. *)
LEMMA SolverFollows ==
  ASSUME LoopInv
  PROVE  SlotsAgree /\ SolverRestarts
<1>1. AtSolve
  BY DEF LoopInv, PlaceInv
<1> QED
  BY <1>1 DEF AtSolve, Alike, SlotsAgree, SolverRestarts

(* performSimulation hands the solver a slot of the ring buffer with the
   values and the discrete variables that were stored last. *)
THEOREM SlotsStayRight ==
  ASSUME AllRegular
  PROVE  Spec => []SlotsAgree
<1>1. LoopInv => SlotsAgree
  BY SolverFollows
<1> QED
  BY <1>1, Invariance, PTL

(* didEventStep is set when the solver goes on after an event, after new input
   or after another choice of states. *)
THEOREM RestartsAreTold ==
  ASSUME AllRegular
  PROVE  Spec => []SolverRestarts
<1>1. LoopInv => SolverRestarts
  BY SolverFollows
<1> QED
  BY <1>1, Invariance, PTL

(* Without an assertion no step ends more than 2 * Eps behind the stop time. *)
THEOREM TimeStopsInTime ==
  ASSUME AllRegular
  PROVE  Spec => []StopsInTime
<1>1. ASSUME LoopInv, throws = 0
      PROVE  currentTime <= NumSteps * StepLen + 2 * Eps
  <2>1. BaseInv /\ TimeInv
    BY <1>1 DEF LoopInv
  <2>2. currStepNo <= NumSteps /\ currentTime \in 0 .. Reach
    BY <1>1, <2>1, Parameters DEF TimeInv
  <2>3. Reach = Grid(currStepNo) + 2 * Eps
    BY <1>1 DEF Reach, ReachOf
  <2>4. Grid(currStepNo) <= Grid(NumSteps)
    BY <2>1, <2>2, Numbers, Parameters, GridOrder
  <2>5. Grid(currStepNo) \in Int /\ Grid(NumSteps) \in Int /\ Eps \in Nat
    BY <2>1, Numbers, Parameters, GridIsInt
  <2>6. currentTime <= Grid(NumSteps) + 2 * Eps
    BY <2>2, <2>3, <2>4, <2>5
  <2> QED
    BY <2>6 DEF Grid
<1>2. LoopInv => StopsInTime
  BY <1>1 DEF StopsInTime
<1> QED
  BY <1>2, Invariance, PTL

(* The loop commits itself to a slot when it emits a step or goes back to one. *)
LEMMA AcceptedAlone ==
  ASSUME [Next]_vars
  PROVE  \/ accepted' = accepted
         \/ Retry
         \/ \E input, terminated \in BOOLEAN : EmitStep(input, terminated)
<1>1. CASE Step
  BY <1>1 DEF Step, SkipStep, NextStep, LoopHead, LeaveLoop, EulerStep, DasslStep, SolveTo,
     UpdateContinuousSystem, CheckEvents, HandleEvents, FinishUpdate, AbortSlow, AbortInEvent,
     Terminate, histVars
<1>2. CASE BreakLoop \/ ThrowInEvent
  BY <1>2 DEF BreakLoop, ThrowInEvent, AbortInEvent, histVars
<1>3. CASE ThrowInUpdate \/ ThrowInFindRoot \/ ThrowInFinish
  BY <1>3 DEF ThrowInUpdate, ThrowInFindRoot, ThrowInFinish, Throw
<1>4. CASE UNCHANGED vars
  BY <1>4 DEF vars, histVars
<1> QED
  BY <1>1, <1>2, <1>3, <1>4 DEF Next

(* What a step commits the loop to. *)
LEMMA AcceptedNext ==
  ASSUME LoopInv, [Next]_vars, accepted' # accepted
  PROVE  /\ accepted'.time = old.time
         /\ accepted.time <= old.time
         /\ throws' = 0 => /\ throws = 0
                           /\ Grid(currStepNo - 1) <= accepted.time
                           /\ old.time <= Grid(currStepNo) + 2 * Eps
<1>1. BaseInv /\ TimeInv /\ AtEmit
  BY DEF LoopInv, PlaceInv
<1>2. /\ accepted.time \in Int /\ old.time \in Int /\ currentTime \in Int /\ throws \in Nat
      /\ currStepNo \in Nat /\ Reach \in Int
  BY <1>1, Numbers
<1>3. accepted.time <= old.time /\ old.time <= currentTime /\ currentTime <= Reach
      /\ Passed(accepted.time) /\ (pc = "catch" => Reached(accepted.time))
  BY <1>1, <1>2 DEF TimeInv
<1>4. CASE Retry
  <2>1. accepted' = old /\ throws' = throws /\ throws > 0
    BY <1>3, <1>4 DEF Retry, bounds, Reached
  <2> QED
    BY <1>2, <1>3, <2>1
<1>5. CASE \E input, terminated \in BOOLEAN : EmitStep(input, terminated)
  <2>1. accepted' = old /\ throws' = throws
    BY <1>1, <1>5 DEF EmitStep, AtEmit
  <2>2. ASSUME throws = 0
        PROVE  /\ Grid(currStepNo - 1) <= accepted.time
               /\ old.time <= Grid(currStepNo) + 2 * Eps
    <3>1. currStepNo - 1 - throws = currStepNo - 1 /\ Slack = 0
          /\ Reach = Grid(currStepNo) + 2 * Eps
      BY <1>2, <2>2 DEF Slack, Reach, ReachOf
    <3>2. Grid(currStepNo - 1) <= accepted.time + 0
      BY <1>3, <3>1 DEF Passed
    <3> QED
      BY <1>2, <1>3, <3>1, <3>2
  <2> QED
    BY <1>2, <1>3, <2>1, <2>2
<1> QED
  BY <1>4, <1>5, AcceptedAlone

(* Without an assertion the accepted steps jump over no point of the grid. *)
THEOREM GridStays ==
  ASSUME AllRegular
  PROVE  Spec => GridIsKept
<1>1. ASSUME LoopInv, [Next]_vars, throws' = 0, NEW k \in 1 .. NumSteps,
             accepted.time < k * StepLen, k * StepLen + 2 * Eps < accepted'.time
      PROVE  FALSE
  <2>1. /\ accepted.time < Grid(k) /\ Grid(k) + 2 * Eps < accepted'.time
    BY <1>1 DEF Grid
  <2>2. BaseInv
    BY <1>1 DEF LoopInv
  <2>3. /\ accepted.time \in Int /\ old.time \in Int /\ currStepNo \in Nat /\ k \in Int
        /\ Eps \in Nat /\ Grid(k) \in Int /\ Grid(currStepNo) \in Int
        /\ currStepNo - 1 \in Int
    BY <2>2, Numbers, Parameters, GridIsInt
  <2>4. accepted' # accepted
    BY <2>1, <2>3
  <2>5. /\ accepted'.time = old.time
        /\ Grid(currStepNo - 1) <= accepted.time
        /\ old.time <= Grid(currStepNo) + 2 * Eps
    BY <1>1, <2>4, AcceptedNext
  <2>6. Grid(currStepNo - 1) \in Int
    BY <2>3, GridIsInt
  <2>7. Grid(currStepNo - 1) < Grid(k)
    BY <2>1, <2>3, <2>5, <2>6
  <2>8. currStepNo - 1 < k
    BY <2>3, <2>7, GridLess
  <2>9. currStepNo <= k
    BY <2>3, <2>8
  <2>10. Grid(currStepNo) <= Grid(k)
    BY <2>3, <2>9, GridOrder
  <2> QED
    BY <2>1, <2>3, <2>5, <2>10
<1>2. LoopInv /\ [Next]_vars =>
         (throws' = 0 => \A k \in 1 .. NumSteps :
            ~(accepted.time < k * StepLen /\ k * StepLen + 2 * Eps < accepted'.time))
  BY <1>1
<1> QED
  BY <1>2, Invariance, PTL DEF Spec, GridIsKept

(* The accepted time does not run back, not even when a step is tried again:
   the loop goes back to values that are not older than the last result.  A tick
   that holds no event can make it do so: AllRegular excludes those. *)
THEOREM TimeRunsOn ==
  ASSUME AllRegular
  PROVE  Spec => TimeGoesOn
<1>1. ASSUME LoopInv, [Next]_vars
      PROVE  accepted'.time >= accepted.time
  <2>1. accepted.time \in Int /\ old.time \in Int
    BY <1>1, Numbers DEF LoopInv
  <2>2. CASE accepted' = accepted
    BY <2>1, <2>2
  <2>3. CASE accepted' # accepted
    BY <1>1, <2>1, <2>3, AcceptedNext
  <2> QED
    BY <2>2, <2>3
<1>2. LoopInv /\ [Next]_vars => accepted'.time >= accepted.time
  BY <1>1
<1> QED
  BY <1>2, Invariance, PTL DEF Spec, TimeGoesOn

-----------------------------------------------------------------------------
(* The accepted steps implement EventSchedule.                              *)

\* Activations in the order of time: see InOrderOfTime in SimulationLoop.
AllInOrder == \A m \in Scenarios : InOrderOfTime(m)

Distinct(list) == \A i, j \in DOMAIN list : list[i] = list[j] => i = j

(* What is scheduled: finitely many activations, the samples of the model and
   timers that are all different. *)
ShapeInv ==
    /\ IsFiniteSet(activations)
    /\ \A a \in activations :
          IF a.kind = "sample"
          THEN \E i \in Samples : SampleAt(i, a.at) /\ a = Sample(i, a.at)
          ELSE a.kind = "clock" => a.id \in Nat /\ a.id < Cardinality(activations)
    /\ \A i \in DOMAIN timers : timers[i].kind # "sample"
    /\ Distinct(timers)

(* What the program will not come to any more has its effect in the current
   slot, or an assertion has cost it. *)
Lost(t) == {a \in activations : a.at <= t + 2 * StepLen + 3 * Eps}

GoneInv == pc # "done" =>
    /\ old.seen \subseteq Consumed /\ undone \subseteq Consumed
    /\ old.seen \cap undone = {}
    /\ accepted.seen \subseteq old.seen
    /\ IF pc = "catch" THEN Consumed \subseteq old.seen \cup undone \cup Lost(old.time)
       ELSE /\ Consumed = localData[1].seen \cup undone
            /\ localData[1].seen \cap undone = {}
            /\ old.seen \subseteq localData[1].seen
    /\ pc = "update" => accepted.seen = old.seen

(* Effects are not ahead of time, and those of this step not behind it. *)
NotAhead(effects, t) == \A a \in effects : a.at <= t + Eps
NotBehind(effects, t) == \A a \in effects : a.at >= t - Eps
TimersFrom(t) == \A i \in DOMAIN timers : timers[i].at >= t

AgeInv == pc # "done" =>
    /\ NotAhead(old.seen, old.time)
    /\ NotBehind(old.seen \ accepted.seen, old.time)
    /\ pc # "catch" => /\ NotAhead(localData[1].seen, currentTime)
                       /\ NotBehind(localData[1].seen \ accepted.seen, currentTime)
    /\ pc = "head" => TimersFrom(currentTime)
    /\ pc = "solve" => TimersFrom((currentTime + currentStepSize) - Eps)
    /\ pc \in {"update", "check", "event", "finish", "emit"} => TimersFrom(currentTime - Eps)

(* How far ahead of the stored values the point of the step number is. *)
Close(t) == Grid(currStepNo) <= t + StepLen

FarInv == pc # "done" =>
    /\ Grid(currStepNo) <= old.time + 2 * StepLen
    /\ pc = "head" /\ ~SyncEventStep => Close(currentTime)
    /\ pc = "solve" => currentStepSize <= 2 * StepLen + 2 * Eps
    /\ pc = "solve" => \/ sampleActivated /\ NextSample = currentTime + currentStepSize
                       \/ TimerBy(currentTime + currentStepSize)
                       \/ Close(currentTime + currentStepSize)
    /\ pc \in {"update", "check", "event", "finish", "emit"} =>
          currentTime <= old.time + 2 * StepLen + 2 * Eps
    /\ pc = "update" =>
          crossing # 0 \/ sampleActivated \/ TimerBy(currentTime) \/ Close(currentTime)
    /\ pc = "check" => syncRet = 2 \/ crossing # 0 \/ sampleActivated \/ Close(currentTime)
    /\ pc = "finish" => didEventStep \/ Close(currentTime)
    /\ pc = "emit" => SyncEventStep \/ Close(currentTime)

(* Where crossings are passed there are no timers, but that of a Boolean clock
   between its event and the end of the step. *)
Passing == ~model.rootFinding /\ model.crossings > 0
PassInv == pc # "done" /\ Passing =>
    /\ IF pc = "finish" THEN \A i \in DOMAIN timers : timers[i].at <= currentTime
       ELSE timers = <<>>
    /\ pc = "finish" /\ timers # <<>> => model.throws = 0
    /\ pc = "check" /\ crossing # 0 => localData[1].seen = old.seen

(* Only a model that has crossings comes to one. *)
CrossingInv == crossing # 0 => model.crossings > 0

(* What is known of the activations, and all of it. *)
CourseInv == GoneInv /\ AgeInv /\ PassInv /\ CrossingInv
RunInv == ShapeInv /\ FarInv /\ CourseInv

(* A tick that is inserted joins the others. *)
LEMMA InsertedAmong ==
  ASSUME NEW A, NEW list \in Seq(A), \A a \in A : a.at \in Int, Sorted(list), NEW timer \in A
  PROVE  LET new == InsertTimer(list, timer)
         IN  /\ \A i \in DOMAIN new : new[i] = timer \/ \E j \in DOMAIN list : new[i] = list[j]
             /\ \A j \in DOMAIN list : \E i \in DOMAIN new : new[i] = list[j]
             /\ \E i \in DOMAIN new : new[i] = timer
             /\ (\A j \in DOMAIN list : list[j] # timer) /\ Distinct(list) => Distinct(new)
<1> DEFINE new == InsertTimer(list, timer)
<1>1. Len(list) \in Nat /\ DOMAIN list = 1 .. Len(list)
  OBVIOUS
<1>2. PICK n \in 0 .. Len(list) :
         /\ DOMAIN new = 1 .. Len(list) + 1
         /\ \A i \in 1 .. n : new[i] = list[i]
         /\ new[n + 1] = timer
         /\ \A i \in n + 2 .. Len(list) + 1 : new[i] = list[i - 1]
         /\ \A i \in DOMAIN list : list[i].at <= timer.at <=> i \in 1 .. n
  BY InsertedPlaces
<1>3. \A i \in DOMAIN new : new[i] = timer \/ \E j \in DOMAIN list : new[i] = list[j]
  BY InOrder
<1> DEFINE l == Len(list)
<1> HIDE DEF new, l
<1>4. l \in Nat /\ n \in 0 .. l /\ DOMAIN list = 1 .. l /\ DOMAIN new = 1 .. l + 1
      /\ \A i \in n + 2 .. l + 1 : new[i] = list[i - 1]
  BY <1>1, <1>2 DEF l
<1>5. ASSUME NEW j \in DOMAIN list
      PROVE  \E i \in DOMAIN new : new[i] = list[j]
  <2>1. CASE j <= n
    <3>1. j \in 1 .. n /\ j \in DOMAIN new
      BY <1>4, <2>1
    <3> QED
      BY <1>2, <3>1
  <2>2. CASE j > n
    <3>1. j + 1 \in n + 2 .. l + 1 /\ j + 1 - 1 = j /\ j + 1 \in DOMAIN new
      BY <1>4, <2>2
    <3>2. new[j + 1] = list[j]
      BY <1>4, <3>1
    <3> QED
      BY <3>1, <3>2
  <2> QED
    BY <1>4, <2>1, <2>2
<1>6. \E i \in DOMAIN new : new[i] = timer
  <2>1. n + 1 \in DOMAIN new
    BY <1>4
  <2> QED
    BY <1>2, <2>1
<1>7. ASSUME \A j \in DOMAIN list : list[j] # timer, Distinct(list)
      PROVE  Distinct(new)
  <2>1. \A i \in DOMAIN new : \/ i \in 1 .. n /\ i \in DOMAIN list /\ new[i] = list[i]
                              \/ i = n + 1 /\ new[i] = timer
                              \/ /\ i \in n + 2 .. l + 1 /\ new[i] = list[i - 1]
                                 /\ i - 1 \in DOMAIN list /\ i - 1 \notin 1 .. n
    <3>1. ASSUME NEW i \in 1 .. l + 1
          PROVE  \/ i \in 1 .. n /\ i \in 1 .. l
                 \/ i = n + 1
                 \/ i \in n + 2 .. l + 1 /\ i - 1 \in 1 .. l /\ i - 1 \notin 1 .. n
      BY <1>4
    <3> QED
      BY <1>2, <1>4, <3>1
  <2>2. ASSUME NEW i \in DOMAIN new, NEW j \in DOMAIN new, new[i] = new[j]
        PROVE  i = j
    <3>1. i \in Int /\ j \in Int
      BY <1>4
    <3>2. CASE i \in 1 .. n /\ i \in DOMAIN list /\ new[i] = list[i]
      <4>1. new[j] # timer
        BY <1>7, <2>2, <3>2
      <4>2. CASE j \in 1 .. n /\ j \in DOMAIN list /\ new[j] = list[j]
        BY <1>7, <2>2, <3>2, <4>2 DEF Distinct
      <4>3. CASE new[j] = list[j - 1] /\ j - 1 \in DOMAIN list /\ j - 1 \notin 1 .. n
        BY <1>7, <2>2, <3>2, <4>3 DEF Distinct
      <4> QED
        BY <2>1, <4>1, <4>2, <4>3
    <3>3. CASE i = n + 1 /\ new[i] = timer
      BY <1>7, <2>1, <2>2, <3>3
    <3>4. CASE new[i] = list[i - 1] /\ i - 1 \in DOMAIN list /\ i - 1 \notin 1 .. n
      <4>1. new[j] # timer
        BY <1>7, <2>2, <3>4
      <4>2. CASE j \in 1 .. n /\ j \in DOMAIN list /\ new[j] = list[j]
        BY <1>7, <2>2, <3>4, <4>2 DEF Distinct
      <4>3. CASE new[j] = list[j - 1] /\ j - 1 \in DOMAIN list /\ j - 1 \notin 1 .. n
        <5>1. i - 1 = j - 1
          BY <1>7, <2>2, <3>4, <4>3 DEF Distinct
        <5> QED
          BY <3>1, <5>1
      <4> QED
        BY <2>1, <4>1, <4>2, <4>3
    <3> QED
      BY <2>1, <3>2, <3>3, <3>4
  <2> QED
    BY <2>2 DEF Distinct
<1> QED
  BY <1>3, <1>5, <1>6, <1>7 DEF new

(* What is planned for a model is finite. *)
LEMMA PlannedFinite ==
  ASSUME model \in Scenarios
  PROVE  IsFiniteSet(Planned(model))
<1> DEFINE P == Samples \X (0 .. Horizon)
           f == [p \in P |-> Sample(p[1], model.samples[p[1]].start
                                            + p[2] * model.samples[p[1]].interval)]
           g == [i \in DOMAIN model.ticks |-> Tick(i, model.ticks[i].at, model.ticks[i].hold)]
           all == {f[p] : p \in P}
           ticks == {g[i] : i \in DOMAIN model.ticks}
<1>1. Horizon \in Nat /\ Samples = 1 .. Len(model.samples)
      /\ DOMAIN model.ticks = 1 .. Len(model.ticks) /\ Len(model.ticks) \in Nat
  BY ModelFacts, HorizonIsNat
<1>2. Len(model.samples) \in Nat
  BY LoopAssumption DEF Scenario
<1>3. IsFiniteSet(P)
  <2>1. IsFiniteSet(Samples) /\ IsFiniteSet(0 .. Horizon)
    BY <1>1, <1>2, FS_Interval
  <2> QED
    BY <2>1, FS_Product
<1>4. IsFiniteSet(all)
  <2>1. f \in Surjection(P, all)
    BY DEF Surjection
  <2> QED
    BY <1>3, <2>1, FS_Surjection
<1>5. IsFiniteSet(ticks)
  <2>1. g \in Surjection(DOMAIN model.ticks, ticks)
    BY DEF Surjection
  <2>2. IsFiniteSet(DOMAIN model.ticks)
    BY <1>1, FS_Interval
  <2> QED
    BY <2>1, <2>2, FS_Surjection
<1>6. IsFiniteSet(all \cup ticks)
  BY <1>4, <1>5, FS_Union
<1>7. Planned(model) \subseteq all \cup ticks
  <2>1. ASSUME NEW i \in DOMAIN model.samples, NEW k \in 0 .. Horizon
        PROVE  Sample(i, model.samples[i].start + k * model.samples[i].interval) \in all
    <3>1. <<i, k>> \in P /\ <<i, k>>[1] = i /\ <<i, k>>[2] = k
      BY DEF Samples
    <3>2. f[<<i, k>>] = Sample(i, model.samples[i].start + k * model.samples[i].interval)
      BY <3>1
    <3> HIDE DEF f, P
    <3> QED
      BY <3>1, <3>2
  <2>2. ASSUME NEW i \in DOMAIN model.ticks
        PROVE  Tick(i, model.ticks[i].at, model.ticks[i].hold) \in ticks
    BY DEF ticks
  <2> HIDE DEF all, ticks
  <2> QED
    BY <2>1, <2>2 DEF Planned
<1> QED
  BY <1>6, <1>7, FS_Subset

(* The shape holds at the start. *)
LEMMA ShapeInit ==
  ASSUME Init
  PROVE  ShapeInv
<1>1. /\ model \in Scenarios /\ activations = Planned(model)
      /\ timers = [i \in DOMAIN model.ticks |-> Tick(i, model.ticks[i].at, model.ticks[i].hold)]
  BY DEF Init
<1>2. IsFiniteSet(activations)
  BY <1>1, PlannedFinite
<1>3. Horizon \in Nat /\ Samples = DOMAIN model.samples
  BY <1>1, HorizonIsNat DEF Samples
<1>4. ASSUME NEW a \in activations
      PROVE  IF a.kind = "sample"
             THEN \E i \in Samples : SampleAt(i, a.at) /\ a = Sample(i, a.at)
             ELSE a.kind = "clock" => a.id \in Nat /\ a.id < Cardinality(activations)
  <2>1. CASE \E i \in DOMAIN model.ticks : a = Tick(i, model.ticks[i].at, model.ticks[i].hold)
    <3>1. a.kind = "tick"
      BY <2>1 DEF Tick
    <3> QED
      BY <3>1
  <2>2. CASE \E i \in DOMAIN model.samples, k \in 0 .. Horizon :
                a = Sample(i, model.samples[i].start + k * model.samples[i].interval)
    <3>1. PICK i \in DOMAIN model.samples, k \in 0 .. Horizon :
                a = Sample(i, model.samples[i].start + k * model.samples[i].interval)
      BY <2>2
    <3>2. a.kind = "sample"
          /\ a.at = model.samples[i].start + k * model.samples[i].interval
      BY <3>1 DEF Sample
    <3>3. k \in Nat
      BY <1>3
    <3>4. SampleAt(i, a.at)
      BY <3>2, <3>3 DEF SampleAt
    <3>5. a = Sample(i, a.at)
      BY <3>1, <3>2
    <3> QED
      BY <1>3, <3>2, <3>4, <3>5
  <2> QED
    BY <1>1, <2>1, <2>2 DEF Planned
<1>5. \A i \in DOMAIN timers : timers[i].kind # "sample"
  BY <1>1 DEF Tick
<1>6. Distinct(timers)
  <2>1. \A i \in DOMAIN timers : timers[i].id = i
    BY <1>1 DEF Tick
  <2> QED
    BY <2>1 DEF Distinct
<1> QED
  BY <1>2, <1>4, <1>5, <1>6 DEF ShapeInv

(* Timers that are popped are gone for good, and were not before. *)
LEMMA GonePopped ==
  ASSUME BaseInv, ShapeInv, NEW n \in 0 .. Len(timers),
         timers' = SubSeq(timers, n + 1, Len(timers)),
         UNCHANGED <<activations, nextSampleTimes, model>>
  PROVE  /\ ShapeInv'
         /\ Consumed' = Consumed \cup Fired(n)
         /\ Consumed \cap Fired(n) = {}
<1>1. timers \in Seq(activations) /\ Len(timers) \in Nat /\ DOMAIN timers = 1 .. Len(timers)
      /\ \A i \in DOMAIN timers : timers[i] \in activations
  BY DEF BaseInv
<1> DEFINE l == Len(timers)
<1>2. /\ DOMAIN timers' = 1 .. l - n
      /\ \A i \in 1 .. l - n : timers'[i] = timers[i + n]
  <2> DEFINE rest == SubSeq(timers, n + 1, l)
  <2>2. /\ rest \in Seq(activations) /\ Len(rest) = l - n
        /\ \A i \in 1 .. l - n : rest[i] = timers[i + n]
    BY <1>1, Parts
  <2>3. timers' = rest
    OBVIOUS
  <2> HIDE DEF rest
  <2>1. /\ timers' \in Seq(activations) /\ Len(timers') = l - n
        /\ \A i \in 1 .. l - n : timers'[i] = timers[i + n]
    BY <2>2, <2>3
  <2> QED
    BY <2>1
<1> HIDE DEF l
<1>3. l \in Nat /\ DOMAIN timers = 1 .. l /\ n \in 0 .. l
  BY <1>1 DEF l
<1>4. \A i \in DOMAIN timers' : i \in Int /\ i + n \in DOMAIN timers /\ i + n \notin 1 .. n
  BY <1>2, <1>3
<1>5. \A j \in DOMAIN timers : j \notin 1 .. n => /\ j - n \in DOMAIN timers'
                                                  /\ j - n + n = j
  BY <1>2, <1>3
<1>6. /\ Distinct(timers) /\ \A i \in DOMAIN timers : timers[i].kind # "sample"
  BY DEF ShapeInv
<1>7. /\ IsFiniteSet(activations)
      /\ \A a \in activations :
            IF a.kind = "sample"
            THEN \E i \in Samples : SampleAt(i, a.at) /\ a = Sample(i, a.at)
            ELSE a.kind = "clock" => a.id \in Nat /\ a.id < Cardinality(activations)
  BY DEF ShapeInv
<1>8. ShapeInv'
  <2>1. \A i \in DOMAIN timers' : timers'[i].kind # "sample"
    BY <1>2, <1>4, <1>6
  <2>2. Distinct(timers')
    <3>1. ASSUME NEW i \in DOMAIN timers', NEW j \in DOMAIN timers', timers'[i] = timers'[j]
          PROVE  i = j
      <4>1. i + n = j + n
        BY <1>2, <1>4, <1>6, <3>1 DEF Distinct
      <4> QED
        BY <1>3, <1>4, <4>1
    <3> QED
      BY <3>1 DEF Distinct
  <2>3. Samples' = Samples /\ \A i \in Samples : \A t : SampleAt(i, t)' <=> SampleAt(i, t)
    BY DEF Samples, SampleAt
  <2> QED
    BY <1>7, <2>1, <2>2, <2>3 DEF ShapeInv, SampleAt, Samples
<1>9. ASSUME NEW a \in activations
      PROVE  (\A i \in DOMAIN timers' : timers'[i] # a) <=>
             (\A i \in DOMAIN timers : timers[i] # a) \/ (\E i \in 1 .. n : timers[i] = a)
  <2>1. ASSUME \A i \in DOMAIN timers' : timers'[i] # a, NEW j \in DOMAIN timers, timers[j] = a
        PROVE  \E i \in 1 .. n : timers[i] = a
    <3>1. j \in 1 .. n
      BY <1>2, <1>5, <2>1
    <3> QED
      BY <2>1, <3>1
  <2>2. ASSUME NEW i \in DOMAIN timers', timers'[i] = a
        PROVE  (\E j \in DOMAIN timers : timers[j] = a) /\ ~(\E j \in 1 .. n : timers[j] = a)
    <3>1. timers[i + n] = a /\ i + n \in DOMAIN timers /\ i + n \notin 1 .. n
      BY <1>2, <1>4, <2>2
    <3>2. 1 .. n \subseteq DOMAIN timers
      BY <1>3
    <3> QED
      BY <1>6, <3>1, <3>2 DEF Distinct
  <2> QED
    BY <2>1, <2>2
<1>10. Fired(n) = {a \in activations : \E i \in 1 .. n : timers[i] = a}
  <2>1. 1 .. n \subseteq DOMAIN timers
    BY <1>3
  <2> QED
    BY <1>1, <2>1 DEF Fired
<1>11. \A a \in Fired(n) : a.kind # "sample" /\ \E i \in DOMAIN timers : timers[i] = a
  <2>1. 1 .. n \subseteq DOMAIN timers
    BY <1>3
  <2> QED
    BY <1>6, <1>10, <2>1
<1>12. Consumed' = {a \in activations :
                      IF a.kind = "sample" THEN a.at < nextSampleTimes[a.id]
                      ELSE \A i \in DOMAIN timers' : timers'[i] # a}
  BY DEF Consumed
<1>15. Consumed = {a \in activations :
                     IF a.kind = "sample" THEN a.at < nextSampleTimes[a.id]
                     ELSE \A i \in DOMAIN timers : timers[i] # a}
  BY DEF Consumed
<1>13. Consumed' = Consumed \cup Fired(n)
  <2> DEFINE after == Consumed'
  <2>1. after = {a \in activations :
                   IF a.kind = "sample" THEN a.at < nextSampleTimes[a.id]
                   ELSE \A i \in DOMAIN timers' : timers'[i] # a}
    BY <1>12
  <2> HIDE DEF after
  <2> QED
    BY <1>9, <1>10, <1>11, <1>15, <2>1 DEF after
<1>14. Consumed \cap Fired(n) = {}
  BY <1>11 DEF Consumed
<1> QED
  BY <1>8, <1>13, <1>14

(* The times of a sample are an interval apart. *)
LEMMA NextOfSample ==
  ASSUME NEW s \in Nat, NEW d \in Nat \ {0}, NEW j \in Nat, NEW k \in Nat
  PROVE  s + j * d < s + k * d + d <=> s + j * d <= s + k * d
<1>1. j * d \in Nat /\ k * d \in Nat
  BY Products
<1>2. CASE j <= k
  <2>1. (k - j) * d \in Nat
    <3>1. k - j \in Nat
      BY <1>2
    <3> QED
      BY <3>1, Products
  <2>2. (k - j) * d = k * d - j * d
    OBVIOUS
  <2> QED
    BY <1>1, <2>1, <2>2
<1>3. CASE j > k
  <2>1. (j - k - 1) * d \in Nat
    <3>1. j - k - 1 \in Nat
      BY <1>3
    <3> QED
      BY <3>1, Products
  <2>2. (j - k - 1) * d = j * d - k * d - d
    OBVIOUS
  <2> QED
    BY <1>1, <2>1, <2>2
<1> QED
  BY <1>2, <1>3

(* An activation of a sample is named by the sample and its time. *)
LEMMA SampleNamed ==
  ASSUME BaseInv, ShapeInv, NEW a \in activations, a.kind = "sample"
  PROVE  a.id \in Samples /\ a = Sample(a.id, a.at) /\ SampleAt(a.id, a.at)
<1>1. PICK i \in Samples : SampleAt(i, a.at) /\ a = Sample(i, a.at)
  BY DEF ShapeInv
<1>2. Sample(i, a.at).id = i
  BY DEF Sample
<1> QED
  BY <1>1, <1>2

(* The tick of a Boolean clock is a new one. *)
LEMMA ClockJoins ==
  ASSUME LoopInv, ShapeInv, FireBooleanClock, model' = model
  PROVE  /\ ShapeInv'
         /\ activations \subseteq activations'
         /\ \A a \in activations' \ activations : a.at = currentTime /\ a.kind = "clock"
         /\ \A i \in DOMAIN timers' : timers'[i].at = currentTime \/ \E j \in DOMAIN timers : timers'[i] = timers[j]
         /\ \A a \in activations' : a.kind # "sample" =>
               ((\A i \in DOMAIN timers' : timers'[i] # a) <=>
                (a \in activations /\ \A i \in DOMAIN timers : timers[i] # a))
<1>1. BaseInv /\ EffectInv
  BY DEF LoopInv
<1>2. /\ Distinct(timers) /\ \A i \in DOMAIN timers : timers[i].kind # "sample"
  BY DEF ShapeInv
<1>3. /\ IsFiniteSet(activations)
      /\ \A a \in activations :
            IF a.kind = "sample"
            THEN \E i \in Samples : SampleAt(i, a.at) /\ a = Sample(i, a.at)
            ELSE a.kind = "clock" => a.id \in Nat /\ a.id < Cardinality(activations)
  BY DEF ShapeInv
<1>4. timers \in Seq(activations) /\ \A i \in DOMAIN timers : timers[i] \in activations
  BY <1>1 DEF BaseInv
<1>5. Samples' = Samples /\ \A i \in Samples : \A t : SampleAt(i, t)' <=> SampleAt(i, t)
  BY DEF Samples, SampleAt
<1>6. CASE eventLst /\ model.clock # 0
  <2> DEFINE c == Cardinality(activations)
             tick == Clock(c, currentTime, model.clock = 2)
             A == activations \cup {tick}
  <2>1. timers' = InsertTimer(timers, tick) /\ activations' = A
    BY <1>6 DEF FireBooleanClock
  <2>2. tick.at = currentTime /\ tick.kind = "clock" /\ tick.id = c
    BY DEF Clock
  <2>3. c \in Nat
    BY <1>3, FS_CardinalityType
  <2>4. tick \notin activations
    <3> HIDE DEF tick, c
    <3>1. ASSUME tick \in activations
          PROVE  FALSE
      <4>1. tick.id < Cardinality(activations)
        BY <1>3, <2>2, <3>1
      <4>2. c < c
        BY <2>2, <4>1 DEF c
      <4> QED
        BY <2>3, <4>2
    <3> QED
      BY <3>1
  <2>5. IsFiniteSet(A) /\ Cardinality(A) = c + 1
    <3> HIDE DEF tick
    <3> QED
      BY <1>3, <2>4, FS_AddElement
  <2> HIDE DEF tick
  <2>6. /\ timers \in Seq(A) /\ (\A a \in A : a.at \in Int) /\ tick \in A
    BY <1>1, <1>4, <2>2 DEF BaseInv
  <2>7. Sorted(timers)
    BY <1>1 DEF EffectInv
  <2> HIDE DEF A
  <2>8. /\ \A i \in DOMAIN timers' : timers'[i] = tick \/ \E j \in DOMAIN timers : timers'[i] = timers[j]
        /\ \A j \in DOMAIN timers : \E i \in DOMAIN timers' : timers'[i] = timers[j]
        /\ \E i \in DOMAIN timers' : timers'[i] = tick
        /\ (\A j \in DOMAIN timers : timers[j] # tick) /\ Distinct(timers) => Distinct(timers')
    BY <2>1, <2>6, <2>7, InsertedAmong
  <2>9. \A j \in DOMAIN timers : timers[j] # tick
    BY <1>4, <2>4
  <2>10. \A a \in activations' : a \in activations \/ a = tick
    BY <2>1 DEF A
  <2>11. activations \subseteq activations'
    BY <2>1 DEF A
  <2>12. ShapeInv'
    <3>1. \A i \in DOMAIN timers' : timers'[i].kind # "sample"
      BY <1>2, <2>2, <2>8
    <3>2. Distinct(timers')
      BY <1>2, <2>8, <2>9
    <3>3. IsFiniteSet(activations')
      BY <2>1, <2>5
    <3>4. Cardinality(activations') = c + 1
      BY <2>1, <2>5
    <3>5. ASSUME NEW a \in activations'
          PROVE  IF a.kind = "sample"
                 THEN \E i \in Samples : SampleAt(i, a.at) /\ a = Sample(i, a.at)
                 ELSE a.kind = "clock" => a.id \in Nat /\ a.id < c + 1
      <4>1. CASE a = tick
        <5>1. a.kind # "sample" /\ a.id \in Nat /\ a.id < c + 1
          BY <2>2, <2>3, <4>1
        <5> QED
          BY <5>1
      <4>2. CASE a \in activations
        <5>1. CASE a.kind = "clock"
          <6>1. a.id < c
            BY <1>3, <4>2, <5>1
          <6>2. a.id \in Nat
            BY <1>3, <4>2, <5>1
          <6> QED
            BY <2>3, <5>1, <6>1, <6>2
        <5>2. CASE a.kind # "clock"
          BY <1>3, <4>2, <5>2
        <5> QED
          BY <5>1, <5>2
      <4> QED
        BY <2>10, <4>1, <4>2
    <3> HIDE DEF c
    <3> QED
      BY <1>5, <3>1, <3>2, <3>3, <3>4, <3>5 DEF ShapeInv, SampleAt, Samples
  <2>13. \A a \in activations' \ activations : a.at = currentTime /\ a.kind = "clock"
    BY <2>2, <2>10
  <2>14. ASSUME NEW a \in activations'
         PROVE  (\A i \in DOMAIN timers' : timers'[i] # a) <=>
                (a \in activations /\ \A i \in DOMAIN timers : timers[i] # a)
    <3>1. CASE a = tick
      BY <2>4, <2>8, <3>1
    <3>2. CASE a \in activations
      <4>1. a # tick
        BY <2>4, <3>2
      <4> QED
        BY <2>8, <3>2, <4>1
    <3> QED
      BY <2>10, <3>1, <3>2
  <2>15. \A i \in DOMAIN timers' : timers'[i].at = currentTime \/ \E j \in DOMAIN timers : timers'[i] = timers[j]
    BY <2>2, <2>8
  <2> QED
    BY <2>11, <2>12, <2>13, <2>14, <2>15
<1>7. CASE ~(eventLst /\ model.clock # 0)
  <2>1. timers' = timers /\ activations' = activations
    BY <1>7 DEF FireBooleanClock
  <2>2. ShapeInv'
    BY <1>2, <1>3, <1>5, <2>1 DEF ShapeInv, SampleAt, Samples
  <2> QED
    BY <2>1, <2>2
<1> QED
  BY <1>6, <1>7

(* handleEvents: the samples that are activated are gone, and were not before. *)
LEMMA GoneEvents ==
  ASSUME LoopInv, ShapeInv, HandleEvents
  PROVE  LET active == {Sample(i, nextSampleTimes[i]) : i \in Activated}
         IN  /\ ShapeInv'
             /\ Consumed' = Consumed \cup active
             /\ Consumed \cap active = {}
             /\ activations \subseteq activations'
             /\ \A a \in activations' \ activations : a.at = currentTime
             /\ \A i \in DOMAIN timers' : timers'[i].at = currentTime \/ \E j \in DOMAIN timers : timers'[i] = timers[j]
<1> DEFINE active == {Sample(i, nextSampleTimes[i]) : i \in Activated}
<1>1. /\ BaseInv /\ EffectInv
  BY DEF LoopInv
<1>2. /\ pc = "event" /\ FireBooleanClock /\ model' = model
      /\ nextSampleTimes' = [i \in Samples |->
            IF i \in Activated THEN nextSampleTimes[i] + model.samples[i].interval
            ELSE nextSampleTimes[i]]
  BY DEF HandleEvents, bounds
<1>3. /\ ShapeInv'
      /\ activations \subseteq activations'
      /\ \A a \in activations' \ activations : a.at = currentTime /\ a.kind = "clock"
      /\ \A i \in DOMAIN timers' : timers'[i].at = currentTime \/ \E j \in DOMAIN timers : timers'[i] = timers[j]
      /\ \A a \in activations' : a.kind # "sample" =>
            ((\A i \in DOMAIN timers' : timers'[i] # a) <=>
             (a \in activations /\ \A i \in DOMAIN timers : timers[i] # a))
  BY <1>2, ClockJoins
<1>4. \A i \in Activated : i \in Samples /\ Sample(i, nextSampleTimes[i]) \in activations
  BY <1>2, SamplesPlanned
<1>5. \A i \in Samples, t \in Int : /\ Sample(i, t).kind = "sample"
                                    /\ Sample(i, t).id = i /\ Sample(i, t).at = t
  BY DEF Sample
<1>6. \A i \in Samples : nextSampleTimes[i] \in Int
  BY <1>1 DEF BaseInv
<1>7. \A a \in active : /\ a \in activations /\ a.kind = "sample"
                        /\ a.id \in Activated /\ a.at = nextSampleTimes[a.id]
  BY <1>4, <1>5, <1>6
<1>8. ASSUME NEW a \in activations, a.kind = "sample"
      PROVE  a.at < nextSampleTimes'[a.id] <=> a.at < nextSampleTimes[a.id] \/ a \in active
  <2> DEFINE i == a.id
             s == model.samples[i].start
             d == model.samples[i].interval
  <2>1. i \in Samples /\ a = Sample(i, a.at) /\ SampleAt(i, a.at)
    BY <1>1, <1>8, SampleNamed
  <2>2. s \in Nat /\ d \in Nat \ {0} /\ nextSampleTimes[i] \in Nat
    BY <1>1, <2>1, ModelFacts DEF BaseInv
  <2>3. PICK j \in Nat : a.at = s + j * d
    BY <2>1 DEF SampleAt
  <2>4. PICK k \in Nat : nextSampleTimes[i] = s + k * d
    BY <1>1, <2>1 DEF EffectInv, SampleAt
  <2>5. nextSampleTimes'[i] = IF i \in Activated THEN nextSampleTimes[i] + d ELSE nextSampleTimes[i]
    BY <1>2, <2>1
  <2> HIDE DEF s, d
  <2>6. s + j * d < s + k * d + d <=> s + j * d <= s + k * d
    BY <2>2, NextOfSample
  <2>7. a.at < nextSampleTimes[i] + d <=> a.at <= nextSampleTimes[i]
    BY <2>3, <2>4, <2>6
  <2>8. a \in active <=> i \in Activated /\ a.at = nextSampleTimes[i]
    BY <1>7, <2>1
  <2>9. a.at \in Int
    BY <1>1 DEF BaseInv
  <2>10. a.at <= nextSampleTimes[i] <=> a.at < nextSampleTimes[i] \/ a.at = nextSampleTimes[i]
    BY <2>2, <2>9
  <2>11. CASE i \in Activated
    BY <2>5, <2>7, <2>8, <2>10, <2>11
  <2>12. CASE i \notin Activated
    BY <2>5, <2>8, <2>12
  <2> QED
    BY <2>11, <2>12
<1>9. Consumed = {a \in activations :
                    IF a.kind = "sample" THEN a.at < nextSampleTimes[a.id]
                    ELSE \A i \in DOMAIN timers : timers[i] # a}
  BY DEF Consumed
<1> DEFINE after == Consumed'
<1>10. after = {a \in activations' :
                    IF a.kind = "sample" THEN a.at < nextSampleTimes'[a.id]
                    ELSE \A i \in DOMAIN timers' : timers'[i] # a}
  BY DEF Consumed
<1> HIDE DEF after, active
<1>11. \A a \in activations' : a.kind = "sample" => a \in activations
  <2>1. "clock" # "sample"
    OBVIOUS
  <2> QED
    BY <1>3, <2>1
<1>12. ASSUME NEW a
       PROVE  a \in after <=> a \in Consumed \cup active
  <2>1. CASE a.kind = "sample"
    BY <1>3, <1>7, <1>8, <1>9, <1>10, <1>11, <2>1
  <2>2. CASE a.kind # "sample"
    BY <1>3, <1>7, <1>9, <1>10, <2>2
  <2> QED
    BY <2>1, <2>2
<1>13. after = Consumed \cup active
  BY <1>12
<1>14. Consumed \cap active = {}
  <2>1. ASSUME NEW a \in active, a \in Consumed
        PROVE  FALSE
    <3>1. a.at < nextSampleTimes[a.id] /\ a.at = nextSampleTimes[a.id]
      BY <1>7, <1>9, <2>1
    <3>2. nextSampleTimes[a.id] \in Int
      BY <1>4, <1>6, <1>7
    <3> QED
      BY <3>1, <3>2
  <2> QED
    BY <2>1
<1> QED
  BY <1>3, <1>13, <1>14 DEF after, active

(* How far ahead the point of the step number is: a step that is skipped. *)
LEMMA FarSkip ==
  ASSUME LoopInv, FarInv, SkipStep
  PROVE  FarInv'
<1>1. /\ BaseInv /\ TimeInv /\ DueInv /\ AtHead
  BY DEF LoopInv, PlaceInv
<1>2. /\ pc = "head" /\ pc' = "head" /\ currentTime < stopTime /\ AlmostEqual
      /\ currStepNo' = StepNo + 1
      /\ UNCHANGED <<old, didEventStep, syncStep>>
  BY DEF SkipStep, LoopHead
<1>3. SyncEventStep /\ StepNo = currStepNo /\ Grid(currStepNo) <= currentTime + Slack
  BY <1>1, <1>2, Skipped
<1>4. currentTime = old.time
  BY <1>1, <1>2 DEF AtHead
<1>5. SyncEventStep'
  BY <1>2, <1>3 DEF SyncEventStep
<1>6. /\ currStepNo \in Nat /\ Slack \in 0 .. 1 /\ currentTime \in Int /\ StepLen \in Nat \ {0}
      /\ Grid(currStepNo) \in Int
  BY <1>1, Numbers, Parameters, GridIsInt
<1>7. Grid(currStepNo') = Grid(currStepNo) + StepLen
  BY <1>2, <1>3, <1>6, GridNext
<1>8. Grid(currStepNo') <= currentTime + 2 * StepLen
  BY <1>3, <1>6, <1>7
<1>9. (Grid(currStepNo) <= old.time + 2 * StepLen)'
  BY <1>2, <1>4, <1>8 DEF Grid
<1> QED
  BY <1>2, <1>5, <1>9 DEF FarInv

(* A step that is taken. *)
LEMMA FarNext ==
  ASSUME LoopInv, FarInv, NextStep
  PROVE  FarInv'
<1> DEFINE c == currentTime
           g == Grid(StepNo)
           size == Grid(StepNo) - c
           D == DesiredSize
<1>1. /\ BaseInv /\ TimeInv /\ DueInv /\ AtHead
  BY DEF LoopInv, PlaceInv
<1>2. /\ pc = "head" /\ pc' = "solve" /\ c < stopTime /\ ~AlmostEqual
      /\ sampleActivated' = (sampleActivated \/ MeetsSample)
      /\ currentStepSize' = StepSize /\ currStepNo' = StepNo
      /\ UNCHANGED <<currentTime, old, nextSampleTimes, timers, model>>
  BY DEF NextStep, LoopHead, bounds
<1>3. /\ size \in Int /\ D \in Int /\ SyncSize \in Int /\ StepSize \in Int
      /\ ~retry => D = size
      /\ retry => 2 * D <= size /\ size <= 2 * D + 1
      /\ \/ SyncSize = D
         \/ /\ timers # <<>> /\ Head(timers) = timers[1]
            /\ SyncSize = timers[1].at - c /\ timers[1].at \in Int
            /\ SyncSize >= 0 /\ SyncSize <= D + Eps
      /\ \/ /\ MeetsSample /\ StepSize = NextSample - c
            /\ StepSize >= 0 /\ StepSize <= SyncSize + Eps
         \/ /\ ~MeetsSample /\ StepSize = SyncSize
  BY <1>1, SizeCases
<1>4. /\ currStepNo \in Nat /\ NextSample \in Nat /\ StepNo \in Nat
      /\ c \in Int /\ Eps \in Nat /\ StepLen \in Nat \ {0}
  BY <1>1, Numbers, StepSizes, Parameters
<1>5. g \in Int /\ size = g - c /\ Grid(currStepNo) \in Int
  BY <1>4, GridIsInt
<1>6. c = old.time
  BY <1>1, <1>2 DEF AtHead
<1>7. g <= c + 2 * StepLen
  <2>1. CASE SyncEventStep
    <3>1. StepNo = currStepNo /\ Grid(currStepNo) <= old.time + 2 * StepLen
      BY <1>2, <2>1 DEF StepNo, FarInv
    <3> QED
      BY <1>6, <3>1
  <2>2. CASE ~SyncEventStep
    <3>1. StepNo = currStepNo + 1 /\ Grid(currStepNo) <= c + StepLen
      BY <1>2, <2>2 DEF StepNo, FarInv, Close
    <3>2. g = Grid(currStepNo) + StepLen
      BY <1>4, <3>1, GridNext
    <3> HIDE DEF g
    <3> QED
      BY <1>4, <1>5, <3>1, <3>2
  <2> QED
    BY <2>1, <2>2
<1>8. NextSample' = NextSample
  BY <1>2, NextSampleKept
<1> DEFINE e == c + StepSize
<1> HIDE DEF c, g, size, D
<1>9. D <= 2 * StepLen
  BY <1>3, <1>4, <1>5, <1>7
<1>10. StepSize <= 2 * StepLen + 2 * Eps
  <2>1. SyncSize <= 2 * StepLen + Eps
    BY <1>3, <1>4, <1>9
  <2> QED
    BY <1>3, <1>4, <2>1
<1>11. \/ MeetsSample /\ NextSample = e
       \/ TimerBy(e)
       \/ g <= e + StepLen
  <2>1. CASE MeetsSample
    BY <1>3, <1>4, <2>1
  <2>2. CASE ~MeetsSample /\ SyncSize # D
    <3>1. timers # <<>> /\ Head(timers).at = e
      BY <1>3, <1>4, <2>2
    <3> QED
      BY <1>3, <1>4, <3>1 DEF TimerBy
  <2>3. CASE ~MeetsSample /\ SyncSize = D
    <3>1. StepSize = D
      BY <1>3, <2>3
    <3>2. size - D <= StepLen
      <4>1. CASE retry
        BY <1>3, <1>4, <1>5, <1>7, <4>1
      <4>2. CASE ~retry
        BY <1>3, <1>4, <4>2
      <4> QED
        BY <4>1, <4>2
    <3> QED
      BY <1>3, <1>4, <1>5, <3>1, <3>2
  <2> QED
    BY <2>1, <2>2, <2>3
<1>12. (Grid(currStepNo) <= old.time + 2 * StepLen)'
  BY <1>2, <1>6, <1>7 DEF Grid, g
<1>13. (currentStepSize <= 2 * StepLen + 2 * Eps)'
  BY <1>2, <1>10
<1>14. (\/ sampleActivated /\ NextSample = currentTime + currentStepSize
        \/ TimerBy(currentTime + currentStepSize)
        \/ Close(currentTime + currentStepSize))'
  <2>1. (currentTime + currentStepSize)' = e
    BY <1>2 DEF c
  <2> HIDE DEF e
  <2> QED
    BY <1>2, <1>8, <1>11, <2>1 DEF TimerBy, Close, Grid, g
<1> QED
  BY <1>2, <1>12, <1>13, <1>14 DEF FarInv

(* The solver ends where the step does, or at a root before it. *)
LEMMA FarSolve ==
  ASSUME LoopInv, FarInv, EulerStep \/ DasslStep
  PROVE  FarInv'
<1> DEFINE end == currentTime + currentStepSize
<1>1. BaseInv /\ TimeInv /\ DueInv /\ AtSolve
  BY DEF LoopInv, PlaceInv
<1>2. /\ pc = "solve" /\ pc' = "update"
      /\ UNCHANGED <<old, currStepNo, timers, nextSampleTimes, model>>
  BY DEF EulerStep, DasslStep, SolveTo
<1>3. localData[2] = old /\ currentTime = old.time
  BY <1>1, <1>2 DEF AtSolve
<1>4. /\ currentTime \in Int /\ currentStepSize \in Int /\ old.time \in Int
      /\ NextSample \in Int /\ Eps \in Nat /\ StepLen \in Nat
  BY <1>1, Numbers, Parameters
<1>5. NextSample' = NextSample
  BY <1>2, NextSampleKept
<1>6. /\ Grid(currStepNo) <= old.time + 2 * StepLen
      /\ currentStepSize <= 2 * StepLen + 2 * Eps
      /\ \/ sampleActivated /\ NextSample = end
         \/ TimerBy(end)
         \/ Close(end)
  BY <1>2 DEF FarInv
<1>7. end \in Int /\ end <= old.time + 2 * StepLen + 2 * Eps
  BY <1>3, <1>4, <1>6
<1>8. PICK root :
         /\ crossing' = root
         /\ \/ root # 0 /\ currentTime' \in Int /\ currentTime' <= end
            \/ currentTime' = end /\ (sampleActivated' = sampleActivated
                                       \/ sampleActivated' = (sampleActivated /\ end >= NextSample))
  <2>1. CASE EulerStep
    <3>1. PICK root \in Roots(old.time, end) : SolveTo(end, root)
      BY <1>3, <2>1 DEF EulerStep
    <3>2. sampleActivated' = sampleActivated
      BY <2>1 DEF EulerStep
    <3> QED
      BY <3>1, <3>2 DEF SolveTo
  <2>2. CASE DasslStep
    <3>1. PICK root \in Roots(currentTime, end) : SolveTo(IF root = 0 THEN end ELSE root, root)
      BY <2>2 DEF DasslStep
    <3>2. sampleActivated' = (sampleActivated /\ currentTime' >= NextSample)
      BY <2>2 DEF DasslStep
    <3>3. crossing' = root /\ currentTime' = IF root = 0 THEN end ELSE root
      BY <3>1 DEF SolveTo
    <3>4. root # 0 => root \in Int /\ root <= end
      BY <1>4, <3>1 DEF Roots
    <3> HIDE DEF end
    <3> QED
      BY <3>2, <3>3, <3>4
  <2> QED
    BY <2>1, <2>2
<1> HIDE DEF end
<1>9. currentTime' <= old.time + 2 * StepLen + 2 * Eps
  BY <1>4, <1>7, <1>8
<1>10. (crossing # 0 \/ sampleActivated \/ TimerBy(currentTime) \/ Close(currentTime))'
  <2>1. CASE root # 0
    BY <1>8, <2>1
  <2>2. CASE currentTime' = end /\ (sampleActivated' = sampleActivated
                                      \/ sampleActivated' = (sampleActivated /\ end >= NextSample))
    <3>1. ASSUME sampleActivated, NextSample = end
          PROVE  sampleActivated'
      <4>1. end >= NextSample
        BY <1>4, <3>1
      <4>2. CASE sampleActivated' = sampleActivated
        BY <3>1, <4>2
      <4>3. CASE sampleActivated' = (sampleActivated /\ end >= NextSample)
        BY <3>1, <4>1, <4>3
      <4> QED
        BY <2>2, <4>2, <4>3
    <3> QED
      BY <1>2, <1>6, <2>2, <3>1 DEF TimerBy, Close, Grid
  <2> QED
    BY <1>8, <2>1, <2>2
<1> QED
  BY <1>2, <1>6, <1>9, <1>10 DEF FarInv, Grid

(* The timers that are due at the end of a step return an event. *)
LEMMA FarUpdate ==
  ASSUME LoopInv, FarInv, UpdateContinuousSystem
  PROVE  FarInv'
<1>1. BaseInv /\ EffectInv
  BY DEF LoopInv
<1>2. /\ pc = "update" /\ pc' = "check" /\ syncRet' = TimersReturn
      /\ UNCHANGED <<currStepNo, currentTime, old, sampleActivated, crossing>>
  BY DEF UpdateContinuousSystem
<1>3. TimerBy(currentTime) => TimersReturn = 2
  BY <1>1, WhatTimersReturn
<1> QED
  BY <1>2, <1>3 DEF FarInv, Close, Grid

(* A step without an event is not cut short. *)
LEMMA FarCheck ==
  ASSUME LoopInv, FarInv, CheckEvents
  PROVE  FarInv'
<1> DEFINE found == crossing # 0 \/ eventLst
           root == IF crossing # 0 /\ ~model.rootFinding THEN crossing ELSE localData[1].time
           event == found \/ sampleActivated \/ syncRet = 2
<1>1. BaseInv /\ AtCheck
  BY DEF LoopInv, PlaceInv
<1>2. /\ pc = "check" /\ pc' = (IF event THEN "event" ELSE "finish")
      /\ currentTime' = IF found THEN root ELSE currentTime
      /\ UNCHANGED <<currStepNo, old>>
  BY DEF CheckEvents
<1>3. root <= currentTime /\ root \in Int /\ currentTime \in Int /\ old.time \in Int
  BY <1>1, <1>2, Numbers DEF AtCheck, RootIsNew
<1>4. StepLen \in Nat /\ Eps \in Nat
  BY Parameters
<1>5. /\ Grid(currStepNo) <= old.time + 2 * StepLen
      /\ currentTime <= old.time + 2 * StepLen + 2 * Eps
      /\ syncRet = 2 \/ crossing # 0 \/ sampleActivated \/ Close(currentTime)
  BY <1>2 DEF FarInv
<1>6. ~event => Close(currentTime) /\ currentTime' = currentTime
  BY <1>2, <1>5
<1>7. (currentTime <= old.time + 2 * StepLen + 2 * Eps)'
  <2> HIDE DEF root, found
  <2>1. CASE found
    BY <1>2, <1>3, <1>4, <1>5, <2>1
  <2>2. CASE ~found
    BY <1>2, <1>5, <2>2
  <2> QED
    BY <2>1, <2>2
<1> HIDE DEF event, root, found
<1>8. (pc = "finish" => didEventStep \/ Close(currentTime))'
  BY <1>2, <1>6 DEF Close, Grid
<1> QED
  BY <1>2, <1>5, <1>7, <1>8 DEF FarInv, Grid

(* After an event the loop does not count the step. *)
LEMMA FarEvents ==
  ASSUME LoopInv, FarInv, HandleEvents
  PROVE  FarInv'
<1>1. /\ pc = "event" /\ pc' = "finish" /\ didEventStep'
      /\ UNCHANGED <<currStepNo, old, currentTime>>
  BY DEF HandleEvents
<1> QED
  BY <1>1 DEF FarInv, Grid

(* The step that ends becomes the one the loop goes on from. *)
LEMMA FarFinish ==
  ASSUME LoopInv, FarInv, NEW selected \in BOOLEAN, FinishUpdate(selected)
  PROVE  FarInv'
<1>1. BaseInv /\ EffectInv /\ TimeInv /\ AtFinish
  BY DEF LoopInv, PlaceInv
<1>2. /\ pc = "finish"
      /\ didEventStep' = (didEventStep \/ selected)
      /\ old' = localData[1]
      /\ syncRet' = IF TimersReturn = 0 THEN syncRet ELSE TimersReturn
      /\ pc' = IF TimersReturn = 0 THEN "emit" ELSE "check"
      /\ UNCHANGED <<currStepNo, currentTime>>
  BY DEF FinishUpdate
<1>3. TimersReturn \in {0, 2}
  BY <1>1, WhatTimersReturn
<1>4. old'.time = currentTime /\ old.time <= currentTime
  BY <1>1, <1>2, Numbers DEF AtFinish, TimeInv
<1>5. /\ old.time \in Int /\ currentTime \in Int /\ Grid(currStepNo) \in Int
      /\ StepLen \in Nat /\ Eps \in Nat
  BY <1>1, Numbers, Parameters, GridIsInt
<1>6. Grid(currStepNo) <= old.time + 2 * StepLen /\ (didEventStep \/ Close(currentTime))
  BY <1>2 DEF FarInv
<1>7. Grid(currStepNo) <= currentTime + 2 * StepLen
      /\ currentTime <= currentTime + 2 * StepLen + 2 * Eps
  BY <1>4, <1>5, <1>6
<1>8. (Grid(currStepNo) <= old.time + 2 * StepLen)'
      /\ (currentTime <= old.time + 2 * StepLen + 2 * Eps)'
  BY <1>2, <1>4, <1>7 DEF Grid
<1>9. didEventStep' \/ Close(currentTime)'
  BY <1>2, <1>6 DEF Close, Grid
<1> QED
  BY <1>2, <1>3, <1>8, <1>9 DEF FarInv, SyncEventStep

(* The steps that leave the loop, or go to its beginning. *)
LEMMA FarOthers ==
  ASSUME LoopInv, FarInv,
         \/ \E input, terminated \in BOOLEAN : EmitStep(input, terminated)
         \/ Retry
         \/ ThrowInUpdate \/ ThrowInFindRoot \/ ThrowInFinish
         \/ LeaveLoop \/ BreakLoop \/ AbortSlow \/ ThrowInEvent \/ Terminate
         \/ UNCHANGED vars
  PROVE  FarInv'
<1>1. ASSUME NEW input \in BOOLEAN, NEW terminated \in BOOLEAN, EmitStep(input, terminated)
      PROVE  FarInv'
  <2>1. localData[1] = old
    BY <1>1 DEF LoopInv, PlaceInv, AtEmit, EmitStep
  <2>2. /\ pc = "emit" /\ pc' = "head" /\ old' = old
        /\ didEventStep' = (didEventStep \/ input)
        /\ UNCHANGED <<currStepNo, currentTime, syncStep>>
    BY <1>1, <2>1 DEF EmitStep
  <2> QED
    BY <2>2 DEF FarInv, SyncEventStep, Close, Grid
<1>2. CASE Retry
  <2>1. pc = "catch" /\ pc' = "head" /\ didEventStep' /\ UNCHANGED <<currStepNo, old>>
    BY <1>2 DEF Retry
  <2> QED
    BY <2>1 DEF FarInv, SyncEventStep, Grid
<1>3. CASE ThrowInUpdate \/ ThrowInFindRoot \/ ThrowInFinish
  <2>1. pc # "done" /\ pc' = "catch" /\ UNCHANGED <<currStepNo, old>>
    BY <1>3 DEF ThrowInUpdate, ThrowInFindRoot, ThrowInFinish, Throw
  <2> QED
    BY <2>1 DEF FarInv, Grid
<1>4. CASE LeaveLoop \/ BreakLoop \/ AbortSlow \/ ThrowInEvent \/ Terminate
  <2>1. pc' = "done"
    BY <1>4 DEF LeaveLoop, BreakLoop, AbortSlow, ThrowInEvent, AbortInEvent, Terminate
  <2> QED
    BY <2>1 DEF FarInv
<1>5. CASE UNCHANGED vars
  <2>1. UNCHANGED <<pc, currStepNo, old, currentTime, didEventStep, syncStep, syncRet, crossing,
                    currentStepSize, sampleActivated, timers, nextSampleTimes, model>>
    BY <1>5 DEF vars, loopVars, timeVars, eventVars, bounds
  <2>2. NextSample' = NextSample
    BY <2>1, NextSampleKept
  <2> QED
    BY <2>1, <2>2 DEF FarInv, Close, Grid, SyncEventStep, TimerBy
<1> QED
  BY <1>1, <1>2, <1>3, <1>4, <1>5

(* How far ahead the point of the step number is, over all steps. *)
LEMMA FarKept ==
  ASSUME LoopInv, FarInv, [Next]_vars
  PROVE  FarInv'
<1>1. CASE SkipStep
  BY <1>1, FarSkip
<1>2. CASE NextStep
  BY <1>2, FarNext
<1>3. CASE EulerStep \/ DasslStep
  BY <1>3, FarSolve
<1>4. CASE UpdateContinuousSystem
  BY <1>4, FarUpdate
<1>5. CASE CheckEvents
  BY <1>5, FarCheck
<1>6. CASE HandleEvents
  BY <1>6, FarEvents
<1>7. CASE \E selected \in BOOLEAN : FinishUpdate(selected)
  BY <1>7, FarFinish
<1>8. CASE \/ \E input, terminated \in BOOLEAN : EmitStep(input, terminated)
           \/ Retry
           \/ ThrowInUpdate \/ ThrowInFindRoot \/ ThrowInFinish
           \/ LeaveLoop \/ BreakLoop \/ AbortSlow \/ ThrowInEvent \/ Terminate
           \/ UNCHANGED vars
  BY <1>8, FarOthers
<1> QED
  BY <1>1, <1>2, <1>3, <1>4, <1>5, <1>6, <1>7, <1>8 DEF Next, Step

(* At the start nothing is ahead. *)
LEMMA FarInit ==
  ASSUME Init
  PROVE  FarInv
<1>1. pc = "head" /\ currStepNo = 0 /\ old = Slot(0, {}) /\ currentTime = 0
  BY DEF Init
<1>2. old.time = 0
  BY <1>1 DEF Slot
<1>3. StepLen \in Nat
  BY Parameters
<1>4. Grid(currStepNo) <= old.time + 2 * StepLen /\ Close(currentTime)
  BY <1>1, <1>2, <1>3, GridZero DEF Close
<1> QED
  BY <1>1, <1>4 DEF FarInv

(* Where no sample, timer or activation changes nothing is gone. *)
LEMMA NothingGone ==
  ASSUME ShapeInv, UNCHANGED <<activations, nextSampleTimes, timers, model>>
  PROVE  ShapeInv' /\ Consumed' = Consumed
<1>1. Samples' = Samples /\ \A i \in Samples : \A t : SampleAt(i, t)' <=> SampleAt(i, t)
  BY DEF Samples, SampleAt
<1>2. Consumed' = Consumed
  BY DEF Consumed
<1>3. ShapeInv'
  BY <1>1 DEF ShapeInv, SampleAt
<1> QED
  BY <1>2, <1>3

(* Timers that are left are some of the timers. *)
LEMMA TimersOf ==
  ASSUME BaseInv, NEW n \in 0 .. Len(timers),
         timers' = SubSeq(timers, n + 1, Len(timers))
  PROVE  /\ \A t : TimersFrom(t) => TimersFrom(t)'
         /\ timers = <<>> => timers' = <<>>
         /\ \A i \in DOMAIN timers' : \E j \in DOMAIN timers : timers'[i] = timers[j]
<1>1. timers \in Seq(activations)
  BY DEF BaseInv
<1>2. \A i \in DOMAIN timers' : i + n \in DOMAIN timers /\ timers'[i] = timers[i + n]
  <2> DEFINE rest == SubSeq(timers, n + 1, Len(timers))
  <2>1. \A i \in DOMAIN rest : i + n \in DOMAIN timers /\ rest[i] = timers[i + n]
    BY <1>1, Rest
  <2>2. timers' = rest
    OBVIOUS
  <2> HIDE DEF rest
  <2> QED
    BY <2>1, <2>2
<1>3. timers' \in Seq(activations)
  BY <1>1, Popped
<1>4. ASSUME timers = <<>>
      PROVE  timers' = <<>>
  <2>1. DOMAIN timers' = {}
    BY <1>2, <1>4
  <2> QED
    BY <1>3, <2>1
<1>5. ASSUME NEW t, TimersFrom(t)
      PROVE  \A i \in DOMAIN timers' : timers'[i].at >= t
  BY <1>2, <1>5 DEF TimersFrom
<1>6. \A i \in DOMAIN timers' : \E j \in DOMAIN timers : timers'[i] = timers[j]
  BY <1>2
<1> QED
  BY <1>4, <1>5, <1>6 DEF TimersFrom

(* The timers that fire are due, and among those that were there. *)
LEMMA FiredTimers ==
  ASSUME BaseInv, EffectInv, NEW n \in {Cardinality(DueTimers)} \cup DueTimers
  PROVE  /\ n \in 0 .. Len(timers)
         /\ \A a \in Fired(n) : /\ a \in activations /\ a.at <= currentTime + Eps
                                /\ \E i \in DOMAIN timers : a = timers[i]
         /\ timers = <<>> => Fired(n) = {}
<1>1. /\ timers \in Seq(activations) /\ \A a \in activations : a.at \in Int
      /\ Sorted(timers) /\ currentTime \in Int /\ Eps \in Nat
      /\ Len(timers) \in Nat /\ DOMAIN timers = 1 .. Len(timers)
      /\ \A i \in DOMAIN timers : timers[i] \in activations
  BY Parameters DEF BaseInv, EffectInv
<1>2. currentTime + Eps \in Int
  BY <1>1
<1> DEFINE c == Cardinality(DueTimers)
<1>3. DueTimers = 1 .. c /\ c \in 0 .. Len(timers)
  BY <1>1, <1>2, FirstOnes DEF DueTimers
<1> HIDE DEF c
<1>4. n \in 0 .. c
  <2>1. n = c \/ n \in 1 .. c
    BY <1>3 DEF c
  <2> QED
    BY <1>3, <2>1
<1>5. n \in 0 .. Len(timers) /\ \A i \in 1 .. n : i \in DueTimers
  BY <1>1, <1>3, <1>4
<1>6. \A i \in 1 .. n : i \in DOMAIN timers /\ timers[i].at <= currentTime + Eps
  BY <1>5 DEF DueTimers
<1>7. timers = <<>> => Fired(n) = {}
  <2>1. timers = <<>> => 1 .. n = {}
    BY <1>6
  <2> QED
    BY <2>1 DEF Fired
<1> QED
  BY <1>1, <1>5, <1>6, <1>7 DEF Fired

(* A step that is skipped moves nothing. *)
LEMMA CourseSkip ==
  ASSUME LoopInv, RunInv, SkipStep
  PROVE  ShapeInv' /\ CourseInv'
<1>1. /\ BaseInv /\ TimeInv /\ DueInv /\ AtHead
  BY DEF LoopInv, PlaceInv
<1>2. /\ pc = "head" /\ pc' = "head" /\ currentTime < stopTime /\ AlmostEqual
      /\ localData' = Rotate
      /\ UNCHANGED <<old, currentTime, timers, nextSampleTimes, activations, model, undone,
                     accepted, crossing>>
  BY DEF SkipStep, LoopHead, bounds, histVars
<1>3. SyncEventStep
  BY <1>1, <1>2, Skipped
<1>4. localData[1] = old /\ localData[3] = old
  BY <1>1, <1>2, <1>3 DEF AtHead, AllOld
<1>5. localData'[1] = localData[1]
  BY <1>2, <1>4 DEF Rotate
<1>6. ShapeInv' /\ Consumed' = Consumed
  BY <1>2, NothingGone DEF RunInv
<1>7. GoneInv /\ AgeInv /\ PassInv /\ CrossingInv
  BY DEF RunInv, CourseInv
<1>8. GoneInv'
  BY <1>2, <1>5, <1>6, <1>7 DEF GoneInv
<1>9. AgeInv'
  BY <1>2, <1>5, <1>7 DEF AgeInv, TimersFrom
<1>10. PassInv' /\ CrossingInv'
  BY <1>2, <1>7 DEF PassInv, Passing, CrossingInv
<1> QED
  BY <1>6, <1>8, <1>9, <1>10 DEF CourseInv

(* A step that is taken ends at the first timer, or at a sample near to it. *)
LEMMA CourseNext ==
  ASSUME LoopInv, RunInv, NextStep
  PROVE  ShapeInv' /\ CourseInv'
<1> DEFINE end == currentTime + StepSize
<1>1. /\ BaseInv /\ EffectInv /\ TimeInv /\ DueInv /\ AtHead
  BY DEF LoopInv, PlaceInv
<1>2. /\ pc = "head" /\ pc' = "solve"
      /\ localData' = Rotate
      /\ currentStepSize' = StepSize
      /\ UNCHANGED <<old, currentTime, timers, nextSampleTimes, activations, model, undone,
                     accepted, crossing>>
  BY DEF NextStep, LoopHead, bounds, histVars
<1>3. localData[1].seen = old.seen /\ localData[3].seen = old.seen /\ accepted = old
  BY <1>1, <1>2 DEF AtHead, Alike
<1>4. localData'[1].seen = old.seen
  BY <1>2, <1>3 DEF Rotate
<1>5. ShapeInv' /\ Consumed' = Consumed
  BY <1>2, NothingGone DEF RunInv
<1>6. GoneInv /\ AgeInv /\ PassInv /\ CrossingInv
  BY DEF RunInv, CourseInv
<1>7. TimersFrom(end - Eps)
  <2>1. /\ timers \in Seq(activations) /\ DOMAIN timers = 1 .. Len(timers) /\ Len(timers) \in Nat
        /\ \A i \in DOMAIN timers : timers[i].at \in Int
    BY <1>1 DEF BaseInv
  <2>2. /\ DesiredSize \in Int /\ SyncSize \in Int /\ StepSize \in Int
        /\ StepSize <= SyncSize + Eps
        /\ currentTime \in Int /\ Eps \in Nat
    <3>1. /\ DesiredSize \in Int /\ SyncSize \in Int /\ StepSize \in Int
          /\ \/ StepSize <= SyncSize + Eps
             \/ StepSize = SyncSize
          /\ currentTime \in Int /\ Eps \in Nat
      BY <1>1, SizeCases, Numbers, Parameters
    <3> QED
      BY <3>1
  <2>3. ASSUME timers # <<>>
        PROVE  1 \in DOMAIN timers /\ end - Eps <= timers[1].at
    <3>1. 1 \in DOMAIN timers /\ Head(timers) = timers[1] /\ timers[1].at \in Int
      BY <2>1, <2>3
    <3>2. timers[1].at >= currentTime
      BY <1>2, <1>6, <3>1 DEF AgeInv, TimersFrom
    <3>3. CASE EndsAt(DesiredSize, Head(timers).at)
      <4>1. SyncSize = timers[1].at - currentTime
        BY <2>3, <3>1, <3>3 DEF SyncSize
      <4> QED
        BY <2>2, <3>1, <4>1
    <3>4. CASE ~EndsAt(DesiredSize, Head(timers).at)
      <4>1. SyncSize = DesiredSize
        BY <3>4 DEF SyncSize
      <4>2. ~(timers[1].at <= currentTime + DesiredSize + Eps)
        BY <3>1, <3>2, <3>4 DEF EndsAt
      <4> QED
        BY <2>2, <3>1, <4>1, <4>2
    <3> QED
      BY <3>3, <3>4
  <2>4. ASSUME NEW i \in DOMAIN timers
        PROVE  timers[i].at >= end - Eps
    <3>1. timers # <<>> /\ 1 <= i
      BY <2>1
    <3>2. timers[1].at <= timers[i].at
      BY <1>1, <2>3, <3>1 DEF EffectInv, Sorted
    <3>3. end - Eps \in Int
      BY <2>2
    <3> HIDE DEF end
    <3> QED
      BY <2>1, <2>3, <3>1, <3>2, <3>3
  <2> QED
    BY <2>4 DEF TimersFrom
<1>8. GoneInv'
  BY <1>2, <1>3, <1>4, <1>5, <1>6 DEF GoneInv
<1>9. AgeInv'
  <2>1. currentTime' + currentStepSize' = end
    BY <1>2
  <2> HIDE DEF end
  <2>2. TimersFrom((currentTime + currentStepSize) - Eps)'
    BY <1>2, <1>7, <2>1 DEF TimersFrom
  <2>3. currentTime = old.time
    BY <1>1, <1>2 DEF AtHead
  <2>4. NotAhead(localData[1].seen, currentTime)' /\ NotAhead(old.seen, old.time)'
    BY <1>2, <1>4, <1>6, <2>3 DEF AgeInv, NotAhead
  <2>5. NotBehind(localData[1].seen \ accepted.seen, currentTime)'
        /\ NotBehind(old.seen \ accepted.seen, old.time)'
    BY <1>2, <1>3, <1>4 DEF NotBehind
  <2> QED
    BY <1>2, <2>2, <2>4, <2>5 DEF AgeInv
<1>10. PassInv' /\ CrossingInv'
  BY <1>2, <1>6 DEF PassInv, Passing, CrossingInv
<1> QED
  BY <1>5, <1>8, <1>9, <1>10 DEF CourseInv

(* The solver moves time to the end of the step, or to a root before it. *)
LEMMA CourseSolve ==
  ASSUME LoopInv, LoopInv', RunInv, EulerStep \/ DasslStep
  PROVE  ShapeInv' /\ CourseInv'
<1> DEFINE end == currentTime + currentStepSize
<1>1. /\ BaseInv /\ EffectInv /\ TimeInv /\ AtSolve /\ BaseInv' /\ TimeInv' /\ AtUpdate'
  BY DEF LoopInv, PlaceInv
<1>2. /\ pc = "solve" /\ pc' = "update"
      /\ UNCHANGED <<old, timers, nextSampleTimes, activations, model, undone, accepted>>
  BY DEF EulerStep, DasslStep, SolveTo
<1>3. accepted = old /\ localData[1].seen = old.seen /\ currentTime = old.time
      /\ localData[2] = old
  BY <1>1, <1>2 DEF AtSolve, Alike
<1>4. localData'[1].seen = old.seen
  BY <1>1, <1>2 DEF AtUpdate, Alike
<1>5. /\ currentTime \in Int /\ currentStepSize \in Int /\ old.time \in Int /\ Eps \in Nat
      /\ currentTime' \in Int
  BY <1>1, Numbers, Parameters DEF BaseInv
<1>6. old.time <= currentTime'
  BY <1>1, <1>2, <1>5 DEF TimeInv
<1>7. currentTime' <= end /\ (crossing' # 0 => crossings < model.crossings)
  <2>1. CASE EulerStep
    <3>1. PICK root \in Roots(old.time, end) : SolveTo(end, root)
      BY <1>3, <2>1 DEF EulerStep
    <3> QED
      BY <1>5, <3>1 DEF SolveTo, Roots
  <2>2. CASE DasslStep
    <3>1. PICK root \in Roots(currentTime, end) : SolveTo(IF root = 0 THEN end ELSE root, root)
      BY <2>2 DEF DasslStep
    <3> QED
      BY <1>5, <3>1 DEF SolveTo, Roots
  <2> QED
    BY <2>1, <2>2
<1>8. ShapeInv' /\ Consumed' = Consumed
  BY <1>2, NothingGone DEF RunInv
<1>9. GoneInv /\ AgeInv /\ PassInv /\ CrossingInv
  BY DEF RunInv, CourseInv
<1>10. GoneInv'
  BY <1>2, <1>3, <1>4, <1>8, <1>9 DEF GoneInv
<1>11. AgeInv'
  <2>1. /\ activations' = activations /\ \A a \in activations : a.at \in Int
        /\ old.seen \subseteq activations
        /\ \A i \in DOMAIN timers : timers[i] \in activations
    BY <1>1, <1>2 DEF BaseInv, EffectInv
  <2>2. /\ \A a \in old.seen : a.at <= old.time + Eps
        /\ \A i \in DOMAIN timers : timers[i].at >= end - Eps
    <3>1. NotAhead(old.seen, old.time) /\ TimersFrom(end - Eps)
      BY <1>2, <1>9 DEF AgeInv
    <3> QED
      BY <3>1 DEF NotAhead, TimersFrom
  <2>3. end \in Int
    BY <1>5
  <2> HIDE DEF end
  <2>4. \A a \in old.seen : a.at <= currentTime' + Eps
    BY <1>5, <1>6, <2>1, <2>2
  <2>5. \A i \in DOMAIN timers : timers[i].at >= currentTime' - Eps
    BY <1>5, <1>7, <2>1, <2>2, <2>3
  <2>6. TimersFrom(currentTime - Eps)'
    BY <1>2, <2>5 DEF TimersFrom
  <2>7. NotAhead(localData[1].seen, currentTime)' /\ NotAhead(old.seen, old.time)'
    BY <1>2, <1>4, <2>2, <2>4 DEF NotAhead
  <2>8. NotBehind(localData[1].seen \ accepted.seen, currentTime)'
        /\ NotBehind(old.seen \ accepted.seen, old.time)'
    BY <1>2, <1>3, <1>4 DEF NotBehind
  <2> QED
    BY <1>2, <2>6, <2>7, <2>8 DEF AgeInv
<1>12. PassInv'
  BY <1>2, <1>9 DEF PassInv, Passing
<1>13. CrossingInv'
  <2>1. crossings \in 0 .. model.crossings /\ model.crossings \in Nat
    BY <1>1, ModelFacts DEF BaseInv
  <2>2. crossings < model.crossings => model.crossings > 0
    BY <2>1
  <2> QED
    BY <1>2, <1>7, <2>2 DEF CrossingInv
<1> QED
  BY <1>8, <1>10, <1>11, <1>12, <1>13 DEF CourseInv

(* The timers of updateContinuousSystem have their effect in the current slot. *)
LEMMA CourseUpdate ==
  ASSUME LoopInv, RunInv, UpdateContinuousSystem
  PROVE  ShapeInv' /\ CourseInv'
<1> DEFINE n == Cardinality(DueTimers)
<1>1. /\ BaseInv /\ EffectInv /\ AtUpdate /\ ShapeInv
  BY DEF LoopInv, PlaceInv, RunInv
<1>2. /\ pc = "update" /\ pc' = "check" /\ HandleTimers(n, n, localData[1])
      /\ UNCHANGED <<old, currentTime, nextSampleTimes, activations, model, undone,
                     accepted, crossing>>
  BY DEF UpdateContinuousSystem, bounds, histVars
<1>3. timers' = SubSeq(timers, n + 1, Len(timers))
  BY <1>2 DEF HandleTimers
<1>4. /\ n \in 0 .. Len(timers)
      /\ \A a \in Fired(n) : /\ a \in activations /\ a.at <= currentTime + Eps
                             /\ \E i \in DOMAIN timers : a = timers[i]
      /\ timers = <<>> => Fired(n) = {}
  BY <1>1, FiredTimers
<1> HIDE DEF n
<1>5. ShapeInv' /\ Consumed' = Consumed \cup Fired(n) /\ Consumed \cap Fired(n) = {}
  BY <1>1, <1>2, <1>3, <1>4, GonePopped
<1>6. localData'[1].seen = localData[1].seen \cup Fired(n)
  BY <1>1, <1>2, <1>4, BaseTimers
<1>7. /\ \A t : TimersFrom(t) => TimersFrom(t)'
      /\ timers = <<>> => timers' = <<>>
  BY <1>1, <1>3, <1>4, TimersOf
<1>8. localData[1].seen = old.seen
  BY <1>1, <1>2 DEF AtUpdate, Alike
<1>9. GoneInv /\ AgeInv /\ PassInv /\ CrossingInv
  BY DEF RunInv, CourseInv
<1>10. GoneInv'
  <2> DEFINE after == Consumed'
             seen == localData'[1].seen
  <2>1. after = Consumed \cup Fired(n) /\ seen = localData[1].seen \cup Fired(n)
    BY <1>5, <1>6
  <2>2. /\ old.seen \subseteq Consumed /\ undone \subseteq Consumed
        /\ old.seen \cap undone = {}
        /\ accepted.seen \subseteq old.seen
        /\ Consumed = localData[1].seen \cup undone
        /\ localData[1].seen \cap undone = {}
        /\ old.seen \subseteq localData[1].seen
    BY <1>2, <1>9 DEF GoneInv
  <2> HIDE DEF after, seen
  <2>3. /\ old.seen \subseteq after /\ undone \subseteq after
        /\ after = seen \cup undone /\ seen \cap undone = {} /\ old.seen \subseteq seen
    BY <1>5, <2>1, <2>2
  <2> QED
    BY <1>2, <2>2, <2>3 DEF GoneInv, after, seen
<1>11. AgeInv'
  <2>1. /\ accepted.seen = old.seen /\ NotAhead(localData[1].seen, currentTime)
        /\ TimersFrom(currentTime - Eps)
        /\ NotAhead(old.seen, old.time) /\ NotBehind(old.seen \ accepted.seen, old.time)
    BY <1>2, <1>9 DEF AgeInv, GoneInv
  <2> DEFINE seen == localData'[1].seen
  <2>2. seen = localData[1].seen \cup Fired(n)
    BY <1>6
  <2> HIDE DEF seen
  <2>3. NotAhead(seen, currentTime)
    BY <1>4, <2>1, <2>2 DEF NotAhead
  <2>4. NotBehind(seen \ accepted.seen, currentTime)
    <3>1. \A a \in Fired(n) : a.at >= currentTime - Eps
      BY <1>4, <2>1 DEF TimersFrom
    <3> QED
      BY <1>8, <2>1, <2>2, <3>1 DEF NotBehind
  <2>5. TimersFrom(currentTime - Eps)'
    BY <1>2, <1>7, <2>1 DEF TimersFrom
  <2> QED
    BY <1>2, <2>1, <2>3, <2>4, <2>5 DEF AgeInv, NotAhead, NotBehind, seen
<1>12. PassInv' /\ CrossingInv'
  <2>1. timers = <<>> => timers' = <<>> /\ localData'[1].seen = old.seen
    BY <1>4, <1>6, <1>7, <1>8
  <2> QED
    BY <1>2, <1>9, <2>1 DEF PassInv, Passing, CrossingInv
<1> QED
  BY <1>5, <1>10, <1>11, <1>12 DEF CourseInv

(* Going back to a crossing takes no effect along. *)
LEMMA CourseCheck ==
  ASSUME LoopInv, LoopInv', RunInv, CheckEvents
  PROVE  ShapeInv' /\ CourseInv'
<1> DEFINE found == crossing # 0 \/ eventLst
           root == IF crossing # 0 /\ ~model.rootFinding THEN crossing ELSE localData[1].time
           event == found \/ sampleActivated \/ syncRet = 2
<1>1. /\ BaseInv /\ EffectInv /\ TimeInv /\ AtCheck /\ BaseInv' /\ TimeInv'
  BY DEF LoopInv, PlaceInv
<1>2. /\ pc = "check" /\ pc' = (IF event THEN "event" ELSE "finish") /\ crossing' = 0
      /\ currentTime' = IF found THEN root ELSE currentTime
      /\ localData' = IF found THEN [localData EXCEPT ![1] = [localData[1] EXCEPT !.time = root]]
                      ELSE localData
      /\ UNCHANGED <<old, timers, nextSampleTimes, activations, model, undone, accepted>>
  BY DEF CheckEvents, bounds, histVars
<1>3. /\ localData[1].time = currentTime
      /\ crossing # 0 => crossing <= currentTime
  BY <1>1, <1>2 DEF AtCheck, RootIsNew
<1>4. /\ currentTime \in Int /\ crossing \in Int /\ old.time \in Int /\ Eps \in Nat
      /\ currentTime' \in Int
  BY <1>1, Numbers, Parameters DEF BaseInv
<1>5. old.time <= currentTime'
  BY <1>1, <1>2, <1>4 DEF TimeInv
<1>6. /\ currentTime' <= currentTime
      /\ currentTime' # currentTime => crossing # 0 /\ ~model.rootFinding
  BY <1>2, <1>3, <1>4
<1>7. pc' \in {"event", "finish"}
  BY <1>2
<1>8. localData'[1].seen = localData[1].seen
  <2>1. IsSlots(localData) /\ IsSlot(localData[1])
    BY <1>1 DEF BaseInv, IsSlots
  <2> DEFINE slot == [localData[1] EXCEPT !.time = root]
  <2>2. root \in Int
    BY <1>3, <1>4
  <2> HIDE DEF root
  <2>3. IsSlot(slot) /\ slot.seen = localData[1].seen
    BY <2>1, <2>2, SlotMoved
  <2>4. localData' = [localData EXCEPT ![1] = slot] \/ localData' = localData
    BY <1>2
  <2> HIDE DEF slot
  <2> QED
    BY <2>1, <2>3, <2>4, SlotsPut
<1> HIDE DEF found, root, event
<1>9. ShapeInv' /\ Consumed' = Consumed
  BY <1>2, NothingGone DEF RunInv
<1>10. GoneInv /\ AgeInv /\ PassInv /\ CrossingInv
  BY DEF RunInv, CourseInv
<1>11. GoneInv'
  BY <1>2, <1>7, <1>8, <1>9, <1>10 DEF GoneInv
<1>12. AgeInv'
  <2>1. /\ NotAhead(old.seen, old.time) /\ NotBehind(old.seen \ accepted.seen, old.time)
        /\ NotAhead(localData[1].seen, currentTime)
        /\ NotBehind(localData[1].seen \ accepted.seen, currentTime)
        /\ TimersFrom(currentTime - Eps)
    BY <1>2, <1>10 DEF AgeInv
  <2>2. /\ \A a \in activations : a.at \in Int
        /\ old.seen \subseteq activations /\ localData[1].seen \subseteq activations
        /\ \A i \in DOMAIN timers : timers[i].at \in Int
    <3>1. timers \in Seq(activations) /\ \A a \in activations : a.at \in Int
      BY <1>1 DEF BaseInv
    <3>2. old.seen \subseteq activations /\ localData[1].seen \subseteq activations
      BY <1>1 DEF EffectInv
    <3> QED
      BY <3>1, <3>2
  <2>3. NotAhead(localData[1].seen, currentTime')
    <3>1. CASE currentTime' = currentTime
      BY <2>1, <3>1
    <3>2. CASE currentTime' # currentTime
      <4>1. Passing
        BY <1>6, <1>10, <3>2 DEF Passing, CrossingInv
      <4>2. localData[1].seen = old.seen
        BY <1>2, <1>6, <1>10, <3>2, <4>1 DEF PassInv
      <4>3. \A a \in old.seen : a.at <= old.time + Eps
        BY <2>1 DEF NotAhead
      <4>4. \A a \in old.seen : a.at <= currentTime' + Eps
        BY <1>4, <1>5, <2>2, <4>3
      <4> QED
        BY <4>2, <4>4 DEF NotAhead
    <3> QED
      BY <3>1, <3>2
  <2>4. NotBehind(localData[1].seen \ accepted.seen, currentTime')
    <3>1. \A a \in localData[1].seen \ accepted.seen : a.at >= currentTime - Eps
      BY <2>1 DEF NotBehind
    <3>2. \A a \in localData[1].seen \ accepted.seen : a.at >= currentTime' - Eps
      BY <1>4, <1>6, <2>2, <3>1
    <3> QED
      BY <3>2 DEF NotBehind
  <2>5. TimersFrom(currentTime' - Eps)
    <3>1. \A i \in DOMAIN timers : timers[i].at >= currentTime - Eps
      BY <2>1 DEF TimersFrom
    <3>2. \A i \in DOMAIN timers : timers[i].at >= currentTime' - Eps
      BY <1>4, <1>6, <2>2, <3>1
    <3> QED
      BY <3>2 DEF TimersFrom
  <2> QED
    BY <1>2, <1>7, <1>8, <2>1, <2>3, <2>4, <2>5 DEF AgeInv, NotAhead, NotBehind, TimersFrom
<1>13. PassInv' /\ CrossingInv'
  <2>1. Passing => timers = <<>>
    BY <1>2, <1>10 DEF PassInv
  <2> QED
    BY <1>2, <1>7, <2>1 DEF PassInv, Passing, CrossingInv
<1> QED
  BY <1>9, <1>11, <1>12, <1>13 DEF CourseInv

(* handleEvents: the samples that are due have their effect. *)
LEMMA CourseEvents ==
  ASSUME LoopInv, RunInv, AllInOrder, HandleEvents
  PROVE  ShapeInv' /\ CourseInv'
<1> DEFINE active == {Sample(i, nextSampleTimes[i]) : i \in Activated}
           effects == localData[1].seen \cup active
           slot == [localData[1] EXCEPT !.seen = effects]
<1>1. /\ BaseInv /\ EffectInv /\ DueInv /\ AtEvent /\ ShapeInv
  BY DEF LoopInv, PlaceInv, RunInv
<1>2. /\ pc = "event" /\ pc' = "finish"
      /\ localData' = Overwrite(slot) /\ FireBooleanClock
      /\ UNCHANGED <<currentTime, old, crossing, accepted, undone>>
      /\ model' = model
  BY DEF HandleEvents, bounds
<1>3. localData[1].time = currentTime
  BY <1>1, <1>2 DEF AtEvent, RootIsNew
<1>4. localData'[1].seen = effects
  <2>1. IsSlot(localData[1])
    BY <1>1 DEF BaseInv, IsSlots
  <2> HIDE DEF effects
  <2>2. slot.seen = effects
    BY <2>1, SlotSeen
  <2> HIDE DEF slot
  <2> QED
    BY <1>2, <2>2 DEF Overwrite
<1>5. /\ ShapeInv' /\ Consumed' = Consumed \cup active /\ Consumed \cap active = {}
      /\ \A i \in DOMAIN timers' : timers'[i].at = currentTime
                                   \/ \E j \in DOMAIN timers : timers'[i] = timers[j]
  BY <1>1, GoneEvents
<1>6. currentTime \in Int /\ Eps \in Nat
  BY <1>1, Numbers, Parameters
<1>7. \A a \in active : a.at <= currentTime + Eps /\ a.at >= currentTime - Eps
  <2>1. ASSUME NEW i \in Activated
        PROVE  LET a == Sample(i, nextSampleTimes[i])
               IN  a.at <= currentTime + Eps /\ a.at >= currentTime - Eps
    <3>1. i \in Samples /\ nextSampleTimes[i] <= currentTime + Eps
      BY <1>3 DEF Activated
    <3>2. /\ nextSampleTimes[i] \in Nat /\ NextSample <= nextSampleTimes[i]
          /\ NextSample \in Nat
      BY <1>1, <3>1, NextSampleFacts DEF BaseInv
    <3>3. NextSample >= currentTime
      BY <1>1, <1>2 DEF DueInv, SamplesFrom
    <3>4. nextSampleTimes[i] >= currentTime - Eps
      BY <1>6, <3>2, <3>3
    <3> QED
      BY <3>1, <3>4 DEF Sample
  <2> QED
    BY <2>1
<1>8. GoneInv /\ AgeInv /\ PassInv /\ CrossingInv
  BY DEF RunInv, CourseInv
<1> HIDE DEF active, slot
<1>9. GoneInv'
  <2> DEFINE after == Consumed'
             seen == localData'[1].seen
  <2>1. after = Consumed \cup active /\ seen = localData[1].seen \cup active
    BY <1>4, <1>5
  <2>2. /\ old.seen \subseteq Consumed /\ undone \subseteq Consumed
        /\ old.seen \cap undone = {}
        /\ accepted.seen \subseteq old.seen
        /\ Consumed = localData[1].seen \cup undone
        /\ localData[1].seen \cap undone = {}
        /\ old.seen \subseteq localData[1].seen
    BY <1>2, <1>8 DEF GoneInv
  <2> HIDE DEF after, seen
  <2>3. /\ old.seen \subseteq after /\ undone \subseteq after
        /\ after = seen \cup undone /\ seen \cap undone = {} /\ old.seen \subseteq seen
    BY <1>5, <2>1, <2>2
  <2> QED
    BY <1>2, <2>2, <2>3 DEF GoneInv, after, seen
<1>10. AgeInv'
  <2>1. /\ NotAhead(old.seen, old.time) /\ NotBehind(old.seen \ accepted.seen, old.time)
        /\ NotAhead(localData[1].seen, currentTime)
        /\ NotBehind(localData[1].seen \ accepted.seen, currentTime)
        /\ TimersFrom(currentTime - Eps)
    BY <1>2, <1>8 DEF AgeInv
  <2>2. NotAhead(effects, currentTime)
    BY <1>7, <2>1 DEF NotAhead
  <2>3. NotBehind(effects \ accepted.seen, currentTime)
    BY <1>7, <2>1 DEF NotBehind
  <2>4. \A i \in DOMAIN timers' : timers'[i].at >= currentTime - Eps
    <3>1. currentTime >= currentTime - Eps
      BY <1>6
    <3> QED
      BY <1>5, <2>1, <3>1 DEF TimersFrom
  <2> HIDE DEF effects
  <2> QED
    BY <1>2, <1>4, <2>1, <2>2, <2>3, <2>4 DEF AgeInv, NotAhead, NotBehind, TimersFrom
<1>11. PassInv' /\ CrossingInv'
  <2>1. ASSUME Passing
        PROVE  /\ \A i \in DOMAIN timers' : timers'[i].at <= currentTime
               /\ timers' # <<>> => model.throws = 0
    <3>1. timers = <<>>
      BY <1>2, <1>8, <2>1 DEF PassInv
    <3>2. \A i \in DOMAIN timers' : timers'[i].at = currentTime
      BY <1>5, <3>1
    <3>3. timers' # <<>> => model.clock # 0
      BY <1>2, <3>1 DEF FireBooleanClock
    <3>4. model.clock = 0 \/ model.throws = 0
      <4>1. InOrderOfTime(model) /\ model.crossings # 0
        BY <1>1, <2>1, ModelFacts DEF AllInOrder, BaseInv, Passing
      <4> QED
        BY <2>1, <4>1 DEF InOrderOfTime, Passing
    <3> QED
      BY <1>6, <3>2, <3>3, <3>4
  <2> QED
    BY <1>2, <1>8, <2>1 DEF PassInv, Passing, CrossingInv
<1> QED
  BY <1>5, <1>9, <1>10, <1>11 DEF CourseInv

(* The end of simulationUpdate: the slot is stored, and timers may fire again. *)
LEMMA CourseFinish ==
  ASSUME LoopInv, RunInv, NEW selected \in BOOLEAN, FinishUpdate(selected)
  PROVE  ShapeInv' /\ CourseInv'
<1> DEFINE n == Cardinality(DueTimers)
           after == [localData[1] EXCEPT !.seen = localData[1].seen \cup Fired(n)]
<1>1. /\ BaseInv /\ EffectInv /\ TimeInv /\ AtFinish /\ ShapeInv
  BY DEF LoopInv, PlaceInv, RunInv
<1>2. /\ pc = "finish"
      /\ old' = localData[1]
      /\ timers' = SubSeq(timers, n + 1, Len(timers))
      /\ localData' = IF selected THEN <<after, localData[1], localData[1]>>
                      ELSE [localData EXCEPT ![1] = after]
      /\ pc' \in {"emit", "check"}
      /\ UNCHANGED <<currentTime, nextSampleTimes, crossing, model, accepted, activations, undone>>
  BY DEF FinishUpdate
<1>3. localData[1].time = currentTime /\ crossing = 0
  BY <1>1, <1>2 DEF AtFinish
<1>4. /\ n \in 0 .. Len(timers)
      /\ \A a \in Fired(n) : /\ a \in activations /\ a.at <= currentTime + Eps
                             /\ \E i \in DOMAIN timers : a = timers[i]
  BY <1>1, FiredTimers
<1>5. TimersAfter(timers', currentTime)
  BY <1>1, <1>2, DueGone
<1> HIDE DEF n
<1>6. ShapeInv' /\ Consumed' = Consumed \cup Fired(n) /\ Consumed \cap Fired(n) = {}
  BY <1>1, <1>2, <1>4, GonePopped
<1>7. localData'[1].seen = localData[1].seen \cup Fired(n)
  <2>1. IsSlots(localData) /\ IsSlot(localData[1])
    BY <1>1 DEF BaseInv, IsSlots
  <2>2. IsSlot(after) /\ after.seen = localData[1].seen \cup Fired(n)
    BY <2>1, SlotSeen
  <2> HIDE DEF after
  <2>3. localData'[1] = after
    BY <1>2, <2>1, <2>2, SlotsPut, SlotsTuple
  <2> QED
    BY <2>2, <2>3
<1> HIDE DEF after
<1>8. /\ \A t : TimersFrom(t) => TimersFrom(t)'
      /\ \A i \in DOMAIN timers' : \E j \in DOMAIN timers : timers'[i] = timers[j]
  BY <1>1, <1>2, <1>4, TimersOf
<1>9. GoneInv /\ AgeInv /\ PassInv /\ CrossingInv
  BY DEF RunInv, CourseInv
<1>10. GoneInv'
  <2> DEFINE gone == Consumed'
             seen == localData'[1].seen
  <2>1. gone = Consumed \cup Fired(n) /\ seen = localData[1].seen \cup Fired(n)
    BY <1>6, <1>7
  <2>2. /\ undone \subseteq Consumed
        /\ accepted.seen \subseteq old.seen
        /\ Consumed = localData[1].seen \cup undone
        /\ localData[1].seen \cap undone = {}
        /\ old.seen \subseteq localData[1].seen
    BY <1>2, <1>9 DEF GoneInv
  <2> HIDE DEF gone, seen
  <2>3. /\ localData[1].seen \subseteq gone /\ undone \subseteq gone
        /\ accepted.seen \subseteq localData[1].seen
        /\ gone = seen \cup undone /\ seen \cap undone = {} /\ localData[1].seen \subseteq seen
    BY <1>6, <2>1, <2>2
  <2> QED
    BY <1>2, <2>2, <2>3 DEF GoneInv, gone, seen
<1>11. AgeInv'
  <2>1. /\ NotAhead(localData[1].seen, currentTime)
        /\ NotBehind(localData[1].seen \ accepted.seen, currentTime)
        /\ TimersFrom(currentTime - Eps)
    BY <1>2, <1>9 DEF AgeInv
  <2> DEFINE seen == localData'[1].seen
  <2>2. seen = localData[1].seen \cup Fired(n)
    BY <1>7
  <2> HIDE DEF seen
  <2>3. NotAhead(seen, currentTime)
    BY <1>4, <2>1, <2>2 DEF NotAhead
  <2>4. NotBehind(seen \ accepted.seen, currentTime)
    <3>1. \A a \in Fired(n) : a.at >= currentTime - Eps
      BY <1>4, <2>1 DEF TimersFrom
    <3> QED
      BY <2>1, <2>2, <3>1 DEF NotBehind
  <2>5. TimersFrom(currentTime - Eps)'
    BY <1>2, <1>8, <2>1 DEF TimersFrom
  <2> QED
    BY <1>2, <1>3, <2>1, <2>3, <2>4, <2>5 DEF AgeInv, NotAhead, NotBehind, seen
<1>12. PassInv' /\ CrossingInv'
  <2>1. ASSUME Passing
        PROVE  timers' = <<>>
    <3>1. \A i \in DOMAIN timers : timers[i].at <= currentTime /\ timers[i].at \in Int
      BY <1>1, <1>2, <1>9, <2>1 DEF PassInv, BaseInv
    <3>2. \A i \in DOMAIN timers' : timers'[i].at > currentTime
      BY <1>5 DEF TimersAfter
    <3>3. currentTime \in Int
      BY <1>1 DEF BaseInv
    <3>4. ASSUME NEW i \in DOMAIN timers'
          PROVE  FALSE
      <4>1. PICK j \in DOMAIN timers : timers'[i] = timers[j]
        BY <1>8
      <4> QED
        BY <3>1, <3>2, <3>3, <4>1
    <3>5. timers' \in Seq(activations)
      BY <1>1, <1>2, <1>4, Popped DEF BaseInv
    <3>6. DOMAIN timers' = {}
      BY <3>4
    <3> QED
      BY <3>5, <3>6
  <2> QED
    BY <1>2, <1>3, <2>1 DEF PassInv, Passing, CrossingInv
<1> QED
  BY <1>6, <1>10, <1>11, <1>12 DEF CourseInv

(* The loop commits itself to the old values. *)
LEMMA CourseEmit ==
  ASSUME LoopInv, RunInv, NEW input \in BOOLEAN, NEW terminated \in BOOLEAN,
         EmitStep(input, terminated)
  PROVE  ShapeInv' /\ CourseInv'
<1>1. /\ DueInv /\ AtEmit /\ BaseInv
  BY DEF LoopInv, PlaceInv
<1>2. /\ pc = "emit" /\ pc' = "head"
      /\ localData' = IF input THEN Overwrite(localData[1]) ELSE localData
      /\ old' = IF input THEN localData[1] ELSE old
      /\ accepted' = localData[1]
      /\ UNCHANGED <<currentTime, nextSampleTimes, timers, crossing, model, activations, undone>>
  BY DEF EmitStep, eventVars
<1>3. localData[1] = old /\ currentTime = old.time
  BY <1>1, <1>2 DEF AtEmit
<1>4. old' = old /\ accepted' = old /\ localData'[1] = old
  BY <1>2, <1>3 DEF Overwrite
<1>5. ShapeInv' /\ Consumed' = Consumed
  BY <1>2, NothingGone DEF RunInv
<1>6. GoneInv /\ AgeInv /\ PassInv /\ CrossingInv
  BY DEF RunInv, CourseInv
<1>7. GoneInv'
  BY <1>2, <1>3, <1>4, <1>5, <1>6 DEF GoneInv
<1>8. AgeInv'
  <2>1. TimersFrom(currentTime)
    <3>1. \A i \in DOMAIN timers : timers[i].at > currentTime /\ timers[i].at \in Int
      BY <1>1, <1>2 DEF DueInv, TimersAfter, BaseInv
    <3>2. currentTime \in Int
      BY <1>1 DEF BaseInv
    <3>3. \A i \in DOMAIN timers : timers[i].at >= currentTime
      BY <3>1, <3>2
    <3> QED
      BY <3>3 DEF TimersFrom
  <2>2. NotAhead(old.seen, old.time)
    BY <1>2, <1>6 DEF AgeInv
  <2> QED
    BY <1>2, <1>3, <1>4, <2>1, <2>2 DEF AgeInv, NotAhead, NotBehind, TimersFrom
<1>9. PassInv' /\ CrossingInv'
  BY <1>2, <1>6 DEF PassInv, Passing, CrossingInv
<1> QED
  BY <1>5, <1>7, <1>8, <1>9 DEF CourseInv

(* What is done when an assertion fails is lost, and not far ahead. *)
LEMMA CourseThrow ==
  ASSUME LoopInv, RunInv, ThrowInUpdate \/ ThrowInFindRoot \/ ThrowInFinish
  PROVE  ShapeInv' /\ CourseInv'
<1>1. /\ BaseInv /\ EffectInv /\ TimeInv /\ ShapeInv
  BY DEF LoopInv, RunInv
<1>2. /\ pc \in {"update", "check", "finish"} /\ pc' = "catch" /\ throws < model.throws
      /\ UNCHANGED <<currentTime, old, nextSampleTimes, model, accepted, activations, undone,
                     crossing>>
  BY DEF ThrowInUpdate, ThrowInFindRoot, ThrowInFinish, Throw
<1>3. GoneInv /\ AgeInv /\ PassInv /\ CrossingInv /\ FarInv
  BY DEF RunInv, CourseInv
<1> DEFINE Popping(fired) == /\ ShapeInv' /\ Consumed' = Consumed \cup fired
                             /\ \A a \in fired : a \in activations /\ a.at <= currentTime + Eps
                             /\ timers = <<>> => timers' = <<>>
<1>4. \E fired : Popping(fired)
  <2>1. CASE timers' = timers
    <3>1. ShapeInv' /\ Consumed' = Consumed
      BY <1>1, <1>2, <2>1, NothingGone
    <3>2. Popping({})
      BY <2>1, <3>1
    <3> HIDE DEF Popping
    <3> QED
      BY <3>2
  <2>2. ASSUME NEW n \in DueTimers, timers' = SubSeq(timers, n + 1, Len(timers))
        PROVE  Popping(Fired(n))
    <3>1. /\ n \in 0 .. Len(timers)
          /\ \A a \in Fired(n) : a \in activations /\ a.at <= currentTime + Eps
      BY <1>1, FiredTimers
    <3>2. ShapeInv' /\ Consumed' = Consumed \cup Fired(n)
      BY <1>1, <1>2, <2>2, <3>1, GonePopped
    <3>3. timers = <<>> => timers' = <<>>
      BY <1>1, <2>2, <3>1, TimersOf
    <3> QED
      BY <3>1, <3>2, <3>3
  <2>3. timers' = timers \/ \E n \in DueTimers : timers' = SubSeq(timers, n + 1, Len(timers))
    BY DEF ThrowInUpdate, ThrowInFindRoot, ThrowInFinish, HandleTimers
  <2> HIDE DEF Popping
  <2> QED
    BY <2>1, <2>2, <2>3
<1>10. PICK fired : Popping(fired)
  BY <1>4
<1>5. /\ ShapeInv' /\ Consumed' = Consumed \cup fired
      /\ \A a \in fired : a \in activations /\ a.at <= currentTime + Eps
      /\ timers = <<>> => timers' = <<>>
  BY <1>10
<1>6. \A a \in activations : a.at <= currentTime + Eps => a \in Lost(old.time)
  <2>1. (pc # "check" /\ pc # "finish" => pc = "update") /\ pc # "done"
    BY <1>2
  <2>2. currentTime <= old.time + 2 * StepLen + 2 * Eps
    BY <1>2, <1>3, <2>1 DEF FarInv
  <2>3. /\ currentTime \in Int /\ old.time \in Int /\ StepLen \in Nat /\ Eps \in Nat
        /\ \A a \in activations : a.at \in Int
    BY <1>1, Numbers, Parameters DEF BaseInv
  <2>4. \A a \in activations : a.at <= currentTime + Eps => a.at <= old.time + 2 * StepLen + 3 * Eps
    BY <2>2, <2>3
  <2> QED
    BY <2>4 DEF Lost
<1>7. GoneInv'
  <2> DEFINE after == Consumed'
  <2>1. after = Consumed \cup fired
    BY <1>5
  <2>2. /\ old.seen \subseteq Consumed /\ undone \subseteq Consumed
        /\ old.seen \cap undone = {}
        /\ accepted.seen \subseteq old.seen
        /\ Consumed = localData[1].seen \cup undone
    BY <1>2, <1>3 DEF GoneInv
  <2>3. localData[1].seen \subseteq Lost(old.time)
    <3>1. \A a \in localData[1].seen : a.at <= currentTime + Eps
      BY <1>2, <1>3 DEF AgeInv, NotAhead
    <3> QED
      BY <1>1, <1>6, <3>1 DEF EffectInv
  <2>4. fired \subseteq Lost(old.time)
    BY <1>5, <1>6
  <2> HIDE DEF after
  <2>5. /\ old.seen \subseteq after /\ undone \subseteq after
        /\ after \subseteq old.seen \cup undone \cup Lost(old.time)
    BY <2>1, <2>2, <2>3, <2>4
  <2>6. Lost(old.time)' = Lost(old.time)
    BY <1>2 DEF Lost
  <2> QED
    BY <1>2, <2>2, <2>5, <2>6 DEF GoneInv, after
<1>8. AgeInv'
  BY <1>2, <1>3 DEF AgeInv
<1>9. PassInv' /\ CrossingInv'
  <2>1. Passing => timers = <<>>
    <3>1. model.throws \in Nat /\ throws \in Nat
      BY <1>1, Numbers
    <3>2. model.throws # 0
      BY <1>2, <3>1
    <3> QED
      BY <1>2, <1>3, <3>2 DEF PassInv
  <2> QED
    BY <1>2, <1>3, <1>5, <2>1 DEF PassInv, Passing, CrossingInv
<1> QED
  BY <1>5, <1>7, <1>8, <1>9 DEF CourseInv

(* retrySimulationStep gives up what the step had done. *)
LEMMA CourseRetry ==
  ASSUME LoopInv, RunInv, Retry
  PROVE  ShapeInv' /\ CourseInv'
<1>1. /\ BaseInv /\ TimeInv /\ DueInv
  BY DEF LoopInv
<1>2. /\ pc = "catch" /\ pc' = "head"
      /\ localData' = Overwrite(old) /\ currentTime' = old.time
      /\ crossing' = 0 /\ accepted' = old /\ undone' = Consumed \ old.seen
      /\ UNCHANGED <<old, nextSampleTimes, timers, activations>>
      /\ model' = model
  BY DEF Retry, bounds
<1>3. localData'[1] = old
  BY <1>2 DEF Overwrite
<1>4. ShapeInv' /\ Consumed' = Consumed
  BY <1>2, NothingGone DEF RunInv
<1>5. GoneInv /\ AgeInv /\ PassInv /\ CrossingInv
  BY DEF RunInv, CourseInv
<1>6. GoneInv'
  <2>1. old.seen \subseteq Consumed
    BY <1>2, <1>5 DEF GoneInv
  <2> QED
    BY <1>2, <1>3, <1>4, <2>1 DEF GoneInv
<1>7. AgeInv'
  <2>1. TimersFrom(old.time)
    <3>1. throws > 0
      BY <1>1, <1>2 DEF TimeInv, Reached
    <3>2. model.throws > 0 /\ old.time \in Int
      BY <1>1, <3>1, Numbers
    <3>3. \A i \in DOMAIN timers : timers[i].at > old.time /\ timers[i].at \in Int
      BY <1>1, <3>2 DEF DueInv, TimersAfter, BaseInv
    <3>4. \A i \in DOMAIN timers : timers[i].at >= old.time
      BY <3>2, <3>3
    <3> QED
      BY <3>4 DEF TimersFrom
  <2>2. NotAhead(old.seen, old.time)
    BY <1>2, <1>5 DEF AgeInv
  <2> QED
    BY <1>2, <1>3, <2>1, <2>2 DEF AgeInv, NotAhead, NotBehind, TimersFrom
<1>8. PassInv' /\ CrossingInv'
  BY <1>2, <1>5 DEF PassInv, Passing, CrossingInv
<1> QED
  BY <1>4, <1>6, <1>7, <1>8 DEF CourseInv

(* The ways out of the loop, and steps of others. *)
LEMMA CourseEnds ==
  ASSUME LoopInv, RunInv,
         \/ LeaveLoop \/ BreakLoop \/ AbortSlow \/ ThrowInEvent \/ Terminate
         \/ UNCHANGED vars
  PROVE  ShapeInv' /\ CourseInv'
<1>1. GoneInv /\ AgeInv /\ PassInv /\ CrossingInv
  BY DEF RunInv, CourseInv
<1>2. UNCHANGED <<localData, old, currentTime, currentStepSize, timers, nextSampleTimes, crossing,
                  model, accepted, activations, undone>>
  BY DEF LeaveLoop, BreakLoop, AbortSlow, ThrowInEvent, AbortInEvent, Terminate, vars,
         loopVars, timeVars, eventVars, bounds, histVars
<1>3. ShapeInv' /\ Consumed' = Consumed
  BY <1>2, NothingGone DEF RunInv
<1>4. pc' = "done" \/ pc' = pc
  BY DEF LeaveLoop, BreakLoop, AbortSlow, ThrowInEvent, AbortInEvent, Terminate, vars, loopVars
<1>5. GoneInv'
  BY <1>1, <1>2, <1>3, <1>4 DEF GoneInv, Lost
<1>6. AgeInv'
  BY <1>1, <1>2, <1>4 DEF AgeInv, TimersFrom
<1>7. PassInv' /\ CrossingInv'
  BY <1>1, <1>2, <1>4 DEF PassInv, Passing, CrossingInv
<1> QED
  BY <1>3, <1>5, <1>6, <1>7 DEF CourseInv

(* Every step keeps what is known of the activations. *)
LEMMA RunKept ==
  ASSUME LoopInv, LoopInv', RunInv, AllInOrder, [Next]_vars
  PROVE  RunInv'
<1>1. CASE SkipStep
  BY <1>1, CourseSkip, FarKept DEF RunInv
<1>2. CASE NextStep
  BY <1>2, CourseNext, FarKept DEF RunInv
<1>3. CASE EulerStep \/ DasslStep
  BY <1>3, CourseSolve, FarKept DEF RunInv
<1>4. CASE UpdateContinuousSystem
  BY <1>4, CourseUpdate, FarKept DEF RunInv
<1>5. CASE CheckEvents
  BY <1>5, CourseCheck, FarKept DEF RunInv
<1>6. CASE HandleEvents
  BY <1>6, CourseEvents, FarKept DEF RunInv
<1>7. CASE \E selected \in BOOLEAN : FinishUpdate(selected)
  BY <1>7, CourseFinish, FarKept DEF RunInv
<1>8. CASE \E input, terminated \in BOOLEAN : EmitStep(input, terminated)
  BY <1>8, CourseEmit, FarKept DEF RunInv
<1>9. CASE ThrowInUpdate \/ ThrowInFindRoot \/ ThrowInFinish
  BY <1>9, CourseThrow, FarKept DEF RunInv
<1>10. CASE Retry
  BY <1>10, CourseRetry, FarKept DEF RunInv
<1>11. CASE \/ LeaveLoop \/ BreakLoop \/ AbortSlow \/ ThrowInEvent \/ Terminate
            \/ UNCHANGED vars
  BY <1>11, CourseEnds, FarKept DEF RunInv
<1> QED
  BY <1>1, <1>2, <1>3, <1>4, <1>5, <1>6, <1>7, <1>8, <1>9, <1>10, <1>11 DEF Next, Step

(* At the start nothing is gone. *)
LEMMA CourseInit ==
  ASSUME Init, AllInOrder
  PROVE  CourseInv
<1>1. /\ pc = "head" /\ model \in Scenarios /\ currentTime = 0 /\ crossing = 0
      /\ localData = Overwrite(Slot(0, {})) /\ old = Slot(0, {}) /\ accepted = Slot(0, {})
      /\ undone = {} /\ activations = Planned(model)
      /\ nextSampleTimes = [i \in Samples |-> model.samples[i].start]
      /\ timers = [i \in DOMAIN model.ticks |->
                      Tick(i, model.ticks[i].at, model.ticks[i].hold)]
  BY DEF Init
<1>2. /\ localData[1].seen = {} /\ old.seen = {} /\ accepted.seen = {}
  BY <1>1 DEF Overwrite, Slot
<1>3. Consumed = {}
  <2>1. ASSUME NEW a \in activations, a \in Consumed
        PROVE  FALSE
    <3>1. CASE \E i \in DOMAIN model.ticks :
                  a = Tick(i, model.ticks[i].at, model.ticks[i].hold)
      <4>1. \E i \in DOMAIN timers : timers[i] = a
        BY <1>1, <3>1
      <4>2. a.kind = "tick"
        BY <3>1 DEF Tick
      <4> QED
        BY <2>1, <4>1, <4>2 DEF Consumed
    <3>2. CASE \E i \in DOMAIN model.samples, k \in 0 .. Horizon :
                  a = Sample(i, model.samples[i].start + k * model.samples[i].interval)
      <4>1. PICK i \in DOMAIN model.samples, k \in 0 .. Horizon :
                  a = Sample(i, model.samples[i].start + k * model.samples[i].interval)
        BY <3>2
      <4> DEFINE s == model.samples[i].start
                 d == model.samples[i].interval
      <4>2. /\ a.kind = "sample" /\ a.id = i /\ a.at = s + k * d
        BY <4>1 DEF Sample
      <4>3. i \in Samples /\ s \in Nat /\ d \in Nat /\ k \in Nat
        BY <1>1, <4>1, ModelFacts, HorizonIsNat DEF Samples
      <4>4. nextSampleTimes[i] = s
        BY <1>1, <4>3
      <4> HIDE DEF s, d
      <4>5. s + k * d < s
        BY <2>1, <4>2, <4>4 DEF Consumed
      <4>6. k * d \in Nat
        BY <4>3, Products
      <4> QED
        BY <4>3, <4>5, <4>6
    <3> QED
      BY <1>1, <3>1, <3>2 DEF Planned
  <2> QED
    BY <2>1 DEF Consumed
<1>4. GoneInv
  BY <1>1, <1>2, <1>3 DEF GoneInv
<1>5. AgeInv
  <2>1. TimersFrom(currentTime)
    <3>1. \A i \in DOMAIN model.ticks : model.ticks[i].at \in Nat
      BY <1>1, ModelFacts
    <3>2. \A i \in DOMAIN timers : timers[i].at \in Nat
      BY <1>1, <3>1 DEF Tick
    <3>3. \A z \in Nat : z >= 0
      OBVIOUS
    <3>4. \A i \in DOMAIN timers : timers[i].at >= 0
      BY <3>2, <3>3
    <3> QED
      BY <1>1, <3>4 DEF TimersFrom
  <2> QED
    BY <1>1, <1>2, <2>1 DEF AgeInv, NotAhead, NotBehind
<1>6. PassInv
  <2>1. ASSUME Passing
        PROVE  timers = <<>>
    <3>1. InOrderOfTime(model) /\ model.crossings # 0 /\ ~model.rootFinding
      BY <1>1, <2>1, ModelFacts DEF AllInOrder, Passing
    <3>2. model.ticks = <<>>
      BY <3>1 DEF InOrderOfTime
    <3> QED
      BY <1>1, <3>2
  <2> QED
    BY <1>1, <2>1 DEF PassInv
<1>7. CrossingInv
  BY <1>1 DEF CrossingInv
<1> QED
  BY <1>4, <1>5, <1>6, <1>7 DEF CourseInv

(* Under the hypotheses the invariants hold in every state. *)
LEMMA RunInvariance ==
  ASSUME AllRegular, AllInOrder
  PROVE  Spec => [](LoopInv /\ RunInv)
<1>1. Init => LoopInv /\ RunInv
  BY InvInit, ShapeInit, FarInit, CourseInit DEF RunInv
<1>2. LoopInv /\ RunInv /\ [Next]_vars => (LoopInv /\ RunInv)'
  <2>1. LoopInv /\ [Next]_vars => LoopInv'
    BY InvKept
  <2> QED
    BY <2>1, RunKept
<1> QED
  BY <1>1, <1>2, PTL DEF Spec

-----------------------------------------------------------------------------
(* Every step is one of the abstract schedule. *)

\* What the program has still to come to lies ahead.
LEMMA LaterOnes ==
  ASSUME BaseInv, ShapeInv, NEW t \in Int, NextSample > t, TimersAfter(timers, t)
  PROVE  \A a \in activations : a \notin Consumed => a.at > t
<1>1. \A a \in activations : a.at \in Int
  BY DEF BaseInv
<1>2. ASSUME NEW a \in activations, a \notin Consumed
      PROVE  a.at > t
  <2>1. CASE a.kind = "sample"
    <3>1. a.id \in Samples
      BY <2>1, SampleNamed
    <3>2. ~(a.at < nextSampleTimes[a.id])
      BY <1>2, <2>1 DEF Consumed
    <3>3. NextSample \in Nat /\ nextSampleTimes[a.id] \in Nat /\ NextSample <= nextSampleTimes[a.id]
      BY <3>1, NextSampleFacts DEF BaseInv
    <3> QED
      BY <1>1, <3>2, <3>3
  <2>2. CASE a.kind # "sample"
    <3>1. \E i \in DOMAIN timers : timers[i] = a
      BY <1>2, <2>2 DEF Consumed
    <3> QED
      BY <3>1 DEF TimersAfter
  <2> QED
    BY <2>1, <2>2
<1> QED
  BY <1>2

(* A commitment to the old values is an accepted step, if nothing that is due
   then is left and what is given up is lost. *)
LEMMA AcceptsOld ==
  ASSUME LoopInv, RunInv, pc # "done", accepted' = old, activations' = activations,
         NextSample > old.time, TimersAfter(timers, old.time),
         undone \subseteq undone', old.seen \cap undone' = {},
         Consumed = old.seen \cup undone',
         undone' \subseteq undone \cup Lost(old.time)
  PROVE  Sched!Accept(accepted'.time)
<1> DEFINE t == old.time
           given == undone'
<1>1. BaseInv /\ EffectInv /\ TimeInv /\ ShapeInv /\ GoneInv /\ AgeInv
  BY DEF LoopInv, RunInv, CourseInv
<1>2. /\ t \in Int /\ accepted.time \in Int /\ Eps \in Nat /\ StepLen \in Nat /\ currentTime \in Int
      /\ \A a \in activations : a.at \in Int
  BY <1>1, Numbers, Parameters DEF BaseInv
<1>3. accepted'.time = t /\ accepted'.seen = old.seen
  OBVIOUS
<1>4. accepted.time <= t
  BY <1>1, <1>2 DEF TimeInv
<1>5. /\ accepted.seen \subseteq old.seen /\ old.seen \subseteq activations
  BY <1>1 DEF GoneInv, EffectInv
<1>6. /\ \A a \in old.seen : a.at <= t + Eps
      /\ \A a \in old.seen \ accepted.seen : a.at >= t - Eps
  <2>1. NotAhead(old.seen, t) /\ NotBehind(old.seen \ accepted.seen, t)
    BY <1>1 DEF AgeInv
  <2> QED
    BY <2>1 DEF NotAhead, NotBehind
<1>7. \A a \in activations : a \notin Consumed => a.at > t
  BY <1>1, <1>2, LaterOnes
<1> HIDE DEF t, given
<1>8. given \subseteq undone \cup Lost(t) /\ Consumed = old.seen \cup given
      /\ undone \subseteq given /\ old.seen \cap given = {}
  BY DEF given, t
<1>9. \A a \in activations \ (accepted.seen \cup given) : a.at >= t - Eps
  <2>1. ASSUME NEW a \in activations \ (accepted.seen \cup given)
        PROVE  a.at >= t - Eps
    <3>1. CASE a \in old.seen
      BY <1>6, <2>1, <3>1
    <3>2. CASE a \notin old.seen
      <4>1. a.at > t /\ a.at \in Int
        BY <1>2, <1>7, <1>8, <2>1, <3>2
      <4> QED
        BY <1>2, <4>1
    <3> QED
      BY <3>1, <3>2
  <2> QED
    BY <2>1
<1>10. old.seen \subseteq accepted.seen \cup {a \in activations : a.at <= t + Eps}
  BY <1>5, <1>6
<1>11. {a \in activations : a.at <= t} \subseteq old.seen \cup given
  <2>1. ASSUME NEW a \in activations, a.at <= t
        PROVE  a \in Consumed
    <3>1. ~(a.at > t)
      BY <1>2, <2>1
    <3> QED
      BY <1>7, <3>1
  <2> QED
    BY <1>8, <2>1
<1>12. given \subseteq undone \cup {a \in activations : a.at <= t + (2 * StepLen + 3 * Eps)}
  <2>1. \A a \in activations : a.at <= t + 2 * StepLen + 3 * Eps
                               => a.at <= t + (2 * StepLen + 3 * Eps)
    BY <1>2
  <2>2. Lost(t) \subseteq {a \in activations : a.at <= t + (2 * StepLen + 3 * Eps)}
    BY <2>1 DEF Lost
  <2> QED
    BY <1>8, <2>2
<1>13. t >= accepted.time
  BY <1>2, <1>4
<1> QED
  BY <1>3, <1>5, <1>8, <1>9, <1>10, <1>11, <1>12, <1>13 DEF Sched!Accept, Sched!Due, given

(* The other steps commit the loop to nothing. *)
LEMMA SchedulesAlone ==
  ASSUME [Next]_vars
  PROVE  \/ UNCHANGED <<accepted, activations, undone>>
         \/ HandleEvents
         \/ Retry
         \/ \E input, terminated \in BOOLEAN : EmitStep(input, terminated)
<1>1. CASE Step
  BY <1>1 DEF Step, SkipStep, NextStep, LoopHead, LeaveLoop, EulerStep, DasslStep, SolveTo,
     UpdateContinuousSystem, CheckEvents, FinishUpdate, AbortSlow, AbortInEvent,
     Terminate, histVars
<1>2. CASE BreakLoop \/ ThrowInEvent
  BY <1>2 DEF BreakLoop, ThrowInEvent, AbortInEvent, histVars
<1>3. CASE ThrowInUpdate \/ ThrowInFindRoot \/ ThrowInFinish
  BY <1>3 DEF ThrowInUpdate, ThrowInFindRoot, ThrowInFinish, Throw
<1>4. CASE UNCHANGED vars
  BY <1>4 DEF vars, histVars
<1> QED
  BY <1>1, <1>2, <1>3, <1>4 DEF Next

(* Each step of the loop is a step of the schedule, or none. *)
LEMMA StepsSchedule ==
  ASSUME LoopInv, RunInv, [Next]_vars
  PROVE  [Sched!SchedNext]_(Sched!schedVars)
<1>1. /\ BaseInv /\ TimeInv /\ DueInv /\ AtEmit /\ ShapeInv /\ GoneInv
  BY DEF LoopInv, PlaceInv, RunInv, CourseInv
<1>2. CASE UNCHANGED <<accepted, activations, undone>>
  BY <1>2 DEF Sched!schedVars
<1>3. CASE HandleEvents
  <2>1. /\ activations \subseteq activations'
        /\ \A a \in activations' \ activations : a.at = currentTime
    BY <1>1, <1>3, GoneEvents
  <2>2. accepted' = accepted /\ undone' = undone
    BY <1>3 DEF HandleEvents
  <2>3. currentTime >= accepted.time
    BY <1>1, Numbers DEF TimeInv
  <2> QED
    BY <2>1, <2>2, <2>3 DEF Sched!Schedule, Sched!SchedNext
<1>4. CASE Retry
  <2>1. /\ pc = "catch" /\ accepted' = old /\ activations' = activations
        /\ undone' = Consumed \ old.seen
    BY <1>4 DEF Retry
  <2>2. throws > 0
    BY <1>1, <2>1 DEF TimeInv, Reached
  <2>3. model.throws > 0
    BY <1>1, <2>2, Numbers
  <2>4. NextSample > old.time /\ TimersAfter(timers, old.time)
    BY <1>1, <2>3 DEF DueInv
  <2>5. /\ old.seen \subseteq Consumed /\ undone \subseteq Consumed
        /\ old.seen \cap undone = {}
        /\ Consumed \subseteq old.seen \cup undone \cup Lost(old.time)
    BY <1>1, <2>1 DEF GoneInv
  <2>6. /\ undone \subseteq undone' /\ old.seen \cap undone' = {}
        /\ Consumed = old.seen \cup undone'
        /\ undone' \subseteq undone \cup Lost(old.time)
    BY <2>1, <2>5
  <2>7. pc # "done"
    BY <2>1
  <2>8. Sched!Accept(accepted'.time)
    BY <2>1, <2>4, <2>6, <2>7, AcceptsOld
  <2> QED
    BY <2>8 DEF Sched!SchedNext
<1>5. CASE \E input, terminated \in BOOLEAN : EmitStep(input, terminated)
  <2>1. pc = "emit" /\ accepted' = localData[1] /\ activations' = activations /\ undone' = undone
    BY <1>5 DEF EmitStep
  <2>2. localData[1] = old /\ currentTime = old.time
    BY <1>1, <2>1 DEF AtEmit
  <2>3. NextSample > old.time /\ TimersAfter(timers, old.time)
    BY <1>1, <2>1, <2>2 DEF DueInv
  <2>4. Consumed = old.seen \cup undone /\ old.seen \cap undone = {}
    BY <1>1, <2>1, <2>2 DEF GoneInv
  <2>5. /\ undone \subseteq undone' /\ old.seen \cap undone' = {}
        /\ Consumed = old.seen \cup undone'
        /\ undone' \subseteq undone \cup Lost(old.time)
    BY <2>1, <2>4
  <2>6. accepted' = old /\ pc # "done"
    BY <2>1, <2>2
  <2>7. Sched!Accept(accepted'.time)
    BY <2>1, <2>3, <2>5, <2>6, AcceptsOld
  <2> QED
    BY <2>7 DEF Sched!SchedNext
<1> QED
  BY <1>2, <1>3, <1>4, <1>5, SchedulesAlone

(* The main loop implements the schedule: no accepted step jumps over a sample
   or a tick, each has its effect once, in the step that reaches its time, and
   stays; only an assertion may cost it, and then it is not farther ahead than
   two steps of the grid. *)
THEOREM KeepsSchedule ==
  ASSUME AllRegular, AllInOrder
  PROVE  Spec => ImplementsSchedule
<1>1. Init => Sched!SchedInit
  BY DEF Init, Sched!SchedInit, Slot
<1>2. LoopInv /\ RunInv /\ [Next]_vars => [Sched!SchedNext]_(Sched!schedVars)
  BY StepsSchedule
<1> QED
  BY <1>1, <1>2, RunInvariance, PTL DEF Spec, ImplementsSchedule, Sched!SchedSpec
=============================================================================
