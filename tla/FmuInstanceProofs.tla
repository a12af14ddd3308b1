------------------------- MODULE FmuInstanceProofs -------------------------
(***************************************************************************)
(* An FMU (FmuInstance) with any number of samples, for every end time and *)
(* any number of assertions thrown and rounds of an event: types, current  *)
(* derivatives, samples on time, and where fmi2DoStep ends.                *)
(*                                                                         *)
(* Each call is first described by what its outcomes have in common: those *)
(* that compute (Computed), those of an event update (Missed, Updated) and *)
(* those of fmi2ExitInitializationMode.  The invariants are then kept by   *)
(* every action because they are kept by these.                            *)
(***************************************************************************)
EXTENDS FmuInstance, FiniteSetTheorems, WellFoundedInduction, TLAPS

Current(c) == c.needUpdate \/ c.ode \/ c.givenUp

(* All but the time and what has to be computed anew. *)
SameBut(c, d) ==
    /\ d \in Instance
    /\ d.state = c.state /\ d.nextSampleTimes = c.nextSampleTimes
    /\ d.samples = c.samples /\ d.rounds = c.rounds /\ d.activated = c.activated

(* An outcome of a call at time t that computes and no more. *)
Computed(c, t, o) ==
    /\ SameBut(c, o.comp) /\ o.comp.time = t
    /\ o.info = eventInfo
    /\ o.status \in {"fmi2OK", "fmi2Error"}
    /\ o.comp.throws >= c.throws
    /\ o.status # "fmi2OK" => o.comp.throws > c.throws
    /\ Current(c) => Current(o.comp)

(* An assertion leaves all as it was. *)
LEMMA ThrownComputes ==
  ASSUME NEW c \in Instance, NEW o \in Thrown(c)
  PROVE  Computed(c, c.time, o)
<1>1. c.throws \in 0 .. MaxThrows /\ MaxThrows \in Nat
  BY FmuAssumption DEF Instance
<1>2. /\ o.status = "fmi2Error" /\ o.info = eventInfo /\ o.comp = [c EXCEPT !.throws = @ + 1]
      /\ c.throws < MaxThrows
  BY DEF Thrown, Failed, Outcome
<1>3. c.throws + 1 \in 0 .. MaxThrows
  BY <1>1, <1>2
<1>4. o.comp \in Instance /\ o.comp.throws = c.throws + 1
  BY <1>2, <1>3 DEF Instance
<1>5. SameBut(c, o.comp) /\ o.comp.time = c.time /\ Current(c) = Current(o.comp)
  BY <1>2, <1>4 DEF Instance, SameBut, Current
<1>6. o.comp.throws > c.throws /\ o.comp.throws >= c.throws
  BY <1>1, <1>4
<1> QED
  BY <1>2, <1>5, <1>6 DEF Computed

(* A call that returns fmi2OK with an instance that differs in values only. *)
LEMMA DoneComputes ==
  ASSUME NEW c, NEW d, SameBut(c, d), d.throws = c.throws, Current(c) => Current(d)
  PROVE  Computed(c, d.time, Done(d)) /\ Done(d).comp = d /\ Done(d).status = "fmi2OK"
<1>1. Done(d).comp = d /\ Done(d).status = "fmi2OK" /\ Done(d).info = eventInfo
  BY DEF Done, Outcome
<1>2. d.throws >= c.throws
  BY FmuAssumption DEF SameBut, Instance
<1> QED
  BY <1>1, <1>2 DEF Computed

(* functionODE, functionAlgebraics and the initialization change values only. *)
LEMMA FlagsCompute ==
  ASSUME NEW c \in Instance
  PROVE  /\ SameBut(c, c)
         /\ SameBut(c, functionODE(c)) /\ functionODE(c).ode
         /\ functionODE(c).throws = c.throws /\ functionODE(c).time = c.time
         /\ SameBut(c, functionAlgebraics(c)) /\ functionAlgebraics(c).ode = c.ode
         /\ functionAlgebraics(c).needUpdate = c.needUpdate
         /\ functionAlgebraics(c).givenUp = c.givenUp
         /\ functionAlgebraics(c).throws = c.throws /\ functionAlgebraics(c).time = c.time
         /\ SameBut(c, initialization(c)) /\ initialization(c).ode
         /\ initialization(c).throws = c.throws /\ initialization(c).time = c.time
<1>1. /\ SameBut(c, c)
      /\ SameBut(c, functionODE(c)) /\ functionODE(c).ode
      /\ functionODE(c).throws = c.throws /\ functionODE(c).time = c.time
  BY DEF Instance, SameBut, functionODE
<1>2. /\ SameBut(c, functionAlgebraics(c)) /\ functionAlgebraics(c).ode = c.ode
      /\ functionAlgebraics(c).needUpdate = c.needUpdate
      /\ functionAlgebraics(c).givenUp = c.givenUp
      /\ functionAlgebraics(c).throws = c.throws /\ functionAlgebraics(c).time = c.time
  BY DEF Instance, SameBut, functionAlgebraics
<1>3. /\ SameBut(c, initialization(c)) /\ initialization(c).ode
      /\ initialization(c).throws = c.throws /\ initialization(c).time = c.time
  BY DEF Instance, SameBut, initialization
<1> QED
  BY <1>1, <1>2, <1>3

(* So does taking back that an update is needed. *)
LEMMA QuietIsSame ==
  ASSUME NEW c, NEW d \in Instance, SameBut(c, d)
  PROVE  LET e == [d EXCEPT !.needUpdate = FALSE]
         IN SameBut(c, e) /\ e.throws = d.throws /\ e.time = d.time /\ e.ode = d.ode
  BY DEF Instance, SameBut

(* A setter asks for an update, fmi2SetTime also sets the time. *)
LEMMA SettersTouch ==
  ASSUME NEW c \in Instance
  PROVE  /\ SameBut(c, Touched(c)) /\ Touched(c).needUpdate
         /\ Touched(c).throws = c.throws /\ Touched(c).time = c.time
         /\ \A t \in 0 .. Horizon : /\ SameBut(c, fmi2SetTime(c, t)) /\ fmi2SetTime(c, t).needUpdate
                                    /\ fmi2SetTime(c, t).throws = c.throws /\ fmi2SetTime(c, t).time = t
<1>1. /\ SameBut(c, Touched(c)) /\ Touched(c).needUpdate
      /\ Touched(c).throws = c.throws /\ Touched(c).time = c.time
  BY DEF Instance, SameBut, Touched
<1>2. ASSUME NEW t \in 0 .. Horizon
      PROVE  /\ SameBut(c, fmi2SetTime(c, t)) /\ fmi2SetTime(c, t).needUpdate
             /\ fmi2SetTime(c, t).throws = c.throws /\ fmi2SetTime(c, t).time = t
  BY DEF Instance, SameBut, Touched, fmi2SetTime
<1> QED
  BY <1>1, <1>2

(* fmi2GetDerivatives computes and no more. *)
LEMMA Derives ==
  ASSUME NEW c \in Instance, NEW o \in fmi2GetDerivatives(c)
  PROVE  Computed(c, c.time, o)
<1> DEFINE d == functionODE(c)
           e == [d EXCEPT !.needUpdate = FALSE]
<1>1. SameBut(c, d) /\ d \in Instance /\ d.ode /\ d.throws = c.throws /\ d.time = c.time
  BY FlagsCompute DEF SameBut
<1>2. SameBut(c, e) /\ e.throws = c.throws /\ e.time = c.time /\ e.ode
  <2> HIDE DEF d
  <2> QED BY <1>1, QuietIsSame
<1>3. Computed(c, c.time, Done(e))
  <2> HIDE DEF e
  <2> QED BY <1>2, DoneComputes DEF Current
<1>4. Computed(c, c.time, Done(c))
  BY FlagsCompute, DoneComputes
<1>5. o \in Thrown(c) \/ o = Done(e) \/ o = Done(c)
  BY DEF fmi2GetDerivatives
<1> QED
  BY <1>3, <1>4, <1>5, ThrownComputes

(* fmi2GetEventIndicators computes and no more. *)
LEMMA Indicates ==
  ASSUME NEW c \in Instance, NEW o \in fmi2GetEventIndicators(c)
  PROVE  Computed(c, c.time, o)
<1>1. fmi2GetEventIndicators(c) \in {fmi2GetDerivatives(c), {Done(c)}}
  BY DEF fmi2GetEventIndicators, fmi2GetDerivatives
<1>2. Computed(c, c.time, Done(c))
  BY FlagsCompute, DoneComputes
<1> QED
  BY <1>1, <1>2, Derives

(* fmi2CompletedIntegratorStep computes and no more. *)
LEMMA Completes ==
  ASSUME NEW c \in Instance, NEW o \in fmi2CompletedIntegratorStep(c)
  PROVE  Computed(c, c.time, o)
<1>1. Computed(c, c.time, Done(functionAlgebraics(c)))
  BY FlagsCompute, DoneComputes DEF Current
<1> QED
  BY <1>1, ThrownComputes DEF fmi2CompletedIntegratorStep

(* An initialization that fails is not seen by a getter. *)
LEMMA IgnoredComputes ==
  ASSUME NEW c \in Instance, NEW o \in InitializationIgnored(c)
  PROVE  Computed(c, c.time, o) /\ o.status = "fmi2OK"
<1>1. PICK p \in Thrown(c) : o = Done([p.comp EXCEPT !.needUpdate = FALSE, !.ode = FALSE, !.alg = FALSE,
                                                    !.givenUp = TRUE])
  BY DEF InitializationIgnored
<1> DEFINE d == p.comp
           e == [d EXCEPT !.needUpdate = FALSE, !.ode = FALSE, !.alg = FALSE, !.givenUp = TRUE]
<1>2. Computed(c, c.time, p) /\ d \in Instance /\ p.comp = d
  BY ThrownComputes DEF Computed, SameBut
<1>3. o.comp = e /\ o.status = "fmi2OK" /\ o.info = eventInfo
  BY <1>1 DEF Done, Outcome
<1> HIDE DEF d
<1>4. SameBut(d, e) /\ e.throws = d.throws /\ e.time = d.time /\ e.givenUp
  BY <1>2 DEF Instance, SameBut
<1> HIDE DEF e
<1> QED
  BY <1>2, <1>3, <1>4 DEF Computed, SameBut, Current

(* The getters compute and no more, and do not fail. *)
LEMMA Gets ==
  ASSUME NEW c \in Instance, NEW o \in GetValues(c)
  PROVE  Computed(c, c.time, o) /\ o.status = "fmi2OK"
<1> DEFINE d == IF c.state = "InitializationMode" THEN initialization(c)
                ELSE functionAlgebraics(functionODE(c))
           e == [d EXCEPT !.needUpdate = FALSE]
<1>1. SameBut(c, d) /\ d \in Instance /\ d.ode /\ d.throws = c.throws /\ d.time = c.time
  <2>1. functionODE(c) \in Instance
    BY FlagsCompute DEF SameBut
  <2> QED
    BY <2>1, FlagsCompute DEF SameBut
<1>2. SameBut(c, e) /\ e.throws = c.throws /\ e.time = c.time /\ e.ode
  <2> HIDE DEF d
  <2> QED BY <1>1, QuietIsSame
<1>3. Computed(c, c.time, Done(e)) /\ Done(e).status = "fmi2OK"
  <2> HIDE DEF e
  <2> QED BY <1>2, DoneComputes DEF Current
<1>4. Computed(c, c.time, Done(c)) /\ Done(c).status = "fmi2OK"
  BY FlagsCompute, DoneComputes
<1>5. o = Done(e) \/ o = Done(c) \/ o \in InitializationIgnored(c)
  BY DEF GetValues
<1> QED
  <2> HIDE DEF e
  <2> QED BY <1>3, <1>4, <1>5, IgnoredComputes

(* What follows a call that computes at time t, at time u. *)
LEMMA ThenComputes ==
  ASSUME NEW c \in Instance, NEW p, NEW t, NEW u, NEW o,
         Computed(c, t, p), p.status = "fmi2OK", Computed(p.comp, u, o)
  PROVE  Computed(c, u, o)
<1>1. c.throws \in Nat /\ p.comp.throws \in Nat /\ o.comp.throws \in Nat
  BY FmuAssumption DEF Computed, SameBut, Instance
<1>2. o.comp.throws >= c.throws /\ (o.status # "fmi2OK" => o.comp.throws > c.throws)
  BY <1>1 DEF Computed
<1> QED
  BY <1>2 DEF Computed, SameBut

(* One step of fmi2DoStep. *)
LEMMA Integrates ==
  ASSUME comp \in Instance, tNext \in 0 .. Horizon, NEW o \in Integrated
  PROVE  /\ \/ Computed(comp, tNext, o)
            \/ Computed(comp, comp.time, o) /\ o.status # "fmi2OK"
         /\ o.status = "fmi2OK" => Current(o.comp)
<1> DEFINE derived == IF model.states THEN fmi2GetDerivatives(comp) ELSE {Done(comp)}
           moved(c) == fmi2CompletedIntegratorStep(IF model.states THEN fmi2SetContinuousStates(fmi2SetTime(c, tNext))
                                                   ELSE fmi2SetTime(c, tNext))
           first == Then(derived, fmi2GetEventIndicators)
           second == Then(first, moved)
           third == Then(second, fmi2GetEventIndicators)
<1>1. o \in third
  BY DEF Integrated
<1>2. ASSUME NEW p \in derived
      PROVE  Computed(comp, comp.time, p)
  BY Derives, FlagsCompute, DoneComputes
<1>3. ASSUME NEW p \in first
      PROVE  Computed(comp, comp.time, p)
  <2> HIDE DEF derived
  <2>1. CASE p \in derived
    BY <2>1, <1>2
  <2>2. CASE \E q \in derived : q.status = "fmi2OK" /\ p \in fmi2GetEventIndicators(q.comp)
    <3>1. PICK q \in derived : q.status = "fmi2OK" /\ p \in fmi2GetEventIndicators(q.comp)
      BY <2>2
    <3>2. Computed(comp, comp.time, q) /\ q.comp \in Instance /\ q.comp.time = comp.time
      BY <1>2 DEF Computed, SameBut
    <3> QED
      BY <3>1, <3>2, Indicates, ThenComputes
  <2> QED
    BY <2>1, <2>2 DEF Then
<1>4. ASSUME NEW c \in Instance, NEW p \in moved(c)
      PROVE  Computed(c, tNext, p) /\ Current(p.comp)
  <2> DEFINE d == fmi2SetTime(c, tNext)
             e == IF model.states THEN fmi2SetContinuousStates(d) ELSE d
  <2>1. SameBut(c, d) /\ d.needUpdate /\ d.throws = c.throws /\ d.time = tNext /\ d \in Instance
    BY SettersTouch DEF SameBut
  <2>2. SameBut(c, e) /\ e.needUpdate /\ e.throws = c.throws /\ e.time = tNext /\ e \in Instance
    <3> HIDE DEF d
    <3>1. SameBut(d, Touched(d)) /\ Touched(d).needUpdate /\ Touched(d).throws = d.throws /\ Touched(d).time = d.time
      BY <2>1, SettersTouch
    <3> QED BY <2>1, <3>1 DEF fmi2SetContinuousStates, SameBut
  <2>3. p \in fmi2CompletedIntegratorStep(e)
    OBVIOUS
  <2> HIDE DEF d, e, moved
  <2>4. Computed(e, tNext, p)
    BY <2>2, <2>3, Completes
  <2>5. Current(p.comp)
    BY <2>2, <2>4 DEF Computed, Current
  <2>6. Computed(c, tNext, p)
    BY <2>2, <2>4, <2>5 DEF Computed, SameBut
  <2> QED
    BY <2>5, <2>6
<1>5. ASSUME NEW p \in second
      PROVE  \/ Computed(comp, comp.time, p) /\ p.status # "fmi2OK"
             \/ Computed(comp, tNext, p) /\ Current(p.comp)
  <2> HIDE DEF first, moved
  <2>1. CASE p \in first /\ p.status # "fmi2OK"
    BY <2>1, <1>3
  <2>2. CASE \E q \in first : q.status = "fmi2OK" /\ p \in moved(q.comp)
    <3>1. PICK q \in first : q.status = "fmi2OK" /\ p \in moved(q.comp)
      BY <2>2
    <3>2. Computed(comp, comp.time, q) /\ q.comp \in Instance
      BY <1>3 DEF Computed, SameBut
    <3>3. Computed(q.comp, tNext, p) /\ Current(p.comp)
      BY <3>1, <3>2, <1>4
    <3> QED
      BY <3>1, <3>2, <3>3, ThenComputes
  <2> QED
    BY <2>1, <2>2 DEF Then
<1>6. CASE o \in second /\ o.status # "fmi2OK"
  <2> HIDE DEF second
  <2> QED BY <1>6, <1>5
<1>7. CASE \E q \in second : q.status = "fmi2OK" /\ o \in fmi2GetEventIndicators(q.comp)
  <2> HIDE DEF second
  <2>1. PICK q \in second : q.status = "fmi2OK" /\ o \in fmi2GetEventIndicators(q.comp)
    BY <1>7
  <2>2. Computed(comp, tNext, q) /\ Current(q.comp)
    BY <2>1, <1>5
  <2>3. q.comp \in Instance /\ q.comp.time = tNext
    BY <2>2 DEF Computed, SameBut
  <2>4. Computed(q.comp, tNext, o)
    BY <2>1, <2>3, Indicates
  <2>5. Computed(comp, tNext, o)
    BY <2>1, <2>2, <2>4, ThenComputes
  <2> QED
    BY <2>2, <2>4, <2>5 DEF Computed
<1> QED
  <2> HIDE DEF second
  <2> QED BY <1>1, <1>6, <1>7 DEF Then
-----------------------------------------------------------------------------
(* Numbers *)

(* The quotient of an integer and a positive number. *)
LEMMA Division ==
  ASSUME NEW a \in Int, NEW b \in Nat \ {0}
  PROVE  a \div b \in Int /\ (a \div b) * b <= a /\ a < (a \div b) * b + b
  OBVIOUS

(* Every set of natural numbers that is not empty has a least one: with it a
   property of all natural numbers is shown by its least counterexample. *)
LEMMA LeastNatural ==
  ASSUME NEW S, S \subseteq Nat, S # {}
  PROVE  \E n \in S : \A m \in S : n <= m
<1> DEFINE R == {ss \in Nat \X Nat : ss[1] < ss[2]}
<1>1. IsWellFoundedOn(R, Nat)
  BY NatLessThanWellFounded DEF OpToRel
<1> HIDE DEF R
<1>2. PICK n \in S : \A m \in S : ~(<<m, n>> \in R)
  BY <1>1, WFMin
<1>3. ASSUME NEW m \in S
      PROVE  n <= m
  <2>1. ~(<<m, n>> \in R)
    BY <1>2
  <2>2. m \in Nat /\ n \in Nat
    OBVIOUS
  <2>3. <<m, n>>[1] = m /\ <<m, n>>[2] = n
    OBVIOUS
  <2>4. ~(m < n)
    BY <2>1, <2>2 DEF R
  <2> QED
    BY <2>2, <2>4
<1> QED
  BY <1>3

(* Min of a set of natural numbers is its least element. *)
LEMMA MinIsLeast ==
  ASSUME NEW S \in SUBSET Nat, S # {}
  PROVE  Min(S) \in S /\ \A m \in S : Min(S) <= m
  BY LeastNatural DEF Min

-----------------------------------------------------------------------------
Clock == [start : Int, interval : Nat \ {0}]
Typed(c) == c \in Instance /\ c.nextSampleTimes \in [Samples -> Nat]
Infos == [newDiscreteStatesNeeded : BOOLEAN, nextEventTimeDefined : BOOLEAN, nextEventTime : Int]

(* The samples of a model have a start and an interval. *)
LEMMA ModelTyped ==
  ASSUME model \in Models
  PROVE  /\ model.type \in {"ME", "CS"}
         /\ \A i \in Samples : model.samplesInfo[i].start \in Int
                               /\ model.samplesInfo[i].interval \in Nat \ {0}
<1>1. model \in Model
  BY FmuAssumption
<1>2. model.type \in {"ME", "CS"} /\ model.samplesInfo \in Seq(Clock)
  BY <1>1 DEF Model, Clock
<1>3. \A i \in Samples : model.samplesInfo[i] \in Clock
  BY <1>2 DEF Samples
<1> QED
  BY <1>2, <1>3 DEF Clock

(* The next times stay natural numbers. *)
LEMMA AdvancedTyped ==
  ASSUME model \in Models, NEW c, Typed(c), NEW S \in SUBSET Samples
  PROVE  Advanced(c, S) \in [Samples -> Nat]
<1>1. ASSUME NEW i \in Samples
      PROVE  c.nextSampleTimes[i] + model.samplesInfo[i].interval \in Nat
  BY ModelTyped DEF Typed
<1> QED
  BY <1>1 DEF Advanced, Typed

(* An event update that fails, with or without its own catch. *)
Missed(c, o) ==
    /\ o.status = "fmi2Error" /\ o.info = eventInfo
    /\ o.comp \in Instance
    /\ o.comp.state = c.state /\ o.comp.time = c.time
    /\ o.comp.nextSampleTimes = c.nextSampleTimes /\ o.comp.activated = c.activated
    /\ Current(o.comp) /\ o.comp.throws > c.throws

(* What an event update says of the next time event. *)
Announced(next, info) ==
    /\ info.nextEventTimeDefined = (Samples # {})
    /\ Samples # {} => /\ info.nextEventTime \in Nat
                       /\ \E i \in Samples : info.nextEventTime = next[i]
                       /\ \A i \in Samples : info.nextEventTime <= next[i]

(* An event update. *)
Updated(c, o) ==
    /\ o.status = "fmi2OK"
    /\ o.comp \in Instance
    /\ o.comp.state = c.state /\ o.comp.time = c.time /\ o.comp.samples = {}
    /\ o.comp.throws = c.throws
    /\ o.comp.nextSampleTimes = Advanced(c, Active(c))
    /\ o.comp.activated = [i \in Samples |-> IF i \in Active(c) THEN Append(c.activated[i], c.time)
                                             ELSE c.activated[i]]
    /\ o.info \in Infos
    /\ Announced(o.comp.nextSampleTimes, o.info)
    /\ ~o.info.newDiscreteStatesNeeded => o.comp.ode

(* The samples taken are samples of the model. *)
LEMMA ActiveTyped ==
  ASSUME NEW c, Typed(c)
  PROVE  Active(c) \in SUBSET Samples
  BY DEF Typed, Active, Instance

(* What an event update with an assertion leaves. *)
LEMMA FailsToUpdate ==
  ASSUME NEW c, Typed(c), NEW o \in EventUpdateFailed(c, Active(c))
  PROVE  Missed(c, o)
<1>1. PICK p \in Thrown(c) : o = [p EXCEPT !.comp = [Touched(@) EXCEPT !.samples = Active(c)]]
  BY DEF EventUpdateFailed
<1>2. Computed(c, c.time, p) /\ p.status = "fmi2Error" /\ p = [comp |-> p.comp, status |-> p.status, info |-> p.info]
  <2>1. Computed(c, c.time, p)
    BY ThrownComputes DEF Typed
  <2>2. p.status = "fmi2Error" /\ p = [comp |-> p.comp, status |-> p.status, info |-> p.info]
    BY DEF Thrown, Failed, Outcome
  <2> QED
    BY <2>1, <2>2
<1> DEFINE d == Touched(p.comp)
<1>3. SameBut(p.comp, d) /\ d.needUpdate /\ d.throws = p.comp.throws /\ d.time = p.comp.time
  BY <1>2, SettersTouch DEF Computed, SameBut
<1>4. o.comp = [d EXCEPT !.samples = Active(c)] /\ o.status = "fmi2Error" /\ o.info = p.info
  BY <1>1, <1>2
<1> HIDE DEF d
<1>5. /\ o.comp \in Instance /\ o.comp.state = d.state /\ o.comp.time = d.time
      /\ o.comp.nextSampleTimes = d.nextSampleTimes /\ o.comp.activated = d.activated
      /\ o.comp.needUpdate = d.needUpdate /\ o.comp.throws = d.throws
  <2>1. Active(c) \in SUBSET Samples
    BY ActiveTyped
  <2>2. d \in Instance
    BY <1>3 DEF SameBut
  <2> QED
    BY <2>1, <2>2, <1>4 DEF Instance
<1> QED
  BY <1>2, <1>3, <1>4, <1>5 DEF Missed, Computed, SameBut, Current

(* What an event update leaves whose assertion passes its catch. *)
LEMMA EscapesUpdate ==
  ASSUME NEW c, Typed(c), NEW o \in EventUpdateEscaped(c, Active(c))
  PROVE  Missed(c, o) /\ o = [comp |-> o.comp, status |-> o.status, info |-> o.info]
<1>1. PICK p \in Thrown(c) : o = [p EXCEPT !.comp = [@ EXCEPT !.samples = Active(c), !.ode = FALSE,
                                                            !.alg = FALSE, !.givenUp = ~c.needUpdate]]
  BY DEF EventUpdateEscaped
<1>2. Computed(c, c.time, p)
  BY ThrownComputes DEF Typed
<1>3. /\ p.status = "fmi2Error" /\ p = [comp |-> p.comp, status |-> p.status, info |-> p.info]
      /\ p.comp = [c EXCEPT !.throws = @ + 1]
  BY DEF Thrown, Failed, Outcome
<1> DEFINE d == p.comp
<1>4. d \in Instance /\ d.needUpdate = c.needUpdate
  BY <1>2, <1>3 DEF Computed, SameBut, Typed, Instance
<1>5. /\ o.comp = [d EXCEPT !.samples = Active(c), !.ode = FALSE, !.alg = FALSE, !.givenUp = ~c.needUpdate]
      /\ o.status = "fmi2Error" /\ o.info = p.info
      /\ o = [comp |-> o.comp, status |-> o.status, info |-> o.info]
  BY <1>1, <1>3
<1>6. Computed(c, c.time, p) /\ p.comp = d
  BY <1>2
<1> HIDE DEF d
<1>7. /\ o.comp \in Instance /\ o.comp.state = d.state /\ o.comp.time = d.time
      /\ o.comp.nextSampleTimes = d.nextSampleTimes /\ o.comp.activated = d.activated
      /\ o.comp.throws = d.throws /\ o.comp.needUpdate = d.needUpdate
      /\ o.comp.givenUp = ~c.needUpdate
  <2>1. Active(c) \in SUBSET Samples
    BY ActiveTyped
  <2> QED
    BY <2>1, <1>4, <1>5 DEF Instance
<1>8. Current(o.comp)
  BY <1>4, <1>7 DEF Current
<1> QED
  BY <1>3, <1>5, <1>6, <1>7, <1>8 DEF Missed, Computed, SameBut

(* getNextSampleTimeFMU returns the first of the next times. *)
LEMMA NextTimeIsFirst ==
  ASSUME NEW next \in [Samples -> Nat]
  PROVE  /\ getNextSampleTimeFMU(next) \in Int
         /\ Samples # {} => /\ getNextSampleTimeFMU(next) \in Nat
                            /\ \E i \in Samples : getNextSampleTimeFMU(next) = next[i]
                            /\ \A i \in Samples : getNextSampleTimeFMU(next) <= next[i]
<1> DEFINE S == {next[i] : i \in Samples}
<1>1. S \in SUBSET Nat /\ (Samples # {} => S # {})
  OBVIOUS
<1>2. Samples # {} => Min(S) \in S /\ \A m \in S : Min(S) <= m
  BY <1>1, MinIsLeast
<1>3. getNextSampleTimeFMU(next) = IF Samples = {} THEN -1 ELSE Min(S)
  BY DEF getNextSampleTimeFMU
<1>4. \A i \in Samples : next[i] \in S
  OBVIOUS
<1>5. Min(S) \in S => \E i \in Samples : Min(S) = next[i]
  OBVIOUS
<1> HIDE DEF S
<1> QED
  BY <1>1, <1>2, <1>3, <1>4, <1>5

(* What an event update without an assertion leaves. *)
LEMMA UpdatesSamples ==
  ASSUME model \in Models, NEW c, Typed(c), NEW again \in BOOLEAN, again => c.rounds < MaxRounds
  PROVE  Updated(c, EventUpdated(c, Active(c), again))
<1> DEFINE next == Advanced(c, Active(c))
           o == EventUpdated(c, Active(c), again)
           act == [i \in Samples |-> IF i \in Active(c) THEN Append(c.activated[i], c.time)
                                     ELSE c.activated[i]]
           r == IF again THEN c.rounds + 1 ELSE 0
           d == [c EXCEPT !.samples = {}, !.nextSampleTimes = next, !.ode = ~again, !.alg = ~again,
                          !.givenUp = FALSE, !.rounds = IF again THEN @ + 1 ELSE 0,
                          !.activated = [i \in Samples |-> IF i \in Active(c) THEN Append(@[i], c.time)
                                                           ELSE @[i]]]
           e == [c EXCEPT !.samples = {}, !.nextSampleTimes = next, !.ode = ~again, !.alg = ~again,
                          !.givenUp = FALSE, !.rounds = r, !.activated = act]
<1> SUFFICES Updated(c, o)
  OBVIOUS
<1>1. next \in [Samples -> Nat] /\ next \in [Samples -> Int]
  <2>1. next \in [Samples -> Nat]
    BY AdvancedTyped, ActiveTyped
  <2> HIDE DEF next
  <2> QED BY <2>1
<1>2. act \in [Samples -> Seq(Int)]
  <2>1. c.activated \in [Samples -> Seq(Int)] /\ c.time \in Int
    BY DEF Typed, Instance
  <2> QED
    BY <2>1
<1>3. r \in 0 .. MaxRounds
  BY FmuAssumption DEF Typed, Instance
<1>4. d = e
  BY DEF Typed, Instance
<1>5. /\ o.comp = d /\ o.status = "fmi2OK"
      /\ o.info = [newDiscreteStatesNeeded |-> again, nextEventTimeDefined |-> Samples # {},
                   nextEventTime |-> getNextSampleTimeFMU(next)]
  BY DEF EventUpdated, Outcome
<1>6. o.info \in Infos /\ Announced(next, o.info) /\ o.info.newDiscreteStatesNeeded = again
  <2>1. /\ getNextSampleTimeFMU(next) \in Int
        /\ Samples # {} => /\ getNextSampleTimeFMU(next) \in Nat
                           /\ \E i \in Samples : getNextSampleTimeFMU(next) = next[i]
                           /\ \A i \in Samples : getNextSampleTimeFMU(next) <= next[i]
    <3> HIDE DEF next
    <3> QED BY <1>1, NextTimeIsFirst
  <2> HIDE DEF next, o
  <2> QED BY <2>1, <1>5 DEF Infos, Announced
<1>7. /\ e \in Instance /\ e.state = c.state /\ e.time = c.time /\ e.samples = {}
      /\ e.throws = c.throws /\ e.nextSampleTimes = next /\ e.activated = act /\ e.ode = ~again
  <2> HIDE DEF next, act, r
  <2> QED BY <1>1, <1>2, <1>3 DEF Typed, Instance
<1> HIDE DEF o, d, e
<1> QED
  BY <1>4, <1>5, <1>6, <1>7 DEF Updated

(* An event update fails or takes the samples that are due. *)
LEMMA Updates ==
  ASSUME model \in Models, NEW c, Typed(c), NEW o \in fmi2EventUpdate(c)
  PROVE  Missed(c, o) \/ Updated(c, o)
<1>1. \/ o \in EventUpdateFailed(c, Active(c))
      \/ \E again \in BOOLEAN : (again => c.rounds < MaxRounds) /\ o = EventUpdated(c, Active(c), again)
  BY DEF fmi2EventUpdate
<1> QED
  BY <1>1, FailsToUpdate, UpdatesSamples

(* The outcomes of an event update are outcomes. *)
LEMMA UpdatesShape ==
  ASSUME NEW c, NEW o \in fmi2EventUpdate(c)
  PROVE  o = [comp |-> o.comp, status |-> o.status, info |-> o.info]
<1>1. CASE o \in EventUpdateFailed(c, Active(c))
  <2>1. PICK p \in Thrown(c) : o = [p EXCEPT !.comp = [Touched(@) EXCEPT !.samples = Active(c)]]
    BY <1>1 DEF EventUpdateFailed
  <2>2. p = [comp |-> p.comp, status |-> p.status, info |-> p.info]
    BY DEF Thrown, Failed, Outcome
  <2> QED
    BY <2>1, <2>2
<1>2. CASE \E again \in BOOLEAN : o = EventUpdated(c, Active(c), again)
  BY <1>2 DEF EventUpdated, Outcome
<1> QED
  BY <1>1, <1>2 DEF fmi2EventUpdate

(* fmi2NewDiscreteStates is an event update, an assertion clears the event info. *)
LEMMA NewStates ==
  ASSUME model \in Models, NEW c, Typed(c), NEW o \in fmi2NewDiscreteStates(c)
  PROVE  \E p \in fmi2EventUpdate(c) :
            /\ o.comp = p.comp /\ o.status = p.status
            /\ \/ Missed(c, p) /\ o.info = NoEvent
               \/ Updated(c, p) /\ o.info = p.info
<1>1. PICK p \in fmi2EventUpdate(c) : o = [p EXCEPT !.info = IF p.status = "fmi2OK" THEN @ ELSE NoEvent]
  BY DEF fmi2NewDiscreteStates
<1>2. p = [comp |-> p.comp, status |-> p.status, info |-> p.info]
  BY UpdatesShape
<1>3. /\ o.comp = p.comp /\ o.status = p.status
      /\ o.info = IF p.status = "fmi2OK" THEN p.info ELSE NoEvent
  BY <1>1, <1>2
<1>4. Missed(c, p) \/ Updated(c, p)
  BY Updates
<1> QED
  BY <1>3, <1>4 DEF Missed, Updated
-----------------------------------------------------------------------------
(* Initialization *)

(* The first point of sample i that is not before t. *)
FirstTime(i, t) ==
    LET start == model.samplesInfo[i].start
        interval == model.samplesInfo[i].interval
    IN IF t < start THEN start
       ELSE start + ((t - start + interval - 1) \div interval) * interval

(* initSample finds a point that is not before the time, and not an interval after it. *)
LEMMA FirstTimeBounds ==
  ASSUME model \in Models, NEW i \in Samples, NEW t \in Nat
  PROVE  LET start == model.samplesInfo[i].start
             interval == model.samplesInfo[i].interval
             n == FirstTime(i, t)
         IN /\ n \in Nat /\ t <= n /\ start <= n
            /\ \E k \in Nat : n = start + k * interval
            /\ n = start \/ n - interval < t
<1> DEFINE start == model.samplesInfo[i].start
           interval == model.samplesInfo[i].interval
           a == t - start + interval - 1
           q == a \div interval
           p == q * interval
           n == FirstTime(i, t)
<1> SUFFICES /\ n \in Nat /\ t <= n /\ start <= n
             /\ \E k \in Nat : n = start + k * interval
             /\ n = start \/ n - interval < t
  OBVIOUS
<1>1. start \in Int /\ interval \in Nat \ {0}
  BY ModelTyped
<1>2. n = IF t < start THEN start ELSE start + p
  BY DEF FirstTime
<1> HIDE DEF start, interval, n
<1>3. CASE t < start
  <2>1. start = start + 0 * interval
    BY <1>1
  <2> QED
    BY <1>1, <1>2, <1>3, <2>1
<1>4. CASE ~(t < start)
  <2>1. a \in Int
    BY <1>1
  <2>2. q \in Int /\ p <= a /\ a < p + interval
    <3> HIDE DEF a
    <3> QED BY <1>1, <2>1, Division
  <2>3. p \in Int
    <3> HIDE DEF q
    <3> QED BY <1>1, <2>2
  <2>4. p >= t - start /\ p < t - start + interval
    <3> HIDE DEF p
    <3> QED BY <1>1, <2>2, <2>3
  <2>5. q \in Nat
    <3>1. SUFFICES ASSUME q < 0 PROVE FALSE
      BY <2>2
    <3> HIDE DEF q
    <3>2. q <= -1
      BY <2>2, <3>1
    <3>3. q * interval <= -1 * interval
      BY <1>1, <2>2, <3>2
    <3>4. p <= -interval
      BY <1>1, <3>3
    <3> HIDE DEF p
    <3> QED BY <1>1, <1>4, <2>3, <2>4, <3>4
  <2>6. n = start + p
    BY <1>2, <1>4
  <2>7. start + p \in Nat /\ t <= start + p /\ start <= start + p /\ start + p - interval < t
    <3> HIDE DEF p
    <3> QED BY <1>1, <1>4, <2>3, <2>4
  <2> HIDE DEF q
  <2>8. \E k \in Nat : n = start + k * interval
    BY <2>5, <2>6
  <2> HIDE DEF p
  <2>9. n \in Nat /\ t <= n /\ start <= n /\ n - interval < t
    BY <1>1, <2>3, <2>6, <2>7
  <2> QED
    BY <2>8, <2>9
<1> QED
  BY <1>3, <1>4

(* What initialization leaves before the first event update. *)
Started(c, d) ==
    /\ d \in Instance /\ d.state = c.state /\ d.time = c.time
    /\ d.samples = c.samples /\ d.activated = c.activated /\ d.throws = c.throws
    /\ d.nextSampleTimes = [i \in Samples |-> FirstTime(i, c.time)]
    /\ d.nextSampleTimes \in [Samples -> Nat]
    /\ Current(c) => Current(d)
    /\ c.needUpdate => d.ode

(* What initSample leaves. *)
LEMMA InitSampleStarts ==
  ASSUME model \in Models, NEW c \in Instance, NEW b \in Instance,
         SameBut(c, b), b.time = c.time, b.throws = c.throws, Current(c) => Current(b),
         c.needUpdate => b.ode
  PROVE  Started(c, initSample(b))
<1> DEFINE next == [i \in Samples |-> FirstTime(i, c.time)]
           d == [b EXCEPT !.nextSampleTimes = next]
<1>1. c.time \in Nat
  BY FmuAssumption DEF Instance
<1>2. next \in [Samples -> Nat]
  BY <1>1, FirstTimeBounds
<1>3. next \in [Samples -> Int]
  <2> HIDE DEF next
  <2> QED BY <1>2
<1>4. initSample(b) = d
  BY DEF initSample, FirstTime
<1> SUFFICES Started(c, d)
  BY <1>4
<1>5. /\ d \in Instance /\ d.state = b.state /\ d.time = b.time /\ d.samples = b.samples
      /\ d.activated = b.activated /\ d.throws = b.throws /\ d.nextSampleTimes = next
      /\ d.ode = b.ode /\ d.needUpdate = b.needUpdate /\ d.givenUp = b.givenUp
  <2> HIDE DEF next
  <2> QED BY <1>3 DEF Instance
<1> HIDE DEF d
<1> QED
  BY <1>2, <1>5 DEF Started, SameBut, Current

(* The same instance in Event Mode. *)
Entered(d, e) ==
    /\ e \in Instance /\ e.state = "EventMode"
    /\ e.time = d.time /\ e.nextSampleTimes = d.nextSampleTimes /\ e.samples = d.samples
    /\ e.activated = d.activated /\ e.throws = d.throws
    /\ e.ode = d.ode /\ e.needUpdate = d.needUpdate /\ e.givenUp = d.givenUp

(* Setting the mode leaves the rest. *)
LEMMA EntersEventMode ==
  ASSUME NEW c \in Instance
  PROVE  Entered(c, [c EXCEPT !.state = "EventMode"])
  BY DEF Instance, Entered, Mode

(* InEventMode sets the mode of an outcome. *)
LEMMA OutcomeInEventMode ==
  ASSUME NEW o, o.comp \in Instance, o = [comp |-> o.comp, status |-> o.status, info |-> o.info]
  PROVE  /\ Entered(o.comp, InEventMode(o).comp)
         /\ InEventMode(o).status = o.status /\ InEventMode(o).info = o.info
<1>1. /\ InEventMode(o).comp = [o.comp EXCEPT !.state = "EventMode"]
      /\ InEventMode(o).status = o.status /\ InEventMode(o).info = o.info
  BY DEF InEventMode
<1> QED
  BY <1>1, EntersEventMode

(* The outcomes of fmi2ExitInitializationMode: refused, or in Event Mode after an
   assertion, without samples, or after an event update. *)
Refused(c, o) ==
    /\ o.status = "fmi2Error" /\ o.info = eventInfo
    /\ o.comp \in Instance /\ o.comp.state = "Error"
    /\ o.comp.nextSampleTimes = c.nextSampleTimes /\ o.comp.throws = c.throws
    /\ o.comp.samples = c.samples

ExitInterrupted(c, o) ==
    \E p : /\ Computed(c, c.time, p) /\ p.status # "fmi2OK" /\ o.info = p.info
           /\ Entered(p.comp, o.comp) /\ (c.needUpdate => o.comp.needUpdate)
ExitWithoutSamples(c, o) ==
    Samples = {} /\ o.info = eventInfo /\ \E d : Started(c, d) /\ Entered(d, o.comp)
ExitUpdated(c, o) ==
    \E d, p : /\ Started(c, d) /\ (Missed(d, p) \/ Updated(d, p))
              /\ o.info = p.info /\ Entered(p.comp, o.comp)

(* Every outcome of fmi2ExitInitializationMode is one of the four. *)
LEMMA Exits ==
  ASSUME model \in Models, NEW c, Typed(c), NEW o \in ExitInitializationMode(c)
  PROVE  /\ o.status \in {"fmi2OK", "fmi2Error"}
         /\ \/ Refused(c, o)
            \/ ExitInterrupted(c, o)
            \/ ExitWithoutSamples(c, o)
            \/ ExitUpdated(c, o)
<1> DEFINE updated(d) ==
             IF Samples = {} THEN {Done(initSample(d))}
             ELSE {[p EXCEPT !.status = "fmi2OK"] : p \in fmi2EventUpdate(initSample(d))}
                  \cup EventUpdateEscaped(initSample(d), Active(initSample(d)))
           refused == Failed([c EXCEPT !.state = "Error"])
<1>1. c \in Instance
  BY DEF Typed
<1>2. ASSUME NEW b \in Instance, SameBut(c, b), b.time = c.time, b.throws = c.throws,
             Current(c) => Current(b), c.needUpdate => b.ode,
             NEW p \in updated(b), o = InEventMode(p)
      PROVE  /\ o.status \in {"fmi2OK", "fmi2Error"}
             /\ ExitWithoutSamples(c, o) \/ ExitUpdated(c, o)
  <2> DEFINE d == initSample(b)
  <2>1. Started(c, d)
    BY <1>1, <1>2, InitSampleStarts
  <2>2. d \in Instance /\ Typed(d)
    BY <2>1 DEF Started, Typed
  <2>3. CASE Samples = {}
    <3>1. p = Done(d)
      BY <2>3
    <3> HIDE DEF d
    <3>2. p.comp = d /\ p.status = "fmi2OK" /\ p.info = eventInfo
          /\ p = [comp |-> p.comp, status |-> p.status, info |-> p.info]
      BY <3>1 DEF Done, Outcome
    <3>3. Entered(d, o.comp) /\ o.status = "fmi2OK" /\ o.info = eventInfo
      BY <1>2, <2>2, <3>2, OutcomeInEventMode
    <3> QED
      BY <2>1, <2>3, <3>3 DEF ExitWithoutSamples
  <2>4. CASE Samples # {} /\ p \in EventUpdateEscaped(d, Active(d))
    <3> HIDE DEF d
    <3>1. Missed(d, p) /\ p = [comp |-> p.comp, status |-> p.status, info |-> p.info]
      BY <2>2, <2>4, EscapesUpdate
    <3>2. Entered(p.comp, o.comp) /\ o.status = "fmi2Error" /\ o.info = p.info
      BY <1>2, <3>1, OutcomeInEventMode DEF Missed
    <3> QED
      BY <2>1, <3>1, <3>2 DEF ExitUpdated
  <2>5. CASE Samples # {} /\ \E e \in fmi2EventUpdate(d) : p = [e EXCEPT !.status = "fmi2OK"]
    <3>1. PICK e \in fmi2EventUpdate(d) : p = [e EXCEPT !.status = "fmi2OK"]
      BY <2>5
    <3> HIDE DEF d
    <3>2. Missed(d, e) \/ Updated(d, e)
      BY <2>2, <3>1, Updates
    <3>3. e = [comp |-> e.comp, status |-> e.status, info |-> e.info]
      BY <2>2, <3>1, UpdatesShape
    <3>4. p = [comp |-> p.comp, status |-> p.status, info |-> p.info]
          /\ p.comp = e.comp /\ p.status = "fmi2OK" /\ p.info = e.info
      BY <3>1, <3>3
    <3>5. e.comp \in Instance
      BY <3>2 DEF Missed, Updated
    <3>6. Entered(e.comp, o.comp) /\ o.status = "fmi2OK" /\ o.info = e.info
      BY <1>2, <3>4, <3>5, OutcomeInEventMode
    <3> QED
      BY <2>1, <3>2, <3>6 DEF ExitUpdated
  <2> QED
    BY <2>3, <2>4, <2>5
<1>3. CASE o = refused
  <2> DEFINE d == [c EXCEPT !.state = "Error"]
  <2>1. d \in Instance /\ d.state = "Error" /\ d.nextSampleTimes = c.nextSampleTimes /\ d.throws = c.throws
        /\ d.samples = c.samples
    BY <1>1 DEF Instance, Mode
  <2>2. o.comp = d /\ o.status = "fmi2Error" /\ o.info = eventInfo
    BY <1>3 DEF Failed, Outcome
  <2> HIDE DEF d
  <2> QED
    BY <2>1, <2>2 DEF Refused
<1>4. CASE \E p \in Thrown(c) : o = InEventMode(p)
  <2>1. PICK p \in Thrown(c) : o = InEventMode(p)
    BY <1>4
  <2>2. Computed(c, c.time, p)
    BY <1>1, ThrownComputes
  <2>3. p.status = "fmi2Error" /\ p = [comp |-> p.comp, status |-> p.status, info |-> p.info]
        /\ p.comp = [c EXCEPT !.throws = @ + 1]
    BY DEF Thrown, Failed, Outcome
  <2>4. p.comp.needUpdate = c.needUpdate
    BY <1>1, <2>3 DEF Instance
  <2>5. Entered(p.comp, o.comp) /\ o.status = p.status /\ o.info = p.info
    BY <2>1, <2>2, <2>3, OutcomeInEventMode DEF Computed, SameBut
  <2> QED
    BY <2>2, <2>3, <2>4, <2>5 DEF ExitInterrupted, Entered
<1>5. CASE ~c.needUpdate /\ \E p \in updated(c) : o = InEventMode(p)
  <2>1. SameBut(c, c)
    BY <1>1 DEF SameBut
  <2> HIDE DEF updated
  <2> QED
    BY <1>1, <1>2, <1>5, <2>1
<1>6. CASE \E p \in updated(initialization(c)) : o = InEventMode(p)
  <2> DEFINE b == initialization(c)
  <2>1. SameBut(c, b) /\ b \in Instance /\ b.ode /\ b.throws = c.throws /\ b.time = c.time
    BY <1>1, FlagsCompute DEF SameBut
  <2>2. \E p \in updated(b) : o = InEventMode(p)
    BY <1>6
  <2> HIDE DEF b, updated
  <2> QED
    BY <1>2, <2>1, <2>2 DEF Current
<1>7. \/ o = refused
      \/ \E p \in Thrown(c) : o = InEventMode(p)
      \/ ~c.needUpdate /\ \E p \in updated(c) : o = InEventMode(p)
      \/ \E p \in updated(initialization(c)) : o = InEventMode(p)
  BY DEF ExitInitializationMode
<1> QED
  <2>1. CASE o = refused
    BY <2>1, <1>3 DEF Refused
  <2>2. CASE \E p \in Thrown(c) : o = InEventMode(p)
    <3>1. o.status = "fmi2Error"
      BY <2>2 DEF InEventMode, Thrown, Failed, Outcome
    <3> QED
      BY <3>1, <2>2, <1>4
  <2> HIDE DEF refused, updated
  <2> QED BY <1>1, <1>5, <1>6, <1>7, <2>1, <2>2
-----------------------------------------------------------------------------
(* Type correctness *)

Importers == [touched : BOOLEAN, settled : BOOLEAN, from : Nat]
Announcement(info) == info \in Infos /\ (info.nextEventTimeDefined => info.nextEventTime \in Nat)

(* fmi2DoStep is for Co-Simulation and does not pass its communication point. *)
InStep ==
    step.pc # "idle" =>
        /\ model.type = "CS"
        /\ step.tStart \in Nat /\ step.size \in 1 .. Horizon
        /\ tEnd <= Horizon /\ comp.time <= tEnd

TypeInv ==
    /\ model \in Models
    /\ Typed(comp)
    /\ Announcement(eventInfo)
    /\ step \in [pc : {"idle", "iterate", "loop", "settle"}, tStart : Int, size : 0 .. Horizon,
                 zc_event : BOOLEAN, time_event : BOOLEAN]
    /\ importer \in Importers
    /\ ret \in [call : Calls, status : {"fmi2OK", "fmi2Error", "none"}]
    /\ InStep

(* An outcome that is of the right type. *)
Kept(o) == Typed(o.comp) /\ Announcement(o.info) /\ o.status \in {"fmi2OK", "fmi2Error"}

(* The invariant has the types TypeOK asks for. *)
LEMMA TypeInvImplies ==
  TypeInv => TypeOK
<1>1. Typed(comp) => comp.activated \in [Samples -> Seq(Int)] /\ comp \in Instance
  BY DEF Typed, Instance
<1>2. importer \in Importers => importer \in [touched : BOOLEAN, settled : BOOLEAN, from : Int]
  BY DEF Importers
<1> QED
  BY <1>1, <1>2 DEF TypeInv, TypeOK, Announcement, Infos

(* A call that computes keeps the types. *)
LEMMA ComputedIsKept ==
  ASSUME TypeInv, NEW c, Typed(c), NEW t, NEW o, Computed(c, t, o)
  PROVE  Kept(o)
  BY DEF TypeInv, Typed, Computed, SameBut, Kept

(* A call that returns fmi2OK keeps the types. *)
LEMMA DoneIsKept ==
  ASSUME TypeInv, NEW c, Typed(c)
  PROVE  Kept(Done(c))
  BY DEF TypeInv, Kept, Done, Outcome

(* A failed event update keeps the types. *)
LEMMA MissedIsKept ==
  ASSUME TypeInv, NEW c, Typed(c), NEW o, Missed(c, o)
  PROVE  Kept(o)
  BY DEF TypeInv, Typed, Missed, Kept

(* An event update keeps the types. *)
LEMMA UpdatedIsKept ==
  ASSUME TypeInv, NEW c, Typed(c), NEW o, Updated(c, o)
  PROVE  Kept(o)
<1>1. Advanced(c, Active(c)) \in [Samples -> Nat]
  BY AdvancedTyped, ActiveTyped DEF TypeInv
<1>2. Typed(o.comp)
  BY <1>1 DEF Updated, Typed
<1> QED
  BY <1>2 DEF Updated, Kept, Announced, Announcement

(* fmi2NewDiscreteStates keeps the types. *)
LEMMA NewStatesKept ==
  ASSUME TypeInv, NEW o \in fmi2NewDiscreteStates(comp)
  PROVE  Kept(o)
<1>1. PICK p \in fmi2EventUpdate(comp) :
         /\ o.comp = p.comp /\ o.status = p.status
         /\ \/ Missed(comp, p) /\ o.info = NoEvent
            \/ Updated(comp, p) /\ o.info = p.info
  BY NewStates DEF TypeInv
<1>2. Kept(p)
  BY <1>1, MissedIsKept, UpdatedIsKept DEF TypeInv
<1>3. Announcement(NoEvent)
  BY DEF Announcement, NoEvent, Infos
<1> QED
  BY <1>1, <1>2, <1>3 DEF Kept

(* fmi2ExitInitializationMode keeps the types. *)
LEMMA ExitsKept ==
  ASSUME TypeInv, NEW o \in ExitInitializationMode(comp)
  PROVE  Kept(o)
<1>1. o.status \in {"fmi2OK", "fmi2Error"}
  BY Exits DEF TypeInv
<1>2. CASE Refused(comp, o)
  BY <1>1, <1>2 DEF Refused, Kept, Typed, TypeInv
<1>3. CASE ExitInterrupted(comp, o)
  BY <1>1, <1>3 DEF ExitInterrupted, Computed, SameBut, Entered, Kept, Typed, TypeInv
<1>4. CASE ExitWithoutSamples(comp, o)
  BY <1>1, <1>4 DEF ExitWithoutSamples, Started, Entered, Kept, Typed, TypeInv
<1>5. CASE ExitUpdated(comp, o)
  <2>1. PICK d, p : /\ Started(comp, d) /\ (Missed(d, p) \/ Updated(d, p))
                    /\ o.info = p.info /\ Entered(p.comp, o.comp)
    BY <1>5 DEF ExitUpdated
  <2>2. Typed(d)
    BY <2>1 DEF Started, Typed
  <2>3. Kept(p)
    BY <2>1, <2>2, MissedIsKept, UpdatedIsKept
  <2> QED
    BY <1>1, <2>1, <2>3 DEF Kept, Entered, Typed
<1> QED
  BY <1>2, <1>3, <1>4, <1>5, Exits DEF TypeInv

(* fmi2Instantiate leaves an instance of the right type. *)
LEMMA InitTyped ==
  Init => TypeInv
<1> SUFFICES ASSUME Init PROVE TypeInv
  OBVIOUS
<1>1. model \in Models
  BY DEF Init
<1> DEFINE next == [i \in Samples |-> 0]
           act == [i \in Samples |-> <<>>]
<1>2. next \in [Samples -> Nat] /\ next \in [Samples -> Int] /\ act \in [Samples -> Seq(Int)]
  OBVIOUS
<1>3. comp = [state |-> "Instantiated", needUpdate |-> TRUE, time |-> 0,
              nextSampleTimes |-> next, samples |-> {},
              ode |-> FALSE, alg |-> FALSE, rounds |-> 0, throws |-> 0, givenUp |-> FALSE, activated |-> act]
  BY DEF Init
<1>4. Typed(comp)
  <2> HIDE DEF next, act
  <2> QED BY <1>2, <1>3, FmuAssumption DEF Typed, Instance, Mode
<1>5. Announcement(eventInfo)
  BY DEF Init, Announcement, NoEvent, Infos
<1>6. step.pc = "idle" /\ step \in [pc : {"idle", "iterate", "loop", "settle"}, tStart : Int,
                                    size : 0 .. Horizon, zc_event : BOOLEAN, time_event : BOOLEAN]
  BY FmuAssumption DEF Init, Idle
<1>7. /\ importer \in Importers
      /\ ret \in [call : Calls, status : {"fmi2OK", "fmi2Error", "none"}]
  <2>1. importer = [touched |-> TRUE, settled |-> FALSE, from |-> 0]
        /\ ret = [call |-> "fmi2Instantiate", status |-> "fmi2OK"]
    BY DEF Init
  <2> QED
    BY <2>1 DEF Importers, Calls
<1> QED
  BY <1>1, <1>4, <1>5, <1>6, <1>7 DEF TypeInv, InStep


(* A call of the importer that returns. *)
LEMMA ReturnsTyped ==
  ASSUME TypeInv, NEW call \in Calls, NEW S, Returns(call, S), \A o \in S : Kept(o),
         UNCHANGED <<model, step>>, step.pc = "idle", importer' \in Importers
  PROVE  TypeInv'
<1>1. PICK o \in S : comp' = o.comp /\ eventInfo' = o.info /\ ret' = [call |-> call, status |-> o.status]
  BY DEF Returns
<1>2. Kept(o)
  OBVIOUS
<1>3. Typed(comp)'
  <2>1. Typed(o.comp)
    BY <1>2 DEF Kept
  <2> QED
    BY <1>1, <2>1 DEF Typed, Instance, Samples
<1>4. Announcement(eventInfo)'
  BY <1>1, <1>2 DEF Kept, Announcement, Infos
<1>5. ret' \in [call : Calls, status : {"fmi2OK", "fmi2Error", "none"}]
  BY <1>1, <1>2 DEF Kept
<1> QED
  BY <1>3, <1>4, <1>5 DEF TypeInv, InStep, Importers

(* Setting the mode keeps the types. *)
LEMMA StateTyped ==
  ASSUME NEW c, Typed(c), NEW s \in Mode
  PROVE  Typed([c EXCEPT !.state = s])
  BY DEF Typed, Instance

(* Reset keeps the types. *)
LEMMA ResetTyped ==
  ASSUME NEW c, Typed(c)
  PROVE  Typed(Reset(c))
<1> DEFINE next == [i \in Samples |-> 0]
           act == [i \in Samples |-> <<>>]
           d == [c EXCEPT !.time = 0, !.samples = {}, !.nextSampleTimes = next]
           fresh == IF c.state = "Terminated" THEN d ELSE c
           e == [fresh EXCEPT !.state = "Instantiated", !.ode = FALSE, !.alg = FALSE, !.rounds = 0,
                              !.activated = act]
<1>1. next \in [Samples -> Nat] /\ next \in [Samples -> Int] /\ act \in [Samples -> Seq(Int)]
  OBVIOUS
<1>2. 0 \in 0 .. Horizon /\ 0 \in 0 .. MaxRounds
  BY FmuAssumption
<1>3. Typed(d)
  <2> HIDE DEF next
  <2> QED BY <1>1, <1>2 DEF Typed, Instance
<1>4. Typed(fresh)
  <2> HIDE DEF d
  <2> QED BY <1>3
<1>5. Typed(e)
  <2> HIDE DEF fresh, act
  <2> QED BY <1>1, <1>2, <1>4 DEF Typed, Instance, Mode
<1>6. Reset(c) = e
  BY DEF Reset
<1> QED
  BY <1>5, <1>6

(* Outside of fmi2DoStep. *)
LEMMA IdleCalls ==
  ASSUME TypeInv,
         \/ CallEnterInitializationMode \/ CallExitInitializationMode
         \/ CallGetValues \/ CallSetValues \/ CallTerminate \/ CallReset \/ IllegalCall
         \/ ModelExchange
  PROVE  /\ step.pc = "idle" /\ step' = step /\ model' = model
         /\ \E call \in Calls \ {"fmi2DoStep"} : \E S : Returns(call, S)
<1>1. CASE \/ CallEnterInitializationMode \/ CallExitInitializationMode
           \/ CallGetValues \/ CallSetValues \/ CallTerminate \/ CallReset \/ IllegalCall
  BY <1>1 DEF CallEnterInitializationMode, CallExitInitializationMode, CallGetValues,
              CallSetValues, CallTerminate, CallReset, IllegalCall, Calls
<1>2. CASE ModelExchange
  <2>1. step.pc = "idle"
    BY <1>2 DEF ModelExchange, CallNewDiscreteStates, CallEnterContinuousTimeMode, CallEnterEventMode,
              CallSetTime, CallSetContinuousStates, CallGetDerivatives, CallCompletedIntegratorStep,
              Integrating, TypeInv, InStep
  <2> QED
    BY <1>2, <2>1 DEF ModelExchange, CallNewDiscreteStates, CallEnterContinuousTimeMode, CallEnterEventMode,
              CallSetTime, CallSetContinuousStates, CallGetDerivatives, CallCompletedIntegratorStep, Calls
<1> QED
  BY <1>1, <1>2

(* Every call of the importer that returns at once keeps the types. *)
LEMMA IdleStepTyped ==
  ASSUME TypeInv,
         \/ CallEnterInitializationMode \/ CallExitInitializationMode
         \/ CallGetValues \/ CallSetValues \/ CallTerminate \/ CallReset \/ IllegalCall
         \/ ModelExchange
  PROVE  TypeInv'
<1>1. Typed(comp) /\ comp \in Instance /\ importer \in Importers /\ comp.time \in Nat
  BY FmuAssumption DEF TypeInv, Typed, Instance
<1>2. SameBut(comp, comp)
  BY <1>1 DEF SameBut
<1>3. \A s \in Mode : Kept(Done([comp EXCEPT !.state = s])) /\ Kept(Failed([comp EXCEPT !.state = s]))
  <2> TAKE s \in Mode
  <2>1. Typed([comp EXCEPT !.state = s])
    BY <1>1, StateTyped
  <2> QED
    BY <2>1 DEF TypeInv, Kept, Done, Failed, Outcome
<1>4. Kept(Done(Touched(comp)))
  <2>1. Typed(Touched(comp))
    BY <1>1, SettersTouch DEF SameBut, Typed
  <2> QED
    BY <2>1, DoneIsKept
<1>5. CASE CallEnterInitializationMode
  <2> DEFINE d == EnterInitializationMode(comp)
  <2>1. Typed(d)
    BY <1>1 DEF EnterInitializationMode, Typed, Instance, Mode
  <2>2. Kept(Done(d))
    <3> HIDE DEF d
    <3> QED BY <2>1, DoneIsKept
  <2> QED
    BY <1>1, <1>5, <2>2, ReturnsTyped DEF CallEnterInitializationMode, Calls
<1>6. CASE CallExitInitializationMode
  <2>1. importer' \in Importers
    BY <1>1, <1>6 DEF CallExitInitializationMode, Importers
  <2> QED
    BY <1>6, <2>1, ExitsKept, ReturnsTyped DEF CallExitInitializationMode, Calls
<1>7. CASE CallGetValues
  <2>1. \A o \in GetValues(comp) : Kept(o)
    BY <1>1, Gets, ComputedIsKept
  <2> QED
    BY <1>1, <1>7, <2>1, ReturnsTyped DEF CallGetValues, Calls
<1>8. CASE CallSetValues
  <2>1. importer' \in Importers
    BY <1>1, <1>8 DEF CallSetValues, Importers
  <2> QED
    BY <1>4, <1>8, <2>1, ReturnsTyped DEF CallSetValues, SetValues, Calls
<1>9. CASE CallTerminate
  BY <1>1, <1>3, <1>9, ReturnsTyped DEF CallTerminate, Calls, Mode
<1>10. CASE CallReset
  <2>1. importer' \in Importers
    BY <1>10 DEF CallReset, Importers
  <2>2. Kept(Done(Reset(comp)))
    BY <1>1, ResetTyped, DoneIsKept
  <2> QED
    BY <1>10, <2>1, <2>2, ReturnsTyped DEF CallReset, Calls
<1>11. CASE IllegalCall
  BY <1>1, <1>3, <1>11, ReturnsTyped DEF IllegalCall, Calls, Mode
<1>12. CASE CallNewDiscreteStates
  <2>1. importer' \in Importers
    BY <1>1, <1>12 DEF CallNewDiscreteStates, Importers
  <2> QED
    BY <1>12, <2>1, NewStatesKept, ReturnsTyped DEF CallNewDiscreteStates, Calls
<1>13. CASE CallEnterContinuousTimeMode
  <2>1. importer' \in Importers
    BY <1>1, <1>13 DEF CallEnterContinuousTimeMode, Importers
  <2>2. Kept(Done([comp EXCEPT !.state = "ContinuousTimeMode"]))
    BY <1>3 DEF Mode
  <2>3. "fmi2EnterContinuousTimeMode" \in Calls
    BY DEF Calls
  <2> QED
    BY <1>13, <2>1, <2>2, <2>3, ReturnsTyped DEF CallEnterContinuousTimeMode
<1>14. CASE CallEnterEventMode
  <2>1. importer' \in Importers
    BY <1>1, <1>14 DEF CallEnterEventMode, Importers
  <2>2. Kept(Done([comp EXCEPT !.state = "EventMode"]))
    BY <1>3 DEF Mode
  <2>3. "fmi2EnterEventMode" \in Calls
    BY DEF Calls
  <2> QED
    BY <1>14, <2>1, <2>2, <2>3, ReturnsTyped DEF CallEnterEventMode, Integrating
<1>15. CASE CallSetTime
  <2>1. importer' \in Importers
    BY <1>1, <1>15 DEF CallSetTime, Importers
  <2>2. \A t \in 0 .. Horizon : Kept(Done(fmi2SetTime(comp, t)))
    BY <1>1, SettersTouch, DoneIsKept DEF SameBut, Typed
  <2>3. 0 \in 0 .. Horizon /\ \A t \in importer.from .. Horizon : t \in 0 .. Horizon
    BY <1>1, FmuAssumption DEF Importers
  <2>4. PICK t \in 0 .. Horizon : Returns("fmi2SetTime", {Done(fmi2SetTime(comp, t))})
    BY <1>15, <2>3 DEF CallSetTime
  <2>5. UNCHANGED <<model, step>> /\ step.pc = "idle"
    BY <1>15 DEF CallSetTime, Integrating, TypeInv, InStep
  <2> QED
    BY <2>1, <2>2, <2>4, <2>5, ReturnsTyped DEF Calls
<1>16. CASE CallSetContinuousStates
  BY <1>1, <1>4, <1>16, ReturnsTyped
     DEF CallSetContinuousStates, fmi2SetContinuousStates, Integrating, Calls
<1>17. CASE CallGetDerivatives
  <2>1. \A o \in fmi2GetDerivatives(comp) \cup fmi2GetEventIndicators(comp) : Kept(o)
    BY <1>1, Derives, Indicates, ComputedIsKept
  <2> QED
    BY <1>1, <1>17, <2>1, ReturnsTyped DEF CallGetDerivatives, Calls
<1>18. CASE CallCompletedIntegratorStep
  <2>1. importer' \in Importers
    BY <1>1, <1>18 DEF CallCompletedIntegratorStep, Importers
  <2>2. \A o \in fmi2CompletedIntegratorStep(comp) : Kept(o)
    BY <1>1, Completes, ComputedIsKept
  <2> QED
    BY <1>18, <2>1, <2>2, ReturnsTyped DEF CallCompletedIntegratorStep, Integrating, Calls
<1> QED
  BY <1>5, <1>6, <1>7, <1>8, <1>9, <1>10, <1>11, <1>12, <1>13, <1>14, <1>15, <1>16, <1>17, <1>18
     DEF ModelExchange

(* The next communication point. *)
LEMMA PointIsAhead ==
  ASSUME TypeInv, step.pc = "loop", comp.time < tEnd
  PROVE  Point \in 0 .. Horizon /\ Point <= tEnd /\ comp.time < Point
<1> DEFINE q == (comp.time - step.tStart) \div step.size
           t == comp.time
           s == step.tStart
           z == step.size
<1>1. t \in Nat /\ s \in Nat /\ z \in Nat \ {0} /\ Horizon \in Nat /\ tEnd <= Horizon /\ tEnd = s + z /\ t < tEnd
  BY FmuAssumption DEF TypeInv, InStep, Typed, Instance, tEnd
<1>2. q \in Int /\ t - s < q * z + z
  <2> DEFINE a == t - s
  <2>1. a \in Int
    BY <1>1
  <2>2. q = a \div z
    OBVIOUS
  <2> HIDE DEF a, z, q
  <2>3. q \in Int /\ a < q * z + z
    BY <1>1, <2>1, <2>2, Division
  <2> QED
    BY <2>3 DEF a
<1>3. tCommunication = s + (q + 1) * z
  BY DEF tCommunication
<1> HIDE DEF q, t, s, z
<1>4. (q + 1) * z = q * z + z /\ q * z \in Int
  BY <1>1, <1>2
<1> DEFINE p == q * z
<1>5. tCommunication = s + p + z /\ p \in Int /\ t - s < p + z
  <2>1. p \in Int /\ t - s < p + z /\ (q + 1) * z = p + z
    BY <1>2, <1>4
  <2> HIDE DEF p
  <2> QED BY <1>1, <1>3, <2>1
<1> HIDE DEF p
<1>6. tCommunication \in Int /\ t < tCommunication
  BY <1>1, <1>5
<1>7. Point = IF tCommunication > tEnd THEN tEnd ELSE tCommunication
  BY DEF Point
<1> QED
  <2> SUFFICES Point \in 0 .. Horizon /\ Point <= tEnd /\ t < Point
    BY DEF t
  <2>1. tEnd \in Int
    BY <1>1
  <2> QED
    BY <1>1, <1>6, <1>7, <2>1

(* An Euler step goes to the time event or to the communication point. *)
LEMMA NextIsAhead ==
  ASSUME TypeInv, step.pc = "loop", comp.time < tEnd
  PROVE  tNext \in 0 .. Horizon /\ tNext <= tEnd
<1>1. Point \in 0 .. Horizon /\ Point <= tEnd /\ Horizon \in Nat
  BY PointIsAhead, FmuAssumption
<1>2. tEnd \in Int
  BY DEF tEnd, TypeInv, InStep
<1>3. CASE TimeEvent
  <2>1. eventInfo.nextEventTime \in Nat /\ eventInfo.nextEventTime <= Point
    BY <1>3 DEF TimeEvent, TypeInv, Announcement
  <2>2. tNext = eventInfo.nextEventTime
    BY <1>3 DEF tNext
  <2> QED
    BY <1>1, <1>2, <2>1, <2>2
<1>4. CASE ~TimeEvent
  BY <1>1, <1>4 DEF tNext
<1> QED
  BY <1>3, <1>4

(* The call of fmi2DoStep keeps the types. *)
LEMMA DoStepTyped ==
  ASSUME TypeInv, \E size \in 1 .. Horizon : DoStep(size)
  PROVE  TypeInv'
<1>1. PICK size \in 1 .. Horizon : DoStep(size)
  OBVIOUS
<1>2. /\ model.type = "CS" /\ comp.time + size <= Horizon /\ model' = model /\ importer' = importer /\ ret' = ret
      /\ step' = [Idle EXCEPT !.pc = "iterate", !.tStart = comp.time, !.size = size]
      /\ comp' = [comp EXCEPT !.state = "EventMode", !.rounds = 0]
      /\ eventInfo' = [NoEvent EXCEPT !.newDiscreteStatesNeeded = TRUE]
  BY <1>1 DEF DoStep
<1>3. Typed(comp) /\ comp.time \in Nat /\ Horizon \in Nat
  BY FmuAssumption DEF TypeInv, Typed, Instance
<1>4. Typed(comp') /\ comp'.time = comp.time
  <2>1. 0 \in 0 .. MaxRounds
    BY FmuAssumption
  <2> QED
    BY <1>2, <1>3, <2>1 DEF Typed, Instance, Mode
<1>5. Typed(comp)'
  BY <1>2, <1>4 DEF Typed, Instance, Samples
<1>6. Announcement(eventInfo)'
  <2>1. eventInfo' = [newDiscreteStatesNeeded |-> TRUE, nextEventTimeDefined |-> FALSE, nextEventTime |-> 0]
    BY <1>2 DEF NoEvent
  <2> QED
    BY <2>1 DEF Announcement, Infos
<1>7. step' = [pc |-> "iterate", tStart |-> comp.time, size |-> size, zc_event |-> FALSE, time_event |-> FALSE]
  BY <1>2 DEF Idle
<1>8. step' \in [pc : {"idle", "iterate", "loop", "settle"}, tStart : Int, size : 0 .. Horizon,
                 zc_event : BOOLEAN, time_event : BOOLEAN]
  BY <1>3, <1>7
<1>9. InStep'
  BY <1>1, <1>2, <1>3, <1>4, <1>7 DEF InStep, tEnd
<1> QED
  BY <1>2, <1>5, <1>6, <1>8, <1>9 DEF TypeInv

(* What fmi2EventIteration may do. *)
Iterates(o, p) ==
    /\ o \in fmi2NewDiscreteStates(comp) /\ eventInfo' = o.info
    /\ \/ /\ o.info.newDiscreteStatesNeeded
          /\ comp' = o.comp
          /\ UNCHANGED <<step, ret>>
       \/ /\ ~o.info.newDiscreteStatesNeeded
          /\ Computed(o.comp, o.comp.time, p)
          /\ \/ /\ p.status = "fmi2OK"
                /\ comp' = [p.comp EXCEPT !.state = "ContinuousTimeMode"]
                /\ step' = [step EXCEPT !.pc = "loop"]
                /\ UNCHANGED ret
             \/ /\ p.status # "fmi2OK"
                /\ comp' = p.comp
                /\ Return("fmi2Error")

(* Every step of fmi2EventIteration is one of them. *)
LEMMA IterationCases ==
  ASSUME TypeInv, EventIteration
  PROVE  /\ step.pc \in {"iterate", "settle"} /\ UNCHANGED <<model, importer>>
         /\ \E o, p : Iterates(o, p)
<1>1. PICK o \in fmi2NewDiscreteStates(comp) :
         /\ eventInfo' = o.info
         /\ \/ /\ o.info.newDiscreteStatesNeeded
               /\ comp' = o.comp
               /\ UNCHANGED <<step, ret>>
            \/ /\ ~o.info.newDiscreteStatesNeeded
               /\ \E p \in IF step.pc = "settle" THEN fmi2GetEventIndicators(o.comp) ELSE {Done(o.comp)} :
                     \/ /\ p.status = "fmi2OK"
                        /\ comp' = [p.comp EXCEPT !.state = "ContinuousTimeMode"]
                        /\ step' = [step EXCEPT !.pc = "loop"]
                        /\ UNCHANGED ret
                     \/ /\ p.status # "fmi2OK"
                        /\ comp' = p.comp
                        /\ Return("fmi2Error")
  BY DEF EventIteration
<1>2. o.comp \in Instance
  BY NewStatesKept DEF Kept, Typed
<1>3. ASSUME NEW p \in IF step.pc = "settle" THEN fmi2GetEventIndicators(o.comp) ELSE {Done(o.comp)}
      PROVE  Computed(o.comp, o.comp.time, p)
  BY <1>2, Indicates, FlagsCompute, DoneComputes
<1>4. \E p : Iterates(o, p)
  BY <1>1, <1>3 DEF Iterates
<1> QED
  BY <1>4 DEF EventIteration

Steps == [pc : {"idle", "iterate", "loop", "settle"}, tStart : Int, size : 0 .. Horizon,
          zc_event : BOOLEAN, time_event : BOOLEAN]

(* fmi2DoStep goes on at pc. *)
StepTo(s, pc) == s \in Steps /\ s.pc = pc /\ s.tStart = step.tStart /\ s.size = step.size
StepAt(pc) == [step EXCEPT !.pc = pc]
StepWith(z, e, pc) == [step EXCEPT !.zc_event = z, !.time_event = e, !.pc = pc]

(* Going on at another point keeps the locals of fmi2DoStep. *)
LEMMA PcTyped ==
  ASSUME TypeInv, NEW pc \in {"idle", "iterate", "loop", "settle"}
  PROVE  /\ StepTo(StepAt(pc), pc)
         /\ \A z, e \in BOOLEAN : StepTo(StepWith(z, e, pc), pc)
<1>1. StepTo(StepAt(pc), pc)
  BY DEF TypeInv, Steps, StepTo, StepAt
<1>2. ASSUME NEW z \in BOOLEAN, NEW e \in BOOLEAN
      PROVE  StepTo(StepWith(z, e, pc), pc)
  BY DEF TypeInv, Steps, StepTo, StepWith
<1> QED
  BY <1>1, <1>2

(* The return of fmi2DoStep. *)
LEMMA ReturnTyped ==
  ASSUME TypeInv, NEW status \in {"fmi2OK", "fmi2Error"}, Return(status)
  PROVE  /\ StepTo(step', "idle")
         /\ ret' = [call |-> "fmi2DoStep", status |-> status]
         /\ ret' \in [call : Calls, status : {"fmi2OK", "fmi2Error", "none"}]
<1>1. step' = StepAt("idle") /\ ret' = [call |-> "fmi2DoStep", status |-> status]
  BY DEF Return, StepAt
<1>2. ret' \in [call : Calls, status : {"fmi2OK", "fmi2Error", "none"}]
  BY <1>1 DEF Calls
<1> QED
  BY <1>1, <1>2, PcTyped

(* A step within fmi2DoStep keeps the types. *)
LEMMA InnerStepTyped ==
  ASSUME TypeInv, step.pc # "idle", model' = model, importer' = importer,
         Typed(comp'), Announcement(eventInfo)',
         comp'.time = comp.time \/ comp'.time <= tEnd,
         NEW pc, StepTo(step', pc),
         ret' \in [call : Calls, status : {"fmi2OK", "fmi2Error", "none"}]
  PROVE  TypeInv'
<1>1. Typed(comp)'
  BY DEF Typed, Instance, Samples
<1>2. InStep'
  BY DEF TypeInv, InStep, tEnd, StepTo
<1> QED
  BY <1>1, <1>2 DEF TypeInv, StepTo, Steps

(* fmi2EventIteration keeps the types. *)
LEMMA IterationTyped ==
  ASSUME TypeInv, EventIteration
  PROVE  TypeInv'
<1>1. PICK o, p : Iterates(o, p)
  BY IterationCases
<1>2. /\ step.pc \in {"iterate", "settle"} /\ step.pc # "idle" /\ model' = model /\ importer' = importer
      /\ eventInfo' = o.info /\ o \in fmi2NewDiscreteStates(comp)
  BY <1>1, IterationCases DEF Iterates
<1>3. Kept(o) /\ o.comp.time = comp.time
  <2>1. Kept(o)
    BY <1>2, NewStatesKept
  <2>2. o.comp.time = comp.time
    <3>1. Typed(comp) /\ model \in Models
      BY DEF TypeInv
    <3>2. PICK q \in fmi2EventUpdate(comp) : /\ o.comp = q.comp /\ o.status = q.status
                                             /\ \/ Missed(comp, q) /\ o.info = NoEvent
                                                \/ Updated(comp, q) /\ o.info = q.info
      BY <1>2, <3>1, NewStates
    <3> QED
      BY <3>2 DEF Missed, Updated
  <2> QED
    BY <2>1, <2>2
<1>4. Announcement(eventInfo)'
  BY <1>2, <1>3 DEF Kept, Announcement, Infos
<1>5. CASE o.info.newDiscreteStatesNeeded
  <2>1. Typed(comp') /\ comp'.time = comp.time /\ step' = step /\ ret' = ret
    BY <1>1, <1>3, <1>5 DEF Iterates, Kept
  <2>2. StepTo(step', step.pc)
    BY <2>1 DEF StepTo, TypeInv, Steps
  <2> QED
    BY <1>2, <1>4, <2>1, <2>2, InnerStepTyped DEF TypeInv
<1>6. CASE ~o.info.newDiscreteStatesNeeded
  <2>1. Computed(o.comp, o.comp.time, p) /\ Typed(p.comp) /\ p.comp.time = comp.time
    BY <1>1, <1>3, <1>6 DEF Iterates, Computed, SameBut, Typed, Kept
  <2>2. CASE p.status = "fmi2OK"
    <3>1. comp' = [p.comp EXCEPT !.state = "ContinuousTimeMode"] /\ step' = [step EXCEPT !.pc = "loop"] /\ ret' = ret
      BY <1>1, <1>6, <2>2 DEF Iterates
    <3>2. Typed(comp') /\ comp'.time = comp.time
      <4>1. "ContinuousTimeMode" \in Mode
        BY DEF Mode
      <4>2. Typed([p.comp EXCEPT !.state = "ContinuousTimeMode"])
        BY <2>1, <4>1, StateTyped
      <4>3. [p.comp EXCEPT !.state = "ContinuousTimeMode"].time = p.comp.time
        BY <2>1 DEF Typed, Instance
      <4> QED
        BY <2>1, <3>1, <4>2, <4>3
    <3>3. StepTo(step', "loop")
      <4>1. step' = StepAt("loop")
        BY <3>1 DEF StepAt
      <4> QED
        BY <4>1, PcTyped
    <3>4. ret' \in [call : Calls, status : {"fmi2OK", "fmi2Error", "none"}]
      BY <3>1 DEF TypeInv
    <3> QED
      BY <1>2, <1>4, <3>2, <3>3, <3>4, InnerStepTyped
  <2>3. CASE p.status # "fmi2OK"
    <3>1. comp' = p.comp /\ Return("fmi2Error")
      BY <1>1, <1>6, <2>3 DEF Iterates
    <3>2. Typed(comp') /\ comp'.time = comp.time
      BY <2>1, <3>1
    <3> QED
      BY <1>2, <1>4, <3>1, <3>2, ReturnTyped, InnerStepTyped
  <2> QED
    BY <2>2, <2>3
<1> QED
  BY <1>5, <1>6

(* What an Euler step may do. *)
EulerCase(o, enter, crossed) ==
    LET zc_event == step.zc_event \/ crossed
        time_event == step.time_event \/ TimeEvent
        event == enter \/ zc_event \/ time_event
    IN /\ o \in Integrated /\ comp' = o.comp
       /\ \/ /\ o.status # "fmi2OK" /\ Return("fmi2Error") /\ eventInfo' = eventInfo
          \/ /\ o.status = "fmi2OK"
             /\ step' = [step EXCEPT !.zc_event = zc_event, !.time_event = time_event,
                                     !.pc = IF event THEN "settle" ELSE "loop"]
             /\ eventInfo' = [eventInfo EXCEPT !.newDiscreteStatesNeeded = event]
             /\ ret' = ret

(* Every Euler step is one of them. *)
LEMMA EulerCases ==
  ASSUME EulerStep
  PROVE  /\ step.pc = "loop" /\ comp.time < tEnd /\ model' = model /\ importer' = importer
         /\ \E o : \E enter, crossed \in BOOLEAN : EulerCase(o, enter, crossed)
<1>1. step.pc = "loop" /\ comp.time < tEnd /\ model' = model /\ importer' = importer
  BY DEF EulerStep
<1>2. PICK o \in Integrated, enter \in BOOLEAN, crossed \in BOOLEAN :
         /\ enter => model.states
         /\ crossed => model.indicators
         /\ comp' = o.comp
         /\ \/ /\ o.status # "fmi2OK"
               /\ Return("fmi2Error")
               /\ UNCHANGED eventInfo
            \/ /\ o.status = "fmi2OK"
               /\ LET zc_event == step.zc_event \/ crossed
                      time_event == step.time_event \/ TimeEvent
                      event == enter \/ zc_event \/ time_event
                  IN /\ step' = [step EXCEPT !.zc_event = zc_event, !.time_event = time_event,
                                             !.pc = IF event THEN "settle" ELSE "loop"]
                     /\ eventInfo' = [eventInfo EXCEPT !.newDiscreteStatesNeeded = event]
                     /\ UNCHANGED ret
  BY Zenon DEF EulerStep
<1>3. EulerCase(o, enter, crossed)
  BY <1>2 DEF EulerCase
<1> QED
  BY <1>1, <1>3

(* An Euler step keeps the types. *)
LEMMA EulerTyped ==
  ASSUME TypeInv, EulerStep
  PROVE  TypeInv'
<1>1. PICK o : \E enter, crossed \in BOOLEAN : EulerCase(o, enter, crossed)
  BY EulerCases
<1>2. PICK enter \in BOOLEAN, crossed \in BOOLEAN : EulerCase(o, enter, crossed)
  BY <1>1
<1>3. step.pc = "loop" /\ step.pc # "idle" /\ comp.time < tEnd /\ model' = model /\ importer' = importer
  BY EulerCases
<1>4. tNext \in 0 .. Horizon /\ tNext <= tEnd
  BY <1>3, NextIsAhead
<1>5. /\ comp' = o.comp /\ o \in Integrated
      /\ Computed(comp, tNext, o) \/ Computed(comp, comp.time, o)
  BY <1>2, <1>4, Integrates DEF EulerCase, TypeInv, Typed
<1>6. Typed(comp') /\ (comp'.time = comp.time \/ comp'.time <= tEnd)
  BY <1>4, <1>5 DEF Computed, SameBut, TypeInv, Typed
<1>7. CASE o.status # "fmi2OK"
  <2>1. Return("fmi2Error") /\ eventInfo' = eventInfo
    BY <1>2, <1>7 DEF EulerCase
  <2>2. Announcement(eventInfo)'
    BY <2>1 DEF TypeInv, Announcement, Infos
  <2> QED
    BY <1>3, <1>6, <2>1, <2>2, ReturnTyped, InnerStepTyped
<1>8. CASE o.status = "fmi2OK"
  <2> DEFINE z == step.zc_event \/ crossed
             t == step.time_event \/ TimeEvent
             e == enter \/ z \/ t
             pc == IF e THEN "settle" ELSE "loop"
  <2>1. /\ step' = [step EXCEPT !.zc_event = z, !.time_event = t, !.pc = pc]
        /\ eventInfo' = [eventInfo EXCEPT !.newDiscreteStatesNeeded = e] /\ ret' = ret
    BY <1>2, <1>8 DEF EulerCase
  <2>2. z \in BOOLEAN /\ t \in BOOLEAN /\ e \in BOOLEAN /\ pc \in {"idle", "iterate", "loop", "settle"}
    BY DEF TimeEvent, TypeInv
  <2> HIDE DEF z, t, e, pc
  <2>3. Announcement(eventInfo)'
    BY <2>1, <2>2 DEF TypeInv, Announcement, Infos
  <2>4. StepTo(step', pc)
    <3>1. step' = StepWith(z, t, pc)
      BY <2>1 DEF StepWith
    <3> QED
      BY <2>2, <3>1, PcTyped
  <2>5. ret' \in [call : Calls, status : {"fmi2OK", "fmi2Error", "none"}]
    BY <2>1 DEF TypeInv
  <2> QED
    BY <1>3, <1>6, <2>3, <2>4, <2>5, InnerStepTyped
<1> QED
  BY <1>7, <1>8

(* The end of fmi2DoStep keeps the types. *)
LEMMA ReturnsDoStepTyped ==
  ASSUME TypeInv, DoStepReturns
  PROVE  TypeInv'
<1>1. /\ step.pc = "loop" /\ step.pc # "idle" /\ Return("fmi2OK") /\ model' = model /\ comp' = comp
      /\ eventInfo' = eventInfo /\ importer' = importer
  BY DEF DoStepReturns
<1>2. Announcement(eventInfo)'
  BY <1>1 DEF TypeInv, Announcement, Infos
<1>3. Typed(comp')
  BY <1>1 DEF TypeInv
<1> QED
  BY <1>1, <1>2, <1>3, ReturnTyped, InnerStepTyped

(* An assertion that nobody catches leaves an instance that is of no use. *)
LEMMA CrashTyped ==
  ASSUME TypeInv, Crash
  PROVE  TypeInv' /\ step'.pc = "idle" /\ comp'.state = "Crashed" /\ comp'.throws > 0
<1>1. /\ comp.throws < MaxThrows /\ UNCHANGED <<model, eventInfo, importer>>
      /\ comp' = [comp EXCEPT !.state = "Crashed", !.throws = @ + 1]
      /\ step' = [step EXCEPT !.pc = "idle"] /\ ret' = [ret EXCEPT !.status = "none"]
  BY DEF Crash
<1>2. comp.throws + 1 \in 0 .. MaxThrows /\ comp.throws + 1 > 0
  BY <1>1, FmuAssumption DEF TypeInv, Typed, Instance
<1>3. Typed(comp') /\ comp'.state = "Crashed" /\ comp'.throws > 0
  BY <1>1, <1>2 DEF TypeInv, Typed, Instance, Mode
<1>4. Typed(comp)'
  BY <1>1, <1>3 DEF Typed, Instance, Samples
<1>5. Announcement(eventInfo)'
  BY <1>1 DEF TypeInv, Announcement, Infos
<1>6. /\ step'.pc = "idle"
      /\ step' \in [pc : {"idle", "iterate", "loop", "settle"}, tStart : Int, size : 0 .. Horizon,
                    zc_event : BOOLEAN, time_event : BOOLEAN]
  BY <1>1 DEF TypeInv
<1>7. /\ ret' \in [call : Calls, status : {"fmi2OK", "fmi2Error", "none"}]
      /\ importer' \in Importers /\ model' \in Models
  BY <1>1 DEF TypeInv
<1> QED
  BY <1>3, <1>4, <1>5, <1>6, <1>7 DEF TypeInv, InStep

(* TypeInv is inductive. *)
LEMMA TypeStep ==
  ASSUME TypeInv, [Next]_vars
  PROVE  TypeInv'
<1>1. CASE UNCHANGED vars
  <2>1. Typed(comp)' /\ Announcement(eventInfo)' /\ InStep'
    BY <1>1 DEF TypeInv, vars, Typed, Instance, Samples, Announcement, Infos, InStep, tEnd
  <2> QED
    BY <1>1, <2>1 DEF TypeInv, vars
<1>2. CASE InDoStep
  BY <1>2, IterationTyped, EulerTyped, ReturnsDoStepTyped DEF InDoStep
<1>3. CASE \E size \in 1 .. Horizon : DoStep(size)
  BY <1>3, DoStepTyped
<1>4. CASE \/ CallEnterInitializationMode \/ CallExitInitializationMode
           \/ CallGetValues \/ CallSetValues \/ CallTerminate \/ CallReset \/ IllegalCall
           \/ ModelExchange
  BY <1>4, IdleStepTyped
<1>5. CASE Crash
  BY <1>5, CrashTyped
<1> QED
  BY <1>1, <1>2, <1>3, <1>4, <1>5 DEF Next

(* Type correctness of FmuInstance, for every set of models and all bounds. *)
THEOREM TypeCorrect == Spec => []TypeOK
<1>1. Init => TypeInv
  BY InitTyped
<1>2. TypeInv /\ [Next]_vars => TypeInv'
  BY TypeStep
<1>3. TypeInv => TypeOK
  BY TypeInvImplies
<1> QED
  BY <1>1, <1>2, <1>3, PTL DEF Spec

-----------------------------------------------------------------------------
(* Derivatives *)

(* Nothing an importer may ask for is out of date without an update that is due:
   with states set before initialization, with the start values after it, and
   where the event iteration has ended. *)
CurrentInv ==
    /\ comp.state = "Instantiated" /\ importer.touched => comp.needUpdate
    /\ comp.state = "InitializationMode" => Current(comp)
    /\ DerivativesAreCurrent

(* After an event update the derivatives are current, or it iterates again. *)
LEMMA UpdatedIsCurrent ==
  ASSUME NEW c, NEW o, Missed(c, o) \/ Updated(c, o)
  PROVE  o.info.newDiscreteStatesNeeded \/ Current(o.comp)
  BY DEF Missed, Updated, Current

(* So they are after fmi2NewDiscreteStates, also where an assertion ended it. *)
LEMMA NewStatesCurrent ==
  ASSUME TypeInv, NEW o \in fmi2NewDiscreteStates(comp)
  PROVE  /\ o.info.newDiscreteStatesNeeded \/ Current(o.comp)
         /\ o.comp.state = comp.state
<1>1. Typed(comp) /\ model \in Models
  BY DEF TypeInv
<1>2. PICK q \in fmi2EventUpdate(comp) : /\ o.comp = q.comp /\ o.status = q.status
                                         /\ \/ Missed(comp, q) /\ o.info = NoEvent
                                            \/ Updated(comp, q) /\ o.info = q.info
  BY <1>1, NewStates
<1> QED
  BY <1>2 DEF Missed, Updated, Current

(* So they are after fmi2ExitInitializationMode, unless it is refused. *)
LEMMA ExitsCurrent ==
  ASSUME TypeInv, Current(comp), NEW o \in ExitInitializationMode(comp)
  PROVE  /\ \/ o.comp.state = "Error"
            \/ o.comp.state = "EventMode" /\ (o.info.newDiscreteStatesNeeded \/ Current(o.comp))
<1>1. CASE Refused(comp, o)
  BY <1>1 DEF Refused
<1>2. CASE ExitInterrupted(comp, o)
  BY <1>2 DEF ExitInterrupted, Computed, Entered, Current
<1>3. CASE ExitWithoutSamples(comp, o)
  BY <1>3 DEF ExitWithoutSamples, Started, Entered, Current
<1>4. CASE ExitUpdated(comp, o)
  BY <1>4, UpdatedIsCurrent DEF ExitUpdated, Entered, Current
<1> QED
  BY <1>1, <1>2, <1>3, <1>4, Exits DEF TypeInv

(* A new instance needs an update. *)
LEMMA InitCurrent ==
  Init => CurrentInv
<1> SUFFICES ASSUME Init PROVE CurrentInv
  OBVIOUS
<1>1. comp.needUpdate /\ comp.state = "Instantiated"
  BY DEF Init
<1> QED
  BY <1>1 DEF CurrentInv, DerivativesAreCurrent

(* A step that keeps state and values current. *)
LEMMA CurrentStays ==
  ASSUME CurrentInv, comp'.state = comp.state, Current(comp) => Current(comp'),
         eventInfo' = eventInfo, importer' = importer, comp.state # "Instantiated"
  PROVE  CurrentInv'
  BY DEF CurrentInv, DerivativesAreCurrent, Current

(* A step after which all is current, or an update is due. *)
LEMMA BecomesCurrent ==
  ASSUME Current(comp') \/ (eventInfo'.newDiscreteStatesNeeded /\ comp'.state # "InitializationMode"),
         comp'.state # "Instantiated"
  PROVE  CurrentInv'
  BY DEF CurrentInv, DerivativesAreCurrent, Current

(* Every call of the importer that returns at once keeps CurrentInv. *)
LEMMA IdleStepCurrent ==
  ASSUME TypeInv, CurrentInv,
         \/ CallEnterInitializationMode \/ CallExitInitializationMode
         \/ CallGetValues \/ CallSetValues \/ CallTerminate \/ CallReset \/ IllegalCall
         \/ ModelExchange
  PROVE  CurrentInv'
<1>1. comp \in Instance /\ comp.time \in Nat
  BY FmuAssumption DEF TypeInv, Typed, Instance
<1>2. \A s \in Mode : LET d == Done([comp EXCEPT !.state = s])
                      IN d.comp.state = s /\ Current(d.comp) = Current(comp) /\ d.info = eventInfo
  <2> TAKE s \in Mode
  <2> DEFINE e == [comp EXCEPT !.state = s]
  <2>1. e.state = s /\ Current(e) = Current(comp)
    BY <1>1 DEF Instance, Current
  <2> HIDE DEF e
  <2>2. Done(e).comp = e /\ Done(e).info = eventInfo
    BY DEF Done, Outcome
  <2> QED
    BY <2>1, <2>2 DEF e
<1>3. LET d == Done(Touched(comp)) IN d.comp.state = comp.state /\ d.comp.needUpdate
  <2>1. Done(Touched(comp)).comp = Touched(comp)
    BY DEF Done, Outcome
  <2> QED
    BY <1>1, <2>1, SettersTouch DEF SameBut
<1>4. CASE CallEnterInitializationMode
  <2>1. comp.needUpdate
    BY <1>4 DEF CallEnterInitializationMode, CurrentInv
  <2>2. comp' = EnterInitializationMode(comp)
    BY <1>4 DEF CallEnterInitializationMode, Returns, Done, Outcome
  <2>3. comp'.state = "InitializationMode" /\ comp'.needUpdate
    BY <1>1, <2>1, <2>2 DEF EnterInitializationMode, Instance
  <2> QED
    BY <2>3, BecomesCurrent DEF Current
<1>5. CASE CallExitInitializationMode
  <2>1. Current(comp)
    BY <1>5 DEF CallExitInitializationMode, CurrentInv
  <2>2. PICK o \in ExitInitializationMode(comp) : comp' = o.comp /\ eventInfo' = o.info
    BY <1>5 DEF CallExitInitializationMode, Returns
  <2>3. CASE o.comp.state = "Error"
    BY <2>2, <2>3 DEF CurrentInv, DerivativesAreCurrent
  <2>4. CASE o.comp.state = "EventMode" /\ (o.info.newDiscreteStatesNeeded \/ Current(o.comp))
    BY <2>2, <2>4, BecomesCurrent
  <2> QED
    BY <2>1, <2>3, <2>4, ExitsCurrent
<1>6. CASE CallGetValues
  <2>1. PICK o \in GetValues(comp) : comp' = o.comp /\ eventInfo' = o.info
    BY <1>6 DEF CallGetValues, Returns
  <2>2. Computed(comp, comp.time, o)
    BY <1>1, Gets
  <2>3. comp'.state = comp.state /\ (Current(comp) => Current(comp')) /\ eventInfo' = eventInfo
    BY <2>1, <2>2 DEF Computed, SameBut
  <2> QED
    BY <1>6, <2>3, CurrentStays DEF CallGetValues
<1>7. CASE CallSetValues
  <2>1. comp'.state = comp.state /\ comp'.needUpdate
    BY <1>3, <1>7 DEF CallSetValues, SetValues, Returns
  <2> QED
    BY <2>1 DEF CurrentInv, DerivativesAreCurrent, Current
<1>8. CASE CallTerminate
  <2>1. /\ comp'.state = "Terminated" /\ Current(comp') = Current(comp) /\ eventInfo' = eventInfo
        /\ comp.state \in {"EventMode", "ContinuousTimeMode"}
    BY <1>2, <1>8 DEF CallTerminate, Returns, Mode
  <2> QED
    BY <2>1 DEF CurrentInv, DerivativesAreCurrent, Current
<1>9. CASE CallReset
  <2>1. comp' = Reset(comp) /\ importer'.touched = FALSE
    BY <1>9 DEF CallReset, Returns, Done, Outcome
  <2>2. comp'.state = "Instantiated"
    <3>1. comp' \in Instance
      BY <2>1, ResetTyped DEF TypeInv, Typed
    <3> DEFINE fresh == IF comp.state = "Terminated"
                        THEN [comp EXCEPT !.time = 0, !.samples = {}, !.nextSampleTimes = [i \in Samples |-> 0]]
                        ELSE comp
    <3>2. comp' = [fresh EXCEPT !.state = "Instantiated", !.ode = FALSE, !.alg = FALSE, !.rounds = 0,
                                !.activated = [i \in Samples |-> <<>>]]
      BY <2>1 DEF Reset
    <3>3. "state" \in DOMAIN fresh
      BY <1>1 DEF Instance
    <3> HIDE DEF fresh
    <3> QED
      BY <3>2, <3>3
  <2> QED
    BY <2>1, <2>2 DEF CurrentInv, DerivativesAreCurrent
<1>10. CASE IllegalCall
  <2>1. comp' = [comp EXCEPT !.state = "Error"]
    BY <1>10 DEF IllegalCall, Returns, Failed, Outcome
  <2>2. comp'.state = "Error"
    BY <1>1, <2>1 DEF Instance
  <2> QED
    BY <2>2 DEF CurrentInv, DerivativesAreCurrent
<1>11. CASE CallNewDiscreteStates
  <2>1. PICK o \in fmi2NewDiscreteStates(comp) : comp' = o.comp /\ eventInfo' = o.info
    BY <1>11 DEF CallNewDiscreteStates, Returns
  <2>2. comp.state = "EventMode"
    BY <1>11 DEF CallNewDiscreteStates
  <2>3. (o.info.newDiscreteStatesNeeded \/ Current(o.comp)) /\ o.comp.state = comp.state
    BY NewStatesCurrent
  <2> QED
    BY <2>1, <2>2, <2>3, BecomesCurrent
<1>12. CASE CallEnterContinuousTimeMode
  <2>1. /\ comp'.state = "ContinuousTimeMode" /\ Current(comp') = Current(comp) /\ eventInfo' = eventInfo
        /\ comp.state = "EventMode"
    BY <1>2, <1>12 DEF CallEnterContinuousTimeMode, Returns, Mode
  <2> QED
    BY <2>1 DEF CurrentInv, DerivativesAreCurrent, Current
<1>13. CASE CallEnterEventMode
  <2>1. /\ comp'.state = "EventMode" /\ Current(comp') = Current(comp) /\ eventInfo' = eventInfo
        /\ comp.state = "ContinuousTimeMode"
    BY <1>2, <1>13 DEF CallEnterEventMode, Integrating, Returns, Mode
  <2> QED
    BY <2>1 DEF CurrentInv, DerivativesAreCurrent, Current
<1>14. CASE CallSetTime
  <2>1. 0 \in 0 .. Horizon /\ \A t \in importer.from .. Horizon : t \in 0 .. Horizon
    BY FmuAssumption DEF TypeInv, Importers
  <2>2. PICK t \in 0 .. Horizon : Returns("fmi2SetTime", {Done(fmi2SetTime(comp, t))})
    BY <1>14, <2>1 DEF CallSetTime
  <2>3. comp' = fmi2SetTime(comp, t)
    BY <2>2 DEF Returns, Done, Outcome
  <2>4. comp'.needUpdate
    BY <1>1, <2>3, SettersTouch
  <2> QED
    BY <2>4 DEF CurrentInv, DerivativesAreCurrent, Current
<1>15. CASE CallSetContinuousStates
  <2>1. comp'.needUpdate /\ comp'.state = "ContinuousTimeMode"
    BY <1>3, <1>15 DEF CallSetContinuousStates, fmi2SetContinuousStates, Integrating, Returns
  <2> QED
    BY <2>1, BecomesCurrent DEF Current
<1>16. CASE CallGetDerivatives
  <2>1. PICK o \in fmi2GetDerivatives(comp) \cup fmi2GetEventIndicators(comp) : comp' = o.comp /\ eventInfo' = o.info
    BY <1>16 DEF CallGetDerivatives, Returns
  <2>2. Computed(comp, comp.time, o)
    BY <1>1, Derives, Indicates
  <2>3. comp'.state = comp.state /\ (Current(comp) => Current(comp')) /\ eventInfo' = eventInfo
    BY <2>1, <2>2 DEF Computed, SameBut
  <2> QED
    BY <1>16, <2>3, CurrentStays DEF CallGetDerivatives
<1>17. CASE CallCompletedIntegratorStep
  <2>1. PICK o \in fmi2CompletedIntegratorStep(comp) : comp' = o.comp /\ eventInfo' = o.info
    BY <1>17 DEF CallCompletedIntegratorStep, Returns
  <2>2. Computed(comp, comp.time, o)
    BY <1>1, Completes
  <2>3. /\ comp'.state = comp.state /\ (Current(comp) => Current(comp')) /\ eventInfo' = eventInfo
        /\ comp.state = "ContinuousTimeMode"
    BY <1>17, <2>1, <2>2 DEF Computed, SameBut, CallCompletedIntegratorStep, Integrating
  <2> QED
    BY <2>3 DEF CurrentInv, DerivativesAreCurrent, Current
<1> QED
  BY <1>4, <1>5, <1>6, <1>7, <1>8, <1>9, <1>10, <1>11, <1>12, <1>13, <1>14, <1>15, <1>16, <1>17
     DEF ModelExchange

(* fmi2EventIteration keeps CurrentInv. *)
LEMMA IterationCurrent ==
  ASSUME TypeInv, CurrentInv, EventIteration, comp.state \in {"EventMode", "ContinuousTimeMode"}
  PROVE  CurrentInv' /\ comp'.state \in {"EventMode", "ContinuousTimeMode"}
<1>1. PICK o, p : Iterates(o, p)
  BY IterationCases
<1>2. o \in fmi2NewDiscreteStates(comp) /\ eventInfo' = o.info
  BY <1>1 DEF Iterates
<1>3. (o.info.newDiscreteStatesNeeded \/ Current(o.comp)) /\ o.comp.state = comp.state
  BY <1>2, NewStatesCurrent
<1>4. CASE o.info.newDiscreteStatesNeeded
  <2>1. comp' = o.comp
    BY <1>1, <1>4 DEF Iterates
  <2> QED
    BY <1>2, <1>3, <1>4, <2>1, BecomesCurrent
<1>5. CASE ~o.info.newDiscreteStatesNeeded
  <2>1. Computed(o.comp, o.comp.time, p)
    BY <1>1, <1>5 DEF Iterates
  <2>2. p.comp \in Instance /\ Current(p.comp) /\ p.comp.state = comp.state
    BY <1>3, <1>5, <2>1 DEF Computed, SameBut
  <2>3. comp' = [p.comp EXCEPT !.state = "ContinuousTimeMode"] \/ comp' = p.comp
    BY <1>1, <1>5 DEF Iterates
  <2>4. Current(comp') /\ comp'.state \in {"EventMode", "ContinuousTimeMode"}
    BY <2>2, <2>3 DEF Instance, Current
  <2> QED
    BY <2>4, BecomesCurrent
<1> QED
  BY <1>4, <1>5

(* An Euler step keeps CurrentInv. *)
LEMMA EulerCurrent ==
  ASSUME TypeInv, CurrentInv, EulerStep, comp.state \in {"EventMode", "ContinuousTimeMode"}
  PROVE  CurrentInv' /\ comp'.state = comp.state
<1>1. PICK o : \E enter, crossed \in BOOLEAN : EulerCase(o, enter, crossed)
  BY EulerCases
<1>2. PICK enter \in BOOLEAN, crossed \in BOOLEAN : EulerCase(o, enter, crossed)
  BY <1>1
<1>3. tNext \in 0 .. Horizon /\ importer' = importer
  BY EulerCases, NextIsAhead
<1>4. /\ comp' = o.comp /\ o \in Integrated
      /\ \/ Computed(comp, tNext, o)
         \/ Computed(comp, comp.time, o) /\ o.status # "fmi2OK"
      /\ o.status = "fmi2OK" => Current(o.comp)
  BY <1>2, <1>3, Integrates DEF EulerCase, TypeInv, Typed
<1>5. comp'.state = comp.state /\ (Current(comp) => Current(comp'))
  BY <1>4 DEF Computed, SameBut
<1>6. CASE o.status # "fmi2OK"
  <2>1. eventInfo' = eventInfo
    BY <1>2, <1>6 DEF EulerCase
  <2> QED
    BY <1>3, <1>5, <2>1, CurrentStays
<1>7. CASE o.status = "fmi2OK"
  BY <1>4, <1>5, <1>7, BecomesCurrent
<1> QED
  BY <1>6, <1>7

(* fmi2DoStep runs in Event Mode or in Continuous-Time Mode. *)
StepMode == step.pc # "idle" => comp.state \in {"EventMode", "ContinuousTimeMode"}

(* CurrentInv is inductive. *)
LEMMA CurrentStep ==
  ASSUME TypeInv, CurrentInv /\ StepMode, [Next]_vars
  PROVE  (CurrentInv /\ StepMode)'
<1>1. CASE UNCHANGED vars
  BY <1>1 DEF CurrentInv, StepMode, DerivativesAreCurrent, Current, vars
<1>2. CASE EventIteration
  <2>1. comp.state \in {"EventMode", "ContinuousTimeMode"}
    BY <1>2, IterationCases DEF StepMode
  <2> QED
    BY <1>2, <2>1, IterationCurrent DEF StepMode
<1>3. CASE EulerStep
  <2>1. comp.state \in {"EventMode", "ContinuousTimeMode"}
    BY <1>3, EulerCases DEF StepMode
  <2> QED
    BY <1>3, <2>1, EulerCurrent DEF StepMode
<1>4. CASE DoStepReturns
  BY <1>4, ReturnTyped DEF DoStepReturns, StepTo, CurrentInv, StepMode, DerivativesAreCurrent, Current
<1>5. CASE \E size \in 1 .. Horizon : DoStep(size)
  <2>1. /\ comp' = [comp EXCEPT !.state = "EventMode", !.rounds = 0]
        /\ eventInfo' = [NoEvent EXCEPT !.newDiscreteStatesNeeded = TRUE]
    BY <1>5 DEF DoStep
  <2>2. comp'.state = "EventMode" /\ eventInfo'.newDiscreteStatesNeeded
    BY <2>1 DEF NoEvent, TypeInv, Typed, Instance
  <2> QED
    BY <2>2, BecomesCurrent DEF StepMode
<1>6. CASE \/ CallEnterInitializationMode \/ CallExitInitializationMode
           \/ CallGetValues \/ CallSetValues \/ CallTerminate \/ CallReset \/ IllegalCall
           \/ ModelExchange
  <2>1. step.pc = "idle" /\ step' = step
    BY <1>6, IdleCalls
  <2> QED
    BY <1>6, <2>1, IdleStepCurrent DEF StepMode
<1>7. CASE Crash
  <2>1. step'.pc = "idle" /\ comp'.state = "Crashed"
    BY <1>7, CrashTyped
  <2> QED
    BY <2>1 DEF CurrentInv, StepMode, DerivativesAreCurrent
<1> QED
  BY <1>1, <1>2, <1>3, <1>4, <1>5, <1>6, <1>7 DEF Next, InDoStep

(* What fmi2GetDerivatives and fmi2GetEventIndicators return belongs to the present
   time, states and inputs, for every model and all bounds, whatever evaluation fails
   and wherever its assertion lands but for the two failures givenUp marks. *)
THEOREM DerivativesStayCurrent == Spec => []DerivativesAreCurrent
<1>1. Init => TypeInv /\ CurrentInv /\ StepMode
  BY InitTyped, InitCurrent DEF Init, Idle, StepMode
<1>2. TypeInv /\ (CurrentInv /\ StepMode) /\ [Next]_vars => TypeInv' /\ (CurrentInv /\ StepMode)'
  BY TypeStep, CurrentStep
<1>3. CurrentInv => DerivativesAreCurrent
  BY DEF CurrentInv
<1> QED
  BY <1>1, <1>2, <1>3, PTL DEF Spec

-----------------------------------------------------------------------------
(* The end of fmi2DoStep *)

(* The loop goes on where no event iteration is left to do, and ends at the
   communication point. *)
PointInv ==
    /\ step.pc = "loop" => ~eventInfo.newDiscreteStatesNeeded
    /\ step.pc = "idle" /\ ret = [call |-> "fmi2DoStep", status |-> "fmi2OK"]
         => comp.time = tEnd /\ ~eventInfo.newDiscreteStatesNeeded

(* No call of fmi2DoStep has returned yet. *)
LEMMA InitPoint ==
  Init => PointInv
<1> SUFFICES ASSUME Init PROVE PointInv
  OBVIOUS
<1>1. step.pc = "idle" /\ ret.call = "fmi2Instantiate"
  BY DEF Init, Idle
<1> QED
  BY <1>1 DEF PointInv

(* fmi2EventIteration goes to the loop only where it is finished. *)
LEMMA IterationPoint ==
  ASSUME TypeInv, EventIteration
  PROVE  PointInv'
<1>1. PICK o, p : Iterates(o, p)
  BY IterationCases
<1>2. step.pc \in {"iterate", "settle"} /\ eventInfo' = o.info
  BY <1>1, IterationCases DEF Iterates
<1>3. CASE o.info.newDiscreteStatesNeeded
  <2>1. step' = step
    BY <1>1, <1>3 DEF Iterates
  <2> QED
    BY <1>2, <2>1 DEF PointInv
<1>4. CASE ~o.info.newDiscreteStatesNeeded /\ p.status = "fmi2OK"
  <2>1. step' = StepAt("loop")
    BY <1>1, <1>4 DEF Iterates, StepAt
  <2>2. step'.pc = "loop"
    BY <2>1, PcTyped DEF StepTo
  <2> QED
    BY <1>2, <1>4, <2>2 DEF PointInv
<1>5. CASE ~o.info.newDiscreteStatesNeeded /\ p.status # "fmi2OK"
  <2>1. Return("fmi2Error")
    BY <1>1, <1>5 DEF Iterates
  <2>2. step'.pc = "idle" /\ ret' = [call |-> "fmi2DoStep", status |-> "fmi2Error"]
    BY <2>1, ReturnTyped DEF StepTo
  <2>3. ret'.status = "fmi2Error"
    BY <2>2
  <2> QED
    BY <2>2, <2>3 DEF PointInv
<1> QED
  BY <1>3, <1>4, <1>5

(* An Euler step stays in the loop only without an event. *)
LEMMA EulerPoint ==
  ASSUME TypeInv, PointInv, EulerStep
  PROVE  PointInv'
<1>1. PICK o : \E enter, crossed \in BOOLEAN : EulerCase(o, enter, crossed)
  BY EulerCases
<1>2. PICK enter \in BOOLEAN, crossed \in BOOLEAN : EulerCase(o, enter, crossed)
  BY <1>1
<1>3. CASE o.status # "fmi2OK"
  <2>1. Return("fmi2Error")
    BY <1>2, <1>3 DEF EulerCase
  <2>2. step'.pc = "idle" /\ ret' = [call |-> "fmi2DoStep", status |-> "fmi2Error"]
    BY <2>1, ReturnTyped DEF StepTo
  <2>3. ret'.status = "fmi2Error"
    BY <2>2
  <2> QED
    BY <2>2, <2>3 DEF PointInv
<1>4. CASE o.status = "fmi2OK"
  <2> DEFINE z == step.zc_event \/ crossed
             t == step.time_event \/ TimeEvent
             e == enter \/ z \/ t
             pc == IF e THEN "settle" ELSE "loop"
  <2>1. step' = StepWith(z, t, pc) /\ eventInfo' = [eventInfo EXCEPT !.newDiscreteStatesNeeded = e]
    BY <1>2, <1>4 DEF EulerCase, StepWith
  <2>2. z \in BOOLEAN /\ t \in BOOLEAN /\ e \in BOOLEAN /\ pc \in {"idle", "iterate", "loop", "settle"}
        /\ (pc = "loop" => ~e) /\ pc # "idle"
    BY DEF TimeEvent, TypeInv
  <2> HIDE DEF z, t, e, pc
  <2>3. step'.pc = pc
    BY <2>1, <2>2, PcTyped DEF StepTo
  <2>4. eventInfo'.newDiscreteStatesNeeded = e
    BY <2>1 DEF TypeInv, Announcement, Infos
  <2> QED
    BY <2>2, <2>3, <2>4 DEF PointInv
<1> QED
  BY <1>3, <1>4

(* PointInv is inductive. *)
LEMMA PointStep ==
  ASSUME TypeInv, PointInv, [Next]_vars
  PROVE  PointInv'
<1>1. CASE UNCHANGED vars
  BY <1>1 DEF PointInv, tEnd, vars
<1>2. CASE EventIteration
  BY <1>2, IterationPoint
<1>3. CASE EulerStep
  BY <1>3, EulerPoint
<1>4. CASE DoStepReturns
  <2>1. step.pc = "loop" /\ comp.time >= tEnd /\ Return("fmi2OK") /\ comp' = comp /\ eventInfo' = eventInfo
    BY <1>4 DEF DoStepReturns
  <2>2. StepTo(step', "idle")
    BY <2>1, ReturnTyped
  <2>3. comp.time <= tEnd /\ comp.time \in Int /\ tEnd \in Int
    BY <2>1, FmuAssumption DEF TypeInv, InStep, Typed, Instance, tEnd
  <2>4. comp.time = tEnd
    BY <2>1, <2>3
  <2> QED
    BY <2>1, <2>2, <2>4 DEF PointInv, tEnd, StepTo
<1>5. CASE \E size \in 1 .. Horizon : DoStep(size)
  <2>1. step'.pc = "iterate"
    BY <1>5 DEF DoStep, Idle
  <2> QED
    BY <2>1 DEF PointInv
<1>6. CASE \/ CallEnterInitializationMode \/ CallExitInitializationMode
           \/ CallGetValues \/ CallSetValues \/ CallTerminate \/ CallReset \/ IllegalCall
           \/ ModelExchange
  <2>1. PICK call \in Calls \ {"fmi2DoStep"} : \E S : Returns(call, S)
    BY <1>6, IdleCalls
  <2>2. ret'.call = call
    BY <2>1 DEF Returns
  <2>3. step'.pc = "idle"
    BY <1>6, IdleCalls
  <2>4. ret' # [call |-> "fmi2DoStep", status |-> "fmi2OK"]
    BY <2>1, <2>2
  <2> QED
    BY <2>3, <2>4 DEF PointInv
<1>7. CASE Crash
  <2>1. ret' = [ret EXCEPT !.status = "none"]
    BY <1>7 DEF Crash
  <2>2. step'.pc = "idle" /\ ret'.status = "none"
    BY <1>7, <2>1, CrashTyped DEF TypeInv
  <2>3. ret' # [call |-> "fmi2DoStep", status |-> "fmi2OK"]
    BY <2>2
  <2> QED
    BY <2>2, <2>3 DEF PointInv
<1> QED
  BY <1>1, <1>2, <1>3, <1>4, <1>5, <1>6, <1>7 DEF Next, InDoStep

(* A call of fmi2DoStep without an error ends at its communication point with the
   event iteration finished, for every model and all bounds. *)
THEOREM StepsEndAtPoint == Spec => []StepEndsAtPoint
<1>1. Init => TypeInv /\ PointInv
  BY InitTyped, InitPoint
<1>2. TypeInv /\ PointInv /\ [Next]_vars => TypeInv' /\ PointInv'
  BY TypeStep, PointStep
<1>3. PointInv => StepEndsAtPoint
  BY DEF PointInv, StepEndsAtPoint
<1> QED
  BY <1>1, <1>2, <1>3, PTL DEF Spec

-----------------------------------------------------------------------------
(* The points of a sample *)

OnGrid(i, p) == \E k \in Nat : p = model.samplesInfo[i].start + k * model.samplesInfo[i].interval

(* The points of a sample, as SamplesOnTime counts them. *)
LEMMA GridIsModulo ==
  ASSUME model \in Models, NEW i \in Samples, NEW p \in Int
  PROVE  OnGrid(i, p) <=> /\ p >= model.samplesInfo[i].start
                          /\ (p - model.samplesInfo[i].start) % model.samplesInfo[i].interval = 0
<1> DEFINE s == model.samplesInfo[i].start
           z == model.samplesInfo[i].interval
           a == p - s
           q == a \div z
<1> SUFFICES (\E k \in Nat : p = s + k * z) <=> p >= s /\ a % z = 0
  BY DEF OnGrid
<1>1. s \in Int /\ z \in Nat \ {0}
  BY ModelTyped
<1> HIDE DEF s, z
<1>2. a \in Int
  BY <1>1
<1>3. q \in Int /\ q * z <= a /\ a < q * z + z /\ a % z = a - q * z
  <2> HIDE DEF a
  <2>1. a % z = a - (a \div z) * z
    BY <1>1, <1>2
  <2> QED
    BY <1>1, <1>2, <2>1, Division
<1>4. ASSUME p >= s, a % z = 0
      PROVE  \E k \in Nat : p = s + k * z
  <2>1. q * z \in Int
    BY <1>1, <1>3
  <2> DEFINE m == q * z
  <2>2. a = m
    <3>1. m \in Int /\ a % z = a - m
      BY <1>3, <2>1
    <3> HIDE DEF m, a
    <3> QED BY <1>2, <1>4, <3>1
  <2>3. p = s + m
    <3>1. m \in Int /\ p - s = m
      BY <2>1, <2>2
    <3> HIDE DEF m
    <3> QED BY <1>1, <3>1
  <2>4. q \in Nat
    <3>1. SUFFICES ASSUME q < 0 PROVE FALSE
      BY <1>3
    <3> HIDE DEF q
    <3>2. q <= -1
      BY <1>3, <3>1
    <3>3. q * z <= -1 * z
      BY <1>1, <1>3, <3>2
    <3>4. m <= -z /\ m \in Int /\ m >= 0
      <4>1. a >= 0
        BY <1>1, <1>4
      <4> QED BY <1>1, <2>1, <2>2, <3>3, <4>1
    <3> HIDE DEF m
    <3> QED BY <1>1, <3>4
  <2> QED
    BY <2>3, <2>4
<1>5. ASSUME NEW k \in Nat, p = s + k * z
      PROVE  p >= s /\ a % z = 0
  <2> DEFINE m == k * z
             n == q * z
  <2>1. m \in Nat /\ n \in Int
    BY <1>1, <1>3
  <2>2. a = m /\ p >= s
    <3>1. p = s + m
      BY <1>5
    <3> HIDE DEF m
    <3> QED BY <1>1, <2>1, <3>1
  <2>3. k = q
    <3>1. q * z <= k * z /\ k * z < q * z + z
      BY <1>3, <2>2
    <3>2. k * z < (q + 1) * z
      <4>1. (q + 1) * z = q * z + z
        BY <1>1, <1>3
      <4> QED BY <3>1, <4>1
    <3> HIDE DEF q
    <3>3. ~(k < q)
      <4>1. SUFFICES ASSUME k + 1 <= q PROVE FALSE
        BY <1>3
      <4>2. (k + 1) * z <= q * z
        BY <1>1, <1>3, <4>1
      <4>3. (k + 1) * z = k * z + z
        BY <1>1
      <4>4. m + z <= n /\ n <= m
        BY <3>1, <4>2, <4>3
      <4> HIDE DEF m, n
      <4> QED BY <1>1, <2>1, <4>4
    <3>4. ~(q < k)
      <4>1. SUFFICES ASSUME q + 1 <= k PROVE FALSE
        BY <1>3
      <4>2. (q + 1) * z <= k * z
        BY <1>1, <1>3, <4>1
      <4>3. (q + 1) * z \in Int
        BY <1>1, <1>3
      <4> DEFINE x == (q + 1) * z
      <4>4. x <= m /\ m < x /\ x \in Int
        BY <3>2, <4>2, <4>3
      <4> HIDE DEF m, x
      <4> QED BY <2>1, <4>4
    <3> QED
      BY <1>3, <3>3, <3>4
  <2>4. a % z = a - n /\ n = m
    BY <1>3, <2>3
  <2>5. a % z = m - m
    BY <2>2, <2>4
  <2> HIDE DEF m, n, a
  <2> QED
    BY <2>1, <2>2, <2>5
<1> QED
  BY <1>4, <1>5

(* An interval after a point is a point. *)
LEMMA GridNext ==
  ASSUME model \in Models, NEW i \in Samples, NEW p \in Int, OnGrid(i, p)
  PROVE  OnGrid(i, p + model.samplesInfo[i].interval)
<1> DEFINE s == model.samplesInfo[i].start
           z == model.samplesInfo[i].interval
<1> SUFFICES \E k \in Nat : p + z = s + k * z
  BY DEF OnGrid
<1>1. s \in Int /\ z \in Nat \ {0}
  BY ModelTyped
<1>2. PICK k \in Nat : p = s + k * z
  BY DEF OnGrid
<1> HIDE DEF s, z
<1>3. (k + 1) * z = k * z + z /\ k * z \in Int
  BY <1>1
<1>4. p + z = s + (k + 1) * z
  <2> DEFINE m == k * z
  <2>1. m \in Int /\ p = s + m /\ (k + 1) * z = m + z
    BY <1>2, <1>3
  <2> HIDE DEF m
  <2>2. p + z = s + (m + z)
    BY <1>1, <2>1
  <2> QED
    BY <2>1, <2>2
<1> QED
  BY <1>4

(* Between two points an interval apart there is none. *)
LEMMA GridGap ==
  ASSUME model \in Models, NEW i \in Samples, NEW p \in Int, NEW q \in Int,
         OnGrid(i, p), OnGrid(i, q), q < p + model.samplesInfo[i].interval
  PROVE  q <= p
<1> DEFINE s == model.samplesInfo[i].start
           z == model.samplesInfo[i].interval
<1>1. s \in Int /\ z \in Nat \ {0}
  BY ModelTyped
<1>2. PICK k \in Nat : p = s + k * z
  BY DEF OnGrid
<1>3. PICK l \in Nat : q = s + l * z
  BY DEF OnGrid
<1>4. q < p + z
  OBVIOUS
<1> HIDE DEF s, z
<1> DEFINE m == k * z
           n == l * z
<1>5. m \in Int /\ n \in Int /\ p = s + m /\ q = s + n
  BY <1>1, <1>2, <1>3
<1>6. l <= k
  <2>1. SUFFICES ASSUME k + 1 <= l PROVE FALSE
    OBVIOUS
  <2>2. (k + 1) * z <= l * z /\ (k + 1) * z = k * z + z
    BY <1>1, <2>1
  <2>3. m + z <= n
    BY <2>2
  <2> HIDE DEF m, n
  <2> QED
    BY <1>1, <1>4, <1>5, <2>3
<1>7. l * z <= k * z
  BY <1>1, <1>6
<1>8. n <= m
  BY <1>7
<1> HIDE DEF m, n
<1> QED
  BY <1>1, <1>5, <1>8

(* The first time of a sample is a point, and no other point is between it and t. *)
LEMMA FirstOnGrid ==
  ASSUME model \in Models, NEW i \in Samples, NEW t \in Nat
  PROVE  /\ OnGrid(i, FirstTime(i, t)) /\ FirstTime(i, t) \in Nat /\ t <= FirstTime(i, t)
         /\ \A q \in Int : OnGrid(i, q) /\ q < FirstTime(i, t) => q < t
<1> DEFINE s == model.samplesInfo[i].start
           z == model.samplesInfo[i].interval
           n == FirstTime(i, t)
<1>1. /\ n \in Nat /\ t <= n /\ s <= n
      /\ \E k \in Nat : n = s + k * z
      /\ n = s \/ n - z < t
  BY FirstTimeBounds
<1>2. s \in Int /\ z \in Nat \ {0}
  BY ModelTyped
<1>3. OnGrid(i, n)
  BY <1>1 DEF OnGrid
<1>4. ASSUME NEW q \in Int, OnGrid(i, q), q < n
      PROVE  q < t
  <2>1. q >= s
    BY <1>4, GridIsModulo
  <2>2. CASE n = s
    <3> HIDE DEF n, s
    <3> QED BY <1>1, <1>2, <1>4, <2>1, <2>2
  <2>3. CASE n # s /\ n - z < t
    <3>1. PICK k \in Nat : n = s + k * z
      BY <1>1
    <3>2. k # 0
      <4>1. SUFFICES ASSUME k = 0 PROVE FALSE
        OBVIOUS
      <4> HIDE DEF n, s, z
      <4>2. n = s + 0 * z
        BY <3>1, <4>1
      <4> QED BY <1>2, <2>3, <4>2
    <3>3. k - 1 \in Nat
      BY <3>2
    <3>4. n - z = s + (k - 1) * z
      <4> DEFINE m == k * z
      <4> HIDE DEF n, s, z
      <4>1. (k - 1) * z = k * z - z /\ k * z \in Int
        BY <1>2
      <4>2. (k - 1) * z = m - z /\ m \in Int /\ n = s + m
        BY <3>1, <4>1
      <4> HIDE DEF m
      <4>3. n - z = s + (m - z)
        BY <1>1, <1>2, <4>2
      <4> QED BY <4>2, <4>3
    <3>5. OnGrid(i, n - z)
      BY <3>3, <3>4 DEF OnGrid
    <3>6. n - z \in Int /\ q < (n - z) + z
      <4> HIDE DEF n, s, z
      <4> QED BY <1>1, <1>2, <1>4
    <3>7. q <= n - z
      <4> HIDE DEF n
      <4> QED BY <1>4, <3>5, <3>6, GridGap
    <3> HIDE DEF n, s, z
    <3> QED
      BY <1>1, <1>2, <1>4, <2>3, <3>7
  <2> QED
    BY <1>1, <2>2, <2>3
<1> QED
  BY <1>1, <1>3, <1>4

-----------------------------------------------------------------------------
(* Samples *)

(* The points of sample i before n, each once. *)
Taken(a, i, n) ==
    /\ a \in Seq(Int)
    /\ \A k \in 2 .. Len(a) : a[k - 1] < a[k]
    /\ \A k \in DOMAIN a : a[k] \in Nat /\ OnGrid(i, a[k]) /\ a[k] < n
    /\ \A q \in Nat : OnGrid(i, q) /\ q < n => \E k \in DOMAIN a : a[k] = q

(* The next point is taken. *)
LEMMA TakesNext ==
  ASSUME model \in Models, NEW i \in Samples, NEW a, NEW n \in Nat, Taken(a, i, n), OnGrid(i, n)
  PROVE  Taken(Append(a, n), i, n + model.samplesInfo[i].interval)
<1> DEFINE z == model.samplesInfo[i].interval
           b == Append(a, n)
           l == Len(a)
<1>1. z \in Nat \ {0}
  BY ModelTyped
<1>2. a \in Seq(Int) /\ l \in Nat /\ DOMAIN a = 1 .. l
  BY DEF Taken
<1>3. /\ b \in Seq(Int) /\ Len(b) = l + 1 /\ DOMAIN b = 1 .. l + 1
      /\ b[l + 1] = n /\ \A k \in 1 .. l : b[k] = a[k]
  BY <1>2
<1>4. /\ \A k \in 2 .. l : a[k - 1] < a[k]
      /\ \A k \in 1 .. l : a[k] \in Nat /\ OnGrid(i, a[k]) /\ a[k] < n
      /\ \A q \in Nat : OnGrid(i, q) /\ q < n => \E k \in 1 .. l : a[k] = q
  BY <1>2 DEF Taken
<1> HIDE DEF b, l, z
<1>5. ASSUME NEW k \in 2 .. l + 1
      PROVE  b[k - 1] < b[k]
  <2>1. CASE k \in 2 .. l
    <3>1. k - 1 \in 1 .. l /\ k \in 1 .. l
      BY <1>2, <2>1
    <3> QED
      BY <1>3, <1>4, <2>1, <3>1
  <2>2. CASE k = l + 1
    <3>1. k - 1 \in 1 .. l /\ k - 1 = l
      BY <1>2, <1>5, <2>2
    <3>2. b[k - 1] = a[l] /\ b[k] = n /\ l \in 1 .. l
      BY <1>3, <2>2, <3>1
    <3> QED
      BY <1>4, <3>2
  <2> QED
    BY <1>2, <1>5, <2>1, <2>2
<1>6. ASSUME NEW k \in 1 .. l + 1
      PROVE  b[k] \in Nat /\ OnGrid(i, b[k]) /\ b[k] < n + z
  <2>1. CASE k \in 1 .. l
    BY <1>1, <1>3, <1>4, <2>1
  <2>2. CASE k = l + 1
    BY <1>1, <1>3, <2>2
  <2> QED
    BY <1>2, <1>6, <2>1, <2>2
<1>7. ASSUME NEW q \in Nat, OnGrid(i, q), q < n + z
      PROVE  \E k \in 1 .. l + 1 : b[k] = q
  <2>1. q <= n
    BY <1>7, GridGap DEF z
  <2>2. CASE q = n
    <3>1. l + 1 \in 1 .. l + 1
      BY <1>2
    <3> QED BY <1>3, <2>2, <3>1
  <2>3. CASE q < n
    <3>1. PICK k \in 1 .. l : a[k] = q
      BY <1>4, <1>7, <2>3
    <3>2. k \in 1 .. l + 1
      BY <1>2
    <3> QED BY <1>3, <3>1, <3>2
  <2> QED
    BY <2>1, <2>2, <2>3
<1> SUFFICES Taken(b, i, n + z)
  BY DEF b, z
<1> QED
  BY <1>3, <1>5, <1>6, <1>7 DEF Taken

(* Before the first point there is none to take. *)
LEMMA NoneTaken ==
  ASSUME model \in Models, NEW i \in Samples
  PROVE  Taken(<<>>, i, FirstTime(i, 0))
<1>1. \A q \in Nat : ~(OnGrid(i, q) /\ q < FirstTime(i, 0))
  <2> TAKE q \in Nat
  <2>1. OnGrid(i, q) /\ q < FirstTime(i, 0) => q < 0
    BY FirstOnGrid
  <2> QED BY <2>1
<1>2. <<>> \in Seq(Int) /\ Len(<<>>) = 0 /\ DOMAIN <<>> = {}
  OBVIOUS
<1>3. \A k \in 2 .. Len(<<>>) : <<>>[k - 1] < <<>>[k]
  BY <1>2
<1> QED
  BY <1>1, <1>2, <1>3 DEF Taken

(* At time t the next point n of sample i is to come, and all before it are taken. *)
OnTime(i, n, t, a) ==
    /\ n \in Nat /\ OnGrid(i, n) /\ t <= n
    /\ Taken(a, i, n)
    /\ \A k \in DOMAIN a : a[k] <= t

Placed(c) == \A i \in Samples : OnTime(i, c.nextSampleTimes[i], c.time, c.activated[i])
Ahead(c) == \A i \in Samples : c.time < c.nextSampleTimes[i]

(* All samples as long as nothing was thrown, for instance c. *)
ClockAt(c, info, imp, pc) ==
    c.throws = 0 =>
        /\ c.samples = {}
        /\ c.state = "Instantiated" /\ (imp.touched \/ model.type = "CS") => c.time = 0
        /\ c.state = "InitializationMode" => c.time = 0
        /\ c.state \in {"Instantiated", "InitializationMode"} =>
             \A i \in Samples : c.activated[i] = <<>>
        /\ c.state \in {"EventMode", "ContinuousTimeMode"} => Placed(c)
        /\ c.state = "ContinuousTimeMode" \/ (c.state = "EventMode" /\ model.type = "ME") =>
             (Samples # {} => Announced(c.nextSampleTimes, info))
        /\ c.state = "ContinuousTimeMode" /\ model.type = "CS" /\ pc \in {"idle", "loop"} => Ahead(c)
        /\ c.state = "ContinuousTimeMode" /\ model.type = "ME" =>
             \A i \in Samples : \A k \in DOMAIN c.activated[i] : c.activated[i][k] <= imp.from
ClockInv == ClockAt(comp, eventInfo, importer, step.pc)

(* The model does not change. *)
LEMMA ClockPrimed ==
  ASSUME model' = model, ClockAt(comp', eventInfo', importer', step'.pc)
  PROVE  ClockInv'
<1> DEFINE c == comp'
<1>1. Samples' = Samples
  BY DEF Samples
<1>2. Placed(comp)' <=> Placed(comp')
  BY <1>1 DEF Placed, OnTime, Taken, OnGrid
<1>3. Ahead(comp)' <=> Ahead(comp')
  BY <1>1 DEF Ahead
<1>4. Announced(comp.nextSampleTimes, eventInfo)' <=> Announced(comp'.nextSampleTimes, eventInfo')
  BY <1>1 DEF Announced
<1> QED
  BY <1>1, <1>2, <1>3, <1>4 DEF ClockInv, ClockAt

(* An event update takes the samples that are due. *)
LEMMA UpdatePlaces ==
  ASSUME model \in Models, NEW c, Typed(c), c.samples = {}, Placed(c), NEW o, Updated(c, o)
  PROVE  Placed(o.comp) /\ Ahead(o.comp)
<1> DEFINE d == o.comp
<1>1. /\ d.time = c.time /\ d.nextSampleTimes = Advanced(c, Active(c))
      /\ d.activated = [i \in Samples |-> IF i \in Active(c) THEN Append(c.activated[i], c.time)
                                          ELSE c.activated[i]]
  BY DEF Updated
<1>2. c.time \in Nat
  BY FmuAssumption DEF Typed, Instance
<1> HIDE DEF d
<1>3. ASSUME NEW i \in Samples
      PROVE  /\ OnTime(i, d.nextSampleTimes[i], d.time, d.activated[i])
             /\ d.time < d.nextSampleTimes[i]
  <2> DEFINE n == c.nextSampleTimes[i]
             z == model.samplesInfo[i].interval
             a == c.activated[i]
             t == c.time
  <2>1. OnTime(i, n, t, a)
    BY DEF Placed
  <2>2. z \in Nat \ {0}
    BY ModelTyped
  <2>3. i \in Active(c) <=> n <= t
    BY DEF Active
  <2>4. CASE i \in Active(c)
    <3>1. d.nextSampleTimes[i] = n + z /\ d.activated[i] = Append(a, t)
      BY <1>1, <2>4 DEF Advanced
    <3> HIDE DEF n, z, a, t
    <3>2. n = t /\ n \in Nat /\ Taken(a, i, n) /\ OnGrid(i, n) /\ \A k \in DOMAIN a : a[k] <= t
      BY <1>2, <2>1, <2>3, <2>4 DEF OnTime, t
    <3>3. Taken(Append(a, n), i, n + z)
      BY <3>2, TakesNext DEF z
    <3>4. OnGrid(i, n + z)
      BY <3>2, GridNext DEF z
    <3>5. n + z \in Nat /\ t < n + z /\ t <= n + z
      BY <2>2, <3>2
    <3>6. \A k \in DOMAIN Append(a, n) : Append(a, n)[k] <= t
      <4>1. a \in Seq(Int) /\ n \in Int
        BY <3>2 DEF Taken
      <4> TAKE k \in DOMAIN Append(a, n)
      <4>2. Append(a, n)[k] = n \/ (k \in DOMAIN a /\ Append(a, n)[k] = a[k])
        BY <4>1
      <4> QED
        BY <3>2, <4>2
    <3>7. OnTime(i, n + z, t, Append(a, n))
      BY <3>3, <3>4, <3>5, <3>6 DEF OnTime
    <3> QED
      BY <1>1, <3>1, <3>2, <3>5, <3>7 DEF t
  <2>5. CASE i \notin Active(c)
    <3>1. d.nextSampleTimes[i] = n /\ d.activated[i] = a /\ d.time = t
      BY <1>1, <2>5 DEF Advanced
    <3> HIDE DEF n, z, a, t
    <3>2. n \in Nat /\ t \in Nat /\ ~(n <= t)
      BY <1>2, <2>1, <2>3, <2>5 DEF OnTime, t
    <3> QED
      BY <2>1, <3>1, <3>2
  <2> QED
    BY <2>4, <2>5
<1> QED
  BY <1>3 DEF Placed, Ahead, d

(* Initialization finds the first point of each sample. *)
LEMMA StartPlaces ==
  ASSUME model \in Models, NEW c, NEW d, Started(c, d), c.time = 0,
         \A i \in Samples : c.activated[i] = <<>>
  PROVE  Placed(d)
<1>1. ASSUME NEW i \in Samples
      PROVE  OnTime(i, d.nextSampleTimes[i], d.time, d.activated[i])
  <2>1. d.nextSampleTimes[i] = FirstTime(i, 0) /\ d.time = 0 /\ d.activated[i] = <<>>
    BY DEF Started
  <2>2. OnGrid(i, FirstTime(i, 0)) /\ FirstTime(i, 0) \in Nat /\ 0 <= FirstTime(i, 0)
    BY FirstOnGrid
  <2>3. OnTime(i, FirstTime(i, 0), 0, <<>>)
    BY <2>2, NoneTaken DEF OnTime
  <2> QED
    BY <2>1, <2>3
<1> QED
  BY <1>1 DEF Placed

(* The time may go as far as the next points. *)
LEMMA TimePlaces ==
  ASSUME model \in Models, NEW c, NEW d, NEW t \in Nat, Placed(c),
         d.nextSampleTimes = c.nextSampleTimes, d.activated = c.activated, d.time = t,
         \A i \in Samples : t <= c.nextSampleTimes[i],
         \A i \in Samples : \A k \in DOMAIN c.activated[i] : c.activated[i][k] <= t
  PROVE  Placed(d)
  BY DEF Placed, OnTime

(* What does not change times and samples does not change their order. *)
LEMMA SamePlaces ==
  ASSUME NEW c, NEW d, d.nextSampleTimes = c.nextSampleTimes, d.activated = c.activated,
         d.time = c.time
  PROVE  (Placed(d) <=> Placed(c)) /\ (Ahead(d) <=> Ahead(c))
  BY DEF Placed, Ahead

(* A new instance has taken no sample. *)
LEMMA InitClock ==
  Init => ClockInv
<1> SUFFICES ASSUME Init PROVE ClockInv
  OBVIOUS
<1>1. /\ comp.state = "Instantiated" /\ comp.time = 0 /\ comp.samples = {}
      /\ comp.activated = [i \in Samples |-> <<>>]
  BY DEF Init
<1> QED
  BY <1>1 DEF ClockInv, ClockAt

(* A call that computes and no more. *)
LEMMA ComputedClock ==
  ASSUME TypeInv, ClockInv, NEW o, Computed(comp, comp.time, o),
         NEW imp, comp.state # "Instantiated",
         imp.from = importer.from \/ imp.from = comp.time,
         NEW pc, pc = step.pc \/ pc \notin {"idle", "loop"} \/ o.status # "fmi2OK"
  PROVE  ClockAt(o.comp, eventInfo, imp, pc)
<1> SUFFICES ASSUME o.comp.throws = 0
             PROVE  ClockAt(o.comp, eventInfo, imp, pc)
  BY DEF ClockAt
<1>1. comp.throws \in Nat
  BY FmuAssumption DEF TypeInv, Typed, Instance
<1>2. o.status = "fmi2OK" /\ comp.throws = 0
  BY <1>1 DEF Computed
<1> DEFINE d == o.comp
<1>3. /\ d.state = comp.state /\ d.nextSampleTimes = comp.nextSampleTimes
      /\ d.samples = comp.samples /\ d.activated = comp.activated /\ d.time = comp.time
  BY DEF Computed, SameBut
<1> HIDE DEF d
<1>4. (Placed(d) <=> Placed(comp)) /\ (Ahead(d) <=> Ahead(comp))
  BY <1>3, SamePlaces
<1>5. comp.state = "ContinuousTimeMode" /\ model.type = "ME" =>
         \A i \in Samples : \A k \in DOMAIN comp.activated[i] : comp.activated[i][k] <= imp.from
  BY <1>2 DEF ClockInv, ClockAt, Placed, OnTime
<1>6. ClockAt(d, eventInfo, imp, pc)
  BY <1>2, <1>3, <1>4, <1>5 DEF ClockInv, ClockAt
<1> QED
  BY <1>6 DEF d

(* fmi2NewDiscreteStates takes the samples that are due and announces the next. *)
LEMMA NewStatesClock ==
  ASSUME TypeInv, ClockInv, comp.state \in {"EventMode", "ContinuousTimeMode"},
         NEW o \in fmi2NewDiscreteStates(comp), o.comp.throws = 0
  PROVE  /\ o.status = "fmi2OK" /\ comp.throws = 0
         /\ o.comp.samples = {} /\ o.comp.state = comp.state /\ o.comp.time = comp.time
         /\ Placed(o.comp) /\ Ahead(o.comp)
         /\ Announced(o.comp.nextSampleTimes, o.info)
<1>1. Typed(comp) /\ model \in Models /\ comp.throws \in Nat
  BY FmuAssumption DEF TypeInv, Typed, Instance
<1>2. PICK q \in fmi2EventUpdate(comp) : /\ o.comp = q.comp /\ o.status = q.status
                                         /\ \/ Missed(comp, q) /\ o.info = NoEvent
                                            \/ Updated(comp, q) /\ o.info = q.info
  BY <1>1, NewStates
<1>3. ~Missed(comp, q)
  BY <1>1, <1>2 DEF Missed
<1>4. Updated(comp, q) /\ o.info = q.info
  BY <1>2, <1>3
<1>5. comp.throws = 0 /\ q.status = "fmi2OK" /\ q.comp.samples = {} /\ q.comp.state = comp.state
      /\ q.comp.time = comp.time /\ Announced(q.comp.nextSampleTimes, q.info)
  BY <1>2, <1>4 DEF Updated
<1>6. comp.samples = {} /\ Placed(comp)
  BY <1>5 DEF ClockInv, ClockAt
<1>7. Placed(q.comp) /\ Ahead(q.comp)
  BY <1>1, <1>4, <1>6, UpdatePlaces
<1> QED
  BY <1>2, <1>4, <1>5, <1>7

(* fmi2ExitInitializationMode takes the samples at the start. *)
LEMMA ExitsClock ==
  ASSUME TypeInv, ClockInv, comp.state = "InitializationMode",
         NEW o \in ExitInitializationMode(comp), NEW imp, NEW pc
  PROVE  ClockAt(o.comp, o.info, imp, pc)
<1> SUFFICES ASSUME o.comp.throws = 0
             PROVE  ClockAt(o.comp, o.info, imp, pc)
  BY DEF ClockAt
<1>1. comp.throws \in Nat /\ model \in Models
  BY FmuAssumption DEF TypeInv, Typed, Instance
<1>2. CASE Refused(comp, o)
  BY <1>2 DEF Refused, ClockInv, ClockAt
<1>3. CASE ExitInterrupted(comp, o)
  BY <1>1, <1>3 DEF ExitInterrupted, Computed, Entered
<1>4. CASE ExitWithoutSamples(comp, o)
  <2>1. PICK d : Samples = {} /\ Started(comp, d) /\ Entered(d, o.comp)
    BY <1>4 DEF ExitWithoutSamples
  <2>2. comp.throws = 0 /\ o.comp.samples = comp.samples /\ o.comp.state = "EventMode"
    BY <2>1 DEF Started, Entered
  <2>3. Placed(o.comp)
    BY <2>1 DEF Placed
  <2> QED
    BY <2>1, <2>2, <2>3 DEF ClockInv, ClockAt
<1>5. CASE ExitUpdated(comp, o)
  <2>1. PICK d, p : /\ Started(comp, d) /\ (Missed(d, p) \/ Updated(d, p))
                    /\ o.info = p.info /\ Entered(p.comp, o.comp)
    BY <1>5 DEF ExitUpdated
  <2>2. p.comp.throws = 0 /\ d.throws \in Nat /\ d.throws = comp.throws
    BY <1>1, <2>1 DEF Entered, Started
  <2>3. ~Missed(d, p)
    BY <2>2 DEF Missed
  <2>4. Updated(d, p)
    BY <2>1, <2>3
  <2>5. comp.throws = 0
    BY <2>2, <2>4 DEF Updated
  <2>6. comp.samples = {} /\ comp.time = 0 /\ \A i \in Samples : comp.activated[i] = <<>>
    BY <2>5 DEF ClockInv, ClockAt
  <2>7. Typed(d) /\ d.samples = {}
    BY <2>1, <2>6 DEF Started, Typed
  <2>8. Placed(d)
    BY <1>1, <2>1, <2>6, StartPlaces
  <2>9. Placed(p.comp)
    BY <1>1, <2>4, <2>7, <2>8, UpdatePlaces
  <2>10. Placed(o.comp) /\ Announced(o.comp.nextSampleTimes, o.info) /\ o.comp.samples = {} /\ o.comp.state = "EventMode"
    BY <2>1, <2>4, <2>9, SamePlaces DEF Entered, Updated
  <2> QED
    BY <2>10 DEF ClockAt
<1> QED
  BY <1>1, <1>2, <1>3, <1>4, <1>5, Exits DEF TypeInv

(* Every call of the importer that returns at once keeps ClockInv. *)
LEMMA IdleStepClock ==
  ASSUME TypeInv, ClockInv,
         \/ CallEnterInitializationMode \/ CallExitInitializationMode
         \/ CallGetValues \/ CallSetValues \/ CallTerminate \/ CallReset \/ IllegalCall
         \/ ModelExchange
  PROVE  ClockInv'
<1>1. comp \in Instance /\ comp.time \in Nat /\ model \in Models /\ importer \in Importers
      /\ model.type \in {"ME", "CS"} /\ comp.throws \in Nat
  BY FmuAssumption, ModelTyped DEF TypeInv, Typed, Instance
<1>2. step.pc = "idle" /\ step' = step /\ model' = model
  BY IdleCalls
<1>3. SUFFICES ClockAt(comp', eventInfo', importer', "idle")
  BY <1>2, ClockPrimed
<1> DEFINE c == comp
           d == comp'
(* A call that only sets the mode. *)
<1>4. ASSUME NEW s \in Mode, comp' = [comp EXCEPT !.state = s]
      PROVE  /\ d.state = s /\ d.nextSampleTimes = c.nextSampleTimes /\ d.samples = c.samples
             /\ d.activated = c.activated /\ d.time = c.time /\ d.throws = c.throws
  BY <1>1, <1>4 DEF Instance
<1>5. CASE CallEnterInitializationMode
  <2>1. /\ comp' = EnterInitializationMode(comp) /\ c.state = "Instantiated" /\ importer.touched
    BY <1>5 DEF CallEnterInitializationMode, Returns, Done, Outcome
  <2>2. /\ d.state = "InitializationMode" /\ d.samples = c.samples
        /\ d.activated = c.activated /\ d.time = c.time /\ d.throws = c.throws
    BY <1>1, <2>1 DEF EnterInitializationMode, Instance
  <2> QED
    BY <2>1, <2>2 DEF ClockInv, ClockAt
<1>6. CASE CallExitInitializationMode
  <2>1. PICK o \in ExitInitializationMode(comp) : comp' = o.comp /\ eventInfo' = o.info
    BY <1>6 DEF CallExitInitializationMode, Returns
  <2>2. comp.state = "InitializationMode"
    BY <1>6 DEF CallExitInitializationMode
  <2> QED
    BY <2>1, <2>2, ExitsClock
<1>7. CASE CallGetValues
  <2>1. PICK o \in GetValues(comp) : comp' = o.comp /\ eventInfo' = o.info
    BY <1>7 DEF CallGetValues, Returns
  <2>2. Computed(comp, comp.time, o) /\ eventInfo' = eventInfo /\ importer' = importer /\ comp.state # "Instantiated"
    BY <1>1, <1>7, <2>1, Gets DEF Computed, CallGetValues
  <2> QED
    BY <1>2, <2>1, <2>2, ComputedClock
<1>8. CASE CallSetValues
  <2>1. /\ comp' = Touched(comp) /\ eventInfo' = eventInfo
        /\ importer' = [importer EXCEPT !.touched = @ \/ model.type = "CS"]
    BY <1>8 DEF CallSetValues, SetValues, Returns, Done, Outcome
  <2>2. /\ importer'.touched = (importer.touched \/ model.type = "CS") /\ importer'.from = importer.from
    BY <1>1, <2>1 DEF Importers
  <2>3. /\ d.state = c.state /\ d.nextSampleTimes = c.nextSampleTimes /\ d.samples = c.samples
        /\ d.activated = c.activated /\ d.time = c.time /\ d.throws = c.throws
    BY <1>1, <2>1, SettersTouch DEF SameBut
  <2>4. (Placed(d) <=> Placed(c)) /\ (Ahead(d) <=> Ahead(c))
    BY <2>3, SamePlaces
  <2> HIDE DEF c, d
  <2>5. ClockAt(d, eventInfo', importer', "idle")
    BY <1>2, <2>1, <2>2, <2>3, <2>4 DEF ClockInv, ClockAt, c
  <2> QED
    BY <2>5 DEF d
<1>9. CASE CallTerminate
  <2>1. comp' = [comp EXCEPT !.state = "Terminated"]
    BY <1>9 DEF CallTerminate, Returns, Done, Outcome
  <2>2. d.state = "Terminated" /\ d.samples = c.samples /\ d.throws = c.throws
    BY <1>4, <2>1 DEF Mode
  <2> QED
    BY <2>2 DEF ClockInv, ClockAt
<1>10. CASE CallReset
  <2>1. /\ comp' = Reset(comp) /\ importer'.touched = FALSE
        /\ model.type = "CS" => comp.state = "Terminated"
    BY <1>10 DEF CallReset, Returns, Done, Outcome
  <2> DEFINE ended == [comp EXCEPT !.time = 0, !.samples = {}, !.nextSampleTimes = [i \in Samples |-> 0]]
             fresh == IF comp.state = "Terminated" THEN ended ELSE comp
             act == [i \in Samples |-> <<>>]
  <2>2. comp' = [fresh EXCEPT !.state = "Instantiated", !.ode = FALSE, !.alg = FALSE, !.rounds = 0,
                              !.activated = act]
    BY <2>1 DEF Reset
  <2>3. /\ ended.time = 0 /\ ended.samples = {} /\ ended.throws = comp.throws
        /\ {"state", "ode", "alg", "rounds", "activated"} \subseteq DOMAIN ended
        /\ {"state", "ode", "alg", "rounds", "activated"} \subseteq DOMAIN comp
    BY <1>1 DEF Instance
  <2> HIDE DEF ended
  <2>4. /\ model.type = "CS" => fresh.time = 0
        /\ comp.samples = {} => fresh.samples = {}
        /\ fresh.throws = comp.throws
        /\ {"state", "ode", "alg", "rounds", "activated"} \subseteq DOMAIN fresh
    BY <2>1, <2>3
  <2> HIDE DEF fresh, act
  <2>5. /\ d.state = "Instantiated" /\ d.activated = act /\ d.time = fresh.time
        /\ d.samples = fresh.samples /\ d.throws = fresh.throws
    BY <2>2, <2>4
  <2>6. \A i \in Samples : act[i] = <<>>
    BY DEF act
  <2> HIDE DEF d
  <2>7. ClockAt(d, eventInfo', importer', "idle")
    BY <2>1, <2>4, <2>5, <2>6 DEF ClockInv, ClockAt
  <2> QED
    BY <2>7 DEF d
<1>11. CASE IllegalCall
  <2>1. comp' = [comp EXCEPT !.state = "Error"]
    BY <1>11 DEF IllegalCall, Returns, Failed, Outcome
  <2>2. d.state = "Error" /\ d.samples = c.samples /\ d.throws = c.throws
    BY <1>4, <2>1 DEF Mode
  <2> QED
    BY <2>2 DEF ClockInv, ClockAt
<1>12. CASE CallNewDiscreteStates
  <2>1. PICK o \in fmi2NewDiscreteStates(comp) : comp' = o.comp /\ eventInfo' = o.info
    BY <1>12 DEF CallNewDiscreteStates, Returns
  <2>2. comp.state = "EventMode" /\ model.type = "ME"
    BY <1>12 DEF CallNewDiscreteStates
  <2>3. comp'.throws = 0 => /\ d.samples = {} /\ d.state = "EventMode" /\ Placed(d)
                            /\ Announced(d.nextSampleTimes, eventInfo')
    BY <2>1, <2>2, NewStatesClock
  <2> QED
    BY <2>3 DEF ClockAt
<1>13. CASE CallEnterContinuousTimeMode
  <2>1. /\ comp' = [comp EXCEPT !.state = "ContinuousTimeMode"] /\ eventInfo' = eventInfo
        /\ importer' = [importer EXCEPT !.from = comp.time]
        /\ comp.state = "EventMode" /\ model.type = "ME"
    BY <1>13 DEF CallEnterContinuousTimeMode, Returns, Done, Outcome
  <2>2. importer'.from = comp.time
    BY <1>1, <2>1 DEF Importers
  <2>3. /\ d.state = "ContinuousTimeMode" /\ d.nextSampleTimes = c.nextSampleTimes /\ d.samples = c.samples
        /\ d.activated = c.activated /\ d.time = c.time /\ d.throws = c.throws
    BY <1>4, <2>1 DEF Mode
  <2>4. (Placed(d) <=> Placed(c)) /\ (Ahead(d) <=> Ahead(c))
    BY <2>3, SamePlaces
  <2>5. d.throws = 0 => \A i \in Samples : \A k \in DOMAIN c.activated[i] : c.activated[i][k] <= comp.time
    BY <2>1, <2>3 DEF ClockInv, ClockAt, Placed, OnTime
  <2> HIDE DEF c, d
  <2>6. ClockAt(d, eventInfo', importer', "idle")
    BY <2>1, <2>2, <2>3, <2>4, <2>5 DEF ClockInv, ClockAt, c
  <2> QED
    BY <2>6 DEF d
<1>14. CASE CallEnterEventMode
  <2>1. /\ comp' = [comp EXCEPT !.state = "EventMode"] /\ eventInfo' = eventInfo
        /\ comp.state = "ContinuousTimeMode" /\ model.type = "ME"
    BY <1>14 DEF CallEnterEventMode, Integrating, Returns, Done, Outcome
  <2>2. /\ d.state = "EventMode" /\ d.nextSampleTimes = c.nextSampleTimes /\ d.samples = c.samples
        /\ d.activated = c.activated /\ d.time = c.time /\ d.throws = c.throws
    BY <1>4, <2>1 DEF Mode
  <2>3. (Placed(d) <=> Placed(c)) /\ (Ahead(d) <=> Ahead(c))
    BY <2>2, SamePlaces
  <2> HIDE DEF c, d
  <2>4. ClockAt(d, eventInfo', importer', "idle")
    BY <2>1, <2>2, <2>3 DEF ClockInv, ClockAt, c
  <2> QED
    BY <2>4 DEF d
<1>15. CASE CallSetTime
  <2>1. importer' = [importer EXCEPT !.touched = TRUE] /\ importer'.from = importer.from /\ importer.from \in Nat
    BY <1>1, <1>15 DEF CallSetTime, Importers
  <2>2. CASE /\ Integrating
             /\ \E t \in importer.from .. Horizon :
                   /\ eventInfo.nextEventTimeDefined => t <= eventInfo.nextEventTime
                   /\ Returns("fmi2SetTime", {Done(fmi2SetTime(comp, t))})
    <3>1. PICK t \in importer.from .. Horizon :
             /\ eventInfo.nextEventTimeDefined => t <= eventInfo.nextEventTime
             /\ Returns("fmi2SetTime", {Done(fmi2SetTime(comp, t))})
      BY <2>2
    <3>2. t \in 0 .. Horizon /\ t \in Nat /\ importer.from <= t
      BY <2>1, FmuAssumption
    <3>3. comp' = fmi2SetTime(comp, t) /\ eventInfo' = eventInfo
      BY <3>1 DEF Returns, Done, Outcome
    <3>4. /\ d.state = c.state /\ d.nextSampleTimes = c.nextSampleTimes /\ d.samples = c.samples
          /\ d.activated = c.activated /\ d.time = t /\ d.throws = c.throws
      BY <1>1, <3>2, <3>3, SettersTouch DEF SameBut
    <3>5. comp.state = "ContinuousTimeMode" /\ model.type = "ME"
      BY <2>2 DEF Integrating
    <3>6. ASSUME comp.throws = 0
          PROVE  Placed(d)
      <4>1. /\ Placed(comp) /\ (Samples # {} => Announced(comp.nextSampleTimes, eventInfo))
            /\ \A i \in Samples : \A k \in DOMAIN comp.activated[i] : comp.activated[i][k] <= importer.from
        BY <3>5, <3>6 DEF ClockInv, ClockAt
      <4>2. \A i \in Samples : t <= comp.nextSampleTimes[i]
        <5> TAKE i \in Samples
        <5>1. t <= eventInfo.nextEventTime /\ eventInfo.nextEventTime \in Nat
              /\ eventInfo.nextEventTime <= comp.nextSampleTimes[i] /\ comp.nextSampleTimes[i] \in Int
          BY <1>1, <3>1, <4>1 DEF Announced, Instance
        <5> QED
          BY <3>2, <5>1
      <4>3. \A i \in Samples : \A k \in DOMAIN comp.activated[i] : comp.activated[i][k] <= t
        <5> TAKE i \in Samples
        <5> TAKE k \in DOMAIN comp.activated[i]
        <5>1. comp.activated[i][k] \in Nat /\ comp.activated[i][k] <= importer.from
          BY <4>1 DEF Placed, OnTime, Taken
        <5> QED
          BY <2>1, <3>2, <5>1
      <4> HIDE DEF d
      <4> QED
        BY <1>1, <3>2, <3>4, <4>1, <4>2, <4>3, TimePlaces
    <3> HIDE DEF c, d
    <3>7. ClockAt(d, eventInfo', importer', "idle")
      BY <2>1, <3>3, <3>4, <3>5, <3>6 DEF ClockInv, ClockAt, c
    <3> QED
      BY <3>7 DEF d
  <2>3. CASE /\ model.type = "ME" /\ comp.state = "Instantiated"
             /\ Returns("fmi2SetTime", {Done(fmi2SetTime(comp, 0))})
    <3>1. comp' = fmi2SetTime(comp, 0) /\ 0 \in 0 .. Horizon
      BY <2>3, FmuAssumption DEF Returns, Done, Outcome
    <3>2. /\ d.state = "Instantiated" /\ d.samples = c.samples
          /\ d.activated = c.activated /\ d.time = 0 /\ d.throws = c.throws
      BY <1>1, <2>3, <3>1, SettersTouch DEF SameBut
    <3> QED
      BY <2>3, <3>2 DEF ClockInv, ClockAt
  <2> QED
    BY <1>15, <2>2, <2>3 DEF CallSetTime
<1>16. CASE CallSetContinuousStates
  <2>1. comp' = Touched(comp) /\ eventInfo' = eventInfo /\ importer' = importer /\ comp.state = "ContinuousTimeMode"
    BY <1>16 DEF CallSetContinuousStates, fmi2SetContinuousStates, Integrating, Returns, Done, Outcome
  <2>2. /\ d.state = c.state /\ d.nextSampleTimes = c.nextSampleTimes /\ d.samples = c.samples
        /\ d.activated = c.activated /\ d.time = c.time /\ d.throws = c.throws
    BY <1>1, <2>1, SettersTouch DEF SameBut
  <2>3. (Placed(d) <=> Placed(c)) /\ (Ahead(d) <=> Ahead(c))
    BY <2>2, SamePlaces
  <2> HIDE DEF c, d
  <2>4. ClockAt(d, eventInfo', importer', "idle")
    BY <1>2, <2>1, <2>2, <2>3 DEF ClockInv, ClockAt, c
  <2> QED
    BY <2>4 DEF d
<1>17. CASE CallGetDerivatives
  <2>1. PICK o \in fmi2GetDerivatives(comp) \cup fmi2GetEventIndicators(comp) : comp' = o.comp /\ eventInfo' = o.info
    BY <1>17 DEF CallGetDerivatives, Returns
  <2>2. Computed(comp, comp.time, o)
    BY <1>1, Derives, Indicates
  <2>3. eventInfo' = eventInfo /\ importer' = importer /\ comp.state # "Instantiated"
    BY <1>17, <2>1, <2>2 DEF Computed, CallGetDerivatives
  <2> QED
    BY <1>2, <2>1, <2>2, <2>3, ComputedClock
<1>18. CASE CallCompletedIntegratorStep
  <2>1. PICK o \in fmi2CompletedIntegratorStep(comp) : comp' = o.comp /\ eventInfo' = o.info
    BY <1>18 DEF CallCompletedIntegratorStep, Returns
  <2>2. Computed(comp, comp.time, o)
    BY <1>1, Completes
  <2>3. eventInfo' = eventInfo /\ importer'.from = comp.time /\ comp.state # "Instantiated"
    BY <1>1, <1>18, <2>1, <2>2 DEF Computed, CallCompletedIntegratorStep, Integrating, Importers
  <2> QED
    BY <1>2, <2>1, <2>2, <2>3, ComputedClock
<1> QED
  BY <1>5, <1>6, <1>7, <1>8, <1>9, <1>10, <1>11, <1>12, <1>13, <1>14, <1>15, <1>16, <1>17, <1>18
     DEF ModelExchange

(* fmi2EventIteration keeps ClockInv. *)
LEMMA IterationClock ==
  ASSUME TypeInv, ClockInv, StepMode, EventIteration
  PROVE  ClockInv'
<1>1. PICK o, p : Iterates(o, p)
  BY IterationCases
<1>2. /\ step.pc \in {"iterate", "settle"} /\ step.pc # "idle" /\ model' = model /\ importer' = importer
      /\ eventInfo' = o.info /\ o \in fmi2NewDiscreteStates(comp)
  BY <1>1, IterationCases DEF Iterates
<1>3. comp.state \in {"EventMode", "ContinuousTimeMode"} /\ model.type = "CS"
  BY <1>2 DEF StepMode, TypeInv, InStep
<1>4. SUFFICES ClockAt(comp', eventInfo', importer', step'.pc)
  BY <1>2, ClockPrimed
<1>5. o.comp.throws = 0 =>
        /\ o.comp.samples = {} /\ o.comp.state = comp.state /\ o.comp.time = comp.time
        /\ Placed(o.comp) /\ Ahead(o.comp)
        /\ Announced(o.comp.nextSampleTimes, o.info)
  BY <1>2, <1>3, NewStatesClock
<1>6. CASE o.info.newDiscreteStatesNeeded
  <2>1. comp' = o.comp
    BY <1>1, <1>6 DEF Iterates
  <2> QED
    BY <1>2, <1>3, <1>5, <2>1 DEF ClockAt
<1>7. CASE ~o.info.newDiscreteStatesNeeded
  <2>1. Computed(o.comp, o.comp.time, p)
    BY <1>1, <1>7 DEF Iterates
  <2>2. o.comp.throws \in Nat /\ o.comp \in Instance /\ p.comp \in Instance
    BY <1>2, <2>1, NewStatesKept, FmuAssumption DEF Kept, Typed, Instance, Computed, SameBut
  <2>3. CASE p.status = "fmi2OK"
    <3>1. comp' = [p.comp EXCEPT !.state = "ContinuousTimeMode"]
      BY <1>1, <1>7, <2>3 DEF Iterates
    <3> DEFINE d == comp'
    <3>2. /\ d.state = "ContinuousTimeMode" /\ d.nextSampleTimes = p.comp.nextSampleTimes
          /\ d.samples = p.comp.samples /\ d.activated = p.comp.activated
          /\ d.time = p.comp.time /\ d.throws = p.comp.throws
      BY <2>2, <3>1 DEF Instance
    <3>3. /\ d.nextSampleTimes = o.comp.nextSampleTimes /\ d.samples = o.comp.samples
          /\ d.activated = o.comp.activated /\ d.time = o.comp.time
          /\ d.throws = 0 => o.comp.throws = 0
      BY <2>1, <2>2, <2>3, <3>2 DEF Computed, SameBut
    <3>4. (Placed(d) <=> Placed(o.comp)) /\ (Ahead(d) <=> Ahead(o.comp))
      BY <3>3, SamePlaces
    <3> HIDE DEF d
    <3>5. ClockAt(d, eventInfo', importer', step'.pc)
      BY <1>2, <1>3, <1>5, <3>2, <3>3, <3>4 DEF ClockAt
    <3> QED
      BY <3>5 DEF d
  <2>4. CASE p.status # "fmi2OK"
    <3>1. comp' = p.comp
      BY <1>1, <1>7, <2>4 DEF Iterates
    <3>2. comp'.throws # 0
      BY <2>1, <2>2, <2>4, <3>1 DEF Computed
    <3> QED
      BY <3>2 DEF ClockAt
  <2> QED
    BY <2>3, <2>4
<1> QED
  BY <1>6, <1>7

(* While nothing is thrown an Euler step goes forward, and not past a sample. *)
LEMMA EulerPlaces ==
  ASSUME TypeInv, step.pc = "loop", comp.time < tEnd, Placed(comp), Ahead(comp),
         Samples # {} => Announced(comp.nextSampleTimes, eventInfo)
  PROVE  /\ \A i \in Samples : tNext <= comp.nextSampleTimes[i]
         /\ ~TimeEvent => \A i \in Samples : tNext < comp.nextSampleTimes[i]
         /\ \A i \in Samples : \A k \in DOMAIN comp.activated[i] : comp.activated[i][k] <= tNext
<1>1. comp.time \in Nat /\ Horizon \in Nat /\ comp.nextSampleTimes \in [Samples -> Nat]
  BY FmuAssumption DEF TypeInv, Typed, Instance
<1>2. Point \in 0 .. Horizon /\ comp.time < Point
  BY PointIsAhead
<1>3. ASSUME NEW i \in Samples
      PROVE  /\ comp.time < tNext /\ tNext \in Int /\ tNext <= comp.nextSampleTimes[i]
             /\ ~TimeEvent => tNext < comp.nextSampleTimes[i]
  <2>1. Announced(comp.nextSampleTimes, eventInfo)
    OBVIOUS
  <2>2. /\ eventInfo.nextEventTimeDefined /\ eventInfo.nextEventTime \in Nat
        /\ eventInfo.nextEventTime <= comp.nextSampleTimes[i]
    BY <2>1 DEF Announced
  <2>3. comp.time < eventInfo.nextEventTime
    BY <2>1 DEF Announced, Ahead
  <2>4. CASE TimeEvent
    <3>1. tNext = eventInfo.nextEventTime
      BY <2>4 DEF tNext
    <3> QED
      BY <2>2, <2>3, <2>4, <3>1
  <2>5. CASE ~TimeEvent
    <3>1. tNext = Point /\ ~(eventInfo.nextEventTime <= Point)
      BY <2>2, <2>5 DEF tNext, TimeEvent
    <3> QED
      BY <1>1, <1>2, <2>2, <3>1
  <2> QED
    BY <2>4, <2>5
<1>4. ASSUME NEW i \in Samples, NEW k \in DOMAIN comp.activated[i]
      PROVE  comp.activated[i][k] <= tNext
  <2>1. comp.activated[i][k] \in Nat /\ comp.activated[i][k] <= comp.time
    BY DEF Placed, OnTime, Taken
  <2> QED
    BY <1>1, <1>3, <2>1
<1> QED
  BY <1>3, <1>4

(* An Euler step keeps ClockInv. *)
LEMMA EulerClock ==
  ASSUME TypeInv, ClockInv, StepMode, EulerStep,
         step.pc = "loop" => comp.state = "ContinuousTimeMode"
  PROVE  ClockInv'
<1>1. PICK o : \E enter, crossed \in BOOLEAN : EulerCase(o, enter, crossed)
  BY EulerCases
<1>2. PICK enter \in BOOLEAN, crossed \in BOOLEAN : EulerCase(o, enter, crossed)
  BY <1>1
<1>3. /\ step.pc = "loop" /\ step.pc # "idle" /\ comp.time < tEnd /\ model' = model
      /\ importer' = importer /\ comp.state = "ContinuousTimeMode" /\ model.type = "CS"
  BY EulerCases DEF TypeInv, InStep
<1>4. tNext \in 0 .. Horizon /\ tNext \in Nat
  BY <1>3, NextIsAhead, FmuAssumption
<1>5. /\ comp' = o.comp /\ o \in Integrated
      /\ \/ Computed(comp, tNext, o)
         \/ Computed(comp, comp.time, o) /\ o.status # "fmi2OK"
  BY <1>2, <1>4, Integrates DEF EulerCase, TypeInv, Typed
<1>6. SUFFICES ASSUME comp'.throws = 0
               PROVE  ClockAt(comp', eventInfo', importer', step'.pc)
  BY <1>3, ClockPrimed DEF ClockAt
<1>7. comp.throws \in Nat /\ model \in Models /\ comp.nextSampleTimes \in [Samples -> Nat]
  BY FmuAssumption DEF TypeInv, Typed, Instance
<1>8. o.status = "fmi2OK" /\ comp.throws = 0 /\ Computed(comp, tNext, o)
  BY <1>5, <1>6, <1>7 DEF Computed
<1> DEFINE d == comp'
<1>9. /\ d.state = "ContinuousTimeMode" /\ d.nextSampleTimes = comp.nextSampleTimes
      /\ d.samples = comp.samples /\ d.activated = comp.activated /\ d.time = tNext
  BY <1>3, <1>5, <1>8 DEF Computed, SameBut
<1>10. /\ Placed(comp) /\ Ahead(comp) /\ comp.samples = {}
       /\ Samples # {} => Announced(comp.nextSampleTimes, eventInfo)
  BY <1>3, <1>8 DEF ClockInv, ClockAt
<1> DEFINE z == step.zc_event \/ crossed
           t == step.time_event \/ TimeEvent
           e == enter \/ z \/ t
           pc == IF e THEN "settle" ELSE "loop"
<1>11. step' = StepWith(z, t, pc) /\ eventInfo' = [eventInfo EXCEPT !.newDiscreteStatesNeeded = e]
  BY <1>2, <1>8 DEF EulerCase, StepWith
<1>12. z \in BOOLEAN /\ t \in BOOLEAN /\ e \in BOOLEAN /\ pc \in {"idle", "iterate", "loop", "settle"}
       /\ (pc \in {"idle", "loop"} => ~TimeEvent)
  BY DEF TimeEvent, TypeInv
<1> HIDE DEF z, t, e, pc
<1>13. step'.pc = pc
  BY <1>11, <1>12, PcTyped DEF StepTo
<1>14. /\ eventInfo'.nextEventTimeDefined = eventInfo.nextEventTimeDefined
       /\ eventInfo'.nextEventTime = eventInfo.nextEventTime
  BY <1>11 DEF TypeInv, Announcement, Infos
<1>15. /\ \A i \in Samples : tNext <= comp.nextSampleTimes[i]
       /\ ~TimeEvent => \A i \in Samples : tNext < comp.nextSampleTimes[i]
       /\ \A i \in Samples : \A k \in DOMAIN comp.activated[i] : comp.activated[i][k] <= tNext
  BY <1>3, <1>10, EulerPlaces
<1> HIDE DEF d
<1>16. Placed(d)
  BY <1>4, <1>7, <1>9, <1>10, <1>15, TimePlaces
<1>17. ~TimeEvent => Ahead(d)
  BY <1>9, <1>15 DEF Ahead
<1>18. Samples # {} => Announced(d.nextSampleTimes, eventInfo')
  BY <1>9, <1>10, <1>14 DEF Announced
<1>19. ClockAt(d, eventInfo', importer', step'.pc)
  BY <1>3, <1>9, <1>10, <1>12, <1>13, <1>16, <1>17, <1>18 DEF ClockAt
<1> QED
  BY <1>19 DEF d

(* The loop runs in Continuous-Time Mode. *)
LoopMode == step.pc \in {"loop", "settle"} => comp.state = "ContinuousTimeMode"

(* LoopMode is inductive. *)
LEMMA LoopModeStep ==
  ASSUME TypeInv, LoopMode, [Next]_vars
  PROVE  LoopMode'
<1>1. CASE UNCHANGED vars
  BY <1>1 DEF LoopMode, vars
<1>2. CASE EventIteration
  <2>1. PICK o, p : Iterates(o, p)
    BY <1>2, IterationCases
  <2>2. o \in fmi2NewDiscreteStates(comp) /\ step.pc \in {"iterate", "settle"}
    BY <1>2, <2>1, IterationCases DEF Iterates
  <2>3. o.comp.state = comp.state
    BY <2>2, NewStatesCurrent
  <2>4. CASE o.info.newDiscreteStatesNeeded
    BY <2>1, <2>2, <2>3, <2>4 DEF Iterates, LoopMode
  <2>5. CASE ~o.info.newDiscreteStatesNeeded /\ p.status = "fmi2OK"
    <3>1. comp' = [p.comp EXCEPT !.state = "ContinuousTimeMode"] /\ p.comp \in Instance
      BY <2>1, <2>5 DEF Iterates, Computed, SameBut
    <3>2. comp'.state = "ContinuousTimeMode"
      BY <3>1 DEF Instance
    <3> QED
      BY <3>2 DEF LoopMode
  <2>6. CASE ~o.info.newDiscreteStatesNeeded /\ p.status # "fmi2OK"
    <3>1. Return("fmi2Error")
      BY <2>1, <2>6 DEF Iterates
    <3>2. step'.pc = "idle"
      BY <3>1, ReturnTyped DEF StepTo
    <3> QED
      BY <3>2 DEF LoopMode
  <2> QED
    BY <2>4, <2>5, <2>6
<1>3. CASE EulerStep
  <2>1. PICK o : \E enter, crossed \in BOOLEAN : EulerCase(o, enter, crossed)
    BY <1>3, EulerCases
  <2>2. o \in Integrated /\ comp' = o.comp
    BY <2>1 DEF EulerCase
  <2>3. step.pc = "loop" /\ comp.state = "ContinuousTimeMode" /\ comp.time < tEnd
    BY <1>3, EulerCases DEF LoopMode
  <2>4. tNext \in 0 .. Horizon /\ comp \in Instance
    BY <2>3, NextIsAhead DEF TypeInv, Typed
  <2>5. o.comp.state = comp.state
    BY <2>2, <2>4, Integrates DEF Computed, SameBut
  <2> QED
    BY <2>2, <2>3, <2>5 DEF LoopMode
<1>4. CASE DoStepReturns
  BY <1>4, ReturnTyped DEF DoStepReturns, StepTo, LoopMode
<1>5. CASE \E size \in 1 .. Horizon : DoStep(size)
  <2>1. step'.pc = "iterate"
    BY <1>5 DEF DoStep, Idle
  <2> QED
    BY <2>1 DEF LoopMode
<1>6. CASE \/ CallEnterInitializationMode \/ CallExitInitializationMode
           \/ CallGetValues \/ CallSetValues \/ CallTerminate \/ CallReset \/ IllegalCall
           \/ ModelExchange
  BY <1>6, IdleCalls DEF LoopMode
<1>7. CASE Crash
  BY <1>7, CrashTyped DEF LoopMode
<1> QED
  BY <1>1, <1>2, <1>3, <1>4, <1>5, <1>6, <1>7 DEF Next, InDoStep

(* ClockInv is inductive. *)
LEMMA ClockStep ==
  ASSUME TypeInv, StepMode, LoopMode, ClockInv, [Next]_vars
  PROVE  ClockInv'
<1>1. CASE UNCHANGED vars
  <2>1. ClockAt(comp', eventInfo', importer', step'.pc) /\ model' = model
    BY <1>1 DEF ClockInv, vars
  <2> QED
    BY <2>1, ClockPrimed
<1>2. CASE EventIteration
  BY <1>2, IterationClock
<1>3. CASE EulerStep
  BY <1>3, EulerClock DEF LoopMode
<1>4. CASE DoStepReturns
  <2>1. /\ step.pc = "loop" /\ model' = model /\ comp' = comp /\ eventInfo' = eventInfo /\ importer' = importer
        /\ Return("fmi2OK")
    BY <1>4 DEF DoStepReturns
  <2>2. step'.pc = "idle"
    BY <2>1, ReturnTyped DEF StepTo
  <2>3. ClockAt(comp, eventInfo, importer, "idle")
    BY <2>1 DEF ClockInv, ClockAt
  <2> QED
    BY <2>1, <2>2, <2>3, ClockPrimed
<1>5. CASE \E size \in 1 .. Horizon : DoStep(size)
  <2>1. /\ model' = model /\ comp.state \in {"EventMode", "ContinuousTimeMode"} /\ model.type = "CS"
        /\ comp' = [comp EXCEPT !.state = "EventMode", !.rounds = 0]
    BY <1>5 DEF DoStep
  <2> DEFINE d == comp'
  <2>2. /\ d.state = "EventMode" /\ d.nextSampleTimes = comp.nextSampleTimes
        /\ d.samples = comp.samples /\ d.activated = comp.activated
        /\ d.time = comp.time /\ d.throws = comp.throws
    BY <2>1 DEF TypeInv, Typed, Instance
  <2>3. Placed(d) <=> Placed(comp)
    BY <2>2, SamePlaces
  <2> HIDE DEF d
  <2>4. ClockAt(d, eventInfo', importer', step'.pc)
    BY <2>1, <2>2, <2>3 DEF ClockInv, ClockAt
  <2> QED
    BY <2>1, <2>4, ClockPrimed DEF d
<1>6. CASE \/ CallEnterInitializationMode \/ CallExitInitializationMode
           \/ CallGetValues \/ CallSetValues \/ CallTerminate \/ CallReset \/ IllegalCall
           \/ ModelExchange
  BY <1>6, IdleStepClock
<1>7. CASE Crash
  <2>1. comp'.throws # 0 /\ model' = model
    BY <1>7, CrashTyped DEF Crash
  <2>2. ClockAt(comp', eventInfo', importer', step'.pc)
    BY <2>1 DEF ClockAt
  <2> QED
    BY <2>1, <2>2, ClockPrimed
<1> QED
  BY <1>1, <1>2, <1>3, <1>4, <1>5, <1>6, <1>7 DEF Next, InDoStep

(* In Continuous-Time Mode the samples taken are the points up to the time. *)
LEMMA ClockImplies ==
  ASSUME TypeInv, ClockInv
  PROVE  SamplesOnTime
<1> SUFFICES ASSUME comp.state = "ContinuousTimeMode", step.pc = "idle", comp.throws = 0, NEW i \in Samples
             PROVE  LET points == {p \in 0 .. comp.time :
                              /\ p >= model.samplesInfo[i].start
                              /\ (p - model.samplesInfo[i].start) % model.samplesInfo[i].interval = 0}
                        active == comp.activated[i]
                    IN /\ \A k \in 2 .. Len(active) : active[k - 1] < active[k]
                       /\ {active[k] : k \in DOMAIN active} \in
                             IF model.type = "CS" THEN {points} ELSE {points, points \ {comp.time}}
  BY DEF SamplesOnTime
<1> DEFINE points == {p \in 0 .. comp.time :
                              /\ p >= model.samplesInfo[i].start
                              /\ (p - model.samplesInfo[i].start) % model.samplesInfo[i].interval = 0}
           a == comp.activated[i]
           n == comp.nextSampleTimes[i]
           t == comp.time
           taken == {a[k] : k \in DOMAIN a}
<1>1. model \in Models /\ t \in Nat /\ model.type \in {"ME", "CS"}
  BY FmuAssumption, ModelTyped DEF TypeInv, Typed, Instance
<1>2. OnTime(i, n, t, a) /\ (model.type = "CS" => t < n)
  BY DEF ClockInv, ClockAt, Placed, Ahead
<1>3. n \in Nat /\ t <= n /\ Taken(a, i, n)
  BY <1>2 DEF OnTime
<1>4. \A p : p \in points <=> p \in Nat /\ p <= t /\ OnGrid(i, p)
  <2> TAKE p
  <2>1. p \in 0 .. comp.time <=> p \in Nat /\ p <= t
    BY <1>1
  <2>2. p \in Nat => (OnGrid(i, p) <=> /\ p >= model.samplesInfo[i].start
                              /\ (p - model.samplesInfo[i].start) % model.samplesInfo[i].interval = 0)
    BY <1>1, GridIsModulo
  <2> QED
    BY <2>1, <2>2
<1>5. \A k \in DOMAIN a : a[k] \in Nat /\ OnGrid(i, a[k]) /\ a[k] < n /\ a[k] <= t
  BY <1>2 DEF OnTime, Taken
<1>6. \A q \in Nat : OnGrid(i, q) /\ q < n => \E k \in DOMAIN a : a[k] = q
  BY <1>3 DEF Taken
<1>7. \A k \in 2 .. Len(a) : a[k - 1] < a[k]
  BY <1>3 DEF Taken
<1> HIDE DEF points, a, n, t
<1>8. \A q : q \in taken <=> q \in Nat /\ OnGrid(i, q) /\ q < n /\ q <= t
  BY <1>5, <1>6
<1> HIDE DEF taken
<1>9. CASE t < n
  <2>1. \A q \in Nat : q <= t => q < n
    BY <1>1, <1>3, <1>9
  <2>2. taken = points
    BY <1>4, <1>8, <2>1
  <2> QED
    BY <1>7, <2>2 DEF taken, points, a, t
<1>10. CASE ~(t < n)
  <2>1. n = t /\ model.type = "ME"
    BY <1>1, <1>2, <1>3, <1>10
  <2>2. \A q \in Nat : q < n <=> (q <= t /\ q # t)
    BY <1>1, <1>3, <2>1
  <2>3. taken = points \ {t}
    BY <1>4, <1>8, <2>2
  <2> QED
    BY <1>7, <2>1, <2>3 DEF taken, points, a, t
<1> QED
  BY <1>9, <1>10

(* Every point of a sample up to the present time was active once and in order, for
   every model and all bounds. *)
THEOREM SamplesStayOnTime == Spec => []SamplesOnTime
<1> DEFINE All == TypeInv /\ (CurrentInv /\ StepMode) /\ LoopMode /\ ClockInv
<1>1. Init => All
  BY InitTyped, InitCurrent, InitClock DEF Init, Idle, StepMode, LoopMode
<1>2. All /\ [Next]_vars => All'
  BY TypeStep, CurrentStep, LoopModeStep, ClockStep
<1>3. All => SamplesOnTime
  BY ClockImplies
<1> QED
  BY <1>1, <1>2, <1>3, PTL DEF Spec
=============================================================================
