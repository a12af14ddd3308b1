--------------------------- MODULE ClockSchedule ---------------------------
(***************************************************************************)
(* What a model's clocks promise: a base clock ticks at the ends of its    *)
(* intervals, and a sub clock with a factor and a shift ticks where        *)
(* shift + k * factor falls into the intervals of its base clock: no tick  *)
(* is left out, none happens twice, and those of one interval have         *)
(* happened before the next interval begins.                               *)
(***************************************************************************)
EXTENDS Integers, FiniteSets

CONSTANTS Eps,                   \* SYNC_EPS
          MaxIntervals           \* a clock has fewer intervals than this

VARIABLES
    model,                       \* the clocks
    now,                         \* time
    fired,                       \* fired[c]: how often base clock c has ticked
    ran                          \* ran[s]: how often sub clock s has ticked

schedVars == <<model, now, fired, ran>>

Subs == DOMAIN ran
Factor(s) == model.clocks[s[1]].subs[s[2]].factor
Shift(s) == model.clocks[s[1]].subs[s[2]].shift

(* k is a tick of s in the first n intervals: 0 <= shift + k * factor < n. *)
IsTick(s, k, n) ==
    LET at == Shift(s).m * Factor(s).n + k * Factor(s).m * Shift(s).n
    IN 0 <= at /\ at < n * Shift(s).n * Factor(s).n
TickNumbers == -(3 * MaxIntervals) .. 3 * MaxIntervals
Planned(s, n) == Cardinality({k \in TickNumbers : IsTick(s, k, n)})

(* When ticks are due, for a clock whose interval does not change; for a sub
   clock only if the simulation starts at time 0. *)
IsRegular(c) == Cardinality(model.clocks[c].intervals) = 1 /\ ~model.clocks[c].isBoolClock
Interval(c) == CHOOSE d \in model.clocks[c].intervals : TRUE
TickNo(s, n) ==
    (CHOOSE k \in TickNumbers : IsTick(s, k, MaxIntervals) /\ ~IsTick(s, k - 1, MaxIntervals))
        + n - 1
DueTime(s, n) ==
    (Interval(s[1]) * (Shift(s).m * Factor(s).n + TickNo(s, n) * Factor(s).m * Shift(s).n))
        \div (Shift(s).n * Factor(s).n)

Now(t) == t \in now - Eps .. now + Eps

SchedInit == /\ fired = [c \in DOMAIN model.clocks |-> 0]
             /\ \A s \in Subs : ran[s] = 0
             /\ now = model.start

BaseTick(c) ==
    /\ \A s \in Subs : s[1] = c => ran[s] = Planned(s, fired[c])
    /\ IsRegular(c) => Now(model.start + fired[c] * Interval(c))
    /\ fired' = [fired EXCEPT ![c] = @ + 1]
    /\ UNCHANGED <<model, now, ran>>

SubTick(s) ==
    /\ ran[s] < Planned(s, fired[s[1]])
    /\ ran' = [ran EXCEPT ![s] = @ + 1]
    /\ IsRegular(s[1]) /\ model.start = 0 => Now(DueTime(s, ran'[s]))
    /\ UNCHANGED <<model, now, fired>>

Advance == now' > now /\ UNCHANGED <<model, fired, ran>>

SchedNext == \/ Advance
             \/ \E c \in DOMAIN model.clocks : BaseTick(c)
             \/ \E s \in Subs : SubTick(s)

SchedSpec == SchedInit /\ [][SchedNext]_schedVars
============================================================================
