---------------------------- MODULE MCSyncTimers ----------------------------
(***************************************************************************)
(* Base clocks with intervals of 6 and 12 units, one that changes, and a   *)
(* Boolean clock; sub clocks of subSample, superSample and backSample.     *)
(***************************************************************************)
EXTENDS SyncTimers

Of(shift, factor, hold) == [shift |-> shift, factor |-> factor, holdEvents |-> hold]
Clock(d, sub) == [isBoolClock |-> FALSE, intervals |-> d, subs |-> sub]
BooleanClock(hold) ==
    [isBoolClock |-> TRUE, intervals |-> {0}, subs |-> <<Of(Rat(0, 1), Rat(1, 1), hold)>>]
With(start, clks) == [start |-> start, clocks |-> clks]

Slow == Clock({12}, <<Of(Rat(0, 1), Rat(1, 2), FALSE), Of(Rat(0, 1), Rat(2, 1), TRUE),
                      Of(Rat(-1, 2), Rat(1, 1), FALSE)>>)
Fast == Clock({6}, <<Of(Rat(0, 1), Rat(3, 2), TRUE), Of(Rat(-1, 3), Rat(1, 3), FALSE)>>)
Changing == Clock({4, 10}, <<Of(Rat(0, 1), Rat(1, 2), FALSE), Of(Rat(-1, 2), Rat(3, 2), TRUE)>>)

MCModels == {With(0, <<Slow, Fast>>), With(0, <<Changing, Fast>>), With(7, <<Slow, Changing>>),
             With(-5, <<Fast>>), With(0, <<BooleanClock(FALSE), Slow, BooleanClock(TRUE)>>)}

(* shiftSample(u, 1, 2) *)
Shifted == {With(0, <<Clock({6}, <<Of(Rat(1, 2), Rat(1, 1), FALSE)>>)>>)}
=============================================================================
