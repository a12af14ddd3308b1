------------------------- MODULE MCSimulationLoop -------------------------
(***************************************************************************)
(* Three steps of four units; samples and ticks on the grid, next to it    *)
(* and between its points, alone and together.                             *)
(***************************************************************************)
EXTENDS SimulationLoop

At(t, held) == [at |-> t, hold |-> held]
Every(t, d) == [start |-> t, interval |-> d]

(* A scenario: solver, samples, ticks, clock and the bounds. *)
Run(root, smps, tcks, clk, nCross, nThrow, nRestart) ==
    [rootFinding |-> root, samples |-> smps, ticks |-> tcks, clock |-> clk,
     crossings |-> nCross, throws |-> nThrow, restarts |-> nRestart, abortSlow |-> FALSE]

OnGrid == <<Every(4, 4)>>
OffGrid == <<Every(3, 6), Every(5, 4)>>
TicksOnGrid == <<At(4, TRUE), At(9, TRUE)>>
TicksOffGrid == <<At(3, TRUE), At(5, TRUE), At(7, TRUE)>>

(* Left out of the passing run: ticks that a solver without root finding
   runs before the state event of the same step, and assertions in the step
   of no length that an activation at the start time asks for. *)
Solo == {Run(root, <<>>, <<>>, 0, 3, 1, 0) : root \in BOOLEAN}
        \cup {[Run(root, <<>>, <<>>, 0, 3, 0, 0) EXCEPT !.abortSlow = TRUE] : root \in BOOLEAN}
Sampled == {Run(root, smps, <<>>, 0, 1, 1, 1) : root \in BOOLEAN, smps \in {OnGrid, OffGrid}}
Clocked == {Run(TRUE, smps, tcks, 0, 1, 1, 0) :
               smps \in {<<>>, OnGrid}, tcks \in {TicksOnGrid, TicksOffGrid}}
           \cup {Run(FALSE, OffGrid, tcks, 0, 0, 2, 0) : tcks \in {TicksOnGrid, TicksOffGrid}}
Boolean == {Run(TRUE, OffGrid, TicksOnGrid, 2, 1, 1, 0), Run(FALSE, OnGrid, <<>>, 2, 2, 0, 1)}
Near == {Run(root, <<Every(at + 1, 8)>>, <<At(at, TRUE)>>, 0, 0, 0, 0) : root \in BOOLEAN, at \in {5, 13}}
AtStart == {Run(root, <<Every(0, 4)>>, <<At(0, TRUE)>>, 0, 0, 0, 1) : root \in BOOLEAN}

MCScenarios == Solo \cup Sampled \cup Clocked \cup Boolean \cup Near \cup AtStart

ASSUME RunAssumption == \A m \in MCScenarios : Regular(m) /\ InOrderOfTime(m)

(* A clock of twice the step length whose ticks hold no events. *)
Unheld == {Run(FALSE, <<>>, <<At(0, FALSE), At(8, FALSE)>>, 0, 0, 0, 0)}
=============================================================================
