--------------------------- MODULE MCDelayBuffer ---------------------------
(***************************************************************************)
(* A buffer that starts with room for two rows and is enlarged twice;      *)
(* delays of none, of one step and of several steps.                       *)
(***************************************************************************)
EXTENDS DelayBuffer

CONSTANT calloced                \* a row of a fresh array
MCStartTimes == {-4, 0}
MCDelays == {0, 2, 4, 10, 24}
MCStepSizes == {0, 4, 8}
=============================================================================
