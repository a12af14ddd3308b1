--------------------------- MODULE EventSchedule ---------------------------
(***************************************************************************)
(* What a simulation promises about the activations that are scheduled     *)
(* for it (samples and ticks of clocks): the accepted time never runs      *)
(* back, no accepted step jumps over an activation, and an activation      *)
(* takes effect once, in the step that reaches its time.                   *)
(*                                                                         *)
(* Times nearer to each other than Eps count as one.  An activation may be *)
(* given up only if the program met an assertion while it handled it.      *)
(***************************************************************************)
EXTENDS Integers

CONSTANTS Eps,                   \* SAMPLE_EPS and SYNC_EPS
          Reach                  \* how far a step may be ahead when it is given up

VARIABLES
    time,                        \* the time of the last accepted step
    activations,                 \* the activations that were scheduled so far
    seen,                        \* those whose effect the accepted variables have
    undone                       \* those an assertion interrupted

schedVars == <<time, activations, seen, undone>>

SchedInit == /\ time = 0
             /\ seen = {}
             /\ undone = {}

Due(t) == {a \in activations : a.at <= t}

(* A step is accepted at time t; activations that an assertion interrupted
   since the last one may be given up. *)
Accept(t) ==
    /\ t >= time
    /\ \A a \in activations \ (seen \cup undone') : a.at >= t - Eps
    /\ seen \subseteq seen'
    /\ seen' \subseteq seen \cup Due(t + Eps)
    /\ Due(t) \subseteq seen' \cup undone'
    /\ undone \subseteq undone'
    /\ undone' \subseteq undone \cup Due(t + Reach)
    /\ seen' \cap undone' = {}
    /\ time' = t
    /\ UNCHANGED activations

(* New activations are scheduled, never before the accepted time. *)
Schedule ==
    /\ activations \subseteq activations'
    /\ \A a \in activations' \ activations : a.at >= time
    /\ UNCHANGED <<time, seen, undone>>

SchedNext == Accept(time') \/ Schedule

SchedSpec == SchedInit /\ [][SchedNext]_schedVars
============================================================================
