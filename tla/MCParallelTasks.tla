-------------------------- MODULE MCParallelTasks --------------------------
(***************************************************************************)
(* A launch of at most three tasks on at most two threads: two threads     *)
(* compete for the tasks and for the launcher's queue, one of them runs at *)
(* least two tasks, and each task may report two messages.                 *)
(***************************************************************************)
EXTENDS ParallelTasks
=============================================================================
