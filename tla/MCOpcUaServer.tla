-------------------------- MODULE MCOpcUaServer ---------------------------
(* Instances of OpcUaServer for TLC. *)
EXTENDS OpcUaServer

\* "real" is left out: readReal treats it as it treats "time".  A run request
\* in both directions, a step, and every write callback.
MCRequests ==
  {[node |-> "time"], [node |-> "flag"]}
    \cup [node : {"bool"}, i : Booleans]
    \cup [node : {"run", "enableStopTime"}, val : BOOLEAN]
    \cup {[node |-> "step", val |-> TRUE]}
    \cup [node : {"scaling"}, val : {0}]
    \cup [node : {"input"}, i : Inputs, val : Values]
    \cup [node : {"state"}, i : States, val : Values]

\* A client that pauses, steps and runs the simulation, and reads nothing.
StepRequests ==
  [node : {"run"}, val : BOOLEAN] \cup {[node |-> "step", val |-> TRUE]}

\* The test client of the repository: it steps, reads while paused, then runs.
PausedReadRequests ==
  {[node |-> "time"], [node |-> "step", val |-> TRUE], [node |-> "run", val |-> TRUE]}

\* A client that switches real-time synchronisation on and off.
ScalingRequests ==
  [node : {"scaling"}, val : {0, 1}] \cup {[node |-> "run", val |-> TRUE]}

\* Values are only compared for equality, so that one choice of the initial ones
\* stands for all.
MCInit ==
  /\ Init
  /\ \E v \in {CHOOSE u \in Values : TRUE} :
       /\ inputVars = [i \in Inputs |-> v]
       /\ stateVars = [s \in States |-> v]
       /\ updatedStates = [s \in States |-> v]

MCSpec == MCInit /\ [][Next]_vars /\ Fairness
=============================================================================
