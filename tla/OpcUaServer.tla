---------------------------- MODULE OpcUaServer ----------------------------
(***************************************************************************)
(* The embedded OPC UA server of a simulation executable                   *)
(* (SimulationRuntime/opc/ua/omc_opc_ua.c).  Two threads share one         *)
(* omc_opc_ua_state:                                                       *)
(*                                                                         *)
(*   the simulation thread  calls omc_wait_for_step once, then             *)
(*                          omc_embedded_server_update after every step,   *)
(*                          and omc_embedded_server_deinit at the end;     *)
(*   the server thread      (threadWork) runs the read and write callbacks *)
(*                          of the nodes, one client request at a time.    *)
(*                                                                         *)
(* A critical section of write_values or mutex_pause is one action here:   *)
(* what it touches is touched nowhere else, or is read by one action of    *)
(* its own where the code reads it without the mutex.  The two             *)
(* mutex_values are modelled as locks, because the code unlocks another    *)
(* one than it has locked.                                                 *)
(***************************************************************************)
EXTENDS Integers, Sequences

CONSTANTS
  Inputs,       \* the top-level inputs of the model
  States,       \* its continuous states
  Values,       \* the values a client writes to them
  Scalings,     \* the real-time scaling factors a client writes
  nVariablesReal, nVariablesBoolean,   \* variables of the model, by type
  Requests,     \* the requests a client may send: a subset of AllRequests
  StopTime,     \* the time at which the simulation loop ends
  MaxTime,      \* bound: no step is simulated beyond this time
  MaxRequests   \* bound: requests the clients send in one behaviour

Booleans == 1..nVariablesBoolean

\* A request names the node it is about.  All Real variables are written and
\* read alike, so one node "real" stands for them; "flag" is a read of step,
\* run or enableStopTime.
AllRequests ==
  [node : {"time", "real", "flag"}]
    \cup [node : {"bool"}, i : Booleans]
    \cup [node : {"step", "run", "enableStopTime"}, val : BOOLEAN]
    \cup [node : {"scaling"}, val : Scalings]
    \cup [node : {"input"}, i : Inputs, val : Values]
    \cup [node : {"state"}, i : States, val : Values]

ASSUME ConstantsAssumption ==
  /\ Scalings \subseteq Nat
  /\ Scalings # {}
  /\ Values # {}
  /\ nVariablesReal \in Nat /\ nVariablesBoolean \in Nat
  /\ Requests \subseteq AllRequests
  /\ StopTime \in Nat
  /\ MaxTime \in Nat
  /\ StopTime <= MaxTime
  /\ MaxRequests \in Nat

\* What a freshly malloc'ed value buffer holds: older than every publication.
Uninit == -1

VARIABLES
  \* control of the simulation thread, and its locals
  simPc,         \* where it stands
  simRun,        \* waitForStep's local copy of run
  old,           \* omc_embedded_server_update's local latestValues
  inUpdate,      \* waitForStep was called by omc_embedded_server_update
  \* control of the server thread, and its locals
  srvPc,
  req,           \* the request in service
  srvBuf,        \* readReal's / readBoolean's local latestValues
  \* omc_opc_ua_state
  run, step,
  scaling,       \* real_time_sync_scaling
  owner,         \* who has locked mutex_values[0] and mutex_values[1]
  latestValues,
  buffer,        \* time[b], realVals[b], boolVals[b]: the time each is from
  inputVarsBackup, gotNewInput,
  reinitStateFlag, stateWasUpdated, updatedStates,
  serverRunning,
  \* DATA of the simulation
  time,          \* localData[0]->timeValue
  useStopTime,
  inputVars,
  stateVars,     \* the states in localData[0]->realVars
  syncScaling, syncEnabled,   \* real_time_sync.scaling, real_time_sync.enabled
  \* the clients
  inbox,         \* the request that waits in the network layer
  sent           \* how many requests were sent

\* History: what was written and read, for the properties.  No guard reads it.
VARIABLES
  published,     \* time of the last publication that was completed
  floor,         \* published, when the read in service looked up its buffer
  answer,        \* what the last read returned
  foreignUnlock, \* an update has unlocked a mutex the server thread had locked
  stepWrites,    \* step := true writes so far
  stepPasses,    \* times waitForStep let the simulation go on without run
  lastInput,     \* the last value the server took over, for each input
  lastState      \* the last value written, for each state

simVars    == <<simPc, simRun, old, inUpdate>>
srvVars    == <<srvPc, req, srvBuf>>
clientVars == <<inbox, sent>>
loopVars   == <<time, serverRunning>>
pauseVars  == <<run, step, useStopTime, stepWrites, stepPasses>>
syncVars   == <<scaling, syncScaling, syncEnabled>>
valueVars  == <<owner, latestValues, buffer, published, floor, answer, foreignUnlock>>
writeVars  == <<inputVars, inputVarsBackup, gotNewInput, lastInput,
                stateVars, updatedStates, stateWasUpdated, reinitStateFlag, lastState>>

vars == <<simVars, srvVars, clientVars, loopVars, pauseVars, syncVars,
          valueVars, writeVars>>

Other(b) == 1 - b

\* addVars copies the initial values to the buffer latestValues selects only.
InitialAge(b) == IF b = 0 THEN 0 ELSE Uninit

\* The state omc_embedded_server_init leaves, with the node table complete.
Init ==
  /\ simPc = "clearStep" /\ simRun = FALSE /\ old = 0 /\ inUpdate = FALSE
  /\ srvPc = "idle" /\ req = [node |-> "flag"] /\ srvBuf = 0
  /\ run = FALSE /\ step = FALSE /\ useStopTime = TRUE
  /\ scaling \in Scalings
  /\ syncScaling = scaling /\ syncEnabled = (scaling # 0)
  /\ owner = [b \in 0..1 |-> "none"] /\ latestValues = 0
  /\ buffer = [b \in 0..1 |-> [time  |-> 0,
                               reals |-> InitialAge(b),
                               bools |-> [i \in Booleans |-> InitialAge(b)]]]
  /\ inputVars \in [Inputs -> Values] /\ inputVarsBackup = inputVars
  /\ stateVars \in [States -> Values] /\ updatedStates \in [States -> Values]
  /\ gotNewInput = FALSE /\ reinitStateFlag = FALSE
  /\ stateWasUpdated = [s \in States |-> FALSE]
  /\ serverRunning = TRUE /\ time = 0
  /\ inbox = <<>> /\ sent = 0
  /\ published = 0 /\ floor = 0 /\ answer = 0 /\ foreignUnlock = FALSE
  /\ stepWrites = 0 /\ stepPasses = 0
  /\ lastInput = inputVars /\ lastState = stateVars

-----------------------------------------------------------------------------
(* The simulation thread: waitForStep.                                     *)

\* The simulation thread goes on to pc; its locals stay as they are.
SimGoto(pc) == simPc' = pc /\ UNCHANGED <<simRun, old, inUpdate>>

\* Mutant: the request for a step is not taken back when it was served.
ClearStepForgotten ==
  /\ simPc = "clearStep"
  /\ SimGoto("enterPause")
  /\ UNCHANGED <<srvVars, clientVars, loopVars, pauseVars, syncVars, valueVars,
                 writeVars>>

\* state->step = 0, before mutex_pause is taken.
ClearStep ==
  /\ simPc = "clearStep"
  /\ step' = FALSE
  /\ SimGoto("enterPause")
  /\ UNCHANGED <<run, useStopTime, stepWrites, stepPasses, srvVars, clientVars,
                 loopVars, syncVars, valueVars, writeVars>>

\* The loop condition, evaluated with mutex_pause held: pthread_cond_wait
\* releases the mutex and parks the thread in one step.
TestPause ==
  /\ simPc' = IF run \/ step THEN "compareScaling" ELSE "parked"
  /\ stepPasses' = IF step /\ ~run THEN stepPasses + 1 ELSE stepPasses
  /\ UNCHANGED <<old, inUpdate, run, step, useStopTime, stepWrites, srvVars,
                 clientVars, loopVars, syncVars, valueVars, writeVars>>

EnterPause == simPc = "enterPause" /\ simRun' = run /\ TestPause

Wake == simPc = "woken" /\ UNCHANGED simRun /\ TestPause

\* pthread_cond_wait may return without a signal.
SpuriousWakeup ==
  /\ simPc = "parked"
  /\ SimGoto("woken")
  /\ UNCHANGED <<srvVars, clientVars, loopVars, pauseVars, syncVars, valueVars,
                 writeVars>>

\* waitForStep returns to omc_wait_for_step or to omc_embedded_server_update.
AfterWait == IF inUpdate THEN "lockValues" ELSE "loop"

\* The three reads of real_time_sync_scaling, none of them under a mutex: the
\* test, the argument of omc_real_time_sync_update, the assignment after it.
CompareScaling ==
  /\ simPc = "compareScaling"
  /\ SimGoto(IF ~simRun \/ syncScaling # scaling THEN "updateSync" ELSE AfterWait)
  /\ UNCHANGED <<srvVars, clientVars, loopVars, pauseVars, syncVars, valueVars,
                 writeVars>>

UpdateSync ==
  /\ simPc = "updateSync"
  /\ syncScaling' = scaling
  /\ syncEnabled' = (scaling # 0)
  /\ SimGoto("storeScaling")
  /\ UNCHANGED <<scaling, srvVars, clientVars, loopVars, pauseVars, valueVars,
                 writeVars>>

StoreScaling ==
  /\ simPc = "storeScaling"
  /\ syncScaling' = scaling
  /\ SimGoto(AfterWait)
  /\ UNCHANGED <<scaling, syncEnabled, srvVars, clientVars, loopVars, pauseVars,
                 valueVars, writeVars>>

-----------------------------------------------------------------------------
(* The simulation thread: omc_embedded_server_update after waitForStep.    *)

\* Mutant: the latest buffer is switched without locking its mutex.
LockValuesUnlocked ==
  /\ simPc = "lockValues"
  /\ old' = latestValues
  /\ latestValues' = Other(latestValues)
  /\ simPc' = "writeTime"
  /\ UNCHANGED <<simRun, inUpdate, owner, buffer, published, floor, answer,
                 foreignUnlock, srvVars, clientVars, loopVars, pauseVars, syncVars,
                 writeVars>>

\* Mutant: the buffer index counts on instead of alternating.
LockValuesCounting ==
  /\ simPc = "lockValues"
  /\ owner[Other(latestValues)] = "none"
  /\ owner' = [owner EXCEPT ![Other(latestValues)] = "sim"]
  /\ old' = latestValues
  /\ latestValues' = latestValues + 1
  /\ simPc' = "writeTime"
  /\ UNCHANGED <<simRun, inUpdate, buffer, published, floor, answer, foreignUnlock,
                 srvVars, clientVars, loopVars, pauseVars, syncVars, writeVars>>

\* Locks the mutex of the buffer that is not the latest, then makes that
\* buffer the latest and keeps the other one to write to.
LockValues ==
  /\ simPc = "lockValues"
  /\ owner[Other(latestValues)] = "none"
  /\ owner' = [owner EXCEPT ![Other(latestValues)] = "sim"]
  /\ old' = latestValues
  /\ latestValues' = Other(latestValues)
  /\ simPc' = "writeTime"
  /\ UNCHANGED <<simRun, inUpdate, buffer, published, floor, answer, foreignUnlock,
                 srvVars,
                 clientVars, loopVars, pauseVars, syncVars, writeVars>>

WriteTime ==
  /\ simPc = "writeTime"
  /\ buffer' = [buffer EXCEPT ![old].time = time]
  /\ SimGoto("writeVars")
  /\ UNCHANGED <<owner, latestValues, published, floor, answer, foreignUnlock,
                 srvVars,
                 clientVars, loopVars, pauseVars, syncVars, writeVars>>

\* Copies the variables.  Both loops run to nVariablesReal, so that only this
\* many Boolean variables are copied.
WriteVars ==
  /\ simPc = "writeVars"
  /\ buffer' = [buffer EXCEPT ![old].reals = time,
                              ![old].bools = [i \in Booleans |->
                                 IF i <= nVariablesReal THEN time ELSE @[i]]]
  /\ SimGoto("unlockValues")
  /\ UNCHANGED <<owner, latestValues, published, floor, answer, foreignUnlock,
                 srvVars,
                 clientVars, loopVars, pauseVars, syncVars, writeVars>>

\* Unlocks the mutex of the buffer it wrote.  That mutex may be free or held by
\* the server thread: glibc's default mutex keeps no owner and is released.
UnlockValues ==
  /\ simPc = "unlockValues"
  /\ owner' = [owner EXCEPT ![old] = "none"]
  /\ published' = time
  /\ foreignUnlock' = (foreignUnlock \/ owner[old] = "srv")
  /\ SimGoto("takeWrites")
  /\ UNCHANGED <<latestValues, buffer, floor, answer, srvVars, clientVars,
                 loopVars, pauseVars, syncVars, writeVars>>

\* The critical section of write_values at the end of the update.
TakeWrites ==
  /\ simPc = "takeWrites"
  /\ inputVars' = IF gotNewInput THEN inputVarsBackup ELSE inputVars
  /\ IF reinitStateFlag
     THEN /\ stateVars' = [s \in States |-> IF stateWasUpdated[s] THEN updatedStates[s]
                                                                 ELSE stateVars[s]]
          /\ stateWasUpdated' = [s \in States |-> FALSE]
     ELSE UNCHANGED <<stateVars, stateWasUpdated>>
  /\ SimGoto("loop")
  /\ UNCHANGED <<inputVarsBackup, gotNewInput, lastInput, updatedStates,
                 reinitStateFlag, lastState, srvVars, clientVars, loopVars,
                 pauseVars, syncVars, valueVars>>

-----------------------------------------------------------------------------
(* The simulation thread: the main loop and omc_embedded_server_deinit.    *)

\* One pass of performSimulation's loop up to the call of
\* embedded_server_update, which begins with waitForStep.
SimulateStep ==
  /\ simPc = "loop"
  /\ time < StopTime \/ ~useStopTime
  /\ time < MaxTime
  /\ time' = time + 1
  /\ simPc' = "clearStep"
  /\ inUpdate' = TRUE
  /\ UNCHANGED <<simRun, old, serverRunning, srvVars, clientVars, pauseVars,
                 syncVars, valueVars, writeVars>>

\* server_running = 0, then pthread_join.
BeginDeinit ==
  /\ serverRunning' = FALSE
  /\ SimGoto("join")
  /\ UNCHANGED <<time, srvVars, clientVars, pauseVars, syncVars, valueVars, writeVars>>

ReachStopTime == simPc = "loop" /\ time >= StopTime /\ useStopTime /\ BeginDeinit

\* The loop is left early: an assertion, a failed integrator or system.
BreakLoop == simPc = "loop" /\ BeginDeinit

Join ==
  /\ simPc = "join" /\ srvPc = "stopped"
  /\ SimGoto("done")
  /\ UNCHANGED <<srvVars, clientVars, loopVars, pauseVars, syncVars, valueVars,
                 writeVars>>

-----------------------------------------------------------------------------
(* Clients, and the loop of UA_Server_run.                                 *)

ClientSend ==
  /\ inbox = <<>> /\ sent < MaxRequests
  /\ \E r \in Requests : inbox' = <<r>>
  /\ sent' = sent + 1
  /\ UNCHANGED <<simVars, srvVars, loopVars, pauseVars, syncVars, valueVars,
                 writeVars>>

ServeRequest ==
  /\ srvPc = "idle" /\ serverRunning /\ inbox # <<>>
  /\ req' = Head(inbox) /\ inbox' = <<>>
  /\ srvPc' = "callback"
  /\ UNCHANGED <<srvBuf, sent, simVars, loopVars, pauseVars, syncVars, valueVars,
                 writeVars>>

StopServer ==
  /\ srvPc = "idle" /\ ~serverRunning
  /\ srvPc' = "stopped"
  /\ UNCHANGED <<req, srvBuf, simVars, clientVars, loopVars, pauseVars, syncVars,
                 valueVars, writeVars>>

-----------------------------------------------------------------------------
(* The server thread: readReal and readBoolean.                            *)

\* The callback of a request about one of these nodes goes on to pc.
Callback(nodes, pc) ==
  /\ srvPc = "callback" /\ req.node \in nodes
  /\ srvPc' = pc /\ UNCHANGED req

\* run, step and enableStopTime are read without a mutex.
ReadFlag ==
  /\ Callback({"flag"}, "idle")
  /\ UNCHANGED <<srvBuf, simVars, clientVars, loopVars, pauseVars, syncVars,
                 valueVars, writeVars>>

LookUpLatest ==
  /\ Callback({"time", "real", "bool"}, "lockBuffer")
  /\ srvBuf' = latestValues
  /\ floor' = published
  /\ UNCHANGED <<owner, latestValues, buffer, published, answer, foreignUnlock, simVars,
                 clientVars, loopVars, pauseVars, syncVars, writeVars>>

LockBuffer ==
  /\ srvPc = "lockBuffer"
  /\ owner[srvBuf] = "none"
  /\ owner' = [owner EXCEPT ![srvBuf] = "srv"]
  /\ srvPc' = "readBuffer"
  /\ UNCHANGED <<req, srvBuf, latestValues, buffer, published, floor, answer,
                 foreignUnlock, simVars, clientVars, loopVars, pauseVars, syncVars, writeVars>>

ReadBuffer ==
  /\ srvPc = "readBuffer"
  /\ answer' = CASE req.node = "time" -> buffer[srvBuf].time
                 [] req.node = "real" -> buffer[srvBuf].reals
                 [] req.node = "bool" -> buffer[srvBuf].bools[req.i]
  /\ srvPc' = "unlockBuffer"
  /\ UNCHANGED <<req, srvBuf, owner, latestValues, buffer, published, floor,
                 foreignUnlock, simVars, clientVars, loopVars, pauseVars, syncVars, writeVars>>

UnlockBuffer ==
  /\ srvPc = "unlockBuffer"
  /\ owner' = [owner EXCEPT ![srvBuf] = "none"]
  /\ srvPc' = "idle"
  /\ UNCHANGED <<req, srvBuf, latestValues, buffer, published, floor, answer,
                 foreignUnlock, simVars, clientVars, loopVars, pauseVars, syncVars, writeVars>>

-----------------------------------------------------------------------------
(* The server thread: writeBoolean and writeReal.                          *)

\* Mutant: the flag is set, but the simulation thread is not signalled.
WriteFlagSilently ==
  /\ Callback({"step", "run", "enableStopTime"}, "idle")
  /\ step' = IF req.node = "step" THEN req.val ELSE step
  /\ run' = IF req.node = "run" THEN req.val ELSE run
  /\ useStopTime' = IF req.node = "enableStopTime" THEN req.val ELSE useStopTime
  /\ stepWrites' = IF req.node = "step" /\ req.val THEN stepWrites + 1 ELSE stepWrites
  /\ UNCHANGED <<srvBuf, stepPasses, simVars, clientVars, loopVars, syncVars,
                 valueVars, writeVars>>

\* step, run or enableStopTime is set under mutex_pause; the signal follows
\* after the mutex is released.
WriteFlag ==
  /\ Callback({"step", "run", "enableStopTime"}, "signal")
  /\ step' = IF req.node = "step" THEN req.val ELSE step
  /\ run' = IF req.node = "run" THEN req.val ELSE run
  /\ useStopTime' = IF req.node = "enableStopTime" THEN req.val ELSE useStopTime
  /\ stepWrites' = IF req.node = "step" /\ req.val THEN stepWrites + 1 ELSE stepWrites
  /\ UNCHANGED <<srvBuf, stepPasses, simVars, clientVars, loopVars, syncVars,
                 valueVars, writeVars>>

\* pthread_cond_signal(&state->cond_pause)
SignalPause ==
  /\ srvPc = "signal"
  /\ SimGoto(IF simPc = "parked" THEN "woken" ELSE simPc)
  /\ srvPc' = "idle"
  /\ UNCHANGED <<req, srvBuf, clientVars, loopVars, pauseVars, syncVars, valueVars,
                 writeVars>>

WriteScaling ==
  /\ Callback({"scaling"}, "idle")
  /\ scaling' = req.val
  /\ UNCHANGED <<srvBuf, syncScaling, syncEnabled, simVars, clientVars, loopVars,
                 pauseVars, valueVars, writeVars>>

\* An input is taken over only if it differs from what the simulation has.
WriteInput ==
  /\ Callback({"input"}, "idle")
  /\ IF inputVars[req.i] # req.val
     THEN /\ gotNewInput' = TRUE
          /\ inputVarsBackup' = [inputVarsBackup EXCEPT ![req.i] = req.val]
          /\ lastInput' = [lastInput EXCEPT ![req.i] = req.val]
     ELSE UNCHANGED <<gotNewInput, inputVarsBackup, lastInput>>
  /\ UNCHANGED <<srvBuf, inputVars, stateVars, updatedStates, stateWasUpdated,
                 reinitStateFlag, lastState, simVars, clientVars, loopVars,
                 pauseVars, syncVars, valueVars>>

\* Mutant: a state is taken over only if it differs from what the simulation has,
\* as an input is, although an earlier value may wait to be put there.
WriteStateIfChanged ==
  /\ Callback({"state"}, "idle")
  /\ lastState' = [lastState EXCEPT ![req.i] = req.val]
  /\ IF stateVars[req.i] # req.val
     THEN /\ reinitStateFlag' = TRUE
          /\ stateWasUpdated' = [stateWasUpdated EXCEPT ![req.i] = TRUE]
          /\ updatedStates' = [updatedStates EXCEPT ![req.i] = req.val]
     ELSE UNCHANGED <<reinitStateFlag, stateWasUpdated, updatedStates>>
  /\ UNCHANGED <<srvBuf, inputVars, inputVarsBackup, gotNewInput, lastInput,
                 stateVars, simVars, clientVars, loopVars, pauseVars, syncVars,
                 valueVars>>

WriteState ==
  /\ Callback({"state"}, "idle")
  /\ reinitStateFlag' = TRUE
  /\ stateWasUpdated' = [stateWasUpdated EXCEPT ![req.i] = TRUE]
  /\ updatedStates' = [updatedStates EXCEPT ![req.i] = req.val]
  /\ lastState' = [lastState EXCEPT ![req.i] = req.val]
  /\ UNCHANGED <<srvBuf, inputVars, inputVarsBackup, gotNewInput, lastInput,
                 stateVars, simVars, clientVars, loopVars, pauseVars, syncVars,
                 valueVars>>

-----------------------------------------------------------------------------
SimNext ==
  \/ ClearStep \/ EnterPause \/ Wake
  \/ CompareScaling \/ UpdateSync \/ StoreScaling
  \/ LockValues \/ WriteTime \/ WriteVars \/ UnlockValues \/ TakeWrites
  \/ SimulateStep \/ ReachStopTime \/ Join

SrvNext ==
  \/ ServeRequest \/ StopServer
  \/ ReadFlag \/ LookUpLatest \/ LockBuffer \/ ReadBuffer \/ UnlockBuffer
  \/ WriteFlag \/ SignalPause \/ WriteScaling \/ WriteInput \/ WriteState

Next == SimNext \/ SrvNext \/ ClientSend \/ SpuriousWakeup \/ BreakLoop

Spec == Init /\ [][Next]_vars

\* The operating system runs both threads; clients, spurious wakeups and
\* failures of the model are free not to happen.
Fairness == WF_vars(SimNext) /\ WF_vars(SrvNext)

FairSpec == Spec /\ Fairness

-----------------------------------------------------------------------------
Ages == {Uninit} \cup 0..MaxTime

SimTypeOK ==
  /\ simPc \in {"clearStep", "enterPause", "parked", "woken", "compareScaling",
                "updateSync", "storeScaling", "lockValues", "writeTime",
                "writeVars", "unlockValues", "takeWrites", "loop", "join", "done"}
  /\ simRun \in BOOLEAN /\ old \in 0..1 /\ inUpdate \in BOOLEAN

SrvTypeOK ==
  /\ srvPc \in {"idle", "callback", "lockBuffer", "readBuffer", "unlockBuffer",
                "signal", "stopped"}
  /\ req \in AllRequests /\ srvBuf \in 0..1
  /\ srvPc \in {"lockBuffer", "readBuffer", "unlockBuffer"} =>
       req.node \in {"time", "real", "bool"}

ClientTypeOK ==
  /\ inbox \in Seq(Requests) /\ Len(inbox) <= 1
  /\ sent \in 0..MaxRequests

LoopTypeOK == time \in 0..MaxTime /\ serverRunning \in BOOLEAN

PauseTypeOK ==
  /\ run \in BOOLEAN /\ step \in BOOLEAN /\ useStopTime \in BOOLEAN
  /\ stepWrites \in Nat /\ stepPasses \in Nat

SyncTypeOK ==
  scaling \in Scalings /\ syncScaling \in Scalings /\ syncEnabled \in BOOLEAN

ValueTypeOK ==
  /\ owner \in [0..1 -> {"none", "sim", "srv"}] /\ latestValues \in 0..1
  /\ buffer \in [0..1 -> [time : 0..MaxTime, reals : Ages, bools : [Booleans -> Ages]]]
  /\ published \in 0..MaxTime /\ floor \in 0..MaxTime /\ answer \in Ages
  /\ foreignUnlock \in BOOLEAN

WriteTypeOK ==
  /\ inputVars \in [Inputs -> Values] /\ inputVarsBackup \in [Inputs -> Values]
  /\ gotNewInput \in BOOLEAN /\ lastInput \in [Inputs -> Values]
  /\ stateVars \in [States -> Values] /\ updatedStates \in [States -> Values]
  /\ stateWasUpdated \in [States -> BOOLEAN] /\ reinitStateFlag \in BOOLEAN
  /\ lastState \in [States -> Values]

\* The types of all variables: the two buffers are indexed by 0 and 1 only, and the
\* node in service is one whose callback the server thread is in.
TypeOK ==
  /\ SimTypeOK /\ SrvTypeOK /\ ClientTypeOK /\ LoopTypeOK
  /\ PauseTypeOK /\ SyncTypeOK /\ ValueTypeOK /\ WriteTypeOK

\* readReal and readBoolean look up the latest buffer before they lock it.  The
\* value they return is nevertheless never older than the last publication that
\* was complete when they looked, nor uninitialised memory, however many updates
\* pass in between - unless an update has unlocked a mutex under the server's
\* feet, which the first update does when a read is in progress.
ReadsAreFresh == srvPc = "unlockBuffer" /\ ~foreignUnlock => answer >= floor

\* With run off, a client's step := true lets the simulation through
\* waitForStep at most once, also when it is written while a step is simulated.
OneStepPerRequest == stepPasses <= stepWrites

\* A value the server took over from a client is in the simulation's data, or the
\* flags make the next omc_embedded_server_update put it there: no write is lost
\* between the two threads, and none is replaced by an older one.
NoWriteLost ==
  /\ \A i \in Inputs : lastInput[i] # inputVars[i] =>
       gotNewInput /\ inputVarsBackup[i] = lastInput[i]
  /\ \A s \in States : lastState[s] # stateVars[s] =>
       reinitStateFlag /\ stateWasUpdated[s] /\ updatedStates[s] = lastState[s]

\* Where the program hangs after the last step: an update leaves the mutex of the
\* latest buffer locked, a client reads that buffer, and the simulation waits for
\* the server thread, which waits for the mutex.
HangsAtJoin == simPc = "join" /\ srvPc = "lockBuffer" /\ owner[srvBuf] = "sim"

\* While run and enableStopTime stay on the simulation ends and the server is
\* deleted, whatever the clients write; only a read of the latest values may keep
\* the two threads waiting for each other, and that only after the last step.
RunsToStopTime == <>[](run /\ useStopTime) => <>(simPc = "done" \/ HangsAtJoin)

-----------------------------------------------------------------------------
(* What the program says of itself, and does not keep.                     *)

\* "When set to true, the simulator keeps running until run is set to false": a
\* request to set run is obeyed, unless the simulation ends first.
RunIsObeyed ==
  inbox = <<[node |-> "run", val |-> TRUE]>> ~> run \/ simPc \in {"join", "done"}
=============================================================================
