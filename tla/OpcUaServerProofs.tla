------------------------- MODULE OpcUaServerProofs -------------------------
(***************************************************************************)
(* Theorems about OpcUaServer, for every value of its constants: type      *)
(* correctness, one simulation step per step request, no lost write, and   *)
(* the freshness of reads.                                                 *)
(***************************************************************************)
EXTENDS OpcUaServer, TLAPS

\* What a step leaves alone keeps its type.
LEMMA TypeFrame ==
  ASSUME TypeOK
  PROVE  /\ UNCHANGED simVars => SimTypeOK'
         /\ UNCHANGED srvVars => SrvTypeOK'
         /\ UNCHANGED clientVars => ClientTypeOK'
         /\ UNCHANGED loopVars => LoopTypeOK'
         /\ UNCHANGED pauseVars => PauseTypeOK'
         /\ UNCHANGED syncVars => SyncTypeOK'
         /\ UNCHANGED valueVars => ValueTypeOK'
         /\ UNCHANGED writeVars => WriteTypeOK'
<1> USE DEF TypeOK
<1>1. UNCHANGED simVars => SimTypeOK'    BY DEF simVars, SimTypeOK
<1>2. UNCHANGED srvVars => SrvTypeOK'    BY DEF srvVars, SrvTypeOK
<1>3. UNCHANGED clientVars => ClientTypeOK'  BY DEF clientVars, ClientTypeOK
<1>4. UNCHANGED loopVars => LoopTypeOK'  BY DEF loopVars, LoopTypeOK
<1>5. UNCHANGED pauseVars => PauseTypeOK'  BY DEF pauseVars, PauseTypeOK
<1>6. UNCHANGED syncVars => SyncTypeOK'  BY DEF syncVars, SyncTypeOK
<1>7. UNCHANGED valueVars => ValueTypeOK'  BY DEF valueVars, ValueTypeOK
<1>8. UNCHANGED writeVars => WriteTypeOK'  BY DEF writeVars, WriteTypeOK
<1> QED BY <1>1, <1>2, <1>3, <1>4, <1>5, <1>6, <1>7, <1>8

\* The simulation thread's steps keep the types.
LEMMA SimTypes == TypeOK /\ SimNext => TypeOK'
<1> SUFFICES ASSUME TypeOK, SimNext PROVE TypeOK'
  OBVIOUS
<1>0. /\ SimTypeOK /\ SrvTypeOK /\ ClientTypeOK /\ LoopTypeOK
      /\ PauseTypeOK /\ SyncTypeOK /\ ValueTypeOK /\ WriteTypeOK
  BY DEF TypeOK
<1> USE TypeFrame, ConstantsAssumption DEF SimTypeOK, SimGoto
<1>1. CASE ClearStep
  BY <1>0, <1>1 DEF ClearStep, PauseTypeOK, TypeOK
<1>2. CASE EnterPause
  BY <1>0, <1>2 DEF EnterPause, TestPause, PauseTypeOK, TypeOK
<1>3. CASE Wake
  BY <1>0, <1>3 DEF Wake, TestPause, PauseTypeOK, TypeOK
<1>4. CASE CompareScaling
  BY <1>0, <1>4 DEF CompareScaling, AfterWait, TypeOK
<1>5. CASE UpdateSync
  BY <1>0, <1>5 DEF UpdateSync, SyncTypeOK, TypeOK
<1>6. CASE StoreScaling
  BY <1>0, <1>6 DEF StoreScaling, AfterWait, SyncTypeOK, TypeOK
<1>7. CASE LockValues
  BY <1>0, <1>7 DEF LockValues, Other, ValueTypeOK, TypeOK
<1>8. CASE WriteTime
  BY <1>0, <1>8 DEF WriteTime, ValueTypeOK, LoopTypeOK, TypeOK
<1>9. CASE WriteVars
  BY <1>0, <1>9 DEF WriteVars, ValueTypeOK, LoopTypeOK, Ages, TypeOK
<1>10. CASE UnlockValues
  BY <1>0, <1>10 DEF UnlockValues, ValueTypeOK, LoopTypeOK, TypeOK
<1>11. CASE TakeWrites
  BY <1>0, <1>11 DEF TakeWrites, WriteTypeOK, TypeOK
<1>12. CASE SimulateStep
  BY <1>0, <1>12 DEF SimulateStep, LoopTypeOK, TypeOK
<1>13. CASE ReachStopTime
  BY <1>0, <1>13 DEF ReachStopTime, BeginDeinit, LoopTypeOK, TypeOK
<1>14. CASE Join
  BY <1>0, <1>14 DEF Join, TypeOK
<1> QED
  BY <1>1, <1>2, <1>3, <1>4, <1>5, <1>6, <1>7, <1>8, <1>9, <1>10, <1>11, <1>12,
     <1>13, <1>14 DEF SimNext

\* A request of each kind has the fields its callback uses.
LEMMA RequestFields ==
  ASSUME NEW r \in AllRequests
  PROVE  /\ r.node \in {"step", "run", "enableStopTime"} => r.val \in BOOLEAN
         /\ r.node = "scaling" => r.val \in Scalings
         /\ r.node = "input" => r.i \in Inputs /\ r.val \in Values
         /\ r.node = "state" => r.i \in States /\ r.val \in Values
         /\ r.node = "bool" => r.i \in Booleans
         /\ r.node \in {"time", "real", "bool", "flag", "step", "run",
                        "enableStopTime", "scaling", "input", "state"}
  BY DEF AllRequests

\* The server thread's steps keep the types.
LEMMA SrvTypes == TypeOK /\ SrvNext => TypeOK'
<1> SUFFICES ASSUME TypeOK, SrvNext PROVE TypeOK'
  OBVIOUS
<1>0. /\ SimTypeOK /\ SrvTypeOK /\ ClientTypeOK /\ LoopTypeOK
      /\ PauseTypeOK /\ SyncTypeOK /\ ValueTypeOK /\ WriteTypeOK
  BY DEF TypeOK
<1> USE TypeFrame, RequestFields, ConstantsAssumption DEF SrvTypeOK, Callback
<1>1. CASE ServeRequest
  <2>1. inbox # <<>> => Head(inbox) \in AllRequests
    BY <1>0 DEF ClientTypeOK
  <2>2. ClientTypeOK'
    BY <1>0, <1>1 DEF ServeRequest, ClientTypeOK
  <2> QED BY <1>0, <1>1, <2>1, <2>2 DEF ServeRequest, TypeOK
<1>2. CASE StopServer
  BY <1>0, <1>2 DEF StopServer, TypeOK
<1>3. CASE ReadFlag
  BY <1>0, <1>3 DEF ReadFlag, TypeOK
<1>4. CASE LookUpLatest
  BY <1>0, <1>4 DEF LookUpLatest, ValueTypeOK, TypeOK
<1>5. CASE LockBuffer
  BY <1>0, <1>5 DEF LockBuffer, ValueTypeOK, TypeOK
<1>6. CASE ReadBuffer
  <2>1. buffer[srvBuf] \in [time : 0..MaxTime, reals : Ages, bools : [Booleans -> Ages]]
    BY <1>0 DEF ValueTypeOK
  <2>2. answer' \in Ages
    BY <1>0, <1>6, <2>1 DEF ReadBuffer, Ages
  <2> QED BY <1>0, <1>6, <2>2 DEF ReadBuffer, ValueTypeOK, TypeOK
<1>7. CASE UnlockBuffer
  BY <1>0, <1>7 DEF UnlockBuffer, ValueTypeOK, TypeOK
<1>8. CASE WriteFlag
  BY <1>0, <1>8 DEF WriteFlag, PauseTypeOK, TypeOK
<1>9. CASE SignalPause
  BY <1>0, <1>9 DEF SignalPause, SimGoto, SimTypeOK, TypeOK
<1>10. CASE WriteScaling
  BY <1>0, <1>10 DEF WriteScaling, SyncTypeOK, TypeOK
<1>11. CASE WriteInput
  BY <1>0, <1>11 DEF WriteInput, WriteTypeOK, TypeOK
<1>12. CASE WriteState
  BY <1>0, <1>12 DEF WriteState, WriteTypeOK, TypeOK
<1> QED
  BY <1>1, <1>2, <1>3, <1>4, <1>5, <1>6, <1>7, <1>8, <1>9, <1>10, <1>11, <1>12
     DEF SrvNext

\* Every variable stays in its range: in particular latestValues never leaves the
\* two buffers, and a buffer is looked up only for the nodes that are read from it.
THEOREM TypeCorrect == Spec => []TypeOK
<1>1. Init => TypeOK
  <2> SUFFICES ASSUME Init PROVE TypeOK
    OBVIOUS
  <2>1. SimTypeOK /\ PauseTypeOK
    <3>1. old \in 0..1 /\ stepWrites \in Nat /\ stepPasses \in Nat
      BY DEF Init
    <3> QED BY <3>1 DEF Init, SimTypeOK, PauseTypeOK
  <2>5. ClientTypeOK /\ LoopTypeOK
    BY ConstantsAssumption DEF Init, ClientTypeOK, LoopTypeOK
  <2>6. SyncTypeOK
    BY DEF Init, SyncTypeOK
  <2>2. SrvTypeOK
    <3>1. [node |-> "flag"] \in [node : {"time", "real", "flag"}]
      OBVIOUS
    <3> QED BY <3>1 DEF Init, SrvTypeOK, AllRequests
  <2>3. ValueTypeOK
    <3>1. \A b \in 0..1 : InitialAge(b) \in Ages
      BY ConstantsAssumption DEF InitialAge, Uninit, Ages
    <3>2. \A b \in 0..1 : [i \in Booleans |-> InitialAge(b)] \in [Booleans -> Ages]
      BY <3>1
    <3>3. buffer \in [0..1 -> [time : 0..MaxTime, reals : Ages, bools : [Booleans -> Ages]]]
      BY <3>1, <3>2, ConstantsAssumption DEF Init
    <3>4. answer \in Ages
      BY ConstantsAssumption DEF Init, Ages
    <3>5. owner \in [0..1 -> {"none", "sim", "srv"}] /\ latestValues \in 0..1
      BY DEF Init
    <3>6. published \in 0..MaxTime /\ floor \in 0..MaxTime
      BY ConstantsAssumption DEF Init
    <3>7. foreignUnlock \in BOOLEAN
      BY DEF Init
    <3> QED BY <3>3, <3>4, <3>5, <3>6, <3>7 DEF ValueTypeOK
  <2>4. WriteTypeOK
    BY DEF Init, WriteTypeOK
  <2> QED BY <2>1, <2>2, <2>3, <2>4, <2>5, <2>6 DEF TypeOK
<1>2. TypeOK /\ [Next]_vars => TypeOK'
  <2> SUFFICES ASSUME TypeOK, [Next]_vars PROVE TypeOK'
    OBVIOUS
  <2>0. /\ SimTypeOK /\ SrvTypeOK /\ ClientTypeOK /\ LoopTypeOK
        /\ PauseTypeOK /\ SyncTypeOK /\ ValueTypeOK /\ WriteTypeOK
    BY DEF TypeOK
  <2>1. CASE ClientSend
    BY <2>0, <2>1, TypeFrame, ConstantsAssumption DEF ClientSend, ClientTypeOK, TypeOK
  <2>2. CASE SpuriousWakeup
    BY <2>0, <2>2, TypeFrame DEF SpuriousWakeup, SimGoto, SimTypeOK, TypeOK
  <2>3. CASE BreakLoop
    BY <2>0, <2>3, TypeFrame DEF BreakLoop, BeginDeinit, SimGoto, SimTypeOK,
       LoopTypeOK, TypeOK
  <2>4. CASE UNCHANGED vars
    BY <2>4, TypeFrame DEF vars, TypeOK
  <2> QED
    BY <2>1, <2>2, <2>3, <2>4, SimTypes, SrvTypes DEF Next
<1> QED BY <1>1, <1>2, PTL DEF Spec

-----------------------------------------------------------------------------
(* One simulation step per step request.                                   *)

\* A set step flag is good for one more pass exactly between ClearStep, which
\* takes back the request that was served, and the test that lets it through.
Credit == IF step /\ simPc \in {"enterPause", "parked", "woken"} THEN 1 ELSE 0

StepInv == stepPasses + Credit <= stepWrites

\* With run off, waitForStep lets the simulation through at most once for each
\* step := true a client has written.
THEOREM StepSafe == Spec => []OneStepPerRequest
<1>1. Init => StepInv
  BY DEF Init, StepInv, Credit
<1>2. TypeOK /\ StepInv /\ [Next]_vars => StepInv'
  <2> SUFFICES ASSUME TypeOK, StepInv, [Next]_vars PROVE StepInv'
    OBVIOUS
  <2> USE DEF TypeOK, PauseTypeOK, SimTypeOK, StepInv, Credit
  <2>1. CASE ClearStep
    BY <2>1 DEF ClearStep, SimGoto
  <2>2. CASE EnterPause \/ Wake
    BY <2>2 DEF EnterPause, Wake, TestPause
  <2>3. CASE SpuriousWakeup
    BY <2>3 DEF SpuriousWakeup, SimGoto, pauseVars
  <2>4. CASE WriteFlag
    <3>1. req.node = "step" => req.val \in BOOLEAN
      BY RequestFields DEF SrvTypeOK
    <3>2. UNCHANGED <<simPc, stepPasses>>
      BY <2>4 DEF WriteFlag, simVars
    <3>3. CASE req.node = "step" /\ req.val
      BY <2>4, <3>2, <3>3 DEF WriteFlag
    <3>4. CASE ~(req.node = "step" /\ req.val)
      BY <2>4, <3>1, <3>2, <3>4 DEF WriteFlag
    <3> QED BY <3>3, <3>4
  <2>5. CASE SignalPause
    BY <2>5 DEF SignalPause, SimGoto, pauseVars
  <2>6. CASE UNCHANGED <<simPc, pauseVars>>
    BY <2>6 DEF pauseVars
  <2>7. CASE /\ simPc' \notin {"enterPause", "parked", "woken"}
             /\ UNCHANGED pauseVars
    BY <2>7 DEF pauseVars
  <2>8. CASE SimNext
    BY <2>8, <2>1, <2>2, <2>7 DEF SimNext, SimGoto, AfterWait, CompareScaling, UpdateSync,
       StoreScaling, LockValues, WriteTime, WriteVars, UnlockValues, TakeWrites,
       SimulateStep, ReachStopTime, BeginDeinit, Join
  <2>9. CASE SrvNext
    BY <2>9, <2>4, <2>5, <2>6 DEF SrvNext, ServeRequest, StopServer, ReadFlag,
       LookUpLatest, LockBuffer, ReadBuffer, UnlockBuffer, WriteScaling, WriteInput,
       WriteState, simVars
  <2>10. CASE ClientSend \/ BreakLoop \/ UNCHANGED vars
    BY <2>10, <2>6, <2>7 DEF ClientSend, BreakLoop, BeginDeinit, SimGoto, vars, simVars
  <2> QED BY <2>3, <2>8, <2>9, <2>10 DEF Next
<1>3. TypeOK /\ StepInv => OneStepPerRequest
  BY DEF TypeOK, PauseTypeOK, StepInv, Credit, OneStepPerRequest
<1> QED BY <1>1, <1>2, <1>3, TypeCorrect, PTL DEF Spec

-----------------------------------------------------------------------------
(* No write of a client is lost.                                           *)

\* inputVarsBackup always holds the last accepted inputs, so that a repeated copy
\* cannot bring back an older one; a state that waits is flagged twice.
WriteInv ==
  /\ inputVarsBackup = lastInput
  /\ ~gotNewInput => inputVars = lastInput
  /\ \A s \in States :
       IF stateWasUpdated[s] THEN reinitStateFlag /\ updatedStates[s] = lastState[s]
                             ELSE stateVars[s] = lastState[s]

\* A value the server accepted is in the simulation's data or will be put there
\* by the next update, under every interleaving of the two threads.
THEOREM WritesKept == Spec => []NoWriteLost
<1>1. Init => WriteInv
  BY DEF Init, WriteInv
<1>2. TypeOK /\ WriteInv /\ [Next]_vars => WriteInv'
  <2> SUFFICES ASSUME TypeOK, WriteInv, [Next]_vars PROVE WriteInv'
    OBVIOUS
  <2> USE DEF TypeOK, WriteTypeOK, WriteInv
  <2>1. CASE TakeWrites
    BY <2>1 DEF TakeWrites
  <2>2. CASE WriteInput
    <3>1. req.i \in Inputs
      BY <2>2, RequestFields DEF WriteInput, Callback, SrvTypeOK
    <3> QED BY <2>2, <3>1 DEF WriteInput
  <2>3. CASE WriteState
    <3>1. req.i \in States
      BY <2>3, RequestFields DEF WriteState, Callback, SrvTypeOK
    <3> QED BY <2>3, <3>1 DEF WriteState
  <2>4. CASE UNCHANGED writeVars
    BY <2>4 DEF writeVars
  <2>5. CASE SimNext
    BY <2>5, <2>1, <2>4 DEF SimNext, ClearStep, EnterPause, Wake, TestPause,
       CompareScaling, UpdateSync, StoreScaling, LockValues, WriteTime, WriteVars,
       UnlockValues, SimulateStep, ReachStopTime, BeginDeinit, Join
  <2>6. CASE SrvNext
    BY <2>6, <2>2, <2>3, <2>4 DEF SrvNext, ServeRequest, StopServer, ReadFlag,
       LookUpLatest, LockBuffer, ReadBuffer, UnlockBuffer, WriteFlag, SignalPause,
       WriteScaling
  <2>7. CASE ClientSend \/ SpuriousWakeup \/ BreakLoop \/ UNCHANGED vars
    BY <2>7, <2>4 DEF ClientSend, SpuriousWakeup, BreakLoop, BeginDeinit, vars
  <2> QED BY <2>5, <2>6, <2>7 DEF Next
<1>3. WriteInv => NoWriteLost
  BY DEF WriteInv, NoWriteLost
<1> QED BY <1>1, <1>2, <1>3, TypeCorrect, PTL DEF Spec

-----------------------------------------------------------------------------
(* Reads return published values.                                          *)

\* The simulation thread fills the buffer old.
Writing == simPc \in {"writeTime", "writeVars", "unlockValues"}

\* The server thread has looked up a buffer and not yet left readReal.
Reading == srvPc \in {"lockBuffer", "readBuffer", "unlockBuffer"}

\* The value mutexes the simulation thread has locked: none before the first
\* update, and from then on that of the latest buffer all the time, because an
\* update unlocks the one the update before it has locked.
SimHolds ==
  IF published = 0 THEN IF Writing THEN {1} ELSE {}
                   ELSE IF Writing THEN {0, 1} ELSE {latestValues}

\* All of buffer b is from time t or later.
AtLeast(b, t) ==
  /\ buffer[b].time >= t /\ buffer[b].reals >= t
  /\ \A i \in Booleans : buffer[b].bools[i] >= t

UpdateInv ==
  /\ simPc = "lockValues" \/ Writing => inUpdate
  /\ inUpdate => time >= 1
  /\ published <= time
  /\ Writing => old = Other(latestValues)
  /\ published = 0 => latestValues = IF Writing THEN 1 ELSE 0

LockInv ==
  \A b \in 0..1 :
    /\ owner[b] = "sim" <=> b \in SimHolds
    /\ owner[b] = "srv" <=> srvPc \in {"readBuffer", "unlockBuffer"} /\ b = srvBuf

\* What the server thread may read is at least as recent as the last publication;
\* buffer 1 may not be read before the first one.
BufferInv ==
  /\ \A b \in 0..1 : owner[b] # "sim" /\ ~(published = 0 /\ b = 1) => AtLeast(b, published)
  /\ simPc = "writeVars" => buffer[old].time = time
  /\ simPc = "unlockValues" => AtLeast(old, time)

ReadInv ==
  /\ floor <= published
  /\ published = 0 /\ ~Writing /\ Reading => srvBuf = 0
  /\ srvPc = "unlockBuffer" => answer >= floor

FreshInv == ~foreignUnlock => UpdateInv /\ LockInv /\ BufferInv /\ ReadInv

\* Steps that leave the buffers, their mutexes and the reader alone keep FreshInv,
\* if the simulation thread stays in an update or outside of one.
LEMMA FreshFrame ==
  ASSUME TypeOK, FreshInv,
         UNCHANGED <<valueVars, time, inUpdate, old>>,
         simPc' # simPc => /\ ~Writing /\ simPc \notin {"lockValues"}
                           /\ ~Writing'
                           /\ simPc' = "lockValues" => inUpdate,
         \/ UNCHANGED srvVars
         \/ UNCHANGED srvBuf /\ ~Reading /\ ~Reading'
  PROVE  FreshInv'
<1> SUFFICES ASSUME ~foreignUnlock PROVE (UpdateInv /\ LockInv /\ BufferInv /\ ReadInv)'
  BY DEF FreshInv, valueVars
<1>0. UpdateInv /\ LockInv /\ BufferInv /\ ReadInv
  BY DEF FreshInv
<1>1. Writing' = Writing
  BY DEF Writing
<1>2. UpdateInv'
  BY <1>0, <1>1 DEF UpdateInv, valueVars
<1>3. /\ SimHolds' = SimHolds
      /\ srvPc' \in {"readBuffer", "unlockBuffer"} <=> srvPc \in {"readBuffer", "unlockBuffer"}
      /\ srvPc' = "unlockBuffer" <=> srvPc = "unlockBuffer"
      /\ Reading' <=> Reading
      /\ srvBuf' = srvBuf
  BY <1>1 DEF SimHolds, srvVars, Reading, valueVars
<1>4. LockInv'
  BY <1>0, <1>3 DEF LockInv, valueVars
<1>5. BufferInv'
  BY <1>0 DEF BufferInv, AtLeast, valueVars, Writing
<1>6. ReadInv'
  BY <1>0, <1>1, <1>3 DEF ReadInv, valueVars
<1> QED BY <1>2, <1>4, <1>5, <1>6

\* The steps of an update that lock, fill and unlock a buffer.
LEMMA FreshUpdate ==
  ASSUME nVariablesBoolean <= nVariablesReal,
         TypeOK, FreshInv, ~foreignUnlock',
         LockValues \/ WriteTime \/ WriteVars \/ UnlockValues
  PROVE  (UpdateInv /\ LockInv /\ BufferInv /\ ReadInv)'
<1> USE DEF Other, Writing, Reading, SimGoto
<1>0. UpdateInv /\ LockInv /\ BufferInv /\ ReadInv
  BY DEF FreshInv, LockValues, WriteTime, WriteVars, UnlockValues
<1>t. /\ latestValues \in 0..1 /\ old \in 0..1 /\ srvBuf \in 0..1
      /\ published \in Nat /\ time \in Nat /\ floor \in Nat
      /\ owner \in [0..1 -> {"none", "sim", "srv"}]
      /\ buffer \in [0..1 -> [time : 0..MaxTime, reals : Ages, bools : [Booleans -> Ages]]]
  BY DEF TypeOK, SimTypeOK, SrvTypeOK, LoopTypeOK, ValueTypeOK
<1>c. /\ nVariablesReal \in Nat /\ nVariablesBoolean \in Nat /\ MaxTime \in Nat
  BY ConstantsAssumption
<1>1. CASE LockValues
  <2>1. UpdateInv'
    BY <1>0, <1>1, <1>t DEF LockValues, UpdateInv, loopVars
  <2>2. LockInv'
    BY <1>0, <1>1, <1>t DEF LockValues, UpdateInv, LockInv, SimHolds, srvVars
  <2>3. BufferInv'
    BY <1>0, <1>1, <1>t DEF LockValues, UpdateInv, LockInv, SimHolds, BufferInv, AtLeast, loopVars
  <2>4. ReadInv'
    BY <1>0, <1>1, <1>t DEF LockValues, ReadInv, srvVars
  <2> QED BY <2>1, <2>2, <2>3, <2>4
<1>2. CASE WriteTime
  <2>1. UpdateInv'
    BY <1>0, <1>2, <1>t DEF WriteTime, UpdateInv, loopVars
  <2>2. LockInv'
    BY <1>0, <1>2, <1>t DEF WriteTime, LockInv, SimHolds, srvVars
  <2>3. BufferInv'
    BY <1>0, <1>2, <1>t DEF WriteTime, UpdateInv, BufferInv, AtLeast, loopVars
  <2>4. ReadInv'
    BY <1>0, <1>2, <1>t DEF WriteTime, ReadInv, srvVars
  <2> QED BY <2>1, <2>2, <2>3, <2>4
<1>3. CASE WriteVars
  <2>1. UpdateInv'
    BY <1>0, <1>3, <1>t DEF WriteVars, UpdateInv, loopVars
  <2>2. LockInv'
    BY <1>0, <1>3, <1>t DEF WriteVars, LockInv, SimHolds, srvVars
  <2>3. BufferInv'
    BY <1>0, <1>3, <1>t, <1>c DEF WriteVars, BufferInv, AtLeast, loopVars, Booleans
  <2>4. ReadInv'
    BY <1>0, <1>3, <1>t DEF WriteVars, ReadInv, srvVars
  <2> QED BY <2>1, <2>2, <2>3, <2>4
<1>4. CASE UnlockValues
  <2>1. UpdateInv'
    BY <1>0, <1>4, <1>t DEF UnlockValues, UpdateInv, loopVars
  <2>2. LockInv'
    <3>1. owner[old] # "srv"
      BY <1>4 DEF UnlockValues
    <3>2. SimHolds = {latestValues, old} \/ SimHolds = {latestValues}
      BY <1>0, <1>4, <1>t DEF UnlockValues, UpdateInv, SimHolds
    <3>3. SimHolds' = {latestValues} /\ old # latestValues
      BY <1>0, <1>4, <1>t DEF UnlockValues, UpdateInv, SimHolds
    <3>4. owner' = [owner EXCEPT ![old] = "none"] /\ UNCHANGED <<srvPc, srvBuf>>
      BY <1>4 DEF UnlockValues, srvVars
    <3> QED BY <1>0, <1>t, <3>1, <3>2, <3>3, <3>4 DEF LockInv
  <2>3. BufferInv'
    <3>1. AtLeast(old, time)'
      BY <1>0, <1>4 DEF UnlockValues, BufferInv, AtLeast, loopVars
    <3>2. old' = old /\ published' = time /\ simPc' = "takeWrites"
      BY <1>4 DEF UnlockValues
    <3>3. \A b \in 0..1 : b # old => owner'[b] = "sim"
      BY <1>0, <1>4, <1>t DEF UnlockValues, UpdateInv, LockInv, SimHolds
    <3>4. \A b \in 0..1 : owner'[b] # "sim" => AtLeast(b, published)'
      BY <3>1, <3>2, <3>3, <1>t, <1>4 DEF UnlockValues, AtLeast, loopVars
    <3> QED BY <3>2, <3>4 DEF BufferInv
  <2>4. ReadInv'
    BY <1>0, <1>4, <1>t DEF UnlockValues, UpdateInv, ReadInv, srvVars
  <2> QED BY <2>1, <2>2, <2>3, <2>4
<1> QED BY <1>1, <1>2, <1>3, <1>4

\* The steps of readReal and readBoolean.
LEMMA FreshRead ==
  ASSUME TypeOK, FreshInv, ~foreignUnlock',
         LookUpLatest \/ LockBuffer \/ ReadBuffer \/ UnlockBuffer
  PROVE  (UpdateInv /\ LockInv /\ BufferInv /\ ReadInv)'
<1> USE DEF Writing, Reading, Callback
<1>0. UpdateInv /\ LockInv /\ BufferInv /\ ReadInv
  BY DEF FreshInv, LookUpLatest, LockBuffer, ReadBuffer, UnlockBuffer
<1>t. /\ latestValues \in 0..1 /\ old \in 0..1 /\ srvBuf \in 0..1
      /\ published \in Nat /\ time \in Nat /\ floor \in Nat
      /\ owner \in [0..1 -> {"none", "sim", "srv"}]
      /\ buffer \in [0..1 -> [time : 0..MaxTime, reals : Ages, bools : [Booleans -> Ages]]]
      /\ \A b \in 0..1 : /\ buffer[b].time \in Int /\ buffer[b].reals \in Int
                         /\ \A i \in Booleans : buffer[b].bools[i] \in Int
  BY DEF TypeOK, SimTypeOK, SrvTypeOK, LoopTypeOK, ValueTypeOK, Ages, Uninit
<1>1. CASE LookUpLatest
  <2>1. UpdateInv' /\ BufferInv'
    BY <1>0, <1>1 DEF LookUpLatest, UpdateInv, BufferInv, AtLeast, simVars, loopVars
  <2>2. LockInv'
    BY <1>0, <1>1 DEF LookUpLatest, LockInv, SimHolds, simVars
  <2>3. ReadInv'
    BY <1>0, <1>1, <1>t DEF LookUpLatest, UpdateInv, ReadInv, simVars
  <2> QED BY <2>1, <2>2, <2>3
<1>2. CASE LockBuffer
  <2>1. UpdateInv'
    BY <1>0, <1>2 DEF LockBuffer, UpdateInv, simVars, loopVars
  <2>2. LockInv'
    BY <1>0, <1>2, <1>t DEF LockBuffer, LockInv, SimHolds, simVars
  <2>3. BufferInv'
    BY <1>0, <1>2, <1>t DEF LockBuffer, BufferInv, AtLeast, simVars, loopVars
  <2>4. ReadInv'
    BY <1>0, <1>2, <1>t DEF LockBuffer, ReadInv, simVars
  <2> QED BY <2>1, <2>2, <2>3, <2>4
<1>3. CASE ReadBuffer
  <2>1. UpdateInv' /\ BufferInv'
    BY <1>0, <1>3 DEF ReadBuffer, UpdateInv, BufferInv, AtLeast, simVars, loopVars
  <2>2. LockInv'
    BY <1>0, <1>3 DEF ReadBuffer, LockInv, SimHolds, simVars
  <2>3. AtLeast(srvBuf, published)
    BY <1>0, <1>3, <1>t DEF ReadBuffer, LockInv, SimHolds, BufferInv, ReadInv
  <2>4. req.node \in {"time", "real", "bool"} /\ (req.node = "bool" => req.i \in Booleans)
    BY <1>3, RequestFields DEF ReadBuffer, TypeOK, SrvTypeOK
  <2>5. answer' >= floor
    BY <1>0, <1>3, <1>t, <2>3, <2>4 DEF ReadBuffer, ReadInv, AtLeast
  <2>6. ReadInv'
    BY <1>0, <1>3, <1>t, <2>5 DEF ReadBuffer, ReadInv, simVars
  <2> QED BY <2>1, <2>2, <2>6
<1>4. CASE UnlockBuffer
  <2>1. UpdateInv'
    BY <1>0, <1>4 DEF UnlockBuffer, UpdateInv, simVars, loopVars
  <2>2. LockInv'
    BY <1>0, <1>4, <1>t DEF UnlockBuffer, LockInv, SimHolds, simVars
  <2>3. owner[srvBuf] = "srv"
    BY <1>0, <1>4, <1>t DEF UnlockBuffer, LockInv
  <2>4. BufferInv'
    BY <1>0, <1>4, <1>t, <2>3 DEF UnlockBuffer, BufferInv, AtLeast, simVars, loopVars
  <2>5. ReadInv'
    BY <1>0, <1>4 DEF UnlockBuffer, ReadInv, simVars
  <2> QED BY <2>1, <2>2, <2>4, <2>5
<1> QED BY <1>1, <1>2, <1>3, <1>4

\* When no Boolean variable is beyond the number of the Real ones, a read returns
\* nothing older than what was published when it began, and never uninitialised
\* memory, although the buffer is looked up before it is locked and each update
\* leaves a mutex locked - as long as no update has unlocked the server's mutex.
THEOREM Fresh ==
  ASSUME nVariablesBoolean <= nVariablesReal
  PROVE  Spec => []ReadsAreFresh
<1>1. TypeOK /\ Init => FreshInv
  <2> SUFFICES ASSUME TypeOK, Init PROVE UpdateInv /\ LockInv /\ BufferInv /\ ReadInv
    BY DEF FreshInv
  <2>1. ~Writing /\ ~Reading
    BY DEF Init, Writing, Reading
  <2>2. UpdateInv
    BY <2>1 DEF Init, UpdateInv
  <2>3. LockInv
    <3>1. SimHolds = {}
      BY <2>1 DEF Init, SimHolds
    <3> QED BY <3>1 DEF Init, LockInv
  <2>4. BufferInv
    <3>1. AtLeast(0, 0)
      BY DEF Init, AtLeast, InitialAge
    <3> QED BY <3>1 DEF Init, BufferInv
  <2>5. ReadInv
    BY <2>1 DEF Init, ReadInv, Reading
  <2> QED BY <2>2, <2>3, <2>4, <2>5
<1>2. TypeOK /\ FreshInv /\ [Next]_vars => FreshInv'
  <2> SUFFICES ASSUME TypeOK, FreshInv, [Next]_vars, ~foreignUnlock'
               PROVE  FreshInv'
    BY DEF FreshInv
  <2>1. CASE LockValues \/ WriteTime \/ WriteVars \/ UnlockValues
    BY <2>1, FreshUpdate DEF FreshInv
  <2>2. CASE LookUpLatest \/ LockBuffer \/ ReadBuffer \/ UnlockBuffer
    BY <2>2, FreshRead DEF FreshInv
  <2>3. CASE SimulateStep
    <3>1. UpdateInv /\ LockInv /\ BufferInv /\ ReadInv
      BY <2>3 DEF FreshInv, SimulateStep, valueVars
    <3>2. ~Writing /\ ~Writing'
      BY <2>3 DEF SimulateStep, Writing
    <3>3. UpdateInv'
      BY <2>3, <3>1, <3>2 DEF SimulateStep, UpdateInv, TypeOK, LoopTypeOK, ValueTypeOK,
         valueVars
    <3>4. LockInv'
      BY <2>3, <3>1, <3>2 DEF SimulateStep, LockInv, SimHolds, valueVars, srvVars
    <3>5. BufferInv' /\ ReadInv'
      BY <2>3, <3>1, <3>2 DEF SimulateStep, BufferInv, AtLeast, ReadInv, Reading,
         valueVars, srvVars
    <3> QED BY <3>3, <3>4, <3>5 DEF FreshInv
  <2> USE FreshFrame DEF Writing, Reading, SimGoto
  <2>4. CASE SimNext
    BY <2>4, <2>1, <2>3 DEF SimNext, ClearStep, EnterPause, Wake, TestPause,
       CompareScaling, UpdateSync, StoreScaling, AfterWait, TakeWrites, ReachStopTime,
       BeginDeinit, Join, valueVars, loopVars
  <2>5. CASE SrvNext
    BY <2>5, <2>2 DEF SrvNext, Callback, ServeRequest, StopServer, ReadFlag, WriteFlag,
       SignalPause, WriteScaling, WriteInput, WriteState, simVars, loopVars
  <2>6. CASE ClientSend \/ SpuriousWakeup \/ BreakLoop \/ UNCHANGED vars
    BY <2>6 DEF ClientSend, SpuriousWakeup, BreakLoop, BeginDeinit, vars, simVars, loopVars,
       valueVars
  <2> QED BY <2>4, <2>5, <2>6 DEF Next
<1>3. FreshInv => ReadsAreFresh
  BY DEF FreshInv, ReadInv, ReadsAreFresh
<1> QED BY <1>1, <1>2, <1>3, TypeCorrect, PTL DEF Spec

=============================================================================
