------------------------ MODULE ParallelTasksProofs ------------------------
(***************************************************************************)
(* Theorems about ParallelTasks, for every number of tasks, threads and    *)
(* messages: type correctness, that a launch that returns has run each of  *)
(* its tasks exactly once, and that the messages of a task that has        *)
(* returned are in the launcher's queue.                                   *)
(***************************************************************************)
EXTENDS ParallelTasks, SequenceTheorems, TLAPS

-----------------------------------------------------------------------------
(* The types.                                                              *)

\* The sets of labels, threads and tasks.
LEMMA SetFacts ==
  /\ AtWork \subseteq WorkerLabels /\ AtWork \cap LauncherLabels = {"run"}
  /\ Launcher \in Threads /\ Launcher \notin Workers /\ Workers \subseteq Threads
  /\ \A t \in Threads : t # Launcher => t \in Workers
  /\ MaxTasks \in Nat /\ Tasks \subseteq Nat
BY ConstantsAssumption
   DEF LauncherLabels, WorkerLabels, AtWork, Threads, Launcher, Workers, Tasks

\* What a step leaves alone keeps its type.
LEMMA TypeFrame ==
  ASSUME TypeOK, UNCHANGED argVars
  PROVE  /\ ArgTypeOK'
         /\ UNCHANGED <<pc, n>> => ThreadTypeOK'
         /\ UNCHANGED taskVars => TaskTypeOK'
         /\ UNCHANGED mainVars => MainTypeOK'
         /\ UNCHANGED queueVars => QueueTypeOK'
<1> USE DEF TypeOK, argVars
<1>1. ArgTypeOK'  BY DEF ArgTypeOK
<1>2. UNCHANGED <<pc, n>> => ThreadTypeOK'  BY DEF ThreadTypeOK
<1>3. UNCHANGED taskVars => TaskTypeOK'  BY DEF TaskTypeOK, taskVars
<1>4. UNCHANGED mainVars => MainTypeOK'  BY DEF MainTypeOK, mainVars
<1>5. UNCHANGED queueVars => QueueTypeOK'  BY DEF QueueTypeOK, queueVars
<1> QED BY <1>1, <1>2, <1>3, <1>4, <1>5

\* A thread steps to another label: at work it has the task it had before, and what
\* was not moved then is not moved now, unless that thread begins to.
LEMMA TypeStep ==
  ASSUME TypeOK, UNCHANGED argVars, NEW t \in Threads, NEW to,
         to \in (IF t = Launcher THEN LauncherLabels ELSE WorkerLabels),
         Goto(t, to),
         \/ UNCHANGED n
         \/ n' = [n EXCEPT ![t] = current],
         to \in AtWork => n'[t] < len,
         \A w \in Workers : w # t /\ queue[w] # <<>> => queue'[w] # <<>>,
         to = "moving" => queue'[t] # <<>>
  PROVE  ThreadTypeOK' /\ MovingOK'
<1> USE SetFacts DEF TypeOK, ThreadTypeOK, Goto, argVars
<1>1. pc' \in [Threads -> LauncherLabels \cup WorkerLabels]
  OBVIOUS
<1>2. pc'[Launcher] \in LauncherLabels /\ \A w \in Workers : pc'[w] \in WorkerLabels
  OBVIOUS
<1>3. n' \in [Threads -> Nat]
  BY DEF TaskTypeOK
<1>4. \A u \in Threads : pc'[u] \in AtWork => n'[u] < len'
  OBVIOUS
<1>5. MovingOK'
  BY DEF MovingOK
<1> QED BY <1>1, <1>2, <1>3, <1>4, <1>5

\* A push_back.
LEMMA StoreType ==
  ASSUME NEW S, NEW q \in Seq(S), NEW at \in Nat, NEW m \in S
  PROVE  Store(q, at, m) \in Seq(S) /\ Store(q, at, m) # <<>>
BY DEF Store

\* A message of a running task.
LEMMA ReportType ==
  ASSUME TypeOK, NEW t \in Threads, pc[t] = "run", ReportTo(t)
  PROVE  TypeOK'
<1>1. n[t] \in Tasks
  BY SetFacts DEF TypeOK, ArgTypeOK, ThreadTypeOK, AtWork, Tasks
<1>2. reports[n[t]] \in Nat /\ reports[n[t]] + 1 \in 1..MaxReports
  BY <1>1, ConstantsAssumption DEF TypeOK, QueueTypeOK, ReportTo
<1>3. PICK s \in Severities :
        /\ queue' = [queue EXCEPT ![t] =
                       Append(@, [task |-> n[t], nr |-> reports[n[t]] + 1, severity |-> s])]
        /\ numErrorMessages' = [numErrorMessages EXCEPT ![t] =
                                  IF s = "error" THEN @ + 1 ELSE @]
  BY DEF ReportTo
<1> DEFINE m == [task |-> n[t], nr |-> reports[n[t]] + 1, severity |-> s]
<1>4. m \in Messages
  BY <1>1, <1>2 DEF Messages
<1> HIDE DEF m
<1>5. QueueTypeOK'
  <2>1. queue' \in [Threads -> Seq(Messages)]
    BY <1>3, <1>4 DEF TypeOK, QueueTypeOK, m
  <2>2. numErrorMessages' \in [Threads -> Nat]
    BY <1>3 DEF TypeOK, QueueTypeOK
  <2>3. reports' \in [Tasks -> Nat] /\ UNCHANGED <<slot, parentMutex>>
    BY <1>1, <1>2 DEF TypeOK, QueueTypeOK, ReportTo
  <2> QED BY <2>1, <2>2, <2>3 DEF TypeOK, QueueTypeOK
<1>6. MovingOK'
  BY <1>3, SetFacts DEF TypeOK, MovingOK, QueueTypeOK, ReportTo
<1> QED BY <1>5, <1>6, TypeFrame DEF TypeOK, ReportTo

\* The steps of a worker.
LEMMA TypeWorker == ASSUME TypeOK, NEW w \in Workers, WorkerNext(w) PROVE TypeOK'
<1>0. /\ w \in Threads /\ w # Launcher
      /\ n[w] \in Nat /\ current \in Nat /\ len \in 0..MaxTasks
      /\ pc[w] \in AtWork => n[w] \in Tasks /\ n[w] < len
  BY SetFacts DEF TypeOK, ArgTypeOK, ThreadTypeOK, TaskTypeOK, Tasks
<1> USE TypeStep, TypeFrame, <1>0 DEF Step, WorkerLabels, AtWork
<1>1. CASE TakeTask(w)
  <2>1. ThreadTypeOK' /\ MovingOK'
    BY <1>1 DEF TakeTask, queueVars
  <2>2. TaskTypeOK'
    BY <1>1 DEF TakeTask, TypeOK, TaskTypeOK
  <2> QED BY <1>1, <2>1, <2>2 DEF TakeTask, TypeOK
<1>2. CASE StartTask(w)
  BY <1>2, SetFacts DEF StartTask, TypeOK, TaskTypeOK, queueVars, Tasks
<1>3. CASE Exit(w)
  <2>1. QueueTypeOK' /\ \A u \in Workers : u # w => queue'[u] = queue[u]
    BY <1>3, SetFacts DEF Exit, TypeOK, QueueTypeOK
  <2>2. ThreadTypeOK' /\ MovingOK'
    BY <1>3, <2>1 DEF Exit
  <2> QED BY <1>3, <2>1, <2>2 DEF Exit, TypeOK
<1>4. CASE Report(w)
  BY <1>4, ReportType DEF Report
<1>5. CASE EndWork(w)
  BY <1>5 DEF EndWork, TypeOK, queueVars
<1>6. CASE TaskFails(w)
  BY <1>6 DEF TaskFails, TypeOK, queueVars
<1>7. CASE SetFail(w)
  BY <1>7 DEF SetFail, TypeOK, TaskTypeOK, queueVars
<1>8. CASE LockParent(w)
  BY <1>8 DEF LockParent, TypeOK, QueueTypeOK
<1>9. CASE MoveBegin(w)
  <2>1. QueueTypeOK'
    BY <1>9 DEF MoveBegin, TypeOK, QueueTypeOK
  <2> QED BY <1>9, <2>1 DEF MoveBegin, TypeOK
<1>10. CASE MoveEnd(w)
  <2>1. Parent(w) \in Threads
    BY SetFacts DEF Parent
  <2>2. queue[w] # <<>> /\ queue[w] \in Seq(Messages) /\ slot[w] \in Nat
    BY <1>10 DEF MoveEnd, TypeOK, MovingOK, QueueTypeOK
  <2>3. Head(queue[w]) \in Messages
    BY <2>2
  <2> DEFINE stored == Store(queue[Parent(w)], slot[w], Head(queue[w]))
             pushed == [queue EXCEPT ![Parent(w)] = stored]
  <2>4. stored \in Seq(Messages) /\ stored # <<>>
    BY <2>1, <2>2, <2>3, StoreType DEF TypeOK, QueueTypeOK
  <2>5. queue' = [pushed EXCEPT ![w] = Tail(@)]
    BY <1>10 DEF MoveEnd
  <2> HIDE DEF stored
  <2>6. pushed \in [Threads -> Seq(Messages)] /\ pushed[w] # <<>>
    BY <2>1, <2>2, <2>4 DEF TypeOK, QueueTypeOK
  <2>7. queue' \in [Threads -> Seq(Messages)]
    BY <2>5, <2>6
  <2>8. \A u \in Workers : u # w /\ queue[u] # <<>> => queue'[u] # <<>>
    BY <2>1, <2>4, <2>5, SetFacts DEF TypeOK, QueueTypeOK
  <2>9. QueueTypeOK'
    BY <1>10, <2>7 DEF MoveEnd, TypeOK, QueueTypeOK
  <2> QED BY <1>10, <2>8, <2>9 DEF MoveEnd, TypeOK
<1>11. CASE UnlockParent(w)
  BY <1>11 DEF UnlockParent, TypeOK, QueueTypeOK
<1>12. CASE StoreStatus(w)
  BY <1>12 DEF StoreStatus, TypeOK, TaskTypeOK, queueVars
<1> QED BY <1>1, <1>2, <1>3, <1>4, <1>5, <1>6, <1>7, <1>8, <1>9, <1>10, <1>11, <1>12
           DEF WorkerNext

\* The steps of the launcher.
LEMMA TypeLauncher == ASSUME TypeOK, LauncherNext \/ CreateFails PROVE TypeOK'
<1>0. /\ Launcher \in Threads
      /\ n[Launcher] \in Nat /\ current \in Nat /\ len \in 0..MaxTasks
      /\ pc[Launcher] = "run" => n[Launcher] \in Tasks /\ n[Launcher] < len
      /\ \A m \in Messages : [queue EXCEPT ![Launcher] = Append(@, m)] \in [Threads -> Seq(Messages)]
      /\ LaunchError \in Messages
  BY SetFacts DEF TypeOK, ArgTypeOK, ThreadTypeOK, TaskTypeOK, QueueTypeOK, Tasks, AtWork,
     Messages, LaunchError
<1> USE TypeStep, TypeFrame, <1>0 DEF Step, LauncherLabels, AtWork
<1>1. CASE CreateThread
  <2>1. created + 1 \in Workers /\ created + 1 \in Threads /\ created' \in 0..numThreads
    BY <1>1, SetFacts, ConstantsAssumption
       DEF CreateThread, ThreadsToCreate, TypeOK, ArgTypeOK, MainTypeOK, Workers
  <2>2. created + 1 # Launcher
    BY <2>1, SetFacts
  <2>3. MainTypeOK'
    BY <1>1, <2>1 DEF CreateThread, TypeOK, MainTypeOK, argVars
  <2> QED BY <1>1, <2>1, <2>2, <2>3 DEF CreateThread, TypeOK, WorkerLabels, queueVars
<1>2. CASE CreateFails
  <2>1. QueueTypeOK'
    BY <1>2 DEF CreateFails, TypeOK, QueueTypeOK
  <2> QED BY <1>2, <2>1 DEF CreateFails, TypeOK, TaskTypeOK
<1>3. CASE AddMessage
  <2>1. Store(queue[Launcher], slot[Launcher], LaunchError) \in Seq(Messages)
    BY StoreType DEF TypeOK, QueueTypeOK
  <2>2. QueueTypeOK'
    BY <1>3, <2>1 DEF AddMessage, TypeOK, QueueTypeOK
  <2>3. \A w \in Workers : queue'[w] = queue[w]
    BY <1>3, SetFacts DEF AddMessage, TypeOK, QueueTypeOK
  <2> QED BY <1>3, <2>2, <2>3 DEF AddMessage, TypeOK
<1>4. CASE StartJoin
  BY <1>4 DEF StartJoin, TypeOK, queueVars
<1>5. CASE JoinFailed
  BY <1>5 DEF JoinFailed, Join, TypeOK, queueVars
<1>6. CASE JoinTooFew
  <2>1. QueueTypeOK'
    BY <1>6 DEF JoinTooFew, TypeOK, QueueTypeOK
  <2>2. \A w \in Workers : queue'[w] = queue[w]
    BY <1>6, SetFacts DEF JoinTooFew, TypeOK, QueueTypeOK
  <2> QED BY <1>6, <2>1, <2>2 DEF JoinTooFew, Join, TypeOK
<1>7. CASE JoinReturn
  BY <1>7 DEF JoinReturn, Join, TypeOK, MainTypeOK, argVars, queueVars
<1>8. CASE SerialStart
  <2>1. ThreadTypeOK' /\ MovingOK'
    BY <1>8 DEF SerialStart, queueVars, TypeOK, ThreadTypeOK
  <2>2. TaskTypeOK'
    BY <1>8, SetFacts DEF SerialStart, TypeOK, TaskTypeOK, Tasks
  <2> QED BY <1>8, <2>1, <2>2 DEF SerialStart, TypeOK
<1>9. CASE SerialReport
  BY <1>9, ReportType DEF SerialReport
<1>10. CASE SerialEnd
  BY <1>10 DEF SerialEnd, TypeOK, TaskTypeOK, queueVars
<1>11. CASE SerialFails
  BY <1>11 DEF SerialFails, TypeOK, queueVars
<1>12. CASE SerialReturn
  BY <1>12 DEF SerialReturn, TypeOK, MainTypeOK, argVars, queueVars
<1> QED BY <1>1, <1>2, <1>3, <1>4, <1>5, <1>6, <1>7, <1>8, <1>9, <1>10, <1>11, <1>12
           DEF LauncherNext

\* A launch keeps the types, whatever threads and tasks fail.
THEOREM TypeCorrect == Spec => []TypeOK
<1>1. Init => TypeOK
  <2> SUFFICES ASSUME Init PROVE TypeOK
    OBVIOUS
  <2>1. ArgTypeOK /\ TaskTypeOK
    BY DEF Init, ArgTypeOK, TaskTypeOK
  <2>3. MainTypeOK
    BY ConstantsAssumption DEF Init, MainTypeOK
  <2>4. QueueTypeOK
    <3>1. <<>> \in Seq(Messages)
      OBVIOUS
    <3> QED BY <3>1 DEF Init, QueueTypeOK
  <2>2. ThreadTypeOK /\ MovingOK
    BY SetFacts DEF Init, ThreadTypeOK, MovingOK, LauncherLabels, WorkerLabels, AtWork
  <2> QED BY <2>1, <2>2, <2>3, <2>4 DEF TypeOK
<1>2. TypeOK /\ [Next]_vars => TypeOK'
  <2> SUFFICES ASSUME TypeOK, [Next]_vars PROVE TypeOK'
    OBVIOUS
  <2>1. CASE UNCHANGED vars
    BY <2>1, TypeFrame DEF vars, argVars, TypeOK, MovingOK, queueVars
  <2> QED BY <2>1, TypeWorker, TypeLauncher DEF Next
<1> QED BY <1>1, <1>2, PTL DEF Spec

-----------------------------------------------------------------------------
(* Every task is run once.                                                 *)

\* A thread at one of these labels has drawn the number of a task.
Holding == {"check"} \cup AtWork

\* No two threads have the same number, and the counter is beyond all of them.
DrawnInv ==
  /\ \A t \in Threads : pc[t] \in Holding => n[t] < current
  /\ \A t, u \in Threads : t # u /\ pc[t] \in Holding /\ pc[u] \in Holding => n[t] # n[u]

\* A task is run when a thread starts it, and not before.
RunsInv ==
  /\ \A k \in Tasks : k >= current => runs[k] = 0
  /\ \A t \in Threads : pc[t] = "check" /\ n[t] < len => runs[n[t]] = 0
  /\ \A t \in Threads : pc[t] \in AtWork => runs[n[t]] = 1

\* Unless something failed, a task that was drawn has returned or is in the hands
\* of a thread.
TakenInv ==
  ~fail /\ pc[Launcher] # "thrown" =>
    \A k \in Tasks : k < current /\ k < len =>
      \/ status[k] = "done" /\ runs[k] = 1
      \/ \E t \in Threads : pc[t] \in Holding /\ n[t] = k

\* Threads that were not created do nothing, a launcher that runs the tasks itself
\* has none, and one that returns leaves none behind.
PhaseInv ==
  /\ \A w \in Workers : w > created => pc[w] = "absent"
  /\ pc[Launcher] \in {"serial", "run"} => created = 0 /\ ~fail
  /\ pc[Launcher] = "returned" =>
       /\ current >= len /\ ~fail
       /\ \A w \in Workers : pc[w] \in {"absent", "exited"}

LaunchInv == DrawnInv /\ RunsInv /\ TakenInv /\ PhaseInv

\* A thread at work goes on with its task, or one without a task goes on without.
LEMMA LaunchStep ==
  ASSUME TypeOK, LaunchInv, NEW t \in Threads, NEW to, Goto(t, to),
         UNCHANGED <<argVars, n, taskVars, created>>,
         \/ pc[t] \in AtWork /\ to \in AtWork /\ t # Launcher
         \/ pc[t] \notin Holding /\ to \in {"join", "addMessage", "thrown"} /\ t = Launcher
            /\ pc[t] # "thrown"
  PROVE  LaunchInv'
<1>1. /\ \A u \in Threads : pc[u] \in Holding <=> pc'[u] \in Holding
      /\ \A u \in Threads : pc[u] \in AtWork <=> pc'[u] \in AtWork
      /\ \A u \in Threads : pc[u] = "check" <=> pc'[u] = "check"
      /\ pc[Launcher] = "thrown" => pc'[Launcher] = "thrown"
      /\ pc'[Launcher] \in {"serial", "run", "returned"} => pc[Launcher] = pc'[Launcher]
  BY SetFacts DEF TypeOK, ThreadTypeOK, Goto, Holding, AtWork
<1>2. UNCHANGED <<len, n, current, fail, status, runs, created>>
  BY DEF argVars, taskVars
<1>3. DrawnInv'
  BY <1>1, <1>2 DEF LaunchInv, DrawnInv
<1>4. RunsInv'
  BY <1>1, <1>2 DEF LaunchInv, RunsInv
<1>5. TakenInv'
  BY <1>1, <1>2 DEF LaunchInv, TakenInv
<1>6. PhaseInv'
  <2>1. t # Launcher => pc[t] # "absent" /\ pc[t] # "exited"
    BY DEF AtWork
  <2> QED BY <1>1, <1>2, <2>1, SetFacts
             DEF LaunchInv, PhaseInv, TypeOK, ThreadTypeOK, Goto, Holding, AtWork
<1> QED BY <1>3, <1>4, <1>5, <1>6 DEF LaunchInv

\* The steps of a worker.
LEMMA LaunchWorker ==
  ASSUME TypeOK, LaunchInv, NEW w \in Workers, WorkerNext(w)
  PROVE  LaunchInv'
<1>0. /\ w \in Threads /\ w # Launcher
      /\ n[w] \in Nat /\ current \in Nat /\ len \in 0..MaxTasks
      /\ pc[w] \in AtWork => n[w] \in Tasks /\ n[w] < len
  BY SetFacts DEF TypeOK, ArgTypeOK, ThreadTypeOK, TaskTypeOK, Tasks
<1> USE SetFacts, <1>0
    DEF TypeOK, ThreadTypeOK, TaskTypeOK, LaunchInv, Step, Goto, argVars, mainVars, Holding, AtWork
<1>1. CASE TakeTask(w)
  <2> USE <1>1 DEF TakeTask
  <2>1. DrawnInv'
    BY DEF DrawnInv
  <2>2. RunsInv'
    <3>1. current < len => current \in Tasks
      BY DEF Tasks
    <3>2. \A k \in Tasks : k >= current + 1 => k >= current
      BY DEF Tasks
    <3> QED BY <3>1, <3>2 DEF RunsInv
  <2>3. TakenInv'
    BY DEF TakenInv
  <2>4. PhaseInv'
    BY DEF PhaseInv
  <2> QED BY <2>1, <2>2, <2>3, <2>4
<1>2. CASE StartTask(w)
  <2> USE <1>2 DEF StartTask
  <2>0. n[w] \in Tasks
    BY DEF Tasks
  <2>1. DrawnInv'
    BY DEF DrawnInv
  <2>2. RunsInv'
    BY <2>0 DEF RunsInv, DrawnInv
  <2>3. TakenInv'
    BY <2>0 DEF TakenInv
  <2>4. PhaseInv'
    BY DEF PhaseInv
  <2> QED BY <2>1, <2>2, <2>3, <2>4
<1>3. CASE Exit(w)
  <2> USE <1>3 DEF Exit, taskVars
  <2>1. DrawnInv'
    BY DEF DrawnInv
  <2>2. RunsInv'
    BY DEF RunsInv
  <2>3. TakenInv'
    BY DEF TakenInv
  <2>4. PhaseInv'
    BY DEF PhaseInv
  <2> QED BY <2>1, <2>2, <2>3, <2>4
<1>4. CASE Report(w)
  BY <1>4 DEF Report, ReportTo, taskVars, DrawnInv, RunsInv, TakenInv, PhaseInv
<1>5. CASE EndWork(w) \/ TaskFails(w) \/ LockParent(w) \/ MoveBegin(w) \/ MoveEnd(w) \/ UnlockParent(w)
  BY <1>5, LaunchStep
     DEF EndWork, TaskFails, LockParent, MoveBegin, MoveEnd, UnlockParent, taskVars
<1>7. CASE SetFail(w)
  <2> USE <1>7 DEF SetFail
  <2>1. DrawnInv'
    BY DEF DrawnInv
  <2>2. RunsInv'
    BY DEF RunsInv
  <2>3. TakenInv'
    BY DEF TakenInv
  <2>4. PhaseInv'
    <3>1. w > 0
      BY DEF Workers
    <3>2. pc[Launcher] \notin {"serial", "run"}
      BY <3>1 DEF PhaseInv
    <3> QED BY <3>2 DEF PhaseInv
  <2> QED BY <2>1, <2>2, <2>3, <2>4
<1>8. CASE StoreStatus(w)
  <2> USE <1>8 DEF StoreStatus
  <2>1. DrawnInv'
    BY DEF DrawnInv
  <2>2. RunsInv'
    BY DEF RunsInv
  <2>3. TakenInv'
    BY DEF TakenInv, RunsInv
  <2>4. PhaseInv'
    BY DEF PhaseInv
  <2> QED BY <2>1, <2>2, <2>3, <2>4
<1> QED BY <1>1, <1>2, <1>3, <1>4, <1>5, <1>7, <1>8 DEF WorkerNext

\* The worker that is created next is one of the workers.
LEMMA CreatedWorker ==
  ASSUME TypeOK, created < ThreadsToCreate
  PROVE  created + 1 \in Workers /\ created + 1 \in Threads /\ created + 1 # Launcher
<1>1. created \in Nat /\ numThreads \in 0..MaxThreads /\ len \in Nat
  BY ConstantsAssumption DEF TypeOK, ArgTypeOK, MainTypeOK
<1> QED BY <1>1, ConstantsAssumption DEF ThreadsToCreate, Workers, Threads, Launcher

\* The steps of a launcher that runs the tasks itself.
LEMMA LaunchSerial ==
  ASSUME TypeOK, LaunchInv,
         SerialStart \/ SerialReport \/ SerialEnd \/ SerialFails \/ SerialReturn
  PROVE  LaunchInv'
<1>0. /\ Launcher \in Threads /\ current \in Nat /\ len \in 0..MaxTasks /\ MaxTasks \in Nat
      /\ pc[Launcher] = "run" => n[Launcher] \in Tasks /\ n[Launcher] < len
  BY SetFacts DEF TypeOK, ArgTypeOK, ThreadTypeOK, TaskTypeOK, Tasks, AtWork
<1>1. /\ pc[Launcher] \in {"serial", "run"} /\ ~fail
      /\ \A w \in Workers : pc[w] = "absent" /\ pc'[w] = "absent"
      /\ UNCHANGED <<len, fail, created>> /\ created = 0
  <2>1. /\ pc[Launcher] \in {"serial", "run"} /\ UNCHANGED <<len, fail, created>>
        /\ \A w \in Workers : pc'[w] = pc[w]
    BY SetFacts DEF SerialStart, SerialReport, ReportTo, SerialEnd, SerialFails, SerialReturn,
                    Step, Goto, argVars, taskVars, mainVars, TypeOK, ThreadTypeOK
  <2> QED BY <2>1 DEF LaunchInv, PhaseInv, Workers
<1>2. \A t \in Threads : /\ pc[t] \in Holding => t = Launcher /\ pc[t] = "run"
                         /\ pc'[t] \in Holding => t = Launcher
  BY <1>1, SetFacts DEF Holding, AtWork
<1>3. CASE SerialStart
  <2>1. /\ current < len /\ current \in Tasks
        /\ pc[Launcher] = "serial" /\ pc'[Launcher] = "run" /\ n'[Launcher] = current
        /\ current' = current + 1 /\ UNCHANGED status
        /\ runs' = [runs EXCEPT ![current] = @ + 1]
    BY <1>0, <1>3 DEF SerialStart, Step, Goto, argVars, Tasks, TypeOK, ThreadTypeOK
  <2>2. \A t \in Threads : pc[t] \notin Holding
    BY <1>2, <2>1
  <2>3. runs[current] = 0 /\ runs'[current] = 1
    BY <2>1 DEF LaunchInv, RunsInv, TypeOK, TaskTypeOK
  <2>4. DrawnInv'
    BY <1>0, <1>2, <2>1 DEF DrawnInv
  <2>5. RunsInv'
    <3>1. \A k \in Tasks : k >= current' => runs'[k] = 0
      BY <1>0, <2>1 DEF LaunchInv, RunsInv, TypeOK, TaskTypeOK, Tasks
    <3>2. \A t \in Threads : pc'[t] \in Holding => pc'[t] = "run" /\ runs'[n'[t]] = 1
      BY <1>2, <2>1, <2>3
    <3> QED BY <3>1, <3>2 DEF RunsInv, Holding
  <2>6. TakenInv'
    <3>1. \E t \in Threads : pc'[t] \in Holding /\ n'[t] = current
      BY <1>0, <2>1 DEF Holding, AtWork
    <3>2. pc[Launcher] # "thrown"
      BY <2>1
    <3>3. \A k \in Tasks : k < current => k # current /\ runs'[k] = runs[k]
      BY <2>1 DEF Tasks, TypeOK, TaskTypeOK
    <3>4. \A k \in Tasks : k < current + 1 => k < current \/ k = current
      BY <1>0 DEF Tasks
    <3> QED BY <1>1, <2>1, <2>2, <3>1, <3>2, <3>3, <3>4 DEF LaunchInv, TakenInv
  <2>7. PhaseInv'
    BY <1>1, <2>1 DEF LaunchInv, PhaseInv
  <2> QED BY <2>4, <2>5, <2>6, <2>7 DEF LaunchInv
<1>4. CASE SerialReport
  BY <1>4 DEF SerialReport, ReportTo, argVars, taskVars, mainVars, LaunchInv, DrawnInv,
              RunsInv, TakenInv, PhaseInv
<1>5. CASE SerialEnd
  <2>1. /\ pc[Launcher] = "run" /\ pc'[Launcher] = "serial"
        /\ status' = [status EXCEPT ![n[Launcher]] = "done"]
        /\ UNCHANGED <<n, current, runs>>
    BY <1>0, <1>5 DEF SerialEnd, Step, Goto, argVars, taskVars, mainVars, TypeOK, ThreadTypeOK
  <2>2. \A t \in Threads : pc'[t] \notin Holding
    BY <1>2, <2>1 DEF Holding, AtWork
  <2>3. status'[n[Launcher]] = "done" /\ runs[n[Launcher]] = 1
    BY <1>0, <2>1 DEF LaunchInv, RunsInv, AtWork, TypeOK, TaskTypeOK
  <2>4. DrawnInv' /\ RunsInv'
    BY <2>1, <2>2 DEF LaunchInv, DrawnInv, RunsInv, Holding
  <2>5. TakenInv'
    BY <1>0, <1>1, <1>2, <2>1, <2>3 DEF LaunchInv, TakenInv, TypeOK, TaskTypeOK
  <2>6. PhaseInv'
    BY <1>1, <2>1 DEF LaunchInv, PhaseInv
  <2> QED BY <2>4, <2>5, <2>6 DEF LaunchInv
<1>6. CASE SerialFails
  <2>1. pc'[Launcher] = "thrown" /\ UNCHANGED <<n, current, runs>>
    BY <1>0, <1>6 DEF SerialFails, Step, Goto, taskVars, TypeOK, ThreadTypeOK
  <2>2. \A t \in Threads : pc'[t] \notin Holding
    BY <1>2, <2>1 DEF Holding, AtWork
  <2> QED BY <1>1, <2>1, <2>2 DEF LaunchInv, DrawnInv, RunsInv, TakenInv, PhaseInv, Holding
<1>7. CASE SerialReturn
  <2>1. /\ current = len /\ pc[Launcher] = "serial" /\ pc'[Launcher] = "returned"
        /\ UNCHANGED <<n, current, runs, status>>
    BY <1>0, <1>7 DEF SerialReturn, Step, Goto, taskVars, TypeOK, ThreadTypeOK
  <2>2. \A t \in Threads : pc[t] \notin Holding /\ pc'[t] \notin Holding
    BY <1>2, <2>1 DEF Holding, AtWork
  <2>3. DrawnInv' /\ RunsInv'
    BY <2>1, <2>2 DEF LaunchInv, DrawnInv, RunsInv, Holding
  <2>4. TakenInv'
    BY <1>1, <2>1, <2>2 DEF LaunchInv, TakenInv
  <2>5. PhaseInv'
    BY <1>0, <1>1, <2>1 DEF LaunchInv, PhaseInv
  <2> QED BY <2>3, <2>4, <2>5 DEF LaunchInv
<1> QED BY <1>3, <1>4, <1>5, <1>6, <1>7

\* The steps of the launcher.
LEMMA LaunchLauncher ==
  ASSUME TypeOK, LaunchInv, LauncherNext \/ CreateFails
  PROVE  LaunchInv'
<1>0. /\ Launcher \in Threads /\ current \in Nat /\ len \in 0..MaxTasks /\ created \in Nat
      /\ pc[Launcher] = "run" => n[Launcher] \in Tasks /\ n[Launcher] < len
      /\ \A k \in Tasks : k \in Nat
  <2>1. created \in Nat
    BY DEF TypeOK, ArgTypeOK, MainTypeOK
  <2> QED BY <2>1, SetFacts
             DEF TypeOK, ArgTypeOK, ThreadTypeOK, TaskTypeOK, Tasks, AtWork
<1> USE <1>0
<1>1. CASE CreateThread
  <2> DEFINE w == created + 1
  <2>1. w \in Workers /\ w \in Threads /\ w # Launcher
    BY <1>1, CreatedWorker DEF CreateThread
  <2>2. pc[w] = "absent"
    BY <2>1 DEF LaunchInv, PhaseInv
  <2> HIDE DEF w
  <2>3. /\ pc' = [pc EXCEPT ![w] = "take"] /\ pc[Launcher] = "create"
        /\ UNCHANGED <<len, n, current, fail, status, runs>> /\ created' = w
    BY <1>1 DEF CreateThread, Goto, argVars, taskVars, w
  <2>4. \A u \in Threads : /\ u # w => pc'[u] = pc[u]
                           /\ pc'[u] \in Holding => pc[u] = pc'[u]
    BY <2>1, <2>3 DEF TypeOK, ThreadTypeOK, Holding, AtWork
  <2>5. DrawnInv'
    BY <2>3, <2>4 DEF LaunchInv, DrawnInv
  <2>6. RunsInv'
    BY <2>3, <2>4 DEF LaunchInv, RunsInv, Holding
  <2>7. TakenInv'
    BY <2>1, <2>2, <2>3, <2>4 DEF LaunchInv, TakenInv, Holding, AtWork
  <2>8. PhaseInv'
    BY <2>1, <2>3, <2>4, SetFacts DEF LaunchInv, PhaseInv, Workers, w
  <2> QED BY <2>5, <2>6, <2>7, <2>8 DEF LaunchInv
<1>2. CASE CreateFails
  <2>1. /\ pc' = [pc EXCEPT ![Launcher] = "addMessage"] /\ pc[Launcher] = "create"
        /\ fail' /\ UNCHANGED <<len, n, current, status, runs, created>>
    BY <1>2 DEF CreateFails, Step, Goto, argVars, mainVars
  <2>2. \A u \in Threads : /\ u # Launcher => pc'[u] = pc[u]
                           /\ pc'[u] \in Holding => pc[u] = pc'[u]
    BY <2>1 DEF TypeOK, ThreadTypeOK, Holding, AtWork
  <2>3. DrawnInv'
    BY <2>1, <2>2 DEF LaunchInv, DrawnInv
  <2>4. RunsInv'
    BY <2>1, <2>2 DEF LaunchInv, RunsInv, Holding
  <2>5. TakenInv' /\ PhaseInv'
    BY <2>1, <2>2, SetFacts DEF LaunchInv, TakenInv, PhaseInv, TypeOK, ThreadTypeOK
  <2> QED BY <2>3, <2>4, <2>5 DEF LaunchInv
<1>3. CASE AddMessage \/ StartJoin \/ JoinFailed \/ JoinTooFew
  BY <1>3, LaunchStep
     DEF AddMessage, StartJoin, JoinFailed, JoinTooFew, Join, Step, argVars, mainVars,
         queueVars, Holding, AtWork
<1>4. CASE JoinReturn
  <2>1. /\ pc' = [pc EXCEPT ![Launcher] = "returned"] /\ pc[Launcher] = "join"
        /\ ~fail /\ current >= len /\ \A w \in 1..created : pc[w] = "exited"
        /\ UNCHANGED <<len, n, current, fail, status, runs, created>>
    BY <1>4 DEF JoinReturn, Join, Step, Goto, argVars, taskVars
  <2>2. \A u \in Threads : /\ u # Launcher => pc'[u] = pc[u]
                           /\ pc'[u] \in Holding <=> pc[u] \in Holding
                           /\ pc'[u] \in Holding => pc[u] = pc'[u]
    BY <2>1 DEF TypeOK, ThreadTypeOK, Holding, AtWork
  <2>3. DrawnInv'
    BY <2>1, <2>2 DEF LaunchInv, DrawnInv
  <2>4. RunsInv'
    BY <2>1, <2>2 DEF LaunchInv, RunsInv, Holding
  <2>5. TakenInv'
    BY <2>1, <2>2 DEF LaunchInv, TakenInv
  <2>6. PhaseInv'
    BY <2>1, <2>2, SetFacts DEF LaunchInv, PhaseInv, TypeOK, ThreadTypeOK, Workers
  <2> QED BY <2>3, <2>4, <2>5, <2>6 DEF LaunchInv
<1> QED BY <1>1, <1>2, <1>3, <1>4, LaunchSerial DEF LauncherNext

\* No task is taken at first.
LEMMA LaunchInit == ASSUME Init PROVE LaunchInv
<1>1. \A t \in Threads : pc[t] \notin Holding
  BY DEF Init, Holding, AtWork
<1>2. DrawnInv /\ TakenInv
  BY <1>1, SetFacts DEF Init, DrawnInv, TakenInv
<1>3. RunsInv
  BY <1>1 DEF Init, RunsInv, Holding
<1>4. PhaseInv
  BY SetFacts DEF Init, PhaseInv
<1> QED BY <1>2, <1>3, <1>4 DEF LaunchInv

\* Every step keeps the invariant.
LEMMA LaunchNext == ASSUME TypeOK, LaunchInv, [Next]_vars PROVE LaunchInv'
<1>1. CASE UNCHANGED vars
  BY <1>1 DEF vars, argVars, taskVars, mainVars, LaunchInv, DrawnInv, RunsInv, TakenInv, PhaseInv
<1> QED BY <1>1, LaunchWorker, LaunchLauncher DEF Next

\* When a launch returns, every task was run exactly once and has returned: the
\* threads have ended, so that no task that was taken is still in anyone's hands.
THEOREM ReturnsCorrect == Spec => []ReturnsComplete
<1>1. Init => LaunchInv
  BY LaunchInit
<1>2. TypeOK /\ LaunchInv /\ [Next]_vars => LaunchInv'
  BY LaunchNext
<1>3. TypeOK /\ LaunchInv => ReturnsComplete
  <2> SUFFICES ASSUME TypeOK, LaunchInv, pc[Launcher] = "returned", NEW k \in Tasks, k < len
               PROVE  status[k] = "done" /\ runs[k] = 1
    BY DEF ReturnsComplete
  <2>1. \A t \in Threads : pc[t] \notin Holding
    BY SetFacts DEF LaunchInv, PhaseInv, Holding, AtWork
  <2>2. k < current
    BY SetFacts DEF LaunchInv, PhaseInv, TypeOK, ArgTypeOK, TaskTypeOK
  <2> QED BY <2>1, <2>2 DEF LaunchInv, PhaseInv, TakenInv
<1> QED BY <1>1, <1>2, <1>3, TypeCorrect, PTL DEF Spec

-----------------------------------------------------------------------------
(* The messages of the tasks.                                              *)

\* A task that was not started has reported nothing, and only one that has returned
\* is done.
FreshInv ==
  /\ \A k \in Tasks : k >= current => status[k] = "none"
  /\ \A t \in Threads : pc[t] \in Holding /\ n[t] < len => status[n[t]] = "none"
  /\ \A k \in Tasks : runs[k] = 0 => reports[k] = 0

\* One worker at a time moves messages.
MutexInv ==
  /\ \A w \in Workers : pc[w] \in {"move", "moving"} => parentMutex = "locked"
  /\ \A u, w \in Workers : pc[u] \in {"move", "moving"} /\ pc[w] \in {"move", "moving"} => u = w

\* The launcher creates threads or runs the tasks itself, and it remembers when it
\* could not create one.
FailInv ==
  /\ pc[Launcher] = "create" => ~Serial
  /\ pc[Launcher] \in {"serial", "run"} => Serial
  /\ pc[Launcher] = "addMessage" => CreateFailed
  /\ CreateFailed => fail

\* A worker starts a task with an empty queue, and has an empty one when it is done.
OwnInv ==
  \A w \in Workers : /\ pc[w] \in {"absent", "store"} => queue[w] = <<>>
                     /\ pc[w] \in {"take", "check"} => queue[w] = <<>> \/ fail

\* A queue holds the messages of a task that come after the first k, up to the last.
HoldsRest(q, t, k, last) ==
  /\ k + Len(q) = last
  /\ \A i \in 1..Len(q) : q[i].task = t /\ q[i].nr = k + i

\* The task of a worker goes on and has not failed.
Pending == {"run", "lock", "move", "moving", "store"}

\* What a task has reported is in the launcher's queue up to some message and in its
\* worker's from there on.
Split(w, k) ==
  /\ HoldsFirst(queue[Launcher], n[w], k)
  /\ HoldsRest(queue[w], n[w], k, reports[n[w]])

\* All that a task has reported is there when it is done, nothing before it is
\* started, and a message that is being moved goes behind the last one.
Arrived ==
  /\ \A t \in Tasks : status[t] = "done" => HoldsFirst(queue[Launcher], t, reports[t])
  /\ \A t \in Tasks : runs[t] = 0 => HoldsFirst(queue[Launcher], t, 0)
  /\ \A w \in Workers : pc[w] \in Pending => \E k \in Nat : Split(w, k)
  /\ \A w \in Workers : pc[w] = "moving" => slot[w] = Len(queue[Launcher])
  /\ pc[Launcher] = "run" => HoldsFirst(queue[Launcher], n[Launcher], reports[n[Launcher]])

ArriveInv == cached /\ ~CreateFailed => Arrived

\* One more message of another task, or the next one of the task.
LEMMA HoldsAppend ==
  ASSUME NEW q \in Seq(Messages), NEW m \in Messages, NEW t \in Int, NEW k \in Nat,
         HoldsFirst(q, t, k)
  PROVE  /\ m.task # t => HoldsFirst(Append(q, m), t, k)
         /\ m.task = t /\ m.nr = k + 1 => HoldsFirst(Append(q, m), t, k + 1)
<1> DEFINE p == Append(q, m)
           N == Len(q)
           own(s) == {i \in DOMAIN s : s[i].task = t}
<1>1. /\ N \in Nat /\ DOMAIN q = 1..N /\ DOMAIN p = 1..N + 1
      /\ p[N + 1] = m /\ \A i \in 1..N : p[i] = q[i]
  OBVIOUS
<1>2. /\ {q[i].nr : i \in own(q)} = 1..k
      /\ \A i, j \in own(q) : i < j => q[i].nr < q[j].nr
  BY DEF HoldsFirst
<1> HIDE DEF p, N
<1>3. /\ \A i \in 1..N : i \in own(p) <=> i \in own(q)
      /\ N + 1 \in own(p) <=> m.task = t
      /\ own(q) \subseteq 1..N /\ own(p) \subseteq 1..N + 1
      /\ \A i \in 1..N + 1 : i \in 1..N \/ i = N + 1
  BY <1>1
<1> DEFINE Q == own(q)
           P == own(p)
<1>4. CASE m.task # t
  <2>1. P = Q
    BY <1>3, <1>4
  <2>2. \A i \in Q : p[i] = q[i]
    BY <1>1, <1>3
  <2> HIDE DEF P, Q
  <2>3. /\ {p[i].nr : i \in P} = 1..k
        /\ \A i, j \in P : i < j => p[i].nr < p[j].nr
    BY <1>2, <2>1, <2>2 DEF Q
  <2> QED BY <1>4, <2>3 DEF HoldsFirst, P, p
<1>5. CASE m.task = t /\ m.nr = k + 1
  <2>1. P = Q \cup {N + 1}
    BY <1>3, <1>5
  <2>2. \A i \in Q : p[i] = q[i] /\ i \in 1..N
    BY <1>1, <1>3
  <2> HIDE DEF P, Q
  <2>3. {q[i].nr : i \in Q} = 1..k /\ \A i, j \in Q : i < j => q[i].nr < q[j].nr
    BY <1>2 DEF Q
  <2>4. \A i \in Q : q[i].nr \in 1..k
    BY <2>3
  <2>5. {p[i].nr : i \in P} = 1..k + 1
    <3>1. \A i \in P : p[i].nr \in 1..k + 1
      BY <1>1, <1>5, <2>1, <2>2, <2>4
    <3>2. ASSUME NEW x \in 1..k + 1 PROVE \E i \in P : p[i].nr = x
      <4>1. CASE x = k + 1
        BY <1>1, <1>5, <2>1, <4>1
      <4>2. CASE x # k + 1
        <5>1. x \in 1..k
          BY <4>2
        <5>2. PICK i \in Q : q[i].nr = x
          BY <2>3, <5>1
        <5> QED BY <2>1, <2>2, <5>2
      <4> QED BY <4>1, <4>2
    <3> QED BY <3>1, <3>2
  <2>6. ASSUME NEW i \in P, NEW j \in P, i < j PROVE p[i].nr < p[j].nr
    <3>1. CASE j = N + 1
      <4>1. i # N + 1 /\ i \in Q
        BY <1>1, <2>1, <2>6, <3>1
      <4> QED BY <1>1, <1>5, <2>2, <2>4, <3>1, <4>1
    <3>2. CASE j # N + 1
      <4>1. i \in Q /\ j \in Q
        BY <1>1, <2>1, <2>2, <2>6, <3>2
      <4> QED BY <2>2, <2>3, <2>6, <4>1
    <3> QED BY <3>1, <3>2
  <2> QED BY <1>5, <2>5, <2>6 DEF HoldsFirst, P, p
<1> QED BY <1>4, <1>5 DEF p

\* The next message of the task is added, or the first one is taken away.
LEMMA RestMoves ==
  ASSUME NEW q \in Seq(Messages), NEW t, NEW k \in Nat, NEW last \in Nat,
         HoldsRest(q, t, k, last)
  PROVE  /\ \A m \in Messages : m.task = t /\ m.nr = last + 1 =>
              HoldsRest(Append(q, m), t, k, last + 1)
         /\ q # <<>> => /\ HoldsRest(Tail(q), t, k + 1, last)
                        /\ Head(q).task = t /\ Head(q).nr = k + 1 /\ Head(q) \in Messages
<1>1. Len(q) \in Nat /\ k + Len(q) = last /\ \A i \in 1..Len(q) : q[i].task = t /\ q[i].nr = k + i
  BY DEF HoldsRest
<1>2. ASSUME NEW m \in Messages, m.task = t, m.nr = last + 1
      PROVE  HoldsRest(Append(q, m), t, k, last + 1)
  <2> DEFINE p == Append(q, m)
  <2>1. Len(p) = Len(q) + 1 /\ p[Len(q) + 1] = m /\ \A i \in 1..Len(q) : p[i] = q[i]
    OBVIOUS
  <2> HIDE DEF p
  <2>2. \A i \in 1..Len(q) + 1 : i \in 1..Len(q) \/ i = Len(q) + 1
    BY <1>1
  <2> QED BY <1>1, <1>2, <2>1, <2>2 DEF HoldsRest, p
<1>3. ASSUME q # <<>>
      PROVE  /\ HoldsRest(Tail(q), t, k + 1, last)
             /\ Head(q).task = t /\ Head(q).nr = k + 1 /\ Head(q) \in Messages
  <2> DEFINE p == Tail(q)
  <2>1. /\ Len(p) = Len(q) - 1 /\ Len(q) >= 1 /\ \A i \in 1..Len(q) - 1 : p[i] = q[i + 1]
        /\ Head(q) = q[1] /\ Head(q) \in Messages
    BY <1>3, HeadTailProperties
  <2> HIDE DEF p
  <2>2. ASSUME NEW i \in 1..Len(q) - 1 PROVE p[i].task = t /\ p[i].nr = (k + 1) + i
    <3>1. i + 1 \in 1..Len(q) /\ k + (i + 1) = (k + 1) + i
      BY <1>1
    <3>2. q[i + 1].task = t /\ q[i + 1].nr = k + (i + 1)
      BY <1>1, <3>1
    <3> QED BY <2>1, <3>1, <3>2
  <2>3. (k + 1) + Len(p) = last /\ 1..Len(p) = 1..Len(q) - 1
    <3>1. PICK N \in Nat : N = Len(q)
      BY <1>1
    <3>2. Len(p) = N - 1 /\ k + N = last
      BY <1>1, <2>1, <3>1
    <3>3. (k + 1) + (N - 1) = k + N
      OBVIOUS
    <3> QED BY <3>1, <3>2, <3>3
  <2>4. HoldsRest(p, t, k + 1, last)
    BY <2>2, <2>3 DEF HoldsRest
  <2>5. 1 \in 1..Len(q)
    BY <1>1, <2>1
  <2>6. q[1].task = t /\ q[1].nr = k + 1
    BY <1>1, <2>5
  <2> QED BY <2>1, <2>4, <2>6 DEF p
<1> QED BY <1>2, <1>3

AuxInv == FreshInv /\ MutexInv /\ FailInv /\ OwnInv

\* Facts about a worker that takes a step.
LEMMA WorkerFacts ==
  ASSUME TypeOK, NEW w \in Workers
  PROVE  /\ w \in Threads /\ w # Launcher /\ w \in Nat
         /\ pc \in [Threads -> LauncherLabels \cup WorkerLabels]
         /\ queue \in [Threads -> Seq(Messages)] /\ queue[w] \in Seq(Messages)
         /\ pc[w] \in AtWork => n[w] \in Tasks /\ n[w] < len
         /\ n[w] \in Nat /\ len \in Nat /\ \A k \in Nat : k < len => k \in Tasks
<1>1. w \in Threads /\ w # Launcher
  BY SetFacts
<1>2. w \in Nat
  BY ConstantsAssumption DEF Workers
<1>3. /\ pc \in [Threads -> LauncherLabels \cup WorkerLabels]
      /\ queue \in [Threads -> Seq(Messages)] /\ queue[w] \in Seq(Messages)
      /\ n \in [Threads -> Nat] /\ (pc[w] \in AtWork => n[w] < len)
  BY <1>1 DEF TypeOK, ThreadTypeOK, QueueTypeOK
<1>4. len \in Nat /\ \A k \in Nat : k < len => k \in Tasks
  BY SetFacts DEF TypeOK, ArgTypeOK, Tasks
<1> QED BY <1>1, <1>2, <1>3, <1>4

\* A worker leaves the others, and the arguments of the launch, as they are.
LEMMA WorkerFrame ==
  ASSUME TypeOK, NEW w \in Workers, WorkerNext(w)
  PROVE  /\ \A u \in Threads : u # w => pc'[u] = pc[u] /\ n'[u] = n[u]
         /\ pc'[Launcher] = pc[Launcher]
         /\ UNCHANGED <<len, numThreads, cached, created, result>>
         /\ fail => fail'
         /\ Serial' = Serial /\ ThreadsToCreate' = ThreadsToCreate
         /\ CreateFailed' = CreateFailed
<1>1. /\ \A u \in Threads : u # w => pc'[u] = pc[u] /\ n'[u] = n[u]
      /\ UNCHANGED <<argVars, mainVars>> /\ (fail => fail')
  BY WorkerFacts
     DEF TypeOK, ThreadTypeOK, WorkerNext, TakeTask, StartTask, Exit, Report, ReportTo, EndWork,
         TaskFails, SetFail, LockParent, MoveBegin, MoveEnd, UnlockParent, StoreStatus, Step, Goto,
         taskVars
<1>2. pc'[Launcher] = pc[Launcher]
  BY <1>1, SetFacts
<1>3. UNCHANGED <<len, numThreads, cached, created, result>>
  BY <1>1 DEF argVars, mainVars
<1>4. Serial' = Serial /\ ThreadsToCreate' = ThreadsToCreate
  BY <1>3 DEF Serial, ThreadsToCreate
<1>5. CreateFailed' = CreateFailed
  BY <1>2, <1>3, <1>4 DEF CreateFailed
<1> QED BY <1>1, <1>2, <1>3, <1>4, <1>5

\* The steps of a worker.
LEMMA AuxWorker ==
  ASSUME TypeOK, LaunchInv, AuxInv, NEW w \in Workers, WorkerNext(w)
  PROVE  AuxInv'
<1>0. /\ w \in Threads /\ w # Launcher /\ queue[w] \in Seq(Messages)
      /\ pc \in [Threads -> LauncherLabels \cup WorkerLabels]
      /\ n \in [Threads -> Nat] /\ current \in Nat /\ len \in Nat
      /\ status \in [Tasks -> {"none", "done"}] /\ runs \in [Tasks -> Nat]
      /\ queue \in [Threads -> Seq(Messages)] /\ reports \in [Tasks -> Nat]
      /\ Workers \subseteq Threads /\ Tasks \subseteq Nat
      /\ \A k \in Nat : k < len => k \in Tasks
      /\ pc[w] \in AtWork => n[w] \in Tasks /\ n[w] < len
  <2>1. n \in [Threads -> Nat]
    BY DEF TypeOK, ThreadTypeOK
  <2>2. current \in Nat /\ status \in [Tasks -> {"none", "done"}] /\ runs \in [Tasks -> Nat]
    BY DEF TypeOK, TaskTypeOK
  <2>3. reports \in [Tasks -> Nat]
    BY DEF TypeOK, QueueTypeOK
  <2> QED BY <2>1, <2>2, <2>3, WorkerFacts, SetFacts
<1>1. FailInv'
  BY WorkerFrame DEF AuxInv, FailInv
<1>2. CASE TakeTask(w)
  <2> USE <1>2 DEF TakeTask, Step, Goto, queueVars, argVars
  <2>1. FreshInv'
    BY <1>0 DEF AuxInv, FreshInv, Holding, AtWork
  <2>2. MutexInv' /\ OwnInv'
    BY <1>0 DEF AuxInv, MutexInv, OwnInv
  <2> QED BY <1>1, <2>1, <2>2 DEF AuxInv
<1>3. CASE StartTask(w)
  <2> USE <1>3 DEF StartTask, Step, Goto, queueVars, argVars
  <2>1. n[w] \in Tasks
    BY <1>0
  <2>2. FreshInv'
    BY <1>0, <2>1 DEF AuxInv, FreshInv, Holding, AtWork
  <2>3. MutexInv' /\ OwnInv'
    BY <1>0 DEF AuxInv, MutexInv, OwnInv
  <2> QED BY <1>1, <2>2, <2>3 DEF AuxInv
<1>4. CASE Exit(w)
  <2> USE <1>4 DEF Exit, Step, Goto, taskVars, argVars
  <2>1. FreshInv'
    BY <1>0 DEF AuxInv, FreshInv, Holding, AtWork
  <2>2. MutexInv' /\ OwnInv'
    BY <1>0 DEF AuxInv, MutexInv, OwnInv
  <2> QED BY <1>1, <2>1, <2>2 DEF AuxInv
<1>5. CASE Report(w)
  <2>1. /\ pc[w] = "run" /\ UNCHANGED <<len, pc, n, current, fail, status, runs, parentMutex>>
        /\ reports' = [reports EXCEPT ![n[w]] = @ + 1]
        /\ \A u \in Threads : u # w => queue'[u] = queue[u]
    BY <1>0, <1>5 DEF Report, ReportTo, taskVars, argVars
  <2>2. runs[n[w]] = 1
    BY <1>0, <2>1 DEF LaunchInv, RunsInv, AtWork
  <2>3. FreshInv'
    BY <1>0, <2>1, <2>2 DEF AuxInv, FreshInv
  <2>4. MutexInv' /\ OwnInv'
    BY <1>0, <2>1 DEF AuxInv, MutexInv, OwnInv
  <2> QED BY <1>1, <2>3, <2>4 DEF AuxInv
<1>6. CASE EndWork(w) \/ TaskFails(w)
  <2>1. /\ pc[w] = "run" /\ pc'[w] \in {"store", "lock", "failed"}
        /\ pc'[w] = "store" => queue[w] = <<>>
        /\ \A u \in Threads : u # w => pc'[u] = pc[u]
        /\ UNCHANGED <<len, n, current, fail, status, runs, reports, parentMutex, queue>>
    BY <1>0, <1>6 DEF EndWork, TaskFails, Step, Goto, taskVars, argVars, queueVars
  <2>2. FreshInv'
    BY <1>0, <2>1 DEF AuxInv, FreshInv, Holding, AtWork
  <2>3. MutexInv' /\ OwnInv'
    BY <1>0, <2>1 DEF AuxInv, MutexInv, OwnInv
  <2> QED BY <1>1, <2>2, <2>3 DEF AuxInv
<1>7. CASE SetFail(w)
  <2>1. /\ pc[w] = "failed" /\ pc'[w] = "take" /\ fail'
        /\ \A u \in Threads : u # w => pc'[u] = pc[u]
        /\ UNCHANGED <<len, n, current, status, runs, reports, parentMutex, queue>>
    BY <1>0, <1>7 DEF SetFail, Step, Goto, argVars, queueVars
  <2>2. FreshInv'
    BY <1>0, <2>1 DEF AuxInv, FreshInv, Holding, AtWork
  <2>3. MutexInv' /\ OwnInv'
    BY <1>0, <2>1 DEF AuxInv, MutexInv, OwnInv
  <2> QED BY <1>1, <2>2, <2>3 DEF AuxInv
<1>8. CASE LockParent(w)
  <2>1. /\ pc[w] = "lock" /\ pc'[w] = "move" /\ parentMutex = "free" /\ parentMutex' = "locked"
        /\ \A u \in Threads : u # w => pc'[u] = pc[u]
        /\ UNCHANGED <<len, n, current, fail, status, runs, reports, queue>>
    BY <1>0, <1>8 DEF LockParent, Step, Goto, argVars, taskVars
  <2>2. FreshInv'
    BY <1>0, <2>1 DEF AuxInv, FreshInv, Holding, AtWork
  <2>3. MutexInv' /\ OwnInv'
    BY <1>0, <2>1 DEF AuxInv, MutexInv, OwnInv
  <2> QED BY <1>1, <2>2, <2>3 DEF AuxInv
<1>9. CASE MoveBegin(w) \/ MoveEnd(w)
  <2>1. /\ pc[w] \in {"move", "moving"} /\ pc'[w] \in {"move", "moving"}
        /\ \A u \in Threads : u # w => pc'[u] = pc[u]
        /\ UNCHANGED <<len, n, current, fail, status, runs, reports, parentMutex>>
    BY <1>0, <1>9 DEF MoveBegin, MoveEnd, Step, Goto, argVars, taskVars
  <2>2. \A u \in Workers : u # w => queue'[u] = queue[u]
    BY <1>0, <1>9, SetFacts DEF MoveBegin, MoveEnd, Parent
  <2>3. FreshInv'
    BY <1>0, <2>1 DEF AuxInv, FreshInv, Holding, AtWork
  <2>4. MutexInv' /\ OwnInv'
    BY <1>0, <2>1, <2>2 DEF AuxInv, MutexInv, OwnInv
  <2> QED BY <1>1, <2>3, <2>4 DEF AuxInv
<1>10. CASE UnlockParent(w)
  <2>1. /\ pc[w] = "move" /\ pc'[w] = "store" /\ parentMutex' = "free" /\ queue[w] = <<>>
        /\ \A u \in Threads : u # w => pc'[u] = pc[u]
        /\ UNCHANGED <<len, n, current, fail, status, runs, reports, queue>>
    BY <1>0, <1>10 DEF UnlockParent, Step, Goto, argVars, taskVars
  <2>2. FreshInv'
    BY <1>0, <2>1 DEF AuxInv, FreshInv, Holding, AtWork
  <2>3. MutexInv' /\ OwnInv'
    BY <1>0, <2>1 DEF AuxInv, MutexInv, OwnInv
  <2> QED BY <1>1, <2>2, <2>3 DEF AuxInv
<1>11. CASE StoreStatus(w)
  <2>1. /\ pc[w] = "store" /\ pc'[w] = "take" /\ status' = [status EXCEPT ![n[w]] = "done"]
        /\ \A u \in Threads : u # w => pc'[u] = pc[u]
        /\ UNCHANGED <<len, n, current, fail, runs, reports, parentMutex, queue>>
    BY <1>0, <1>11 DEF StoreStatus, Step, Goto, argVars, queueVars
  <2>2. n[w] < current /\ \A u \in Threads : u # w /\ pc[u] \in Holding => n[u] # n[w]
    BY <1>0, <2>1 DEF LaunchInv, DrawnInv, Holding, AtWork
  <2>3. FreshInv'
    <3>1. \A k \in Tasks : k # n[w] => status'[k] = status[k]
      BY <1>0, <2>1
    <3>2. \A k \in Tasks : k >= current => k # n[w]
      BY <1>0, <2>2
    <3>3. \A u \in Threads : pc'[u] \in Holding => u # w /\ pc[u] \in Holding
      BY <2>1 DEF Holding, AtWork
    <3>4. \A u \in Threads : n[u] \in Nat
      BY <1>0
    <3> QED BY <1>0, <2>1, <2>2, <3>1, <3>2, <3>3, <3>4 DEF AuxInv, FreshInv
  <2>4. MutexInv' /\ OwnInv'
    BY <1>0, <2>1 DEF AuxInv, MutexInv, OwnInv
  <2> QED BY <1>1, <2>3, <2>4 DEF AuxInv
<1> QED BY <1>2, <1>3, <1>4, <1>5, <1>6, <1>7, <1>8, <1>9, <1>10, <1>11 DEF WorkerNext

\* The steps of the launcher.
LEMMA AuxLauncher ==
  ASSUME TypeOK, LaunchInv, AuxInv, LauncherNext \/ CreateFails
  PROVE  AuxInv'
<1>0. /\ Launcher \in Threads /\ Launcher \notin Workers
      /\ pc \in [Threads -> LauncherLabels \cup WorkerLabels]
      /\ n \in [Threads -> Nat] /\ current \in Nat /\ len \in Nat
      /\ status \in [Tasks -> {"none", "done"}] /\ runs \in [Tasks -> Nat]
      /\ queue \in [Threads -> Seq(Messages)] /\ reports \in [Tasks -> Nat]
      /\ Workers \subseteq Threads /\ Tasks \subseteq Nat
      /\ \A k \in Nat : k < len => k \in Tasks
      /\ pc[Launcher] = "run" => n[Launcher] \in Tasks /\ n[Launcher] < len
  <2>1. n \in [Threads -> Nat] /\ pc \in [Threads -> LauncherLabels \cup WorkerLabels]
    BY DEF TypeOK, ThreadTypeOK
  <2>2. current \in Nat /\ status \in [Tasks -> {"none", "done"}] /\ runs \in [Tasks -> Nat]
    BY DEF TypeOK, TaskTypeOK
  <2>3. queue \in [Threads -> Seq(Messages)] /\ reports \in [Tasks -> Nat]
    BY DEF TypeOK, QueueTypeOK
  <2>4. len \in Nat /\ \A k \in Nat : k < len => k \in Tasks
    BY SetFacts DEF TypeOK, ArgTypeOK, Tasks
  <2>5. pc[Launcher] = "run" => n[Launcher] \in Tasks /\ n[Launcher] < len
    BY <2>1, <2>4, SetFacts DEF TypeOK, ThreadTypeOK, AtWork
  <2> QED BY <2>1, <2>2, <2>3, <2>4, <2>5, SetFacts
<1>1. CASE CreateThread
  <2> DEFINE v == created + 1
  <2>1. v \in Workers /\ v \in Threads /\ v # Launcher
    BY <1>1, CreatedWorker DEF CreateThread
  <2>2. pc[v] = "absent" /\ pc[Launcher] = "create" /\ pc' = [pc EXCEPT ![v] = "take"]
    <3>1. created \in Nat
      BY DEF TypeOK, ArgTypeOK, MainTypeOK
    <3>2. pc[v] = "absent"
      BY <2>1, <3>1 DEF LaunchInv, PhaseInv
    <3> QED BY <1>1, <3>2 DEF CreateThread, Goto
  <2> HIDE DEF v
  <2>3. UNCHANGED <<len, numThreads, n, current, fail, status, runs, reports, parentMutex, queue>>
    BY <1>1 DEF CreateThread, argVars, taskVars, queueVars
  <2>4. pc'[v] = "take" /\ \A u \in Threads : u # v => pc'[u] = pc[u]
    BY <1>0, <2>1, <2>2
  <2>5. FreshInv'
    BY <1>0, <2>1, <2>3, <2>4 DEF AuxInv, FreshInv, Holding, AtWork
  <2>6. MutexInv' /\ OwnInv'
    BY <1>0, <2>1, <2>2, <2>3, <2>4 DEF AuxInv, MutexInv, OwnInv
  <2>7. FailInv'
    <3>1. pc'[Launcher] = "create" /\ Serial' = Serial
      BY <1>0, <2>1, <2>2, <2>3, <2>4 DEF Serial
    <3> QED BY <2>2, <3>1 DEF AuxInv, FailInv, CreateFailed
  <2> QED BY <2>5, <2>6, <2>7 DEF AuxInv
<1>2. CASE CreateFails
  <2>1. /\ pc[Launcher] = "create" /\ pc'[Launcher] = "addMessage" /\ fail'
        /\ created < ThreadsToCreate
        /\ \A u \in Threads : u # Launcher => pc'[u] = pc[u]
        /\ UNCHANGED <<len, numThreads, created, n, current, status, runs, reports, parentMutex,
                       queue>>
    BY <1>0, <1>2 DEF CreateFails, Step, Goto, argVars, mainVars
  <2>2. FreshInv'
    BY <1>0, <2>1 DEF AuxInv, FreshInv, Holding, AtWork
  <2>3. MutexInv' /\ OwnInv'
    BY <1>0, <2>1 DEF AuxInv, MutexInv, OwnInv
  <2>4. FailInv'
    <3>1. Serial' = Serial /\ ThreadsToCreate' = ThreadsToCreate
      BY <2>1 DEF Serial, ThreadsToCreate
    <3> QED BY <2>1, <3>1 DEF AuxInv, FailInv, CreateFailed
  <2> QED BY <2>2, <2>3, <2>4 DEF AuxInv
<1>3. CASE AddMessage \/ StartJoin \/ JoinFailed \/ JoinTooFew \/ JoinReturn
  <2>1. /\ pc[Launcher] \in {"addMessage", "create", "join"}
        /\ pc'[Launcher] \in {"join", "thrown", "returned"}
        /\ pc[Launcher] = "create" => created = ThreadsToCreate
        /\ \A u \in Threads : u # Launcher => pc'[u] = pc[u] /\ queue'[u] = queue[u]
        /\ UNCHANGED <<len, numThreads, created, n, current, fail, status, runs, reports,
                       parentMutex>>
    BY <1>0, <1>3
       DEF AddMessage, StartJoin, JoinFailed, JoinTooFew, JoinReturn, Join, Step, Goto,
           argVars, mainVars, taskVars, queueVars
  <2>2. FreshInv'
    BY <1>0, <2>1 DEF AuxInv, FreshInv, Holding, AtWork
  <2>3. MutexInv' /\ OwnInv'
    BY <1>0, <2>1 DEF AuxInv, MutexInv, OwnInv
  <2>4. FailInv'
    <3>1. Serial' = Serial /\ ThreadsToCreate' = ThreadsToCreate
      BY <2>1 DEF Serial, ThreadsToCreate
    <3>2. created \in Nat /\ ThreadsToCreate \in Nat
      BY ConstantsAssumption DEF TypeOK, ArgTypeOK, MainTypeOK, ThreadsToCreate
    <3>3. CreateFailed' => CreateFailed
      BY <2>1, <3>1, <3>2 DEF CreateFailed, AuxInv, FailInv
    <3> QED BY <2>1, <3>1, <3>3 DEF AuxInv, FailInv
  <2> QED BY <2>2, <2>3, <2>4 DEF AuxInv
<1>4. CASE SerialStart \/ SerialReport \/ SerialEnd \/ SerialFails \/ SerialReturn
  <2>1. /\ pc[Launcher] \in {"serial", "run"}
        /\ pc'[Launcher] \in {"serial", "run", "thrown", "returned"}
        /\ \A u \in Threads : u # Launcher => /\ pc'[u] = pc[u] /\ n'[u] = n[u]
                                              /\ queue'[u] = queue[u]
        /\ UNCHANGED <<len, numThreads, created, fail, parentMutex>>
    BY <1>0, <1>4
       DEF SerialStart, SerialReport, ReportTo, SerialEnd, SerialFails, SerialReturn, Step, Goto,
           argVars, mainVars, taskVars, queueVars
  <2>2. \A w \in Workers : pc[w] = "absent"
    BY <2>1 DEF LaunchInv, PhaseInv, Workers
  <2>3. MutexInv' /\ OwnInv'
    BY <1>0, <2>1 DEF AuxInv, MutexInv, OwnInv
  <2>4. FailInv'
    <3>1. Serial' = Serial /\ Serial
      BY <2>1 DEF Serial, AuxInv, FailInv
    <3> QED BY <2>1, <3>1 DEF AuxInv, FailInv, CreateFailed
  <2>5. FreshInv'
    <3>1. \A u \in Threads : pc'[u] \in Holding => u = Launcher /\ pc'[u] = "run"
      BY <2>1, <2>2, SetFacts DEF Holding, AtWork
    <3>2. CASE SerialStart
      <4>1. /\ current \in Tasks /\ current' = current + 1 /\ n'[Launcher] = current
            /\ runs' = [runs EXCEPT ![current] = @ + 1] /\ UNCHANGED <<status, reports>>
        BY <1>0, <3>2 DEF SerialStart, queueVars
      <4>2. \A k \in Tasks : /\ k >= current' => k >= current
                             /\ runs'[k] = 0 => runs[k] = 0
        BY <1>0, <4>1
      <4> QED BY <1>0, <3>1, <4>1, <4>2 DEF AuxInv, FreshInv
    <3>3. CASE SerialReport
      <4>1. /\ pc[Launcher] = "run" /\ UNCHANGED <<len, pc, n, current, status, runs>>
            /\ reports' = [reports EXCEPT ![n[Launcher]] = @ + 1]
        BY <3>3 DEF SerialReport, ReportTo, taskVars, argVars
      <4>2. runs[n[Launcher]] = 1
        BY <1>0, <4>1 DEF LaunchInv, RunsInv, AtWork
      <4> QED BY <1>0, <4>1, <4>2 DEF AuxInv, FreshInv
    <3>4. CASE SerialEnd
      <4>1. /\ pc[Launcher] = "run" /\ pc'[Launcher] = "serial"
            /\ status' = [status EXCEPT ![n[Launcher]] = "done"]
            /\ UNCHANGED <<n, current, runs, reports>>
        BY <1>0, <3>4 DEF SerialEnd, Step, Goto, queueVars
      <4>2. n[Launcher] < current
        BY <1>0, <4>1 DEF LaunchInv, DrawnInv, Holding, AtWork
      <4>3. \A k \in Tasks : k >= current => k # n[Launcher]
        BY <1>0, <4>1, <4>2
      <4>4. \A k \in Tasks : k >= current => status'[k] = status[k]
        BY <1>0, <4>1, <4>3
      <4> QED BY <1>0, <3>1, <4>1, <4>4 DEF AuxInv, FreshInv
    <3>5. CASE SerialFails \/ SerialReturn
      <4>1. pc'[Launcher] # "run" /\ UNCHANGED <<current, status, runs, reports>>
        BY <1>0, <3>5 DEF SerialFails, SerialReturn, Step, Goto, taskVars, queueVars
      <4> QED BY <1>0, <3>1, <4>1 DEF AuxInv, FreshInv
    <3> QED BY <1>4, <3>2, <3>3, <3>4, <3>5
  <2> QED BY <2>3, <2>4, <2>5 DEF AuxInv
<1> QED BY <1>1, <1>2, <1>3, <1>4 DEF LauncherNext

\* A step that moves and starts nothing.
LEMMA ArrivedFrame ==
  ASSUME Arrived, UNCHANGED reports, queue'[Launcher] = queue[Launcher],
         \A t \in Tasks : /\ status'[t] = "done" => status[t] = "done"
                          /\ runs'[t] = 0 => runs[t] = 0,
         \A w \in Workers :
           /\ pc'[w] \in Pending => pc[w] \in Pending /\ n'[w] = n[w] /\ queue'[w] = queue[w]
           /\ pc'[w] = "moving" => pc[w] = "moving" /\ slot'[w] = slot[w],
         pc'[Launcher] = "run" => pc[Launcher] = "run" /\ n'[Launcher] = n[Launcher]
  PROVE  Arrived'
<1>1. \A w \in Workers : pc'[w] \in Pending => \E k \in Nat : Split(w, k)'
  BY DEF Arrived, Split
<1> QED BY <1>1 DEF Arrived

\* The steps of a worker.
LEMMA ArrivedWorker ==
  ASSUME TypeOK, LaunchInv, AuxInv, cached, Arrived, NEW w \in Workers, WorkerNext(w)
  PROVE  Arrived'
<1>0. /\ w \in Threads /\ w # Launcher /\ queue[w] \in Seq(Messages)
      /\ pc \in [Threads -> LauncherLabels \cup WorkerLabels]
      /\ n \in [Threads -> Nat] /\ current \in Nat /\ len \in Nat
      /\ status \in [Tasks -> {"none", "done"}] /\ runs \in [Tasks -> Nat]
      /\ queue \in [Threads -> Seq(Messages)] /\ reports \in [Tasks -> Nat]
      /\ slot \in [Threads -> Nat]
      /\ Workers \subseteq Threads /\ Tasks \subseteq Nat
      /\ Launcher \in Threads /\ Launcher \notin Workers
      /\ \A k \in Nat : k < len => k \in Tasks
      /\ pc[w] \in AtWork => n[w] \in Tasks /\ n[w] < len
  <2>1. n \in [Threads -> Nat]
    BY DEF TypeOK, ThreadTypeOK
  <2>2. current \in Nat /\ status \in [Tasks -> {"none", "done"}] /\ runs \in [Tasks -> Nat]
    BY DEF TypeOK, TaskTypeOK
  <2>3. reports \in [Tasks -> Nat] /\ slot \in [Threads -> Nat]
    BY DEF TypeOK, QueueTypeOK
  <2> QED BY <2>1, <2>2, <2>3, WorkerFacts, SetFacts
<1>1. pc'[Launcher] = pc[Launcher] /\ \A u \in Threads : u # w => pc'[u] = pc[u] /\ n'[u] = n[u]
  BY WorkerFrame
<1>2. pc[w] # "absent" => pc[Launcher] # "run"
  <2>1. w > 0
    BY ConstantsAssumption DEF Workers
  <2> QED BY <2>1 DEF LaunchInv, PhaseInv
<1>3. pc[w] \in Pending =>
        /\ pc[w] \in AtWork /\ runs[n[w]] = 1 /\ status[n[w]] = "none"
        /\ \A u \in Workers : u # w /\ pc[u] \in Pending => n[u] # n[w]
  BY <1>0 DEF Pending, AtWork, Holding, LaunchInv, RunsInv, DrawnInv, AuxInv, FreshInv
<1>4. CASE TakeTask(w)
  <2>1. /\ pc[w] = "take" /\ pc'[w] = "check" /\ UNCHANGED <<queue, reports, slot, status, runs>>
    BY <1>0, <1>4 DEF TakeTask, Step, Goto, queueVars
  <2> QED BY <1>0, <1>1, <2>1, ArrivedFrame DEF Pending
<1>5. CASE StartTask(w)
  <2>1. /\ pc[w] = "check" /\ pc'[w] = "run" /\ ~fail /\ n[w] < len
        /\ runs' = [runs EXCEPT ![n[w]] = @ + 1]
        /\ UNCHANGED <<queue, reports, slot, status, n>>
    BY <1>0, <1>5 DEF StartTask, Step, Goto, queueVars
  <2>2. n[w] \in Tasks /\ runs[n[w]] = 0 /\ reports[n[w]] = 0 /\ queue[w] = <<>>
    BY <1>0, <2>1 DEF LaunchInv, RunsInv, AuxInv, FreshInv, OwnInv
  <2>3. HoldsFirst(queue[Launcher], n[w], 0)
    BY <2>2 DEF Arrived
  <2>4. HoldsRest(<<>>, n[w], 0, 0)
    BY DEF HoldsRest
  <2>5. Split(w, 0)'
    BY <2>1, <2>2, <2>3, <2>4 DEF Split
  <2>6. \A u \in Workers : u # w /\ pc'[u] \in Pending => \E k \in Nat : Split(u, k)'
    BY <1>0, <1>1, <2>1 DEF Arrived, Split
  <2>7. \A t \in Tasks : runs'[t] = 0 => runs[t] = 0
    BY <1>0, <2>1, <2>2
  <2>8. \A u \in Workers : pc'[u] = "moving" => pc[u] = "moving"
    BY <1>0, <1>1, <2>1
  <2>9. \A u \in Workers : pc'[u] \in Pending => \E k \in Nat : Split(u, k)'
    BY <2>5, <2>6
  <2> QED BY <1>1, <1>2, <2>1, <2>7, <2>8, <2>9 DEF Arrived
<1>6. CASE Exit(w)
  <2>1. /\ pc'[w] = "exited" /\ UNCHANGED <<reports, slot, status, runs, n>>
        /\ \A u \in Threads : u # w => queue'[u] = queue[u]
    BY <1>0, <1>6 DEF Exit, Step, Goto, taskVars
  <2> QED BY <1>0, <1>1, <2>1, ArrivedFrame DEF Pending
<1>7. CASE Report(w)
  <2>1. /\ pc[w] = "run" /\ UNCHANGED <<pc, n, slot, status, runs>>
        /\ reports' = [reports EXCEPT ![n[w]] = @ + 1]
        /\ \E m \in Messages : /\ queue' = [queue EXCEPT ![w] = Append(@, m)]
                               /\ m.task = n[w] /\ m.nr = reports[n[w]] + 1
    <3>1. /\ pc[w] = "run" /\ UNCHANGED <<pc, n, slot, status, runs>>
          /\ reports[n[w]] < MaxReports
          /\ reports' = [reports EXCEPT ![n[w]] = @ + 1]
      BY <1>7 DEF Report, ReportTo, taskVars
    <3>2. PICK s \in Severities :
            queue' = [queue EXCEPT ![w] =
              Append(@, [task |-> n[w], nr |-> reports[n[w]] + 1, severity |-> s])]
      BY <1>7 DEF Report, ReportTo
    <3> DEFINE m == [task |-> n[w], nr |-> reports[n[w]] + 1, severity |-> s]
    <3>3. n[w] \in Tasks /\ reports[n[w]] + 1 \in 1..MaxReports
      BY <1>0, <3>1, ConstantsAssumption DEF AtWork
    <3>4. m \in Messages /\ m.task = n[w] /\ m.nr = reports[n[w]] + 1
      BY <3>3 DEF Messages
    <3> QED BY <3>1, <3>2, <3>4
  <2>2. PICK m \in Messages : /\ queue' = [queue EXCEPT ![w] = Append(@, m)]
                              /\ m.task = n[w] /\ m.nr = reports[n[w]] + 1
    BY <2>1
  <2>3. n[w] \in Tasks /\ runs[n[w]] = 1 /\ status[n[w]] = "none"
    BY <1>0, <1>3, <2>1 DEF Pending
  <2>4. /\ queue'[w] = Append(queue[w], m) /\ \A u \in Threads : u # w => queue'[u] = queue[u]
        /\ reports'[n[w]] = reports[n[w]] + 1
        /\ \A t \in Tasks : t # n[w] => reports'[t] = reports[t]
    BY <1>0, <2>1, <2>2, <2>3
  <2>5. PICK k \in Nat : Split(w, k)
    BY <2>1 DEF Arrived, Pending
  <2>6. HoldsRest(queue'[w], n[w], k, reports[n[w]] + 1)
    BY <1>0, <2>2, <2>3, <2>4, <2>5, RestMoves DEF Split
  <2>7. Split(w, k)'
    BY <1>0, <2>1, <2>4, <2>5, <2>6 DEF Split
  <2>8. ASSUME NEW u \in Workers, u # w, pc[u] \in Pending
        PROVE  \E j \in Nat : Split(u, j)'
    <3>1. n[u] # n[w] /\ n[u] \in Tasks
      <4>1. pc[u] \in AtWork
        BY <2>8 DEF Pending, AtWork
      <4> QED BY <1>3, <2>1, <2>8, <4>1, WorkerFacts DEF Pending
    <3> QED BY <1>0, <2>1, <2>4, <2>8, <3>1 DEF Arrived, Split
  <2>9. \A u \in Workers : pc'[u] \in Pending => \E j \in Nat : Split(u, j)'
    BY <2>1, <2>7, <2>8
  <2>10. \A t \in Tasks : status[t] = "done" \/ runs[t] = 0 => t # n[w]
    BY <2>3
  <2> QED BY <1>0, <1>2, <2>1, <2>4, <2>9, <2>10 DEF Arrived
<1>8. CASE EndWork(w) \/ TaskFails(w) \/ LockParent(w) \/ UnlockParent(w) \/ SetFail(w)
  <2>1. /\ UNCHANGED <<queue, reports, slot, status, runs, n>>
        /\ pc'[w] # "moving" /\ (pc'[w] \in Pending => pc[w] \in Pending)
    BY <1>0, <1>8
       DEF EndWork, TaskFails, LockParent, UnlockParent, SetFail, Step, Goto, taskVars, queueVars,
           Pending
  <2> QED BY <1>0, <1>1, <2>1, ArrivedFrame
<1>9. CASE MoveBegin(w)
  <2>1. /\ UNCHANGED <<queue, reports, status, runs, n>> /\ pc[w] = "move" /\ pc'[w] = "moving"
        /\ slot' = [slot EXCEPT ![w] = Len(queue[Launcher])]
    BY <1>0, <1>9 DEF MoveBegin, Step, Goto, taskVars, Parent
  <2>2. \A u \in Workers : pc'[u] = "moving" => slot'[u] = Len(queue[Launcher])
    BY <1>0, <1>1, <2>1 DEF Arrived
  <2>3. \A u \in Workers : pc'[u] \in Pending => \E k \in Nat : Split(u, k)'
    BY <1>0, <1>1, <2>1 DEF Arrived, Split, Pending
  <2> QED BY <1>1, <1>2, <2>1, <2>2, <2>3 DEF Arrived
<1>10. CASE MoveEnd(w)
  <2> DEFINE m == Head(queue[w])
             Q == queue[Launcher]
  <2>1. /\ pc[w] = "moving" /\ pc'[w] = "move" /\ UNCHANGED <<reports, status, runs, n, slot>>
        /\ queue' = [[queue EXCEPT ![Launcher] = Store(@, slot[w], m)] EXCEPT ![w] = Tail(@)]
    BY <1>0, <1>10 DEF MoveEnd, Step, Goto, taskVars, Parent
  <2>2. queue[w] # <<>> /\ slot[w] = Len(Q) /\ Q \in Seq(Messages)
    BY <1>0, <2>1 DEF TypeOK, MovingOK, Arrived
  <2>3. Store(Q, slot[w], m) = Append(Q, m)
    BY <2>2 DEF Store
  <2>4. /\ queue'[Launcher] = Append(Q, m) /\ queue'[w] = Tail(queue[w])
        /\ \A u \in Workers : u # w => queue'[u] = queue[u]
    BY <1>0, <2>1, <2>3
  <2>5. PICK k \in Nat : Split(w, k)
    BY <2>1 DEF Arrived, Pending
  <2>6. n[w] \in Tasks /\ runs[n[w]] = 1 /\ status[n[w]] = "none"
    BY <1>0, <1>3, <2>1 DEF Pending
  <2>7. /\ HoldsRest(Tail(queue[w]), n[w], k + 1, reports[n[w]])
        /\ m.task = n[w] /\ m.nr = k + 1 /\ m \in Messages
    BY <1>0, <2>2, <2>5, <2>6, RestMoves DEF Split
  <2> HIDE DEF m, Q
  <2>8. Split(w, k + 1)'
    <3>1. n[w] \in Int /\ HoldsFirst(Q, n[w], k)
      BY <1>0, <2>5, <2>6 DEF Split, Q
    <3>2. HoldsFirst(Append(Q, m), n[w], k + 1)
      BY <2>2, <2>7, <3>1, HoldsAppend
    <3> QED BY <2>1, <2>4, <2>7, <3>2 DEF Split
  <2>9. ASSUME NEW t \in Tasks, t # n[w], NEW j \in Nat, HoldsFirst(Q, t, j)
        PROVE  HoldsFirst(queue'[Launcher], t, j)
    <3>1. t \in Int
      BY <1>0
    <3> QED BY <2>2, <2>4, <2>7, <2>9, <3>1, HoldsAppend
  <2>10. ASSUME NEW u \in Workers, u # w, pc[u] \in Pending
         PROVE  \E j \in Nat : Split(u, j)'
    <3>1. n[u] # n[w] /\ n[u] \in Tasks
      <4>1. pc[u] \in AtWork
        BY <2>10 DEF Pending, AtWork
      <4> QED BY <1>3, <2>1, <2>10, <4>1, WorkerFacts DEF Pending
    <3>2. PICK j \in Nat : Split(u, j)
      BY <2>10 DEF Arrived
    <3>3. HoldsFirst(queue'[Launcher], n[u], j)
      BY <2>9, <3>1, <3>2 DEF Split, Q
    <3> QED BY <2>1, <2>4, <2>10, <3>2, <3>3 DEF Split
  <2>11. \A u \in Workers : pc'[u] \in Pending => \E j \in Nat : Split(u, j)'
    <3>1. \A u \in Workers : u # w => pc'[u] = pc[u]
      BY <1>0, <1>1
    <3>2. k + 1 \in Nat
      OBVIOUS
    <3> QED BY <2>8, <2>10, <3>1, <3>2
  <2>12. \A u \in Workers : pc'[u] # "moving"
    BY <1>0, <1>1, <2>1 DEF AuxInv, MutexInv
  <2>13. \A t \in Tasks : status[t] = "done" \/ runs[t] = 0 => t # n[w]
    BY <2>6
  <2>14. \A t \in Tasks : status[t] = "done" => HoldsFirst(queue'[Launcher], t, reports[t])
    BY <1>0, <2>9, <2>13 DEF Arrived, Q
  <2>15. \A t \in Tasks : runs[t] = 0 => HoldsFirst(queue'[Launcher], t, 0)
    BY <2>9, <2>13 DEF Arrived, Q
  <2> QED BY <1>1, <1>2, <2>1, <2>11, <2>12, <2>14, <2>15 DEF Arrived
<1>11. CASE StoreStatus(w)
  <2>1. /\ pc[w] = "store" /\ pc'[w] = "take" /\ status' = [status EXCEPT ![n[w]] = "done"]
        /\ UNCHANGED <<queue, reports, slot, runs, n>>
    BY <1>0, <1>11 DEF StoreStatus, Step, Goto, queueVars
  <2>2. PICK k \in Nat : Split(w, k)
    BY <2>1 DEF Arrived, Pending
  <2>3. queue[w] = <<>> /\ n[w] \in Tasks
    BY <1>0, <2>1 DEF AuxInv, OwnInv, AtWork
  <2>4. k = reports[n[w]]
    BY <1>0, <2>2, <2>3 DEF Split, HoldsRest
  <2>5. HoldsFirst(queue[Launcher], n[w], reports[n[w]])
    BY <2>2, <2>4 DEF Split
  <2>6. \A t \in Tasks : status'[t] = "done" => status[t] = "done" \/ t = n[w]
    BY <1>0, <2>1, <2>3
  <2>7. \A u \in Workers : pc'[u] \in Pending => u # w /\ pc[u] \in Pending
    BY <1>0, <1>1, <2>1 DEF Pending
  <2>8. \A u \in Workers : pc'[u] = "moving" => pc[u] = "moving"
    BY <1>0, <1>1, <2>1
  <2>9. \A u \in Workers : pc'[u] \in Pending => \E j \in Nat : Split(u, j)'
    BY <2>1, <2>7 DEF Arrived, Split
  <2> QED BY <1>1, <1>2, <2>1, <2>5, <2>6, <2>8, <2>9 DEF Arrived
<1> QED BY <1>4, <1>5, <1>6, <1>7, <1>8, <1>9, <1>10, <1>11 DEF WorkerNext

\* The steps of the launcher; when it takes a message of its own, nobody moves any.
LEMMA ArrivedLauncher ==
  ASSUME TypeOK, LaunchInv, AuxInv, cached, ~CreateFailed, ~CreateFailed', Arrived,
         LauncherNext \/ CreateFails
  PROVE  Arrived'
<1>0. /\ Launcher \in Threads /\ Launcher \notin Workers
      /\ pc \in [Threads -> LauncherLabels \cup WorkerLabels]
      /\ n \in [Threads -> Nat] /\ current \in Nat /\ len \in Nat
      /\ status \in [Tasks -> {"none", "done"}] /\ runs \in [Tasks -> Nat]
      /\ queue \in [Threads -> Seq(Messages)] /\ reports \in [Tasks -> Nat]
      /\ Workers \subseteq Threads /\ Tasks \subseteq Nat
      /\ \A k \in Nat : k < len => k \in Tasks
      /\ pc[Launcher] = "run" => n[Launcher] \in Tasks /\ n[Launcher] < len
  <2>1. n \in [Threads -> Nat] /\ pc \in [Threads -> LauncherLabels \cup WorkerLabels]
    BY DEF TypeOK, ThreadTypeOK
  <2>2. current \in Nat /\ status \in [Tasks -> {"none", "done"}] /\ runs \in [Tasks -> Nat]
    BY DEF TypeOK, TaskTypeOK
  <2>3. queue \in [Threads -> Seq(Messages)] /\ reports \in [Tasks -> Nat]
    BY DEF TypeOK, QueueTypeOK
  <2>4. len \in Nat /\ \A k \in Nat : k < len => k \in Tasks
    BY SetFacts DEF TypeOK, ArgTypeOK, Tasks
  <2>5. pc[Launcher] = "run" => n[Launcher] \in Tasks /\ n[Launcher] < len
    BY <2>1, <2>4, SetFacts DEF TypeOK, ThreadTypeOK, AtWork
  <2> QED BY <2>1, <2>2, <2>3, <2>4, <2>5, SetFacts
<1>1. CASE CreateThread
  <2> DEFINE v == created + 1
  <2>1. v \in Workers /\ v \in Threads /\ v # Launcher
    BY <1>1, CreatedWorker DEF CreateThread
  <2>2. pc[Launcher] = "create" /\ pc' = [pc EXCEPT ![v] = "take"]
    BY <1>1 DEF CreateThread, Goto
  <2> HIDE DEF v
  <2>3. UNCHANGED <<n, status, runs, reports, slot, queue>>
    BY <1>1 DEF CreateThread, taskVars, queueVars
  <2>4. pc'[v] = "take" /\ \A u \in Threads : u # v => pc'[u] = pc[u]
    BY <1>0, <2>1, <2>2
  <2> QED BY <1>0, <2>1, <2>2, <2>3, <2>4, ArrivedFrame DEF Pending
<1>2. CASE CreateFails
  <2>1. CreateFailed'
    <3>1. /\ pc[Launcher] = "create" /\ pc'[Launcher] = "addMessage"
          /\ created < ThreadsToCreate /\ UNCHANGED <<len, numThreads, created>>
      BY <1>0, <1>2 DEF CreateFails, Step, Goto, argVars, mainVars
    <3>2. Serial' = Serial /\ ThreadsToCreate' = ThreadsToCreate
      BY <3>1 DEF Serial, ThreadsToCreate
    <3> QED BY <3>1, <3>2 DEF AuxInv, FailInv, CreateFailed
  <2> QED BY <2>1
<1>3. CASE AddMessage
  BY <1>3 DEF AddMessage, Step, AuxInv, FailInv
<1>4. CASE StartJoin \/ JoinFailed \/ JoinReturn
  <2>1. /\ \A u \in Threads : u # Launcher => pc'[u] = pc[u]
        /\ pc'[Launcher] # "run" /\ UNCHANGED <<queue, reports, slot, status, runs, n>>
    BY <1>0, <1>4
       DEF StartJoin, JoinFailed, JoinReturn, Join, Step, Goto, taskVars, queueVars
  <2> QED BY <1>0, <2>1, ArrivedFrame
<1>5. CASE JoinTooFew
  <2>1. /\ \A u \in Threads : u # Launcher => pc'[u] = pc[u]
        /\ pc'[Launcher] = "thrown" /\ UNCHANGED <<reports, status, runs, n>>
        /\ queue'[Launcher] = Append(queue[Launcher], LaunchError)
    BY <1>0, <1>5 DEF JoinTooFew, Join, Step, Goto, taskVars
  <2>2. \A w \in Workers : pc[w] \in {"absent", "exited"}
    <3>1. created \in Nat
      BY DEF TypeOK, ArgTypeOK, MainTypeOK
    <3>2. \A w \in 1..created : pc[w] = "exited"
      BY <1>5 DEF JoinTooFew, Join
    <3>3. \A w \in Workers : w \in 1..created \/ w > created
      BY <3>1, ConstantsAssumption DEF Workers
    <3> QED BY <3>2, <3>3 DEF LaunchInv, PhaseInv
  <2>3. ASSUME NEW t \in Tasks, NEW k \in Nat, HoldsFirst(queue[Launcher], t, k)
        PROVE  HoldsFirst(queue'[Launcher], t, k)
    <3>1. t \in Int /\ LaunchError \in Messages /\ LaunchError.task # t
      BY <1>0 DEF LaunchError, Messages
    <3>2. queue[Launcher] \in Seq(Messages)
      BY <1>0
    <3> QED BY <2>1, <2>3, <3>1, <3>2, HoldsAppend
  <2>4. \A w \in Workers : pc'[w] \notin Pending /\ pc'[w] # "moving"
    BY <1>0, <2>1, <2>2 DEF Pending
  <2>5. \A t \in Tasks : reports[t] \in Nat
    BY <1>0
  <2> QED BY <2>1, <2>3, <2>4, <2>5 DEF Arrived
<1>6. CASE SerialStart
  <2>1. /\ current < len /\ current \in Tasks /\ n'[Launcher] = current
        /\ \A u \in Threads : u # Launcher => pc'[u] = pc[u] /\ n'[u] = n[u]
        /\ runs' = [runs EXCEPT ![current] = @ + 1]
        /\ UNCHANGED <<queue, reports, status, slot>>
    BY <1>0, <1>6 DEF SerialStart, Step, Goto, queueVars
  <2>2. runs[current] = 0 /\ reports[current] = 0
    BY <1>0, <2>1 DEF LaunchInv, RunsInv, AuxInv, FreshInv
  <2>3. HoldsFirst(queue[Launcher], current, 0)
    BY <2>1, <2>2 DEF Arrived
  <2>4. \A t \in Tasks : runs'[t] = 0 => runs[t] = 0
    BY <1>0, <2>1, <2>2
  <2>5. \A w \in Workers : pc'[w] \in Pending => \E k \in Nat : Split(w, k)'
    BY <1>0, <2>1 DEF Arrived, Split
  <2>6. \A w \in Workers : pc'[w] = pc[w]
    BY <1>0, <2>1
  <2> QED BY <2>1, <2>2, <2>3, <2>4, <2>5, <2>6 DEF Arrived
<1>7. CASE SerialReport
  <2>1. /\ pc[Launcher] = "run" /\ UNCHANGED <<pc, n, slot, status, runs>>
        /\ reports[n[Launcher]] < MaxReports
        /\ reports' = [reports EXCEPT ![n[Launcher]] = @ + 1]
    BY <1>7 DEF SerialReport, ReportTo, taskVars
  <2>2. PICK s \in Severities :
          queue' = [queue EXCEPT ![Launcher] =
            Append(@, [task |-> n[Launcher], nr |-> reports[n[Launcher]] + 1, severity |-> s])]
    BY <1>7 DEF SerialReport, ReportTo
  <2> DEFINE m == [task |-> n[Launcher], nr |-> reports[n[Launcher]] + 1, severity |-> s]
  <2>3. n[Launcher] \in Tasks /\ reports[n[Launcher]] + 1 \in 1..MaxReports
    BY <1>0, <2>1, ConstantsAssumption
  <2>4. m \in Messages /\ m.task = n[Launcher] /\ m.nr = reports[n[Launcher]] + 1
    BY <2>3 DEF Messages
  <2> HIDE DEF m
  <2>5. /\ queue'[Launcher] = Append(queue[Launcher], m)
        /\ reports'[n[Launcher]] = reports[n[Launcher]] + 1
        /\ \A t \in Tasks : t # n[Launcher] => reports'[t] = reports[t]
    BY <1>0, <2>1, <2>2, <2>3 DEF m
  <2>6. runs[n[Launcher]] = 1 /\ status[n[Launcher]] = "none"
    BY <1>0, <2>1 DEF AtWork, Holding, LaunchInv, RunsInv, AuxInv, FreshInv
  <2>7. \A w \in Workers : pc[w] = "absent"
    BY <2>1 DEF LaunchInv, PhaseInv, Workers
  <2>8. HoldsFirst(queue'[Launcher], n[Launcher], reports'[n[Launcher]])
    <3>1. n[Launcher] \in Int /\ reports[n[Launcher]] \in Nat /\ queue[Launcher] \in Seq(Messages)
      BY <1>0, <2>3
    <3>2. HoldsFirst(queue[Launcher], n[Launcher], reports[n[Launcher]])
      BY <2>1 DEF Arrived
    <3> QED BY <2>4, <2>5, <3>1, <3>2, HoldsAppend
  <2>9. ASSUME NEW t \in Tasks, t # n[Launcher], NEW k \in Nat, HoldsFirst(queue[Launcher], t, k)
        PROVE  HoldsFirst(queue'[Launcher], t, k)
    <3>1. t \in Int /\ queue[Launcher] \in Seq(Messages)
      BY <1>0
    <3> QED BY <2>4, <2>5, <2>9, <3>1, HoldsAppend
  <2>10. \A t \in Tasks : status[t] = "done" \/ runs[t] = 0 => t # n[Launcher]
    BY <2>6
  <2>11. \A t \in Tasks : reports[t] \in Nat
    BY <1>0
  <2>12. \A w \in Workers : pc'[w] \notin Pending /\ pc'[w] # "moving"
    BY <2>1, <2>7 DEF Pending
  <2> QED BY <2>1, <2>5, <2>8, <2>9, <2>10, <2>11, <2>12 DEF Arrived
<1>8. CASE SerialEnd
  <2>1. /\ pc[Launcher] = "run" /\ pc'[Launcher] = "serial"
        /\ \A u \in Threads : u # Launcher => pc'[u] = pc[u]
        /\ status' = [status EXCEPT ![n[Launcher]] = "done"]
        /\ UNCHANGED <<queue, reports, slot, runs, n>>
    BY <1>0, <1>8 DEF SerialEnd, Step, Goto, queueVars
  <2>2. \A t \in Tasks : status'[t] = "done" => status[t] = "done" \/ t = n[Launcher]
    BY <1>0, <2>1
  <2>3. \A w \in Workers : pc'[w] = pc[w]
    BY <1>0, <2>1
  <2>4. \A w \in Workers : pc'[w] \in Pending => \E k \in Nat : Split(w, k)'
    BY <2>1, <2>3 DEF Arrived, Split
  <2> QED BY <2>1, <2>2, <2>3, <2>4 DEF Arrived
<1>9. CASE SerialFails \/ SerialReturn
  <2>1. /\ \A u \in Threads : u # Launcher => pc'[u] = pc[u]
        /\ pc'[Launcher] # "run" /\ UNCHANGED <<queue, reports, slot, status, runs, n>>
    BY <1>0, <1>9 DEF SerialFails, SerialReturn, Step, Goto, taskVars, queueVars
  <2> QED BY <1>0, <2>1, ArrivedFrame
<1> QED BY <1>1, <1>2, <1>3, <1>4, <1>5, <1>6, <1>7, <1>8, <1>9 DEF LauncherNext

\* Once a thread could not be created, that stays so.
LEMMA FailureStays ==
  ASSUME TypeOK, AuxInv, CreateFailed, [Next]_vars
  PROVE  CreateFailed'
<1>1. CASE UNCHANGED vars
  BY <1>1 DEF vars, argVars, mainVars, CreateFailed, Serial, ThreadsToCreate
<1>2. CASE \E w \in Workers : WorkerNext(w)
  BY <1>2, WorkerFrame
<1>3. CASE LauncherNext \/ CreateFails
  <2>1. fail /\ pc[Launcher] \in {"addMessage", "join", "thrown"} /\ ~Serial
        /\ created < ThreadsToCreate
    BY DEF AuxInv, FailInv, CreateFailed
  <2>2. /\ pc[Launcher] = "addMessage" \/ pc[Launcher] = "join"
        /\ pc'[Launcher] \in {"join", "thrown"} /\ UNCHANGED <<argVars, created>>
    BY <1>3, <2>1, SetFacts
       DEF LauncherNext, CreateThread, CreateFails, AddMessage, StartJoin, JoinFailed, JoinTooFew,
           JoinReturn, Join, SerialStart, SerialReport, SerialEnd, SerialFails, SerialReturn, Step,
           Goto, TypeOK, ThreadTypeOK, mainVars
  <2>3. Serial' = Serial /\ ThreadsToCreate' = ThreadsToCreate /\ created' = created
    BY <2>2 DEF Serial, ThreadsToCreate, argVars
  <2> QED BY <2>1, <2>2, <2>3 DEF CreateFailed
<1> QED BY <1>1, <1>2, <1>3 DEF Next

\* When a task has returned, the launcher's queue holds all the messages it has
\* reported, once each and in their order, for any number of tasks and threads: what
\* is missing is with its thread, and one thread at a time moves messages.
THEOREM ArrivalCorrect == Spec => []MessagesArrive
<1>1. Init => LaunchInv /\ AuxInv /\ ArriveInv
  <2> SUFFICES ASSUME Init PROVE LaunchInv /\ AuxInv /\ ArriveInv
    OBVIOUS
  <2>1. LaunchInv
    BY LaunchInit
  <2>2. /\ \A w \in Workers : pc[w] = "absent" /\ queue[w] = <<>>
        /\ queue[Launcher] = <<>> /\ Launcher \in Threads
        /\ pc[Launcher] \in {"returned", "serial", "create"}
    BY SetFacts DEF Init
  <2>3. \A t \in Threads : pc[t] \notin Holding
    BY DEF Init, Holding, AtWork
  <2>4. FreshInv
    BY <2>3 DEF Init, FreshInv
  <2>5. MutexInv /\ OwnInv
    BY <2>2 DEF MutexInv, OwnInv
  <2>6. FailInv
    BY SetFacts DEF Init, FailInv, CreateFailed
  <2>7. Arrived
    <3>1. \A t \in Tasks : HoldsFirst(<<>>, t, 0)
      BY DEF HoldsFirst
    <3>2. \A t \in Tasks : status[t] # "done"
      BY DEF Init
    <3> QED BY <2>2, <3>1, <3>2 DEF Arrived, Pending
  <2> QED BY <2>1, <2>4, <2>5, <2>6, <2>7 DEF AuxInv, ArriveInv
<1>2. TypeOK /\ LaunchInv /\ AuxInv /\ ArriveInv /\ [Next]_vars
        => LaunchInv' /\ AuxInv' /\ ArriveInv'
  <2> SUFFICES ASSUME TypeOK, LaunchInv, AuxInv, ArriveInv, [Next]_vars
               PROVE  LaunchInv' /\ AuxInv' /\ ArriveInv'
    OBVIOUS
  <2>1. LaunchInv'
    BY LaunchNext
  <2>2. AuxInv'
    <3>1. CASE UNCHANGED vars
      BY <3>1 DEF vars, argVars, taskVars, mainVars, queueVars, AuxInv, FreshInv, MutexInv, FailInv,
                  OwnInv, CreateFailed, Serial, ThreadsToCreate
    <3> QED BY <3>1, AuxWorker, AuxLauncher DEF Next
  <2>3. ArriveInv'
    <3> SUFFICES ASSUME cached', ~CreateFailed' PROVE Arrived'
      BY DEF ArriveInv
    <3>1. ~CreateFailed
      BY FailureStays
    <3>2. cached
      BY DEF Next, LauncherNext, WorkerNext, vars, argVars,
             CreateThread, CreateFails, AddMessage, StartJoin, JoinFailed, JoinTooFew, JoinReturn,
             SerialStart, SerialReport, SerialEnd, SerialFails, SerialReturn, ReportTo,
             TakeTask, StartTask, Exit, Report, EndWork, TaskFails, SetFail, LockParent, MoveBegin,
             MoveEnd, UnlockParent, StoreStatus
    <3>3. Arrived
      BY <3>1, <3>2 DEF ArriveInv
    <3>4. CASE UNCHANGED vars
      BY <3>3, <3>4, ArrivedFrame DEF vars, taskVars, queueVars
    <3> QED BY <3>1, <3>2, <3>3, <3>4, ArrivedWorker, ArrivedLauncher DEF Next
  <2> QED BY <2>1, <2>2, <2>3
<1>3. ArriveInv => MessagesArrive
  BY DEF ArriveInv, Arrived, MessagesArrive
<1> QED BY <1>1, <1>2, <1>3, TypeCorrect, PTL DEF Spec

=============================================================================
