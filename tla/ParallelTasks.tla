--------------------------- MODULE ParallelTasks ---------------------------
(***************************************************************************)
(* System.launchParallelTasks (Compiler/runtime/System_omc.c): the thread  *)
(* that calls it, here the launcher, starts worker threads that take tasks *)
(* from a common counter until none is left or one has failed, joins them  *)
(* and returns what the tasks have returned.  A task that has reported     *)
(* messages moves them to the launcher's error queue before it returns     *)
(* (Error_moveMessagesToParentThread in Compiler/runtime/errorext.cpp, as  *)
(* called by Parser.loadFileThread and SimCodeMain's runCodegenFunc).      *)
(*                                                                         *)
(* A push_back on the launcher's queue takes two steps here, so that two   *)
(* of them at a time lose a message, which is one of the outcomes of that  *)
(* data race.  A critical section of data.mutex is one step.               *)
(***************************************************************************)
EXTENDS Integers, Sequences, FiniteSets

CONSTANTS
  MaxTasks,      \* bound: tasks that are launched
  MaxThreads,    \* bound: threads that are asked for
  MaxReports,    \* bound: messages a task reports
  Severities     \* the severities of these messages

ASSUME ConstantsAssumption ==
  /\ MaxTasks \in Nat /\ MaxThreads \in Nat /\ MaxReports \in Nat
  /\ Severities \subseteq {"error", "warning"}

\* The launcher is 0, the workers are numbered from 1 as they are created.
Launcher == 0
Workers  == 1..MaxThreads
Threads  == {Launcher} \cup Workers
Tasks    == 0..(MaxTasks - 1)

\* A message of a task, and the one the launcher adds itself.
Messages == [task : Tasks, nr : 1..MaxReports, severity : Severities]
              \cup [task : {-1}, nr : {0}, severity : {"error"}]
LaunchError == [task |-> -1, nr |-> 0, severity |-> "error"]

VARIABLES
  len, numThreads,   \* the arguments: how many tasks, and how many threads to use
  cached,            \* whether localRoots of the launcher hold its error queue
  pc,                \* where each thread stands
  n,                 \* the task each thread works on
  current, fail,     \* thread_data: the next task, and whether something failed
  status,            \* thread_data: what each task has returned, or nothing
  created,           \* how many threads were created
  result,            \* how many results the launch has returned
  queue,             \* errorMessageQueue of each thread
  numErrorMessages,  \* of each thread
  slot,              \* where the push_back in progress stores its message
  parentMutex        \* who has locked parentMutex of the launcher

\* History, for the properties; no guard but the bound MaxReports reads it.
VARIABLES
  runs,              \* how often each task was started
  reports            \* how many messages each task has reported

taskVars  == <<current, fail, status, runs>>
queueVars == <<queue, numErrorMessages, slot, parentMutex, reports>>
mainVars  == <<created, result>>
argVars   == <<len, numThreads, cached>>

vars == <<argVars, pc, n, taskVars, mainVars, queueVars>>

\* One task or one thread: the launcher runs the tasks itself.
Serial == numThreads = 1 \/ len = 1

\* The launcher is a thread of omc that has used its error queue before, or a task
\* of an outer launch: MMC_TRY_TOP has then given it a new threadData, and getMembers
\* has found the queue of its thread without storing it there.
Init ==
  /\ len \in 0..MaxTasks /\ numThreads \in 0..MaxThreads
  /\ cached \in BOOLEAN /\ (Serial => cached)
  /\ pc = [t \in Threads |-> IF t # Launcher THEN "absent"
                             ELSE IF len = 0 THEN "returned"
                             ELSE IF Serial THEN "serial" ELSE "create"]
  /\ n = [t \in Threads |-> 0]
  /\ current = 0 /\ fail = FALSE
  /\ status = [t \in Tasks |-> "none"] /\ created = 0 /\ result = 0
  /\ queue = [t \in Threads |-> <<>>] /\ numErrorMessages = [t \in Threads |-> 0]
  /\ slot = [t \in Threads |-> 0] /\ parentMutex = "free"
  /\ runs = [t \in Tasks |-> 0] /\ reports = [t \in Tasks |-> 0]

Goto(t, label) == pc' = [pc EXCEPT ![t] = label]

\* Thread t steps from one label to another.
Step(t, from, to) == pc[t] = from /\ Goto(t, to)

-----------------------------------------------------------------------------
(* The launcher.                                                           *)

ThreadsToCreate == IF numThreads > len THEN len ELSE numThreads

CreateThread ==
  /\ pc[Launcher] = "create" /\ created < ThreadsToCreate
  /\ created' = created + 1
  /\ Goto(created + 1, "take")
  /\ UNCHANGED <<argVars, n, taskVars, result, queueVars>>

\* GC_pthread_create fails: the launcher adds a message, without parentMutex.
CreateFails ==
  /\ created < ThreadsToCreate /\ Step(Launcher, "create", "addMessage")
  /\ fail' = TRUE
  /\ slot' = [slot EXCEPT ![Launcher] = Len(queue[Launcher])]
  /\ UNCHANGED <<argVars, n, current, status, runs, mainVars, queue, numErrorMessages,
                 parentMutex, reports>>

\* The second half of a push_back of m to q, which is to be stored behind the first
\* `at` messages: another push_back since may have used that place.
Store(q, at, m) == IF at < Len(q) THEN [q EXCEPT ![at + 1] = m] ELSE Append(q, m)

AddMessage ==
  /\ Step(Launcher, "addMessage", "join")
  /\ queue' = [queue EXCEPT ![Launcher] = Store(@, slot[Launcher], LaunchError)]
  /\ numErrorMessages' = [numErrorMessages EXCEPT ![Launcher] = @ + 1]
  /\ UNCHANGED <<argVars, n, taskVars, mainVars, slot, parentMutex, reports>>

StartJoin ==
  /\ created = ThreadsToCreate /\ Step(Launcher, "create", "join")
  /\ UNCHANGED <<argVars, n, taskVars, mainVars, queueVars>>

\* All threads that were created have ended.
Join(to) == Step(Launcher, "join", to) /\ \A w \in 1..created : pc[w] = "exited"

JoinFailed ==
  /\ fail /\ Join("thrown")
  /\ UNCHANGED <<argVars, n, taskVars, mainVars, queueVars>>

\* No thread was asked for, or some of the tasks were not taken: one more message.
JoinTooFew ==
  /\ ~fail /\ current < len /\ Join("thrown")
  /\ queue' = [queue EXCEPT ![Launcher] = Append(@, LaunchError)]
  /\ numErrorMessages' = [numErrorMessages EXCEPT ![Launcher] = @ + 1]
  /\ UNCHANGED <<argVars, n, taskVars, mainVars, slot, parentMutex, reports>>

\* The results of all tasks are returned.
JoinReturn ==
  /\ ~fail /\ current >= len /\ Join("returned")
  /\ result' = len
  /\ UNCHANGED <<argVars, n, taskVars, created, queueVars>>

-----------------------------------------------------------------------------
(* A worker thread.                                                        *)

\* Mutant: without the mutex two threads may read the same counter.
TakeTaskUnlocked(w) ==
  /\ Step(w, "take", "check")
  /\ n' = [n EXCEPT ![w] = current]
  /\ current' \in {current, current + 1}
  /\ UNCHANGED <<argVars, fail, status, runs, mainVars, queueVars>>

TakeTask(w) ==
  /\ Step(w, "take", "check")
  /\ n' = [n EXCEPT ![w] = current]
  /\ current' = current + 1
  /\ UNCHANGED <<argVars, fail, status, runs, mainVars, queueVars>>

\* Mutant: the last number a thread can draw is taken for a task.
StartTaskBeyond(w) ==
  /\ ~fail /\ n[w] <= len
  /\ Step(w, "check", "run")
  /\ runs' = [runs EXCEPT ![n[w]] = @ + 1]
  /\ UNCHANGED <<argVars, n, current, fail, status, mainVars, queueVars>>

\* The task starts; fail is read without the mutex.
StartTask(w) ==
  /\ ~fail /\ n[w] < len
  /\ Step(w, "check", "run")
  /\ runs' = [runs EXCEPT ![n[w]] = @ + 1]
  /\ UNCHANGED <<argVars, n, current, fail, status, mainVars, queueVars>>

\* The thread ends, and its error queue is freed.
Exit(w) ==
  /\ fail \/ n[w] >= len
  /\ Step(w, "check", "exited")
  /\ queue' = [queue EXCEPT ![w] = <<>>]
  /\ UNCHANGED <<argVars, n, taskVars, mainVars, numErrorMessages, slot, parentMutex, reports>>

\* The task reports a message to the queue of the thread it runs in.
ReportTo(t) ==
  /\ reports[n[t]] < MaxReports
  /\ reports' = [reports EXCEPT ![n[t]] = @ + 1]
  /\ \E s \in Severities :
       /\ queue' = [queue EXCEPT ![t] =
                      Append(@, [task |-> n[t], nr |-> reports[n[t]] + 1, severity |-> s])]
       /\ numErrorMessages' = [numErrorMessages EXCEPT ![t] =
                                 IF s = "error" THEN @ + 1 ELSE @]
  /\ UNCHANGED <<argVars, pc, n, taskVars, mainVars, slot, parentMutex>>

Report(w) == pc[w] = "run" /\ ReportTo(w)

\* The work of the task is done; it moves its messages if there are any.
EndWork(w) ==
  /\ Step(w, "run", IF queue[w] = <<>> THEN "store" ELSE "lock")
  /\ UNCHANGED <<argVars, n, taskVars, mainVars, queueVars>>

\* Mutant: Error_moveMessagesToParentThread does not lock parentMutex.
LockParentNot(w) ==
  /\ Step(w, "lock", "move")
  /\ UNCHANGED <<argVars, n, taskVars, mainVars, queueVars>>

LockParent(w) ==
  /\ parentMutex = "free"
  /\ Step(w, "lock", "move")
  /\ parentMutex' = "locked"
  /\ UNCHANGED <<argVars, n, taskVars, mainVars, queue, numErrorMessages, slot, reports>>

\* The queue getMembers finds for the launcher's threadData.
Parent(w) == IF cached THEN Launcher ELSE w

\* push_back to the parent's queue and pop_front of the thread's own one; no counter
\* changes.
MoveBegin(w) ==
  /\ queue[w] # <<>>
  /\ Step(w, "move", "moving")
  /\ slot' = [slot EXCEPT ![w] = Len(queue[Parent(w)])]
  /\ UNCHANGED <<argVars, n, taskVars, mainVars, queue, numErrorMessages, parentMutex, reports>>

MoveEnd(w) ==
  /\ Step(w, "moving", "move")
  /\ LET pushed == [queue EXCEPT ![Parent(w)] = Store(@, slot[w], Head(queue[w]))]
     IN  queue' = [pushed EXCEPT ![w] = Tail(@)]
  /\ UNCHANGED <<argVars, n, taskVars, mainVars, numErrorMessages, slot, parentMutex, reports>>

\* Mutant: parentMutex stays locked.
UnlockParentNot(w) ==
  /\ queue[w] = <<>>
  /\ Step(w, "move", "store")
  /\ UNCHANGED <<argVars, n, taskVars, mainVars, queueVars>>

UnlockParent(w) ==
  /\ queue[w] = <<>>
  /\ Step(w, "move", "store")
  /\ parentMutex' = "free"
  /\ UNCHANGED <<argVars, n, taskVars, mainVars, queue, numErrorMessages, slot, reports>>

\* The function has returned.
StoreStatus(w) ==
  /\ Step(w, "store", "take")
  /\ status' = [status EXCEPT ![n[w]] = "done"]
  /\ UNCHANGED <<argVars, n, current, fail, runs, mainVars, queueVars>>

\* The function fails: a longjmp to MMC_CATCH_TOP, then fail is set.
TaskFails(w) ==
  /\ Step(w, "run", "failed")
  /\ UNCHANGED <<argVars, n, taskVars, mainVars, queueVars>>

SetFail(w) ==
  /\ Step(w, "failed", "take")
  /\ fail' = TRUE
  /\ UNCHANGED <<argVars, n, current, status, runs, mainVars, queueVars>>

-----------------------------------------------------------------------------
(* System_launchParallelTasksSerial: the launcher runs the tasks.          *)

SerialStart ==
  /\ current < len
  /\ Step(Launcher, "serial", "run")
  /\ n' = [n EXCEPT ![Launcher] = current]
  /\ current' = current + 1
  /\ runs' = [runs EXCEPT ![current] = @ + 1]
  /\ UNCHANGED <<argVars, fail, status, mainVars, queueVars>>

SerialReport == pc[Launcher] = "run" /\ ReportTo(Launcher)

\* The function returns: the launcher is no worker, its messages stay where they are.
SerialEnd ==
  /\ Step(Launcher, "run", "serial")
  /\ status' = [status EXCEPT ![n[Launcher]] = "done"]
  /\ UNCHANGED <<argVars, n, current, fail, runs, mainVars, queueVars>>

SerialFails ==
  /\ Step(Launcher, "run", "thrown")
  /\ UNCHANGED <<argVars, n, taskVars, mainVars, queueVars>>

\* listReverse(dataLst): what is left of the list of tasks, and not the results.
SerialReturn ==
  /\ current = len
  /\ Step(Launcher, "serial", "returned")
  /\ result' = len - current
  /\ UNCHANGED <<argVars, n, taskVars, created, queueVars>>

-----------------------------------------------------------------------------
LauncherNext ==
  \/ CreateThread \/ AddMessage \/ StartJoin
  \/ JoinFailed \/ JoinTooFew \/ JoinReturn
  \/ SerialStart \/ SerialReport \/ SerialEnd \/ SerialFails \/ SerialReturn

WorkerNext(w) ==
  \/ TakeTask(w) \/ StartTask(w) \/ Exit(w)
  \/ Report(w) \/ EndWork(w) \/ TaskFails(w) \/ SetFail(w)
  \/ LockParent(w) \/ MoveBegin(w) \/ MoveEnd(w) \/ UnlockParent(w) \/ StoreStatus(w)

Next == LauncherNext \/ CreateFails \/ \E w \in Workers : WorkerNext(w)

Spec == Init /\ [][Next]_vars

\* The operating system runs every thread that can go on, and every task ends: it
\* reports at most MaxReports messages.
FairSpec ==
  Spec /\ WF_vars(LauncherNext) /\ \A w \in Workers : WF_vars(WorkerNext(w))

-----------------------------------------------------------------------------
LauncherLabels == {"returned", "serial", "create", "addMessage", "join", "run", "thrown"}
WorkerLabels   == {"absent", "take", "check", "run", "lock", "move", "moving", "store",
                   "failed", "exited"}

\* A worker at one of these labels has a task to work on.
AtWork == {"run", "lock", "move", "moving", "store", "failed"}

ArgTypeOK == len \in 0..MaxTasks /\ numThreads \in 0..MaxThreads /\ cached \in BOOLEAN

\* A thread at work has one of the tasks.
ThreadTypeOK ==
  /\ pc \in [Threads -> LauncherLabels \cup WorkerLabels]
  /\ pc[Launcher] \in LauncherLabels /\ \A w \in Workers : pc[w] \in WorkerLabels
  /\ n \in [Threads -> Nat]
  /\ \A t \in Threads : pc[t] \in AtWork => n[t] < len

TaskTypeOK ==
  /\ current \in Nat /\ fail \in BOOLEAN
  /\ status \in [Tasks -> {"none", "done"}] /\ runs \in [Tasks -> Nat]

MainTypeOK == created \in 0..numThreads /\ result \in Nat

QueueTypeOK ==
  /\ queue \in [Threads -> Seq(Messages)]
  /\ numErrorMessages \in [Threads -> Nat] /\ slot \in [Threads -> Nat]
  /\ parentMutex \in {"free", "locked"} /\ reports \in [Tasks -> Nat]

\* A thread that moves a message has one.
MovingOK == \A w \in Workers : pc[w] = "moving" => queue[w] # <<>>

\* The types, which imply that status and commands are indexed within their bounds,
\* and that no thread takes a message from an empty queue.
TypeOK ==
  ArgTypeOK /\ ThreadTypeOK /\ TaskTypeOK /\ MainTypeOK /\ QueueTypeOK /\ MovingOK

\* When the launch returns, every task was run exactly once and has returned,
\* whatever threads could be created and in whatever order they took the tasks.
ReturnsComplete ==
  pc[Launcher] = "returned" =>
    \A t \in Tasks : t < len => status[t] = "done" /\ runs[t] = 1

\* A queue holds the first k messages of a task, each once and in their order.
HoldsFirst(q, t, k) ==
  LET own == {i \in DOMAIN q : q[i].task = t}
  IN  /\ {q[i].nr : i \in own} = 1..k
      /\ \A i, j \in own : i < j => q[i].nr < q[j].nr

\* A thread could not be created.
CreateFailed ==
  /\ ~Serial /\ created < ThreadsToCreate
  /\ pc[Launcher] \in {"addMessage", "join", "thrown"}

\* As soon as a task has returned the launcher's queue holds all that it has
\* reported, once and in order, however many threads move messages at a time; only
\* the message about a thread that could not be created may get in the way.
MessagesArrive ==
  cached /\ ~CreateFailed =>
    \A t \in Tasks : status[t] = "done" => HoldsFirst(queue[Launcher], t, reports[t])

\* A launch from a thread whose error queue is known by its threadData ends.
LaunchEnds == cached => <>(pc[Launcher] \in {"returned", "thrown"})
=============================================================================
