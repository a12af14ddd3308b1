# TLA+ models of the OpenModelica compiler and its simulation runtime

This directory specifies parts of OMCompiler in TLA+: the parts in which threads,
callbacks or long sequences of calls meet, where a test only sees a few of the orders
things can happen in. Every definition is translated from the source; `PROJECT.json`
names for each one the file and the lines it stands for.

- `OpcUaServer.tla` - the OPC UA server inside a simulation executable
- `ErrorExt.tla` - the error queue of the compiler, with its checkpoints
- `ParallelTasks.tla` - tasks on worker threads, and how their messages come back
- `SimulationLoop.tla` - the main loop of a simulation, with its events, ticks and retries;
  `EventSchedule.tla` - what it promises
- `SyncTimers.tla` - the timers of synchronous clocks, on the rational arithmetic of
  `Rational.tla`; `ClockSchedule.tla` - what they promise
- `DelayBuffer.tla` - the operator `delay`, on the ring buffer of `RingBuffer.tla`
- `FmuInstance.tla` - an instance of an exported FMU and the tool that calls it
- `CorbaServer.tla` - the interactive compiler and its CORBA clients; `CommandService.tla` -
  what it promises
- `MC*.tla`, `*.cfg` - instances of these for TLC
- `*Proofs.tla` - theorems about them, proved with TLAPS

## 1. The system

OMCompiler has two halves. The *compiler* (`Compiler/`, MetaModelica compiled to C, with
a runtime in C and C++ under `Compiler/runtime`) translates a Modelica model to C. The
generated C is linked with the *simulation runtime* (`SimulationRuntime/`) to an
executable, or to an FMU.

| component | state | operations | talks to |
|---|---|---|---|
| OPC UA server (`SimulationRuntime/opc/ua/omc_opc_ua.c`) | `run`, `step`, two value buffers and `latestValues`, five mutexes, a condition variable, buffered writes with their flags | init, wait_for_step, update, deinit (simulation thread); the read and write callbacks of the nodes (server thread) | clients over the network; the main loop by shared memory |
| error queue (`Compiler/runtime/errorext.cpp`) | per thread: a deque of messages, a stack of checkpoints, two counters; lists of message pointers in the hands of callers | add, set/delete checkpoints, four ways to roll back, four ways to empty the queue, push back, free, move to the parent thread | everything in the compiler; scripting API |
| parallel tasks (`System_launchParallelTasks`, `Compiler/runtime/System_omc.c`) | task counter, `fail`, `status`, threads | launch, worker loop, serial path, threadFail | error queues of the threads; parser, code generator, `runScriptParallel` |
| main simulation loop (`perform_simulation.c.inc`, `solver_main.c`) | time, step size, step number, retry flag, ring buffer of the last steps | step size, `simulationStep`, `simulationUpdate`, emit, retry | solvers, events, synchronous, delay, OPC UA, real-time clock |
| events (`events.c`) | next time event, zero crossings and their old values, event list | checkForSampleEvent, checkForStateEvent, checkEvents, handleEvents, findRoot, bisection | main loop |
| synchronous clocks (`synchronous.c`) | sorted list of timers, base and sub clocks | insertTimer, fireClock, handleTimers | main loop |
| delay buffers (`delay.c`, `util/ringbuffer.c`) | a ring buffer of (time, value) per delay expression | store, find, interpolate | main loop, generated code |
| FMI 2.0 export (`fmu2_model_interface.c.inc`) | state of the instance, need-update flag, saved FMU states | some fifty functions with their legal states | an importing tool |
| memory pool (`gc/memory_pool.c`) | list of pools with fill levels | malloc, expand, free | generated code |
| CORBA loop (`corbaimpl.cpp`, `omc_communication_impl.cpp`, `Main.mo`) | command, reply, two flags with condition variables, a client lock | sendExpression (ORB threads); wait for command, send reply, close (compiler) | clients by remote calls |
| numerical solvers, result files, MetaModelica runtime, C++ runtime, ParModelica, OMSI, OPC DA, front end, back end, templates, parsers | see "Not modelled" | | |

What makes them hard, and what makes them correct:

- **OPC UA server.** Two threads, no test but a client that steps once. Hard: the lookup
  of the buffer before it is locked, the mutex that is unlocked in place of another, flags
  read or cleared without a mutex, the end of the simulation while the server is busy.
  Correct: reads are of published values, no older than what the client could have seen;
  a step is one step; no write is lost; the simulation ends.
- **Error queue.** Sequential, but used by the whole compiler in nested attempts. Hard:
  duplicates are removed in rows, checkpoints are indices into a queue that may have been
  emptied, counters are kept apart from the queue, message pointers leave and come back.
  Correct: a roll back undoes exactly the attempt; the counters count; nothing vanishes.
- **Parallel tasks.** Worker threads with one counter and one parent queue. Hard: failing
  tasks (a `longjmp`), failing thread creation, several workers that move messages at a
  time. Correct: each task once, a result for each, all messages at the launcher, an end.
- **Main loop, events, clocks, delays.** Sequential, with floating-point time. Hard: two
  events at one time, a state event before a time event of the same step, `continue` and
  `break` inside a try, a retry that restores half of the state, going back in time over a
  sorted buffer. Correct: each event is handled once, in order; buffers stay sorted.
- **FMI.** Hard: sequences of calls of an importing tool, errors in the middle, values that
  are computed only on demand. Correct: what a call returns belongs to the present time,
  samples are active once and on time, `fmi2DoStep` ends where it should.
- **CORBA loop.** Threads of the ORB hand a pointer to the compiler's thread and wait. Hard:
  lost wakeups, replies that go to another client, a string of a client's call that is read
  without a lock until it is copied, the shutdown while clients wait. Correct: one command at
  a time, each client its own reply.

`PROJECT.json` lists each of these hazards at its line, with the properties that would
catch it going wrong.

## 2. The plan

In order; a module comes with its MC module, its runs, and proofs where "proof" is named.

1. `OpcUaServer` (done): the only part with two threads on shared memory in a simulation.
   Proof: types, reads, steps, writes (done).
2. `ErrorExt` (done): the state the whole compiler shares. Proof: types, counters, roll
   back, push back, `DrainsReport` (done).
3. `ParallelTasks` (done): composes the error queues of several threads with the launch.
   Proof: types, `ReturnsComplete`, `MessagesArrive` (done).
4. `SimulationLoop` (done) with `EventSchedule` as its abstract specification.
5. `SyncTimers` (done) with `ClockSchedule` as its abstract specification; `DelayBuffer`
   (done), compared with a search in the whole history.
6. `FmuInstance` (done): the FMU and an importing tool.
7. `CorbaServer` (done) with `CommandService` as its abstract specification.
8. Proofs of 4 to 7: every safety property the runs check (done), among them the
   refinements `ImplementsService` and `ImplementsSchedule`; `ImplementsClocks` (open: it
   needs, for each interval of a clock, how many integers `k` bring `shift + k * factor`
   into it, which `handleBaseClock` computes with `floorRat` and `ceilRat`).
9. An abstract error queue (a stack of queues) which `ErrorExt` refines as long as no
   operation empties the queue below a checkpoint (open); `RollBackRestores` follows from it.

The memory pool was on the plan and was dropped: see "Not modelled".

## 3. OpcUaServer

**State.** The variables are the fields of `omc_opc_ua_state`, the simulation data it
touches (`time`, `inputVars`, `stateVars`, `real_time_sync`, `useStopTime`), the program
counter and the locals of the simulation thread (`simPc`, `simRun`, `old`, `inUpdate`) and
of the server thread (`srvPc`, `req`, `srvBuf`), and the request that waits in the network
layer. `buffer[b]` records which *time* the values in a buffer are from, apart for time,
Real and Boolean variables, because these are written in three steps: the only thing a
property asks of a value is how old it is. Eight history variables (`published`, `floor`,
`answer`, `foreignUnlock`, `stepWrites`, `stepPasses`, `lastInput`, `lastState`) serve
the properties; no guard reads them.

**Actions.** A critical section of `mutex_pause` or `write_values` is one action. The
accesses outside of a critical section are actions of their own: `ClearStep` (line 87),
the three reads of the scaling factor (94, 96, 97), the lookup of the latest buffer before
it is locked. `mutex_values[0..1]` are modelled as locks with an owner, since
`omc_embedded_server_update` locks one and unlocks the other. Unlocking a mutex that is
free or held by the other thread is undefined in POSIX; the model takes glibc's default
mutex, which is simply released. `pthread_cond_wait` may wake up without a signal.
`SimulateStep` is one pass of `performSimulation`; `BreakLoop` is every way it leaves the
loop early. Requests (`AllRequests`) name a node and, for a write, the value; a node of a
Real variable, an alias and the scaling factor are read in the same way as `time`.

**Runs.** `OpcUaServer` (220 000 states): one input, one state, two values, two scaling
factors, three steps, three requests of every kind, at any moment. Three requests are
enough for two writes to collide around an update and a read in between; three steps let
both buffers be reused while a read is in service. It checks

- `ReadsAreFresh`: a value that is read is no older than the last publication that was
  complete when the callback looked up its buffer - unless an update has released a mutex
  the server had locked. The exception is real: with `foreignUnlock` an update writes the
  buffer under the reader's hands.
- `OneStepPerRequest`: the simulation passes `waitForStep` with `run` off at most as often
  as `step` was written.
- `NoWriteLost`: what the server took over is in the simulation's data, or the flags make
  the next update put it there.
- `RunsToStopTime` (liveness): if `run` and `enableStopTime` stay on, the simulation ends and
  the server is deleted, or the program hangs in the one way `HangsAtJoin` names: the last
  update has left the mutex of the latest buffer locked (line 664 unlocks the other one), a
  client reads that buffer, and `pthread_join` (line 618) waits for the server thread, which
  waits for the mutex. The hang is in the code, and both ends are reached in the run.

`OpcUaPausedRead` shows a promise of the node descriptions that the code does not keep: the
server blocks for good when a variable is read while the simulation is paused. Two weaker
disagreements are in the model without a run of their own: a step request is taken back if
it arrives before the flag is cleared for the step before it, and the factor and the flag of
the real-time synchronisation belong to two values for a step when a client changes the
factor between their reads.

**Fairness.** Weak fairness of each thread: the operating system schedules both, and
glibc's mutexes are enough with it because no thread needs a mutex the other one takes
again and again for ever. Clients, spurious wakeups and failures of the model are free not
to happen. `CHECK_DEADLOCK FALSE`: the behaviour ends when the server was joined, and it
ends without that in the deadlock `OpcUaPausedRead` shows.

**Proofs** (`OpcUaServerProofs`), for every set of inputs, states, values and requests and
every number of steps and variables:

- `TypeCorrect`: one lemma for the steps of each thread.
- `StepSafe`: `OneStepPerRequest` is not inductive; `StepInv` adds one to `stepPasses`
  while `step` is on and the simulation thread is between `ClearStep` and the test of the
  loop condition, because then one more pass is already certain. Elsewhere a `step` that is
  still on does not count: it is cleared before it is looked at again.
- `WritesKept`: `WriteInv` is `NoWriteLost` with `inputVarsBackup` equal to the last
  accepted inputs at all times, so that copying them again brings nothing old back.
- `Fresh`: by `FreshInv`, as long as no mutex was released under the server. It says which
  value mutexes the simulation thread holds: none before the first update and that of the
  latest buffer ever after, because an update unlocks the one the update before it has
  locked. So a reader of the latest buffer waits until the next update has refilled and
  unlocked it, and every buffer that is not locked by the simulation thread is at least as
  recent as `published`; before the first publication only buffer 0 may be read. It needs
  `nVariablesBoolean <= nVariablesReal`, because the loop at line 660 copies only as many
  Boolean variables as there are Real ones; the assumption marks a defect of the code.

## 4. ErrorExt

**State.** `queue`, `checkPoints` (pairs of an index and an identifier), the two counters,
and `handles`, the lists `popCheckPoint` has handed out. A message is a record with a
severity; two messages are equal when their full text is, which is what `pop_message`
compares. The operations that remove messages loop over the queue, and a step of the model
is one turn of that loop (`pc`, `op`, `last`, `result`): this is how `pop_message`'s row of
equal messages, its limit and the five places that change the counters appear as they are
in the code. `saved`, `before` and `errorPrints` are history.

**Actions.** `AddMessage`, `SetCheckpoint`, `DelCheckpoint`, `DeleteNumCheckpoints`,
`BeginRollBack` (rollBack, rollBackAndPrint, popCheckPoint, rollbackNumCheckpoints),
`BeginDrain` (clearMessages, getMessages, printMessagesStr, printErrorsNoWarning),
`Remove` with `Limit` and `Gather`, the ends of the loops, `BeginPush`/`Push`/`FinishPush`,
`FreeMessages`. A wrong identifier ends the process (`Abort`, `WrongCheckpoint`): all state
is gone, which is one state here.

**Runs.** `ErrorExt`: an error and a warning, three messages, two checkpoints with two
identifiers (symmetric: they are only compared), a list handed out, one call of
`printErrorsNoWarning`. Three messages make a row of duplicates that crosses a checkpoint;
two checkpoints nest. It checks `CountsAgree`, `DrainsReport`, `RollBackRestores` and
`PushRestores`. `RollBackRestores` exempts checkpoints that lie in a queue another operation
has emptied since: there `rollBack` does not do what `ErrorExt.mo:138` documents, and keeps
messages that were added after the checkpoint. `CHECK_DEADLOCK FALSE`: an aborted process
takes no step.

**Proofs** (`ErrorExtProofs`), for every set of messages and identifiers and every bound:

- `TypeCorrect`: with the facts that a roll back in progress has a checkpoint, and
  `rollbackNumCheckpoints` has as many as it will still remove.
- `CountsCorrect`: `CountInv` is `CountsAgree` with the fact that a `printErrorsNoWarning` in
  progress has been counted, which is what exempts the warnings it removes; the lemmas say
  how the number of messages of a severity changes when one is added or removed at the end.
- `RollBackCorrect`: by `StackInv`: the queue saved with an intact checkpoint is as long as
  the checkpoint's index says and the queue still begins with it, in the middle of every
  operation; the checkpoints above an intact one are intact and no lower; and an operation
  that empties the queue has spoilt all of them as soon as it finds a message to remove.
  `IdleInv` adds that no operation is named when none is in progress.
- `PushCorrect`: by `HandleInv`: a queue that was cut by `popCheckPoint` is the queue that
  was left followed by the list handed out, also while the list is being gathered, and
  while it is pushed back the queue and the rest of the list are what was there when the
  push began, followed by the list.
- `DrainsCorrect`: by `DrainInv`: the queue that is left and the messages that are gone
  make up the queue the operation began with, what was gathered is the gone part with its
  rows of equal messages merged, and `last` is the first of that part. Merging is stated
  without recursion: `IsMerged` numbers the starts of the rows, and a message put before
  the part starts a row of its own or joins the first one.

## 5. ParallelTasks

**State.** `thread_data` (`current`, `fail`, `status`), a program counter and a task number
per thread, the error queue and the error counter of each thread, `parentMutex` of the
launcher, and the arguments. `runs` and `reports` are history. A `push_back` on a deque
takes two steps, `slot` keeps where it will store: two of them at a time lose a message,
which is one outcome of that data race. `cached` is whether the launcher's `localRoots`
hold its error queue, which is what `getMembers(threadData->parent)` looks at first.

**Actions.** The launcher creates threads (each creation may fail), joins them, and
returns or throws; a worker takes a number under the mutex, tests `fail` without it, runs
the task (which may report messages and may fail with a `longjmp`), moves its messages if
it has any and stores its status. The serial path has its own five actions. What a task
does is what `Parser.loadFileThread` and `SimCodeMain.runCodegenFunc` do: work, then
`moveMessagesToParentThread` if there are messages.

**Runs.** `ParallelTasks` (90 000 states): up to three tasks, two threads, two messages per
task; one thread runs at least two of the tasks and both move messages at a time. It checks
`ReturnsComplete` (a launch that returns has run every task exactly once), `MessagesArrive`
(the launcher's queue holds what each task reported, in order) and `LaunchEnds` (liveness).
Two known disagreements with the documents have no run: the serial path, taken for one task
or one thread, returns an empty list instead of the results (`System.mo:1116`), and errors
that are moved to the parent are not counted there (`Error.mo:1457`). `CHECK_DEADLOCK
FALSE`: a launch that has ended takes no step.

**Fairness.** Weak fairness of the launcher and of each worker, as the operating system
gives it. It includes that a task ends: a task reports at most `MaxReports` messages.
Whether thread creation or a task fails is left open. `LaunchEnds` assumes `cached`: without
it a worker moves messages from its queue to the end of the same queue for ever.

**Proofs** (`ParallelTasksProofs`), for every number of tasks, threads and reports:

- `TypeCorrect`: with the facts that a thread at work holds a number below `len` and that a
  thread that moves a message has one.
- `ReturnsCorrect`: by `LaunchInv`. `ReturnsComplete` says nothing before the launch
  returns, so the invariant follows each task from the counter to its end: no two threads
  hold the same number and the counter is beyond all of them (`DrawnInv`); a task that is
  not drawn has not run, one that is held has run once if its thread is past the test
  (`RunsInv`); unless something failed, a task that was drawn has returned or is held
  (`TakenInv`); and a launcher that has returned leaves no thread that holds anything
  (`PhaseInv`).
- `ArrivalCorrect`: by `AuxInv` and `Arrived`: what the launcher's queue does not yet have
  of a task is, in order, in the queue of the thread that runs it. Only one worker at a time
  stores into the launcher's queue (`MutexInv`); the launcher stores there without the mutex
  only after a failed creation (`FailInv`), which `MessagesArrive` exempts; a worker starts a
  task with an empty queue unless one has failed (`OwnInv`); and a task that was not started
  has reported nothing (`FreshInv`). The property says that the messages of a task
  stand in the queue with ascending numbers and none missing (`HoldsFirst`): where they
  stand among those of other tasks is up to the threads.

## 6. SimulationLoop

**State.** `currentTime`, `currentStepSize`, `currStepNo` and the flags of
`performSimulation`; the three slots of the ring buffer `localData` and the values stored
for a retry (`old`); the next sample times, `sampleActivated`, the timers, the event list
and the chattering ring. Time counts units below `SAMPLE_EPS`, so that two times are equal
within the tolerance (`Eps = 1`) or clearly apart. The variables of a Modelica model are
abstracted to one thing: the *activations* (samples and ticks) whose effect they contain.
A slot is therefore a time and a set, and an activation that is lost when slots are
rotated, restored or overwritten shows in the set.

**Actions.** One pass of the loop is cut where the code branches or can throw: `LoopHead`
(rotation, step number, step size, `checkForSampleEvent`), `SkipStep`, `EulerStep` /
`DasslStep`, `UpdateContinuousSystem` (with `checkForSynchronous`), `CheckEvents` (state
event, `findRoot` for solvers without root finding), `HandleEvents`, `FinishUpdate`, `EmitStep`,
`Throw`, `Retry`, `LeaveLoop`, `BreakLoop`. A solver is modelled by where its step ends: a
solver with root finding stops at a zero crossing, explicit Euler passes it and bisection
goes back to it. Where crossings lie, which step throws an assertion, whether a client
brings new input and whether states are chosen anew is up to the environment, within the
bounds of a `Scenario`.

**Runs.** `SimulationLoop` (126 000 states): three steps of four units (`StepLen`,
`NumSteps`), so that samples and ticks lie on the grid, next to it within the tolerance,
and between its points; up to three crossings for a chattering limit of two
(`NumEventLimit`), up to two assertions, which is enough for a retry and for the failure of
a retry. It checks

- `SlotsAgree`: a solver always starts from the values that were stored last, and in a slot
  with the discrete variables of the present.
- `SolverRestarts`: after an event, new input or another choice of states the solver is told
  to start anew.
- `GridIsKept`, `StopsInTime`: without an assertion no grid point is jumped over and the
  stop time is not overshot. With one neither holds: a retry halves the step and the next
  step is computed from the step number, so that a grid point may be left out.
- `ChatteringIsReported`: exactly when the last `numEventLimit` events were state events
  within one step.
- `ImplementsSchedule`: the accepted steps implement `EventSchedule`: time does not run back,
  no activation is jumped over, each takes effect once and stays, and only one that an
  assertion interrupted may be given up (`undone`: a time event or timer is consumed before
  the assertion is raised, and the retry does not bring it back).
- `RunEnds` (liveness): the loop ends, whatever it meets.

`SimulationSkip` shows that with a tick that holds no events, on the grid, explicit Euler
runs back in time (`TimeGoesOn`).

**Left out of the passing run** because the code does not keep the properties there: ticks
without held events (`SimulationSkip`: their effect also stays in one slot only); ticks
together with crossings under explicit Euler, where a tick between the crossing and the end
of the step is run before `findRoot` goes back, and there, with assertions, a Boolean clock,
whose tick may wait in the list when an attempt fails (`InOrderOfTime`); assertions in the
step of no length that a sample or tick at the start time causes, which is retried for ever.
Left out of the module: `dasslSteps` and the grid of the solver's own steps; DAE mode; the
early `return` of `dassl.c:537` and the `continue` at `perform_simulation.c.inc:471`, as far
as they leave a jump buffer of a frame that is gone. That time events are dropped when a
state event is found first, as the comment of `checkEvents` says, happens in `dassl.c:639`
only.

**Fairness.** Weak fairness of `Step`: one thread that runs on. It covers that a solver's
step ends. `CHECK_DEADLOCK FALSE`: the loop ends.

**Proofs** (`SimulationLoopProofs`), for every step size, number of steps, tolerance, limit
of events and set of scenarios:

- `ReportsChattering` needs nothing else: `ChatInv` says which of the last events the ring
  of `chatteringInfo`, its index and its count stand for.
- `TypeCorrect`, `SlotsStayRight` (`SlotsAgree`), `RestartsAreTold` (`SolverRestarts`),
  `TimeStopsInTime` (`StopsInTime`), `GridStays` (`GridIsKept`) and `TimeRunsOn`
  (`TimeGoesOn`) hold for models that are `Regular`: every tick holds events, there is no
  Boolean clock without held events, and a model with assertions has nothing scheduled at the
  start time. Without the hypothesis they are false, as "Left out of the passing run" says:
  `SimulationSkip` is the counterexample for `TimeRunsOn`. One invariant proves all of them,
  `LoopInv`: `EffectInv` says what is in the slots, `TimeInv` how far ahead of the grid
  point of the step number a time may be, `DueInv` that no sample or timer that is due is
  left behind, and `PlaceInv` what each place of the loop may rely on: in particular that a
  step without an event ends at the point of its number, or before it after an assertion.
  The bounds are those the arithmetic gives: a step to a tick within the tolerance behind a
  grid point, and from there to a sample within the tolerance behind the tick, ends
  `2 * Eps` behind the point, and with an assertion in between `3 * Eps`. With `Eps = 1` and
  three steps TLC does not come that far.
- `KeepsSchedule` (`ImplementsSchedule`), for models that are also `InOrderOfTime`. A step
  of the program that accepts a result is one step of `EventSchedule`, every other step is
  a stutter. `RunInv` has what the step needs. `ShapeInv`: the activations are finitely many
  and named, the timers all different, so that taking one away takes away no other.
  `GoneInv`: what is no longer scheduled has its effect in the current slot or was undone.
  `AgeInv`: the effects in a slot are not ahead of its time, those of this step not behind
  it. `PassInv`: where crossings are passed no timer waits. `FarInv`: the grid point of the
  step number is at most two steps ahead of the values stored for a retry, which bounds
  what an assertion can cost. That bound, the constant `Reach` of `EventSchedule`, is
  `2 * StepLen + 3 * Eps`.

## 7. SyncTimers

**State.** The sorted list `intvlTimers`, per base clock its interval, time point and
counter (`clocksData`), the timers a tick has still to insert, and `ret` of `handleTimers`.
`Rational.tla` has the arithmetic of `rational.c` with C's remainder and truncating
division, which is where its `gcd` gets its sign from. `fired`, `ran` and `held` are history.

**Actions.** `SolverStep` ends a step of the simulation no later than `Eps` after the first
timer, as `checkForSynchronous` arranges it, or earlier; `handleTimers` is cut into
`InsertTimer`, `handleBaseClock`, `HandleSubClock`, `TimersHandled`; `FireBooleanClock` is
`fireClock` from an event.

**Runs.** `SyncTimers` (7 000 states): two or three base clocks with equal, different and
changing intervals, sub clocks with factors below and above one and negative shifts, two
Boolean clocks, start times below, at and above 0, up to time 31 (`Horizon`: five intervals of
the fastest clock, two of the slowest) and two events (`MaxEvents`).

- `NoTimerPassed`: no timer is left behind, although only the head of the list is looked at.
- `HoldEventsAreSeen`: `handleTimers` reports held events if and only if a clock that holds
  them has ticked, whatever else has.
- `ImplementsClocks`: refinement of `ClockSchedule`: base clocks tick on their grid without
  drift; a sub clock ticks where `shift + k * factor` falls into an interval, each once, those
  of one interval before the next begins, and on time.
- `ClocksGoOn` (liveness).

`SyncShift` shows that a clock shifted by half an interval loses its first tick: `gcd`
returns a negative number, and `ceilRat` rounds the fraction with a negative denominator up
once too often.

**Known limits of the claim.** The time of a sub clock's tick leaves the start time out
(`synchronous.c:151`), so that being on time is only claimed for start time 0; shifts of a
whole factor and more tick before their shift and are not in the passing run; a Boolean
clock never counts; a base clock of interval 0 inserts itself for ever and is excluded by
`TimersAssumption`.

**Fairness.** Weak fairness of `SolverStep` and of `HandleTimers`: one thread; a step that
does not get on would be a failure of the solver.

**Proofs** (`SyncTimersProofs`), for every model `TimersAssumption` admits, every tolerance
and every horizon: `TypeCorrect`, `NoneIsPassed` (`NoTimerPassed`) and `HoldsAreSeen`
(`HoldEventsAreSeen`), by `TimersInv`. Its parts: the list is sorted and no timer, listed or
still to be inserted, is further back than the tolerance (`ListInv`); intervals and counters
are natural numbers, and a Boolean clock does not count (`DataInv`); and `handleTimers` will
return 2 exactly if a clock that holds events has ticked (`HoldInv`). Nothing is inserted
further back because `fireClock` keeps the ticks of a sub clock within the interval that
begins, and an interval is longer than the tolerance (`NextTimes`). The lemmas about
`Rational` say that a denominator is never 0, although `gcd` may return a negative number,
and that `floorRat` and `ceilRat` return integers; they do not say that these round
correctly, which `SyncShift` refutes. `ImplementsClocks` is not proved.

## 8. DelayBuffer

**State.** The ring buffer of one delay expression (array, first element, length, size),
`tStart`, `delayMax`; `history` keeps every row ever stored. The unit of time is
`DBL_EPSILON`. A value is named by its row, and an answer of `delayImpl` names the row, or
the two rows it interpolates; the arithmetic of the interpolation is left out.

**Actions.** `StoreInitial` and `StoreStep` are `storeDelayedExpression` with `appendRingData`
(which may call `expandRingBuffer`), `findTime` and `dequeueNFirstRingDatas`. `delayImpl` is
a function of the state, evaluated in the property for every delay.

**Run.** `DelayBuffer` (36 000 states): a buffer of first size two, which grows to four and
eight with the first element in any place; eight rows (`MaxRows`), two rows at one time for
events, delays from none to longer than the simulation. The code's first size is 1024; the
code does not depend on it, and two is where every case happens soon.

- `RingIsSuffix`: the buffer holds the last rows in order through wrapping, dequeuing and
  growing.
- `AnswersAreRight`: `delayImpl` answers like `Expected`, a definition over the whole history,
  for every delay up to `delayMax` and every time the solver may ask for.
- `OldRowsGo`: the buffer does not grow with the simulation.

The module ends after `MaxRows` rows, hence `CHECK_DEADLOCK FALSE`. Outside of the claim:
times that go back (`findRoot` with explicit Euler, retries, FMUs), where the rows are not
sorted and the bisection of `findTime` has no basis; delays longer than `delayMax`, which
nothing checks.

**Proofs** (`DelayBufferProofs`), for every number of rows, first size, step and set of
delays: `TypeCorrect`, `SuffixKept` (`RingIsSuffix`), `OldRowsTaken` (`OldRowsGo`) and
`AnswersRight` (`AnswersAreRight`). A section of lemmas treats the operations of
`RingBuffer` alone: what `getRingData` returns after an `appendRingData`, after an
`expandRingBuffer` that copies a buffer whose first element is anywhere, and after a
`dequeueNFirstRingDatas`. `DelayInv` adds to the types that the history is sorted
(`HistoryInv`), and that the buffer mirrors its end, that the first row left is not after
any time a delay can ask for, and that behind the second there are only rows a delay
reaches (`BufferInv`). The bisection of `findTime` is a recursive function of the bounds of
its search; that it returns the row asked for is proved by contradiction, for the shortest
interval on which it would not.

## 9. FmuInstance

**State.** The instance (`comp`): its mode, `_need_update`, time, next sample times, the
samples that are active, and instead of values two flags: whether what `functionODE` and
what `functionAlgebraics` compute belongs to the present time, states and inputs. `step`
holds the locals of `fmi2DoStep`, `importer` what a correct importing tool must remember.

**Actions.** One per function of the interface that changes the instance; a function that
throws ends in the state its `catch` leaves, with what it had done before. `fmi2DoStep` is
the loop it is: `EventIteration`, `EulerStep`, `DoStepReturns`. `IllegalCall` is any call
`invalidState` refuses. The importer calls what the standard allows, in any order.

**Assertions.** Where a failed evaluation lands depends on how it fails.

- The runtime (`throwStreamPrint`) jumps through `simulationJumpBuffer` to the innermost
  `try`: `Thrown`, and in an event update `EventUpdateFailed`, whose `catch` asks for an
  update (lines 301 and 302).
- A Modelica function (`omc_assert_fmi`, `MMC_THROW_INTERNAL`) jumps through `mmc_jumper`.
  `fmi2CompletedIntegratorStep` and `fmi2ExitInitializationMode` set it. In the event update
  of the latter such a jump passes the `catch` of `fmi2EventUpdate` and lands at line 647:
  the call fails, the instance is in Event Mode, the samples stay active, and whether an
  update is due stays as it was (`EventUpdateEscaped`).
- Elsewhere there is no target: in `fmi2NewDiscreteStates`, `fmi2GetDerivatives`,
  `fmi2GetEventIndicators` and `fmi2DoStep` for a jump through `mmc_jumper`, in the getters
  for both. The jump through a null pointer ends the process (`Unguarded`, `Crash`); so does,
  in the model, a jump into the frame that line 614 leaves behind.
- What `initialization` returns is ignored by the getters, which clear `_need_update` all the
  same (`InitializationIgnored`).

**Runs.** `FmuInstance` (136 000 states): Model Exchange and Co-Simulation, two samples that
meet, one that started before 0, FMUs without states or event indicators, up to time 5
(`Horizon`), two assertions (`MaxThrows`: one may be answered to and another one follow),
one more round of each event (`MaxRounds`).

- `DerivativesAreCurrent`: where no update is asked for, there was one, whichever of these
  failures came before. Exempt, until something is set or evaluated, is what two of them
  leave (`givenUp`): an event update that was escaped in `fmi2ExitInitializationMode` while
  no update was due, and an initialization whose failure a getter ignored. There the code
  does return derivatives that belong to no state; without `~comp.givenUp` TLC shows both.
- `SamplesOnTime`: each sample is active once at each of its points, at its own time, while
  nothing has failed.
- `StepEndsAtPoint`: `fmi2DoStep` ends at its communication point with its events finished.
- `StepsReturn` (liveness, weak fairness of `fmi2DoStep`'s own steps: the call runs in the
  importer's thread until it returns; that the event iteration ends is the bound `MaxRounds`,
  which the code does not have).

`FmuOutputs` shows that after `fmi2DoStep` and `fmi2Terminate` the algebraic variables that
`fmi2GetReal` returns were computed from derivatives of an earlier time.

**Left out.** FMU states (unsupported by this FMU), directional derivatives, `fmi2FreeInstance`;
a stop time of `fmi2SetupExperiment`, with which `fmi2DoStep` runs to the stop time in one
call; a start time, which is ignored. Not part of the claims, and wrong in the code: an
assertion in the event update of `fmi2DoStep` or `fmi2ExitInitializationMode` is ignored,
and samples are lost; `fmi2GetEventIndicators` before initialization clears `_need_update`,
so that `fmi2ExitInitializationMode` skips it; `fmi2Reset` clears the samples and the time
only after `fmi2Terminate`; `fmi2GetReal` has no `try`, and the failing initialization at
line 614 leaves the jump buffers of its frame behind.

**Proofs** (`FmuInstanceProofs`), for every set of models, every horizon and every number of
assertions and rounds:

- `TypeCorrect`, by `TypeInv`, which adds where the locals of `fmi2DoStep` come from.
- `DerivativesStayCurrent`: by `CurrentInv` with `StepMode`: an instance that was only set up
  still asks for an update, in initialization mode everything is current or given up, and
  `fmi2DoStep` runs in event or continuous-time mode only. The two failures exempt in
  `DerivativesAreCurrent` are exempt here too.
- `StepsEndAtPoint` (`StepEndsAtPoint`): by `PointInv`: in the loop of `fmi2DoStep` no event is
  left to iterate, and the time is not behind the end of the step, so that the test of the
  loop with `>=` is one with `=`.
- `SamplesStayOnTime` (`SamplesOnTime`): by `ClockInv`: the time each sample is due next is on
  its grid and not before the present, and it has been active at all points before that
  one, each once (`Taken`); in continuous-time mode what `eventInfo` announces is the
  earliest of them, so that an importer, or `fmi2DoStep`, cannot step over it. `LoopMode`
  says that `fmi2DoStep` integrates in continuous-time mode only.

## 10. CorbaServer

**State.** A program counter per client's call, the client lock, the two flags
`omc_waiting` and `corba_waiting` with their condition variables, the message pointers, and
the compiler's loop with its copy of the command. A pointer to a string is the client whose
call it belongs to and the text: the string exists as long as that call.

**Actions.** Each critical section is an action; a wait on a condition variable is two, going
to sleep and being woken. Wakeups may be spurious. `CorbaImpl__waitForCommand` reads
`omc_cmd_message` after its mutex was released, and `Corba_waitForCommand` copies the string
then; the two are an action of their own (`FetchCommand`), after which the compiler only
uses the copy. `omc_corba_lock` is never
initialised on POSIX systems, only the compiler takes it, and it excludes nobody.

**Run.** `CorbaServer` (8 800 states): three clients, so that one is served, one holds the
lock and one waits for it; two commands and `quit()`.

- `CommandIsAlive`: from leaving `omc_waitlock` until the command is copied, the call whose
  string is read is under way, and the string is the argument of that call.
- `ImplementsService`: refinement of `CommandService`: commands are executed one at a time and
  each once; a call returns the reply to its own command.
- `RepliesCome` (liveness): a client that has the lock before a `quit()` gets its reply.

**Fairness.** Weak fairness of the compiler's loop and of each client's call: threads run.
No fairness of a mutex is assumed: nothing says that a client ever gets the lock.
`CHECK_DEADLOCK FALSE`: the service ends with `quit()`. It may also end in a deadlock: a
client that waited for the lock while `quit()` was handled stores a command nobody takes,
and `orb->shutdown(true)` waits for its call (`corbaimpl.cpp:483`). The comment there says
that `true` avoids a crash.

**Proofs** (`CorbaServerProofs`), for every set of clients and commands: `TypeCorrect`,
`CommandLives` (`CommandIsAlive`) and `Implements` (`ImplementsService`), by `ServerInv`. A
call owns the client lock from the moment it stores its command to the moment it has its
reply (`CallInv`), and the turn is with one of three, the command's flag, the compiler at
work, the reply's flag, each time for a client that waits (`TurnInv`): so the pointer the
compiler copies from without a mutex belongs to a call that is under way. The refinement maps
`handleCommand` to the execution of the command and the end of a call to its reply; every
other step is a call, or a stutter.

**Left out.** `sendClass`, which takes no client lock, waits on the wrong flag and reads the
reply without a mutex, but has no caller; the variant for Windows; commands during which
the compiler fails, whose clients never get a reply.

## 11. What is proved, and what is only model-checked

Every invariant and every action property of the passing runs is a theorem, and so are the
refinements `ImplementsSchedule` and `ImplementsService`. The theorems assume what the
modules say of their constants (`ASSUME`, checked by TLC in each run). Some have a
hypothesis of their own: `Fresh` that there are no more Boolean variables than Real ones
(section 3), and those of `SimulationLoop` that the scenarios are regular, `KeepsSchedule`
also in order of time, which TLC checks of the run's scenarios (`RunAssumption` of
`MCSimulationLoop`).

Left to TLC are

- liveness, which is out of the prover's reach: `RunsToStopTime`, `LaunchEnds`, `RunEnds`,
  `ClocksGoOn`, `StepsReturn`, `RepliesCome`;
- `ImplementsClocks`: `ClockSchedule` counts the ticks of an interval with `Cardinality` over
  a bounded set of integers, and its bound `MaxIntervals` is one of the run;
- the refuted statements, which TLC's counterexamples show.

The modules do not use each other's state: the loop of `OpcUaServer` (which sees time and
inputs) and that of `SimulationLoop` (which sees new input as a nondeterministic restart)
are two abstractions of the same function, and `SimulationLoop` takes ticks as a given list
that `SyncTimers` shows to be right.

## 12. Not modelled

Most of the repository's lines are outside of what a model of states and steps can say:

- *Generated code*: the ANTLR parsers of `tools/xml` and `Parser`, and the bootstrapping
  headers in `Compiler/boot`.
- *Vendored code and interfaces*: DASKR in C++, LAPACK declarations and bindings.
- *Numerical solvers* (`dassl.c`, `ida_solver.c`, nonlinear and linear systems, state
  selection, the solvers of the C++ runtime): their correctness is a matter of floating-point
  arithmetic. Where their steps end is in `SimulationLoop`.
- *Front end, back end, code generation*: sequential transformations of trees without state
  between calls; the modelled parts take them as their environment.
- *Runtime libraries* of strings, arrays and boxed values, and wrappers of system calls in
  `systemimpl.c`: functions from input to output.
- *C++ simulation runtime*: a second implementation of the simulation loop, in classes; the
  next part worth a model.
- *Memory pool*: allocation from a list of pools. Nothing but addresses tells its states
  apart, and one thread of a simulation uses it.
- *Result files, sockets, ZeroMQ*: input and output only. *ParModelica*: its scheduling is in
  TBB and OpenCL. *OPC DA* and *OMSI*: depend on other systems.
- In the modelled parts: what messages say, names and aliases of nodes, refused writes,
  memory management, and the network below a client's request.
