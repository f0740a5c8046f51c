# Code::Blocks in TLA+

TLA+ modules for the parts of Code::Blocks (revision 7456) in which the order
of events matters: the thread pool that code completion parses with and the
parsers that use it, the build engine of the compiler plugin and the dependency
order it builds in, the debugger plugin with GDB at the other end of the pipe,
and the loading and saving of files. TLC checks the modules on small instances;
TLAPS proves, for every value of the constants, the main safety results about
the thread pool, the build engine, the debugger's queue and its breakpoints, the
parser tasks, the loaders, the saved files, the dependencies between projects and
the build order.

Paths below are relative to `src/src/` of the repository.

## 1. The system

Code::Blocks is a wxWidgets program with one GUI thread. Nearly everything runs
in that thread, driven by events; what makes it hard is

* the few real threads: the pool, the background loader, the class browser
  builder, the directory monitors of contributed plugins;
* child processes (compilers, the debugger) whose ends and output arrive as
  events;
* `Manager::Yield()`, which dispatches further events in the middle of a
  function and so makes the GUI thread re-entrant.

### Inventory

| Component | State | Operations | Interaction | Hard behaviour | What makes it correct |
|---|---|---|---|---|---|
| **Thread pool** `sdk/cbthreadpool.cpp` | task queue, counter of working threads, size and scheduled size, semaphore, per-worker task and abort flag | AddTask, BatchBegin/End, AbortAllTasks, SetConcurrentThreads, Done, destruction; the worker loop | posts ENDED and ALLDONE events to its owner | true concurrency; workers of an old size outlive a resize; destruction with live workers | no task lost or run twice, size respected, counter exact, no lost wake-up, ALLDONE exactly when quiet |
| **Build engine** `plugins/compilergcc/compilergcc.cpp` | command queue, process slots (pointer, pid), build job and states, list of jobs, exit code, flags of the operation under way | build, rebuild, clean (project, workspace), compile file, run, abort; end of a process | executes child processes; sends STARTED and FINISHED to all plugins; called again from inside its own Yields | re-entrancy, parallel processes, failed launches, abort at any point | a slot has one process, links and steps wait, targets in turn, nothing after a failure, every build announced finished, its exit code true |
| Command generation `compilergcc/directcommands.cpp` | cache of dependencies | lists of commands per state | yields while it scans files | order of compile and link commands | link last |
| Piped processes `sdk/pipedprocess.cpp` | the caller's pointer | OnTerminate, polling | nulls the owner's pointer, posts an event | two moments of ending | the slot is reused only after the second |
| **Debugger driver** `plugins/debuggergdb/debuggerdriver.cpp`, `gdb_driver.cpp`, `cdb_driver.cpp` | queue of commands, busy flag, program stopped | QueueCommand, RunQueue, ParseOutput, ClearQueue, Stop, Continue | writes to GDB, parses what comes back, tells DebuggerState | answers must go to the command that asked | the command in front is the one being answered |
| **Debugger state** `debuggerstate.cpp` | breakpoints and their indices, driver | add, remove, shift, apply, start/stop driver | queues commands in the driver | the debuggee runs while the user edits breakpoints | GDB and the editor agree on the breakpoints |
| Debugger plugin `debuggergdb.cpp` | waiting-for-build flag | debug, step, stop | waits for FINISHED and its exit code | needs the promises of the build engine | |
| **Parser protocol** `plugins/codecompletion/parser/parser.cpp` | phase, lists of files, batch timer, pool | AddFile, AddBatchParse, Reparse, ALLDONE, timers, destruction | owns a pool of one thread | tasks that use the parser's lists under a global lock | each file parsed, phases in order, destruction ends |
| Code completion coordination `nativeparser.cpp`, `classbrowserbuilderthread.cpp` | parsers per project, current parser | switch, create, delete parsers | driven by editor and project events and by parsers' events | events of deleted parsers | one current parser, none leaked |
| Parser threads, tokenizer, token tree `parser/*.cpp` | symbol table | parse a file | under the token-tree lock | size of the data | |
| **Background loader, atomic save** `include/backgroundthread.h`, `sdk/filemanager.cpp` | job queue, semaphore, loaded data | Queue, Load, WaitReady, Save, ReplaceFile, DelayedDelete | editors and projects load and save through it | waiting, shutdown, each step of a save may fail | a reader never waits for ever, some complete copy of the file always exists |
| **Dependency order** `compilergcc.cpp` (CalculateProjectDependencies), `sdk/projectmanager.cpp` | graph of projects | order them | input of the build's job list | cycles, diamonds | dependencies first, each once |
| Editors, projects `sdk/editormanager.cpp`, `cbeditor.cpp`, `cbproject.cpp`, `projectloader.cpp` | open documents, project tree | open, save, close | events to plugins | sequential | |
| Plugins, events, manager `sdk/pluginmanager.cpp`, `sdk_events.cpp`, `manager.cpp` | registered sinks, singletons | attach, release, process event | carries all events above | order of shutdown | |
| Configuration, macros, scripting, compilers, user interface, contributed plugins, IPC | data | | | sequential data handling | see PROJECT.json for each |

Vendored code (Squirrel, TinyXML, wxScintilla, depslib) is left aside.

## 2. Plan

| Part | Modules | State |
|---|---|---|
| Thread pool | `TaskPool` (abstract), `ThreadPool` | modelled, checked, refinement and safety proved |
| Build engine | `CompilerGCC` | modelled, checked, safety proved |
| Debugger driver, state, session, with GDB | `DebuggerDriver` | modelled, checked, safety of the queue and of the breakpoints proved |
| Background threads, loaders, careful saving | `FileManager` | modelled, checked, safety of files and loaders proved |
| Parser tasks of code completion, with their pool | `ParserTasks` | modelled, checked, safety proved but for the order of headers |
| Project dependencies, workspace file, build order | `ProjectGraph` (abstract), `ProjectDeps` | modelled, checked, safety, refinement and build order proved |

How they hang together: `ParserTasks` holds the pool of `ThreadPool` in the
form its one thread needs (the same critical sections, one worker, no resize),
so that the parser's handlers and the worker interleave; what it uses of the
pool (ALLDONE only when quiet, tasks in order) is what `ThreadPool` proves.
`ProjectDeps` computes the list of jobs that `CompilerGCC` takes as its
constants `ProjectJobs` and `WorkspaceJobs`, and `BuildsInOrder` says that it is
such a list: the targets of a project together, a project after those it needs.
`CompilerGCC` owes the debugger FINISHED (`BuildIsFinished`).

Left of the plan: a proof of `PriorityFirst` in `ParserTasks`.

## 3. The thread pool

`ThreadPool.tla` models `cbThreadPool` and `cbWorkerThread::Entry`. Whatever
runs under `m_Mutex` is one action named after the function; a worker's program
counter `pc[w]` says between which two calls of `Entry` it is (the table at the
top of the module). A resize creates a new *generation* of workers, because the
code forgets the old ones and gives the new ones a semaphore of their own; old
workers keep running until they see their abort flag, and the model keeps both.

* `sem[g]` is the semaphore of generation g, with wxWidgets' maximum:
  posts beyond it are dropped (`Posted`).
* `PublishTask` is separate from `GetNextTask`: the code pops under `m_Mutex`
  and assigns `m_pTask` under `m_taskMutex`.
* `SetConcurrentThreads` is two actions, the comparison before the lock and
  `ApplyConcurrentThreads` under it.
* `Destroy` is the destructor; `StrayCall` is a worker calling into the
  destroyed pool. It is undefined behaviour, and the worker is given up there.
  Broadcast with a negative difference posts without end: `life = "hung"`.
* A size of "number of processors" is one of `1..MaxSize`. The reference count
  of `CountedPtr` is not modelled.

`TaskPool.tla` says what the owner relies on, with no worker in it: tasks are
taken in order, executed at most once, no more than `limit` at a time, and the
limit changes only while nothing executes. `RefinesTaskPool` is its `Spec` under
the mapping in `ThreadPool` (`INSTANCE ... WITH`).

| Run | Instance | Result |
|---|---|---|
| `tp_safety` | 2 tasks, sizes 1 and 2, one resize | the invariants and the action property of its cfg and `RefinesTaskPool` hold. Tasks are a symmetry set |
| `tp_live` | 1 task, sizes 1 and 2, one resize, no symmetry | `QueuedIsServed`, `AllDoneIsPosted`, `ResizeFromOneTakesEffect` hold |

Three more configurations show what the code does not do; run by hand, each is
violated:

* `ThreadPool_abort.cfg`, `AbortReachesAll`: "Aborts all running and pending
  tasks" (`cbthreadpool.h:74`). `AbortAllTasks` misses a task that is popped and
  not yet in `m_pTask`.
* `ThreadPool_dropped.cfg`, `NoTaskDropped`: "the task will be deleted when it
  finish or be aborted" (`cbthreadpool.h:70`). A worker that a resize has
  replaced takes a task and leaves the loop (`cbthreadpool.cpp:231`) without
  running or deleting it.
* `ThreadPool_livelock.cfg`, `ResizeTakesEffect`: "it'll delay it until they're
  all done" (`cbthreadpool.h:52`). Two workers wake each other for ever
  (`cbthreadpool.cpp:162`) with no task left, and the resize waits.

*Bounds.* Two workers of a generation and one resize are what the races need:
one worker of the old generation late while another brings the counter to zero.
A second resize adds nothing that the proofs do not cover. Liveness is checked
with one task because the state graph is searched for cycles; ALLDONE, resize
and wake-up cycles do not depend on a second task, and the livelock has none.

*Fairness.* Weak fairness of each worker's step: the operating system schedules
a thread that can run, and a task's `Execute` returns. The semaphore is weakly
fair only, and no liveness property needs more. The owner's calls are not fair
except that a call that has begun completes. `AllDoneIsPosted` and
`ResizeFromOneTakesEffect` are stated for a pool of one thread, the size its
client, code completion, starts with; `ThreadPool_livelock.cfg` shows why.

### Proofs

`ThreadPool_proofs.tla`, from `PoolAssumption` alone (the null task is no task, `MaxSize` positive, `MaxResize` natural):

| Theorem | Says |
|---|---|
| `TypeCorrect` | `TypeOK` |
| `CounterCorrect` | `m_workingThreads` is the number of workers between WorkingThread() and WaitingThread() |
| `LimitCorrect` | no more tasks execute than `m_concurrentThreads` |
| `WakeupCorrect` | `NoLostWakeup` |
| `DestructionWakes` | `SleepersAreWoken` |
| `PlaceCorrect` | `OnePlace` |
| `DoneCorrect` | `DoneMeansNoneRunning` |
| `AllDoneCorrect` | `AllDoneIsQuiet`, an action property |
| `Refinement` | `Spec => RefinesTaskPool` |

The inductive invariant `Inv` adds to `TypeOK` and `CounterExact` why a resize
is safe: a worker that is not aborted belongs to the current generation
(`WorkersFit`), only such a worker executes (`ExecutingFit`) and a running task
has an executing worker (`RunningHeld`, `HoldersHold`). A resize that takes
effect finds the counter, hence the set of counted workers, empty, so nothing
executes; what old workers take afterwards they see their flag before
executing. `RunningWithinLimit` follows because running tasks inject into
executing workers, all of which are among the `m_concurrentThreads` of the
generation. `ResizeBudget` bounds the generation. The proof of wake-ups adds
that only old workers are aborted (`AbortedOld`): without it a token could be
consumed by a worker that dies. `DestructionWakes` says of the
destructor's broadcast that no sleeper is left without a token: a worker that was
created is in `m_threads` or of an old generation (`Ranked`); if none of the old
ones is counted then (`OldSettled`), those counted are the workers of `m_threads`
that do not sleep, and the difference that Broadcast posts is the number of
sleepers. The places
of tasks and the refinement rest on
`PlaceInv`: each held element has one holder and the status its holder's `pc`
says. `DoneCorrect` and `AllDoneCorrect` need the converse: a taken task has a
worker that holds it (`TakenHeld`, which uses `AbortedOld` again, to know that a
new generation replaces no holder), and a queued task stands in the queue
(`QueuedStands`); with the counter at zero there is then no such worker. Each
action that moves a task, a worker or a generation has a lemma of its own.

`RunningWithinLimit` and `DoneMeansNoneRunning` are in no run any more: the
refinement and `AllDoneIsQuiet` contain what TLC would look for.

Model-checked only: the liveness properties. Liveness under fairness is out of
the prover's reach.

## 4. The build engine

`CompilerGCC.tla` models the GUI thread as a `stack` of frames: each function
that calls `Manager::Yield()`, or calls another one that does, is cut at those
calls, and a frame says where it resumes. An action is a function up to its next
call; everything the code does in between, resets included, is in it. An event
(a process ends, the user aborts, or the user gives a command) may occur while
the main loop or a Yield is on top. A Yield within a Yield returns at once, as
wxApp's does.

* *Slots.* A running process is in `child[i]`; `OnTerminate` nulls
  `m_Processes[i]` and posts to `ended`; `OnJobEnd` handles the event and clears
  `m_Pid[i]`. `wxExecute` may fail.
* *States.* `build` is m_BuildJob, m_BuildState, m_NextBuildState and the target
  being built. `GetNextStateBasedOnJob`, with its recursive DoBuild for the next
  project of a workspace, is `GetNextStateBasedOnJob` and `AfterState`.
  `m_BuildState` has no initial value in the code, so `Init` allows any.
* *Commands* are their kinds: log line, compilation, compilation after others
  (`"cc after"`, of the next weight: mustWait), link, pre/post-build step
  (mustWait), program run. What a state generates is chosen from `CompileLists`
  and `Steps`: up to date, or compile and link; a step or none.
* *Dialogs* (save, debugger still running, build it now?) are answered at once,
  any way. `hindrance` is what keeps a build from starting: a running debugger
  that the user keeps, or no project. `PreprocessJob` may find nothing to build.
* `owed`, `failed`, `aborted` and `sessions` are history variables.

Left out: projects that use make, `#run_script` commands, the contents of
messages, clean's deletion of files, the order of jobs within a list.

| Run | Instance | Result |
|---|---|---|
| `cc_parallel` | N = 2, build/clean/rebuild of project and workspace, compile file, abort; 3 commands of the user, 2 targets, 2 projects | `SlotIntegrity`, `WaitAlone`, `OneTargetAtATime`, `StopsAtFailure`, `BuildIsFinished` hold |
| `cc_default` | N = 1, the whole menu, post-build steps always run; 3 commands | `LinkAfterCompile`, `BuildIsFinished` hold (and, by hand, `SlotIntegrity` and `StopsAtFailure`) |

Run by hand, each violated:

* `CompilerGCC_abort.cfg` (N = 1, one build, abort), `AbortStops`: "Abort the
  current build process" (`cbplugin.h:343`). An abort given while a function of
  the engine yields is undone by `compilergcc.cpp:2452-2453`.
* `CompilerGCC_exitcode.cfg` (N = 2, one build), `ExitCodeTells`: "Get the exit
  code of the last build process" (`cbplugin.h:349`), on which the debugger
  relies. FINISHED comes with 0 after a failed command.
* `CompilerGCC_unlinked.cfg` (N = 2, one build of a target without link),
  `BuildIsFinished`: the commands of a `ttCommandsOnly` target's files end in a
  compilation that does not wait. When it is started beside another one the loop
  of `DoPrepareQueue` (`compilergcc.cpp:3690`) finds the queue empty and a process
  running, and goes round in the GUI thread.
* `CompilerGCC_reentrant.cfg` (N = 1, two builds, clicks during a Yield),
  `SlotIntegrity`: a slot is started twice.

*What the passing runs assume*, and what happens outside:

* The user gives commands from the main loop only (`Impatient = FALSE`), except
  abort, which may come in any Yield. `OnUpdateUI` disables the menus by
  `IsRunning()`, which does not cover the Yield of `DoPrepareQueue`:
  `CompilerGCC_reentrant.cfg` shows the consequence, and with it all the other properties
  fail too.
* With N = 2 the menu has neither Run nor "build and run". With them a program
  started after a failed build can ask "build it now?" inside OnJobEnd while the
  second compiler still runs, and a build begins beside the old one; WaitAlone,
  OneTargetAtATime, StopsAtFailure and BuildIsFinished then fail.
  N = 1 is the program's default (`/parallel_processes`, compilergcc.cpp:1050),
  where the whole menu is checked.
* Every list of compilations ends in a command that waits: a linker, as for every
  target with an output. Without it see `CompilerGCC_unlinked.cfg`. A list that
  ends in a log line (`directcommands.cpp:611`) breaks `SlotIntegrity`:
  DoRunQueue's call of itself after the line takes the slot its caller takes.
* `LinkAfterCompile` (when a linker is executed every command executed before it
  for the build has ended, its end was handled, and none has failed) is stated
  for N = 1. With two slots it fails: `m_Processes[i]` is null before the posted
  exit code is read, and a linker may start after a failed compilation whose
  event is still queued. That no compilation of the target is left in the queue
  is the order of the lists that `CompileLists` takes from command generation.

*Bounds.* Two targets of a project and two projects make every transition of the
state machine; three commands allow a build, what it leaves behind (flags, jobs,
exit code), and a build that meets it. Two slots are enough for any interference
of one process with another. `MaxSessions` also bounds "build it now?".

*Fairness.* `WF(Engine)`: the GUI thread executes its functions and handles
posted events. `WF(Terminate(i))`: compilers end. The user's commands, abort
included, are not fair. `BuildIsFinished` therefore says that the engine alone
brings every build to its FINISHED event.

### Proofs

`CompilerGCC_proofs.tla` first reads the stack from its head and proves `TypeCorrect`
for every value of the constants, the user's impatience included. `TypeOK` says
little about frames, so the invariant `Types` gives each its fields and says
which frames can stand on which (`Fits`): the calls that Yield() can nest.

`CompilerGCC_proofs.tla` proves the rest for any number of slots, jobs, projects
and commands, under `Orderly`: the user gives no command in a Yield (abort
excepted), the menu has no way of running the program, and in each list of
compilations (`Ordered`) only what waits follows a step or a linker, and the last
command waits. The constants of `cc_parallel` satisfy it. Each part is needed:
`CompilerGCC_reentrant.cfg`, a menu with "build and run" and N = 2, and
`CompilerGCC_unlinked.cfg` violate the conclusions without it.

| Theorem | Says |
|---|---|
| `TypeCorrect` | `TypeOK`, without `Orderly` |
| `SlotsAreKept` | `SlotIntegrity` |
| `StepsRunAlone` | `WaitAlone` |
| `TargetsInTurn` | `OneTargetAtATime` |
| `FailureStops` | `StopsAtFailure`, an action property |
| `LinkerWaits` | `LinkAfterCompile`, for N = 1: no process lives and no end is posted (`Slots`), and after a failure, handled in whatever Yield, there is nothing to execute (`NothingLaunched`) |

None of the properties is inductive: whether DoRunQueue may start a command
depends on which functions wait below it on the stack. The invariant `Machine`
says of the slots what each of `m_Processes`, `m_Pid` and the posted ends imply
of the others (`Slots`), that what runs together belongs to one target and lets
nothing run beside a step or a link (`Beside`), that the queue goes on in the
same way (`Queued`), that a target whose queue is empty has one process left
(`OneLeft`, which is what keeps the next target from starting beside it), and of
the stack, frame by frame (`Rests`, `Runs`), that a function that walks the states
waits only while no process runs or when it has nothing left to do. TLC checked
`Machine` on the instance of `cc_parallel` and with N = 3 before it was proved.
The proof has a lemma for each action; `FirstOfSlots` finds the free slot
DoRunQueue takes by well-foundedness of the subsets of the slots.

Model-checked only: `BuildIsFinished`, which is liveness.

## 5. The debugger

`DebuggerDriver.tla` composes `DebuggerState` (the editor's breakpoints), the
queue of `DebuggerDriver` and `GDB_driver`, the commands of `gdb_commands.h`
that matter for breakpoints and tooltips, and the session of `DebuggerGDB`. GDB
and the debugged program are a process at the other end of a pipe: `driver.stdin`
is what was written and not read, `events` what GDB wrote and the GUI thread
has not handled, `gdb.state` whether GDB is at its prompt, runs the program, or
is dead. Each handler of the plugin is one action, because none yields, except
`DoDebug`: it is cut at its loop of Yields into `Launch` and `FinishStart`.

* *Queue.* `m_DCmds`, `m_QueueBusy`, `m_ProgramIsStopped` are the code's.
  `RunQueue` drops leading action-only commands, sends the first other one and
  marks the queue busy; `ParseAnswer` is `GDB_driver::ParseOutput` at a prompt:
  it pops the head, lets it parse the text, and sends the next.
  Commands are their kind, their breakpoint, and their argument.
* *Breakpoints.* `bp[b].index` is the editor's idea of GDB's number: a running
  count (`auto`) when the breakpoint is made, -1 from the moment the command is
  constructed, GDB's number after its answer. The operators on a state
  `[list, bp, d]` are the functions of `DebuggerState` and compose as the code
  calls them, e.g. `OnBreakpointEdit` = remove, then add.
* *The user* (`Calm`) edits breakpoints or resumes when nothing is outstanding,
  or while the program runs with at most a refresh of the watches queued
  behind; stops and project changes come at any time.
* `Mishaps` switches on what breaks the properties; no passing run has any:

| Mishap | What happens | Violates |
|---|---|---|
| `"unknown word"` | a tooltip on a word without a type (`gdb_commands.h:927`) | `AnswerToAsker`: run `dbg_answers` |
| `"disable"` | a breakpoint is disabled while GDB has it (`gdb_commands.h:540`) | `DisabledIsOut`: `DebuggerDriver_disabled.cfg`, by hand |
| `"haste"` | a click before the last one is served | `BusyMeansAsked` |
| `"refusal"` | GDB refuses the address of a data breakpoint | `BreakpointsAgree` |

| Run | Instance | Result |
|---|---|---|
| `dbg_session` | 2 line breakpoints, 1 data breakpoint, 2 lines, 4 actions of the user | `TypeOK`, `AnswerToAsker`, `BusyMeansAsked`, `BreakpointsAgree`, `ArmedWhenRun`, `ClickServed`, `SessionEnds` hold |
| `dbg_answers` | 1 and 1, 3 actions | violated: the answer goes to the wrong command |

*Bounds.* Four actions make a session with two changes between start and end,
and a temporary breakpoint meeting an edit of another. Two lines suffice for a
shift to move one breakpoint onto the place of another.
*Fairness.* The GUI handles its events and leaves the Yield loop, GDB reads its
input, a pending signal reaches a running program, a dead process is reported.
Nothing obliges the debugged program to stop, or the user to act.

### Proofs

`DebuggerDriver_proofs.tla` is about every set of breakpoints, every length of
the file and any number of clicks.

| Theorem | Says | Assumes |
|---|---|---|
| `TypeCorrect` | `TypeOK` | nothing |
| `AnswersReachAsker` | `AnswerToAsker` | no `"unknown word"` |
| `BusyIsAsked` | `BusyMeansAsked` | no `"haste"` |
| `BreakpointsMatch` | `BreakpointsAgree` | no mishap |
| `Armed` | `ArmedWhenRun` | no mishap |

The first three allow the other mishaps; `dbg_answers` shows that the first
assumption is needed, and the configuration of `dbg_session` with `"haste"`, by
hand, the second. They follow from one invariant, `IInv`, of four parts.

* `Queue` follows a command. It is sent only by an idle driver, into an empty
  pipe; then it is in the pipe, or the program it resumed is running, or its
  answer is the only one among the posted events. In each place it is the head
  of `m_DCmds` still (`Asked`): while it is out, `QueueLow` adds behind it, and
  `QueueHigh`, which adds before it, is called only for an answer, when nothing
  is out. The one exception is a tooltip on an unknown word, whose answer puts
  two commands in front: the second when the first was sent already. `Good`,
  `Ready` and `Later` say the same of a driver in the middle of a handler; the
  handlers compose operators on drivers, and each is proved once for all of
  them.
* `Life`: the end of the process is posted behind every answer of the session
  and takes the driver with it, so that a new session meets no answer of an old
  one. Without it the first answer of the old GDB would pop "set prompt".
* `Owed`: while the driver is busy GDB has something to answer. GDB answers
  nothing before it was told its prompt, hence `PromptFirst`: an open session
  whose GDB has not been told has sent "set prompt" and nothing else. A hasty
  click in the Yield loop of DoDebug sends something before it.
* `Types`, among them that a breakpoint has not both a condition and an ignore
  count (with both, `SetOptions` would put a second command in front of one that
  was sent), and that the list has no breakpoint twice (a shift of lines would
  move it twice).

The handlers loop over the breakpoints, so the proofs need that a fold keeps
what each of its steps keeps. `FoldLemmas.tla` proves that of `FoldLeft`, for an
operator that is a constant of the module, by an induction stated for sets
rather than predicates: the naturals are well-founded, and so the least number
at which something fails is 0 or follows one at which it holds. `TheFolds` shows
that each loop is an instance. `FoldSteps` is needed where the steps differ:
`ShiftBreakpoints` knows only of the breakpoints still to come that their lines
are the old ones, `ApplyBreakpoints` that they are still listed, and
`Outstanding` is empty up to the one answer.

That GDB and the editor agree about the breakpoints is true only when nothing is
left to do, so the invariant, `BpInv`, says what is left to do. It adds to `IInv`
what holds between the editor's table `t`, the work `A` the queue asks of GDB,
the numbers `got` that were posted and not yet read, and GDB's own breakpoints
`g`, for the breakpoints `on` that the editor lists (`Fits`).

* `AddsFit`: a command that sets a breakpoint sets an enabled one that is listed,
  on its line of now. Hence a shift of lines, which changes lines, removes the
  breakpoint and sets it again.
* `BpsFit`: an enabled breakpoint that is not asked to be set is under its number
  in GDB, on its line and with its options or with the commands about them still
  queued, and no command deletes it; or it is temporary and was hit.
* `NumbersFit`: each breakpoint of GDB has a number that was posted, or is asked to
  be deleted, or is that of a breakpoint of the editor.
* `Apart` and `OrdersFit`: no two have one number, and a condition or an ignore
  count is asked for only of a breakpoint that has the number and the option; a
  command that deletes is for a number that was given before, never for one that
  GDB has yet to give.

The rest of `BpInv` is what the queue must do for this to survive its order:
`Unique`, no breakpoint is set twice; `Ordered`, a command that lets the program
run has work behind it only when it was sent already, so that the breakpoints
asked for while the program runs are set after it stops, and all others before it
goes on; `AnswerFits`, what a posted answer says of GDB's breakpoints is still so when
the handler reads it. `Starts` and `Dies` say what holds
outside: a GDB that has just started has no breakpoints and numbers from 1, so
that the indices of an old session mean nothing, and while one dies its queue is
busy for good. `Numbered` keeps GDB's next number a natural above 0.

Each handler is proved to keep `Fits` for a table, a work set and a list in the
middle of its loop. Two facts carry the proof. When the queue asks nothing and no
number is unread, `Fits` is `Agree` (`FitsAgree`), which gives `BreakpointsMatch`.
And what `RunQueue` sends is a command that lets the program run only when nothing
else is asked (`Send`), which gives `Armed`.

`Mishaps = {}` is what `dbg_session` assumes as well, and `BreakpointsAgree` is
false without it: see the table of mishaps above. TLC checked `IInv` before it
was proved, with several sets of mishaps, all four together among them.
Model-checked only: the two liveness properties.

Not modelled: the CDB driver, Windows debug events, pending breakpoints
(`wantsCondition`) and refused conditions (the "No" of that dialog removes GDB's
breakpoint and leaves the editor's, `gdb_commands.h:358-363`), break on entry
(a High-priority command before a running one, `gdb_driver.cpp:1104-1107`), a
breakpoint with both a condition and an ignore count, answers without a prompt,
the reuse of a deleted breakpoint's memory by a queued command.

## 6. Files

`FileManager.tla` models `sdk/filemanager.cpp` over `include/backgroundthread.h`:
three loader threads and the thread of delayed deletions (`Entry`), the clients
of loaders, the save in progress on the GUI thread, step by step, and the disk.
A thread is cut where another can see it: after the semaphore, the pop, the
virtual call, the read, `Ready`. `disk[f]` is what the file and `f.cbTemp` hold:
`absent`, `partial`, the `last` whole text or an `older` one. Every step of a
save may fail as its early returns say; the process may be killed (`Crash`),
quit, end and start again between any two steps, and the user may put a backup
back. The two forms of `Save` take the same steps and differ in how they write:
the one for raw bytes compares what was written with the length; the other, for
the text of an editor, has its result from `WriteWxStringToFile`, which does so
too unless the text cannot be held by its encoding and goes out as UTF-8: then
`return f.Write(buf, size)` (`filemanager.cpp:449`) tells a short write as
success. `Write` takes its outcomes from there; the short write is a mishap.
`fresh` is a history variable: the files written since the delete thread last
began its naps. Nothing is assumed about when the system writes a file out;
`BackupDeletedLate` says what the program does for it, a whole series of naps.

| Run | Instance | Result |
|---|---|---|
| `files` | 2 loaders of files, 1 saved file | `TypeOK`, `LoaderSettled`, `SomethingSurvives`, `BackupDeletedLate`, `BackupsGo`, `LoadersServed` hold |
| `files_backup` | 1 and 1, saved again while the deletion is pending | violated: file and backup are lost |

By hand: two files and a network loader pass too (175 336 states). With
`"short write"` (`FileManager_short.cfg`) `SomethingSurvives` and
`BackupDeletedLate` fail: Save goes on to delete the backup of a file that holds
part of its text. With `"retry"` (saved again after a failed save) `SomethingSurvives` fails: the
partial file is copied over the only whole text. With a URL loader
`LoaderSettled` fails (`AutoBuffer` frees what `data` points to,
`filemanager.cpp:106`; the program loads no URLs). With `"early delete"` the
destructor of a loader that was not started waits for ever (`:28`).
`FileManager_stale.cfg` shows `NoStaleFiles` (`filemanager.h:77`) violated: a
deletion pending at exit is not carried out.

*Bounds.* One file has every interleaving of its save with its deletion, and the
deletion thread handles jobs one at a time; two loaders queue behind each other.
*Fairness.* Threads run and a save in progress goes on.

### Proof

`FileManager_proofs.tla` proves, for every set of files and loaders, that a
thread never pops an empty queue, that no text is lost, and that backups are
deleted late enough; and, in its second half, that the types are kept, that
loaders are left alone once answered, and that no answer is lost. See section 9.
`LoaderSettled` says that the thread has finished with the text a client reads,
not that it is all of the file: `FileLoader` does not see a short read
(`filemanager.cpp:71`; `data = "short"`).

## 7. Parser tasks

`ParserTasks.tla` models `Parser`'s side of parsing: the lists of files, the two
timers, `AddParseThread` (one action per critical section), `Parse` deciding
whether a file is parsed on the spot, queued in the pool or kept in
`m_PoolTask`, the handler of ALLDONE with its phases (next batch, system headers
again, marking of local files, end), turns of the parsers (`s_CurrentParser`)
and destruction. The pool is `cbThreadPool` with its one worker. The token tree
is the status of each file; `wanted` is a history variable. `s_ParserCritical`
and `s_TokensTreeCritical` are the guards `CriticalFree` and `TreeFree`.

| Mishap | What happens | Violates |
|---|---|---|
| `"add in the gap"` | a file is added between ALLDONE and the timer (`parser.cpp:563-573`) | `BusyMeansWork` |
| `"add while listing"` | while `AddParseThread` turns the lists into tasks (`:139`, `:679`) | `OneParserAtATime`, files are lost |
| `"add while reparsing"` | `m_NeedMarkFileAsLocal` set in a reparse (`:822`, `:1093`) | `EndMeansDone` |
| `"early delete"` | a parser is deleted while its worker works (`:417`, `:1025`) | the GUI thread waits for ever |
| `"quick worker"` | the worker wakes between two posts of a batch (`cbthreadpool.h:235`) | `OneParserAtATime`, `EndMeansDone` |

| Run | Instance | Result |
|---|---|---|
| `parser` | a project (priority header, a source that includes it, a global include) and a stand-alone parser, 5 requests | `TypeOK`, `BusyMeansWork`, `OneParserAtATime`, `PriorityFirst`, `EndMeansDone`, `AddedIsParsed` hold |
| `parser_empty` | a project without sources and headers | violated: the parser stays busy for ever |

*Bounds.* Five requests: create both parsers, add or reparse a file twice,
delete one. Six pass too, by hand (265 725 states). Three files make each
include local or global, of a file known or unknown, inside or outside the
priority phase.
*Fairness.* The worker runs, the GUI thread gets to each event and timer. No
request is owed.

### Proofs

`ParserTasks_proofs.tla` is about every set of parsers, files and includes,
everything DoFullParsing may find, and any number of requests.

| Theorem | Says | Assumes |
|---|---|---|
| `TypeCorrect` | `TypeOK`: above all, one ALLDONE event at most is pending | `Orderly` |
| `OneAtATime` | `OneParserAtATime` | `Orderly` |
| `EndIsDone` | `EndMeansDone`, an action property | `Orderly`, no `"add while reparsing"` |
| `BusyGoesOn` | `BusyMeansWork` | `Orderly`, no `"add in the gap"`, `Filled` of every parser |

`Orderly` excludes `"add while listing"` and `"quick worker"`. Files added in the gap
and parsers deleted while they work are allowed. The invariant `Inv` says for
each parser that one thing at a time drives the parsing: the timer, or an
AddParseThread that is queued or running, or the tasks it made (`Alive`). The
timer runs only while the pool is quiet, with no event pending; so the handler of
the timer finds the pool empty, an ALLDONE event finds no timer, and a second
event cannot be posted. `"add while listing"` starts the timer beside the
AddParseThread; `"quick worker"` lets ALLDONE be posted in the middle of a batch.
`Alive` fails while a parser is deleted with its worker at work; what holds even
then is `Sound`. `Turn` is `OneParserAtATime` restated. `EndIsDone` needs
besides what the phase knows of the files to mark (`Locals`): a parser that is
neither creating nor adding has none, which is what adding in a reparse breaks.

`BusyGoesOn` needs an invariant of its own, `AllWell`, because nothing in the
code says so directly: `BatchListed` sets `m_IsParsing` whether or not it queued
a task, and only a task leads to the next event. So the invariant must follow
every file from list to task. `Works`: a parser that says it is parsing while
its pool is quiet has its timer running, and the timer finds something. `Placed`:
a file whose status is *assigned* is in the queue, about to be opened, or in a
list of tasks, and one that is *parsing* is on the stack of the worker.
`Fresh`: until the parsing begins, some file of the batch is kept, that is, no
header can take it away, so that it becomes the first task. This is what `Filled`
is about: `DoFullParsing` found nothing at all, or found a source that is no
priority header and that no file includes. The run `parser_empty` shows that some
such hypothesis is needed: its project has a priority header and no source. For
a project all of whose sources are included somewhere the theorem says nothing. The
invariant holds of every parser but the one that is being deleted, whose lists and queue are
emptied under its worker. TLC checked it on the instance of `parser`, with
`"add while reparsing"` and `"early delete"`, before it was proved.

Model-checked only: `PriorityFirst`, and `AddedIsParsed`, which is liveness.

Not modelled: `IsAppShuttingDown`, the text of open editors
(`m_NeedsReparse`), the cache, files that cannot be read (they stay assigned for
ever, `token.cpp:1259`), one parser for a whole workspace, the class browser.

## 8. Dependencies between projects

`ProjectGraph.tla` is what the user may rely on: a relation on the open projects
without cycles, that only edits change, that a reload keeps, that loses what
concerns a closed project and nothing else, and that a workspace file keeps.
`ProjectDeps.tla` is the code: arrays in a map from *addresses* of `cbProject`
objects. Closing a project leaves its array in the map under an address that is
no object any more; a reload closes a project and loads its file elsewhere. The
refinement mapping reads the relation on files off the arrays of the open
projects. `CalculateProjectDependencies` and `PreprocessJob` are pure operators
on that state, checked against the transitive closure in every reachable state.

| Run | Instance | Result |
|---|---|---|
| `deps` | 4 addresses, 3 project files, workspaces of up to 2 projects; addresses and files are symmetric | `TypeOK`, `BuildsInOrder`, `ImplementsGraph` hold; no deadlock |
| `deps_reload` | 2 files, `"orphan"` | violated: a dependency is entered for a deleted project |

With `"reuse"` (a new object at the address of a deleted project that had
dependencies) `ImplementsGraph` fails, by hand: the new project inherits them.
*Bounds.* Three files have a chain, a diamond needs none more for the order
property to fail (a project needed on two ways), and every cycle of up to three;
four addresses let every open project be reloaded. Nothing is claimed of
liveness.

Not modelled: a project closed while its job is queued (`compilergcc.cpp:3336`),
the active project, titles (the dialog looks projects up by title), unsupported
platforms, importers.

`Address` is assumed finite: a reload of a workspace gives its files any distinct
addresses, and a set without end would have to be shown to have them. The
recursions of the code are recursive functions, `Visit` of a project giving a
function of the list so far, because the prover reasons about functions of one
variable; and its loops are folds.

### Proofs

`ProjectGraph_proofs.tla`, `GraphIsAcyclic`: `Spec => []Acyclic` for every set of
projects. Acyclic is stated as "every set of projects has one that needs none of
the others"; removing edges keeps it (`FewerNoCycle`), and an edge from p to what
does not need p keeps it (`DependNoCycle`, by splitting a set along the closure
`Needed`, which `NeededClosed` shows to be closed).

`ProjectDeps_proofs.tla`, for every set of files and every finite set of
addresses:

| Theorem | Says | Assumes |
|---|---|---|
| `TypeCorrect` | `TypeOK`: above all, an array names open projects, each once | |
| `NoCircularDependency` | the arrays have no cycle, those of deleted projects included | |
| `OpenDepend` | `OnlyOpenDepend`, an action property | no `"orphan"` |
| `Implements` | `ImplementsGraph`: every step is one of `ProjectGraph` or none | no `"reuse"` |
| `BuildOrder` | `BuildsInOrder` | |

The two assumptions are needed: `deps_reload` shows `OnlyOpenDepend` violated with
`"orphan"`, and with `"reuse"` `ImplementsGraph` is. The other three hold
whatever happens.

The invariant `DepsInv` reads the arrays as a graph on addresses, `Edges`. It
says that this graph has no cycle, with the arrays of deleted projects in it,
which the relation on open projects does not see; without them the recursion of
`CausesCircularDependency` need not end, and the recursive function that stands
for it would be any value. It says that the workspace file was written from such
a state. `CausesIsNeeded` is what the invariant is for: the recursion ends, and
says whether one project needs the other.

An operation on the arrays is a loop of additions, each of which may be refused.
`Enriched` says what such a loop leaves: the old edges, at most the new ones, and
all the new ones where they close no cycle. For an addition by hand that is all
there is to say, and `ProjectGraph` allows the refusal. A reload and the loading
of a workspace must be refused nothing: what they enter is a copy, under new
addresses, of a graph without a cycle (`LaidOver`: the loader has entered part of
that copy, and each further edge still closes no cycle).

`Implements` maps the arrays to the relation on files. Its hypothesis is used in
one place, where an object gets an address: the array there must be empty, else
the dependencies of a deleted project appear in the relation.

`BuildOrder` is about a recursion through `Visit`, a function that is given by an
equation, so it must be shown first that there is one. A solution *on* what a
project needs agrees with every other where both are defined, because there is no
cycle; the solutions on what the dependencies need are put together to one on what
the project needs, and what holds for every set without a cycle holds for all. That
is an induction over the graph, made without the library's induction theorems, by
the smallest counterexample, which `NoCycle` gives. The order itself is right
because every list that `Visit` returns is *settled*: it holds what its members
need, each before them. `FoldSame` of `FoldLemmas` says that two loops with bodies
that agree on what they meet agree.

## 9. Proofs about files

`FileManager_proofs.tla` proves six theorems, from the module's assumptions that
the sets are finite and that files, loaders and "no job" differ. Three are about
the queues and the disk.

* `QueueNeverEmpty`. `BackgroundThread::Entry` takes the front of its list
  without a look. The inductive invariant `Base` is the shape of the state and
  `Counted`: a queue is as long as its semaphore, plus one if the thread is
  between semaphore and pop, plus those that have pushed and not posted. It is
  kept action by action (`EntryBase`, `ClientBase`, `SaveBase`, `SystemBase`).
* `NothingLost`, assuming `OrdinarySaves` (none of `"early save"`, `"retry"` and
  `"short write"`): `SomethingSurvives` always. That property is not inductive:
  nothing in it keeps the delete thread from taking the only whole text. `Safe`
  adds what each point of a save knows of the disk (`SavingWell`), and that a
  deletion is due only of a file that is whole and not being saved (`DueWell`).
  `DueComes` shows that only `QueueDelete` makes a deletion due; with `Base`,
  because otherwise a popped queue could hold anything.
* `DeletionWaits`, under the same assumption: `BackupDeletedLate`, with `Delay`:
  a file whose deletion naps or is about to be done has not been written since
  the naps began.

The run `files_backup` and, by hand, `"retry"` and `FileManager_short.cfg` show
that each part of the assumption is needed.

The second half of the module rests on `Base` and follows each loader.

* `TypeCorrect`. That a loader's semaphore never exceeds 1 needs `Tracked`: a
  loader stands once in one queue, or one thread holds it, or neither (`Once`),
  what its answer and its client know of that (`Account`), and what a thread holds
  at each point of `Entry` (`Holding`).
* `LoadersSettle`, assuming that there is no URL loader: `LoaderSettled`. `Steady`
  adds that a text is being filled only while a thread is reading it.
* `NoAnswerIsLost`, assuming no `"early delete"`: while a client waits, its answer
  is there, or a thread has the loader, or the loader stands in a queue whose
  thread is awake or will be told (`AnswerOnItsWay`). `Patient` and `Apart` add
  that nobody gives up a loader unasked and that the thread of deletions has
  none. It is the safety under the liveness that the run checks (`LoadersServed`);
  TLC checked it by hand.

The configurations with a URL loader and with `"early delete"` (section 6) show
that the assumptions are needed.

Model-checked only: liveness, out of the prover's reach.

## 10. Findings

The four violated runs state what a header or comment says and the code does not
do; PROJECT.json quotes each text and the lines that contradict it. The traces
are TLC's, of the same modules as the passing runs. The configurations named in
the text as run by hand show further ones, and PROJECT.json lists each under the
hazards. A hazard whose behaviour every passing run excludes names no property, or
the one that a violated run shows broken; where only a part of it is excluded, its
note says which.

## 11. Not modelled

Everything sequential: editors, project files, configuration, macros, scripting,
compiler descriptions, logs and dialogs; the contributed plugins; the vendored
code. PROJECT.json has the reason for each component. These are conversions of
data or user interface driven one event at a time, about which a small instance
would say nothing a unit test does not; they are most of the repository's lines.

## 12. Contents

| File | Contents |
|---|---|
| `TaskPool.tla` | abstract pool |
| `ThreadPool.tla`, `MCThreadPool.tla`, `ThreadPool_*.cfg` | the pool, its instances |
| `ThreadPool_proofs.tla` | its theorems, the refinement among them |
| `CompilerGCC.tla`, `MCCompilerGCC.tla`, `CompilerGCC_*.cfg` | the build engine, its instances |
| `CompilerGCC_proofs.tla` | its theorems |
| `DebuggerDriver.tla`, `MCDebuggerDriver.tla`, `DebuggerDriver_*.cfg` | the debugger, its instances |
| `DebuggerDriver_proofs.tla` | its theorems |
| `FoldLemmas.tla` | what a loop keeps, written as a fold (used by the proofs about the debugger and the dependencies) |
| `FileManager.tla`, `MCFileManager.tla`, `FileManager_*.cfg`, `FileManager_proofs.tla` | loading and saving, its instances, its theorems |
| `ParserTasks.tla`, `MCParserTasks.tla`, `ParserTasks_*.cfg`, `ParserTasks_proofs.tla` | parser tasks, its instances, its theorems |
| `ProjectGraph.tla`, `ProjectGraph_proofs.tla` | abstract dependency graph, its theorem |
| `ProjectDeps.tla`, `MCProjectDeps.tla`, `ProjectDeps_*.cfg` | dependencies in the code, build order |
| `ProjectDeps_proofs.tla` | its theorems, the refinement among them |
| `PROJECT.json` | components, runs, mutants, map to the source, findings, hazards, theorems |

A definition preceded by a comment "mutant" is a deliberate error: substituted
for the definition after it, TLC must find a property violated.
