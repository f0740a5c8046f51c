----------------------------- MODULE ThreadPool -----------------------------
(***************************************************************************)
(* cbThreadPool (sdk/cbthreadpool.cpp, include/cbthreadpool.h): a FIFO of  *)
(* tasks served by worker threads that sleep on a bounded semaphore.       *)
(*                                                                         *)
(* Whatever runs under m_Mutex is one action.  Between two such calls a    *)
(* worker is at one of these points of cbWorkerThread::Entry:              *)
(*   unborn   not created yet                                              *)
(*   sem      in m_semaphore->Wait()                                       *)
(*   check    about to test Aborted(), not counted in m_workingThreads     *)
(*   enter    about to call WorkingThread()                                *)
(*   get      about to call GetNextTask()                                  *)
(*   publish  holds the popped element, m_pTask not assigned yet           *)
(*   test     m_pTask assigned and not NULL, about to test Aborted()       *)
(*   exec     inside m_pTask->Execute()                                    *)
(*   ended    m_pTask reset and element deleted, about to call TaskDone()  *)
(*   loop     at the while test, counted in m_workingThreads               *)
(*   rest     about to call WaitingThread() from the loop                  *)
(*   quit     about to call WaitingThread() after the loop                 *)
(*   dead     Entry() has returned                                         *)
(*   stray    called into a pool that has been destroyed                   *)
(***************************************************************************)
EXTENDS Integers, Sequences, FiniteSets

CONSTANTS Task,       \* the tasks that clients may hand over, each at most once
          NoTask,     \* NULL
          MaxSize,    \* largest number of concurrent threads asked for
          MaxResize   \* bound on the resizes that take effect

ASSUME PoolAssumption == /\ NoTask \notin Task
                         /\ MaxSize \in Nat \ {0}
                         /\ MaxResize \in Nat

Size == 1..MaxSize

(* Each resize creates a new generation of workers, with a semaphore of its *)
(* own: worker <<g, i>> is the i-th of generation g.                        *)
Generation == 0..MaxResize
Worker == Generation \X Size

VARIABLES
  m_batching,
  m_concurrentThreads,
  m_concurrentThreadsSchedule,
  m_tasksQueue,
  m_taskAdded,
  m_workingThreads,
  generation,    \* which generation m_threads and m_semaphore belong to
  sem,           \* count of each generation's semaphore
  life,          \* alive | gone (destroyed) | hung (~cbThreadPool never ends)
  client,        \* size a SetConcurrentThreads call is about to lock with, or 0
  pc,            \* where each worker is
  element,       \* each worker's local copy of the popped element
  m_pTask,       \* the task each worker has published to AbortTask
  m_abort,       \* each worker's abort flag
  taskAbort,     \* cbThreadedTask::m_abort of each task
  status,        \* history: what has become of each task
  notified       \* history: ALLDONE was posted since the last AddTask

poolVars   == <<m_batching, m_concurrentThreads, m_concurrentThreadsSchedule,
                m_tasksQueue, m_taskAdded, m_workingThreads, generation, sem>>
workerVars == <<pc, element, m_pTask, m_abort>>
taskVars   == <<taskAbort, status>>
vars       == <<poolVars, life, client, workerVars, taskVars, notified>>

Point  == {"unborn", "sem", "check", "enter", "get", "publish", "test", "exec",
           "ended", "loop", "rest", "quit", "dead", "stray"}
Status == {"new", "queued", "taken", "running", "ended", "removed", "dropped"}

(* The points between WorkingThread() and WaitingThread().                  *)
CountedPoint == {"get", "publish", "test", "exec", "ended", "loop", "rest", "quit"}

m_threads == {w \in Worker : w[1] = generation /\ w[2] <= m_concurrentThreads}
Counted   == {w \in Worker : pc[w] \in CountedPoint}
Running   == {t \in Task : status[t] = "running"}

(* Where cbThreadPool() leaves the pool: its first SetConcurrentThreads     *)
(* finds no working thread and creates n workers at once.                   *)
Init ==
  /\ m_batching = FALSE
  /\ m_concurrentThreads \in Size
  /\ m_concurrentThreadsSchedule = 0
  /\ m_tasksQueue = <<>>
  /\ m_taskAdded = FALSE
  /\ m_workingThreads = 0
  /\ generation = 0
  /\ sem = [g \in Generation |-> 0]
  /\ life = "alive"
  /\ client = 0
  /\ pc = [w \in Worker |-> IF w \in m_threads THEN "check" ELSE "unborn"]
  /\ element = [w \in Worker |-> NoTask]
  /\ m_pTask = [w \in Worker |-> NoTask]
  /\ m_abort = [w \in Worker |-> FALSE]
  /\ taskAbort = [t \in Task |-> FALSE]
  /\ status = [t \in Task |-> "new"]
  /\ notified = FALSE

-----------------------------------------------------------------------------
(* Helpers of the pool, called with m_Mutex held.                           *)

(* n posts: wxSemaphore drops a Post() at its maximum, m_concurrentThreads. *)
Posted(n) ==
  LET s == sem[generation] + n
  IN  [sem EXCEPT ![generation] = IF s <= m_concurrentThreads
                                  THEN s ELSE m_concurrentThreads]

AwakeNeeded(queue) == Posted(Len(queue))

BroadcastOnce == Posted(1) \* mutant: wakes one worker
Broadcast == Posted(m_concurrentThreads - m_workingThreads)

(* The tasks that AbortTask() on every worker of m_threads flags.           *)
Published == {m_pTask[w] : w \in m_threads} \ {NoTask}
FlagPublished ==
  taskAbort' = [t \in Task |-> taskAbort[t] \/ t \in Published]

(* _SetConcurrentThreads with no working thread: abort and wake the whole   *)
(* generation, forget it, and start a new one with a new semaphore.         *)
ReplaceThreads(n) ==
  /\ m_abort' = [w \in Worker |-> m_abort[w] \/ w \in m_threads]
  /\ sem' = [sem EXCEPT ![generation] = m_concurrentThreads]
  /\ generation' = generation + 1
  /\ m_concurrentThreads' = n
  /\ m_concurrentThreadsSchedule' = 0

Born(n) == {w \in Worker : w[1] = generation + 1 /\ w[2] <= n}

-----------------------------------------------------------------------------
(* Calls of the owner.                                                      *)

AddTask(t) ==
  /\ life = "alive" /\ status[t] = "new"
  /\ m_tasksQueue' = Append(m_tasksQueue, t)
  /\ m_taskAdded' = TRUE
  /\ sem' = IF ~m_batching /\ m_workingThreads < m_concurrentThreads
            THEN AwakeNeeded(m_tasksQueue') ELSE sem
  /\ status' = [status EXCEPT ![t] = "queued"]
  /\ notified' = FALSE
  /\ UNCHANGED <<m_batching, m_concurrentThreads, m_concurrentThreadsSchedule,
                 m_workingThreads, generation, life, client, workerVars, taskAbort>>

BatchBegin ==
  /\ life = "alive"
  /\ m_batching' = TRUE
  /\ UNCHANGED <<m_concurrentThreads, m_concurrentThreadsSchedule, m_tasksQueue,
                 m_taskAdded, m_workingThreads, generation, sem, life, client,
                 workerVars, taskVars, notified>>

BatchEnd ==
  /\ life = "alive"
  /\ m_batching' = FALSE
  /\ sem' = AwakeNeeded(m_tasksQueue)
  /\ UNCHANGED <<m_concurrentThreads, m_concurrentThreadsSchedule, m_tasksQueue,
                 m_taskAdded, m_workingThreads, generation, life, client,
                 workerVars, taskVars, notified>>

AbortAllTasks ==
  /\ life = "alive"
  /\ FlagPublished
  /\ status' = [t \in Task |-> IF status[t] = "queued" THEN "removed" ELSE status[t]]
  /\ m_tasksQueue' = <<>>
  /\ UNCHANGED <<m_batching, m_concurrentThreads, m_concurrentThreadsSchedule,
                 m_taskAdded, m_workingThreads, generation, sem, life, client,
                 workerVars, notified>>

(* Resizes that have taken effect, are scheduled, or are being asked for.   *)
ResizesSpent == generation + (IF m_concurrentThreadsSchedule # 0 THEN 1 ELSE 0)
                           + (IF client # 0 THEN 1 ELSE 0)

(* SetConcurrentThreads: the comparison comes before the lock.              *)
SetConcurrentThreads(n) ==
  /\ life = "alive" /\ client = 0
  /\ \/ /\ n = m_concurrentThreads
        /\ m_concurrentThreadsSchedule' = 0
        /\ UNCHANGED client
     \/ /\ n # m_concurrentThreads
        /\ ResizesSpent < MaxResize
        /\ client' = n
        /\ UNCHANGED m_concurrentThreadsSchedule
  /\ UNCHANGED <<m_batching, m_concurrentThreads, m_tasksQueue, m_taskAdded,
                 m_workingThreads, generation, sem, life, workerVars, taskVars,
                 notified>>

ApplyConcurrentThreads ==
  /\ life = "alive" /\ client # 0
  /\ client' = 0
  /\ \/ /\ m_workingThreads = 0
        /\ ReplaceThreads(client)
        /\ FlagPublished
        /\ pc' = [w \in Worker |-> IF w \in Born(client) THEN "check" ELSE pc[w]]
     \/ /\ m_workingThreads # 0
        /\ m_concurrentThreadsSchedule' = client
        /\ UNCHANGED <<m_concurrentThreads, generation, sem, m_abort, pc, taskAbort>>
  /\ UNCHANGED <<m_batching, m_tasksQueue, m_taskAdded, m_workingThreads, life,
                 element, m_pTask, status, notified>>

(* ~cbThreadPool.  Broadcast counts m_concurrentThreads - m_workingThreads  *)
(* in an unsigned type: negative, it posts without end, m_Mutex held.       *)
Destroy ==
  /\ life = "alive" /\ client = 0
  /\ m_abort' = [w \in Worker |-> m_abort[w] \/ w \in m_threads]
  /\ FlagPublished
  /\ \/ /\ m_workingThreads <= m_concurrentThreads
        /\ life' = "gone"
        /\ sem' = Broadcast
        /\ status' = [t \in Task |-> IF status[t] = "queued" THEN "removed"
                                                            ELSE status[t]]
        /\ m_tasksQueue' = <<>>
     \/ /\ m_workingThreads > m_concurrentThreads
        /\ life' = "hung"
        /\ sem' = [sem EXCEPT ![generation] = m_concurrentThreads]
        /\ UNCHANGED <<status, m_tasksQueue>>
  /\ UNCHANGED <<m_batching, m_concurrentThreads, m_concurrentThreadsSchedule,
                 m_taskAdded, m_workingThreads, generation, client, pc, element,
                 m_pTask, notified>>

-----------------------------------------------------------------------------
(* cbWorkerThread::Entry, one action per step.                              *)

Goto(w, from, to) == pc[w] = from /\ pc' = [pc EXCEPT ![w] = to]

SemWait(w) ==
  /\ Goto(w, "sem", "check")
  /\ sem[w[1]] > 0
  /\ sem' = [sem EXCEPT ![w[1]] = @ - 1]
  /\ UNCHANGED <<m_batching, m_concurrentThreads, m_concurrentThreadsSchedule,
                 m_tasksQueue, m_taskAdded, m_workingThreads, generation, life,
                 client, element, m_pTask, m_abort, taskVars, notified>>

CheckAborted(w) ==
  /\ Goto(w, "check", IF m_abort[w] THEN "dead" ELSE "enter")
  /\ UNCHANGED <<poolVars, life, client, element, m_pTask, m_abort, taskVars, notified>>

WorkingThread(w) ==
  /\ life = "alive"
  /\ Goto(w, "enter", "get")
  /\ m_workingThreads' = m_workingThreads + 1
  /\ UNCHANGED <<m_batching, m_concurrentThreads, m_concurrentThreadsSchedule,
                 m_tasksQueue, m_taskAdded, generation, sem, life, client,
                 element, m_pTask, m_abort, taskVars, notified>>

PopNothing(queue) == queue \* mutant: reads the front and leaves it there
PopFront(queue) == Tail(queue)

GetNextTask(w) ==
  /\ life = "alive"
  /\ Goto(w, "get", "publish")
  /\ \/ /\ m_tasksQueue = <<>>
        /\ element' = [element EXCEPT ![w] = NoTask]
        /\ UNCHANGED <<m_tasksQueue, status>>
     \/ /\ m_tasksQueue # <<>>
        /\ element' = [element EXCEPT ![w] = Head(m_tasksQueue)]
        /\ status' = [status EXCEPT ![Head(m_tasksQueue)] = "taken"]
        /\ m_tasksQueue' = PopFront(m_tasksQueue)
  /\ UNCHANGED <<m_batching, m_concurrentThreads, m_concurrentThreadsSchedule,
                 m_taskAdded, m_workingThreads, generation, sem, life, client,
                 m_pTask, m_abort, taskAbort, notified>>

PublishTask(w) ==
  /\ Goto(w, "publish", IF element[w] = NoTask THEN "loop" ELSE "test")
  /\ m_pTask' = [m_pTask EXCEPT ![w] = element[w]]
  /\ UNCHANGED <<poolVars, life, client, element, m_abort, taskVars, notified>>

MayExecuteAnyway(w) == TRUE \* mutant: the test before Execute() is missing
MayExecute(w) == ~m_abort[w]

(* An aborted worker leaves the loop with its task neither run nor deleted. *)
StartTask(w) ==
  /\ Goto(w, "test", IF MayExecute(w) THEN "exec" ELSE "quit")
  /\ status' = [status EXCEPT ![m_pTask[w]] = IF MayExecute(w) THEN "running"
                                                              ELSE "dropped"]
  /\ UNCHANGED <<poolVars, life, client, element, m_pTask, m_abort, taskAbort, notified>>

(* Execute() returns; m_pTask is reset and the element deleted.             *)
FinishTask(w) ==
  /\ Goto(w, "exec", "ended")
  /\ status' = [status EXCEPT ![m_pTask[w]] = "ended"]
  /\ m_pTask' = [m_pTask EXCEPT ![w] = NoTask]
  /\ UNCHANGED <<poolVars, life, client, element, m_abort, taskAbort, notified>>

(* Posts ENDED to the owner, without a lock.                                *)
TaskDone(w) ==
  /\ life # "gone"
  /\ Goto(w, "ended", "loop")
  /\ UNCHANGED <<poolVars, life, client, element, m_pTask, m_abort, taskVars, notified>>

LoopTest(w) ==
  /\ Goto(w, "loop", IF m_abort[w] THEN "quit" ELSE "rest")
  /\ UNCHANGED <<poolVars, life, client, element, m_pTask, m_abort, taskVars, notified>>

LastOutBusy == m_tasksQueue = <<>> \* mutant: other workers may be working
LastOutQueued == m_workingThreads - 1 <= 0 \* mutant: tasks may be queued
LastOutNever == m_workingThreads - 1 < 0 /\ m_tasksQueue = <<>> \* mutant: off by one
LastOut == m_workingThreads - 1 <= 0 /\ m_tasksQueue = <<>>

(* WaitingThread, ending at point `after' when it returns true and at       *)
(* "dead" when it returns false.                                            *)
WaitingThread(w, from, after) ==
  /\ life = "alive" /\ pc[w] = from
  /\ m_workingThreads' = m_workingThreads - 1
  /\ \/ /\ LastOut /\ m_concurrentThreadsSchedule # 0
        /\ ReplaceThreads(m_concurrentThreadsSchedule)
        /\ FlagPublished
        /\ pc' = [v \in Worker |->
                    IF v = w THEN "dead"
                    ELSE IF v \in Born(m_concurrentThreadsSchedule) THEN "check"
                    ELSE pc[v]]
        /\ notified' = (notified \/ m_taskAdded)
     \/ /\ LastOut /\ m_concurrentThreadsSchedule = 0
        /\ pc' = [pc EXCEPT ![w] = after]
        /\ notified' = (notified \/ m_taskAdded)
        /\ UNCHANGED <<m_concurrentThreads, m_concurrentThreadsSchedule,
                       generation, sem, m_abort, taskAbort>>
     \/ /\ ~LastOut
        /\ pc' = [pc EXCEPT ![w] = after]
        /\ sem' = Posted(1)
        /\ UNCHANGED <<m_concurrentThreads, m_concurrentThreadsSchedule,
                       generation, m_abort, taskAbort, notified>>
  /\ UNCHANGED <<m_batching, m_tasksQueue, m_taskAdded, life, client, element,
                 m_pTask, status>>

RestThenQuit(w) == WaitingThread(w, "rest", "quit") \* mutant: the flag stays set
Rest(w) == WaitingThread(w, "rest", "sem")
Quit(w) == WaitingThread(w, "quit", "dead")

(* A member call on the destroyed pool: undefined, the worker is given up.  *)
StrayCall(w) ==
  /\ life = "gone"
  /\ pc[w] \in {"enter", "get", "ended", "rest", "quit"}
  /\ pc' = [pc EXCEPT ![w] = "stray"]
  /\ UNCHANGED <<poolVars, life, client, element, m_pTask, m_abort, taskVars, notified>>

-----------------------------------------------------------------------------
Step(w) ==
  \/ SemWait(w) \/ CheckAborted(w) \/ WorkingThread(w) \/ GetNextTask(w)
  \/ PublishTask(w) \/ StartTask(w) \/ FinishTask(w) \/ TaskDone(w)
  \/ LoopTest(w) \/ Rest(w) \/ Quit(w) \/ StrayCall(w)

Call ==
  \/ \E t \in Task : AddTask(t)
  \/ BatchBegin \/ BatchEnd \/ AbortAllTasks
  \/ \E n \in Size : SetConcurrentThreads(n)
  \/ ApplyConcurrentThreads
  \/ Destroy

Next == Call \/ \E w \in Worker : Step(w)

Spec == Init /\ [][Next]_vars

(* Threads that can run are scheduled, and Execute() returns.  The owner's  *)
(* calls need not happen, but one that has begun ends.                      *)
Fairness == /\ \A w \in Worker : WF_vars(Step(w))
            /\ WF_vars(ApplyConcurrentThreads)

FairSpec == Spec /\ Fairness

-----------------------------------------------------------------------------
(* Properties.                                                              *)

(* Every variable keeps its type; the queue holds tasks, the semaphore of   *)
(* no generation goes below zero, and no worker index leaves the bounds.    *)
TypeOK ==
  /\ m_batching \in BOOLEAN
  /\ m_concurrentThreads \in Size
  /\ m_concurrentThreadsSchedule \in Size \cup {0}
  /\ m_tasksQueue \in Seq(Task)
  /\ m_taskAdded \in BOOLEAN
  /\ m_workingThreads \in Nat
  /\ generation \in Generation
  /\ sem \in [Generation -> Nat]
  /\ life \in {"alive", "gone", "hung"}
  /\ client \in Size \cup {0}
  /\ pc \in [Worker -> Point]
  /\ element \in [Worker -> Task \cup {NoTask}]
  /\ m_pTask \in [Worker -> Task \cup {NoTask}]
  /\ m_abort \in [Worker -> BOOLEAN]
  /\ taskAbort \in [Task -> BOOLEAN]
  /\ status \in [Task -> Status]
  /\ notified \in BOOLEAN

(* The pool keeps the promises of TaskPool: tasks are taken in the order in *)
(* which they were added, each executes at most once and never more at once *)
(* than the limit, and the limit changes only while none executes.          *)
Abstract == INSTANCE TaskPool WITH
              queue   <- m_tasksQueue,
              fresh   <- {t \in Task : status[t] = "new"},
              taken   <- {t \in Task : status[t] = "taken"},
              running <- Running,
              limit   <- m_concurrentThreads

RefinesTaskPool == Abstract!Spec

(* m_workingThreads is the number of workers between WorkingThread() and    *)
(* WaitingThread(), across aborts and replaced generations.                 *)
CounterExact == life = "alive" => m_workingThreads = Cardinality(Counted)

(* A task is never in two places: a queued task stands in the queue once    *)
(* and no worker holds it, and a task taken or running has one holder.      *)
OnePlace ==
  /\ \A i, j \in DOMAIN m_tasksQueue :
       m_tasksQueue[i] = m_tasksQueue[j] => i = j
  /\ \A i \in DOMAIN m_tasksQueue : status[m_tasksQueue[i]] = "queued"
  /\ \A v, w \in Worker :
       /\ pc[v] \in {"publish", "test", "exec"} /\ element[v] # NoTask
       /\ pc[w] \in {"publish", "test", "exec"} /\ element[w] = element[v]
       => v = w

(* However often the pool is resized, never more tasks execute at once than *)
(* m_concurrentThreads: SetConcurrentThreads waits for running tasks, and   *)
(* what an old worker pops after it was replaced it does not execute.       *)
RunningWithinLimit == Cardinality(Running) <= m_concurrentThreads

(* Done() - m_workingThreads = 0 - means no task is taken or executing.     *)
DoneMeansNoneRunning ==
  life = "alive" /\ m_workingThreads = 0 =>
    \A t \in Task : status[t] \notin {"taken", "running"}

(* No lost wake-up: outside a batch, while tasks are queued some worker of  *)
(* the pool is awake, has a token to wake it, or is about to post one.      *)
NoLostWakeup ==
  life = "alive" /\ ~m_batching /\ m_tasksQueue # <<>> =>
    \/ Counted # {}
    \/ sem[generation] > 0
    \/ \E w \in m_threads : pc[w] \in {"check", "enter"}

(* ALLDONE is first posted only when the queue is empty and no task is      *)
(* taken or executing.                                                      *)
AllDoneIsQuiet ==
  [][~notified /\ notified' =>
       \A t \in Task : status'[t] \notin {"queued", "taken", "running"}]_vars

(* ~cbThreadPool posts enough tokens for every worker asleep, as long as no *)
(* worker of an older generation was being counted in m_workingThreads.     *)
SleepersAreWoken ==
  life = "gone" /\ (\A w \in Worker : w[1] < generation =>
                       pc[w] \notin CountedPoint \cup {"stray"})
    => Cardinality({w \in m_threads : pc[w] = "sem"}) <= sem[generation]

(* Outside a batch every queued task leaves the queue, unless the owner     *)
(* begins a batch or destroys the pool.                                     *)
QueuedIsServed ==
  \A t \in Task : status[t] = "queued" ~>
                    (status[t] # "queued" \/ m_batching \/ life # "alive")

(* A pool of one thread - the size the only client in the program uses -    *)
(* posts ALLDONE once a task has executed.                                  *)
AllDoneIsPosted ==
  \A t \in Task : status[t] = "running" /\ m_concurrentThreads = 1 ~>
                    (notified \/ m_concurrentThreads # 1 \/ life # "alive")

(* A pool of one thread applies, or a later call cancels, a scheduled size. *)
ResizeFromOneTakesEffect ==
  m_concurrentThreadsSchedule # 0 /\ m_concurrentThreads = 1 ~>
    (m_concurrentThreadsSchedule = 0 \/ life # "alive")

(* What cbthreadpool.h says of SetConcurrentThreads for every size: a size  *)
(* asked for while tasks run is delayed until they are all done, not longer.*)
ResizeTakesEffect ==
  m_concurrentThreadsSchedule # 0 ~>
    (m_concurrentThreadsSchedule = 0 \/ m_tasksQueue # <<>> \/ life # "alive")

(* What cbthreadpool.h says of AbortAllTasks: it aborts the tasks that have *)
(* begun and removes the others.                                            *)
AbortReachesAll ==
  [][AbortAllTasks => \A t \in Task :
       status[t] \in {"queued", "taken", "running"}
         => status'[t] = "removed" \/ taskAbort'[t]]_vars

(* What cbthreadpool.h says of autodelete: an added task ends by finishing  *)
(* or by being aborted; none is popped and then forgotten.                  *)
NoTaskDropped == life = "alive" => \A t \in Task : status[t] # "dropped"
=============================================================================
