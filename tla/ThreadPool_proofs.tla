-------------------------- MODULE ThreadPool_proofs --------------------------
(***************************************************************************)
(* Proofs about ThreadPool, for every set of tasks and all bounds.         *)
(*                                                                         *)
(* Inv is inductive.  Its core is WorkersFit: a worker that was created    *)
(* and has not been told to abort belongs to the current generation.  The  *)
(* pool replaces a generation only when m_workingThreads is 0, which by    *)
(* CounterExact means that no worker stands between WorkingThread() and    *)
(* WaitingThread(); so a worker that executes is never of an old           *)
(* generation, and the running tasks number at most m_concurrentThreads.   *)
(*                                                                         *)
(* The second half shows that ThreadPool implements TaskPool.  PlaceInv    *)
(* says where the tasks are: a queued task stands once in the queue, a     *)
(* popped one is held by one worker.  It is inductive beside Inv; with it  *)
(* a pop takes the first queued task, and Execute() is called on a taken   *)
(* task that does not execute already.  TakenHeld and QueuedStands are the *)
(* converse: no task is nowhere.  Each taken task has a worker, each       *)
(* queued one stands in the queue: this is what Done() and ALLDONE tell    *)
(* the owner.                                                              *)
(***************************************************************************)
EXTENDS ThreadPool, FiniteSetTheorems, TLAPS

WorkersFit ==
  \A w \in Worker : pc[w] # "unborn" /\ ~m_abort[w] => w \in m_threads

ExecutingFit == \A w \in Worker : pc[w] = "exec" => w \in m_threads

RunningHeld ==
  \A t \in Task : status[t] = "running" =>
    \E w \in Worker : pc[w] = "exec" /\ m_pTask[w] = t

HoldersHold == \A w \in Worker : pc[w] \in {"test", "exec"} => m_pTask[w] \in Task

ResizeBudget == ResizesSpent <= MaxResize

Inv == /\ TypeOK
       /\ CounterExact
       /\ WorkersFit
       /\ ExecutingFit
       /\ RunningHeld
       /\ HoldersHold
       /\ ResizeBudget

-----------------------------------------------------------------------------
(* The workers are finitely many, so the counted ones can be counted.       *)
LEMMA WorkerFinite == IsFiniteSet(Worker)
<1>1. IsFiniteSet(Generation) /\ IsFiniteSet(Size)
  BY FS_Interval, PoolAssumption DEF Generation, Size
<1> QED
  BY <1>1, FS_Product DEF Worker

LEMMA CountedFinite ==
  /\ IsFiniteSet(Counted)
  /\ Cardinality(Counted) \in Nat
  /\ Cardinality(Counted) = 0 <=> Counted = {}
<1>1. IsFiniteSet(Counted)
  BY WorkerFinite, FS_Subset DEF Counted
<1> QED
  BY <1>1, FS_CardinalityType, FS_EmptySet

(* A worker that comes in is one more.                                      *)
LEMMA CountIn ==
  ASSUME TypeOK, NEW w \in Worker, NEW p \in CountedPoint,
         pc[w] \notin CountedPoint, pc' = [pc EXCEPT ![w] = p]
  PROVE  Cardinality(Counted') = Cardinality(Counted) + 1
<1>1. Counted' = Counted \cup {w} /\ w \notin Counted
  BY DEF Counted, TypeOK
<1> QED
  BY <1>1, CountedFinite, FS_AddElement

(* A worker that leaves is one less.                                        *)
LEMMA CountOut ==
  ASSUME TypeOK, NEW w \in Worker, NEW p \in Point \ CountedPoint,
         pc[w] \in CountedPoint, pc' = [pc EXCEPT ![w] = p]
  PROVE  /\ Cardinality(Counted') = Cardinality(Counted) - 1
         /\ Cardinality(Counted) >= 1
<1>1. Counted' = Counted \ {w} /\ w \in Counted
  BY DEF Counted, TypeOK
<1>2. Cardinality(Counted \ {w}) = Cardinality(Counted) - 1
  BY <1>1, CountedFinite, FS_RemoveElement
<1>3. Cardinality(Counted) # 0
  BY <1>1, CountedFinite
<1> QED
  BY <1>1, <1>2, <1>3, CountedFinite

(* Moving between two counted, or two uncounted, points changes nothing.    *)
LEMMA CountSame ==
  ASSUME TypeOK, NEW w \in Worker, NEW p \in Point,
         pc[w] \in CountedPoint <=> p \in CountedPoint,
         pc' = [pc EXCEPT ![w] = p]
  PROVE  Counted' = Counted
BY DEF Counted, TypeOK

-----------------------------------------------------------------------------
LEMMA InitInv == Init => Inv
<1> SUFFICES ASSUME Init PROVE Inv
  OBVIOUS
<1> USE PoolAssumption DEF Init
<1>1. TypeOK
  <2>1. 0 \in Generation /\ m_concurrentThreads \in Size
    BY DEF Generation, Size
  <2>2. pc \in [Worker -> Point] /\ status \in [Task -> Status]
    BY DEF Point, Status
  <2> QED
    BY <2>1, <2>2 DEF TypeOK
<1>2. Counted = {}
  BY DEF Counted, CountedPoint
<1>3. CounterExact
  BY <1>2, FS_EmptySet DEF CounterExact
<1>4. WorkersFit /\ ExecutingFit /\ RunningHeld /\ HoldersHold
  BY DEF WorkersFit, ExecutingFit, RunningHeld, HoldersHold
<1>5. ResizeBudget
  BY DEF ResizeBudget, ResizesSpent
<1> QED
  BY <1>1, <1>3, <1>4, <1>5 DEF Inv

-----------------------------------------------------------------------------
(* One lemma per action that calls the pool or moves a worker.              *)

LEMMA PostedType ==
  ASSUME TypeOK, NEW n \in Nat
  PROVE  Posted(n) \in [Generation -> Nat]
BY DEF TypeOK, Posted, Size

(* Nothing of the invariant but its types reads the variables these change. *)
LEMMA OwnerStep ==
  ASSUME Inv, BatchBegin \/ BatchEnd \/ AbortAllTasks \/ (\E t \in Task : AddTask(t))
  PROVE  Inv'
<1> USE DEF Inv
<1>1. TypeOK'
  <2>1. CASE BatchBegin
    BY <2>1 DEF BatchBegin, TypeOK, workerVars, taskVars
  <2>2. CASE BatchEnd
    <3>1. sem' \in [Generation -> Nat]
      BY <2>2, PostedType DEF BatchEnd, AwakeNeeded, TypeOK
    <3> QED
      BY <2>2, <3>1 DEF BatchEnd, TypeOK, workerVars, taskVars
  <2>3. CASE AbortAllTasks
    BY <2>3 DEF AbortAllTasks, FlagPublished, TypeOK, Status, workerVars
  <2>4. CASE \E t \in Task : AddTask(t)
    <3>1. PICK t \in Task : AddTask(t)
      BY <2>4
    <3>2. m_tasksQueue' \in Seq(Task)
      BY <3>1 DEF AddTask, TypeOK
    <3>3. sem' \in [Generation -> Nat]
      <4>1. Len(m_tasksQueue') \in Nat
        BY <3>2
      <4> QED
        BY <3>1, <4>1, PostedType DEF AddTask, AwakeNeeded, TypeOK
    <3> QED
      BY <3>1, <3>2, <3>3 DEF AddTask, TypeOK, Status, workerVars
  <2> QED
    BY <2>1, <2>2, <2>3, <2>4
<1>2. /\ UNCHANGED <<pc, m_abort, m_pTask, generation, m_concurrentThreads,
                    m_concurrentThreadsSchedule, m_workingThreads, life, client>>
      /\ \A t \in Task : status'[t] = "running" => status[t] = "running"
  <2>1. CASE BatchBegin
    BY <2>1 DEF BatchBegin, workerVars, taskVars
  <2>2. CASE BatchEnd
    BY <2>2 DEF BatchEnd, workerVars, taskVars
  <2>3. CASE AbortAllTasks
    BY <2>3 DEF AbortAllTasks, workerVars
  <2>4. CASE \E t \in Task : AddTask(t)
    BY <2>4 DEF AddTask, workerVars, TypeOK
  <2> QED
    BY <2>1, <2>2, <2>3, <2>4
<1>3. m_threads' = m_threads /\ Counted' = Counted
  BY <1>2 DEF m_threads, Counted
<1>4. CounterExact'
  BY <1>2, <1>3 DEF CounterExact
<1>5. WorkersFit' /\ ExecutingFit' /\ HoldersHold' /\ RunningHeld'
  BY <1>2, <1>3 DEF WorkersFit, ExecutingFit, HoldersHold, RunningHeld
<1>6. ResizeBudget'
  BY <1>2 DEF ResizeBudget, ResizesSpent
<1> QED
  BY <1>1, <1>4, <1>5, <1>6

LEMMA AskStep ==
  ASSUME Inv, NEW n \in Size, SetConcurrentThreads(n)
  PROVE  Inv'
<1> USE DEF Inv
<1>1. TypeOK'
  BY DEF SetConcurrentThreads, TypeOK, workerVars, taskVars
<1>2. m_threads' = m_threads /\ Counted' = Counted
  BY DEF m_threads, Counted, SetConcurrentThreads, workerVars
<1>3. CounterExact'
  BY <1>2 DEF CounterExact, SetConcurrentThreads
<1>4. WorkersFit' /\ ExecutingFit' /\ HoldersHold' /\ RunningHeld'
  BY <1>2 DEF WorkersFit, ExecutingFit, HoldersHold, RunningHeld,
              SetConcurrentThreads, workerVars, taskVars
<1>5. ResizeBudget'
  BY PoolAssumption
     DEF ResizeBudget, ResizesSpent, SetConcurrentThreads, TypeOK, Generation, Size
<1> QED
  BY <1>1, <1>3, <1>4, <1>5

(* Replacing an idle generation aborts every worker that was not aborted.   *)
LEMMA ReplaceFit ==
  ASSUME Inv, NEW n \in Size, ReplaceThreads(n), generation + 1 <= MaxResize,
         \A w \in Worker : pc'[w] # "unborn" => pc[w] # "unborn" \/ w \in Born(n),
         \A w \in Worker : pc'[w] # "exec"
  PROVE  /\ WorkersFit' /\ ExecutingFit'
         /\ generation' \in Generation
         /\ sem' \in [Generation -> Nat]
         /\ m_abort' \in [Worker -> BOOLEAN]
<1>1. m_threads' = Born(n)
  BY DEF m_threads, Born, ReplaceThreads
<1>2. WorkersFit'
  BY <1>1 DEF Inv, WorkersFit, ReplaceThreads, TypeOK
<1>3. ExecutingFit'
  BY DEF ExecutingFit
<1>4. /\ generation' \in Generation
      /\ sem' \in [Generation -> Nat]
      /\ m_abort' \in [Worker -> BOOLEAN]
  BY PoolAssumption DEF ReplaceThreads, Inv, TypeOK, Generation, Size
<1> QED
  BY <1>2, <1>3, <1>4

LEMMA ApplyStep ==
  ASSUME Inv, ApplyConcurrentThreads
  PROVE  Inv'
<1> USE DEF Inv
<1>0. client \in Size /\ life = "alive"
  BY DEF ApplyConcurrentThreads, TypeOK
<1>1. CASE m_workingThreads = 0
  <2>1. /\ ReplaceThreads(client) /\ FlagPublished
        /\ pc' = [w \in Worker |-> IF w \in Born(client) THEN "check" ELSE pc[w]]
        /\ client' = 0
        /\ UNCHANGED <<m_batching, m_tasksQueue, m_taskAdded, m_workingThreads,
                        life, element, m_pTask, status, notified>>
    BY <1>1 DEF ApplyConcurrentThreads
  <2>2. Counted = {}
    BY <1>0, <1>1, CountedFinite DEF CounterExact
  <2>3. Counted' = {}
    BY <2>1, <2>2 DEF Counted, CountedPoint
  <2>4. CounterExact'
    BY <1>1, <2>1, <2>3, FS_EmptySet DEF CounterExact
  <2>5. generation + 1 <= MaxResize
    BY <1>0, PoolAssumption DEF ResizeBudget, ResizesSpent, TypeOK, Generation, Size
  <2>6. \A w \in Worker : pc[w] # "exec"
    BY <2>2 DEF Counted, CountedPoint
  <2>7. /\ \A w \in Worker : pc'[w] # "exec"
        /\ \A w \in Worker : pc'[w] # "unborn" => pc[w] # "unborn" \/ w \in Born(client)
    BY <2>1, <2>6
  <2>8. /\ WorkersFit' /\ ExecutingFit'
        /\ generation' \in Generation
        /\ sem' \in [Generation -> Nat]
        /\ m_abort' \in [Worker -> BOOLEAN]
    BY <1>0, <2>1, <2>5, <2>7, ReplaceFit
  <2>9. TypeOK'
    <3>1. pc' \in [Worker -> Point]
      BY <2>1 DEF TypeOK, Point
    <3>2. taskAbort' \in [Task -> BOOLEAN]
      BY <2>1 DEF TypeOK, FlagPublished
    <3>3. m_concurrentThreads' \in Size /\ m_concurrentThreadsSchedule' = 0
      BY <1>0, <2>1 DEF ReplaceThreads
    <3> QED
      BY <2>1, <2>8, <3>1, <3>2, <3>3 DEF TypeOK
  <2>10. RunningHeld' /\ HoldersHold'
    BY <2>1, <2>6 DEF RunningHeld, HoldersHold
  <2>11. ResizeBudget'
    BY <2>1, <2>5, <1>0 DEF ResizeBudget, ResizesSpent, ReplaceThreads, TypeOK, Generation
  <2> QED
    BY <2>4, <2>8, <2>9, <2>10, <2>11
<1>2. CASE m_workingThreads # 0
  <2>1. /\ client' = 0 /\ m_concurrentThreadsSchedule' = client
        /\ UNCHANGED <<m_batching, m_tasksQueue, m_taskAdded, m_workingThreads,
                        life, element, m_pTask, status, notified, m_concurrentThreads,
                        generation, sem, m_abort, pc, taskAbort>>
    BY <1>2 DEF ApplyConcurrentThreads
  <2>2. m_threads' = m_threads /\ Counted' = Counted
    BY <2>1 DEF m_threads, Counted
  <2>3. TypeOK'
    BY <1>0, <2>1 DEF TypeOK
  <2>4. CounterExact' /\ WorkersFit' /\ ExecutingFit' /\ HoldersHold' /\ RunningHeld'
    BY <2>1, <2>2 DEF CounterExact, WorkersFit, ExecutingFit, HoldersHold, RunningHeld
  <2>5. ResizeBudget'
    BY <1>0, <2>1, PoolAssumption
       DEF ResizeBudget, ResizesSpent, TypeOK, Generation, Size
  <2> QED
    BY <2>3, <2>4, <2>5
<1> QED
  BY <1>1, <1>2

LEMMA DestroyStep ==
  ASSUME Inv, Destroy
  PROVE  Inv'
<1> USE DEF Inv
<1>1. sem' \in [Generation -> Nat]
  <2>1. CASE m_workingThreads <= m_concurrentThreads
    <3>1. m_concurrentThreads - m_workingThreads \in Nat
      BY <2>1 DEF TypeOK, Size
    <3> QED
      BY <2>1, <3>1, PostedType DEF Destroy, Broadcast, TypeOK, Size
  <2>2. CASE m_workingThreads > m_concurrentThreads
    BY <2>2 DEF Destroy, TypeOK, Size
  <2> QED
    BY <2>1, <2>2 DEF TypeOK, Size
<1>2. TypeOK'
  <2>1. /\ m_tasksQueue' \in Seq(Task) /\ life' \in {"alive", "gone", "hung"}
        /\ status' \in [Task -> Status]
    <3>1. life' \in {"alive", "gone", "hung"}
      BY DEF Destroy
    <3>2. m_tasksQueue' = <<>> \/ m_tasksQueue' = m_tasksQueue
      BY DEF Destroy
    <3>3. "removed" \in Status
      BY DEF Status
    <3>4. \/ status' = [t \in Task |-> IF status[t] = "queued" THEN "removed"
                                                              ELSE status[t]]
          \/ status' = status
      BY DEF Destroy
    <3>5. status' \in [Task -> Status]
      BY <3>3, <3>4 DEF TypeOK
    <3>6. m_tasksQueue \in Seq(Task) /\ <<>> \in Seq(Task)
      BY DEF TypeOK
    <3> QED
      BY <3>1, <3>2, <3>5, <3>6
  <2>2. m_abort' \in [Worker -> BOOLEAN] /\ taskAbort' \in [Task -> BOOLEAN]
    BY DEF Destroy, FlagPublished, TypeOK
  <2>3. UNCHANGED <<m_batching, m_concurrentThreads, m_concurrentThreadsSchedule,
                    m_taskAdded, m_workingThreads, generation, client, pc, element,
                    m_pTask, notified>>
    BY DEF Destroy
  <2> QED
    BY <1>1, <2>1, <2>2, <2>3 DEF TypeOK
<1>3. CounterExact' /\ ResizeBudget'
  BY DEF CounterExact, ResizeBudget, ResizesSpent, Destroy
<1>4. /\ UNCHANGED <<pc, m_pTask, m_threads>>
      /\ \A t \in Task : status'[t] = "running" => status[t] = "running"
      /\ \A w \in Worker : ~m_abort'[w] => ~m_abort[w]
  BY DEF Destroy, m_threads, TypeOK
<1>5. WorkersFit' /\ ExecutingFit' /\ RunningHeld' /\ HoldersHold'
  BY <1>4 DEF WorkersFit, ExecutingFit, RunningHeld, HoldersHold
<1> QED
  BY <1>2, <1>3, <1>5

-----------------------------------------------------------------------------
(* A worker that moves within its generation keeps the generations apart.   *)
LEMMA MoveFit ==
  ASSUME Inv, NEW w \in Worker, NEW p \in Point, pc[w] # "unborn",
         pc' = [pc EXCEPT ![w] = p], p = "exec" => w \in m_threads,
         UNCHANGED <<m_abort, generation, m_concurrentThreads>>
  PROVE  WorkersFit' /\ ExecutingFit'
<1>1. m_threads' = m_threads
  BY DEF m_threads
<1> QED
  BY <1>1 DEF Inv, TypeOK, WorkersFit, ExecutingFit

(* The steps that neither enter nor leave the counted points, nor touch a   *)
(* task: waking, the tests of Aborted(), TaskDone, and publishing.          *)
LEMMA LocalStep ==
  ASSUME Inv, NEW w \in Worker,
         SemWait(w) \/ CheckAborted(w) \/ TaskDone(w) \/ LoopTest(w) \/ PublishTask(w)
  PROVE  Inv'
<1> USE DEF Inv
<1>1. PICK p \in Point :
        /\ pc' = [pc EXCEPT ![w] = p]
        /\ pc[w] \in CountedPoint <=> p \in CountedPoint
        /\ pc[w] \notin {"unborn", "test", "exec"} /\ p # "exec"
        /\ p = "test" => m_pTask'[w] \in Task
  BY DEF SemWait, CheckAborted, TaskDone, LoopTest, PublishTask, Goto, Point,
         CountedPoint, TypeOK
<1>2. /\ UNCHANGED <<m_batching, m_concurrentThreads, m_concurrentThreadsSchedule,
                    m_tasksQueue, m_taskAdded, m_workingThreads, generation, life,
                    client, element, m_abort, taskAbort, status, notified>>
      /\ sem' \in [Generation -> Nat]
      /\ m_pTask' \in [Worker -> Task \cup {NoTask}]
      /\ \A v \in Worker : v # w => m_pTask'[v] = m_pTask[v]
  <2>1. CASE SemWait(w)
    BY <2>1 DEF SemWait, taskVars, TypeOK, Worker
  <2>2. CASE CheckAborted(w) \/ TaskDone(w) \/ LoopTest(w)
    BY <2>2 DEF CheckAborted, TaskDone, LoopTest, poolVars, taskVars, TypeOK
  <2>3. CASE PublishTask(w)
    BY <2>3 DEF PublishTask, poolVars, taskVars, TypeOK
  <2> QED
    BY <2>1, <2>2, <2>3
<1>3. TypeOK'
  BY <1>1, <1>2 DEF TypeOK
<1>4. CounterExact'
  BY <1>1, <1>2, CountSame DEF CounterExact
<1>5. WorkersFit' /\ ExecutingFit'
  BY <1>1, <1>2, MoveFit
<1>6. RunningHeld'
  <2>1. \A v \in Worker : pc[v] = "exec" => pc'[v] = "exec" /\ m_pTask'[v] = m_pTask[v]
    BY <1>1, <1>2 DEF TypeOK
  <2> QED
    BY <1>2, <2>1 DEF RunningHeld
<1>7. HoldersHold'
  BY <1>1, <1>2 DEF HoldersHold, TypeOK
<1>8. ResizeBudget'
  BY <1>2 DEF ResizeBudget, ResizesSpent
<1> QED
  BY <1>3, <1>4, <1>5, <1>6, <1>7, <1>8

LEMMA StrayStep ==
  ASSUME Inv, NEW w \in Worker, StrayCall(w)
  PROVE  Inv'
<1> USE DEF Inv
<1>1. /\ life = "gone" /\ pc[w] \notin {"unborn", "test", "exec"}
      /\ pc' = [pc EXCEPT ![w] = "stray"] /\ "stray" \in Point
      /\ UNCHANGED <<m_batching, m_concurrentThreads, m_concurrentThreadsSchedule,
                    m_tasksQueue, m_taskAdded, m_workingThreads, generation, sem, life,
                    client, element, m_pTask, m_abort, taskAbort, status, notified>>
  BY DEF StrayCall, poolVars, taskVars, Point
<1>2. TypeOK'
  BY <1>1 DEF TypeOK
<1>3. CounterExact'
  BY <1>1 DEF CounterExact
<1>4. WorkersFit' /\ ExecutingFit'
  BY <1>1, MoveFit
<1>5. RunningHeld' /\ HoldersHold'
  BY <1>1 DEF RunningHeld, HoldersHold, TypeOK
<1>6. ResizeBudget'
  BY <1>1 DEF ResizeBudget, ResizesSpent
<1> QED
  BY <1>2, <1>3, <1>4, <1>5, <1>6

LEMMA WorkingStep ==
  ASSUME Inv, NEW w \in Worker, WorkingThread(w)
  PROVE  Inv'
<1> USE DEF Inv
<1>1. /\ life = "alive" /\ pc[w] = "enter"
      /\ pc' = [pc EXCEPT ![w] = "get"] /\ "get" \in Point /\ "get" \in CountedPoint
      /\ pc[w] \notin CountedPoint
      /\ m_workingThreads' = m_workingThreads + 1
      /\ UNCHANGED <<m_batching, m_concurrentThreads, m_concurrentThreadsSchedule,
                    m_tasksQueue, m_taskAdded, generation, sem, life, client,
                    element, m_pTask, m_abort, taskAbort, status, notified>>
  BY DEF WorkingThread, Goto, taskVars, Point, CountedPoint
<1>2. TypeOK'
  BY <1>1 DEF TypeOK
<1>3. CounterExact'
  BY <1>1, CountIn DEF CounterExact
<1>4. WorkersFit' /\ ExecutingFit'
  BY <1>1, MoveFit
<1>5. RunningHeld' /\ HoldersHold'
  BY <1>1 DEF RunningHeld, HoldersHold, TypeOK
<1>6. ResizeBudget'
  BY <1>1 DEF ResizeBudget, ResizesSpent
<1> QED
  BY <1>2, <1>3, <1>4, <1>5, <1>6

LEMMA GetStep ==
  ASSUME Inv, NEW w \in Worker, GetNextTask(w)
  PROVE  Inv'
<1> USE DEF Inv
<1>1. /\ pc[w] = "get"
      /\ pc' = [pc EXCEPT ![w] = "publish"] /\ "publish" \in Point
      /\ pc[w] \in CountedPoint /\ "publish" \in CountedPoint
      /\ UNCHANGED <<m_batching, m_concurrentThreads, m_concurrentThreadsSchedule,
                    m_taskAdded, m_workingThreads, generation, sem, life, client,
                    m_pTask, m_abort, taskAbort, notified>>
  BY DEF GetNextTask, Goto, Point, CountedPoint
<1>2. /\ m_tasksQueue' \in Seq(Task)
      /\ element' \in [Worker -> Task \cup {NoTask}]
      /\ status' \in [Task -> Status]
      /\ \A t \in Task : status'[t] = "running" => status[t] = "running"
  <2>1. CASE m_tasksQueue = <<>>
    BY <2>1 DEF GetNextTask, TypeOK
  <2>2. CASE m_tasksQueue # <<>>
    <3>1. Head(m_tasksQueue) \in Task /\ Tail(m_tasksQueue) \in Seq(Task)
      BY <2>2 DEF TypeOK
    <3> QED
      BY <2>2, <3>1 DEF GetNextTask, PopFront, TypeOK, Status
  <2> QED
    BY <2>1, <2>2
<1>3. TypeOK'
  BY <1>1, <1>2 DEF TypeOK
<1>4. CounterExact'
  BY <1>1, CountSame DEF CounterExact
<1>5. WorkersFit' /\ ExecutingFit'
  BY <1>1, MoveFit
<1>6. RunningHeld' /\ HoldersHold'
  BY <1>1, <1>2 DEF RunningHeld, HoldersHold, TypeOK
<1>7. ResizeBudget'
  BY <1>1 DEF ResizeBudget, ResizesSpent
<1> QED
  BY <1>3, <1>4, <1>5, <1>6, <1>7

(* Only here does a worker begin to execute, and only unaborted: by         *)
(* WorkersFit it is one of m_threads.                                       *)
LEMMA StartStep ==
  ASSUME Inv, NEW w \in Worker, StartTask(w)
  PROVE  Inv'
<1> USE DEF Inv
<1>1. PICK p \in {"exec", "quit"} :
        /\ pc[w] = "test" /\ pc' = [pc EXCEPT ![w] = p]
        /\ p = "exec" => ~m_abort[w]
        /\ status' = [status EXCEPT ![m_pTask[w]] =
                        IF p = "exec" THEN "running" ELSE "dropped"]
        /\ UNCHANGED <<m_batching, m_concurrentThreads, m_concurrentThreadsSchedule,
                      m_tasksQueue, m_taskAdded, m_workingThreads, generation, sem,
                      life, client, element, m_pTask, m_abort, taskAbort, notified>>
  BY DEF StartTask, Goto, MayExecute, poolVars
<1>2. /\ p \in Point /\ p \in CountedPoint /\ pc[w] \in CountedPoint
      /\ m_pTask[w] \in Task
  BY <1>1 DEF Point, CountedPoint, HoldersHold
<1>3. TypeOK'
  BY <1>1, <1>2 DEF TypeOK, Status
<1>4. CounterExact'
  BY <1>1, <1>2, CountSame DEF CounterExact
<1>5. WorkersFit' /\ ExecutingFit'
  BY <1>1, <1>2, MoveFit DEF WorkersFit
<1>6. RunningHeld'
  BY <1>1, <1>2 DEF RunningHeld, TypeOK
<1>7. HoldersHold'
  BY <1>1, <1>2 DEF HoldersHold, TypeOK
<1>8. ResizeBudget'
  BY <1>1 DEF ResizeBudget, ResizesSpent
<1> QED
  BY <1>3, <1>4, <1>5, <1>6, <1>7, <1>8

LEMMA FinishStep ==
  ASSUME Inv, NEW w \in Worker, FinishTask(w)
  PROVE  Inv'
<1> USE DEF Inv
<1>1. /\ pc[w] = "exec" /\ pc' = [pc EXCEPT ![w] = "ended"] /\ "ended" \in Point
      /\ pc[w] \in CountedPoint /\ "ended" \in CountedPoint
      /\ m_pTask[w] \in Task
      /\ m_pTask' = [m_pTask EXCEPT ![w] = NoTask]
      /\ status' = [status EXCEPT ![m_pTask[w]] = "ended"]
      /\ UNCHANGED <<m_batching, m_concurrentThreads, m_concurrentThreadsSchedule,
                    m_tasksQueue, m_taskAdded, m_workingThreads, generation, sem,
                    life, client, element, m_abort, taskAbort, notified>>
  BY DEF FinishTask, Goto, poolVars, Point, CountedPoint, HoldersHold
<1>2. TypeOK'
  BY <1>1 DEF TypeOK, Status
<1>3. CounterExact'
  BY <1>1, CountSame DEF CounterExact
<1>4. WorkersFit' /\ ExecutingFit'
  BY <1>1, MoveFit
<1>5. RunningHeld'
  <2>1. SUFFICES ASSUME NEW t \in Task, status'[t] = "running"
                 PROVE  \E v \in Worker : pc'[v] = "exec" /\ m_pTask'[v] = t
    BY DEF RunningHeld
  <2>2. t # m_pTask[w] /\ status[t] = "running"
    BY <1>1, <2>1 DEF TypeOK
  <2>3. PICK v \in Worker : pc[v] = "exec" /\ m_pTask[v] = t
    BY <2>2 DEF RunningHeld
  <2>4. v # w
    BY <2>2, <2>3
  <2> QED
    BY <1>1, <2>3, <2>4 DEF TypeOK
<1>6. HoldersHold'
  BY <1>1 DEF HoldersHold, TypeOK
<1>7. ResizeBudget'
  BY <1>1 DEF ResizeBudget, ResizesSpent
<1> QED
  BY <1>2, <1>3, <1>4, <1>5, <1>6, <1>7

(* A worker that leaves is uncounted first; if it was the last one and a    *)
(* size is scheduled, it replaces the generation while no one is counted.   *)
LEMMA WaitingStep ==
  ASSUME Inv, NEW w \in Worker, Rest(w) \/ Quit(w)
  PROVE  Inv'
<1> USE DEF Inv
<1>1. PICK from \in {"rest", "quit"}, after \in {"sem", "dead"} : WaitingThread(w, from, after)
  BY DEF Rest, Quit
<1>2. /\ life = "alive" /\ pc[w] = from
      /\ from \in CountedPoint /\ after \in Point \ CountedPoint
      /\ from # "unborn" /\ after # "exec"
      /\ m_workingThreads' = m_workingThreads - 1
      /\ UNCHANGED <<m_batching, m_tasksQueue, m_taskAdded, life, client, element,
                    m_pTask, status>>
  BY <1>1 DEF WaitingThread, CountedPoint, Point
<1>3. m_workingThreads = Cardinality(Counted) /\ w \in Counted
  BY <1>2 DEF CounterExact, Counted
<1>4. Cardinality(Counted) # 0 /\ Cardinality(Counted) \in Nat
  BY <1>3, CountedFinite
<1>5. m_workingThreads' \in Nat
  BY <1>2, <1>3, <1>4
<1>6. CASE LastOut /\ m_concurrentThreadsSchedule # 0
  <2> DEFINE n == m_concurrentThreadsSchedule
  <2>1. /\ ReplaceThreads(n) /\ FlagPublished /\ n \in Size
        /\ pc' = [v \in Worker |-> IF v = w THEN "dead"
                                   ELSE IF v \in Born(n) THEN "check" ELSE pc[v]]
        /\ notified' = (notified \/ m_taskAdded)
    BY <1>1, <1>6 DEF WaitingThread, TypeOK
  <2>2. Cardinality(Counted) = 1
    BY <1>3, <1>4, <1>6 DEF LastOut
  <2>3. Counted = {w}
    <3>1. Cardinality(Counted \ {w}) = 0
      BY <1>3, <2>2, CountedFinite, FS_RemoveElement
    <3>2. IsFiniteSet(Counted \ {w})
      BY CountedFinite, FS_Subset
    <3> QED
      BY <1>3, <3>1, <3>2, FS_EmptySet
  <2>4. Counted' = {}
    BY <2>1, <2>3 DEF Counted, CountedPoint
  <2>5. m_workingThreads' = 0
    BY <1>2, <1>3, <2>2
  <2>6. CounterExact'
    BY <2>4, <2>5, FS_EmptySet DEF CounterExact
  <2>7. generation + 1 <= MaxResize
    BY <1>6, PoolAssumption DEF ResizeBudget, ResizesSpent, TypeOK, Generation, Size
  <2>8. \A v \in Worker : pc[v] # "exec"
    BY <1>2, <2>3 DEF Counted, CountedPoint
  <2>9. /\ \A v \in Worker : pc'[v] # "exec" /\ pc'[v] # "test"
        /\ \A v \in Worker : pc'[v] # "unborn" => pc[v] # "unborn" \/ v \in Born(n)
    <3>1. \A v \in Worker : v # w => pc[v] # "test"
      BY <2>3 DEF Counted, CountedPoint
    <3> QED
      BY <1>2, <2>1, <2>8, <3>1
  <2>10. /\ WorkersFit' /\ ExecutingFit'
         /\ generation' \in Generation
         /\ sem' \in [Generation -> Nat]
         /\ m_abort' \in [Worker -> BOOLEAN]
    BY <2>1, <2>7, <2>9, ReplaceFit
  <2>11. TypeOK'
    <3>1. pc' \in [Worker -> Point]
      BY <2>1 DEF TypeOK, Point
    <3>2. taskAbort' \in [Task -> BOOLEAN] /\ notified' \in BOOLEAN
      BY <2>1 DEF TypeOK, FlagPublished
    <3>3. m_concurrentThreads' \in Size /\ m_concurrentThreadsSchedule' = 0
      BY <2>1 DEF ReplaceThreads
    <3> QED
      BY <1>2, <1>5, <2>1, <2>10, <3>1, <3>2, <3>3 DEF TypeOK
  <2>12. RunningHeld' /\ HoldersHold'
    BY <1>2, <2>8, <2>9 DEF RunningHeld, HoldersHold
  <2>13. ResizeBudget'
    BY <1>2, <1>6, <2>1, PoolAssumption
       DEF ResizeBudget, ResizesSpent, ReplaceThreads, TypeOK, Generation, Size
  <2> QED
    BY <2>6, <2>10, <2>11, <2>12, <2>13
<1>7. CASE ~(LastOut /\ m_concurrentThreadsSchedule # 0)
  <2>1. /\ pc' = [pc EXCEPT ![w] = after]
        /\ UNCHANGED <<m_concurrentThreads, m_concurrentThreadsSchedule, generation,
                      m_abort, taskAbort>>
        /\ sem' = sem \/ sem' = Posted(1)
        /\ notified' \in BOOLEAN
    BY <1>1, <1>7 DEF WaitingThread, TypeOK
  <2>2. sem' \in [Generation -> Nat]
    BY <2>1, PostedType DEF TypeOK
  <2>3. TypeOK'
    BY <1>2, <1>5, <2>1, <2>2 DEF TypeOK
  <2>4. CounterExact'
    BY <1>2, <1>3, <2>1, CountOut DEF CounterExact
  <2>5. WorkersFit' /\ ExecutingFit'
    BY <1>2, <2>1, MoveFit
  <2>6. RunningHeld' /\ HoldersHold'
    BY <1>2, <2>1 DEF RunningHeld, HoldersHold, TypeOK
  <2>7. ResizeBudget'
    BY <1>2, <2>1 DEF ResizeBudget, ResizesSpent
  <2> QED
    BY <2>3, <2>4, <2>5, <2>6, <2>7
<1> QED
  BY <1>6, <1>7

LEMMA NextInv == Inv /\ [Next]_vars => Inv'
<1> SUFFICES ASSUME Inv, [Next]_vars PROVE Inv'
  OBVIOUS
<1>1. CASE Call
  BY <1>1, OwnerStep, AskStep, ApplyStep, DestroyStep DEF Call
<1>2. ASSUME NEW w \in Worker, Step(w) PROVE Inv'
  BY <1>2, LocalStep, StrayStep, WorkingStep, GetStep, StartStep, FinishStep,
     WaitingStep DEF Step
<1>3. CASE UNCHANGED vars
  <2>1. /\ Counted' = Counted /\ m_threads' = m_threads
        /\ UNCHANGED <<m_batching, m_concurrentThreads, m_concurrentThreadsSchedule,
                      m_tasksQueue, m_taskAdded, m_workingThreads, generation, sem, life,
                      client, pc, element, m_pTask, m_abort, taskAbort, status, notified>>
    BY <1>3 DEF vars, poolVars, workerVars, taskVars, Counted, m_threads
  <2> QED
    BY <2>1 DEF Inv, TypeOK, CounterExact, WorkersFit, ExecutingFit, RunningHeld,
                HoldersHold, ResizeBudget, ResizesSpent
<1> QED
  BY <1>1, <1>2, <1>3 DEF Next

LEMMA SpecInv == Spec => []Inv
BY InitInv, NextInv, PTL DEF Spec

-----------------------------------------------------------------------------
(* Every variable keeps its type: no semaphore and no counter goes below    *)
(* zero and no worker is created outside the bounds.                        *)
THEOREM TypeCorrect == Spec => []TypeOK
BY SpecInv, PTL DEF Inv

(* m_workingThreads counts exactly the workers between WorkingThread() and  *)
(* WaitingThread(), whatever aborts and resizes interleave.                 *)
THEOREM CounterCorrect == Spec => []CounterExact
BY SpecInv, PTL DEF Inv

(* The running tasks are published by the workers of one generation, which  *)
(* are at most m_concurrentThreads.                                         *)
LEMMA InvLimit == Inv => RunningWithinLimit
<1> SUFFICES ASSUME Inv PROVE RunningWithinLimit
  OBVIOUS
<1> DEFINE N == m_concurrentThreads
           f == [i \in 1..N |-> m_pTask[<<generation, i>>]]
           Img == {f[i] : i \in 1..N}
<1>1. N \in Nat /\ IsFiniteSet(1..N) /\ Cardinality(1..N) = N
  BY FS_Interval DEF Inv, TypeOK, Size
<1>2. IsFiniteSet(Img) /\ Cardinality(Img) <= N
  <2>1. f \in Surjection(1..N, Img)
    BY DEF Surjection
  <2> QED
    BY <1>1, <2>1, FS_Surjection
<1>3. Running \subseteq Img
  <2>1. SUFFICES ASSUME NEW t \in Task, status[t] = "running" PROVE t \in Img
    BY DEF Running
  <2>2. PICK w \in Worker : pc[w] = "exec" /\ m_pTask[w] = t
    BY <2>1 DEF Inv, RunningHeld
  <2>3. w \in m_threads
    BY <2>2 DEF Inv, ExecutingFit
  <2>4. w = <<generation, w[2]>> /\ w[2] \in 1..N
    BY <2>3, <1>1 DEF m_threads, Worker, Size
  <2> QED
    BY <2>2, <2>4
<1>4. Cardinality(Running) <= Cardinality(Img)
  BY <1>2, <1>3, FS_Subset
<1> QED
  BY <1>1, <1>2, <1>3, <1>4, FS_Subset, FS_CardinalityType DEF RunningWithinLimit

(* However the calls of the owner interleave with the workers, never more   *)
(* tasks execute at once than m_concurrentThreads.                          *)
THEOREM LimitCorrect == Spec => []RunningWithinLimit
BY SpecInv, InvLimit, PTL

-----------------------------------------------------------------------------
(* No lost wake-up.  Until the pool is destroyed only workers of replaced   *)
(* generations are aborted, so a worker of m_threads that is past its       *)
(* semaphore will come to WorkingThread() and look at the queue.            *)
AbortedOld ==
  life = "alive" => \A w \in Worker : m_abort[w] => w[1] < generation

WakeInv == AbortedOld /\ NoLostWakeup

Awake == \/ Counted # {}
         \/ sem[generation] > 0
         \/ \E w \in m_threads : pc[w] \in {"check", "enter"}

LEMMA AbortedOldNext ==
  ASSUME Inv, AbortedOld, [Next]_vars
  PROVE  AbortedOld'
<1> USE DEF Inv, AbortedOld
<1>1. \/ \E n : ReplaceThreads(n) /\ life' = life
      \/ UNCHANGED <<m_abort, generation, life>>
      \/ life' # "alive"
  <2>1. CASE Call
    BY <2>1 DEF Call, AddTask, BatchBegin, BatchEnd, AbortAllTasks, SetConcurrentThreads,
                ApplyConcurrentThreads, Destroy, workerVars
  <2>2. ASSUME NEW w \in Worker, Step(w)
        PROVE  \/ \E n : ReplaceThreads(n) /\ life' = life
               \/ UNCHANGED <<m_abort, generation, life>>
    BY <2>2 DEF Step, SemWait, CheckAborted, WorkingThread, GetNextTask, PublishTask,
                StartTask, FinishTask, TaskDone, LoopTest, Rest, Quit, StrayCall,
                WaitingThread, poolVars
  <2>3. CASE UNCHANGED vars
    BY <2>3 DEF vars, poolVars, workerVars
  <2> QED
    BY <2>1, <2>2, <2>3 DEF Next
<1>2. CASE \E n : ReplaceThreads(n) /\ life' = life
  BY <1>2, PoolAssumption DEF ReplaceThreads, m_threads, TypeOK, Worker, Generation
<1> QED
  BY <1>1, <1>2

(* A post leaves a token: the semaphore's maximum is at least one.          *)
LEMMA PostedWakes ==
  ASSUME TypeOK, NEW n \in Nat \ {0}
  PROVE  Posted(n)[generation] > 0
BY DEF TypeOK, Posted, Size

LEMMA WakeOwner ==
  ASSUME Inv, NoLostWakeup, Call
  PROVE  NoLostWakeup'
<1> USE DEF Inv
<1> SUFFICES ASSUME life' = "alive", ~m_batching', m_tasksQueue' # <<>>
             PROVE  Awake'
  BY DEF NoLostWakeup, Awake
<1>1. CASE \E t \in Task : AddTask(t)
  <2>1. PICK t \in Task : AddTask(t)
    BY <1>1
  <2>2. UNCHANGED <<pc, generation, m_concurrentThreads, m_workingThreads, m_batching>>
    BY <2>1 DEF AddTask, workerVars
  <2>3. CASE m_workingThreads < m_concurrentThreads
    <3>1. Len(m_tasksQueue') \in Nat \ {0}
      BY <2>1 DEF AddTask, TypeOK
    <3>2. sem' = Posted(Len(m_tasksQueue'))
      BY <2>1, <2>2, <2>3 DEF AddTask, AwakeNeeded
    <3> QED
      BY <2>2, <3>1, <3>2, PostedWakes DEF Awake
  <2>4. CASE ~(m_workingThreads < m_concurrentThreads)
    <3>1. m_workingThreads # 0 /\ life = "alive"
      BY <2>1, <2>4 DEF TypeOK, Size, AddTask
    <3>2. Counted # {}
      BY <3>1, CountedFinite DEF CounterExact
    <3>3. Counted' = Counted
      BY <2>2 DEF Counted
    <3> QED
      BY <3>2, <3>3 DEF Awake
  <2> QED
    BY <2>3, <2>4
<1>2. CASE BatchBegin \/ AbortAllTasks \/ Destroy
  BY <1>2 DEF BatchBegin, AbortAllTasks, Destroy
<1>3. CASE BatchEnd
  <2>1. Len(m_tasksQueue) \in Nat \ {0}
    BY <1>3 DEF BatchEnd, TypeOK
  <2> QED
    BY <1>3, <2>1, PostedWakes DEF BatchEnd, AwakeNeeded, Awake, TypeOK
<1>4. CASE \E n \in Size : SetConcurrentThreads(n)
  <2>1. UNCHANGED <<pc, generation, m_concurrentThreads, m_batching, m_tasksQueue, sem, life>>
    BY <1>4 DEF SetConcurrentThreads, workerVars
  <2>2. Counted' = Counted /\ m_threads' = m_threads
    BY <2>1 DEF Counted, m_threads
  <2> QED
    BY <2>1, <2>2 DEF Awake, NoLostWakeup
<1>5. CASE ApplyConcurrentThreads
  <2>1. CASE m_workingThreads = 0
    <3>1. ReplaceThreads(client) /\ client \in Size /\ life = "alive"
          /\ pc' = [w \in Worker |-> IF w \in Born(client) THEN "check" ELSE pc[w]]
      BY <1>5, <2>1 DEF ApplyConcurrentThreads, TypeOK
    <3>2. generation + 1 <= MaxResize
      BY <3>1, PoolAssumption DEF ResizeBudget, ResizesSpent, TypeOK, Generation, Size
    <3>3. m_threads' = Born(client)
      BY <3>1 DEF m_threads, Born, ReplaceThreads
    <3>4. <<generation + 1, 1>> \in Born(client)
      BY <3>1, <3>2, PoolAssumption DEF Born, Worker, Generation, Size, TypeOK
    <3>5. pc'[<<generation + 1, 1>>] = "check"
      BY <3>1, <3>4 DEF Born
    <3> QED
      BY <3>3, <3>4, <3>5 DEF Awake
  <2>2. CASE m_workingThreads # 0
    <3>1. UNCHANGED <<pc, generation, m_concurrentThreads, m_batching, m_tasksQueue, sem, life>>
      BY <1>5, <2>2 DEF ApplyConcurrentThreads
    <3>2. Counted' = Counted /\ m_threads' = m_threads
      BY <3>1 DEF Counted, m_threads
    <3> QED
      BY <3>1, <3>2 DEF Awake, NoLostWakeup
  <2> QED
    BY <2>1, <2>2
<1> QED
  BY <1>1, <1>2, <1>3, <1>4, <1>5 DEF Call

LEMMA WakeWorker ==
  ASSUME Inv, WakeInv, NEW w \in Worker, Step(w)
  PROVE  NoLostWakeup'
<1> USE DEF Inv, WakeInv
<1> SUFFICES ASSUME life' = "alive", ~m_batching', m_tasksQueue' # <<>>
             PROVE  Awake'
  BY DEF NoLostWakeup, Awake
<1>1. CASE WorkingThread(w) \/ GetNextTask(w) \/ PublishTask(w) \/ StartTask(w)
           \/ FinishTask(w) \/ TaskDone(w) \/ LoopTest(w)
  <2>1. pc'[w] \in CountedPoint
    BY <1>1 DEF WorkingThread, GetNextTask, PublishTask, StartTask, FinishTask, TaskDone,
                LoopTest, Goto, CountedPoint, TypeOK
  <2> QED
    BY <2>1 DEF Awake, Counted
<1>2. CASE SemWait(w) \/ CheckAborted(w)
  <2>1. /\ UNCHANGED <<generation, m_concurrentThreads, m_batching, m_tasksQueue, life,
                      m_abort, m_workingThreads>>
        /\ pc[w] \in {"sem", "check"}
        /\ \A g \in Generation : g # w[1] => sem'[g] = sem[g]
        /\ pc[w] = "check" => sem' = sem
        /\ pc' = [pc EXCEPT ![w] = IF pc[w] = "check" /\ m_abort[w] THEN "dead"
                                   ELSE IF pc[w] = "check" THEN "enter" ELSE "check"]
    BY <1>2 DEF SemWait, CheckAborted, Goto, poolVars, TypeOK
  <2>2. m_threads' = m_threads /\ Awake
    BY <2>1 DEF m_threads, NoLostWakeup, Awake
  <2>3. Counted' = Counted
    BY <2>1 DEF Counted, CountedPoint, TypeOK
  <2>4. CASE w \in m_threads
    <3>1. ~m_abort[w]
      BY <2>1, <2>4, PoolAssumption DEF AbortedOld, m_threads, TypeOK, Generation
    <3>2. pc'[w] \in {"check", "enter"}
      BY <2>1, <3>1 DEF TypeOK
    <3> QED
      BY <2>2, <2>4, <3>2 DEF Awake
  <2>5. CASE w \notin m_threads
    <3>1. m_abort[w]
      BY <2>1, <2>5 DEF WorkersFit
    <3>2. w[1] # generation
      BY <2>1, <3>1, PoolAssumption DEF AbortedOld, TypeOK, Generation
    <3>3. sem'[generation] = sem[generation]
      BY <2>1, <3>2 DEF TypeOK
    <3>4. \A v \in m_threads : pc'[v] = pc[v]
      BY <2>1, <2>5 DEF TypeOK, m_threads
    <3> QED
      BY <2>1, <2>2, <2>3, <3>3, <3>4 DEF Awake
  <2> QED
    BY <2>4, <2>5
<1>3. CASE Rest(w) \/ Quit(w)
  <2>1. ~LastOut /\ sem' = Posted(1) /\ generation' = generation
    BY <1>3 DEF Rest, Quit, WaitingThread, LastOut
  <2> QED
    BY <2>1, PostedWakes DEF Awake
<1>4. CASE StrayCall(w)
  BY <1>4 DEF StrayCall
<1> QED
  BY <1>1, <1>2, <1>3, <1>4 DEF Step

LEMMA WakeNext == Inv /\ WakeInv /\ [Next]_vars => WakeInv'
<1> SUFFICES ASSUME Inv, WakeInv, [Next]_vars PROVE WakeInv'
  OBVIOUS
<1>1. AbortedOld'
  BY AbortedOldNext DEF WakeInv
<1>2. NoLostWakeup'
  <2>1. CASE UNCHANGED vars
    BY <2>1 DEF vars, poolVars, workerVars, WakeInv, NoLostWakeup, Counted, m_threads
  <2> QED
    BY <2>1, WakeOwner, WakeWorker DEF Next, WakeInv
<1> QED
  BY <1>1, <1>2 DEF WakeInv

(* Outside a batch, while a task is queued, some worker is awake, has a     *)
(* token, or is between WorkingThread() and WaitingThread(), which posts.   *)
THEOREM WakeupCorrect == Spec => []NoLostWakeup
<1>1. Init => WakeInv
  BY DEF Init, WakeInv, AbortedOld, NoLostWakeup
<1> QED
  BY <1>1, WakeNext, SpecInv, PTL DEF Spec, WakeInv

-----------------------------------------------------------------------------
(* The destructor.  A worker that was created belongs to an old generation  *)
(* or to m_threads.  Once the pool is gone nobody falls asleep, and a       *)
(* worker of an old generation that was counted then stays counted, or      *)
(* strays.                                                                  *)
Asleep == {w \in m_threads : pc[w] = "sem"}
Ranked == \A w \in Worker :
  pc[w] # "unborn" => w[1] <= generation /\ (w[1] = generation => w \in m_threads)
OldSettled == \A w \in Worker :
  w[1] < generation => pc[w] \notin CountedPoint \cup {"stray"}

LEMMA RankedNext ==
  ASSUME Inv, Ranked, [Next]_vars
  PROVE  Ranked'
<1> USE DEF Inv
<1>1. CASE /\ UNCHANGED <<generation, m_concurrentThreads>>
           /\ \A w \in Worker : pc[w] = "unborn" => pc'[w] = "unborn"
  BY <1>1 DEF Ranked, m_threads
<1>2. ASSUME NEW n \in Size, ReplaceThreads(n),
             \A w \in Worker : w \notin Born(n) /\ pc[w] = "unborn" => pc'[w] = "unborn"
      PROVE  Ranked'
  <2>1. generation' = generation + 1 /\ m_threads' = Born(n) /\ generation \in Int
    BY <1>2, PoolAssumption DEF ReplaceThreads, m_threads, Born, TypeOK, Generation
  <2>2. ASSUME NEW w \in Worker, pc'[w] # "unborn"
        PROVE  w[1] <= generation' /\ (w[1] = generation' => w \in m_threads')
    <3>1. w[1] \in Int
      BY PoolAssumption DEF Worker, Generation
    <3>2. CASE w \in Born(n)
      BY <2>1, <3>1, <3>2 DEF Born
    <3>3. CASE w \notin Born(n)
      <4>1. w[1] <= generation
        BY <1>2, <2>2, <3>3 DEF Ranked
      <4> QED
        BY <2>1, <3>1, <4>1
    <3> QED
      BY <3>2, <3>3
  <2> QED
    BY <2>2 DEF Ranked
<1>3. CASE Call
  <2>1. CASE ApplyConcurrentThreads /\ m_workingThreads = 0
    BY <2>1, <1>2 DEF ApplyConcurrentThreads, TypeOK
  <2>2. CASE ~(ApplyConcurrentThreads /\ m_workingThreads = 0)
    BY <1>1, <1>3, <2>2 DEF Call, AddTask, BatchBegin, BatchEnd, AbortAllTasks,
         SetConcurrentThreads, ApplyConcurrentThreads, Destroy, workerVars
  <2> QED
    BY <2>1, <2>2
<1>4. ASSUME NEW w \in Worker, Step(w) PROVE Ranked'
  <2>1. CASE Rest(w) \/ Quit(w)
    <3>1. CASE LastOut /\ m_concurrentThreadsSchedule # 0
      <4>1. /\ ReplaceThreads(m_concurrentThreadsSchedule)
            /\ m_concurrentThreadsSchedule \in Size
            /\ pc[w] # "unborn"
            /\ pc' = [v \in Worker |->
                        IF v = w THEN "dead"
                        ELSE IF v \in Born(m_concurrentThreadsSchedule) THEN "check"
                        ELSE pc[v]]
        BY <2>1, <3>1 DEF Rest, Quit, WaitingThread, TypeOK
      <4> QED
        BY <4>1, <1>2
    <3>2. CASE ~(LastOut /\ m_concurrentThreadsSchedule # 0)
      <4>1. /\ UNCHANGED <<generation, m_concurrentThreads>>
            /\ pc[w] # "unborn"
            /\ \E p : pc' = [pc EXCEPT ![w] = p]
        BY <2>1, <3>2 DEF Rest, Quit, WaitingThread
      <4> QED
        BY <1>1, <4>1 DEF TypeOK
    <3> QED
      BY <3>1, <3>2
  <2>2. CASE ~(Rest(w) \/ Quit(w))
    <3>1. /\ UNCHANGED <<generation, m_concurrentThreads>>
          /\ pc[w] # "unborn"
          /\ \E p : pc' = [pc EXCEPT ![w] = p]
      BY <1>4, <2>2 DEF Step, SemWait, CheckAborted, WorkingThread, GetNextTask, PublishTask,
           StartTask, FinishTask, TaskDone, LoopTest, StrayCall, Goto, poolVars
    <3> QED
      BY <1>1, <3>1 DEF TypeOK
  <2> QED
    BY <2>1, <2>2
<1>5. CASE UNCHANGED vars
  BY <1>1, <1>5 DEF vars, poolVars, workerVars
<1> QED
  BY <1>3, <1>4, <1>5 DEF Next

(* The workers of m_threads number m_concurrentThreads.                     *)
LEMMA ThreadsNumber ==
  ASSUME TypeOK
  PROVE  /\ IsFiniteSet(m_threads)
         /\ Cardinality(m_threads) <= m_concurrentThreads
<1> DEFINE N == m_concurrentThreads
           f == [i \in 1..N |-> <<generation, i>>]
<1>1. N \in Nat /\ IsFiniteSet(1..N) /\ Cardinality(1..N) = N
  BY FS_Interval DEF TypeOK, Size
<1>2. f \in Surjection(1..N, {f[i] : i \in 1..N})
  BY DEF Surjection
<1>3. m_threads \subseteq {f[i] : i \in 1..N}
  <2> SUFFICES ASSUME NEW w \in m_threads PROVE w \in {f[i] : i \in 1..N}
    OBVIOUS
  <2>1. w = <<generation, w[2]>> /\ w[2] \in 1..N
    BY <1>1 DEF m_threads, Worker, Size
  <2> QED
    BY <2>1
<1>4. /\ IsFiniteSet({f[i] : i \in 1..N})
      /\ Cardinality({f[i] : i \in 1..N}) <= N
  BY <1>1, <1>2, FS_Surjection
<1>5. /\ IsFiniteSet(m_threads)
      /\ Cardinality(m_threads) <= Cardinality({f[i] : i \in 1..N})
  BY <1>3, <1>4, FS_Subset
<1> QED
  BY <1>1, <1>4, <1>5, FS_CardinalityType

LEMMA SleepDestroy ==
  ASSUME Inv, Ranked, Destroy, life' = "gone", OldSettled
  PROVE  Cardinality(Asleep') <= sem'[generation']
<1> USE DEF Inv
<1>1. /\ UNCHANGED <<pc, generation, m_concurrentThreads>>
      /\ m_workingThreads = Cardinality(Counted) /\ m_workingThreads <= m_concurrentThreads
      /\ sem' = Posted(m_concurrentThreads - m_workingThreads)
  BY DEF Destroy, Broadcast, CounterExact
<1>2. Asleep' = Asleep
  BY <1>1 DEF Asleep, m_threads
<1>3. Counted \cap Asleep = {} /\ Counted \cup Asleep \subseteq m_threads
  <2>1. ASSUME NEW w \in Counted PROVE w \in m_threads /\ w \notin Asleep
    <3>1. w \in Worker /\ pc[w] \in CountedPoint /\ pc[w] # "unborn" /\ pc[w] # "sem"
      BY DEF Counted, CountedPoint
    <3>2. w[1] <= generation /\ ~(w[1] < generation) /\ w[1] \in Int /\ generation \in Int
      BY <3>1, PoolAssumption DEF Ranked, OldSettled, TypeOK, Worker, Generation
    <3>3. w[1] = generation
      BY <3>2
    <3> QED
      BY <3>1, <3>3 DEF Ranked, Asleep
  <2> QED
    BY <2>1 DEF Asleep
<1>4. IsFiniteSet(Counted) /\ IsFiniteSet(Asleep) /\ IsFiniteSet(m_threads)
  BY <1>3, CountedFinite, ThreadsNumber, FS_Subset
<1>5. Cardinality(Counted \cup Asleep) = Cardinality(Counted) + Cardinality(Asleep)
  <2>1. Cardinality(Counted \cup Asleep) =
          Cardinality(Counted) + Cardinality(Asleep) - Cardinality(Counted \cap Asleep)
    BY <1>4, FS_Union
  <2>2. Cardinality(Counted \cap Asleep) = 0
    BY <1>3, FS_EmptySet
  <2> QED
    BY <2>1, <2>2, <1>4, FS_CardinalityType
<1>6. Cardinality(Counted \cup Asleep) <= Cardinality(m_threads)
  BY <1>3, <1>4, FS_Subset
<1>7. /\ Cardinality(Counted) \in Nat /\ Cardinality(Asleep) \in Nat
      /\ Cardinality(m_threads) \in Nat
  BY <1>4, FS_CardinalityType
<1>8. Cardinality(Counted) + Cardinality(Asleep) <= m_concurrentThreads
  BY <1>5, <1>6, <1>7, ThreadsNumber DEF TypeOK, Size
<1>9. LET s == sem[generation] + (m_concurrentThreads - m_workingThreads)
      IN  sem'[generation] = IF s <= m_concurrentThreads THEN s ELSE m_concurrentThreads
  BY <1>1 DEF Posted, TypeOK
<1>10. sem[generation] \in Nat /\ m_concurrentThreads \in Nat /\ m_workingThreads \in Nat
  BY DEF TypeOK, Size
<1>11. Cardinality(Asleep) <= sem'[generation]
  BY <1>1, <1>7, <1>8, <1>9, <1>10
<1> QED
  BY <1>1, <1>2, <1>11

(* Once the pool is gone.                                                   *)
LEMMA SleepGone ==
  ASSUME Inv, Ranked, SleepersAreWoken, [Next]_vars, life = "gone", OldSettled'
  PROVE  Cardinality(Asleep') <= sem'[generation']
<1> USE DEF Inv
<1>1. CASE UNCHANGED vars
  BY <1>1 DEF vars, poolVars, workerVars, Asleep, m_threads, OldSettled, SleepersAreWoken
<1>2. CASE \E w \in Worker : Step(w)
  <2>1. PICK w \in Worker : Step(w)
    BY <1>2
  <2>2. PICK p \in Point :
          /\ pc' = [pc EXCEPT ![w] = p] /\ p # "sem" /\ pc[w] # "unborn"
          /\ pc[w] \in CountedPoint \cup {"stray"} => p \in CountedPoint \cup {"stray"}
    BY <2>1 DEF Step, SemWait, CheckAborted, WorkingThread, GetNextTask, PublishTask,
         StartTask, FinishTask, TaskDone, LoopTest, Rest, Quit, WaitingThread, StrayCall, Goto,
         Point, CountedPoint
  <2>3. /\ UNCHANGED <<generation, m_concurrentThreads>>
        /\ \/ pc[w] # "sem" /\ sem' = sem
           \/ /\ pc[w] = "sem" /\ sem[w[1]] > 0
              /\ sem' = [sem EXCEPT ![w[1]] = @ - 1]
    BY <2>1 DEF Step, SemWait, CheckAborted, WorkingThread, GetNextTask, PublishTask,
         StartTask, FinishTask, TaskDone, LoopTest, Rest, Quit, WaitingThread, StrayCall, Goto,
         poolVars
  <2>4. OldSettled
    BY <2>2, <2>3 DEF OldSettled, TypeOK
  <2>5. Cardinality(Asleep) <= sem[generation]
    BY <2>4 DEF SleepersAreWoken, OldSettled, Asleep
  <2>6. m_threads' = m_threads /\ Asleep' = Asleep \ {w}
    BY <2>2, <2>3 DEF Asleep, m_threads, TypeOK
  <2>7. IsFiniteSet(Asleep)
    BY ThreadsNumber, FS_Subset DEF Asleep
  <2>8. CASE w \in Asleep
    <3>1. Cardinality(Asleep') = Cardinality(Asleep) - 1
      BY <2>6, <2>7, <2>8, FS_RemoveElement
    <3>2. w[1] = generation /\ sem'[generation] = sem[generation] - 1
      BY <2>3, <2>8 DEF Asleep, m_threads, TypeOK
    <3>3. Cardinality(Asleep) \in Nat /\ sem[generation] \in Nat
      BY <2>7, FS_CardinalityType DEF TypeOK
    <3> QED
      BY <2>3, <2>5, <3>1, <3>2, <3>3
  <2>9. CASE w \notin Asleep
    <3>1. Asleep' = Asleep
      BY <2>6, <2>9
    <3>2. sem'[generation] = sem[generation]
      <4>1. pc[w] = "sem" => w[1] # generation
        BY <2>2, <2>9 DEF Asleep, Ranked
      <4> QED
        BY <2>3, <4>1 DEF TypeOK, Worker
    <3> QED
      BY <2>3, <2>5, <3>1, <3>2
  <2> QED
    BY <2>8, <2>9
<1>3. CASE Call
  BY <1>3 DEF Call, AddTask, BatchBegin, BatchEnd, AbortAllTasks, SetConcurrentThreads,
              ApplyConcurrentThreads, Destroy
<1> QED
  BY <1>1, <1>2, <1>3 DEF Next

LEMMA SleepNext ==
  Inv /\ Ranked /\ SleepersAreWoken /\ [Next]_vars => SleepersAreWoken'
<1> SUFFICES ASSUME Inv, Ranked, SleepersAreWoken, [Next]_vars, life' = "gone", OldSettled'
             PROVE  Cardinality(Asleep') <= sem'[generation']
  BY DEF SleepersAreWoken, Asleep, OldSettled
<1>1. CASE life = "gone"
  BY <1>1, SleepGone
<1>2. CASE life # "gone"
  <2>1. Destroy
    <3>1. CASE Call
      BY <1>2, <3>1 DEF Call, AddTask, BatchBegin, BatchEnd, AbortAllTasks,
           SetConcurrentThreads, ApplyConcurrentThreads
    <3>2. ASSUME NEW w \in Worker, Step(w) PROVE life' = life
      BY <3>2 DEF Step, SemWait, CheckAborted, WorkingThread, GetNextTask, PublishTask,
           StartTask, FinishTask, TaskDone, LoopTest, Rest, Quit, WaitingThread, StrayCall
    <3> QED
      BY <1>2, <3>1, <3>2 DEF Next, vars
  <2>2. OldSettled
    BY <2>1 DEF Destroy, OldSettled
  <2> QED
    BY <2>1, <2>2, SleepDestroy
<1> QED
  BY <1>1, <1>2

(* ~cbThreadPool leaves a token for every worker that sleeps on the         *)
(* semaphore, if no worker of a replaced generation was counted then.       *)
THEOREM DestructionWakes == Spec => []SleepersAreWoken
<1>1. Init => Ranked /\ SleepersAreWoken
  <2> SUFFICES ASSUME Init PROVE Ranked /\ SleepersAreWoken
    OBVIOUS
  <2>1. \A w \in Worker : pc[w] # "unborn" => w \in m_threads
    BY DEF Init
  <2>2. \A w \in m_threads : w[1] = 0 /\ 0 <= 0
    BY DEF Init, m_threads
  <2>3. Ranked
    BY <2>1, <2>2 DEF Init, Ranked
  <2> QED
    BY <2>3 DEF Init, SleepersAreWoken
<1>2. Inv /\ Ranked /\ [Next]_vars => Ranked'
  BY RankedNext
<1> QED
  BY <1>1, <1>2, SleepNext, SpecInv, PTL DEF Spec
-----------------------------------------------------------------------------
Holds(w) == pc[w] \in {"publish", "test", "exec"} /\ element[w] # NoTask

QueueQueued ==
  \A i \in DOMAIN m_tasksQueue : status[m_tasksQueue[i]] = "queued"

QueueDistinct ==
  \A i, j \in DOMAIN m_tasksQueue : m_tasksQueue[i] = m_tasksQueue[j] => i = j

HeldStatus ==
  \A w \in Worker : Holds(w) =>
    status[element[w]] = IF pc[w] = "exec" THEN "running" ELSE "taken"

HeldOnce ==
  \A v, w \in Worker : Holds(v) /\ Holds(w) /\ element[w] = element[v] => v = w

PublishedHeld ==
  \A w \in Worker : pc[w] \in {"test", "exec"} =>
    element[w] # NoTask /\ m_pTask[w] = element[w]

PlaceInv == QueueQueued /\ QueueDistinct /\ HeldStatus /\ HeldOnce /\ PublishedHeld

LEMMA PlaceInit == Init => PlaceInv
BY DEF Init, PlaceInv, QueueQueued, QueueDistinct, HeldStatus, HeldOnce,
       PublishedHeld, Holds

LEMMA PlaceAdd ==
  ASSUME Inv, PlaceInv, NEW t \in Task, AddTask(t)
  PROVE  PlaceInv'
<1> USE DEF Inv, PlaceInv
<1>1. /\ m_tasksQueue' = Append(m_tasksQueue, t) /\ status[t] = "new"
      /\ status' = [status EXCEPT ![t] = "queued"]
      /\ UNCHANGED <<pc, element, m_pTask>>
  BY DEF AddTask, workerVars
<1>2. /\ m_tasksQueue \in Seq(Task) /\ DOMAIN m_tasksQueue' = 1..Len(m_tasksQueue) + 1
      /\ DOMAIN m_tasksQueue = 1..Len(m_tasksQueue)
      /\ \A i \in DOMAIN m_tasksQueue : m_tasksQueue'[i] = m_tasksQueue[i]
      /\ m_tasksQueue'[Len(m_tasksQueue) + 1] = t
  BY <1>1 DEF TypeOK
<1>3. \A i \in DOMAIN m_tasksQueue : m_tasksQueue[i] # t /\ m_tasksQueue[i] \in Task
  BY <1>1, <1>2 DEF QueueQueued
<1>4. QueueQueued'
  BY <1>1, <1>2, <1>3 DEF QueueQueued, TypeOK
<1>5. QueueDistinct'
  BY <1>2, <1>3 DEF QueueDistinct
<1>6. HeldStatus'
  BY <1>1 DEF HeldStatus, Holds, TypeOK
<1>7. HeldOnce' /\ PublishedHeld'
  BY <1>1 DEF HeldOnce, PublishedHeld, Holds
<1> QED
  BY <1>4, <1>5, <1>6, <1>7

(* AbortAllTasks and ~cbThreadPool empty the queue or leave it alone.       *)
LEMMA PlaceClear ==
  ASSUME Inv, PlaceInv, AbortAllTasks \/ Destroy
  PROVE  PlaceInv'
<1> USE DEF Inv, PlaceInv
<1>1. /\ UNCHANGED <<pc, element, m_pTask>>
      /\ \/ m_tasksQueue' = <<>>
         \/ UNCHANGED <<m_tasksQueue, status>>
      /\ \A t \in Task : status[t] \in {"taken", "running"} => status'[t] = status[t]
  BY DEF AbortAllTasks, Destroy, workerVars
<1>2. QueueQueued' /\ QueueDistinct'
  BY <1>1 DEF QueueQueued, QueueDistinct
<1>3. HeldStatus'
  BY <1>1 DEF HeldStatus, Holds, TypeOK
<1>4. HeldOnce' /\ PublishedHeld'
  BY <1>1 DEF HeldOnce, PublishedHeld, Holds
<1> QED
  BY <1>2, <1>3, <1>4

(* Steps that move no task only let workers go where they hold none.        *)
LEMMA PlaceSame ==
  ASSUME Inv, PlaceInv, UNCHANGED <<m_tasksQueue, status, element, m_pTask>>,
         \A w \in Worker : pc'[w] = pc[w] \/ pc'[w] \notin {"publish", "test", "exec"}
  PROVE  PlaceInv'
BY DEF PlaceInv, QueueQueued, QueueDistinct, HeldStatus, HeldOnce, PublishedHeld, Holds

LEMMA PlaceGet ==
  ASSUME Inv, PlaceInv, NEW w \in Worker, GetNextTask(w)
  PROVE  PlaceInv'
<1> USE DEF Inv, PlaceInv
<1>1. /\ pc[w] = "get" /\ pc' = [pc EXCEPT ![w] = "publish"]
      /\ UNCHANGED m_pTask
  BY DEF GetNextTask, Goto
<1>2. PublishedHeld'
  BY <1>1 DEF PublishedHeld, GetNextTask, TypeOK
<1>3. CASE m_tasksQueue = <<>>
  <2>1. /\ element' = [element EXCEPT ![w] = NoTask]
        /\ UNCHANGED <<m_tasksQueue, status>>
    BY <1>3 DEF GetNextTask
  <2>2. \A v \in Worker : Holds(v)' => Holds(v) /\ v # w /\ pc'[v] = pc[v]
                                       /\ element'[v] = element[v]
    BY <1>1, <2>1 DEF Holds, TypeOK
  <2>3. HeldStatus' /\ HeldOnce'
    BY <2>1, <2>2 DEF HeldStatus, HeldOnce
  <2> QED
    BY <1>2, <2>1, <2>3 DEF QueueQueued, QueueDistinct
<1>4. CASE m_tasksQueue # <<>>
  <2> DEFINE h == Head(m_tasksQueue)
  <2>1. /\ element' = [element EXCEPT ![w] = h]
        /\ status' = [status EXCEPT ![h] = "taken"]
        /\ m_tasksQueue' = Tail(m_tasksQueue)
    BY <1>4 DEF GetNextTask, PopFront
  <2>2. /\ h \in Task /\ h = m_tasksQueue[1] /\ 1 \in DOMAIN m_tasksQueue
        /\ \A i \in DOMAIN m_tasksQueue' : /\ i + 1 \in DOMAIN m_tasksQueue /\ i + 1 # 1
                                           /\ m_tasksQueue'[i] = m_tasksQueue[i + 1]
                                           /\ m_tasksQueue'[i] \in Task
    BY <1>4, <2>1 DEF TypeOK
  <2>3. status[h] = "queued"
    BY <2>2 DEF QueueQueued
  <2>4. QueueQueued'
    BY <2>1, <2>2 DEF QueueQueued, QueueDistinct, TypeOK
  <2>5. QueueDistinct'
    <3>1. SUFFICES ASSUME NEW i \in DOMAIN m_tasksQueue', NEW j \in DOMAIN m_tasksQueue',
                          m_tasksQueue'[i] = m_tasksQueue'[j]
                   PROVE  i = j
      BY DEF QueueDistinct
    <3>2. i + 1 = j + 1
      BY <2>2, <3>1 DEF QueueDistinct
    <3>3. i \in Nat /\ j \in Nat
      BY <1>4, <2>1, <3>1 DEF TypeOK
    <3> QED
      BY <3>2, <3>3
  <2>6. \A v \in Worker : v # w /\ Holds(v)' =>
          Holds(v) /\ pc'[v] = pc[v] /\ element'[v] = element[v] /\ element[v] # h
    BY <1>1, <2>1, <2>3 DEF Holds, HeldStatus, TypeOK
  <2>7. pc'[w] = "publish" /\ element'[w] = h
    BY <1>1, <2>1 DEF TypeOK
  <2>8. HeldStatus'
    <3>1. SUFFICES ASSUME NEW v \in Worker, Holds(v)'
                   PROVE  status'[element'[v]] = IF pc'[v] = "exec" THEN "running" ELSE "taken"
      BY DEF HeldStatus
    <3>2. CASE v = w
      BY <2>1, <2>2, <2>7, <3>2 DEF TypeOK
    <3>3. CASE v # w
      BY <2>1, <2>6, <3>1, <3>3 DEF HeldStatus, TypeOK
    <3> QED
      BY <3>2, <3>3
  <2>9. HeldOnce'
    BY <2>6, <2>7 DEF HeldOnce
  <2> QED
    BY <1>2, <2>4, <2>5, <2>8, <2>9
<1> QED
  BY <1>3, <1>4

LEMMA PlacePublish ==
  ASSUME Inv, PlaceInv, NEW w \in Worker, PublishTask(w)
  PROVE  PlaceInv'
<1> USE DEF Inv, PlaceInv
<1>1. /\ pc[w] = "publish" /\ m_pTask' = [m_pTask EXCEPT ![w] = element[w]]
      /\ pc' = [pc EXCEPT ![w] = IF element[w] = NoTask THEN "loop" ELSE "test"]
      /\ UNCHANGED <<m_tasksQueue, status, element>>
  BY DEF PublishTask, Goto, poolVars, taskVars
<1>2. \A v \in Worker : Holds(v)' => Holds(v) /\ (pc'[v] = "exec" <=> pc[v] = "exec")
  BY <1>1 DEF Holds, TypeOK
<1>3. PublishedHeld'
  BY <1>1 DEF PublishedHeld, TypeOK
<1>4. HeldStatus' /\ HeldOnce'
  BY <1>1, <1>2 DEF HeldStatus, HeldOnce
<1> QED
  BY <1>1, <1>3, <1>4 DEF QueueQueued, QueueDistinct

(* The task of a worker that starts, drops or finishes it is in no other    *)
(* hands, and not in the queue.                                             *)
LEMMA PlaceTask ==
  ASSUME Inv, PlaceInv, NEW w \in Worker, StartTask(w) \/ FinishTask(w)
  PROVE  PlaceInv'
<1> USE DEF Inv, PlaceInv
<1> DEFINE t == element[w]
<1>1. PICK p \in {"exec", "quit", "ended"}, s \in {"running", "dropped", "ended"} :
        /\ pc[w] \in {"test", "exec"} /\ pc' = [pc EXCEPT ![w] = p]
        /\ status' = [status EXCEPT ![m_pTask[w]] = s]
        /\ p = "exec" => s = "running"
        /\ UNCHANGED <<m_tasksQueue, element>>
        /\ \A v \in Worker : v # w \/ p = "exec" => m_pTask'[v] = m_pTask[v]
  BY DEF StartTask, FinishTask, MayExecute, Goto, poolVars, TypeOK
<1>2. Holds(w) /\ m_pTask[w] = t /\ t \in Task /\ status[t] \in {"taken", "running"}
  BY <1>1 DEF Holds, PublishedHeld, HeldStatus, TypeOK
<1>3. \A v \in Worker : v # w /\ Holds(v)' =>
        Holds(v) /\ pc'[v] = pc[v] /\ element[v] # t /\ element[v] \in Task
  BY <1>1, <1>2 DEF Holds, HeldOnce, TypeOK
<1>4. \A i \in DOMAIN m_tasksQueue : m_tasksQueue[i] # t /\ m_tasksQueue[i] \in Task
  BY <1>2 DEF QueueQueued, TypeOK
<1>5. QueueQueued' /\ QueueDistinct'
  BY <1>1, <1>2, <1>4 DEF QueueQueued, QueueDistinct, TypeOK
<1>6. HeldStatus'
  <2>1. SUFFICES ASSUME NEW v \in Worker, Holds(v)'
                 PROVE  status'[element'[v]] = IF pc'[v] = "exec" THEN "running" ELSE "taken"
    BY DEF HeldStatus
  <2>2. CASE v = w
    BY <1>1, <1>2, <2>1, <2>2 DEF Holds, TypeOK
  <2>3. CASE v # w
    BY <1>1, <1>2, <1>3, <2>1, <2>3 DEF HeldStatus, TypeOK
  <2> QED
    BY <2>2, <2>3
<1>7. HeldOnce'
  <2>1. SUFFICES ASSUME NEW u \in Worker, NEW v \in Worker, Holds(u)', Holds(v)',
                        element'[v] = element'[u]
                 PROVE  u = v
    BY DEF HeldOnce
  <2>2. element' = element
    BY <1>1
  <2>3. Holds(u) /\ Holds(v)
    BY <1>2, <1>3, <2>1
  <2> QED
    BY <2>1, <2>2, <2>3 DEF HeldOnce
<1>8. PublishedHeld'
  BY <1>1, <1>2 DEF PublishedHeld, TypeOK
<1> QED
  BY <1>5, <1>6, <1>7, <1>8

LEMMA PlaceNext == Inv /\ PlaceInv /\ [Next]_vars => PlaceInv'
<1> SUFFICES ASSUME Inv, PlaceInv, [Next]_vars PROVE PlaceInv'
  OBVIOUS
<1>1. CASE BatchBegin \/ BatchEnd \/ (\E n \in Size : SetConcurrentThreads(n))
           \/ ApplyConcurrentThreads
  BY <1>1, PlaceSame DEF BatchBegin, BatchEnd, SetConcurrentThreads,
                         ApplyConcurrentThreads, workerVars, taskVars
<1>2. ASSUME NEW w \in Worker,
             SemWait(w) \/ CheckAborted(w) \/ WorkingThread(w) \/ TaskDone(w)
             \/ LoopTest(w) \/ StrayCall(w)
      PROVE  PlaceInv'
  <2>1. /\ UNCHANGED <<m_tasksQueue, status, element, m_pTask>>
        /\ \E p \in Point \ {"publish", "test", "exec"} : pc' = [pc EXCEPT ![w] = p]
    BY <1>2 DEF SemWait, CheckAborted, WorkingThread, TaskDone, LoopTest, StrayCall,
                Goto, poolVars, taskVars, Point
  <2>2. \A v \in Worker : pc'[v] = pc[v] \/ pc'[v] \notin {"publish", "test", "exec"}
    BY <2>1 DEF Inv, TypeOK
  <2> QED
    BY <2>1, <2>2, PlaceSame
<1>3. ASSUME NEW w \in Worker, Rest(w) \/ Quit(w) PROVE PlaceInv'
  <2>1. UNCHANGED <<m_tasksQueue, status, element, m_pTask>>
    BY <1>3 DEF Rest, Quit, WaitingThread
  <2>2. \A v \in Worker : pc'[v] = pc[v] \/ pc'[v] \notin {"publish", "test", "exec"}
    BY <1>3 DEF Rest, Quit, WaitingThread, Inv, TypeOK
  <2> QED
    BY <2>1, <2>2, PlaceSame
<1>4. CASE UNCHANGED vars
  BY <1>4, PlaceSame DEF vars, poolVars, workerVars, taskVars
<1> QED
  BY <1>1, <1>2, <1>3, <1>4, PlaceAdd, PlaceClear, PlaceGet, PlacePublish, PlaceTask
     DEF Next, Call, Step

(* A task is never in two places, for every number of workers and resizes.  *)
THEOREM PlaceCorrect == Spec => []OnePlace
<1>1. Inv /\ PlaceInv => OnePlace
  BY DEF PlaceInv, OnePlace, QueueQueued, QueueDistinct, HeldOnce, Holds
<1> QED
  BY <1>1, SpecInv, PlaceInit, PlaceNext, PTL DEF Spec

-----------------------------------------------------------------------------
(* Done(): a taken task has a worker that holds it, between WorkingThread() *)
(* and WaitingThread().                                                     *)
TakenHeld ==
  \A t \in Task : status[t] = "taken" =>
    \E w \in Worker : pc[w] \in {"publish", "test"} /\ element[w] = t

(* Steps that take no task and leave the holders of tasks where they are.   *)
LEMMA TakenSame ==
  ASSUME TakenHeld, element' = element,
         \A t \in Task : status'[t] = "taken" => status[t] = "taken",
         \A w \in Worker : pc[w] \in {"publish", "test"} => pc'[w] = pc[w]
  PROVE  TakenHeld'
BY DEF TakenHeld

(* The workers of the next generation do not exist yet.                     *)
LEMMA BornUnborn ==
  ASSUME Inv, AbortedOld, life = "alive", NEW n, NEW v \in Born(n)
  PROVE  pc[v] = "unborn"
<1>1. v \in Worker /\ v[1] = generation + 1 /\ generation \in Nat
  BY PoolAssumption DEF Born, Inv, TypeOK, Generation
<1>2. ~m_abort[v]
  BY <1>1 DEF AbortedOld
<1> QED
  BY <1>1, <1>2 DEF Inv, WorkersFit, m_threads

LEMMA TakenReplace ==
  ASSUME Inv, AbortedOld, TakenHeld, life = "alive", NEW n,
         UNCHANGED <<element, status>>,
         \A v \in Worker \ Born(n) : pc[v] \in {"publish", "test"} => pc'[v] = pc[v]
  PROVE  TakenHeld'
<1>1. \A v \in Worker : pc[v] \in {"publish", "test"} => pc'[v] = pc[v]
  BY BornUnborn
<1> QED
  BY <1>1, TakenSame

LEMMA TakenGet ==
  ASSUME Inv, PlaceInv, TakenHeld, NEW w \in Worker, GetNextTask(w)
  PROVE  TakenHeld'
<1>1. /\ pc[w] = "get" /\ pc' = [pc EXCEPT ![w] = "publish"]
      /\ pc \in [Worker -> Point] /\ element \in [Worker -> Task \cup {NoTask}]
      /\ status \in [Task -> Status]
  BY DEF GetNextTask, Goto, Inv, TypeOK
<1>2. \A v \in Worker : element'[v] = element[v] \/ v = w
  BY <1>1 DEF GetNextTask
<1>3. \A t \in Task : status'[t] = "taken" => status[t] = "taken" \/ element'[w] = t
  BY <1>1 DEF GetNextTask
<1> SUFFICES ASSUME NEW t \in Task, status'[t] = "taken"
             PROVE  \E v \in Worker : pc'[v] \in {"publish", "test"} /\ element'[v] = t
  BY DEF TakenHeld
<1>4. CASE element'[w] = t
  BY <1>1, <1>4
<1>5. CASE status[t] = "taken"
  <2>1. PICK v \in Worker : pc[v] \in {"publish", "test"} /\ element[v] = t
    BY <1>5 DEF TakenHeld
  <2> QED
    BY <1>1, <1>2, <2>1
<1> QED
  BY <1>3, <1>4, <1>5

LEMMA TakenStart ==
  ASSUME Inv, PlaceInv, TakenHeld, NEW w \in Worker, StartTask(w)
  PROVE  TakenHeld'
<1>1. /\ pc[w] = "test" /\ element' = element
      /\ \A v \in Worker : v # w => pc'[v] = pc[v]
  BY DEF StartTask, Goto, Inv, TypeOK
<1>2. m_pTask[w] = element[w] /\ m_pTask[w] \in Task
  BY <1>1 DEF PlaceInv, PublishedHeld, Inv, HoldersHold
<1>3. \A t \in Task : status'[t] = "taken" => status[t] = "taken" /\ t # element[w]
  BY <1>2 DEF StartTask, Inv, TypeOK
<1> QED
  BY <1>1, <1>3 DEF TakenHeld

LEMMA TakenNext == Inv /\ AbortedOld /\ PlaceInv /\ TakenHeld /\ [Next]_vars => TakenHeld'
<1> SUFFICES ASSUME Inv, AbortedOld, PlaceInv, TakenHeld, [Next]_vars PROVE TakenHeld'
  OBVIOUS
<1>1. CASE UNCHANGED vars
  BY <1>1, TakenSame DEF vars, workerVars, taskVars
<1>2. CASE BatchBegin \/ BatchEnd \/ AbortAllTasks \/ Destroy
           \/ (\E n \in Size : SetConcurrentThreads(n))
  <2>1. UNCHANGED <<pc, element>>
    BY <1>2 DEF BatchBegin, BatchEnd, AbortAllTasks, Destroy, SetConcurrentThreads,
                workerVars
  <2>2. \A t \in Task : status'[t] = "taken" => status[t] = "taken"
    BY <1>2 DEF BatchBegin, BatchEnd, AbortAllTasks, Destroy, SetConcurrentThreads,
                taskVars
  <2> QED
    BY <2>1, <2>2, TakenSame
<1>3. ASSUME NEW t \in Task, AddTask(t) PROVE TakenHeld'
  <2>1. UNCHANGED <<pc, element>> /\ status' = [status EXCEPT ![t] = "queued"]
    BY <1>3 DEF AddTask, workerVars
  <2>2. \A u \in Task : status'[u] = "taken" => status[u] = "taken"
    BY <2>1 DEF Inv, TypeOK
  <2> QED
    BY <2>1, <2>2, TakenSame
<1>4. CASE ApplyConcurrentThreads
  <2>1. life = "alive" /\ UNCHANGED <<element, status>>
    BY <1>4 DEF ApplyConcurrentThreads
  <2>2. \A v \in Worker \ Born(client) : pc'[v] = pc[v]
    BY <1>4 DEF ApplyConcurrentThreads
  <2> QED
    BY <2>1, <2>2, TakenReplace
<1>5. ASSUME NEW w \in Worker, SemWait(w) \/ CheckAborted(w) \/ WorkingThread(w)
             \/ TaskDone(w) \/ LoopTest(w) \/ StrayCall(w)
      PROVE  TakenHeld'
  <2>1. UNCHANGED <<status, element>> /\ pc[w] \notin {"publish", "test"}
    BY <1>5 DEF SemWait, CheckAborted, WorkingThread, TaskDone, LoopTest, StrayCall,
                Goto, taskVars
  <2>2. \A v \in Worker : v # w => pc'[v] = pc[v]
    BY <1>5 DEF SemWait, CheckAborted, WorkingThread, TaskDone, LoopTest, StrayCall,
                Goto, Inv, TypeOK
  <2> QED
    BY <2>1, <2>2, TakenSame
<1>6. ASSUME NEW w \in Worker, FinishTask(w) PROVE TakenHeld'
  <2>1. /\ pc[w] = "exec" /\ element' = element
        /\ \A v \in Worker : v # w => pc'[v] = pc[v]
    BY <1>6 DEF FinishTask, Goto, Inv, TypeOK
  <2>2. \A t \in Task : status'[t] = "taken" => status[t] = "taken"
    BY <1>6 DEF FinishTask, Inv, TypeOK
  <2> QED
    BY <2>1, <2>2, TakenSame
<1>7. ASSUME NEW w \in Worker, PublishTask(w) PROVE TakenHeld'
  <2>1. /\ pc[w] = "publish" /\ UNCHANGED <<element, status>>
        /\ pc' = [pc EXCEPT ![w] = IF element[w] = NoTask THEN "loop" ELSE "test"]
    BY <1>7 DEF PublishTask, Goto, taskVars
  <2>2. \A v \in Worker : pc[v] \in {"publish", "test"} /\ element[v] \in Task =>
                           pc'[v] \in {"publish", "test"}
    BY <2>1, PoolAssumption DEF Inv, TypeOK
  <2> QED
    BY <2>1, <2>2 DEF TakenHeld
<1>8. ASSUME NEW w \in Worker, Rest(w) \/ Quit(w) PROVE TakenHeld'
  <2>1. /\ life = "alive" /\ UNCHANGED <<element, status>>
        /\ pc[w] \notin {"publish", "test"}
    BY <1>8 DEF Rest, Quit, WaitingThread
  <2>2. \A v \in Worker \ Born(m_concurrentThreadsSchedule) : v # w => pc'[v] = pc[v]
    BY <1>8 DEF Rest, Quit, WaitingThread, Inv, TypeOK
  <2> QED
    BY <2>1, <2>2, TakenReplace
<1> QED
  BY <1>1, <1>2, <1>3, <1>4, <1>5, <1>6, <1>7, <1>8, TakenGet, TakenStart
     DEF Next, Call, Step

(* While Done() is true no task is taken or executing, whatever the number  *)
(* of workers and whatever generation they belong to.                       *)
THEOREM DoneCorrect == Spec => []DoneMeansNoneRunning
<1>1. Init => TakenHeld
  BY DEF Init, TakenHeld
<1>2. Inv /\ TakenHeld => DoneMeansNoneRunning
  <2>1. SUFFICES ASSUME Inv, TakenHeld, life = "alive", m_workingThreads = 0
                 PROVE  \A t \in Task : status[t] \notin {"taken", "running"}
    BY DEF DoneMeansNoneRunning
  <2>2. Counted = {}
    BY <2>1, CountedFinite DEF Inv, CounterExact
  <2> QED
    BY <2>1, <2>2 DEF TakenHeld, Inv, RunningHeld, Counted, CountedPoint
<1>3. Init => AbortedOld
  BY DEF Init, AbortedOld
<1>4. Inv /\ AbortedOld /\ [Next]_vars => AbortedOld'
  BY AbortedOldNext
<1> QED
  BY <1>1, <1>2, <1>3, <1>4, SpecInv, PlaceInit, PlaceNext, TakenNext, PTL DEF Spec

-----------------------------------------------------------------------------
(* ALLDONE: besides, a queued task stands in the queue.                     *)
QueuedStands ==
  \A t \in Task : status[t] = "queued" =>
    \E i \in DOMAIN m_tasksQueue : m_tasksQueue[i] = t

LEMMA StandsAdd ==
  ASSUME Inv, QueuedStands, NEW u \in Task, AddTask(u)
  PROVE  QueuedStands'
<1>1. /\ m_tasksQueue' = Append(m_tasksQueue, u)
      /\ status' = [status EXCEPT ![u] = "queued"]
  BY DEF AddTask
<1>2. /\ m_tasksQueue \in Seq(Task) /\ DOMAIN m_tasksQueue = 1..Len(m_tasksQueue)
      /\ DOMAIN m_tasksQueue' = 1..Len(m_tasksQueue) + 1
      /\ \A i \in DOMAIN m_tasksQueue : m_tasksQueue'[i] = m_tasksQueue[i]
      /\ m_tasksQueue'[Len(m_tasksQueue) + 1] = u
  BY <1>1 DEF Inv, TypeOK
<1>3. /\ DOMAIN m_tasksQueue \subseteq DOMAIN m_tasksQueue'
      /\ Len(m_tasksQueue) + 1 \in DOMAIN m_tasksQueue'
  BY <1>2
<1>4. \A t \in Task : status'[t] = "queued" => status[t] = "queued" \/ t = u
  BY <1>1 DEF Inv, TypeOK
<1> SUFFICES ASSUME NEW t \in Task, status'[t] = "queued"
             PROVE  \E i \in DOMAIN m_tasksQueue' : m_tasksQueue'[i] = t
  BY DEF QueuedStands
<1>5. CASE t = u
  BY <1>2, <1>3, <1>5
<1>6. CASE status[t] = "queued"
  <2>1. PICK i \in DOMAIN m_tasksQueue : m_tasksQueue[i] = t
    BY <1>6 DEF QueuedStands
  <2> QED
    BY <1>2, <1>3, <2>1
<1> QED
  BY <1>4, <1>5, <1>6

LEMMA StandsGet ==
  ASSUME Inv, QueuedStands, NEW w \in Worker, GetNextTask(w)
  PROVE  QueuedStands'
<1>1. CASE m_tasksQueue = <<>>
  BY <1>1 DEF GetNextTask, QueuedStands
<1>2. CASE m_tasksQueue # <<>>
  <2> DEFINE h == Head(m_tasksQueue)
  <2>1. /\ status' = [status EXCEPT ![h] = "taken"]
        /\ m_tasksQueue' = Tail(m_tasksQueue)
    BY <1>2 DEF GetNextTask, PopFront
  <2>2. /\ h = m_tasksQueue[1] /\ h \in Task
        /\ \A i \in DOMAIN m_tasksQueue : i # 1 => /\ i - 1 \in DOMAIN m_tasksQueue'
                                                  /\ m_tasksQueue'[i - 1] = m_tasksQueue[i]
    BY <1>2, <2>1 DEF Inv, TypeOK
  <2>3. \A t \in Task : status'[t] = "queued" => status[t] = "queued" /\ t # h
    BY <2>1, <2>2 DEF Inv, TypeOK
  <2>4. SUFFICES ASSUME NEW t \in Task, status'[t] = "queued"
                 PROVE  \E i \in DOMAIN m_tasksQueue' : m_tasksQueue'[i] = t
    BY DEF QueuedStands
  <2>5. PICK i \in DOMAIN m_tasksQueue : m_tasksQueue[i] = t
    BY <2>3, <2>4 DEF QueuedStands
  <2>6. i # 1
    BY <2>2, <2>3, <2>4, <2>5
  <2> QED
    BY <2>2, <2>5, <2>6
<1> QED
  BY <1>1, <1>2

LEMMA StandsNext == Inv /\ QueuedStands /\ [Next]_vars => QueuedStands'
<1> SUFFICES ASSUME Inv, QueuedStands, [Next]_vars PROVE QueuedStands'
  OBVIOUS
<1>1. ASSUME m_tasksQueue' = m_tasksQueue,
             \A t \in Task : status'[t] = "queued" => status[t] = "queued"
      PROVE  QueuedStands'
  BY <1>1 DEF QueuedStands
<1>2. CASE AbortAllTasks \/ Destroy
  <2>1. \/ \A t \in Task : status'[t] # "queued"
        \/ UNCHANGED <<m_tasksQueue, status>>
    BY <1>2 DEF AbortAllTasks, Destroy
  <2> QED
    BY <2>1 DEF QueuedStands
<1>3. CASE \/ UNCHANGED vars \/ BatchBegin \/ BatchEnd \/ ApplyConcurrentThreads
           \/ \E n \in Size : SetConcurrentThreads(n)
  BY <1>1, <1>3 DEF vars, poolVars, taskVars, BatchBegin, BatchEnd,
                    ApplyConcurrentThreads, SetConcurrentThreads
<1>4. ASSUME NEW w \in Worker,
             \/ SemWait(w) \/ CheckAborted(w) \/ WorkingThread(w) \/ PublishTask(w)
             \/ TaskDone(w) \/ LoopTest(w) \/ Rest(w) \/ Quit(w) \/ StrayCall(w)
      PROVE  QueuedStands'
  <2>1. UNCHANGED <<m_tasksQueue, status>>
    BY <1>4 DEF SemWait, CheckAborted, WorkingThread, PublishTask, TaskDone, LoopTest,
                Rest, Quit, WaitingThread, StrayCall, poolVars, taskVars
  <2> QED
    BY <1>1, <2>1
<1>5. ASSUME NEW w \in Worker, StartTask(w) \/ FinishTask(w) PROVE QueuedStands'
  <2>1. /\ UNCHANGED m_tasksQueue
        /\ \/ status' = [status EXCEPT ![m_pTask[w]] = "running"]
           \/ status' = [status EXCEPT ![m_pTask[w]] = "dropped"]
           \/ status' = [status EXCEPT ![m_pTask[w]] = "ended"]
    BY <1>5 DEF StartTask, FinishTask, poolVars
  <2>2. \A t \in Task : status'[t] = "queued" => status[t] = "queued"
    BY <2>1 DEF Inv, TypeOK
  <2> QED
    BY <1>1, <2>1, <2>2
<1> QED
  BY <1>2, <1>3, <1>4, <1>5, StandsAdd, StandsGet DEF Next, Call, Step

(* Only the last worker to rest posts ALLDONE.                              *)
LEMMA AllDoneStep ==
  ASSUME Inv, Inv', [Next]_vars, ~notified, notified'
  PROVE  life' = "alive" /\ m_workingThreads' = 0 /\ m_tasksQueue' = <<>>
<1>1. PICK w \in Worker : Rest(w) \/ Quit(w)
  <2>1. CASE UNCHANGED vars
    BY <2>1 DEF vars
  <2>2. CASE Call
    BY <2>2 DEF Call, AddTask, BatchBegin, BatchEnd, AbortAllTasks, SetConcurrentThreads,
                ApplyConcurrentThreads, Destroy
  <2>3. ASSUME NEW w \in Worker, Step(w), ~Rest(w), ~Quit(w) PROVE FALSE
    BY <2>3 DEF Step, SemWait, CheckAborted, WorkingThread, GetNextTask, PublishTask,
                StartTask, FinishTask, TaskDone, LoopTest, StrayCall
  <2> QED
    BY <2>1, <2>2, <2>3 DEF Next
<1>2. /\ life' = "alive" /\ LastOut /\ m_tasksQueue' = m_tasksQueue
      /\ m_workingThreads' = m_workingThreads - 1
  BY <1>1 DEF Rest, Quit, WaitingThread
<1> QED
  BY <1>2 DEF LastOut, Inv, TypeOK

(* When ALLDONE is first posted after an AddTask, no task is queued, taken  *)
(* or executing.                                                            *)
THEOREM AllDoneCorrect == Spec => AllDoneIsQuiet
<1>1. Init => QueuedStands
  BY DEF Init, QueuedStands
<1>2. ASSUME Inv, Inv', QueuedStands', DoneMeansNoneRunning', [Next]_vars
      PROVE  [~notified /\ notified' =>
                \A t \in Task : status'[t] \notin {"queued", "taken", "running"}]_vars
  <2>1. SUFFICES ASSUME ~notified, notified'
                 PROVE  \A t \in Task : status'[t] \notin {"queued", "taken", "running"}
    OBVIOUS
  <2>2. life' = "alive" /\ m_workingThreads' = 0 /\ m_tasksQueue' = <<>>
    BY <1>2, <2>1, AllDoneStep
  <2>3. \A t \in Task : status'[t] # "queued"
    BY <1>2, <2>2 DEF QueuedStands
  <2> QED
    BY <1>2, <2>2, <2>3 DEF DoneMeansNoneRunning
<1> QED
  BY <1>1, <1>2, SpecInv, StandsNext, DoneCorrect, PTL DEF Spec, AllDoneIsQuiet

-----------------------------------------------------------------------------
(* Every step of the pool is a step of TaskPool or leaves its variables     *)
(* alone.  First the steps that move no task.                               *)
LEMMA RefineStutter ==
  ASSUME UNCHANGED <<m_tasksQueue, status, m_concurrentThreads>>
  PROVE  UNCHANGED Abstract!vars
BY DEF Abstract!vars, Running

LEMMA RefineAdd ==
  ASSUME Inv, NEW t \in Task, AddTask(t)
  PROVE  Abstract!Add(t)
<1>1. /\ status[t] = "new" /\ status' = [status EXCEPT ![t] = "queued"]
      /\ m_tasksQueue' = Append(m_tasksQueue, t)
      /\ UNCHANGED m_concurrentThreads
      /\ status \in [Task -> Status]
  BY DEF AddTask, Inv, TypeOK
<1>2. /\ {u \in Task : status'[u] = "new"} = {u \in Task : status[u] = "new"} \ {t}
      /\ {u \in Task : status'[u] = "taken"} = {u \in Task : status[u] = "taken"}
      /\ Running' = Running
  BY <1>1 DEF Running
<1> QED
  BY <1>1, <1>2 DEF Abstract!Add

LEMMA RefineClear ==
  ASSUME Inv, AbortAllTasks \/ Destroy
  PROVE  Abstract!Clear \/ UNCHANGED Abstract!vars
<1>1. CASE UNCHANGED <<m_tasksQueue, status>>
  BY <1>1, RefineStutter DEF AbortAllTasks, Destroy
<1>2. CASE ~UNCHANGED <<m_tasksQueue, status>>
  <2>1. /\ m_tasksQueue' = <<>> /\ UNCHANGED m_concurrentThreads
        /\ status' = [t \in Task |-> IF status[t] = "queued" THEN "removed" ELSE status[t]]
    BY <1>2 DEF AbortAllTasks, Destroy
  <2>2. /\ {t \in Task : status'[t] = "new"} = {t \in Task : status[t] = "new"}
        /\ {t \in Task : status'[t] = "taken"} = {t \in Task : status[t] = "taken"}
        /\ Running' = Running
    BY <2>1 DEF Running
  <2> QED
    BY <2>1, <2>2 DEF Abstract!Clear
<1> QED
  BY <1>1, <1>2

(* The limit changes only while no worker is counted, so none executes.     *)
LEMMA NoneCounted ==
  ASSUME Inv', m_workingThreads' = 0, life' = "alive"
  PROVE  Running' = {}
<1>1. IsFiniteSet(Counted')
  BY WorkerFinite, FS_Subset DEF Counted
<1>2. Counted' = {}
  BY <1>1, FS_CardinalityType, FS_EmptySet DEF Inv, CounterExact
<1> QED
  BY <1>2 DEF Running, Inv, RunningHeld, Counted, CountedPoint

LEMMA RefineResize ==
  ASSUME Inv', NEW n \in Size, ReplaceThreads(n), m_workingThreads' = 0,
         life' = "alive", UNCHANGED <<m_tasksQueue, status>>
  PROVE  Abstract!Resize(n)
<1>1. Running = {} /\ Running' = {}
  BY NoneCounted DEF Running
<1> QED
  BY <1>1 DEF Abstract!Resize, ReplaceThreads

LEMMA RefineTake ==
  ASSUME Inv, PlaceInv, NEW w \in Worker, GetNextTask(w)
  PROVE  Abstract!Take \/ UNCHANGED Abstract!vars
<1>1. CASE m_tasksQueue = <<>>
  BY <1>1, RefineStutter DEF GetNextTask
<1>2. CASE m_tasksQueue # <<>>
  <2> DEFINE h == Head(m_tasksQueue)
  <2>1. /\ status' = [status EXCEPT ![h] = "taken"]
        /\ m_tasksQueue' = Tail(m_tasksQueue)
        /\ UNCHANGED m_concurrentThreads
    BY <1>2 DEF GetNextTask, PopFront
  <2>2. h \in Task /\ h = m_tasksQueue[1] /\ 1 \in DOMAIN m_tasksQueue
    BY <1>2 DEF Inv, TypeOK
  <2>3. status[h] = "queued" /\ status \in [Task -> Status]
    BY <2>2 DEF PlaceInv, QueueQueued, Inv, TypeOK
  <2>4. /\ {t \in Task : status'[t] = "new"} = {t \in Task : status[t] = "new"}
        /\ {t \in Task : status'[t] = "taken"} = {t \in Task : status[t] = "taken"} \cup {h}
        /\ Running' = Running
    BY <2>1, <2>2, <2>3 DEF Running
  <2> QED
    BY <1>2, <2>1, <2>4 DEF Abstract!Take
<1> QED
  BY <1>1, <1>2

(* Execute() on one more task keeps within the limit: InvLimit afterwards.  *)
LEMMA RefineStart ==
  ASSUME Inv, Inv', RunningWithinLimit', PlaceInv, NEW w \in Worker, StartTask(w)
  PROVE  \E t \in Task : Abstract!Execute(t) \/ Abstract!GiveUp(t)
<1> DEFINE t == m_pTask[w]
<1>1. /\ pc[w] = "test" /\ UNCHANGED <<m_tasksQueue, m_concurrentThreads>>
      /\ status' = [status EXCEPT ![t] = IF MayExecute(w) THEN "running" ELSE "dropped"]
  BY DEF StartTask, Goto, poolVars
<1>2. t \in Task /\ status[t] = "taken" /\ status \in [Task -> Status]
  BY <1>1 DEF PlaceInv, PublishedHeld, HeldStatus, Holds, Inv, TypeOK
<1>3. /\ {u \in Task : status'[u] = "new"} = {u \in Task : status[u] = "new"}
      /\ {u \in Task : status'[u] = "taken"} = {u \in Task : status[u] = "taken"} \ {t}
  BY <1>1, <1>2
<1>4. CASE MayExecute(w)
  <2>1. Running' = Running \cup {t} /\ t \notin Running
    BY <1>1, <1>2, <1>4 DEF Running
  <2>2. IsFiniteSet(Running)
    <3>1. IsFiniteSet(m_threads)
      BY WorkerFinite, FS_Subset DEF m_threads
    <3> DEFINE held == {m_pTask[v] : v \in m_threads}
               f == [v \in m_threads |-> m_pTask[v]]
    <3>2. IsFiniteSet(held)
      <4>1. f \in Surjection(m_threads, held)
        BY DEF Surjection
      <4> QED
        BY <3>1, <4>1, FS_Surjection
    <3>3. Running \subseteq held
      BY DEF Running, Inv, RunningHeld, ExecutingFit
    <3> QED
      BY <3>2, <3>3, FS_Subset
  <2>3. Cardinality(Running') = Cardinality(Running) + 1 /\ Cardinality(Running) \in Nat
    BY <2>1, <2>2, FS_AddElement, FS_CardinalityType
  <2>4. Cardinality(Running) < m_concurrentThreads
    BY <1>1, <2>3 DEF RunningWithinLimit, Inv, TypeOK, Size
  <2>5. Abstract!Cardinality(Running) = Cardinality(Running)
    BY DEF Abstract!Cardinality, Cardinality, Abstract!IsFiniteSet, IsFiniteSet
  <2> QED
    BY <1>1, <1>2, <1>3, <2>1, <2>4, <2>5 DEF Abstract!Execute
<1>5. CASE ~MayExecute(w)
  <2>1. Running' = Running
    BY <1>1, <1>2, <1>5 DEF Running
  <2> QED
    BY <1>1, <1>2, <1>3, <2>1 DEF Abstract!GiveUp
<1> QED
  BY <1>4, <1>5

LEMMA RefineFinish ==
  ASSUME Inv, PlaceInv, NEW w \in Worker, FinishTask(w)
  PROVE  \E t \in Task : Abstract!Finish(t)
<1> DEFINE t == m_pTask[w]
<1>1. /\ pc[w] = "exec" /\ UNCHANGED <<m_tasksQueue, m_concurrentThreads>>
      /\ status' = [status EXCEPT ![t] = "ended"]
  BY DEF FinishTask, Goto, poolVars
<1>2. t \in Task /\ status[t] = "running" /\ status \in [Task -> Status]
  BY <1>1 DEF PlaceInv, PublishedHeld, HeldStatus, Holds, Inv, TypeOK
<1>3. /\ {u \in Task : status'[u] = "new"} = {u \in Task : status[u] = "new"}
      /\ {u \in Task : status'[u] = "taken"} = {u \in Task : status[u] = "taken"}
      /\ Running' = Running \ {t} /\ t \in Running
  BY <1>1, <1>2 DEF Running
<1> QED
  BY <1>1, <1>2, <1>3 DEF Abstract!Finish

LEMMA RefineNext ==
  ASSUME Inv, Inv', PlaceInv, [Next]_vars
  PROVE  [Abstract!Next]_(Abstract!vars)
<1>0. RunningWithinLimit'
  BY InvLimit, PTL
<1>1. CASE BatchBegin \/ BatchEnd \/ (\E n \in Size : SetConcurrentThreads(n))
           \/ UNCHANGED vars
  BY <1>1, RefineStutter DEF BatchBegin, BatchEnd, SetConcurrentThreads, taskVars,
                             vars, poolVars
<1>2. CASE ApplyConcurrentThreads
  <2>1. CASE m_workingThreads = 0
    <3>1. client \in Size
      BY <1>2 DEF ApplyConcurrentThreads, Inv, TypeOK
    <3>2. Abstract!Resize(client)
      BY <1>2, <2>1, <3>1, RefineResize DEF ApplyConcurrentThreads
    <3> QED
      BY <3>1, <3>2 DEF Abstract!Next, Size
  <2>2. CASE m_workingThreads # 0
    BY <1>2, <2>2, RefineStutter DEF ApplyConcurrentThreads
  <2> QED
    BY <2>1, <2>2
<1>3. ASSUME NEW w \in Worker,
             SemWait(w) \/ CheckAborted(w) \/ WorkingThread(w) \/ TaskDone(w)
             \/ LoopTest(w) \/ StrayCall(w) \/ PublishTask(w)
      PROVE  UNCHANGED Abstract!vars
  BY <1>3, RefineStutter DEF SemWait, CheckAborted, WorkingThread, TaskDone, LoopTest,
                             StrayCall, PublishTask, poolVars, taskVars
<1>4. ASSUME NEW w \in Worker, Rest(w) \/ Quit(w)
      PROVE  [Abstract!Next]_(Abstract!vars)
  <2>1. PICK from \in {"rest", "quit"}, after \in {"sem", "dead"} :
               WaitingThread(w, from, after)
    BY <1>4 DEF Rest, Quit
  <2>2. /\ life' = "alive" /\ UNCHANGED <<m_tasksQueue, status>>
        /\ m_workingThreads' = m_workingThreads - 1
    BY <2>1 DEF WaitingThread
  <2>3. CASE LastOut /\ m_concurrentThreadsSchedule # 0
    <3>1. m_concurrentThreadsSchedule \in Size
      BY <2>3 DEF Inv, TypeOK
    <3>2. ReplaceThreads(m_concurrentThreadsSchedule)
      BY <2>1, <2>3 DEF WaitingThread
    <3>3. m_workingThreads' = 0
      BY <2>2, <2>3 DEF LastOut, Inv, TypeOK
    <3>4. Abstract!Resize(m_concurrentThreadsSchedule)
      BY <2>2, <3>1, <3>2, <3>3, RefineResize
    <3> QED
      BY <3>1, <3>4 DEF Abstract!Next, Size
  <2>4. CASE ~(LastOut /\ m_concurrentThreadsSchedule # 0)
    <3>1. UNCHANGED m_concurrentThreads
      BY <2>1, <2>4 DEF WaitingThread
    <3> QED
      BY <2>2, <3>1, RefineStutter
  <2> QED
    BY <2>3, <2>4
<1>5. ASSUME NEW t \in Task, AddTask(t) PROVE Abstract!Next
  BY <1>5, RefineAdd DEF Abstract!Next
<1>6. CASE AbortAllTasks \/ Destroy
  BY <1>6, RefineClear DEF Abstract!Next
<1>7. ASSUME NEW w \in Worker, GetNextTask(w) PROVE [Abstract!Next]_(Abstract!vars)
  BY <1>7, RefineTake DEF Abstract!Next
<1>8. ASSUME NEW w \in Worker, StartTask(w) \/ FinishTask(w) PROVE Abstract!Next
  BY <1>0, <1>8, RefineStart, RefineFinish DEF Abstract!Next
<1> QED
  BY <1>1, <1>2, <1>3, <1>4, <1>5, <1>6, <1>7, <1>8 DEF Next, Call, Step

(* The pool implements TaskPool: tasks are taken in the order in which they *)
(* were added, each executes at most once and within the limit, and the     *)
(* limit changes only while none executes.                                  *)
THEOREM Refinement == Spec => RefinesTaskPool
<1>1. Init => Abstract!Init
  <2>1. SUFFICES ASSUME Init PROVE Abstract!Init
    OBVIOUS
  <2>2. /\ {t \in Task : status[t] = "new"} = Task
        /\ {t \in Task : status[t] = "taken"} = {}
        /\ Running = {}
    BY <2>1 DEF Init, Running
  <2> QED
    BY <2>1, <2>2 DEF Init, Abstract!Init, Size
<1> QED
  BY <1>1, SpecInv, PlaceInit, PlaceNext, RefineNext, PTL
     DEF Spec, RefinesTaskPool, Abstract!Spec
=============================================================================
