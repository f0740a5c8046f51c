------------------------------ MODULE TaskPool ------------------------------
(***************************************************************************)
(* What cbThreadPool promises to its owner (include/cbthreadpool.h), with  *)
(* no worker, lock or semaphore: tasks are taken in the order in which     *)
(* they were added, each is executed at most once, at most `limit' of them *)
(* at a time, and the limit changes only while none is executing.          *)
(***************************************************************************)
EXTENDS Naturals, Sequences, FiniteSets

CONSTANTS Task, MaxSize

VARIABLES
  fresh,    \* tasks not added yet
  queue,    \* tasks added, not taken yet
  taken,    \* tasks removed from the queue, not executing yet
  running,  \* tasks executing
  limit     \* number of concurrent threads

vars == <<fresh, queue, taken, running, limit>>

Init ==
  /\ fresh = Task /\ queue = <<>> /\ taken = {} /\ running = {}
  /\ limit \in 1..MaxSize

Add(t) ==
  /\ t \in fresh
  /\ fresh' = fresh \ {t}
  /\ queue' = Append(queue, t)
  /\ UNCHANGED <<taken, running, limit>>

Take ==
  /\ queue # <<>>
  /\ queue' = Tail(queue)
  /\ taken' = taken \cup {Head(queue)}
  /\ UNCHANGED <<fresh, running, limit>>

Execute(t) ==
  /\ t \in taken
  /\ Cardinality(running) < limit
  /\ taken' = taken \ {t}
  /\ running' = running \cup {t}
  /\ UNCHANGED <<fresh, queue, limit>>

Finish(t) ==
  /\ t \in running
  /\ running' = running \ {t}
  /\ UNCHANGED <<fresh, queue, taken, limit>>

(* A taken task may be given up without being executed.                     *)
GiveUp(t) ==
  /\ t \in taken
  /\ taken' = taken \ {t}
  /\ UNCHANGED <<fresh, queue, running, limit>>

Clear ==
  /\ queue' = <<>>
  /\ UNCHANGED <<fresh, taken, running, limit>>

Resize(n) ==
  /\ running = {}
  /\ limit' = n
  /\ UNCHANGED <<fresh, queue, taken, running>>

Next ==
  \/ \E t \in Task : Add(t) \/ Execute(t) \/ Finish(t) \/ GiveUp(t)
  \/ Take \/ Clear
  \/ \E n \in 1..MaxSize : Resize(n)

Spec == Init /\ [][Next]_vars
=============================================================================
