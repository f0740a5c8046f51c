------------------------- MODULE FileManager_proofs -------------------------
(***************************************************************************)
(* Proofs about FileManager, for every set of loaders and files.           *)
(*                                                                         *)
(* Base is the shape of the state together with Counted: the semaphore of  *)
(* a thread and those who are about to post it number the jobs in its      *)
(* queue, so a thread never pops an empty one.  Safe says of a file what   *)
(* the disk holds at each point of a save and while a deletion is due, and *)
(* Delay that its last write came before the naps; both rest on Base.      *)
(* The types and the loaders follow, and rest on Base too.                 *)
(***************************************************************************)
EXTENDS FileManager, FiniteSetTheorems, SequenceTheorems, TLAPS

Texts == {"absent", "partial", "last", "older"}
ThreadStates == [at : {"waits", "pops", "runs", "reads", "ready", "sleeps", "deletes"},
                 job : Jobs \cup {NoJob}]
ClientStates == {"none", "queued", "holds", "waits", "has data"}
SaveStates == [at : {"no", "copies", "copied", "opens", "writes", "writes new",
                     "backs up", "posts"}, file : Files \cup {NoFile}]
DiskStates == [file : Texts, backup : Texts, known : BOOLEAN]

(* The variables that the proofs need, loader excepted.                     *)
Shape ==
  /\ phase \in {"running", "shutting down", "exited", "crashed"}
  /\ queue \in [Threads -> Seq(Jobs)]
  /\ semaphore \in [Threads -> Nat]
  /\ thread \in [Threads -> ThreadStates]
  /\ client \in [Loaders -> ClientStates]
  /\ save \in SaveStates
  /\ save.at # "no" => save.file \in Files
  /\ disk \in [Files -> DiskStates]
  /\ fresh \subseteq Files

(* The loaders that were pushed for thread t and not posted yet.            *)
Pushed(t) == {l \in Loaders : client[l] = "queued" /\ ThreadOf(l) = t}

Popping(t) == IF thread[t].at = "pops" THEN 1 ELSE 0
Posting(t) == IF save.at = "posts" /\ t = "delayedDeleteThread" THEN 1 ELSE 0

(* The semaphore and those about to post it count the jobs of the queue     *)
(* (BackgroundThread::Queue and Entry).                                     *)
Counted ==
  Up => \A t \in Threads :
    Len(queue[t]) = semaphore[t] + Popping(t) + Cardinality(Pushed(t)) + Posting(t)

Base == Shape /\ Counted
-----------------------------------------------------------------------------
LEMMA PushedFinite ==
  ASSUME NEW t
  PROVE  /\ IsFiniteSet(Pushed(t)) /\ IsFiniteSet(Pushed(t)')
         /\ Cardinality(Pushed(t)) \in Nat
         /\ Cardinality(Pushed(t)') \in Nat
<1>1. IsFiniteSet(Pushed(t)) /\ IsFiniteSet(Pushed(t)')
  BY FilesAssumption, FS_Subset DEF Pushed
<1> QED
  BY <1>1, FS_CardinalityType

(* A client that comes from its push, or goes on to its post.               *)
LEMMA PushedMore ==
  ASSUME Shape, NEW l \in Loaders, client[l] # "queued",
         client' = [client EXCEPT ![l] = "queued"]
  PROVE  \A t \in Threads : Cardinality(Pushed(t)') =
           Cardinality(Pushed(t)) + (IF t = ThreadOf(l) THEN 1 ELSE 0)
<1> TAKE t \in Threads
<1>1. CASE t = ThreadOf(l)
  <2>1. Pushed(t)' = Pushed(t) \cup {l} /\ l \notin Pushed(t)
    BY <1>1 DEF Pushed, Shape
  <2> QED
    BY <1>1, <2>1, PushedFinite, FS_AddElement
<1>2. CASE t # ThreadOf(l)
  <2>1. Pushed(t)' = Pushed(t)
    BY <1>2 DEF Pushed, Shape
  <2> QED
    BY <1>2, <2>1, PushedFinite
<1> QED
  BY <1>1, <1>2

LEMMA PushedFewer ==
  ASSUME Shape, NEW l \in Loaders, NEW at, client[l] = "queued", at # "queued",
         client' = [client EXCEPT ![l] = at]
  PROVE  \A t \in Threads : Cardinality(Pushed(t)) =
           Cardinality(Pushed(t)') + (IF t = ThreadOf(l) THEN 1 ELSE 0)
<1> TAKE t \in Threads
<1>1. CASE t = ThreadOf(l)
  <2>1. Pushed(t) = Pushed(t)' \cup {l} /\ l \notin Pushed(t)'
    BY <1>1 DEF Pushed, Shape
  <2> QED
    BY <1>1, <2>1, PushedFinite, FS_AddElement
<1>2. CASE t # ThreadOf(l)
  <2>1. Pushed(t)' = Pushed(t)
    BY <1>2 DEF Pushed, Shape
  <2> QED
    BY <1>2, <2>1, PushedFinite
<1> QED
  BY <1>1, <1>2

LEMMA PushedSame ==
  ASSUME Shape, NEW l \in Loaders, NEW at, client[l] # "queued", at # "queued",
         client' = [client EXCEPT ![l] = at]
  PROVE  \A t \in Threads : Pushed(t)' = Pushed(t)
BY DEF Pushed, Shape

(* A thread pops a job that is there.                                       *)
LEMMA PopFinds ==
  ASSUME Base, Up, NEW t \in Threads, thread[t].at = "pops"
  PROVE  /\ queue[t] # <<>>
         /\ Head(queue[t]) \in Jobs
         /\ Tail(queue[t]) \in Seq(Jobs)
         /\ Len(Tail(queue[t])) = Len(queue[t]) - 1
<1>1. queue[t] \in Seq(Jobs) /\ semaphore[t] \in Nat
  BY DEF Base, Shape
<1>2. Popping(t) = 1 /\ Posting(t) \in Nat
  BY DEF Popping, Posting
<1>3. Len(queue[t]) > 0
  BY <1>1, <1>2, PushedFinite DEF Base, Counted
<1> QED
  BY <1>1, <1>3
-----------------------------------------------------------------------------
(* What the operations the actions are made of do to the shape.             *)

LEMMA LenIsNat ==
  ASSUME NEW q \in [Threads -> Seq(Jobs)], NEW u \in Threads
  PROVE  Len(q[u]) \in Nat
<1>1. q[u] \in Seq(Jobs)
  OBVIOUS
<1> QED
  BY <1>1

LEMMA Numbers ==
  ASSUME Shape, NEW u \in Threads
  PROVE  /\ Len(queue[u]) \in Nat /\ semaphore[u] \in Nat
         /\ Popping(u) \in Nat /\ Popping(u)' \in Nat
         /\ Posting(u) \in Nat /\ Posting(u)' \in Nat
         /\ Cardinality(Pushed(u)) \in Nat /\ Cardinality(Pushed(u)') \in Nat
<1>1. queue \in [Threads -> Seq(Jobs)] /\ semaphore \in [Threads -> Nat]
  BY DEF Shape
<1>2. /\ Popping(u) \in Nat /\ Popping(u)' \in Nat
      /\ Posting(u) \in Nat /\ Posting(u)' \in Nat
  BY DEF Popping, Posting
<1> QED
  BY <1>1, <1>2, LenIsNat, PushedFinite

LEMMA ThreadOfJob ==
  /\ \A j : ThreadOf(j) \in Threads
  /\ \A f \in Files : ThreadOf(f) = "delayedDeleteThread"
BY FilesAssumption DEF ThreadOf, Threads, Loaders

LEMMA GoesShape ==
  ASSUME Shape, NEW t \in Threads, NEW j \in Jobs \cup {NoJob},
         NEW at \in {"waits", "pops", "runs", "reads", "ready", "sleeps", "deletes"},
         Goes(t, at, j)
  PROVE  thread' \in [Threads -> ThreadStates]
<1>1. [at |-> at, job |-> j] \in ThreadStates
  BY DEF ThreadStates
<1> QED
  BY <1>1 DEF Goes, Shape

LEMMA JobShape ==
  ASSUME Shape, NEW t \in Threads
  PROVE  thread[t].job \in Jobs \cup {NoJob}
BY DEF Shape, ThreadStates

LEMMA PushShape ==
  ASSUME Shape, NEW j \in Jobs, Push(j)
  PROVE  /\ queue' \in [Threads -> Seq(Jobs)]
         /\ \A u \in Threads :
              Len(queue'[u]) = Len(queue[u]) + (IF u = ThreadOf(j) THEN 1 ELSE 0)
<1>1. ThreadOf(j) \in Threads /\ queue[ThreadOf(j)] \in Seq(Jobs)
  BY ThreadOfJob DEF Shape
<1>2. /\ Append(queue[ThreadOf(j)], j) \in Seq(Jobs)
      /\ Len(Append(queue[ThreadOf(j)], j)) = Len(queue[ThreadOf(j)]) + 1
  BY <1>1
<1>3. queue' \in [Threads -> Seq(Jobs)]
  BY <1>1, <1>2 DEF Push, Shape
<1> SUFFICES ASSUME NEW u \in Threads
             PROVE  Len(queue'[u]) = Len(queue[u]) + (IF u = ThreadOf(j) THEN 1 ELSE 0)
  BY <1>3
<1>4. CASE u = ThreadOf(j)
  BY <1>1, <1>2, <1>4 DEF Push, Shape
<1>5. CASE u # ThreadOf(j)
  <2>1. queue'[u] = queue[u]
    BY <1>5 DEF Push, Shape
  <2> QED
    BY <1>5, <2>1, Numbers
<1> QED
  BY <1>4, <1>5

LEMMA PostShape ==
  ASSUME Shape, NEW j, Post(j)
  PROVE  /\ semaphore' \in [Threads -> Nat]
         /\ \A u \in Threads :
              semaphore'[u] = semaphore[u] + (IF u = ThreadOf(j) THEN 1 ELSE 0)
<1>1. ThreadOf(j) \in Threads /\ semaphore[ThreadOf(j)] \in Nat
  BY ThreadOfJob DEF Shape
<1>2. semaphore[ThreadOf(j)] + 1 \in Nat
  BY <1>1
<1>3. semaphore' \in [Threads -> Nat]
  BY <1>1, <1>2 DEF Post, Shape
<1> SUFFICES ASSUME NEW u \in Threads
             PROVE  semaphore'[u] = semaphore[u] + (IF u = ThreadOf(j) THEN 1 ELSE 0)
  BY <1>3
<1>4. CASE u = ThreadOf(j)
  BY <1>1, <1>4 DEF Post, Shape
<1>5. CASE u # ThreadOf(j)
  <2>1. semaphore'[u] = semaphore[u]
    BY <1>5 DEF Post, Shape
  <2> QED
    BY <1>5, <2>1, Numbers
<1> QED
  BY <1>4, <1>5

LEMMA SaveGoesShape ==
  ASSUME Shape, save.at # "no",
         \/ Returns
         \/ SaveGoes("copied") \/ SaveGoes("opens") \/ SaveGoes("writes")
         \/ SaveGoes("writes new") \/ SaveGoes("backs up") \/ SaveGoes("posts")
  PROVE  save' \in SaveStates /\ (save'.at # "no" => save'.file \in Files)
<1>1. CASE Returns
  BY <1>1 DEF Returns, NotSaving, SaveStates
<1>2. CASE ~Returns
  BY <1>2 DEF SaveGoes, SaveStates, Shape
<1> QED
  BY <1>1, <1>2

LEMMA BackupShape ==
  ASSUME Shape, NEW f, NEW text \in Texts, disk' = [disk EXCEPT ![f].backup = text]
  PROVE  disk' \in [Files -> DiskStates]
<1>1. CASE f \in Files
  BY <1>1 DEF Shape, DiskStates
<1>2. CASE f \notin Files
  BY <1>2 DEF Shape
<1> QED
  BY <1>1, <1>2

LEMMA SaveAt ==
  ASSUME Shape
  PROVE  /\ \A at : SaveGoes(at) => save'.at = at /\ save'.file = save.file
         /\ Returns => save'.at = "no" /\ save'.file = NoFile
<1>1. ASSUME NEW at, SaveGoes(at)
      PROVE  save'.at = at /\ save'.file = save.file
  <2>1. save \in [at : {"no", "copies", "copied", "opens", "writes", "writes new",
                       "backs up", "posts"}, file : Files \cup {NoFile}]
    BY DEF Shape, SaveStates
  <2> QED
    BY <1>1, <2>1 DEF SaveGoes
<1>2. ASSUME Returns PROVE save'.at = "no" /\ save'.file = NoFile
  BY <1>2 DEF Returns, NotSaving
<1> QED
  BY <1>1, <1>2

LEMMA FileShape ==
  ASSUME Shape, NEW f, NEW text \in Texts, disk' = [disk EXCEPT ![f].file = text]
  PROVE  disk' \in [Files -> DiskStates]
<1>1. CASE f \in Files
  BY <1>1 DEF Shape, DiskStates
<1>2. CASE f \notin Files
  BY <1>2 DEF Shape
<1> QED
  BY <1>1, <1>2

(* The accounts are kept by a step that changes none of their entries.      *)
LEMMA CountedSame ==
  ASSUME Counted, Up' => Up, UNCHANGED <<queue, semaphore>>,
         \A u \in Threads : /\ Pushed(u)' = Pushed(u)
                            /\ Popping(u)' = Popping(u)
                            /\ Posting(u)' = Posting(u)
  PROVE  Counted'
BY DEF Counted
-----------------------------------------------------------------------------
(* Base is kept, action by action.                                          *)

LEMMA EntryBase ==
  ASSUME Base, NEW t \in Threads, Entry(t)
  PROVE  Base'
<1> USE DEF Base
<1>a. Up /\ UNCHANGED <<phase, client, save>>
  BY DEF Entry, Wait, Pop, RunLoader, ReadFile, Ready, RunDelete, Sleep, Delete, loading, saving
<1>b. Up' /\ \A u : Pushed(u)' = Pushed(u) /\ Posting(u)' = Posting(u)
  BY <1>a DEF Up, Pushed, Posting
<1>t. thread[t] \in ThreadStates /\ semaphore[t] \in Nat /\ queue[t] \in Seq(Jobs)
  BY DEF Shape
<1>c. ASSUME Shape', UNCHANGED <<queue, semaphore>>, NEW at, NEW j, Goes(t, at, j),
             at # "pops", thread[t].at # "pops"
      PROVE  Base'
  <2>1. \A u \in Threads : Popping(u)' = Popping(u)
    BY <1>c DEF Popping, Goes, Shape
  <2> QED
    BY <1>a, <1>b, <1>c, <2>1, CountedSame
<1>1. CASE Wait(t)
  <2>1. thread' \in [Threads -> ThreadStates]
    BY <1>1, GoesShape DEF Wait
  <2>2. semaphore' \in [Threads -> Nat] /\ semaphore[t] > 0
    <3>1. semaphore[t] > 0 /\ semaphore[t] - 1 \in Nat
      BY <1>1, <1>t DEF Wait
    <3> QED
      BY <1>1, <3>1 DEF Wait, Shape
  <2>3. Shape'
    BY <1>1, <1>a, <2>1, <2>2 DEF Wait, Shape, saving
  <2>4. ASSUME NEW u \in Threads
        PROVE  semaphore'[u] + Popping(u)' = semaphore[u] + Popping(u)
    <3>1. CASE u = t
      <4>1. semaphore'[u] = semaphore[t] - 1 /\ Popping(u) = 0 /\ Popping(u)' = 1
        BY <1>1, <3>1 DEF Wait, Goes, Popping, Shape
      <4> QED
        BY <1>t, <3>1, <4>1
    <3>2. CASE u # t
      BY <1>1, <3>2 DEF Wait, Goes, Popping, Shape
    <3> QED
      BY <3>1, <3>2
  <2>6. Counted'
    BY <1>1, <1>a, <1>b, <2>2, <2>4, Numbers DEF Counted, Wait
  <2> QED
    BY <2>3, <2>6
<1>2. CASE Pop(t)
  <2>0. /\ queue[t] # <<>> /\ Head(queue[t]) \in Jobs
        /\ Tail(queue[t]) \in Seq(Jobs) /\ Len(Tail(queue[t])) = Len(queue[t]) - 1
    BY <1>2, <1>a, PopFinds DEF Pop
  <2>1. thread' \in [Threads -> ThreadStates]
    BY <1>2, <2>0, GoesShape DEF Pop
  <2>2. queue' \in [Threads -> Seq(Jobs)]
    BY <1>2, <2>0 DEF Pop, Shape
  <2>3. Shape'
    BY <1>2, <1>a, <2>1, <2>2 DEF Pop, Shape, saving
  <2>4. ASSUME NEW u \in Threads
        PROVE  Len(queue'[u]) + Popping(u) = Len(queue[u]) + Popping(u)'
    <3>1. CASE u = t
      <4>1. queue'[u] = Tail(queue[t]) /\ Popping(u) = 1 /\ Popping(u)' = 0
        BY <1>2, <3>1 DEF Pop, Goes, Popping, Shape
      <4> QED
        BY <2>0, <3>1, <4>1, Numbers
    <3>2. CASE u # t
      BY <1>2, <3>2 DEF Pop, Goes, Popping, Shape
    <3> QED
      BY <3>1, <3>2
  <2>6. Counted'
    <3> SUFFICES ASSUME NEW u \in Threads
                 PROVE  Len(queue'[u]) = semaphore[u] + Popping(u)' + Cardinality(Pushed(u)) + Posting(u)
      BY <1>2, <1>b DEF Counted, Pop
    <3>1. Len(queue[u]) = semaphore[u] + Popping(u) + Cardinality(Pushed(u)) + Posting(u)
      BY <1>a DEF Counted
    <3>2. Len(queue'[u]) \in Nat
      BY <2>2, LenIsNat
    <3>3. Len(queue'[u]) + Popping(u) = Len(queue[u]) + Popping(u)'
      BY <2>4
    <3>4. /\ Len(queue[u]) \in Nat /\ semaphore[u] \in Nat
          /\ Popping(u) \in Nat /\ Popping(u)' \in Nat
          /\ Posting(u) \in Nat /\ Cardinality(Pushed(u)) \in Nat
      BY Numbers
    <3> DEFINE newLen == Len(queue'[u])
               len == Len(queue[u])
               newPopping == Popping(u)'
               popping == Popping(u)
               pushed == Cardinality(Pushed(u))
               posting == Posting(u)
               sem == semaphore[u]
    <3>5. /\ newLen \in Nat /\ len \in Nat /\ newPopping \in Nat /\ popping \in Nat
          /\ pushed \in Nat /\ posting \in Nat /\ sem \in Nat
          /\ newLen + popping = len + newPopping
          /\ len = sem + popping + pushed + posting
      BY <3>1, <3>2, <3>3, <3>4
    <3> HIDE DEF newLen, len, newPopping, popping, pushed, posting, sem
    <3>6. newLen = sem + newPopping + pushed + posting
      BY <3>5
    <3> QED
      BY <3>6 DEF newLen, newPopping, pushed, posting, sem
  <2> QED
    BY <2>3, <2>6
<1>3. CASE RunLoader(t)
  <2>1. PICK at \in {"waits", "ready", "reads"} :
          Goes(t, at, IF at = "waits" THEN NoJob ELSE thread[t].job)
    BY <1>3 DEF RunLoader, Done
  <2>2. Shape'
    BY <1>3, <1>a, <2>1, GoesShape, JobShape DEF RunLoader, Shape, saving
  <2> QED
    BY <1>3, <1>c, <2>1, <2>2 DEF RunLoader
<1>4. CASE ReadFile(t)
  <2>2. Shape'
    BY <1>4, <1>a, GoesShape, JobShape DEF ReadFile, Shape, saving
  <2> QED
    BY <1>4, <1>c, <2>2 DEF ReadFile
<1>5. CASE Ready(t)
  <2>2. Shape'
    BY <1>5, <1>a, GoesShape DEF Ready, Done, Shape, saving
  <2> QED
    BY <1>5, <1>c, <2>2 DEF Ready, Done
<1>6. CASE RunDelete(t)
  <2>2. Shape'
    BY <1>6, <1>a, GoesShape, JobShape DEF RunDelete, Shape
  <2> QED
    BY <1>6, <1>c, <2>2 DEF RunDelete
<1>7. CASE Sleep(t)
  <2>2. Shape'
    BY <1>7, <1>a, GoesShape, JobShape DEF Sleep, Shape, saving
  <2> QED
    BY <1>7, <1>c, <2>2 DEF Sleep
<1>8. CASE Delete(t)
  <2>1. disk' \in [Files -> DiskStates]
    BY <1>8, BackupShape DEF Delete, Texts
  <2>2. Shape'
    BY <1>8, <1>a, <2>1, GoesShape DEF Delete, Done, Shape
  <2> QED
    BY <1>8, <1>c, <2>2 DEF Delete, Done
<1> QED
  BY <1>1, <1>2, <1>3, <1>4, <1>5, <1>6, <1>7, <1>8 DEF Entry

LEMMA ClientBase ==
  ASSUME Base, NEW l \in Loaders, Client(l)
  PROVE  Base'
<1> USE DEF Base
<1>a. Up /\ UNCHANGED <<phase, thread, save, disk, fresh>>
  BY DEF Client, Load, PostLoader, WaitReady, DeleteLoader, Woken, saving, background
<1>b. Up' /\ \A u : Popping(u)' = Popping(u) /\ Posting(u)' = Posting(u)
  BY <1>a DEF Up, Popping, Posting
<1>s. ASSUME NEW at \in ClientStates, ClientGoes(l, at),
             queue' \in [Threads -> Seq(Jobs)], semaphore' \in [Threads -> Nat]
      PROVE  Shape'
  BY <1>a, <1>s DEF Shape, ClientGoes
<1>c. ASSUME NEW at \in ClientStates, ClientGoes(l, at), at # "queued",
             client[l] # "queued", UNCHANGED <<queue, semaphore>>
      PROVE  Base'
  <2>1. Shape'
    BY <1>c, <1>s DEF Shape
  <2>2. \A u \in Threads : Pushed(u)' = Pushed(u)
    BY <1>c, PushedSame DEF ClientGoes
  <2> QED
    BY <1>a, <1>b, <1>c, <2>1, <2>2, CountedSame
<1>1. CASE Load(l) /\ l \in EditorReusers
  BY <1>1, <1>c DEF Load, ClientStates
<1>2. CASE Load(l) /\ l \notin EditorReusers
  <2>0. Push(l) /\ l \in Jobs /\ UNCHANGED semaphore /\ ClientGoes(l, "queued") /\ client[l] = "none"
    BY <1>2 DEF Load, Jobs
  <2>1. Shape'
    BY <2>0, <1>s, PushShape DEF Shape, ClientStates
  <2>2. \A u \in Threads : Cardinality(Pushed(u)') =
           Cardinality(Pushed(u)) + (IF u = ThreadOf(l) THEN 1 ELSE 0)
    BY <2>0, PushedMore DEF ClientGoes
  <2>3. \A u \in Threads :
           Len(queue'[u]) = Len(queue[u]) + (IF u = ThreadOf(l) THEN 1 ELSE 0)
    BY <2>0, PushShape
  <2>4. Counted'
    <3> SUFFICES ASSUME NEW u \in Threads
                 PROVE  Len(queue'[u]) = semaphore'[u] + Popping(u)' + Cardinality(Pushed(u)') + Posting(u)'
      BY DEF Counted
    <3>1. Len(queue[u]) = semaphore[u] + Popping(u) + Cardinality(Pushed(u)) + Posting(u)
      BY <1>a DEF Counted
    <3>2. Cardinality(Pushed(u)') = Cardinality(Pushed(u)) + (IF u = ThreadOf(l) THEN 1 ELSE 0)
      BY <2>2
    <3>3. Len(queue'[u]) = Len(queue[u]) + (IF u = ThreadOf(l) THEN 1 ELSE 0)
      BY <2>3
    <3>4. /\ semaphore'[u] = semaphore[u] /\ Popping(u)' = Popping(u)
          /\ Posting(u)' = Posting(u)
      BY <1>b, <2>0
    <3>5. /\ Len(queue[u]) \in Nat /\ semaphore[u] \in Nat /\ Popping(u) \in Nat
          /\ Posting(u) \in Nat /\ Posting(u)' \in Nat
          /\ Cardinality(Pushed(u)) \in Nat /\ Cardinality(Pushed(u)') \in Nat
      BY Numbers
    <3> QED
      BY <3>1, <3>2, <3>3, <3>4, <3>5
  <2> QED
    BY <2>1, <2>4
<1>3. CASE PostLoader(l)
  <2>0. Post(l) /\ UNCHANGED queue /\ ClientGoes(l, "holds") /\ client[l] = "queued"
    BY <1>3 DEF PostLoader
  <2>1. Shape'
    BY <2>0, <1>s, PostShape DEF Shape, ClientStates
  <2>2. \A u \in Threads : Cardinality(Pushed(u)) =
           Cardinality(Pushed(u)') + (IF u = ThreadOf(l) THEN 1 ELSE 0)
    BY <2>0, PushedFewer DEF ClientGoes
  <2>3. \A u \in Threads :
           semaphore'[u] = semaphore[u] + (IF u = ThreadOf(l) THEN 1 ELSE 0)
    BY <2>0, PostShape
  <2>4. Counted'
    <3> SUFFICES ASSUME NEW u \in Threads
                 PROVE  Len(queue'[u]) = semaphore'[u] + Popping(u)' + Cardinality(Pushed(u)') + Posting(u)'
      BY DEF Counted
    <3>1. Len(queue[u]) = semaphore[u] + Popping(u) + Cardinality(Pushed(u)) + Posting(u)
      BY <1>a DEF Counted
    <3>2. Cardinality(Pushed(u)) = Cardinality(Pushed(u)') + (IF u = ThreadOf(l) THEN 1 ELSE 0)
      BY <2>2
    <3>3. semaphore'[u] = semaphore[u] + (IF u = ThreadOf(l) THEN 1 ELSE 0)
      BY <2>3
    <3>4. /\ Len(queue'[u]) = Len(queue[u]) /\ Popping(u)' = Popping(u)
          /\ Posting(u)' = Posting(u)
      BY <1>b, <2>0
    <3>5. /\ Len(queue[u]) \in Nat /\ semaphore[u] \in Nat /\ Popping(u) \in Nat
          /\ Posting(u) \in Nat /\ Posting(u)' \in Nat
          /\ Cardinality(Pushed(u)) \in Nat /\ Cardinality(Pushed(u)') \in Nat
      BY Numbers
    <3> QED
      BY <3>1, <3>2, <3>3, <3>4, <3>5
  <2> QED
    BY <2>1, <2>4
<1>4. CASE WaitReady(l)
  BY <1>4, <1>c DEF WaitReady, background, ClientStates
<1>5. CASE DeleteLoader(l)
  BY <1>5, <1>c DEF DeleteLoader, background, ClientStates
<1>6. CASE Woken(l)
  BY <1>6, <1>c DEF Woken, background, ClientStates
<1> QED
  BY <1>1, <1>2, <1>3, <1>4, <1>5, <1>6 DEF Client

LEMMA SaveBase ==
  ASSUME Base, SaveStep \/ \E f \in Files : Save(f)
  PROVE  Base'
<1> USE DEF Base
<1>a. Up /\ UNCHANGED <<phase, thread, client>>
  BY DEF SaveStep, Copy, Copied, Open, Write, QueueDelete, PostDelete, Save, background, loading
<1>b. Up' /\ \A u : Popping(u)' = Popping(u) /\ Pushed(u)' = Pushed(u)
  BY <1>a DEF Up, Popping, Pushed
<1>c. ASSUME Shape', UNCHANGED <<queue, semaphore>>, save.at # "posts", save'.at # "posts"
      PROVE  Base'
  <2>1. \A u \in Threads : Posting(u)' = Posting(u)
    BY <1>c DEF Posting
  <2> QED
    BY <1>a, <1>b, <1>c, <2>1, CountedSame
<1>d. ASSUME save.at # "no" PROVE save.file \in Files
  BY <1>d DEF Shape
<1>1. CASE \E f \in Files : Save(f)
  <2>1. PICK f \in Files : Save(f)
    BY <1>1
  <2>2. save' \in SaveStates /\ save'.file \in Files /\ save.at # "posts" /\ save'.at # "posts"
    BY <2>1 DEF Save, SaveStates, NotSaving
  <2>3. Shape'
    BY <1>a, <2>1, <2>2 DEF Shape, Save, background
  <2> QED
    BY <1>c, <2>1, <2>2, <2>3 DEF Save, background
<1>2. CASE Copy
  <2>1. save' \in SaveStates /\ (save'.at # "no" => save'.file \in Files)
    BY <1>2, SaveGoesShape DEF Copy
  <2>2. disk' \in [Files -> DiskStates]
    BY <1>2, BackupShape DEF Copy, Texts
  <2>3. Shape'
    BY <1>2, <1>a, <2>1, <2>2 DEF Shape, Copy, background
  <2>4. save'.at # "posts"
    BY <1>2, SaveAt DEF Copy
  <2> QED
    BY <1>2, <1>c, <2>3, <2>4 DEF Copy, background
<1>3. CASE Copied
  <2>1. save' \in SaveStates /\ (save'.at # "no" => save'.file \in Files)
    BY <1>3, SaveGoesShape DEF Copied
  <2>2. disk' \in [Files -> DiskStates]
    <3>1. disk[save.file].file \in Texts
      BY <1>3, <1>d DEF Copied, Shape, DiskStates
    <3> QED
      BY <1>3, <3>1, BackupShape DEF Copied
  <2>3. Shape'
    BY <1>3, <1>a, <2>1, <2>2 DEF Shape, Copied, background
  <2>4. save'.at # "posts"
    BY <1>3, SaveAt DEF Copied
  <2> QED
    BY <1>3, <1>c, <2>3, <2>4 DEF Copied, background
<1>4. CASE Open
  <2>1. save' \in SaveStates /\ (save'.at # "no" => save'.file \in Files)
    BY <1>4, SaveGoesShape DEF Open
  <2>2. disk' \in [Files -> DiskStates]
    <3>1. CASE UNCHANGED disk
      BY <3>1 DEF Shape
    <3>2. CASE disk' = [disk EXCEPT ![save.file].file = "partial"]
      BY <3>2, FileShape DEF Texts
    <3> QED
      BY <1>4, <3>1, <3>2 DEF Open
  <2>3. Shape'
    BY <1>4, <1>a, <2>1, <2>2 DEF Shape, Open, background
  <2>4. save'.at # "posts"
    <3>1. save'.at \in {"no", "writes", "writes new"}
      BY <1>4, SaveAt DEF Open
    <3> QED
      BY <3>1
  <2> QED
    BY <1>4, <1>c, <2>3, <2>4 DEF Open, background
<1>5. CASE Write
  <2>1. save' \in SaveStates /\ (save'.at # "no" => save'.file \in Files)
    BY <1>5, SaveGoesShape DEF Write
  <2>2. /\ disk' \in [Files -> DiskStates]
        /\ fresh' \subseteq Files
    <3>1. CASE Written(save.file)
      <4>1. save.file \in Files /\ disk[save.file].backup \in Texts
        BY <1>5, <1>d DEF Write, Shape, DiskStates
      <4>2. [file |-> "last", known |-> TRUE,
             backup |-> IF Whole(disk[save.file].backup) THEN "older"
                        ELSE disk[save.file].backup] \in DiskStates
        BY <4>1 DEF DiskStates, Texts
      <4> QED
        BY <3>1, <4>1, <4>2 DEF Written, Shape
    <3>2. CASE ~Written(save.file)
      BY <1>5, <3>2 DEF Write, Shape
    <3> QED
      BY <3>1, <3>2
  <2>3. Shape'
    BY <1>5, <1>a, <2>1, <2>2 DEF Shape, Write, background
  <2>4. save'.at # "posts"
    <3>1. save'.at \in {"no", "backs up"}
      BY <1>5, SaveAt DEF Write
    <3> QED
      BY <3>1
  <2> QED
    BY <1>5, <1>c, <2>3, <2>4 DEF Write, background
<1>6. CASE QueueDelete /\ IsAppShuttingDown
  <2>1. save' \in SaveStates /\ (save'.at # "no" => save'.file \in Files)
    BY <1>6, SaveGoesShape DEF QueueDelete
  <2>2. disk' \in [Files -> DiskStates]
    BY <1>6, BackupShape DEF QueueDelete, Texts
  <2>3. Shape'
    BY <1>6, <1>a, <2>1, <2>2 DEF Shape, QueueDelete
  <2> QED
    BY <1>6, <1>c, <2>3, SaveAt DEF QueueDelete
<1>7. CASE QueueDelete /\ ~IsAppShuttingDown
  <2>0. /\ Push(save.file) /\ SaveGoes("posts") /\ UNCHANGED <<semaphore, disk>>
        /\ save.at = "backs up" /\ save.file \in Files /\ save.file \in Jobs
    BY <1>7, <1>d DEF QueueDelete, Jobs
  <2>1. save' \in SaveStates /\ (save'.at # "no" => save'.file \in Files)
    BY <2>0, SaveGoesShape
  <2>2. Shape'
    BY <1>7, <1>a, <2>0, <2>1, PushShape DEF Shape, QueueDelete
  <2>3. \A u \in Threads : Posting(u)' = Posting(u) + (IF u = ThreadOf(save.file) THEN 1 ELSE 0)
    <3>1. save'.at = "posts" /\ ThreadOf(save.file) = "delayedDeleteThread"
      BY <2>0, ThreadOfJob, SaveAt
    <3>2. \A u \in Threads : Posting(u) = 0
      BY <2>0 DEF Posting
    <3>3. \A u \in Threads : Posting(u)' = IF u = ThreadOf(save.file) THEN 1 ELSE 0
      BY <3>1 DEF Posting
    <3> QED
      BY <3>2, <3>3
  <2>4. \A u \in Threads :
           Len(queue'[u]) = Len(queue[u]) + (IF u = ThreadOf(save.file) THEN 1 ELSE 0)
    BY <2>0, PushShape
  <2>5. Counted'
    <3> SUFFICES ASSUME NEW u \in Threads
                 PROVE  Len(queue'[u]) = semaphore'[u] + Popping(u)' + Cardinality(Pushed(u)') + Posting(u)'
      BY DEF Counted
    <3>1. Len(queue[u]) = semaphore[u] + Popping(u) + Cardinality(Pushed(u)) + Posting(u)
      BY <1>a DEF Counted
    <3>2. Posting(u)' = Posting(u) + (IF u = ThreadOf(save.file) THEN 1 ELSE 0)
      BY <2>3
    <3>3. Len(queue'[u]) = Len(queue[u]) + (IF u = ThreadOf(save.file) THEN 1 ELSE 0)
      BY <2>4
    <3>4. /\ semaphore'[u] = semaphore[u] /\ Popping(u)' = Popping(u)
          /\ Cardinality(Pushed(u)') = Cardinality(Pushed(u))
      BY <1>b, <2>0
    <3>5. /\ Len(queue[u]) \in Nat /\ semaphore[u] \in Nat /\ Popping(u) \in Nat
          /\ Posting(u) \in Nat /\ Posting(u)' \in Nat
          /\ Cardinality(Pushed(u)) \in Nat /\ Cardinality(Pushed(u)') \in Nat
      BY Numbers
    <3> QED
      BY <3>1, <3>2, <3>3, <3>4, <3>5
  <2> QED
    BY <2>2, <2>5
<1>8. CASE PostDelete
  <2>0. /\ Post(save.file) /\ Returns /\ UNCHANGED <<queue, disk>>
        /\ save.at = "posts" /\ save.file \in Files
    BY <1>8, <1>d DEF PostDelete
  <2>1. save' \in SaveStates /\ (save'.at # "no" => save'.file \in Files)
    BY <2>0, SaveGoesShape
  <2>2. Shape'
    BY <1>8, <1>a, <2>0, <2>1, PostShape DEF Shape, PostDelete
  <2>3. \A u \in Threads : Posting(u) = Posting(u)' + (IF u = ThreadOf(save.file) THEN 1 ELSE 0)
    BY <2>0, ThreadOfJob, SaveAt DEF Posting
  <2>4. \A u \in Threads :
           semaphore'[u] = semaphore[u] + (IF u = ThreadOf(save.file) THEN 1 ELSE 0)
    BY <2>0, PostShape
  <2>5. Counted'
    <3> SUFFICES ASSUME NEW u \in Threads
                 PROVE  Len(queue'[u]) = semaphore'[u] + Popping(u)' + Cardinality(Pushed(u)') + Posting(u)'
      BY DEF Counted
    <3>1. Len(queue[u]) = semaphore[u] + Popping(u) + Cardinality(Pushed(u)) + Posting(u)
      BY <1>a DEF Counted
    <3>2. Posting(u) = Posting(u)' + (IF u = ThreadOf(save.file) THEN 1 ELSE 0)
      BY <2>3
    <3>3. semaphore'[u] = semaphore[u] + (IF u = ThreadOf(save.file) THEN 1 ELSE 0)
      BY <2>4
    <3>4. /\ Len(queue'[u]) = Len(queue[u]) /\ Popping(u)' = Popping(u)
          /\ Cardinality(Pushed(u)') = Cardinality(Pushed(u))
      BY <1>b, <2>0
    <3>5. /\ Len(queue[u]) \in Nat /\ semaphore[u] \in Nat /\ Popping(u) \in Nat
          /\ Posting(u) \in Nat /\ Posting(u)' \in Nat
          /\ Cardinality(Pushed(u)) \in Nat /\ Cardinality(Pushed(u)') \in Nat
      BY Numbers
    <3>6. CASE u = ThreadOf(save.file)
      BY <3>1, <3>2, <3>3, <3>4, <3>5, <3>6
    <3>7. CASE u # ThreadOf(save.file)
      BY <3>1, <3>2, <3>3, <3>4, <3>5, <3>7
    <3> QED
      BY <3>6, <3>7
  <2> QED
    BY <2>2, <2>5
<1> QED
  BY <1>1, <1>2, <1>3, <1>4, <1>5, <1>6, <1>7, <1>8 DEF SaveStep

LEMMA SystemBase ==
  ASSUME Base, Shutdown \/ Exit \/ Crash \/ Start \/ \E f \in Files : UserRestores(f)
  PROVE  Base'
<1> USE DEF Base
<1>c. ASSUME Shape', Up' => Up, UNCHANGED <<background, client, save>>
      PROVE  Base'
  BY <1>c, CountedSame DEF background, Pushed, Popping, Posting
<1>1. CASE Shutdown \/ Exit \/ Crash
  <2>1. Shape'
    BY <1>1 DEF Shape, Shutdown, Exit, Crash, background, loading, saving
  <2> QED
    BY <1>1, <1>c, <2>1 DEF Shutdown, Exit, Crash, Up, background, loading, saving
<1>2. CASE Start
  <2>1. Idle \in ThreadStates /\ NotSaving \in SaveStates /\ NotSaving.at = "no"
    BY DEF Idle, ThreadStates, NotSaving, SaveStates
  <2>a. queue' \in [Threads -> Seq(Jobs)] /\ semaphore' \in [Threads -> Nat]
    BY <1>2 DEF Start
  <2>b. thread' \in [Threads -> ThreadStates] /\ client' \in [Loaders -> ClientStates]
    BY <1>2, <2>1 DEF Start, ClientStates
  <2>2. Shape'
    BY <1>2, <2>1, <2>a, <2>b DEF Shape, Start
  <2>3. \A u \in Threads : Pushed(u)' = {} /\ Popping(u)' = 0 /\ Posting(u)' = 0
    BY <1>2 DEF Start, Pushed, Popping, Posting, Idle, NotSaving
  <2>4. Counted'
    <3>1. \A u \in Threads : queue'[u] = <<>> /\ semaphore'[u] = 0
      BY <1>2 DEF Start
    <3>2. Len(<<>>) = 0 /\ Cardinality({}) = 0
      BY FS_EmptySet
    <3> SUFFICES ASSUME NEW u \in Threads
                 PROVE  Len(queue'[u]) = semaphore'[u] + Popping(u)' + Cardinality(Pushed(u)') + Posting(u)'
      BY DEF Counted
    <3>3. /\ queue'[u] = <<>> /\ semaphore'[u] = 0
          /\ Pushed(u)' = {} /\ Popping(u)' = 0 /\ Posting(u)' = 0
      BY <2>3, <3>1
    <3>4. Len(queue'[u]) = 0 /\ Cardinality(Pushed(u)') = 0
      BY <3>2, <3>3
    <3> QED
      BY <3>3, <3>4
  <2> QED
    BY <2>2, <2>4
<1>3. CASE \E f \in Files : UserRestores(f)
  <2>1. PICK f \in Files : UserRestores(f)
    BY <1>3
  <2>2. disk' \in [Files -> DiskStates]
    <3>1. disk[f] \in DiskStates
      BY DEF Shape
    <3>2. [file |-> "last", backup |-> "last", known |-> disk[f].known] \in DiskStates
      BY <3>1 DEF DiskStates, Texts
    <3>3. disk'[f] = [file |-> "last", backup |-> "last", known |-> disk[f].known]
      BY <2>1, <3>1 DEF UserRestores, Shape, DiskStates
    <3>4. \A g \in Files : g # f => disk'[g] = disk[g]
      BY <2>1 DEF UserRestores, Shape
    <3>5. disk' = [g \in Files |-> disk'[g]]
      BY <2>1 DEF UserRestores, Shape
    <3>6. \A g \in Files : disk'[g] \in DiskStates
      BY <3>2, <3>3, <3>4 DEF Shape
    <3> QED
      BY <3>5, <3>6
  <2>3. Shape'
    BY <2>1, <2>2 DEF Shape, UserRestores, background, loading
  <2> QED
    BY <2>1, <1>c, <2>3 DEF UserRestores, Up, background, loading
<1> QED
  BY <1>1, <1>2, <1>3

LEMMA BaseNext ==
  ASSUME Base, [Next]_vars
  PROVE  Base'
<1>1. CASE \E t \in Threads : Entry(t)
  BY <1>1, EntryBase
<1>2. CASE \E l \in Loaders : Client(l)
  BY <1>2, ClientBase
<1>3. CASE SaveStep \/ \E f \in Files : Save(f)
  BY <1>3, SaveBase
<1>4. CASE Shutdown \/ Exit \/ Crash \/ Start \/ \E f \in Files : UserRestores(f)
  BY <1>4, SystemBase
<1>5. CASE UNCHANGED vars
  <2>1. Shape'
    BY <1>5 DEF Base, Shape, vars
  <2>2. Counted'
    BY <1>5 DEF Base, Counted, vars, Up, Pushed, Popping, Posting
  <2> QED
    BY <2>1, <2>2 DEF Base
<1> QED
  BY <1>1, <1>2, <1>3, <1>4, <1>5 DEF Next

LEMMA BaseInit ==
  ASSUME Init
  PROVE  Base
<1>1. Idle \in ThreadStates /\ NotSaving \in SaveStates /\ NotSaving.at = "no"
  BY DEF Idle, ThreadStates, NotSaving, SaveStates
<1>2. queue \in [Threads -> Seq(Jobs)] /\ semaphore \in [Threads -> Nat]
  BY DEF Init
<1>3. thread \in [Threads -> ThreadStates] /\ client \in [Loaders -> ClientStates]
  BY <1>1 DEF Init, ClientStates
<1>4. disk \in [Files -> DiskStates]
  <2>1. /\ [file |-> "absent", backup |-> "absent", known |-> FALSE] \in DiskStates
        /\ [file |-> "last", backup |-> "absent", known |-> TRUE] \in DiskStates
    BY DEF DiskStates, Texts
  <2> QED
    BY <2>1 DEF Init
<1>5. Shape
  BY <1>1, <1>2, <1>3, <1>4 DEF Init, Shape
<1>6. Counted
  <2>1. Len(<<>>) = 0 /\ Cardinality({}) = 0
    BY FS_EmptySet
  <2> SUFFICES ASSUME NEW u \in Threads
               PROVE  Len(queue[u]) = semaphore[u] + Popping(u) + Cardinality(Pushed(u)) + Posting(u)
    BY DEF Counted
  <2>2. /\ queue[u] = <<>> /\ semaphore[u] = 0
        /\ Pushed(u) = {} /\ Popping(u) = 0 /\ Posting(u) = 0
    BY DEF Init, Pushed, Popping, Posting, Idle, NotSaving
  <2>3. Len(queue[u]) = 0 /\ Cardinality(Pushed(u)) = 0
    BY <2>1, <2>2
  <2> QED
    BY <2>2, <2>3
<1> QED
  BY <1>5, <1>6 DEF Base

LEMMA BaseAlways == Spec => []Base
<1>1. Init => Base
  BY BaseInit
<1>2. Base /\ [Next]_vars => Base'
  BY BaseNext
<1> QED
  BY <1>1, <1>2, PTL DEF Spec

(* A thread that its semaphore has let through finds a job in its queue:    *)
(* BackgroundThread::Entry takes the front of the list without a look.      *)
THEOREM QueueNeverEmpty ==
  Spec => [](Up => \A t \in Threads : thread[t].at = "pops" => queue[t] # <<>>)
<1>1. Base => (Up => \A t \in Threads : thread[t].at = "pops" => queue[t] # <<>>)
  BY PopFinds
<1> QED
  BY <1>1, BaseAlways, PTL
-----------------------------------------------------------------------------
(* A deletion is due only if it was due before, or has just been queued.    *)
LEMMA DueComes ==
  ASSUME Base, [Next]_vars, NEW f \in Files, DeletionDue(f)'
  PROVE  DeletionDue(f) \/ (QueueDelete /\ save.file = f /\ ~IsAppShuttingDown)
<1>0. f \in Jobs /\ f # NoJob /\ f \notin Loaders
  BY FilesAssumption, NullAssumption DEF Jobs
<1>1. PICK t \in Threads : thread'[t].job = f \/ \E i \in DOMAIN queue'[t] : queue'[t][i] = f
  BY DEF DeletionDue
<1>s. queue[t] \in Seq(Jobs)
  BY DEF Base, Shape
<1>2. CASE UNCHANGED background \/ UNCHANGED <<queue, thread>>
  BY <1>1, <1>2 DEF background, DeletionDue
<1>3. ASSUME NEW u \in Threads, NEW at, NEW j, Goes(u, at, j),
             j = f => DeletionDue(f), UNCHANGED queue
      PROVE  DeletionDue(f)
  BY <1>1, <1>3 DEF Goes, DeletionDue, Base, Shape
<1>4. CASE \E u \in Threads : Entry(u)
  <2>1. PICK u \in Threads : Entry(u)
    BY <1>4
  <2>2. CASE Pop(u)
    <3>1. /\ queue[u] # <<>> /\ Tail(queue[u]) \in Seq(Jobs)
          /\ queue[u] \in Seq(Jobs) /\ Len(Tail(queue[u])) = Len(queue[u]) - 1
      BY <2>2, PopFinds DEF Pop, Base, Shape
    <3>2. CASE t # u
      BY <1>1, <2>2, <3>2 DEF Pop, Goes, DeletionDue, Base, Shape
    <3>3. CASE t = u /\ thread'[t].job = f
      <4>1. Head(queue[u]) = f
        BY <2>2, <3>3 DEF Pop, Goes, Base, Shape
      <4>2. 1 \in DOMAIN queue[u] /\ queue[u][1] = f
        BY <3>1, <4>1
      <4> QED
        BY <4>2 DEF DeletionDue
    <3>4. CASE t = u /\ \E i \in DOMAIN queue'[t] : queue'[t][i] = f
      <4>1. queue'[u] = Tail(queue[u])
        BY <2>2 DEF Pop, Base, Shape
      <4>2. PICK i \in DOMAIN Tail(queue[u]) : Tail(queue[u])[i] = f
        BY <3>4, <4>1
      <4>3. i + 1 \in DOMAIN queue[u] /\ queue[u][i + 1] = f
        BY <3>1, <4>2
      <4> QED
        BY <4>3 DEF DeletionDue
    <3> QED
      BY <1>1, <3>2, <3>3, <3>4
  <2>3. CASE ~Pop(u)
    <3>1. UNCHANGED queue
      BY <2>1, <2>3 DEF Entry, Wait, RunLoader, ReadFile, Ready, RunDelete, Sleep, Delete, loading
    <3>2. thread[u].job = f => DeletionDue(f)
      BY DEF DeletionDue
    <3>3. CASE Wait(u)
      BY <1>0, <1>3, <3>1, <3>3 DEF Wait
    <3>4. CASE RunLoader(u) \/ Ready(u)
      BY <1>0, <1>3, <3>1, <3>2, <3>4 DEF RunLoader, Ready, Done
    <3>5. CASE ReadFile(u) \/ RunDelete(u) \/ Sleep(u)
      BY <1>3, <3>1, <3>2, <3>5 DEF ReadFile, RunDelete, Sleep
    <3>6. CASE Delete(u)
      BY <1>0, <1>3, <3>1, <3>6 DEF Delete, Done
    <3> QED
      BY <2>1, <2>3, <3>3, <3>4, <3>5, <3>6 DEF Entry
  <2> QED
    BY <2>2, <2>3
<1>p. ASSUME NEW j, Push(j), j # f, UNCHANGED thread
      PROVE  DeletionDue(f)
  <2>1. CASE t # ThreadOf(j)
    BY <1>1, <1>p, <2>1 DEF Push, DeletionDue, Base, Shape
  <2>2. CASE t = ThreadOf(j)
    <3>1. queue'[t] = Append(queue[t], j)
      BY <1>p, <2>2 DEF Push, Base, Shape
    <3>2. \A i \in DOMAIN Append(queue[t], j) :
             Append(queue[t], j)[i] = f => i \in DOMAIN queue[t] /\ queue[t][i] = f
      BY <1>p, <1>s
    <3> QED
      BY <1>1, <1>p, <3>1, <3>2 DEF DeletionDue
  <2> QED
    BY <2>1, <2>2
<1>5. CASE \E l \in Loaders : Client(l)
  <2>1. PICK l \in Loaders : Client(l)
    BY <1>5
  <2>2. CASE Load(l)
    BY <1>0, <1>2, <1>p, <2>2 DEF Load
  <2>3. CASE ~Load(l)
    BY <1>2, <2>1, <2>3 DEF Client, PostLoader, WaitReady, DeleteLoader, Woken, background
  <2> QED
    BY <2>2, <2>3
<1>6. CASE QueueDelete
  <2>1. CASE IsAppShuttingDown
    BY <1>2, <1>6, <2>1 DEF QueueDelete
  <2>2. CASE ~IsAppShuttingDown
    BY <1>p, <1>6, <2>2 DEF QueueDelete
  <2> QED
    BY <2>1, <2>2
<1>7. CASE Copy \/ Copied \/ Open \/ Write \/ PostDelete
  BY <1>2, <1>7 DEF Copy, Copied, Open, Write, PostDelete, background
<1>8. CASE \E g \in Files : Save(g) \/ UserRestores(g)
  BY <1>2, <1>8 DEF Save, UserRestores, background
<1>9. CASE Shutdown \/ Exit \/ Crash
  BY <1>2, <1>9 DEF Shutdown, Exit, Crash, background
<1>10. CASE Start
  BY <1>0, <1>1, <1>10 DEF Start, Idle
<1>11. CASE UNCHANGED vars
  BY <1>2, <1>11 DEF vars
<1> QED
  BY <1>4, <1>5, <1>6, <1>7, <1>8, <1>9, <1>10, <1>11 DEF Next, SaveStep
-----------------------------------------------------------------------------
(* What keeps a text from being lost, when no file is saved before its last *)
(* deletion is done or after a save of it has failed, and no part of a text *)
(* is taken for the whole.                                                  *)

OrdinarySaves == Mishaps \cap {"early save", "retry", "short write"} = {}

Surviving(f) ==
  /\ disk[f].file \in {"absent", "partial", "last"}
  /\ disk[f].file = "absent" => ~disk[f].known
  /\ disk[f].known => "last" \in {disk[f].file, disk[f].backup}

(* Where the save of f is tells what the disk holds.                        *)
SavingWell(f) ==
  Up /\ save.file = f =>
    /\ save.at \in {"copies", "copied"} =>
         disk[f].file # "absent" /\ (disk[f].known => disk[f].file = "last")
    /\ save.at = "opens" /\ disk[f].known => disk[f].file = "last" /\ disk[f].backup = "last"
    /\ save.at = "writes" /\ disk[f].known => disk[f].backup = "last"
    /\ save.at = "writes new" => ~disk[f].known
    /\ save.at = "backs up" => disk[f].file = "last"

(* A deletion is due only of the backup of a file that is whole, and that   *)
(* no save has begun to change.                                             *)
DueWell(f) ==
  Up /\ DeletionDue(f) =>
    disk[f].file = "last" /\ (save.file = f => save.at \in {"no", "posts"})

Safe(f) == Surviving(f) /\ SavingWell(f) /\ DueWell(f)

LEMMA Untouched ==
  ASSUME NEW f \in Files, Safe(f), Up' => Up, disk'[f] = disk[f],
         DeletionDue(f)' => DeletionDue(f),
         save' = save \/ save'.file # f
  PROVE  Safe(f)'
BY DEF Safe, Surviving, SavingWell, DueWell

(* When the save of f returns, only what survives matters.                  *)
LEMMA ReturnsSafe ==
  ASSUME NEW f \in Files, Returns, Surviving(f)',
         Up /\ DeletionDue(f)' => disk'[f].file = "last", Up' => Up
  PROVE  Safe(f)'
BY DEF Safe, SavingWell, DueWell, Returns, NotSaving

LEMMA EntrySafe ==
  ASSUME Base, NEW t \in Threads, Entry(t), NEW f \in Files, Safe(f)
  PROVE  Safe(f)'
<1>a. UNCHANGED <<phase, save>> /\ Up
  BY DEF Entry, Wait, Pop, RunLoader, ReadFile, Ready, RunDelete, Sleep, Delete, saving
<1>b. DeletionDue(f)' => DeletionDue(f)
  <2>1. ~QueueDelete \/ save' # save
    BY SaveAt DEF QueueDelete, Base, Shape, SaveStates
  <2>2. [Next]_vars
    BY DEF Next
  <2>3. ~(QueueDelete /\ save.file = f /\ ~IsAppShuttingDown)
    BY <1>a, <2>1
  <2> QED
    BY <2>2, <2>3, DueComes
<1>1. CASE disk'[f] = disk[f]
  BY <1>1, <1>a, <1>b, Untouched DEF Up
<1>2. CASE disk'[f] # disk[f]
  <2>1. Delete(t) /\ thread[t].job = f
    <3>1. Delete(t)
      BY <1>2 DEF Entry, Wait, Pop, RunLoader, ReadFile, Ready, RunDelete, Sleep, saving
    <3> QED
      BY <1>2, <3>1 DEF Delete, Base, Shape
  <2>2. DeletionDue(f)
    BY <2>1 DEF DeletionDue
  <2>3. disk[f] \in DiskStates
    BY DEF Base, Shape
  <2>4. disk'[f] = [disk[f] EXCEPT !.backup = "absent"]
    BY <2>1 DEF Delete, Base, Shape
  <2>5. disk'[f].file = "last" /\ disk'[f].known = disk[f].known
    BY <1>a, <2>2, <2>3, <2>4 DEF Safe, DueWell, DiskStates
  <2>6. save.file = f => save.at \in {"no", "posts"}
    BY <1>a, <2>2 DEF Safe, DueWell
  <2> QED
    BY <1>a, <2>5, <2>6 DEF Safe, Surviving, SavingWell, DueWell
<1> QED
  BY <1>1, <1>2

LEMMA WholeOrFailed ==
  ASSUME OrdinarySaves
  PROVE  WriteWxStringToFile = {"whole", "failed"}
BY DEF OrdinarySaves, WriteWxStringToFile

LEMMA SaveSafe ==
  ASSUME Base, OrdinarySaves, NEW f \in Files, Safe(f),
         SaveStep \/ \E g \in Files : Save(g)
  PROVE  Safe(f)'
<1> USE DEF Base
<1>a. Up /\ Up' /\ UNCHANGED phase
  BY DEF SaveStep, Copy, Copied, Open, Write, QueueDelete, PostDelete, Save, Up
<1>b. save.at # "no" => save.file \in Files
  BY DEF Shape
<1>n. [Next]_vars
  BY DEF Next
<1>d. disk[f] \in DiskStates /\ disk[f] = [file |-> disk[f].file, backup |-> disk[f].backup,
                                          known |-> disk[f].known]
  BY DEF Shape, DiskStates
<1>e. ~QueueDelete => (DeletionDue(f)' => DeletionDue(f))
  BY <1>n, DueComes
<1>1. CASE \E g \in Files : Save(g)
  <2>1. PICK g \in Files : Save(g)
    BY <1>1
  <2>2. UNCHANGED <<disk, queue, thread>> /\ save = NotSaving
    BY <2>1 DEF Save, background
  <2>3. DeletionDue(f)' => DeletionDue(f)
    BY <2>2 DEF DeletionDue
  <2>4. CASE g # f
    <3>1. save'.file # f
      BY <2>1, <2>4 DEF Save
    <3> QED
      BY <1>a, <2>2, <2>3, <3>1, Untouched
  <2>5. CASE g = f
    <3>1. ~DeletionDue(f) /\ ~(disk[f].file = "partial" /\ Whole(disk[f].backup))
      BY <2>1, <2>5 DEF Save, OrdinarySaves
    <3>2. disk[f].known => disk[f].file = "last"
      BY <3>1 DEF Safe, Surviving, Whole
    <3>3. save'.file = f /\ save'.at = IF disk[f].file = "absent" THEN "opens" ELSE "copies"
      BY <2>1, <2>5 DEF Save
    <3> QED
      BY <2>2, <2>3, <3>1, <3>2, <3>3 DEF Safe, Surviving, SavingWell, DueWell
  <2> QED
    BY <2>4, <2>5
<1>2. CASE SaveStep /\ save.file # f
  <2>1. disk'[f] = disk[f]
    BY <1>2, <1>b DEF SaveStep, Copy, Copied, Open, Write, Written, QueueDelete, PostDelete, Shape
  <2>2. DeletionDue(f)' => DeletionDue(f)
    BY <1>2, <1>n, DueComes
  <2>3. CASE Returns
    BY <1>a, <2>1, <2>2, <2>3, ReturnsSafe DEF Safe, Surviving, DueWell
  <2>4. CASE ~Returns
    <3>1. \E at : SaveGoes(at)
      BY <1>2, <2>4 DEF SaveStep, Copy, Copied, Open, Write, QueueDelete, PostDelete
    <3>2. save'.file # f
      BY <1>2, <3>1, SaveAt
    <3> QED
      BY <1>a, <2>1, <2>2, <3>2, Untouched
  <2> QED
    BY <2>3, <2>4
<1>3. CASE Copy /\ save.file = f
  <2>1. disk'[f] = [disk[f] EXCEPT !.backup = "partial"]
    BY <1>3 DEF Copy, Shape
  <2>2. disk'[f].file = disk[f].file /\ disk'[f].known = disk[f].known
    BY <1>d, <2>1
  <2>3. /\ disk[f].file # "absent" /\ (disk[f].known => disk[f].file = "last")
        /\ ~DeletionDue(f)
    BY <1>3, <1>a DEF Safe, SavingWell, DueWell, Copy
  <2>4. Surviving(f)' /\ ~DeletionDue(f)'
    BY <1>3, <1>e, <2>2, <2>3 DEF Safe, Surviving, Copy, QueueDelete
  <2>5. save'.at \in {"copied", "no"}
    BY <1>3, SaveAt DEF Copy
  <2> QED
    BY <2>2, <2>3, <2>4, <2>5 DEF Safe, SavingWell, DueWell
<1>4. CASE Copied /\ save.file = f
  <2>1. disk'[f] = [disk[f] EXCEPT !.backup = disk[f].file]
    BY <1>4 DEF Copied, Shape
  <2>2. /\ disk'[f].file = disk[f].file /\ disk'[f].known = disk[f].known
        /\ disk'[f].backup = disk[f].file
    BY <1>d, <2>1
  <2>3. (disk[f].known => disk[f].file = "last") /\ ~DeletionDue(f)
    BY <1>4, <1>a DEF Safe, SavingWell, DueWell, Copied
  <2>4. Surviving(f)' /\ ~DeletionDue(f)'
    BY <1>4, <1>e, <2>2, <2>3 DEF Safe, Surviving, Copied, QueueDelete
  <2>5. save'.at = "opens"
    BY <1>4, SaveAt DEF Copied
  <2> QED
    BY <2>2, <2>3, <2>4, <2>5 DEF Safe, SavingWell, DueWell
<1>5. CASE Open /\ save.file = f
  <2>3. (disk[f].known => disk[f].file = "last" /\ disk[f].backup = "last") /\ ~DeletionDue(f)
    BY <1>5, <1>a DEF Safe, SavingWell, DueWell, Open
  <2>e. ~DeletionDue(f)'
    BY <1>5, <1>e, <2>3 DEF Open, QueueDelete
  <2>6. CASE UNCHANGED disk /\ Returns
    BY <1>a, <2>6, <2>e, ReturnsSafe DEF Safe, Surviving
  <2>7. CASE ~(UNCHANGED disk /\ Returns)
    <3>1. disk'[f] = [disk[f] EXCEPT !.file = "partial"]
      BY <1>5, <2>7 DEF Open, Shape
    <3>2. /\ disk'[f].file = "partial" /\ disk'[f].known = disk[f].known
          /\ disk'[f].backup = disk[f].backup
      BY <1>d, <3>1
    <3>3. save'.at = IF disk[f].file = "absent" THEN "writes new" ELSE "writes"
      BY <1>5, <2>7, SaveAt DEF Open
    <3>4. disk[f].file = "absent" => ~disk[f].known
      BY DEF Safe, Surviving
    <3> QED
      BY <2>3, <2>e, <3>2, <3>3, <3>4 DEF Safe, Surviving, SavingWell, DueWell
  <2> QED
    BY <2>6, <2>7
<1>6. CASE Write /\ save.file = f
  <2>3. ~DeletionDue(f)
    BY <1>6, <1>a DEF Safe, DueWell, Write
  <2>e. ~DeletionDue(f)'
    BY <1>6, <1>e, <2>3 DEF Write, QueueDelete
  <2>6. CASE UNCHANGED disk /\ Returns
    BY <1>a, <2>6, <2>e, ReturnsSafe DEF Safe, Surviving
  <2>7. CASE ~(UNCHANGED disk /\ Returns)
    <3>1. Written(f)
      BY <1>6, <2>7, WholeOrFailed DEF Write
    <3>2. disk'[f].file = "last" /\ disk'[f].known = TRUE
      BY <3>1 DEF Written, Shape
    <3>3. save'.at \in {"backs up", "no"}
      BY <1>6, <2>7, SaveAt DEF Write
    <3> QED
      BY <2>e, <3>2, <3>3 DEF Safe, Surviving, SavingWell, DueWell
  <2> QED
    BY <2>6, <2>7
<1>7. CASE QueueDelete /\ save.file = f
  <2>1. disk[f].file = "last"
    BY <1>7, <1>a DEF Safe, SavingWell, QueueDelete
  <2>2. disk'[f] = disk[f] \/ disk'[f] = [disk[f] EXCEPT !.backup = "absent"]
    BY <1>7 DEF QueueDelete, Shape
  <2>3. disk'[f].file = "last" /\ disk'[f].known = disk[f].known
    BY <1>d, <2>1, <2>2
  <2>4. save'.at \in {"no", "posts"}
    BY <1>7, SaveAt DEF QueueDelete
  <2> QED
    BY <2>3, <2>4 DEF Safe, Surviving, SavingWell, DueWell
<1>8. CASE PostDelete /\ save.file = f
  <2>1. UNCHANGED disk /\ Returns
    BY <1>8 DEF PostDelete
  <2>2. DeletionDue(f)' => DeletionDue(f)
    BY <1>8 DEF PostDelete, DeletionDue
  <2> QED
    BY <1>a, <2>1, <2>2, ReturnsSafe DEF Safe, Surviving, DueWell
<1> QED
  BY <1>1, <1>2, <1>3, <1>4, <1>5, <1>6, <1>7, <1>8 DEF SaveStep

LEMMA SystemSafe ==
  ASSUME Base, NEW f \in Files, Safe(f),
         Shutdown \/ Exit \/ Crash \/ Start \/ \E g \in Files : UserRestores(g)
  PROVE  Safe(f)'
<1> USE DEF Base
<1>d. disk[f] \in DiskStates
  BY DEF Shape
<1>1. CASE Shutdown \/ Exit \/ Crash
  <2>1. UNCHANGED <<disk, save, queue, thread>> /\ (Up' => Up)
    BY <1>1 DEF Shutdown, Exit, Crash, Up, background, saving
  <2>2. DeletionDue(f)' => DeletionDue(f)
    BY <2>1 DEF DeletionDue
  <2> QED
    BY <2>1, <2>2, Untouched
<1>2. CASE Start
  <2>1. UNCHANGED disk /\ save'.at = "no"
    BY <1>2 DEF Start, NotSaving
  <2>2. f # NoJob
    BY NullAssumption DEF Jobs
  <2>3. ~DeletionDue(f)'
    BY <1>2, <2>2 DEF Start, Idle, DeletionDue
  <2> QED
    BY <2>1, <2>3 DEF Safe, Surviving, SavingWell, DueWell
<1>3. CASE \E g \in Files : UserRestores(g)
  <2>1. PICK g \in Files : UserRestores(g)
    BY <1>3
  <2>2. UNCHANGED <<phase, save, queue, thread>>
    BY <2>1 DEF UserRestores, background
  <2>3. (DeletionDue(f)' => DeletionDue(f)) /\ (Up' => Up)
    BY <2>2 DEF DeletionDue, Up
  <2>4. CASE g # f
    <3>1. disk'[f] = disk[f]
      BY <2>1, <2>4 DEF UserRestores, Shape
    <3> QED
      BY <2>2, <2>3, <3>1, Untouched
  <2>5. CASE g = f
    <3>1. disk'[f] = [file |-> "last", backup |-> "last", known |-> disk[f].known]
      BY <1>d, <2>1, <2>5 DEF UserRestores, Shape, DiskStates
    <3>2. (save.file # f \/ ~Up) /\ disk[f].file = "partial"
      BY <2>1, <2>5 DEF UserRestores
    <3>3. Surviving(f)'
      BY <3>1 DEF Surviving
    <3>4. disk'[f].file = "last" /\ (Up' => save'.file # f)
      BY <2>2, <2>3, <3>1, <3>2
    <3> QED
      BY <3>3, <3>4 DEF Safe, SavingWell, DueWell
  <2> QED
    BY <2>4, <2>5
<1> QED
  BY <1>1, <1>2, <1>3

LEMMA SafeNext ==
  ASSUME Base, OrdinarySaves, [Next]_vars, NEW f \in Files, Safe(f)
  PROVE  Safe(f)'
<1>1. CASE \E t \in Threads : Entry(t)
  BY <1>1, EntrySafe
<1>2. CASE \E l \in Loaders : Client(l)
  <2>1. UNCHANGED <<phase, save, disk>> /\ ~(QueueDelete /\ ~IsAppShuttingDown)
    BY <1>2, SaveAt DEF Client, Load, PostLoader, WaitReady, DeleteLoader, Woken, saving,
                        QueueDelete, Base, Shape, SaveStates
  <2> QED
    BY <2>1, DueComes, Untouched DEF Up
<1>3. CASE SaveStep \/ \E g \in Files : Save(g)
  BY <1>3, SaveSafe
<1>4. CASE Shutdown \/ Exit \/ Crash \/ Start \/ \E g \in Files : UserRestores(g)
  BY <1>4, SystemSafe
<1>5. CASE UNCHANGED vars
  BY <1>5, Untouched DEF vars, Up, DeletionDue
<1> QED
  BY <1>1, <1>2, <1>3, <1>4, <1>5 DEF Next

LEMMA SafeAlways ==
  ASSUME OrdinarySaves
  PROVE  Spec => [](\A f \in Files : Safe(f))
<1>1. Init => \A f \in Files : Safe(f)
  <2> SUFFICES ASSUME Init, NEW f \in Files PROVE Safe(f)
    OBVIOUS
  <2>1. f # NoJob
    BY NullAssumption DEF Jobs
  <2>2. ~DeletionDue(f) /\ save.at = "no"
    BY <2>1 DEF Init, DeletionDue, Idle, NotSaving
  <2> QED
    BY <2>2 DEF Init, Safe, Surviving, SavingWell, DueWell
<1>2. Base /\ (\A f \in Files : Safe(f)) /\ [Next]_vars => (\A f \in Files : Safe(f))'
  BY SafeNext
<1> QED
  BY <1>1, <1>2, BaseAlways, PTL DEF Spec

(* Careful saving (FileManager::Save): unless a file is saved before the    *)
(* deletion of its last backup is done or after a save of it has failed, or *)
(* part of its text is taken for the whole (WriteWxStringToFile), no step,  *)
(* failed call or kill of the process loses its text.                       *)
THEOREM NothingLost ==
  ASSUME OrdinarySaves
  PROVE  Spec => []SomethingSurvives
<1>1. (\A f \in Files : Safe(f)) => SomethingSurvives
  BY DEF Safe, Surviving, SomethingSurvives
<1> QED
  BY <1>1, SafeAlways, PTL
-----------------------------------------------------------------------------
(* A file whose backup the deletion thread is about to delete has not been  *)
(* written since the naps began.                                            *)
Delay(f) ==
  \A t \in Threads :
    thread[t].job = f /\ thread[t].at \in {"sleeps", "deletes"} => f \notin fresh

LEMMA DelaySame ==
  ASSUME NEW f \in Files, Delay(f), UNCHANGED thread, f \in fresh' => f \in fresh
  PROVE  Delay(f)'
BY DEF Delay

LEMMA DelayNext ==
  ASSUME Base, [Next]_vars, NEW f \in Files, Safe(f), Delay(f)
  PROVE  Delay(f)'
<1> USE DEF Base
<1>0. f \in Jobs /\ f # NoJob
  BY NullAssumption DEF Jobs
<1>1. CASE \E u \in Threads : Entry(u)
  <2>1. PICK u \in Threads : Entry(u)
    BY <1>1
  <2>2. f \in fresh' => f \in fresh
    BY <2>1 DEF Entry, Wait, Pop, RunLoader, ReadFile, Ready, RunDelete, Sleep, Delete, saving
  <2>3. ASSUME NEW at \in {"waits", "pops", "runs", "reads", "ready"}, NEW j, Goes(u, at, j)
        PROVE  Delay(f)'
    BY <2>2, <2>3 DEF Delay, Goes, Shape
  <2>4. CASE RunDelete(u)
    BY <2>4 DEF RunDelete, Delay
  <2>5. CASE Sleep(u)
    BY <2>5 DEF Sleep, Goes, Delay, Shape, saving
  <2>6. CASE Wait(u)
    BY <2>3, <2>6 DEF Wait, saving
  <2>7. CASE Pop(u)
    BY <2>3, <2>7 DEF Pop, saving
  <2>8. CASE RunLoader(u)
    BY <2>3, <2>8 DEF RunLoader, Done, saving
  <2>9. CASE ReadFile(u) \/ Ready(u)
    BY <2>3, <2>9 DEF ReadFile, Ready, Done, saving
  <2>10. CASE Delete(u)
    BY <2>3, <2>10 DEF Delete, Done
  <2> QED
    BY <2>1, <2>4, <2>5, <2>6, <2>7, <2>8, <2>9, <2>10 DEF Entry
<1>2. CASE \E l \in Loaders : Client(l)
  BY <1>2, DelaySame DEF Client, Load, PostLoader, WaitReady, DeleteLoader, Woken, saving, background
<1>3. CASE Write
  <2>1. CASE save.file = f
    <3>1. ~DeletionDue(f)
      BY <1>3, <2>1 DEF Write, Safe, DueWell
    <3>2. \A t \in Threads : thread'[t].job # f
      BY <1>3, <3>1 DEF Write, DeletionDue, background
    <3> QED
      BY <3>2 DEF Delay
  <2>2. CASE save.file # f
    BY <1>3, <2>2, DelaySame DEF Write, Written, background
  <2> QED
    BY <2>1, <2>2
<1>4. CASE Copy \/ Copied \/ Open \/ QueueDelete \/ PostDelete
  BY <1>4, DelaySame DEF Copy, Copied, Open, QueueDelete, PostDelete, background
<1>5. CASE \E g \in Files : Save(g) \/ UserRestores(g)
  BY <1>5, DelaySame DEF Save, UserRestores, background
<1>6. CASE Shutdown \/ Exit \/ Crash
  BY <1>6, DelaySame DEF Shutdown, Exit, Crash, background, saving
<1>7. CASE Start
  BY <1>0, <1>7 DEF Start, Idle, Delay
<1>8. CASE UNCHANGED vars
  BY <1>8, DelaySame DEF vars
<1> QED
  BY <1>1, <1>2, <1>3, <1>4, <1>5, <1>6, <1>7, <1>8 DEF Next, SaveStep

(* A step that takes a backup away.                                         *)
LEMMA DeletedLate ==
  ASSUME Base, [Next]_vars, NEW f \in Files, Safe(f), Delay(f),
         disk[f].backup # "absent", disk'[f].backup = "absent"
  PROVE  disk[f].file = "last" /\ (phase = "running" => f \notin fresh)
<1> USE DEF Base
<1>d. disk[f] \in DiskStates
  BY DEF Shape
<1>s. save.at # "no" => save.file \in Files
  BY DEF Shape
<1>1. CASE \E u \in Threads : Delete(u)
  <2>1. PICK u \in Threads : Delete(u)
    BY <1>1
  <2>2. thread[u].job = f /\ Up /\ thread[u].at = "deletes"
    BY <2>1 DEF Delete, Shape
  <2> QED
    BY <2>2 DEF DeletionDue, Safe, DueWell, Delay
<1>2. CASE Copy
  BY <1>2, <1>d, <1>s DEF Copy, Shape, DiskStates
<1>3. CASE Copied
  <2>1. save.file = f
    BY <1>3, <1>s DEF Copied, Shape
  <2>2. disk'[f] = [disk[f] EXCEPT !.backup = disk[f].file]
    BY <1>3, <2>1 DEF Copied, Shape
  <2>3. disk[f].file # "absent"
    BY <1>3, <2>1 DEF Copied, Safe, SavingWell
  <2> QED
    BY <1>d, <2>2, <2>3 DEF DiskStates
<1>4. CASE Open
  <2>1. disk'[f] = disk[f] \/ disk'[f] = [disk[f] EXCEPT !.file = "partial"]
    BY <1>4, <1>s DEF Open, Shape
  <2> QED
    BY <1>d, <2>1 DEF DiskStates
<1>5. CASE Write
  <2>1. save.file = f /\ Written(f)
    BY <1>5, <1>d, <1>s DEF Write, Written, Shape
  <2>2. disk'[f].backup = IF Whole(disk[f].backup) THEN "older" ELSE disk[f].backup
    BY <2>1 DEF Written, Shape
  <2> QED
    BY <2>2
<1>6. CASE QueueDelete
  <2>1. save.file = f /\ IsAppShuttingDown
    BY <1>6, <1>s DEF QueueDelete, Shape
  <2> QED
    BY <1>6, <2>1 DEF QueueDelete, IsAppShuttingDown, Safe, SavingWell
<1>7. CASE \E g \in Files : UserRestores(g)
  <2>1. PICK g \in Files : UserRestores(g)
    BY <1>7
  <2>2. CASE g # f
    BY <2>1, <2>2 DEF UserRestores, Shape
  <2>3. CASE g = f
    BY <1>d, <2>1, <2>3 DEF UserRestores, Shape, DiskStates
  <2> QED
    BY <2>2, <2>3
<1>8. CASE UNCHANGED disk
  BY <1>8
<1>9. CASE Next /\ ~((\E u \in Threads : Delete(u)) \/ Copy \/ Copied \/ Open \/ Write \/ QueueDelete
                     \/ \E g \in Files : UserRestores(g))
  <2>1. CASE \E u \in Threads : Entry(u)
    BY <1>8, <1>9, <2>1 DEF Entry, Wait, Pop, RunLoader, ReadFile, Ready, RunDelete, Sleep, saving
  <2>2. CASE \E l \in Loaders : Client(l)
    BY <1>8, <2>2 DEF Client, Load, PostLoader, WaitReady, DeleteLoader, Woken, saving
  <2>3. CASE PostDelete \/ Shutdown \/ Exit \/ Crash \/ Start \/ \E g \in Files : Save(g)
    BY <1>8, <2>3 DEF PostDelete, Shutdown, Exit, Crash, Start, Save, saving
  <2> QED
    BY <1>9, <2>1, <2>2, <2>3 DEF Next, SaveStep
<1> QED
  BY <1>1, <1>2, <1>3, <1>4, <1>5, <1>6, <1>7, <1>8, <1>9 DEF vars

(* DelayedDelete: under the same assumption a backup is deleted only when   *)
(* the file is whole and, in a program that is not shutting down, all the   *)
(* naps lie between its last write and the deletion.                        *)
THEOREM DeletionWaits ==
  ASSUME OrdinarySaves
  PROVE  Spec => BackupDeletedLate
<1> DEFINE Late ==
      \A f \in Files : disk[f].backup # "absent" /\ disk'[f].backup = "absent" =>
        disk[f].file = "last" /\ (phase = "running" => f \notin fresh)
<1>1. Init => \A f \in Files : Delay(f)
  BY NullAssumption DEF Init, Idle, Delay, Jobs
<1>2. Base /\ (\A f \in Files : Safe(f)) /\ (\A f \in Files : Delay(f)) /\ [Next]_vars
      => (\A f \in Files : Delay(f))'
  BY DelayNext
<1>3. Base /\ (\A f \in Files : Safe(f)) /\ (\A f \in Files : Delay(f)) /\ [Next]_vars
      => [Late]_vars
  BY DeletedLate
<1> QED
  BY <1>1, <1>2, <1>3, BaseAlways, SafeAlways, PTL DEF Spec, BackupDeletedLate
-----------------------------------------------------------------------------
(* The loaders: a loader is left alone by the threads once its client has *)
(* got the text, and no wake-up is lost.                                   *)
(*                                                                         *)
(* A loader is in one place at most: once in one queue, held by one        *)
(* thread, or answered, with its semaphore posted.  The client can have    *)
(* got its text, or given the loader up, only when it is in none.          *)

LoaderStates == [sem : 0..1, wait : BOOLEAN, dying : BOOLEAN,
                 data : {"none", "filling", "short", "text", "freed"}]

(* What a thread holds at each point of Entry.                              *)
Holding ==
  \A t \in Threads :
    /\ thread[t].at \in {"waits", "pops"} <=> thread[t].job = NoJob
    /\ thread[t].at \in {"reads", "ready"} => thread[t].job \in Loaders
    /\ thread[t].at \in {"sleeps", "deletes"} => thread[t].job \in Files

InQueue(l) == \E t \in Threads : \E i \in DOMAIN queue[t] : queue[t][i] = l
InThread(l) == \E t \in Threads : thread[t].job = l

(* A loader is queued once, or held by one thread.                          *)
Once(l) ==
  /\ \A t, u \in Threads : \A i \in DOMAIN queue[t], j \in DOMAIN queue[u] :
       queue[t][i] = l /\ queue[u][j] = l => t = u /\ i = j
  /\ \A t, u \in Threads : thread[t].job = l /\ thread[u].job = l => t = u
  /\ InThread(l) => ~InQueue(l)

(* The answer of a loader, and what its client may think of it.             *)
Account(l) ==
  /\ InQueue(l) \/ InThread(l) => loader[l].sem = 0
  /\ client[l] \in {"none", "has data"} =>
       ~InQueue(l) /\ ~InThread(l) /\ loader[l].sem = 0
  /\ client[l] \in {"queued", "holds"} => loader[l].wait
  /\ client[l] \in {"waits", "has data"} => ~loader[l].wait

(* The data of a loader that no thread is reading is settled: there is none, *)
(* or it is the text, short or whole.                                      *)
Steady(l) ==
  \/ loader[l].data \in {"none", "short", "text"}
  \/ \E t \in Threads : thread[t].job = l /\ thread[t].at = "reads"

(* No client gives up a loader that it has not waited for; one that is      *)
(* waited for is somewhere.                                                 *)
Patient(l) ==
  /\ loader[l].dying => client[l] = "none"
  /\ client[l] \in {"queued", "holds", "waits"} =>
       InQueue(l) \/ InThread(l) \/ loader[l].sem = 1

(* The thread of deletions has no loaders.                                  *)
Apart == queue["delayedDeleteThread"] \in Seq(Files)

Tracked ==
  /\ loader \in [Loaders -> LoaderStates]
  /\ Holding
  /\ \A l \in Loaders : Once(l) /\ Account(l)
-----------------------------------------------------------------------------
(* Places of a loader.                                                      *)

LEMMA LoaderIsJob == \A l \in Loaders : l \in Jobs /\ l # NoJob /\ l \notin Files
BY FilesAssumption, NullAssumption DEF Jobs

(* No queue is touched, and no thread takes the loader.                     *)
LEMMA PlacesFewer ==
  ASSUME NEW l, Once(l), UNCHANGED queue,
         \A u \in Threads : thread'[u].job = l => thread[u].job = l
  PROVE  /\ Once(l)'
         /\ InQueue(l)' <=> InQueue(l)
         /\ InThread(l)' => InThread(l)
BY DEF Once, InQueue, InThread

LEMMA PlacesKept ==
  ASSUME NEW l, Once(l), UNCHANGED queue,
         \A u \in Threads : thread'[u].job = thread[u].job
  PROVE  /\ Once(l)'
         /\ InQueue(l)' <=> InQueue(l)
         /\ InThread(l)' <=> InThread(l)
BY DEF Once, InQueue, InThread

(* A thread takes the front of its queue.                                   *)
LEMMA PlacesPopped ==
  ASSUME Base, Holding, NEW l \in Loaders, Once(l), NEW t \in Threads, Pop(t)
  PROVE  /\ Once(l)'
         /\ InQueue(l)' => InQueue(l)
         /\ InThread(l)' => InQueue(l) \/ InThread(l)
         /\ InQueue(l) \/ InThread(l) => InQueue(l)' \/ InThread(l)'
<1> DEFINE q == queue[t]
<1>1. q \in Seq(Jobs) /\ q # <<>>
  BY PopFinds DEF Pop, Base, Shape
<1>2. /\ Len(q) \in Nat \ {0} /\ Head(q) = q[1]
      /\ Len(Tail(q)) = Len(q) - 1 /\ Tail(q) \in Seq(Jobs)
      /\ \A i \in 1..(Len(q) - 1) : Tail(q)[i] = q[i + 1]
  BY <1>1, EmptySeq, LenProperties, HeadTailProperties
<1>3. queue'[t] = Tail(q) /\ \A u \in Threads \ {t} : queue'[u] = queue[u]
  BY DEF Pop, Base, Shape
<1>4. /\ thread'[t].job = q[1] /\ thread[t].job = NoJob
      /\ \A u \in Threads \ {t} : thread'[u] = thread[u]
  BY <1>2 DEF Pop, Goes, Holding, Base, Shape
<1> HIDE DEF q
<1>5. DOMAIN q = 1..Len(q) /\ DOMAIN Tail(q) = 1..(Len(q) - 1)
  BY <1>1, <1>2, LenProperties
<1>6. 1 \in DOMAIN q /\ queue[t] = q
  BY <1>2, <1>5 DEF q
<1>7. l # NoJob
  BY LoaderIsJob
<1>8. \A i \in DOMAIN Tail(q) : i + 1 \in DOMAIN q /\ i + 1 # 1 /\ Tail(q)[i] = q[i + 1]
  BY <1>2, <1>5
<1>9. CASE q[1] = l
  <2>1. InQueue(l) /\ ~InThread(l)
    BY <1>6, <1>9 DEF InQueue, Once
  <2>2. \A u \in Threads : \A i \in DOMAIN queue[u] : queue[u][i] = l => u = t /\ i = 1
    BY <1>6, <1>9 DEF Once
  <2>3. ASSUME NEW u \in Threads, NEW i \in DOMAIN queue'[u] PROVE queue'[u][i] # l
    <3>1. CASE u = t
      BY <1>3, <1>6, <1>8, <2>2, <2>3, <3>1
    <3>2. CASE u # t
      BY <1>3, <2>2, <2>3, <3>2
    <3> QED
      BY <3>1, <3>2
  <2>4. \A u \in Threads : thread'[u].job = l <=> u = t
    BY <1>4, <1>9, <2>1 DEF InThread
  <2> QED
    BY <2>1, <2>3, <2>4 DEF Once, InQueue, InThread
<1>10. CASE q[1] # l
  <2>1. \A u \in Threads : thread'[u].job = l <=> thread[u].job = l
    BY <1>4, <1>7, <1>10
  <2>2. InThread(l)' <=> InThread(l)
    BY <2>1 DEF InThread
  <2> DEFINE Was(u, i) == IF u = t THEN i + 1 ELSE i
  <2>3. ASSUME NEW u \in Threads, NEW i \in DOMAIN queue'[u]
        PROVE  i \in Int /\ Was(u, i) \in DOMAIN queue[u] /\ queue'[u][i] = queue[u][Was(u, i)]
    <3>1. CASE u = t
      <4>1. i \in DOMAIN Tail(q) /\ i \in Int
        BY <1>2, <1>3, <1>5, <2>3, <3>1
      <4> QED
        BY <1>3, <1>6, <1>8, <3>1, <4>1
    <3>2. CASE u # t
      <4>1. queue[u] \in Seq(Jobs) /\ queue'[u] = queue[u]
        BY <1>3, <3>2 DEF Base, Shape
      <4> QED
        BY <2>3, <3>2, <4>1, LenProperties
    <3> QED
      BY <3>1, <3>2
  <2>4. InQueue(l)' => InQueue(l)
    BY <2>3 DEF InQueue
  <2>5. ASSUME NEW u \in Threads, NEW i \in DOMAIN queue[u], queue[u][i] = l
        PROVE  InQueue(l)'
    <3>1. CASE u = t
      <4>1. i \in 1..Len(q) /\ i # 1
        BY <1>5, <1>6, <1>10, <2>5, <3>1
      <4>2. i - 1 \in 1..(Len(q) - 1) /\ i - 1 + 1 = i
        BY <1>2, <4>1
      <4>3. i - 1 \in DOMAIN queue'[t] /\ queue'[t][i - 1] = l
        BY <1>2, <1>3, <1>5, <1>6, <2>5, <3>1, <4>2
      <4> QED
        BY <4>3 DEF InQueue
    <3>2. CASE u # t
      BY <1>3, <2>5, <3>2 DEF InQueue
    <3> QED
      BY <3>1, <3>2
  <2>6. InQueue(l) => InQueue(l)'
    BY <2>5 DEF InQueue
  <2>7. ASSUME NEW u \in Threads, NEW v \in Threads,
               NEW i \in DOMAIN queue'[u], NEW j \in DOMAIN queue'[v],
               queue'[u][i] = l, queue'[v][j] = l
        PROVE  u = v /\ i = j
    <3>1. /\ Was(u, i) \in DOMAIN queue[u] /\ queue[u][Was(u, i)] = l /\ i \in Int
          /\ Was(v, j) \in DOMAIN queue[v] /\ queue[v][Was(v, j)] = l /\ j \in Int
      BY <2>3, <2>7
    <3>2. u = v /\ Was(u, i) = Was(v, j)
      BY <3>1 DEF Once
    <3> QED
      BY <3>1, <3>2
  <2>8. Once(l)'
    <3>1. \A u, v \in Threads : thread'[u].job = l /\ thread'[v].job = l => u = v
      BY <2>1 DEF Once
    <3>2. InThread(l)' => ~InQueue(l)'
      BY <2>2, <2>4 DEF Once
    <3> QED
      BY <2>7, <3>1, <3>2 DEF Once
  <2> QED
    BY <2>2, <2>4, <2>6, <2>8
<1> QED
  BY <1>9, <1>10

(* A job is queued.                                                         *)
LEMMA PlacesPushed ==
  ASSUME Base, NEW l \in Loaders, Once(l), NEW j \in Jobs, Push(j), UNCHANGED thread,
         j = l => ~InQueue(l) /\ ~InThread(l)
  PROVE  /\ Once(l)'
         /\ InQueue(l)' <=> InQueue(l) \/ j = l
         /\ InThread(l)' <=> InThread(l)
<1> DEFINE T == ThreadOf(j)
           q == queue[T]
<1>1. T \in Threads /\ q \in Seq(Jobs)
  BY ThreadOfJob DEF Base, Shape
<1>2. queue'[T] = Append(q, j) /\ \A u \in Threads \ {T} : queue'[u] = queue[u]
  BY <1>1 DEF Push, Base, Shape
<1>0. queue[T] = q
  OBVIOUS
<1> HIDE DEF q, T
<1>3. /\ Len(q) \in Nat /\ DOMAIN q = 1..Len(q)
      /\ DOMAIN Append(q, j) = 1..(Len(q) + 1)
      /\ Append(q, j)[Len(q) + 1] = j
      /\ \A i \in 1..Len(q) : Append(q, j)[i] = q[i]
  BY <1>1, LenProperties, AppendProperties
<1> DEFINE End == Len(q) + 1
<1>4. /\ End \in DOMAIN queue'[T] /\ queue'[T][End] = j
      /\ \A i \in DOMAIN queue'[T] : i # End => i \in DOMAIN queue[T] /\ queue'[T][i] = queue[T][i]
      /\ \A i \in DOMAIN queue[T] : i \in DOMAIN queue'[T] /\ queue'[T][i] = queue[T][i]
  <2>1. End \in 1..(Len(q) + 1)
    BY <1>3
  <2>2. \A i \in 1..(Len(q) + 1) : i # End => i \in 1..Len(q)
    BY <1>3
  <2>3. \A i \in 1..Len(q) : i \in 1..(Len(q) + 1)
    BY <1>3
  <2> QED
    BY <1>0, <1>2, <1>3, <2>1, <2>2, <2>3
<1> HIDE DEF End
<1>5. InThread(l)' <=> InThread(l)
  BY DEF InThread
<1>6. InQueue(l) => InQueue(l)'
  BY <1>2, <1>4 DEF InQueue
<1>7. CASE j = l
  <2>1. InQueue(l)'
    BY <1>1, <1>4, <1>7 DEF InQueue
  <2>2. ASSUME NEW u \in Threads, NEW i \in DOMAIN queue'[u], queue'[u][i] = l
        PROVE  u = T /\ i = End
    <3>1. \A v \in Threads : \A k \in DOMAIN queue[v] : queue[v][k] # l
      BY <1>7 DEF InQueue
    <3> QED
      BY <1>2, <1>4, <2>2, <3>1
  <2> QED
    BY <1>5, <1>7, <2>1, <2>2 DEF Once, InThread
<1>8. CASE j # l
  <2>1. ASSUME NEW u \in Threads, NEW i \in DOMAIN queue'[u], queue'[u][i] = l
        PROVE  i \in DOMAIN queue[u] /\ queue[u][i] = l
    BY <1>2, <1>4, <1>8, <2>1
  <2>2. InQueue(l)' => InQueue(l)
    BY <2>1 DEF InQueue
  <2> QED
    BY <1>5, <1>6, <1>8, <2>1, <2>2 DEF Once, InThread
<1> QED
  BY <1>7, <1>8
-----------------------------------------------------------------------------
(* Fields of a loader.                                                      *)

Data == {"none", "filling", "short", "text", "freed"}
SameBut(j) == \A l \in Loaders \ {j} : loader'[l] = loader[l]

LEMMA LoaderFields ==
  ASSUME Tracked, NEW l \in Loaders
  PROVE  /\ loader[l] \in LoaderStates
         /\ loader[l].sem \in 0..1 /\ loader[l].wait \in BOOLEAN
         /\ loader[l].dying \in BOOLEAN /\ loader[l].data \in Data
<1>1. loader[l] \in LoaderStates
  BY DEF Tracked
<1> QED
  BY <1>1 DEF LoaderStates, Data

LEMMA SetLoader ==
  ASSUME Tracked, NEW j \in Loaders, NEW r \in LoaderStates,
         loader' = [loader EXCEPT ![j] = r]
  PROVE  /\ loader' \in [Loaders -> LoaderStates]
         /\ loader'[j] = r /\ SameBut(j)
BY DEF Tracked, SameBut

LEMMA SetData ==
  ASSUME Tracked, NEW j \in Loaders, NEW text \in Data,
         loader' = [loader EXCEPT ![j].data = text]
  PROVE  /\ loader' \in [Loaders -> LoaderStates]
         /\ loader'[j].sem = loader[j].sem /\ loader'[j].wait = loader[j].wait
         /\ loader'[j].dying = loader[j].dying /\ loader'[j].data = text /\ SameBut(j)
<1> DEFINE r == [loader[j] EXCEPT !.data = text]
<1>1. r \in LoaderStates /\ r.sem = loader[j].sem /\ r.wait = loader[j].wait
      /\ r.dying = loader[j].dying /\ r.data = text
  BY LoaderFields DEF LoaderStates, Data
<1> QED
  BY <1>1, SetLoader

LEMMA SetSem ==
  ASSUME Tracked, NEW j \in Loaders, NEW n \in 0..1,
         loader' = [loader EXCEPT ![j].sem = n]
  PROVE  /\ loader' \in [Loaders -> LoaderStates]
         /\ loader'[j].sem = n /\ loader'[j].wait = loader[j].wait
         /\ loader'[j].dying = loader[j].dying /\ loader'[j].data = loader[j].data
         /\ SameBut(j)
<1> DEFINE r == [loader[j] EXCEPT !.sem = n]
<1>1. r \in LoaderStates /\ r.sem = n /\ r.wait = loader[j].wait
      /\ r.dying = loader[j].dying /\ r.data = loader[j].data
  BY LoaderFields DEF LoaderStates
<1> QED
  BY <1>1, SetLoader

LEMMA SetWait ==
  ASSUME Tracked, NEW j \in Loaders, NEW d \in BOOLEAN,
         loader' = [loader EXCEPT ![j].dying = d, ![j].wait = FALSE]
  PROVE  /\ loader' \in [Loaders -> LoaderStates]
         /\ loader'[j].sem = loader[j].sem /\ loader'[j].wait = FALSE
         /\ loader'[j].dying = d /\ loader'[j].data = loader[j].data /\ SameBut(j)
<1> DEFINE r == [loader[j] EXCEPT !.dying = d, !.wait = FALSE]
<1>1. r \in LoaderStates /\ r.sem = loader[j].sem /\ r.wait = FALSE
      /\ r.dying = d /\ r.data = loader[j].data
  BY LoaderFields DEF LoaderStates
<1>2. loader' = [loader EXCEPT ![j] = r]
  BY DEF Tracked
<1> QED
  BY <1>1, <1>2, SetLoader

LEMMA MadeState == Made \in LoaderStates
BY DEF Made, LoaderStates

-----------------------------------------------------------------------------
(* Tracked is kept, action by action.                                       *)

(* What a thread holds after it goes on.                                    *)
LEMMA GoesHolding ==
  ASSUME Shape, Holding, NEW t \in Threads, NEW at, NEW j, Goes(t, at, j),
         at \in {"waits", "pops"} <=> j = NoJob,
         at \in {"reads", "ready"} => j \in Loaders,
         at \in {"sleeps", "deletes"} => j \in Files
  PROVE  /\ Holding' /\ thread'[t] = [at |-> at, job |-> j]
         /\ \A u \in Threads \ {t} : thread'[u] = thread[u]
<1>1. /\ thread'[t] = [at |-> at, job |-> j]
      /\ \A u \in Threads \ {t} : thread'[u] = thread[u]
  BY DEF Goes, Shape
<1>2. thread'[t].at = at /\ thread'[t].job = j
  BY <1>1
<1> QED
  BY <1>1, <1>2 DEF Holding

(* A loader that keeps its places, semaphore and client.                    *)
LEMMA AccountKept ==
  ASSUME NEW l, Account(l), client'[l] = client[l],
         loader'[l].sem = loader[l].sem, loader'[l].wait = loader[l].wait,
         InQueue(l)' \/ InThread(l)' => InQueue(l) \/ InThread(l)
  PROVE  Account(l)'
BY DEF Account

LEMMA EntryTracked ==
  ASSUME Base, Tracked, NEW t \in Threads, Entry(t)
  PROVE  Tracked'
<1> USE DEF Base
<1> DEFINE j == thread[t].job
<1>a. Up /\ UNCHANGED client
  BY DEF Entry, Wait, Pop, RunLoader, ReadFile, Ready, RunDelete, Sleep, Delete, loading, saving
<1>h. Holding /\ loader \in [Loaders -> LoaderStates]
  BY DEF Tracked
<1>o. \A l \in Loaders : Once(l) /\ Account(l)
  BY DEF Tracked
<1>n. \A l \in Loaders : l # NoJob
  BY LoaderIsJob
(* A thread that keeps its job, or drops it, and posts no answer.           *)
<1>d. ASSUME NEW at, NEW k \in {j, NoJob}, Goes(t, at, k), UNCHANGED queue, Holding',
             loader' \in [Loaders -> LoaderStates],
             \A l \in Loaders : loader'[l].sem = loader[l].sem /\ loader'[l].wait = loader[l].wait
      PROVE  Tracked'
  <2>1. ASSUME NEW l \in Loaders PROVE Once(l)' /\ Account(l)'
    <3>1. \A u \in Threads : thread'[u].job = l => thread[u].job = l
      BY <1>d, <1>n DEF Goes, Shape
    <3>2. /\ Once(l)' /\ (InQueue(l)' <=> InQueue(l)) /\ (InThread(l)' => InThread(l))
      BY <1>o, <1>d, <3>1, PlacesFewer
    <3> QED
      BY <1>a, <1>o, <1>d, <3>2, AccountKept
  <2> QED
    BY <1>d, <2>1 DEF Tracked
<1>1. CASE Wait(t)
  <2>1. Goes(t, "pops", NoJob) /\ j = NoJob /\ UNCHANGED <<queue, loader>>
    BY <1>1, <1>h DEF Wait, Holding, loading
  <2>2. Holding'
    BY <1>h, <2>1, GoesHolding
  <2> QED
    BY <1>h, <1>d, <2>1, <2>2
<1>2. CASE Pop(t)
  <2>1. Goes(t, "runs", Head(queue[t])) /\ UNCHANGED loader /\ Head(queue[t]) \in Jobs
    BY <1>2, PopFinds DEF Pop, loading
  <2>2. Holding'
    <3>1. Head(queue[t]) # NoJob
      BY <2>1, NullAssumption
    <3> QED
      BY <1>h, <2>1, <3>1, GoesHolding
  <2>3. ASSUME NEW l \in Loaders PROVE Once(l)' /\ Account(l)'
    <3>1. /\ Once(l)' /\ (InQueue(l)' => InQueue(l))
          /\ (InThread(l)' => InQueue(l) \/ InThread(l))
      BY <1>2, <1>h, <1>o, PlacesPopped
    <3> QED
      BY <1>a, <1>o, <2>1, <3>1, AccountKept
  <2> QED
    BY <1>h, <2>1, <2>2, <2>3 DEF Tracked
<1>3. CASE RunLoader(t)
  <2>1. j \in Loaders /\ UNCHANGED queue
    BY <1>3 DEF RunLoader
  <2>2. CASE UNCHANGED loader /\ (Goes(t, "waits", NoJob) \/ Goes(t, "ready", j))
    <3>1. Holding'
      BY <1>h, <1>n, <2>1, <2>2, GoesHolding
    <3> QED
      BY <1>h, <1>d, <2>1, <2>2, <3>1
  <2>3. CASE loader' = [loader EXCEPT ![j].data = "filling"] /\ Goes(t, "reads", j)
    <3>1. Holding'
      BY <1>h, <1>n, <2>1, <2>3, GoesHolding
    <3>2. /\ loader' \in [Loaders -> LoaderStates]
          /\ \A l \in Loaders : loader'[l].sem = loader[l].sem /\ loader'[l].wait = loader[l].wait
      BY <2>1, <2>3, SetData DEF Data, SameBut
    <3> QED
      BY <1>d, <2>1, <2>3, <3>1, <3>2
  <2> QED
    BY <1>3, <2>2, <2>3 DEF RunLoader, Done
<1>4. CASE ReadFile(t)
  <2>1. j \in Loaders /\ UNCHANGED queue /\ Goes(t, "ready", j)
    BY <1>4, <1>h DEF ReadFile, Holding
  <2>2. PICK text \in Data : loader' = [loader EXCEPT ![j].data = text]
    BY <1>4 DEF ReadFile, Data
  <2>3. Holding'
    BY <1>h, <1>n, <2>1, GoesHolding
  <2>4. /\ loader' \in [Loaders -> LoaderStates]
        /\ \A l \in Loaders : loader'[l].sem = loader[l].sem /\ loader'[l].wait = loader[l].wait
    BY <2>1, <2>2, SetData DEF SameBut
  <2> QED
    BY <1>d, <2>1, <2>3, <2>4
<1>5. CASE Ready(t)
  <2>1. j \in Loaders /\ UNCHANGED queue /\ Goes(t, "waits", NoJob)
    BY <1>5, <1>h DEF Ready, Holding, Done
  <2>2. InThread(j) /\ loader[j].sem = 0
    BY <1>o, <2>1 DEF InThread, Account
  <2>3. loader' = [loader EXCEPT ![j].sem = 1]
    <3>1. loader' = [loader EXCEPT ![j].sem = loader[j].sem + 1] /\ loader[j].sem + 1 = 1
      BY <1>5, <2>2 DEF Ready
    <3> QED
      BY <3>1, Zenon
  <2>4. /\ loader' \in [Loaders -> LoaderStates] /\ SameBut(j)
        /\ loader'[j].sem = 1 /\ loader'[j].wait = loader[j].wait
    <3>1. 1 \in 0..1
      OBVIOUS
    <3> QED
      BY <2>1, <2>3, <3>1, SetSem
  <2>5. Holding'
    BY <1>h, <2>1, GoesHolding
  <2>6. ASSUME NEW l \in Loaders PROVE Once(l)' /\ Account(l)'
    <3>1. \A u \in Threads : thread'[u].job = l <=> thread[u].job = l /\ u # t
      BY <1>n, <2>1 DEF Goes, Shape
    <3>2. Once(l)' /\ (InQueue(l)' <=> InQueue(l)) /\ (InThread(l)' => InThread(l))
      BY <1>o, <2>1, <3>1, PlacesFewer
    <3>3. CASE l = j
      <4>1. ~InThread(l)' /\ ~InQueue(l)
        BY <1>o, <2>1, <2>2, <3>1, <3>3 DEF Once, InThread
      <4>2. client[l] \notin {"none", "has data"}
        BY <1>o, <2>1, <2>2, <3>3 DEF Account
      <4>3. /\ client[l] \in {"queued", "holds"} => loader'[l].wait
            /\ client[l] \in {"waits", "has data"} => ~loader'[l].wait
            /\ client'[l] = client[l]
        BY <1>a, <1>o, <2>4, <3>3 DEF Account
      <4> QED
        BY <3>2, <4>1, <4>2, <4>3 DEF Account
    <3>4. CASE l # j
      BY <1>a, <1>o, <2>4, <3>2, <3>4, AccountKept DEF SameBut
    <3> QED
      BY <3>2, <3>3, <3>4
  <2> QED
    BY <2>4, <2>5, <2>6 DEF Tracked
<1>6. CASE RunDelete(t)
  <2>1. Goes(t, "sleeps", j) /\ j \in Files /\ UNCHANGED <<queue, loader>>
    BY <1>6 DEF RunDelete, loading
  <2>2. j # NoJob
    BY <2>1, NullAssumption DEF Jobs
  <2>3. Holding'
    BY <1>h, <2>1, <2>2, GoesHolding
  <2> QED
    BY <1>h, <1>d, <2>1, <2>3
<1>7. CASE Sleep(t)
  <2>1. Goes(t, "deletes", j) /\ j \in Files /\ UNCHANGED <<queue, loader>>
    BY <1>7, <1>h DEF Sleep, loading, Holding
  <2>2. j # NoJob
    BY <2>1, NullAssumption DEF Jobs
  <2>3. Holding'
    BY <1>h, <2>1, <2>2, GoesHolding
  <2> QED
    BY <1>h, <1>d, <2>1, <2>3
<1>8. CASE Delete(t)
  <2>1. Goes(t, "waits", NoJob) /\ UNCHANGED <<queue, loader>>
    BY <1>8 DEF Delete, Done, loading
  <2>2. Holding'
    BY <1>h, <2>1, GoesHolding
  <2> QED
    BY <1>h, <1>d, <2>1, <2>2
<1> QED
  BY <1>1, <1>2, <1>3, <1>4, <1>5, <1>6, <1>7, <1>8 DEF Entry

LEMMA ClientTracked ==
  ASSUME Base, Tracked, NEW k \in Loaders, Client(k)
  PROVE  Tracked'
<1> USE DEF Base
<1>a. UNCHANGED thread
  BY DEF Client, Load, PostLoader, WaitReady, DeleteLoader, Woken, background
<1>h. Holding' /\ loader \in [Loaders -> LoaderStates]
  BY <1>a DEF Tracked, Holding
<1>o. \A l \in Loaders : Once(l) /\ Account(l)
  BY DEF Tracked
<1>c. ASSUME NEW at, ClientGoes(k, at)
      PROVE  client'[k] = at /\ \A l \in Loaders \ {k} : client'[l] = client[l]
  BY <1>c DEF ClientGoes, Shape
<1>q. ASSUME UNCHANGED queue, NEW l \in Loaders
      PROVE  /\ Once(l)' /\ (InQueue(l)' <=> InQueue(l)) /\ (InThread(l)' <=> InThread(l))
  BY <1>a, <1>o, <1>q, PlacesKept
<1>k. Account(k)
  BY <1>o
<1>s. ASSUME UNCHANGED queue, NEW at, ClientGoes(k, at), SameBut(k),
             loader' \in [Loaders -> LoaderStates], Account(k)'
      PROVE  Tracked'
  <2>1. ASSUME NEW l \in Loaders, l # k PROVE Account(l)'
    BY <1>c, <1>o, <1>q, <1>s, <2>1, AccountKept DEF SameBut
  <2> QED
    BY <1>h, <1>q, <1>s, <2>1 DEF Tracked
<1>1. CASE Load(k) /\ k \in EditorReusers
  <2>1. UNCHANGED queue /\ ClientGoes(k, "holds") /\ client[k] = "none"
    BY <1>1 DEF Load
  <2> DEFINE r == [Made EXCEPT !.data = "text", !.sem = 1]
  <2>2. r \in LoaderStates /\ r.sem = 1 /\ r.wait = TRUE
    <3>1. Made.wait = TRUE
      BY DEF Made
    <3> DEFINE m == Made
    <3>2. m \in LoaderStates /\ m.wait = TRUE
      BY <3>1, MadeState
    <3> HIDE DEF m
    <3>3. \A n \in 0..1 : [m EXCEPT !.data = "text", !.sem = n] \in LoaderStates
      BY <3>2 DEF LoaderStates
    <3>4. /\ [m EXCEPT !.data = "text", !.sem = 1].sem = 1
          /\ [m EXCEPT !.data = "text", !.sem = 1].wait = m.wait
      BY <3>2 DEF LoaderStates
    <3> QED
      BY <3>2, <3>3, <3>4, 1 \in 0..1 DEF m
  <2>3. loader' = [loader EXCEPT ![k] = r]
    BY <1>1 DEF Load
  <2> HIDE DEF r
  <2>4. loader' \in [Loaders -> LoaderStates] /\ loader'[k] = r /\ SameBut(k)
    BY <2>2, <2>3, SetLoader
  <2>5. ~InQueue(k)' /\ ~InThread(k)' /\ client'[k] = "holds"
    <3>1. ~InQueue(k) /\ ~InThread(k)
      BY <1>k, <2>1 DEF Account
    <3>2. (InQueue(k)' <=> InQueue(k)) /\ (InThread(k)' <=> InThread(k))
      BY <1>q, <2>1
    <3>3. client'[k] = "holds"
      BY <1>c, <2>1
    <3> QED
      BY <3>1, <3>2, <3>3
  <2>6. Account(k)'
    BY <2>2, <2>4, <2>5 DEF Account
  <2> QED
    BY <1>s, <2>1, <2>4, <2>6
<1>2. CASE Load(k) /\ k \notin EditorReusers
  <2>1. Push(k) /\ ClientGoes(k, "queued") /\ client[k] = "none" /\ k \in Jobs
    BY <1>2, LoaderIsJob DEF Load
  <2>2. loader' = [loader EXCEPT ![k] = Made] /\ Made.sem = 0 /\ Made.wait
    BY <1>2 DEF Load, Made
  <2>3. loader' \in [Loaders -> LoaderStates] /\ loader'[k] = Made /\ SameBut(k)
    BY <2>2, SetLoader, MadeState
  <2>4. ~InQueue(k) /\ ~InThread(k) /\ client'[k] = "queued"
    <3>1. client'[k] = "queued"
      BY <1>c, <2>1
    <3> QED
      BY <1>k, <2>1, <3>1 DEF Account
  <2>5. ASSUME NEW l \in Loaders PROVE Once(l)' /\ Account(l)'
    <3>1. /\ Once(l)' /\ (InQueue(l)' <=> InQueue(l) \/ k = l)
          /\ (InThread(l)' <=> InThread(l))
      BY <1>a, <1>o, <2>1, <2>4, PlacesPushed
    <3>2. CASE l = k
      <4>1. InQueue(k)' /\ ~InThread(k)'
        BY <2>4, <3>1, <3>2
      <4>2. Account(k)'
        BY <2>2, <2>3, <2>4, <4>1 DEF Account
      <4> QED
        BY <3>1, <3>2, <4>2
    <3>3. CASE l # k
      BY <1>c, <1>o, <2>1, <2>3, <3>1, <3>3, AccountKept DEF SameBut
    <3> QED
      BY <3>1, <3>2, <3>3
  <2> QED
    BY <1>h, <2>3, <2>5 DEF Tracked
<1>3. CASE PostLoader(k)
  <2>1. UNCHANGED <<queue, loader>> /\ ClientGoes(k, "holds") /\ client[k] = "queued"
    BY <1>3 DEF PostLoader
  <2>2. Account(k)'
    <3>1. (InQueue(k)' <=> InQueue(k)) /\ (InThread(k)' <=> InThread(k))
      BY <1>q, <2>1
    <3>2. client'[k] = "holds" /\ loader' = loader
      BY <1>c, <2>1
    <3> QED
      BY <1>k, <2>1, <3>1, <3>2 DEF Account
  <2> QED
    BY <1>h, <1>s, <2>1, <2>2 DEF SameBut
<1>4. CASE WaitReady(k) \/ DeleteLoader(k)
  <2>1. UNCHANGED queue /\ client[k] \in {"holds", "has data"}
    BY <1>4 DEF WaitReady, DeleteLoader, background
  <2>2. PICK d \in BOOLEAN : loader' = [loader EXCEPT ![k].dying = d, ![k].wait = FALSE]
    <3>1. CASE WaitReady(k)
      <4>1. loader' = [loader EXCEPT ![k].dying = loader[k].dying, ![k].wait = FALSE]
        BY <1>h, <3>1, LoaderFields DEF WaitReady, LoaderStates
      <4> QED
        BY <4>1, LoaderFields
    <3>2. CASE DeleteLoader(k)
      BY <3>2 DEF DeleteLoader
    <3> QED
      BY <1>4, <3>1, <3>2
  <2>3. /\ loader' \in [Loaders -> LoaderStates] /\ loader'[k].wait = FALSE
        /\ loader'[k].sem = loader[k].sem /\ SameBut(k)
    BY <2>2, SetWait
  <2>4. PICK at \in {"waits", "has data", "none"} :
          ClientGoes(k, at) /\ (loader[k].wait => at = "waits")
    BY <1>4 DEF WaitReady, DeleteLoader
  <2>5. at # "waits" => client[k] = "has data"
    BY <1>k, <2>1, <2>4 DEF Account
  <2>6. Account(k)'
    <3>1. (InQueue(k)' <=> InQueue(k)) /\ (InThread(k)' <=> InThread(k))
      BY <1>q, <2>1
    <3>2. client'[k] = at
      BY <1>c, <2>4
    <3> QED
      BY <1>k, <2>1, <2>3, <2>4, <2>5, <3>1, <3>2 DEF Account
  <2> QED
    BY <1>s, <2>1, <2>3, <2>4, <2>6
<1>5. CASE Woken(k)
  <2>1. UNCHANGED queue /\ client[k] = "waits" /\ loader[k].sem > 0
    BY <1>5 DEF Woken, background
  <2>2. loader[k].sem = 1 /\ loader[k].sem # 0
    <3>1. loader[k].sem \in 0..1
      BY LoaderFields
    <3> QED
      BY <2>1, <3>1
  <2>3. loader' = [loader EXCEPT ![k].sem = 0]
    <3>1. loader' = [loader EXCEPT ![k].sem = loader[k].sem - 1]
      BY <1>5 DEF Woken
    <3>2. loader[k].sem - 1 = 0
      BY <2>2
    <3> QED
      BY <3>1, <3>2, Zenon
  <2>4. /\ loader' \in [Loaders -> LoaderStates] /\ loader'[k].sem = 0
        /\ loader'[k].wait = loader[k].wait /\ SameBut(k)
    <3>1. 0 \in 0..1
      OBVIOUS
    <3> QED
      BY <2>3, <3>1, SetSem
  <2>5. PICK at \in {"has data", "none"} : ClientGoes(k, at)
    <3>1. ClientGoes(k, IF loader[k].dying THEN "none" ELSE "has data")
      BY <1>5 DEF Woken
    <3>2. CASE loader[k].dying
      <4>1. ClientGoes(k, "none")
        BY <3>1, <3>2, Zenon
      <4> QED
        BY <4>1
    <3>3. CASE ~loader[k].dying
      <4>1. ClientGoes(k, "has data")
        BY <3>1, <3>3, Zenon
      <4> QED
        BY <4>1
    <3> QED
      BY <3>2, <3>3
  <2>6. ~InQueue(k)' /\ ~InThread(k)'
    <3>1. ~InQueue(k) /\ ~InThread(k)
      <4>1. InQueue(k) \/ InThread(k) => loader[k].sem = 0
        BY <1>k DEF Account
      <4> QED
        BY <2>2, <4>1
    <3>2. (InQueue(k)' <=> InQueue(k)) /\ (InThread(k)' <=> InThread(k))
      BY <1>q, <2>1
    <3> QED
      BY <3>1, <3>2
  <2>7. ~loader[k].wait
    BY <1>k, <2>1 DEF Account
  <2>8. Account(k)'
    <3>1. client'[k] = at
      BY <1>c, <2>5
    <3> QED
      BY <2>4, <2>5, <2>6, <2>7, <3>1 DEF Account
  <2> QED
    BY <1>s, <2>1, <2>4, <2>5, <2>8
<1> QED
  BY <1>1, <1>2, <1>3, <1>4, <1>5 DEF Client

LEMMA SaveTracked ==
  ASSUME Base, Tracked, SaveStep \/ \E f \in Files : Save(f)
  PROVE  Tracked'
<1> USE DEF Base
<1>a. UNCHANGED <<thread, loader, client>>
  BY DEF SaveStep, Copy, Copied, Open, Write, QueueDelete, PostDelete, Save, background, loading
<1>h. Holding' /\ loader' \in [Loaders -> LoaderStates]
  BY <1>a DEF Tracked, Holding
<1>o. \A l \in Loaders : Once(l) /\ Account(l)
  BY DEF Tracked
<1>1. CASE UNCHANGED queue
  <2>1. ASSUME NEW l \in Loaders PROVE Once(l)' /\ Account(l)'
    BY <1>a, <1>o, <1>1, PlacesKept, AccountKept
  <2> QED
    BY <1>h, <2>1 DEF Tracked
<1>2. CASE QueueDelete /\ Push(save.file)
  <2>1. save.file \in Files /\ save.file \in Jobs
    BY <1>2 DEF QueueDelete, Shape, Jobs
  <2>2. ASSUME NEW l \in Loaders PROVE Once(l)' /\ Account(l)'
    <3>1. save.file # l
      BY <2>1, LoaderIsJob
    <3>2. Once(l)' /\ (InQueue(l)' <=> InQueue(l)) /\ (InThread(l)' <=> InThread(l))
      BY <1>a, <1>o, <1>2, <2>1, <3>1, PlacesPushed
    <3> QED
      BY <1>a, <1>o, <3>2, AccountKept
  <2> QED
    BY <1>h, <2>2 DEF Tracked
<1> QED
  BY <1>1, <1>2 DEF SaveStep, Copy, Copied, Open, Write, QueueDelete, PostDelete, Save, background

Fresh ==
  /\ queue = [t \in Threads |-> <<>>] /\ thread = [t \in Threads |-> Idle]
  /\ loader = [l \in Loaders |-> Made] /\ client = [l \in Loaders |-> "none"]

LEMMA FreshTracked == Fresh => Tracked
<1> SUFFICES ASSUME Fresh PROVE Tracked
  OBVIOUS
<1> USE DEF Fresh
<1>1. \A t \in Threads : queue[t] = <<>> /\ thread[t].at = "waits" /\ thread[t].job = NoJob
  BY DEF Idle
<1>2. Holding
  BY <1>1 DEF Holding
<1>3. \A l \in Loaders : ~InQueue(l) /\ ~InThread(l) /\ l # NoJob
  BY <1>1, LoaderIsJob DEF InQueue, InThread
<1>4. \A l \in Loaders : Once(l)
  BY <1>1, <1>3 DEF Once
<1>5. \A l \in Loaders : Account(l)
  BY <1>3 DEF Account, Made
<1> QED
  BY <1>2, <1>4, <1>5, MadeState DEF Tracked

LEMMA TrackedNext ==
  ASSUME Base, Tracked, [Next]_vars
  PROVE  Tracked'
<1>1. CASE \E t \in Threads : Entry(t)
  BY <1>1, EntryTracked
<1>2. CASE \E l \in Loaders : Client(l)
  BY <1>2, ClientTracked
<1>3. CASE SaveStep \/ \E f \in Files : Save(f)
  BY <1>3, SaveTracked
<1>4. CASE Start
  <2>1. Fresh'
    BY <1>4 DEF Start, Fresh
  <2>2. Fresh' => Tracked'
    BY FreshTracked, PTL
  <2> QED
    BY <2>1, <2>2
<1>5. CASE UNCHANGED <<queue, thread, loader, client>>
  <2>1. Holding' /\ loader' \in [Loaders -> LoaderStates]
    BY <1>5 DEF Tracked, Holding
  <2>2. ASSUME NEW l \in Loaders PROVE Once(l)' /\ Account(l)'
    BY <1>5, PlacesKept, AccountKept DEF Tracked
  <2> QED
    BY <2>1, <2>2 DEF Tracked
<1>6. CASE Shutdown \/ Exit \/ Crash \/ (\E f \in Files : UserRestores(f)) \/ UNCHANGED vars
  BY <1>5, <1>6 DEF Shutdown, Exit, Crash, UserRestores, vars, background, loading
<1> QED
  BY <1>1, <1>2, <1>3, <1>4, <1>6 DEF Next

LEMMA TrackedAlways == Spec => []Tracked
<1>1. Init => Tracked
  BY FreshTracked DEF Init, Fresh
<1>2. Base /\ Tracked /\ [Next]_vars => Tracked'
  BY TrackedNext
<1> QED
  BY <1>1, <1>2, BaseAlways, PTL DEF Spec

(* Every variable keeps its type; the semaphore of a loader, that the       *)
(* threads and the constructor of EditorReuser post, never exceeds 1.       *)
THEOREM TypeCorrect == Spec => []TypeOK
<1>1. Base /\ Tracked => TypeOK
  BY DEF Base, Shape, Tracked, TypeOK, ThreadStates, ClientStates, SaveStates, DiskStates,
         LoaderStates, Texts
<1> QED
  BY <1>1, BaseAlways, TrackedAlways, PTL
-----------------------------------------------------------------------------
(* The text of a loader.                                                    *)

LEMMA SteadyKept ==
  ASSUME NEW l \in Loaders, Steady(l), loader'[l].data = loader[l].data,
         \A u \in Threads : thread[u].job = l /\ thread[u].at = "reads" => thread'[u] = thread[u]
  PROVE  Steady(l)'
BY DEF Steady

LEMMA EntrySteady ==
  ASSUME Base, Tracked, UrlLoaders = {}, NEW t \in Threads, Entry(t),
         NEW l \in Loaders, Steady(l)
  PROVE  Steady(l)'
<1> USE DEF Base
<1> DEFINE j == thread[t].job
<1>h. Holding
  BY DEF Tracked
<1>g. ASSUME NEW at, NEW k, Goes(t, at, k)
      PROVE  /\ thread'[t] = [at |-> at, job |-> k]
             /\ \A u \in Threads \ {t} : thread'[u] = thread[u]
  BY <1>g DEF Goes, Shape
<1>1. CASE UNCHANGED loader /\ thread[t].at # "reads"
  <2>1. \E at : \E k : Goes(t, at, k)
    BY <1>1 DEF Entry, Wait, Pop, RunLoader, ReadFile, Ready, RunDelete, Sleep, Delete, Done
  <2> QED
    BY <1>1, <1>g, <2>1, SteadyKept
<1>2. CASE RunLoader(t) /\ ~UNCHANGED loader
  <2>1. j \in Loaders /\ Goes(t, "reads", j) /\ loader' = [loader EXCEPT ![j].data = "filling"]
    BY <1>2 DEF RunLoader
  <2>2. CASE l = j
    <3>1. thread'[t] = [at |-> "reads", job |-> j]
      BY <1>g, <2>1
    <3>2. thread'[t].job = l /\ thread'[t].at = "reads"
      BY <2>2, <3>1
    <3> QED
      BY <3>2 DEF Steady
  <2>3. CASE l # j
    <3>1. loader'[l] = loader[l]
      BY <2>1, <2>3, SetData DEF Data, SameBut
    <3> QED
      BY <1>g, <2>1, <2>3, <3>1, SteadyKept
  <2> QED
    BY <2>2, <2>3
<1>3. CASE ReadFile(t)
  <2>1. j \in Loaders /\ Goes(t, "ready", j)
    BY <1>3, <1>h DEF ReadFile, Holding
  <2>2. PICK text \in {"none", "short", "text"} : loader' = [loader EXCEPT ![j].data = text]
    BY <1>3 DEF ReadFile
  <2>3. loader'[j].data = text /\ SameBut(j)
    BY <2>1, <2>2, SetData DEF Data
  <2>4. CASE l = j
    BY <2>3, <2>4 DEF Steady
  <2>5. CASE l # j
    BY <1>g, <2>1, <2>3, <2>5, SteadyKept DEF SameBut
  <2> QED
    BY <2>4, <2>5
<1>4. CASE Ready(t)
  <2>1. j \in Loaders /\ Goes(t, "waits", NoJob) /\ thread[t].at # "reads"
    BY <1>4, <1>h DEF Ready, Holding, Done
  <2>2. loader'[l].data = loader[l].data
    BY <1>4 DEF Ready, Tracked
  <2> QED
    BY <1>g, <2>1, <2>2, SteadyKept
<1> QED
  BY <1>1, <1>2, <1>3, <1>4 DEF Entry, Wait, Pop, RunLoader, RunDelete, Sleep, Delete, loading

LEMMA SteadyNext ==
  ASSUME Base, Tracked, UrlLoaders = {}, [Next]_vars, NEW l \in Loaders, Steady(l)
  PROVE  Steady(l)'
<1>1. CASE \E t \in Threads : Entry(t)
  BY <1>1, EntrySteady
<1>2. CASE \E k \in Loaders : Client(k)
  <2>1. PICK k \in Loaders : Client(k)
    BY <1>2
  <2>2. UNCHANGED thread
    BY <2>1 DEF Client, Load, PostLoader, WaitReady, DeleteLoader, Woken, background
  <2>3. loader'[l].data \in {loader[l].data, "none", "short", "text"}
    <3>1. CASE Load(k)
      <4>1. loader' = [loader EXCEPT ![k] = Made]
              \/ loader' = [loader EXCEPT ![k] = [Made EXCEPT !.data = "text", !.sem = 1]]
        BY <3>1 DEF Load
      <4>2. Made.data = "none" /\ [Made EXCEPT !.data = "text", !.sem = 1].data = "text"
        BY DEF Made
      <4>3. loader \in [Loaders -> LoaderStates]
        BY DEF Tracked
      <4>4. loader'[l] \in {loader[l], Made, [Made EXCEPT !.data = "text", !.sem = 1]}
        BY <4>1, <4>3
      <4> QED
        BY <4>2, <4>4
    <3>2. CASE PostLoader(k)
      BY <3>2 DEF PostLoader
    <3>3. CASE WaitReady(k) \/ DeleteLoader(k) \/ Woken(k)
      <4>1. loader[k] \in LoaderStates /\ loader \in [Loaders -> LoaderStates]
        BY DEF Tracked
      <4>2. CASE l = k
        <5>1. CASE WaitReady(k)
          BY <4>1, <4>2, <5>1 DEF WaitReady, LoaderStates
        <5>2. CASE DeleteLoader(k)
          <6>1. loader' = [loader EXCEPT ![k].dying = TRUE, ![k].wait = FALSE]
            BY <5>2 DEF DeleteLoader
          <6> QED
            BY <4>2, <6>1, SetWait
        <5>3. CASE Woken(k)
          BY <4>1, <4>2, <5>3 DEF Woken, LoaderStates
        <5> QED
          BY <3>3, <5>1, <5>2, <5>3
      <4>3. CASE l # k
        BY <3>3, <4>1, <4>3 DEF WaitReady, DeleteLoader, Woken
      <4> QED
        BY <4>2, <4>3
    <3> QED
      BY <2>1, <3>1, <3>2, <3>3 DEF Client
  <2> QED
    BY <2>2, <2>3 DEF Steady
<1>3. CASE Start
  BY <1>3 DEF Start, Made, Steady
<1>4. CASE UNCHANGED <<thread, loader>>
  BY <1>4, SteadyKept
<1> QED
  BY <1>1, <1>2, <1>3, <1>4 DEF Next, SaveStep, Copy, Copied, Open, Write, QueueDelete,
     PostDelete, Save, Shutdown, Exit, Crash, UserRestores, vars, background, loading

(* Clients of loaders: unless a loader of a URL has freed the text, a       *)
(* client that has got it reads all of it or none, and no thread has the    *)
(* loader then, nor once it is deleted, or ever gets it from a queue.       *)
THEOREM LoadersSettle ==
  ASSUME UrlLoaders = {}
  PROVE  Spec => []LoaderSettled
<1>1. Init => \A l \in Loaders : Steady(l)
  BY DEF Init, Made, Steady
<1>2. Base /\ Tracked /\ (\A l \in Loaders : Steady(l)) /\ [Next]_vars
        => (\A l \in Loaders : Steady(l))'
  BY SteadyNext
<1>3. Tracked /\ (\A l \in Loaders : Steady(l)) => LoaderSettled
  <2> SUFFICES ASSUME Tracked, \A k \in Loaders : Steady(k), NEW l \in Loaders,
                      client[l] \in {"none", "has data"}
               PROVE  /\ \A t \in Threads : thread[t].job # l
                                            /\ \A i \in DOMAIN queue[t] : queue[t][i] # l
                      /\ client[l] = "has data" => loader[l].data \in {"none", "short", "text"}
    BY DEF LoaderSettled
  <2>1. ~InQueue(l) /\ ~InThread(l)
    BY DEF Tracked, Account
  <2> QED
    BY <2>1 DEF InQueue, InThread, Steady
<1> QED
  BY <1>1, <1>2, <1>3, BaseAlways, TrackedAlways, PTL DEF Spec
-----------------------------------------------------------------------------
(* No wake-up is lost.                                                      *)

LEMMA ApartNext ==
  ASSUME Base, Apart, [Next]_vars
  PROVE  Apart'
<1> DEFINE d == "delayedDeleteThread"
<1> USE DEF Base
<1>0. d \in Threads /\ queue[d] \in Seq(Files)
  BY DEF Threads, Apart
<1>1. CASE \E t \in Threads : Pop(t)
  <2>1. PICK t \in Threads : Pop(t)
    BY <1>1
  <2>2. CASE t = d
    <3>1. queue[d] # <<>>
      BY <2>1, <2>2, PopFinds DEF Pop
    <3>2. Tail(queue[d]) \in Seq(Files)
      BY <1>0, <3>1
    <3>3. queue'[d] = Tail(queue[d])
      BY <1>0, <2>1, <2>2 DEF Pop, Shape
    <3> QED
      BY <3>2, <3>3 DEF Apart
  <2>3. CASE t # d
    BY <1>0, <2>1, <2>3 DEF Pop, Shape, Apart
  <2> QED
    BY <2>2, <2>3
<1>2. CASE \E l \in Loaders : Load(l) /\ l \notin EditorReusers
  <2>1. PICK l \in Loaders : Push(l) /\ l \in FileLoaders \cup UncLoaders \cup UrlLoaders
    BY <1>2 DEF Load, Loaders
  <2>2. ThreadOf(l) # d
    BY <2>1 DEF ThreadOf
  <2> QED
    BY <1>0, <2>1, <2>2 DEF Push, Shape, Apart
<1>3. CASE QueueDelete /\ Push(save.file)
  <2>1. save.file \in Files /\ ThreadOf(save.file) = d
    BY <1>3, ThreadOfJob DEF QueueDelete, Shape
  <2>2. queue'[d] = Append(queue[d], save.file)
    BY <1>0, <1>3, <2>1 DEF Push, Shape
  <2>3. Append(queue[d], save.file) \in Seq(Files)
    BY <1>0, <2>1
  <2> QED
    BY <2>2, <2>3 DEF Apart
<1>4. CASE Start
  <2>1. queue'[d] = <<>>
    BY <1>0, <1>4 DEF Start
  <2>2. <<>> \in Seq(Files)
    OBVIOUS
  <2> QED
    BY <2>1, <2>2 DEF Apart
<1>5. CASE UNCHANGED queue
  BY <1>5 DEF Apart
<1> QED
  BY <1>1, <1>2, <1>3, <1>4, <1>5 DEF Next, Entry, Wait, RunLoader, ReadFile, Ready, RunDelete,
     Sleep, Delete, Client, Load, PostLoader, WaitReady, DeleteLoader, Woken, SaveStep, Copy,
     Copied, Open, Write, QueueDelete, PostDelete, Save, Shutdown, Exit, Crash, UserRestores, vars, background

LEMMA PatientKept ==
  ASSUME NEW l, Patient(l), client'[l] = client[l], loader'[l].dying = loader[l].dying,
         loader'[l].sem = loader[l].sem,
         InQueue(l) \/ InThread(l) => InQueue(l)' \/ InThread(l)'
  PROVE  Patient(l)'
BY DEF Patient

LEMMA EntryPatient ==
  ASSUME Base, Tracked, NEW t \in Threads, Entry(t), NEW l \in Loaders, Patient(l)
  PROVE  Patient(l)'
<1> USE DEF Base
<1> DEFINE j == thread[t].job
<1>a. UNCHANGED client
  BY DEF Entry, Wait, Pop, RunLoader, ReadFile, Ready, RunDelete, Sleep, Delete, loading
<1>h. Holding /\ Once(l) /\ Account(l) /\ l # NoJob
  BY LoaderIsJob DEF Tracked
<1>g. ASSUME NEW at, NEW k, Goes(t, at, k)
      PROVE  /\ thread'[t].job = k
             /\ \A u \in Threads \ {t} : thread'[u] = thread[u]
  BY <1>g DEF Goes, Shape
<1>k. ASSUME NEW at, NEW k, Goes(t, at, k), UNCHANGED queue, j = l => k = l,
             loader'[l].dying = loader[l].dying, loader'[l].sem = loader[l].sem
      PROVE  Patient(l)'
  <2>1. \A u \in Threads : thread[u].job = l => thread'[u].job = l
    BY <1>g, <1>k
  <2>2. InQueue(l) \/ InThread(l) => InQueue(l)' \/ InThread(l)'
    BY <1>k, <2>1 DEF InQueue, InThread
  <2> QED
    BY <1>a, <1>k, <2>2, PatientKept
<1>1. CASE Wait(t)
  <2>1. Goes(t, "pops", NoJob) /\ j = NoJob /\ UNCHANGED <<queue, loader>>
    BY <1>1, <1>h DEF Wait, Holding, loading
  <2> QED
    BY <1>h, <1>k, <2>1
<1>2. CASE Pop(t)
  <2>1. UNCHANGED loader
    BY <1>2 DEF Pop, loading
  <2> QED
    BY <1>2, <1>a, <1>h, <2>1, PlacesPopped, PatientKept
<1>3. CASE RunLoader(t)
  <2>1. j \in Loaders /\ UNCHANGED queue
    BY <1>3 DEF RunLoader
  <2>2. j = l => ~loader[l].dying
    BY <1>h DEF Account, InThread, Patient
  <2>3. loader'[l].dying = loader[l].dying /\ loader'[l].sem = loader[l].sem
    <3>1. CASE loader' = [loader EXCEPT ![j].data = "filling"]
      BY <2>1, <3>1, SetData DEF Data, SameBut
    <3> QED
      BY <1>3, <3>1 DEF RunLoader
  <2>4. PICK at, k : Goes(t, at, k) /\ (j = l => k = l)
    BY <1>3, <2>2 DEF RunLoader, Done
  <2> QED
    BY <1>k, <2>1, <2>3, <2>4
<1>4. CASE ReadFile(t)
  <2>1. j \in Loaders /\ UNCHANGED queue /\ Goes(t, "ready", j)
    BY <1>4, <1>h DEF ReadFile, Holding
  <2>2. PICK text \in Data : loader' = [loader EXCEPT ![j].data = text]
    BY <1>4 DEF ReadFile, Data
  <2>3. loader'[l].dying = loader[l].dying /\ loader'[l].sem = loader[l].sem
    BY <2>1, <2>2, SetData DEF SameBut
  <2> QED
    BY <1>k, <2>1, <2>3
<1>5. CASE Ready(t)
  <2>1. j \in Loaders /\ UNCHANGED queue /\ Goes(t, "waits", NoJob)
    BY <1>5, <1>h DEF Ready, Holding, Done
  <2>2. loader' = [loader EXCEPT ![j].sem = loader[j].sem + 1]
    BY <1>5 DEF Ready
  <2>3. CASE l = j
    <3>1. loader[l].sem = 0
      BY <1>h, <2>3 DEF Account, InThread
    <3>2. loader'[l].sem = 1
      BY <2>2, <2>3, <3>1 DEF Tracked, LoaderStates
    <3>3. loader'[l].dying = loader[l].dying
      BY <2>2, <2>3 DEF Tracked, LoaderStates
    <3> QED
      BY <1>a, <3>2, <3>3 DEF Patient
  <2>4. CASE l # j
    <3>1. loader'[l] = loader[l]
      BY <2>2, <2>4 DEF Tracked
    <3> QED
      BY <1>k, <2>1, <2>4, <3>1
  <2> QED
    BY <2>3, <2>4
<1>6. CASE RunDelete(t) \/ Sleep(t)
  BY <1>6, <1>k DEF RunDelete, Sleep, loading
<1>7. CASE Delete(t)
  <2>1. j \in Files /\ Goes(t, "waits", NoJob) /\ UNCHANGED <<queue, loader>>
    BY <1>7, <1>h DEF Delete, Done, Holding, loading
  <2>2. j # l
    BY <2>1, LoaderIsJob
  <2> QED
    BY <1>k, <2>1, <2>2
<1> QED
  BY <1>1, <1>2, <1>3, <1>4, <1>5, <1>6, <1>7 DEF Entry

LEMMA ClientPatient ==
  ASSUME Base, Tracked, "early delete" \notin Mishaps, NEW k \in Loaders, Client(k),
         NEW l \in Loaders, Patient(l)
  PROVE  Patient(l)'
<1> USE DEF Base
<1>a. UNCHANGED thread
  BY DEF Client, Load, PostLoader, WaitReady, DeleteLoader, Woken, background
<1>o. Once(l) /\ Account(l) /\ Account(k)
  BY DEF Tracked
<1>c. ASSUME NEW at, ClientGoes(k, at)
      PROVE  client'[k] = at /\ \A i \in Loaders \ {k} : client'[i] = client[i]
  BY <1>c DEF ClientGoes, Shape
<1>1. CASE l # k
  <2>1. \E at : ClientGoes(k, at)
    BY DEF Client, Load, PostLoader, WaitReady, DeleteLoader, Woken
  <2>2. client'[l] = client[l]
    BY <1>c, <1>1, <2>1
  <2>3. loader'[l] = loader[l]
    BY <1>1 DEF Client, Load, PostLoader, WaitReady, DeleteLoader, Woken, Tracked
  <2>4. InQueue(l) => InQueue(l)'
    <3>1. CASE Push(k)
      <4>1. k \in Jobs
        BY LoaderIsJob
      <4>2. InQueue(l)' <=> InQueue(l) \/ k = l
        BY <1>a, <1>o, <1>1, <3>1, <4>1, PlacesPushed
      <4> QED
        BY <4>2
    <3>2. CASE UNCHANGED queue
      BY <3>2 DEF InQueue
    <3> QED
      BY <3>1, <3>2 DEF Client, Load, PostLoader, WaitReady, DeleteLoader, Woken, background
  <2>5. InThread(l) => InThread(l)'
    BY <1>a DEF InThread
  <2> QED
    BY <2>2, <2>3, <2>4, <2>5, PatientKept
<1>2. CASE l = k
  <2>q. ASSUME UNCHANGED queue
        PROVE  (InQueue(l)' <=> InQueue(l)) /\ (InThread(l)' <=> InThread(l))
    BY <1>a, <1>o, <2>q, PlacesKept
  <2>1. CASE Load(l) /\ l \in EditorReusers
    <3>1. loader' = [loader EXCEPT ![l] = [Made EXCEPT !.data = "text", !.sem = 1]]
      BY <2>1 DEF Load
    <3>2. [Made EXCEPT !.data = "text", !.sem = 1].sem = 1
          /\ ~[Made EXCEPT !.data = "text", !.sem = 1].dying
      BY DEF Made
    <3>3. loader'[l].sem = 1 /\ ~loader'[l].dying
      BY <3>1, <3>2 DEF Tracked
    <3> QED
      BY <3>3 DEF Patient
  <2>2. CASE Load(l) /\ l \notin EditorReusers
    <3>1. Push(l) /\ l \in Jobs /\ loader' = [loader EXCEPT ![l] = Made] /\ client[l] = "none"
      BY <2>2, LoaderIsJob DEF Load
    <3>2. ~InQueue(l) /\ ~InThread(l)
      BY <1>o, <3>1 DEF Account
    <3>3. InQueue(l)'
      BY <1>a, <1>o, <3>1, <3>2, PlacesPushed
    <3>4. ~loader'[l].dying
      BY <3>1 DEF Tracked, Made
    <3> QED
      BY <3>3, <3>4 DEF Patient
  <2>3. CASE PostLoader(l)
    <3>1. UNCHANGED <<queue, loader>> /\ client[l] = "queued"
      BY <2>3 DEF PostLoader
    <3> QED
      BY <2>q, <3>1 DEF Patient
  <2>4. CASE WaitReady(l)
    <3>1. UNCHANGED queue /\ client[l] = "holds"
      BY <2>4 DEF WaitReady, background
    <3>2. loader'[l].dying = loader[l].dying /\ loader'[l].sem = loader[l].sem
      BY <2>4 DEF WaitReady, Tracked, LoaderStates
    <3> QED
      BY <2>q, <3>1, <3>2 DEF Patient
  <2>5. CASE DeleteLoader(l)
    <3>1. client[l] = "has data"
      BY <2>5 DEF DeleteLoader
    <3>2. ~loader[l].wait
      BY <1>o, <3>1 DEF Account
    <3>3. ClientGoes(l, "none")
      BY <2>5, <3>2 DEF DeleteLoader
    <3>4. client'[l] = "none"
      BY <1>c, <1>2, <3>3
    <3> QED
      BY <3>4 DEF Patient
  <2>6. CASE Woken(l)
    <3>1. ~loader[l].dying
      BY <2>6 DEF Woken, Patient
    <3>2. ClientGoes(l, "has data")
      BY <2>6, <3>1 DEF Woken
    <3>3. client'[l] = "has data"
      BY <1>c, <1>2, <3>2
    <3>4. loader'[l].dying = loader[l].dying
      BY <2>6 DEF Woken, Tracked, LoaderStates
    <3> QED
      BY <3>1, <3>3, <3>4 DEF Patient
  <2> QED
    BY <1>2, <2>1, <2>2, <2>3, <2>4, <2>5, <2>6 DEF Client
<1> QED
  BY <1>1, <1>2

LEMMA PatientNext ==
  ASSUME Base, Tracked, "early delete" \notin Mishaps, [Next]_vars,
         NEW l \in Loaders, Patient(l)
  PROVE  Patient(l)'
<1>o. Once(l)
  BY DEF Tracked
<1>1. CASE \E t \in Threads : Entry(t)
  BY <1>1, EntryPatient
<1>2. CASE \E k \in Loaders : Client(k)
  BY <1>2, ClientPatient
<1>3. CASE QueueDelete /\ Push(save.file)
  <2>1. save.file \in Jobs /\ save.file # l /\ UNCHANGED <<thread, loader, client>>
    BY <1>3, LoaderIsJob DEF QueueDelete, Base, Shape, Jobs, loading
  <2>2. (InQueue(l)' <=> InQueue(l)) /\ (InThread(l)' <=> InThread(l))
    BY <1>o, <1>3, <2>1, PlacesPushed
  <2> QED
    BY <2>1, <2>2, PatientKept
<1>4. CASE Start
  <2>1. loader'[l] = Made /\ client'[l] = "none"
    BY <1>4 DEF Start
  <2> QED
    BY <2>1 DEF Patient, Made
<1>5. CASE UNCHANGED <<queue, thread, loader, client>>
  BY <1>o, <1>5, PlacesKept, PatientKept
<1> QED
  BY <1>1, <1>2, <1>3, <1>4, <1>5 DEF Next, SaveStep, Copy, Copied, Open, Write, QueueDelete,
     PostDelete, Save, Shutdown, Exit, Crash, UserRestores, vars, background, loading

(* A thread that rests on a queue with a loader in it has been told of it,  *)
(* or is about to be.                                                       *)
LEMMA QueueIsTold ==
  ASSUME Base, Apart, Up, NEW l \in Loaders, NEW t \in Threads,
         NEW i \in DOMAIN queue[t], queue[t][i] = l
  PROVE  \/ thread[t].at # "waits" \/ semaphore[t] > 0
         \/ \E k \in Loaders : client[k] = "queued" /\ ThreadOf(k) = t
<1> SUFFICES ASSUME thread[t].at = "waits", ~(semaphore[t] > 0)
             PROVE  \E k \in Loaders : client[k] = "queued" /\ ThreadOf(k) = t
  OBVIOUS
<1>1. t # "delayedDeleteThread"
  <2>1. l \notin Files
    BY LoaderIsJob
  <2>2. ASSUME t = "delayedDeleteThread" PROVE FALSE
    <3>1. queue[t] \in Seq(Files)
      BY <2>2 DEF Apart
    <3>2. queue[t][i] \in Files
      BY <3>1, ElementOfSeq, LenProperties
    <3> QED
      BY <2>1, <3>2
  <2> QED
    BY <2>2
<1>2. Popping(t) = 0 /\ Posting(t) = 0
  BY <1>1 DEF Popping, Posting
<1>3. semaphore[t] = 0 /\ semaphore[t] \in Nat
  <2>1. semaphore[t] \in Nat
    BY DEF Base, Shape
  <2> QED
    BY <2>1
<1>4. queue[t] \in Seq(Jobs) /\ Len(queue[t]) \in Nat /\ Len(queue[t]) # 0
  <2>1. queue[t] \in Seq(Jobs)
    BY DEF Base, Shape
  <2>2. i \in 1..Len(queue[t]) /\ Len(queue[t]) \in Nat
    BY <2>1, LenProperties
  <2> QED
    BY <2>1, <2>2
<1>5. Len(queue[t]) = semaphore[t] + Popping(t) + Cardinality(Pushed(t)) + Posting(t)
  BY DEF Base, Counted
<1>6. Cardinality(Pushed(t)) # 0
  BY <1>2, <1>3, <1>4, <1>5, PushedFinite
<1>7. Pushed(t) # {}
  BY <1>6, FS_EmptySet
<1> QED
  BY <1>7 DEF Pushed

LEMMA NoFiles == <<>> \in Seq(Files)
  OBVIOUS

LEMMA OneIsMore == \A n \in 0..1 : n = 1 => n > 0
  OBVIOUS

(* BackgroundThread::Queue, Entry and the loaders: a client that waits has  *)
(* its answer, or a thread has the loader, or will find it in its queue.    *)
THEOREM NoAnswerIsLost ==
  ASSUME "early delete" \notin Mishaps
  PROVE  Spec => []AnswerOnItsWay
<1>1. Init => Apart /\ \A l \in Loaders : Patient(l)
  <2> SUFFICES ASSUME Init PROVE Apart /\ \A l \in Loaders : Patient(l)
    OBVIOUS
  <2>1. queue["delayedDeleteThread"] = <<>>
    BY DEF Init, Threads
  <2>2. Apart
    BY <2>1, NoFiles DEF Apart
  <2>3. \A l \in Loaders : Patient(l)
    BY DEF Init, Patient, Made
  <2> QED
    BY <2>2, <2>3
<1>2. Base /\ Tracked /\ Apart /\ (\A l \in Loaders : Patient(l)) /\ [Next]_vars
        => Apart' /\ (\A l \in Loaders : Patient(l))'
  BY ApartNext, PatientNext
<1>3. Base /\ Tracked /\ Apart /\ (\A l \in Loaders : Patient(l)) => AnswerOnItsWay
  <2> SUFFICES ASSUME Base, Tracked, Apart, \A k \in Loaders : Patient(k), Up,
                      NEW l \in Loaders, client[l] = "waits"
               PROVE  \/ loader[l].sem > 0
                      \/ \E t \in Threads : thread[t].job = l
                      \/ \E t \in Threads :
                           /\ \E i \in DOMAIN queue[t] : queue[t][i] = l
                           /\ \/ thread[t].at # "waits" \/ semaphore[t] > 0
                              \/ \E k \in Loaders : client[k] = "queued" /\ ThreadOf(k) = t
    BY DEF AnswerOnItsWay
  <2>1. InQueue(l) \/ InThread(l) \/ loader[l].sem = 1
    BY DEF Patient
  <2>2. CASE InQueue(l)
    BY <2>2, QueueIsTold DEF InQueue
  <2>3. CASE InThread(l)
    BY <2>3 DEF InThread
  <2>4. CASE loader[l].sem = 1
    <3>1. loader[l].sem \in 0..1
      BY LoaderFields
    <3>2. loader[l].sem > 0
      BY <2>4, <3>1, OneIsMore, Zenon
    <3> QED
      BY <3>2, Zenon
  <2> QED
    BY <2>1, <2>2, <2>3, <2>4
<1> QED
  BY <1>1, <1>2, <1>3, BaseAlways, TrackedAlways, PTL DEF Spec
=============================================================================
