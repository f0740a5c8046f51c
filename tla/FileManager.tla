---------------------------- MODULE FileManager ----------------------------
(***************************************************************************)
(* Background loading and careful saving of files (sdk/filemanager.cpp)    *)
(* over the background threads of include/backgroundthread.h.              *)
(*                                                                         *)
(* Load makes a loader, queues it for one of three threads and returns; a  *)
(* client waits in GetData, GetLength or Sync until the thread has read    *)
(* the file, and deletes the loader.  Save copies the file to name.cbTemp  *)
(* before it overwrites it, and leaves the copy to a fourth thread, which  *)
(* deletes it after a series of naps.  The program may be killed between   *)
(* any two steps.                                                          *)
(***************************************************************************)
EXTENDS Integers, Sequences, FiniteSets

CONSTANTS
    FileLoaders,    \* objects for loaders of local files
    UncLoaders,     \* ... of network paths
    UrlLoaders,     \* ... of URLs
    EditorReusers,  \* ... of the text of an open editor
    Files,          \* files that are saved
    Mishaps         \* what the environment may do beyond the ordinary

Loaders == FileLoaders \cup UncLoaders \cup UrlLoaders \cup EditorReusers

ASSUME FilesAssumption ==
    /\ IsFiniteSet(Loaders) /\ IsFiniteSet(Files) /\ Loaders \cap Files = {}
    /\ Mishaps \subseteq
        { "early save",     \* a file is saved while its last backup is to be deleted
          "retry",          \* a file is saved again after a save of it has failed
          "short write",    \* the system takes part of a text turned into UTF-8
          "early delete" }  \* a client deletes a loader it has not waited for

Threads == {"fileLoaderThread", "uncLoaderThread", "urlLoaderThread", "delayedDeleteThread"}
Jobs == Loaders \cup Files      \* a file stands for its DelayedDelete job
ThreadOf(j) == CASE j \in FileLoaders -> "fileLoaderThread"
                 [] j \in UncLoaders  -> "uncLoaderThread"
                 [] j \in UrlLoaders  -> "urlLoaderThread"
                 [] OTHER             -> "delayedDeleteThread"

VARIABLES
    phase,      \* of the process
    queue,      \* queue[t]: the JobQueue of thread t
    semaphore,  \* semaphore[t]: its count
    thread,     \* thread[t]: where its Entry is, and with which job
    loader,     \* the loader objects
    client,     \* client[l]: where the client of loader l is
    save,       \* the Save in progress on the GUI thread
    disk,       \* disk[f]: what the file and its backup hold, and whether the
                \* file was ever whole
    fresh       \* history: files written since the delete thread's last naps began
vars == <<phase, queue, semaphore, thread, loader, client, save, disk, fresh>>
background == <<queue, semaphore, thread>>
loading == <<loader, client>>
saving == <<save, disk, fresh>>

NoJob == "no job"
NoFile == "no file"
ASSUME NullAssumption == NoJob \notin Jobs

Up == phase \in {"running", "shutting down"}
IsAppShuttingDown == phase = "shutting down"

Idle == [at |-> "waits", job |-> NoJob]
NotSaving == [at |-> "no", file |-> NoFile]
\* A loader: its own semaphore, whether a client still has to wait for it,
\* its text, and whether its destructor has begun.
Made == [sem |-> 0, wait |-> TRUE, data |-> "none", dying |-> FALSE]
-----------------------------------------------------------------------------
(* Background threads.                                                     *)

Push(j) == queue' = [queue EXCEPT ![ThreadOf(j)] = Append(@, j)]
Post(j) == semaphore' = [semaphore EXCEPT ![ThreadOf(j)] = @ + 1]

Goes(t, at, j) == thread' = [thread EXCEPT ![t] = [at |-> at, job |-> j]]
Done(t) == Goes(t, "waits", NoJob)

Wait(t) ==
    /\ Up /\ thread[t].at = "waits" /\ semaphore[t] > 0
    /\ semaphore' = [semaphore EXCEPT ![t] = @ - 1]
    /\ Goes(t, "pops", NoJob)
    /\ UNCHANGED <<phase, queue, loading, saving>>

Pop(t) ==
    /\ Up /\ thread[t].at = "pops"
    /\ queue' = [queue EXCEPT ![t] = Tail(@)]
    /\ Goes(t, "runs", Head(queue[t]))
    /\ UNCHANGED <<phase, semaphore, loading, saving>>

\* Mutant of RunLoader: no Ready when the file cannot be read.
RunLoaderSilent(t) ==
    LET l == thread[t].job IN
    /\ Up /\ thread[t].at = "runs" /\ l \in Loaders
    /\ \/ Done(t) /\ UNCHANGED loader
       \/ /\ ~loader[l].dying
          /\ loader' = [loader EXCEPT ![l].data = "filling"]
          /\ Goes(t, "reads", l)
    /\ UNCHANGED <<phase, queue, semaphore, client, saving>>
\* The virtual call: the destructor of the base has its own, empty operator().
RunLoader(t) ==
    LET l == thread[t].job IN
    /\ Up /\ thread[t].at = "runs" /\ l \in Loaders
    /\ \/ /\ IF loader[l].dying THEN Done(t) ELSE Goes(t, "ready", l)   \* no access
          /\ UNCHANGED loader
       \/ /\ ~loader[l].dying
          /\ loader' = [loader EXCEPT ![l].data = "filling"]
          /\ Goes(t, "reads", l)
    /\ UNCHANGED <<phase, queue, semaphore, client, saving>>

\* Mutant of ReadFile: the semaphore is posted before the text is complete.
ReadFileReadyFirst(t) ==
    LET l == thread[t].job IN
    /\ Up /\ thread[t].at = "reads"
    /\ IF loader[l].sem = 0
       THEN loader' = [loader EXCEPT ![l].sem = @ + 1] /\ UNCHANGED thread
       ELSE loader' = [loader EXCEPT ![l].data = "text"] /\ Done(t)
    /\ UNCHANGED <<phase, queue, semaphore, client, saving>>
\* Mutant of ReadFile: Ready is called for the text, and at the end again.
ReadFileReadyTwice(t) ==
    LET l == thread[t].job IN
    /\ Up /\ thread[t].at = "reads"
    /\ loader' = [loader EXCEPT ![l].data = "text", ![l].sem = @ + 1]
    /\ Goes(t, "ready", l)
    /\ UNCHANGED <<phase, queue, semaphore, client, saving>>
\* A file that ends early leaves the text short, with the length it had.  A
\* URL's text is what AutoBuffer::Append has just freed.
ReadFile(t) ==
    LET l == thread[t].job IN
    /\ Up /\ thread[t].at = "reads"
    /\ \E text \in IF l \in UrlLoaders THEN {"none", "freed"} ELSE {"none", "short", "text"} :
            loader' = [loader EXCEPT ![l].data = text]
    /\ Goes(t, "ready", l)
    /\ UNCHANGED <<phase, queue, semaphore, client, saving>>

Ready(t) ==
    LET l == thread[t].job IN
    /\ Up /\ thread[t].at = "ready"
    /\ loader' = [loader EXCEPT ![l].sem = @ + 1]
    /\ Done(t)
    /\ UNCHANGED <<phase, queue, semaphore, client, saving>>

RunDelete(t) ==
    /\ Up /\ thread[t].at = "runs" /\ thread[t].job \in Files
    /\ fresh' = {}
    /\ Goes(t, "sleeps", thread[t].job)
    /\ UNCHANGED <<phase, queue, semaphore, loading, save, disk>>

\* Nineteen naps, fewer when the program shuts down.
Sleep(t) ==
    /\ Up /\ thread[t].at = "sleeps"
    /\ Goes(t, "deletes", thread[t].job)
    /\ UNCHANGED <<phase, queue, semaphore, loading, saving>>

\* The thread owns its jobs: the destructor removes the backup.
Delete(t) ==
    /\ Up /\ thread[t].at = "deletes"
    /\ disk' = [disk EXCEPT ![thread[t].job].backup = "absent"]
    /\ Done(t)
    /\ UNCHANGED <<phase, queue, semaphore, loading, save, fresh>>

Entry(t) == \/ Wait(t) \/ Pop(t) \/ RunLoader(t) \/ ReadFile(t) \/ Ready(t)
            \/ RunDelete(t) \/ Sleep(t) \/ Delete(t)
-----------------------------------------------------------------------------
(* Clients of loaders.                                                     *)

ClientGoes(l, at) == client' = [client EXCEPT ![l] = at]

Load(l) ==
    /\ Up /\ client[l] = "none"
    /\ IF l \in EditorReusers
       THEN /\ loader' = [loader EXCEPT ![l] = [Made EXCEPT !.data = "text", !.sem = 1]]
            /\ ClientGoes(l, "holds")
            /\ UNCHANGED queue
       ELSE /\ loader' = [loader EXCEPT ![l] = Made]
            /\ Push(l)
            /\ ClientGoes(l, "queued")
    /\ UNCHANGED <<phase, semaphore, thread, saving>>

\* The second half of BackgroundThread::Queue.
PostLoader(l) ==
    /\ Up /\ client[l] = "queued"
    /\ Post(l)
    /\ ClientGoes(l, "holds")
    /\ UNCHANGED <<phase, queue, thread, loader, saving>>

\* GetData, GetLength or Sync; after the first call of them none waits.
WaitReady(l) ==
    /\ Up /\ client[l] = "holds"
    /\ loader' = [loader EXCEPT ![l].wait = FALSE]
    /\ ClientGoes(l, IF loader[l].wait THEN "waits" ELSE "has data")
    /\ UNCHANGED <<phase, background, saving>>

\* ~LoaderBase, which waits too.
DeleteLoader(l) ==
    /\ Up /\ client[l] \in {"has data", "holds"}
    /\ client[l] = "holds" => "early delete" \in Mishaps
    /\ loader' = [loader EXCEPT ![l].dying = TRUE, ![l].wait = FALSE]
    /\ ClientGoes(l, IF loader[l].wait THEN "waits" ELSE "none")
    /\ UNCHANGED <<phase, background, saving>>

Woken(l) ==
    /\ Up /\ client[l] = "waits" /\ loader[l].sem > 0
    /\ loader' = [loader EXCEPT ![l].sem = @ - 1]
    /\ ClientGoes(l, IF loader[l].dying THEN "none" ELSE "has data")
    /\ UNCHANGED <<phase, background, saving>>

Client(l) == Load(l) \/ PostLoader(l) \/ WaitReady(l) \/ DeleteLoader(l) \/ Woken(l)
-----------------------------------------------------------------------------
(* Saving, on the GUI thread.                                              *)

SaveGoes(at) == save' = [save EXCEPT !.at = at]
Returns == save' = NotSaving
DeletionDue(f) == \E t \in Threads : thread[t].job = f \/ \E i \in DOMAIN queue[t] : queue[t][i] = f
Whole(text) == text \in {"last", "older"}

Save(f) ==
    /\ Up /\ save = NotSaving
    /\ DeletionDue(f) => "early save" \in Mishaps
    /\ disk[f].file = "partial" /\ Whole(disk[f].backup) => "retry" \in Mishaps
    /\ save' = [at |-> IF disk[f].file = "absent" THEN "opens" ELSE "copies", file |-> f]
    /\ UNCHANGED <<phase, background, loading, disk, fresh>>

\* wxCopyFile: the copy is partial first, and may stay so.
Copy ==
    LET f == save.file IN
    /\ Up /\ save.at = "copies"
    /\ disk' = [disk EXCEPT ![f].backup = "partial"]
    /\ SaveGoes("copied") \/ Returns
    /\ UNCHANGED <<phase, background, loading, fresh>>

\* Mutant of Copied: the deletion of the copy is queued with the copy.
CopiedAndQueued ==
    LET f == save.file IN
    /\ Up /\ save.at = "copied"
    /\ disk' = [disk EXCEPT ![f].backup = disk[f].file]
    /\ SaveGoes("opens")
    /\ Push(f) /\ Post(f)
    /\ UNCHANGED <<phase, thread, loading, fresh>>
Copied ==
    LET f == save.file IN
    /\ Up /\ save.at = "copied"
    /\ disk' = [disk EXCEPT ![f].backup = disk[f].file]
    /\ SaveGoes("opens")
    /\ UNCHANGED <<phase, background, loading, fresh>>

\* The file is truncated, unless it cannot be opened.
Open ==
    LET f == save.file IN
    /\ Up /\ save.at = "opens"
    /\ \/ Returns /\ UNCHANGED disk
       \/ /\ disk' = [disk EXCEPT ![f].file = "partial"]
          /\ SaveGoes(IF disk[f].file = "absent" THEN "writes new" ELSE "writes")
    /\ UNCHANGED <<phase, background, loading, fresh>>

\* Text that is in no encoding the user chose is turned into UTF-8, and what
\* the system then takes of it, unless nothing, is told as success.
WriteWxStringToFile == {"whole", "failed"} \cup ({"short write"} \cap Mishaps)

Written(f) ==
    /\ disk' = [disk EXCEPT ![f] = [file |-> "last", known |-> TRUE,
                                    backup |-> IF Whole(@.backup) THEN "older" ELSE @.backup]]
    /\ fresh' = fresh \cup {f}
\* Mutant of Write: a failed write removes the backup.
WriteTidy ==
    LET f == save.file IN
    /\ Up /\ save.at \in {"writes", "writes new"}
    /\ \E result \in WriteWxStringToFile :
          /\ \/ result = "whole" /\ Written(f)
             \/ /\ result = "failed"
                /\ disk' = [disk EXCEPT ![f].backup = "absent"] /\ UNCHANGED fresh
             \/ result = "short write" /\ UNCHANGED <<disk, fresh>>
          /\ IF result # "failed" /\ save.at = "writes" THEN SaveGoes("backs up") ELSE Returns
    /\ UNCHANGED <<phase, background, loading>>
\* A failed write leaves the file partial and keeps the backup; a short one
\* leaves it partial and goes on.
Write ==
    LET f == save.file IN
    /\ Up /\ save.at \in {"writes", "writes new"}
    /\ \E result \in WriteWxStringToFile :
          /\ IF result = "whole" THEN Written(f) ELSE UNCHANGED <<disk, fresh>>
          /\ IF result # "failed" /\ save.at = "writes" THEN SaveGoes("backs up") ELSE Returns
    /\ UNCHANGED <<phase, background, loading>>

\* The backup is removed at once when the program shuts down.
QueueDelete ==
    LET f == save.file IN
    /\ Up /\ save.at = "backs up"
    /\ IF IsAppShuttingDown
       THEN disk' = [disk EXCEPT ![f].backup = "absent"] /\ Returns /\ UNCHANGED queue
       ELSE Push(f) /\ SaveGoes("posts") /\ UNCHANGED disk
    /\ UNCHANGED <<phase, semaphore, thread, loading, fresh>>

\* Mutant of PostDelete: the thread is not told.
PostDeleteNot ==
    /\ Up /\ save.at = "posts" /\ Returns
    /\ UNCHANGED <<phase, background, loading, disk, fresh>>
PostDelete ==
    /\ Up /\ save.at = "posts"
    /\ Post(save.file) /\ Returns
    /\ UNCHANGED <<phase, queue, thread, loading, disk, fresh>>

SaveStep == Copy \/ Copied \/ Open \/ Write \/ QueueDelete \/ PostDelete
-----------------------------------------------------------------------------
(* The process and the system.                                             *)

\* The user quits; files may still be saved after that (the configuration).
Shutdown ==
    /\ phase = "running" /\ save = NotSaving
    /\ phase' = "shutting down"
    /\ UNCHANGED <<background, loading, saving>>

\* main returns: nothing stops the threads or waits for them.
Exit ==
    /\ phase = "shutting down" /\ save = NotSaving
    /\ phase' = "exited"
    /\ UNCHANGED <<background, loading, saving>>

Crash ==
    /\ Up
    /\ phase' = "crashed"
    /\ UNCHANGED <<background, loading, saving>>

Start ==
    /\ ~Up
    /\ phase' = "running"
    /\ queue' = [t \in Threads |-> <<>>]
    /\ semaphore' = [t \in Threads |-> 0]
    /\ thread' = [t \in Threads |-> Idle]
    /\ loader' = [l \in Loaders |-> Made]
    /\ client' = [l \in Loaders |-> "none"]
    /\ save' = NotSaving
    /\ UNCHANGED <<disk, fresh>>

\* Nothing in the program reads a backup: the user puts it back.
UserRestores(f) ==
    /\ save.file # f \/ ~Up
    /\ disk[f].file = "partial" /\ Whole(disk[f].backup)
    /\ disk' = [disk EXCEPT ![f].file = "last", ![f].backup = "last"]
    /\ UNCHANGED <<phase, background, loading, save, fresh>>

Init ==
    /\ phase = "running"
    /\ queue = [t \in Threads |-> <<>>]
    /\ semaphore = [t \in Threads |-> 0]
    /\ thread = [t \in Threads |-> Idle]
    /\ loader = [l \in Loaders |-> Made]
    /\ client = [l \in Loaders |-> "none"]
    /\ save = NotSaving
    /\ disk \in [Files -> {[file |-> "absent", backup |-> "absent", known |-> FALSE],
                        [file |-> "last", backup |-> "absent", known |-> TRUE]}]
    /\ fresh = {}

Next ==
    \/ \E t \in Threads : Entry(t)
    \/ \E l \in Loaders : Client(l)
    \/ \E f \in Files : Save(f) \/ UserRestores(f)
    \/ SaveStep
    \/ Shutdown \/ Exit \/ Crash \/ Start

Spec == Init /\ [][Next]_vars

\* Threads run, and so does a Save in progress.  Nobody has to load, save or
\* quit.
Fairness ==
    /\ \A t \in Threads : WF_vars(Entry(t))
    /\ \A l \in Loaders : WF_vars(PostLoader(l) \/ Woken(l))
    /\ WF_vars(SaveStep)
FairSpec == Spec /\ Fairness
-----------------------------------------------------------------------------
\* Every variable holds what the code can put there.
TypeOK ==
    /\ phase \in {"running", "shutting down", "exited", "crashed"}
    /\ queue \in [Threads -> Seq(Jobs)]
    /\ semaphore \in [Threads -> Nat]
    /\ thread \in [Threads -> [at : {"waits", "pops", "runs", "reads", "ready", "sleeps", "deletes"},
                               job : Jobs \cup {NoJob}]]
    /\ loader \in [Loaders -> [sem : 0..1, wait : BOOLEAN, dying : BOOLEAN,
                               data : {"none", "filling", "short", "text", "freed"}]]
    /\ client \in [Loaders -> {"none", "queued", "holds", "waits", "has data"}]
    /\ save \in [at : {"no", "copies", "copied", "opens", "writes", "writes new",
                        "backs up", "posts"}, file : Files \cup {NoFile}]
    /\ disk \in [Files -> [file : {"absent", "partial", "last", "older"},
                           backup : {"absent", "partial", "last", "older"}, known : BOOLEAN]]
    /\ fresh \subseteq Files

\* Once a client has got the text, and once it has deleted the loader, no
\* thread has the loader any more, nor ever will; the thread has finished with
\* the text that the client reads, which is not freed memory.  (It may be short:
\* FileLoader does not compare what was read with the length.)
LoaderSettled ==
    Up => \A l \in Loaders :
        client[l] \in {"none", "has data"} =>
            /\ \A t \in Threads : thread[t].job # l /\ \A i \in DOMAIN queue[t] : queue[t][i] # l
            /\ client[l] = "has data" => loader[l].data \in {"none", "short", "text"}

\* No wake-up is lost: the answer a client waits for is there, or a thread has
\* the loader, or it stands in a queue whose thread goes on or will be told to.
AnswerOnItsWay ==
    Up => \A l \in Loaders : client[l] = "waits" =>
        \/ loader[l].sem > 0
        \/ \E t \in Threads : thread[t].job = l
        \/ \E t \in Threads :
              /\ \E i \in DOMAIN queue[t] : queue[t][i] = l
              /\ \/ thread[t].at # "waits" \/ semaphore[t] > 0
                 \/ \E k \in Loaders : client[k] = "queued" /\ ThreadOf(k) = t

\* A file that was ever whole is never lost: at every step, so wherever the
\* program is killed, the file or its backup is the last whole text ("Keep
\* the backup file as the original file has been destroyed").
SomethingSurvives ==
    \A f \in Files : disk[f].known => "last" \in {disk[f].file, disk[f].backup}

\* A backup is deleted only when the file is whole and, unless the program is
\* shutting down, a whole series of naps after it was written ("giving the OS
\* an opportunity to flush caches").  Whether the naps suffice is the system's.
BackupDeletedLate ==
    [][\A f \in Files : disk[f].backup # "absent" /\ disk'[f].backup = "absent" =>
            disk[f].file = "last" /\ (phase = "running" => f \notin fresh)]_vars

\* Every DelayedDelete is carried out ("no stale files"), if the process lives.
BackupsGo == \A f \in Files : DeletionDue(f) ~> (~DeletionDue(f) \/ ~Up)

\* A client that waits for a loader gets its answer, readable file or not.
LoadersServed == \A l \in Loaders : client[l] = "waits" ~> (client[l] # "waits" \/ ~Up)

\* "no stale files will be left at application exit" (filemanager.h:77).
NoStaleFiles == phase = "exited" => \A f \in Files : ~DeletionDue(f)
=============================================================================
