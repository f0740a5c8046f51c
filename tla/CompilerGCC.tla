---------------------------- MODULE CompilerGCC ----------------------------
(***************************************************************************)
(* The build engine of the compiler plugin (plugins/compilergcc): the      *)
(* queue of commands, the parallel processes that execute them, and the    *)
(* state machine that walks the targets of a build.                        *)
(*                                                                         *)
(* All of it runs in the GUI thread, but its functions call                *)
(* Manager::Yield(), which dispatches the end of a process or a menu       *)
(* command in the middle of them.  So the thread is a `stack' of frames,   *)
(* innermost first; a frame's `at' says where its function resumes:        *)
(*   yield     wxApp::Yield, polling: processes end, the user clicks (a    *)
(*             Yield inside it does nothing)                               *)
(*   idle      wxApp::Yield, past that: handling what is posted            *)
(*   pending   the main loop, handling what is posted                      *)
(*   bsm       BuildStateManagement, entered                               *)
(*   bsm_state        after its first Yield                                *)
(*   bsm_next         commands generated                                   *)
(*   bsm_add          next state chosen                                    *)
(*   queue     DoRunQueue, entered                                         *)
(*   queue_next       in its loop, a slot already chosen                   *)
(*   job_loop  OnJobEnd, in its loop                                       *)
(*   job_end          past the loop                                        *)
(*   job_after        after Run() for "build and run"                      *)
(*   build     DoBuild(target, clean, build), entered                      *)
(*   build_jobs       after DoPrepareQueue                                 *)
(*   rebuild   Rebuild, after its clean half                               *)
(*   ws        DoWorkspaceBuild, entered                                   *)
(*   ws_jobs          after DoPrepareQueue                                 *)
(*   ws_end           after DoBuild(clean, build)                          *)
(*   ws_rebuild RebuildWorkspace, after its clean half                     *)
(*   run       Run, entered, and DoRunQueue if it returns 0                *)
(*   run_cmd          after DoPrepareQueue                                 *)
(*   file      CompileFile, entered                                        *)
(*   file_cmd         after DoPrepareQueue                                 *)
(***************************************************************************)
EXTENDS Integers, Sequences, FiniteSets

CONSTANTS
  N,             \* parallel processes (m_ParallelProcessCount)
  ProjectJobs,   \* targets of the active project: records [project, target]
  WorkspaceJobs, \* targets of all projects, in dependency order
  NoJob,         \* m_pBuildingProject = 0
  AlwaysPost,    \* GetAlwaysRunPostBuildSteps
  CompileLists,  \* what GetCompileCommands may return: sequences of kinds
  Menu,          \* the commands the user gives
  Impatient,     \* gives them also while a function of the engine yields
  MaxSessions    \* bound on them and on the yes to "build it now?"

ASSUME BuildAssumption ==
  /\ N \in Nat \ {0}
  /\ MaxSessions \in Nat /\ {Impatient, AlwaysPost} \subseteq BOOLEAN
  /\ CompileLists \subseteq Seq(STRING)

Job == {ProjectJobs[i] : i \in DOMAIN ProjectJobs}
         \cup {WorkspaceJobs[i] : i \in DOMAIN WorkspaceJobs}
ASSUME JobAssumption ==
  NoJob \notin Job /\ ProjectJobs \in Seq(Job) /\ WorkspaceJobs \in Seq(Job)

Slot == 0..(N - 1)

(* A command of the queue.  A "log" is only printed; a "step" is a pre- or  *)
(* post-build step (mustWait), a "link" has isLink, a "run" isRun; any      *)
(* other kind is the compilation of a file, "cc after" with mustWait: the   *)
(* file before it makes a header, or sources, that it needs.                *)
Command(kind, job) == [kind |-> kind, job |-> job]
Alone(c) == c.kind \in {"step", "link"}
Waits(c) == Alone(c) \/ c.kind = "cc after"

VARIABLES
  stack,
  m_CommandQueue,
  m_Processes,           \* is m_Processes[i] not null
  m_Pid,                 \* is m_Pid[i] not zero
  child,                 \* commands whose process was started from slot i and lives
  ended,                 \* posted TERMINATED events
  build,                 \* m_BuildJob, m_BuildState, m_NextBuildState and target
  m_Clean, m_Build,
  m_RunTargetPostBuild, m_RunProjectPostBuild,
  m_BuildJobTargetsList,
  m_IsWorkspaceOperation,
  m_LastBuildStep,
  m_RunAfterCompile,
  m_LastExitCode,
  m_LastWasRun,
  errors,                \* does m_Errors hold an error
  hindrance,             \* external: what may keep a build from starting
  sessions,              \* history: commands the user has given
  owed,                  \* history: a build was begun and FINISHED not sent since
  failed,                \* history: a command failed since the user's last one
  aborted                \* history: KillProcess was called since the last command

stateVars   == <<m_Clean, m_Build, m_RunTargetPostBuild, m_RunProjectPostBuild>>
processVars == <<m_Processes, m_Pid, child, ended>>
modeVars    == <<m_IsWorkspaceOperation, m_LastBuildStep>>
histVars    == <<sessions, owed, failed, aborted>>
vars == <<stack, m_CommandQueue, processVars, build, stateVars,
          m_BuildJobTargetsList, modeVars, m_RunAfterCompile, m_LastExitCode,
          m_LastWasRun, errors, hindrance, histVars>>

BuildState == {"none", "ProjectPreBuild", "TargetPreBuild", "TargetClean", "TargetBuild",
               "TargetPostBuild", "TargetDone", "ProjectPostBuild", "ProjectDone"}

(* Mutant of Idle: the next state is left out.                              *)
IdleWithoutNext == [job |-> "idle", state |-> "none", target |-> NoJob]
Idle == [job |-> "idle", state |-> "none", next |-> "none", target |-> NoJob]

(* m_BuildState is not initialized before the first build or reset.         *)
Init ==
  /\ stack = <<>> /\ m_CommandQueue = <<>>
  /\ m_Processes = [i \in Slot |-> FALSE] /\ m_Pid = [i \in Slot |-> FALSE]
  /\ child = [i \in Slot |-> {}] /\ ended = <<>>
  /\ build \in {[Idle EXCEPT !.state = s] : s \in BuildState}
  /\ m_Clean = FALSE /\ m_Build = FALSE
  /\ m_RunTargetPostBuild = FALSE /\ m_RunProjectPostBuild = FALSE
  /\ m_BuildJobTargetsList = <<>>
  /\ m_IsWorkspaceOperation = FALSE /\ m_LastBuildStep = TRUE
  /\ m_RunAfterCompile = FALSE
  /\ m_LastExitCode = 0 /\ m_LastWasRun = FALSE /\ errors = FALSE
  /\ hindrance = "none"
  /\ sessions = 0 /\ owed = FALSE /\ failed = FALSE /\ aborted = FALSE

-----------------------------------------------------------------------------
(* Frames.                                                                  *)

Frame(at) == [at |-> at]
BuildFrame(at, clean, mk) == [at |-> at, clean |-> clean, build |-> mk]

At(at) == stack # <<>> /\ Head(stack).at = at
Return == stack' = Tail(stack)
Continue(frames) == stack' = frames \o Tail(stack)

Yielding == \E i \in DOMAIN stack : stack[i].at \in {"yield", "idle"}
Polling == stack = <<>> \/ At("yield")

(* The frames that Yield(), and then `frames', leave.                       *)
Yield(frames) == IF Yielding THEN frames ELSE <<Frame("yield")>> \o frames

-----------------------------------------------------------------------------
(* Helpers of the engine.                                                   *)

(* Mutant of IsProcessRunning: the loop misses the first process.           *)
AnotherProcessIsRunning == \E i \in Slot \ {0} : m_Processes[i]
IsProcessRunning == \E i \in Slot : m_Processes[i]

(* Mutant of IsFree: the slot is reused before the end of its process is    *)
(* handled.                                                                 *)
IsNull(i) == ~m_Processes[i]
IsFree(i) == ~m_Processes[i] /\ ~m_Pid[i]

(* Mutant of FreeSlots: no slot is tested.                                  *)
AnySlot == Slot
FreeSlots == {i \in Slot : IsFree(i)}
GetNextAvailableProcessIndex ==
  CHOOSE i \in FreeSlots : \A j \in FreeSlots : i <= j

IsRunning == build.job # "idle" \/ IsProcessRunning \/ m_CommandQueue # <<>>

(* Mutant of ResetBuildState: the queue is not cleared.                     *)
ResetStateOnly == build' = Idle /\ UNCHANGED m_CommandQueue
ResetBuildState == build' = Idle /\ m_CommandQueue' = <<>>

(* Mutant of NotifyJobDone: only a success is announced.                    *)
NotifySuccess ==
  owed' = (owed /\ ~(m_LastBuildStep /\ ~IsProcessRunning /\ m_LastExitCode = 0))
(* NotifyJobDone sends FINISHED, with m_LastExitCode, if no process runs.   *)
NotifyJobDone == owed' = (owed /\ ~(m_LastBuildStep /\ ~IsProcessRunning))

(* The states of a build in which a set of command lists may be generated;  *)
(* GetPreBuildCommands, GetPostBuildCommands and GetCompileCommands.        *)
Steps == {<<>>, <<"step">>}
CommandLists ==
  CASE build.next = "ProjectPreBuild"  -> IF m_Build THEN Steps ELSE {<<>>}
    [] build.next = "TargetPreBuild"   -> Steps
    [] build.next = "TargetBuild"      -> CompileLists
    [] build.next = "TargetPostBuild"  -> IF AlwaysPost \/ m_RunTargetPostBuild THEN Steps
                                                                          ELSE {<<>>}
    [] build.next = "ProjectPostBuild" -> IF AlwaysPost \/ m_RunProjectPostBuild THEN Steps
                                                                           ELSE {<<>>}
    [] OTHER -> {<<>>}

(* GetNextStateBasedOnJob, where it depends on nothing but the state.       *)
AfterState ==
  CASE build.state = "ProjectPreBuild" ->
         IF m_Clean /\ ~m_Build THEN "TargetClean" ELSE "TargetPreBuild"
    [] build.state = "TargetPreBuild" ->
         IF m_Clean THEN "TargetClean" ELSE IF m_Build THEN "TargetBuild"
                                                       ELSE "TargetPostBuild"
    [] build.state = "TargetClean" -> IF m_Build THEN "TargetBuild" ELSE "TargetDone"
    [] build.state = "TargetBuild" -> "TargetPostBuild"
    [] build.state = "TargetPostBuild" -> "TargetDone"
    [] build.state = "ProjectPostBuild" -> "ProjectDone"
    [] OTHER -> "none"

FirstOfTarget == IF m_Clean /\ ~m_Build THEN "TargetClean" ELSE "TargetPreBuild"

PeekNextJob == Head(m_BuildJobTargetsList)
GetNextJob == m_BuildJobTargetsList' = Tail(m_BuildJobTargetsList)

-----------------------------------------------------------------------------
(* BuildStateManagement.                                                    *)

BuildStateManagement ==
  /\ At("bsm")
  /\ IF IsProcessRunning THEN Return ELSE Continue(Yield(<<Frame("bsm_state")>>))
  /\ UNCHANGED <<m_CommandQueue, processVars, build, stateVars,
                 m_BuildJobTargetsList, modeVars, m_RunAfterCompile,
                 m_LastExitCode, m_LastWasRun, errors, hindrance, histVars>>

(* Enter m_NextBuildState and generate its commands, yielding meanwhile.    *)
GenerateCommands ==
  /\ At("bsm_state")
  /\ \/ build.target = NoJob /\ ResetBuildState /\ Return
     \/ /\ build.target # NoJob
        /\ build' = [build EXCEPT !.state = build.next]
        /\ \E cmds \in CommandLists :
             LET resume == <<[at |-> "bsm_next", cmds |-> cmds, entered |-> build.next]>>
             IN  Continue(IF cmds # <<>> \/ build.next = "TargetBuild"
                          THEN Yield(resume) ELSE resume)
        /\ UNCHANGED m_CommandQueue
  /\ UNCHANGED <<processVars, stateVars, m_BuildJobTargetsList, modeVars,
                 m_RunAfterCompile, m_LastExitCode, m_LastWasRun, errors,
                 hindrance, histVars>>

PostBuildFlags(entered, hasCommands) ==
  /\ m_RunTargetPostBuild' =
       CASE entered = "TargetBuild"     -> hasCommands
         [] entered = "TargetPostBuild" -> FALSE
         [] OTHER                       -> m_RunTargetPostBuild
  /\ m_RunProjectPostBuild' =
       CASE entered = "TargetBuild"      -> hasCommands
         [] entered = "ProjectPostBuild" -> FALSE
         [] OTHER                        -> m_RunProjectPostBuild

(* GetNextStateBasedOnJob.  After ProjectDone it calls DoBuild, hence       *)
(* BuildStateManagement, for the first target of the next project.          *)
GetNextStateBasedOnJob ==
  /\ At("bsm_next")
  /\ PostBuildFlags(Head(stack).entered, Head(stack).cmds # <<>>)
  /\ LET add(next)  == [at |-> "bsm_add", cmds |-> Head(stack).cmds, next |-> next]
         more       == m_BuildJobTargetsList # <<>>
         sameProject == more /\ PeekNextJob.project = build.target.project
     IN  \/ /\ build.state = "TargetDone" /\ sameProject
            /\ build' = [build EXCEPT !.target = PeekNextJob]
            /\ GetNextJob
            /\ Continue(<<add(FirstOfTarget)>>)
         \/ /\ build.state = "TargetDone" /\ ~sameProject
            /\ Continue(<<add(IF m_Build THEN "ProjectPostBuild" ELSE "ProjectDone")>>)
            /\ UNCHANGED <<build, m_BuildJobTargetsList>>
         \/ /\ build.state = "ProjectDone" /\ more
            /\ build' = [build EXCEPT !.next = "ProjectPreBuild", !.target = PeekNextJob]
            /\ GetNextJob
            /\ Continue(<<Frame("bsm"), add(FirstOfTarget)>>)
         \/ /\ build.state # "TargetDone" /\ ~(build.state = "ProjectDone" /\ more)
            /\ Continue(<<add(AfterState)>>)
            /\ UNCHANGED <<build, m_BuildJobTargetsList>>
  /\ UNCHANGED <<m_CommandQueue, processVars, m_Clean, m_Build, modeVars,
                 m_RunAfterCompile, m_LastExitCode, m_LastWasRun, errors,
                 hindrance, histVars>>

Commands(kinds) == [i \in DOMAIN kinds |-> Command(kinds[i], build.target)]

AddToCommandQueue ==
  /\ At("bsm_add")
  /\ build' = [build EXCEPT !.next = Head(stack).next]
  /\ m_CommandQueue' = m_CommandQueue \o Commands(Head(stack).cmds)
  /\ Continue(Yield(<<>>))
  /\ UNCHANGED <<processVars, stateVars, m_BuildJobTargetsList, modeVars,
                 m_RunAfterCompile, m_LastExitCode, m_LastWasRun, errors,
                 hindrance, histVars>>

-----------------------------------------------------------------------------
(* DoRunQueue.                                                              *)

(* CompilerQueue::Next.                                                     *)
TakeCommand ==
  /\ m_CommandQueue' = Tail(m_CommandQueue)
  /\ m_LastWasRun' = (Head(m_CommandQueue).kind = "run")

(* Execute the first command in slot i; wxExecute may fail, which clears    *)
(* the rest of the queue.                                                   *)
Launch(i) ==
  LET c == Head(m_CommandQueue)
  IN  /\ Continue(<<Frame("queue")>>)
      /\ \/ /\ c.kind = "log"
            /\ TakeCommand
            /\ UNCHANGED <<processVars, build, failed>>
         \/ /\ c.kind # "log"
            /\ TakeCommand
            /\ m_Processes' = [m_Processes EXCEPT ![i] = TRUE]
            /\ m_Pid' = [m_Pid EXCEPT ![i] = TRUE]
            /\ child' = [child EXCEPT ![i] = @ \cup {c}]
            /\ UNCHANGED <<ended, build, failed>>
         \/ /\ c.kind # "log"
            /\ m_Processes' = [m_Processes EXCEPT ![i] = FALSE]
            /\ m_Pid' = [m_Pid EXCEPT ![i] = FALSE]
            /\ ResetBuildState
            /\ m_LastWasRun' = (c.kind = "run")
            /\ failed' = (failed \/ c.kind # "run")
            /\ UNCHANGED <<child, ended>>
      /\ UNCHANGED <<stateVars, m_BuildJobTargetsList, modeVars, m_RunAfterCompile,
                     m_LastExitCode, errors, hindrance, sessions, owed, aborted>>

(* Mutant of MustWait: a link is not made to wait.                          *)
MustWaitForStep == IsProcessRunning /\ Head(m_CommandQueue).kind = "step"
(* The command at the head of the queue has to wait for the processes.      *)
MustWait == IsProcessRunning /\ Waits(Head(m_CommandQueue))

DoRunQueue ==
  /\ At("queue")
  /\ \/ /\ \/ FreeSlots = {}
           \/ IF m_CommandQueue = <<>> THEN IsProcessRunning ELSE MustWait
        /\ Return
        /\ UNCHANGED <<m_CommandQueue, processVars, build, m_LastWasRun, failed>>
     \/ /\ FreeSlots # {} /\ m_CommandQueue # <<>> /\ ~MustWait
        /\ Launch(GetNextAvailableProcessIndex)
     \/ /\ FreeSlots # {} /\ m_CommandQueue = <<>> /\ ~IsProcessRunning
        /\ Continue(<<Frame("bsm"),
                      [at |-> "queue_next", slot |-> GetNextAvailableProcessIndex]>>)
        /\ UNCHANGED <<m_CommandQueue, processVars, build, m_LastWasRun, failed>>
  /\ UNCHANGED <<stateVars, m_BuildJobTargetsList, modeVars, m_RunAfterCompile,
                 m_LastExitCode, errors, hindrance, sessions, owed, aborted>>

AllStatesDone == build.state = "none" /\ build.next = "none"

RunNextCommand ==
  /\ At("queue_next")
  /\ \/ /\ m_CommandQueue # <<>>
        /\ Launch(Head(stack).slot)
     \/ /\ m_CommandQueue = <<>> /\ ~AllStatesDone
        /\ Continue(<<Frame("bsm"), Head(stack)>>)
        /\ UNCHANGED <<m_CommandQueue, processVars, build, m_RunAfterCompile,
                       m_LastWasRun, owed, failed>>
     \/ /\ m_CommandQueue = <<>> /\ AllStatesDone
        /\ NotifyJobDone
        /\ ResetBuildState
        /\ m_RunAfterCompile' = FALSE
        /\ IF m_RunAfterCompile THEN Continue(<<Frame("run")>>) ELSE Return
        /\ UNCHANGED <<processVars, m_LastWasRun, failed>>
  /\ UNCHANGED <<stateVars, m_BuildJobTargetsList, modeVars, m_LastExitCode,
                 errors, hindrance, sessions, aborted>>

-----------------------------------------------------------------------------
(* Processes.                                                               *)

(* PipedProcess::OnTerminate, called by the event loop: the slot's pointer  *)
(* is reset now, its pid when the posted event is handled.                  *)
Terminate(i) ==
  /\ Polling
  /\ \E c \in child[i], code \in {0, 1} :
       /\ child' = [child EXCEPT ![i] = @ \ {c}]
       /\ ended' = Append(ended, [slot |-> i, code |-> code, kind |-> c.kind])
  /\ m_Processes' = [m_Processes EXCEPT ![i] = FALSE]
  /\ UNCHANGED <<stack, m_CommandQueue, m_Pid, build, stateVars,
                 m_BuildJobTargetsList, modeVars, m_RunAfterCompile,
                 m_LastExitCode, m_LastWasRun, errors, hindrance, histVars>>

(* What m_Errors may be after the output of a command: one that fails may   *)
(* have printed an error that the compiler's expressions recognize.         *)
AddOutputLine(e) ==
  IF e.code # 0 /\ e.kind # "run" THEN {errors, TRUE} ELSE {errors}

(* OnJobEnd, up to its loop.                                                *)
OnJobEnd ==
  /\ At("pending") \/ At("idle")
  /\ ended # <<>>
  /\ LET e == Head(ended)
     IN  /\ m_Pid' = [m_Pid EXCEPT ![e.slot] = FALSE]
         /\ m_Processes' = [m_Processes EXCEPT ![e.slot] = FALSE]
         /\ m_LastExitCode' = e.code
         /\ failed' = (failed \/ (e.code # 0 /\ e.kind # "run"))
         /\ errors' \in AddOutputLine(e)
         /\ stack' =
              (IF e.code # 0 THEN <<Frame("job_end")>>
               ELSE IF m_CommandQueue # <<>> \/ \E i \in Slot : m_Processes'[i]
               THEN <<Frame("queue")>>
               ELSE <<Frame("bsm"), Frame("job_loop")>>) \o stack
  /\ ended' = Tail(ended)
  /\ UNCHANGED <<m_CommandQueue, child, build, stateVars, m_BuildJobTargetsList,
                 modeVars, m_RunAfterCompile, m_LastWasRun, hindrance, sessions, owed,
                 aborted>>

JobLoop ==
  /\ At("job_loop")
  /\ Continue(IF m_CommandQueue # <<>> THEN <<Frame("queue")>>
              ELSE IF AllStatesDone THEN <<Frame("job_end")>>
              ELSE <<Frame("bsm"), Frame("job_loop")>>)
  /\ UNCHANGED <<m_CommandQueue, processVars, build, stateVars,
                 m_BuildJobTargetsList, modeVars, m_RunAfterCompile,
                 m_LastExitCode, m_LastWasRun, errors, hindrance, histVars>>

(* A failing program is not a failing build: its exit code is dropped.      *)
JobEnd ==
  /\ At("job_end")
  /\ ResetBuildState
  /\ m_BuildJobTargetsList' = <<>>
  /\ m_LastExitCode' = IF m_LastWasRun THEN 0 ELSE m_LastExitCode
  /\ NotifyJobDone
  /\ m_RunAfterCompile' = FALSE
  /\ IF ~errors /\ m_RunAfterCompile
     THEN Continue(<<Frame("run"), Frame("job_after")>>) ELSE Return
  /\ UNCHANGED <<processVars, stateVars, modeVars, m_LastWasRun, errors,
                 hindrance, sessions, failed, aborted>>

JobAfter ==
  /\ At("job_after")
  /\ m_RunAfterCompile' = FALSE
  /\ Return
  /\ UNCHANGED <<m_CommandQueue, processVars, build, stateVars,
                 m_BuildJobTargetsList, modeVars, m_LastExitCode, m_LastWasRun,
                 errors, hindrance, histVars>>

-----------------------------------------------------------------------------
(* Builds.                                                                  *)

Hindrance == {"debugger", "no project"}

(* PreprocessJob: the list of jobs with the targets found; it skips targets *)
(* it cannot build, and may so find none.                                   *)
PreprocessJob(isWorkspace, found) ==
  (IF isWorkspace THEN m_BuildJobTargetsList ELSE <<>>) \o found

InitBuildState(operation, job) ==
  /\ build' = [job |-> operation, state |-> "none", next |-> "ProjectPreBuild",
               target |-> job]
  /\ m_CommandQueue' = <<>>

(* InitBuildState and DoBuild(clean, build) on a list that is not empty.    *)
StartBuild(operation, jobs, after) ==
  /\ InitBuildState(operation, Head(jobs))
  /\ m_BuildJobTargetsList' = Tail(jobs)
  /\ m_Clean' = Head(stack).clean /\ m_Build' = Head(stack).build
  /\ Continue(<<Frame("bsm"), Frame(after)>>)
  /\ owed' = TRUE /\ failed' = FALSE

(* PreprocessJob found nothing to do.                                       *)
NothingToBuild ==
  /\ m_BuildJobTargetsList' = <<>>
  /\ NotifyJobDone
  /\ build' = IF m_LastBuildStep THEN [build EXCEPT !.job = "idle"] ELSE build
  /\ Return
  /\ UNCHANGED <<m_CommandQueue, m_Clean, m_Build, failed>>

(* Without a project the file in the editor is compiled, if there is one.   *)
(* With one the build is refused when the user keeps the debugger running;  *)
(* StopRunningDebugger may have stopped it otherwise.                       *)
DoBuild ==
  /\ At("build")
  /\ \/ /\ \/ hindrance \in Hindrance /\ Return
           \/ hindrance = "no project" /\ Continue(<<Frame("file")>>)
        /\ UNCHANGED <<errors, hindrance>>
     \/ LET resume == <<[Head(stack) EXCEPT !.at = "build_jobs"]>>
        IN  /\ hindrance # "no project"
            /\ Continue(IF m_IsWorkspaceOperation THEN resume ELSE Yield(resume))
            /\ errors' = (errors /\ m_IsWorkspaceOperation)
            /\ hindrance' = "none"
  /\ UNCHANGED <<m_CommandQueue, processVars, build, stateVars,
                 m_BuildJobTargetsList, modeVars, m_RunAfterCompile,
                 m_LastExitCode, m_LastWasRun, histVars>>

BuildProject ==
  /\ At("build_jobs")
  /\ \E found \in {ProjectJobs, <<>>} :
       LET jobs == PreprocessJob(m_IsWorkspaceOperation, found)
       IN  IF jobs = <<>> THEN NothingToBuild ELSE StartBuild("project", jobs, "queue")
  /\ UNCHANGED <<processVars, m_RunTargetPostBuild, m_RunProjectPostBuild, modeVars,
                 m_RunAfterCompile, m_LastExitCode, m_LastWasRun, errors,
                 hindrance, sessions, aborted>>

Rebuild ==
  /\ At("rebuild")
  /\ m_LastBuildStep' = TRUE
  /\ Continue(<<BuildFrame("build", FALSE, TRUE)>>)
  /\ UNCHANGED <<m_CommandQueue, processVars, build, stateVars,
                 m_BuildJobTargetsList, m_IsWorkspaceOperation, m_RunAfterCompile,
                 m_LastExitCode, m_LastWasRun, errors, hindrance, histVars>>

DoWorkspaceBuild ==
  /\ At("ws")
  /\ \/ hindrance \in Hindrance /\ Return /\ UNCHANGED <<errors, hindrance>>
     \/ /\ Continue(Yield(<<[Head(stack) EXCEPT !.at = "ws_jobs"]>>))
        /\ errors' = (errors /\ m_CommandQueue # <<>>)
        /\ hindrance' = "none"
  /\ UNCHANGED <<m_CommandQueue, processVars, build, stateVars,
                 m_BuildJobTargetsList, modeVars, m_RunAfterCompile,
                 m_LastExitCode, m_LastWasRun, histVars>>

BuildWorkspace ==
  /\ At("ws_jobs")
  /\ m_IsWorkspaceOperation' = TRUE
  /\ \E found \in {WorkspaceJobs, <<>>} :
       LET jobs == PreprocessJob(TRUE, found)
       IN  IF jobs = <<>> THEN NothingToBuild ELSE StartBuild("workspace", jobs, "ws_end")
  /\ UNCHANGED <<processVars, m_RunTargetPostBuild, m_RunProjectPostBuild,
                 m_LastBuildStep, m_RunAfterCompile, m_LastExitCode, m_LastWasRun,
                 errors, hindrance, sessions, aborted>>

WorkspaceStarted ==
  /\ At("ws_end")
  /\ m_IsWorkspaceOperation' = FALSE
  /\ Continue(<<Frame("queue")>>)
  /\ UNCHANGED <<m_CommandQueue, processVars, build, stateVars,
                 m_BuildJobTargetsList, m_LastBuildStep, m_RunAfterCompile,
                 m_LastExitCode, m_LastWasRun, errors, hindrance, histVars>>

RebuildWorkspace ==
  /\ At("ws_rebuild")
  /\ m_LastBuildStep' = TRUE
  /\ Continue(<<BuildFrame("ws", FALSE, TRUE)>>)
  /\ UNCHANGED <<m_CommandQueue, processVars, build, stateVars,
                 m_BuildJobTargetsList, m_IsWorkspaceOperation, m_RunAfterCompile,
                 m_LastExitCode, m_LastWasRun, errors, hindrance, histVars>>

-----------------------------------------------------------------------------
(* Run and CompileFile: DoPrepareQueue, then a command for the queue, or a  *)
(* refusal.  Run may also ask whether to build the project first: a yes     *)
(* counts as a command of the user.  A script in the editor, with no        *)
(* project, is run at once.                                                 *)

PrepareQueue ==
  /\ \/ At("run") /\ Continue(Yield(<<Frame("run_cmd")>>))
     \/ At("file") /\ Continue(Yield(<<Frame("file_cmd")>>))
  /\ errors' = (errors /\ m_CommandQueue # <<>>)
  /\ UNCHANGED <<m_CommandQueue, processVars, build, stateVars,
                 m_BuildJobTargetsList, modeVars, m_RunAfterCompile,
                 m_LastExitCode, m_LastWasRun, hindrance, histVars>>

Run ==
  /\ At("run_cmd")
  /\ \/ /\ Return \/ (hindrance = "no project" /\ Continue(<<Frame("queue")>>))
        /\ UNCHANGED <<m_CommandQueue, m_RunAfterCompile, m_LastBuildStep, sessions,
                       failed, aborted>>
     \/ /\ sessions < MaxSessions /\ sessions' = sessions + 1
        /\ aborted' = FALSE /\ failed' = FALSE
        /\ m_RunAfterCompile' = TRUE /\ m_LastBuildStep' = TRUE
        /\ Continue(<<BuildFrame("build", FALSE, TRUE)>>)
        /\ UNCHANGED m_CommandQueue
     \/ /\ m_CommandQueue' = Append(m_CommandQueue, Command("run", NoJob))
        /\ Continue(<<Frame("queue")>>)
        /\ UNCHANGED <<m_RunAfterCompile, m_LastBuildStep, sessions, failed, aborted>>
  /\ UNCHANGED <<processVars, build, stateVars, m_BuildJobTargetsList,
                 m_IsWorkspaceOperation, m_LastExitCode, m_LastWasRun, errors,
                 hindrance, owed>>

CompileFile ==
  /\ At("file_cmd")
  /\ \/ Return /\ UNCHANGED m_CommandQueue
     \/ \E cmds \in {<<"cc">>, <<"cc", "link">>} :
          /\ m_CommandQueue' = m_CommandQueue \o Commands(cmds)
          /\ Continue(<<Frame("queue")>>)
  /\ UNCHANGED <<processVars, build, stateVars, m_BuildJobTargetsList, modeVars,
                 m_RunAfterCompile, m_LastExitCode, m_LastWasRun, errors,
                 hindrance, histVars>>

-----------------------------------------------------------------------------
(* The event loop.                                                          *)

(* wxApp::ProcessPendingEvents, from the main loop or at the end of a       *)
(* Yield, returns when no posted event is left.                             *)
ProcessPendingEvents ==
  /\ \/ stack = <<>> /\ ended # <<>> /\ stack' = <<Frame("pending")>>
     \/ At("yield") /\ Continue(<<Frame("idle")>>)
     \/ (At("pending") \/ At("idle")) /\ ended = <<>> /\ Return
  /\ UNCHANGED <<m_CommandQueue, processVars, build, stateVars,
                 m_BuildJobTargetsList, modeVars, m_RunAfterCompile,
                 m_LastExitCode, m_LastWasRun, errors, hindrance, histVars>>

(* What each menu command calls; OnUpdateUI disables them while IsRunning.  *)
Call(frames, lastStep, runAfter) ==
  /\ stack' = frames \o stack
  /\ m_LastBuildStep' = lastStep
  /\ m_RunAfterCompile' = runAfter

UserCommand(c) ==
  /\ (stack = <<>> /\ ended = <<>>) \/ (Impatient /\ At("yield"))
  /\ ~IsRunning
  /\ sessions < MaxSessions
  /\ sessions' = sessions + 1 /\ aborted' = FALSE /\ failed' = FALSE
  /\ hindrance' \in Hindrance \cup {"none"}
  /\ hindrance' = "no project" => c \in {"build", "build and run", "run", "compile file"}
  /\ \/ /\ c = "build"
        /\ Call(<<BuildFrame("build", FALSE, TRUE)>>, TRUE, m_RunAfterCompile)
     \/ /\ c = "build and run"
        /\ Call(<<BuildFrame("build", FALSE, TRUE)>>, TRUE, TRUE)
     \/ /\ c = "clean"
        /\ Call(<<BuildFrame("build", TRUE, FALSE)>>, TRUE, m_RunAfterCompile)
     \/ /\ c = "rebuild"
        /\ \/ Call(<<BuildFrame("build", TRUE, TRUE)>>, TRUE, m_RunAfterCompile)
           \/ Call(<<BuildFrame("build", TRUE, FALSE), Frame("rebuild")>>, FALSE,
                   m_RunAfterCompile)
     \/ /\ c = "build workspace"
        /\ Call(<<BuildFrame("ws", FALSE, TRUE)>>, m_LastBuildStep, m_RunAfterCompile)
     \/ /\ c = "clean workspace"
        /\ Call(<<BuildFrame("ws", TRUE, FALSE)>>, m_LastBuildStep, m_RunAfterCompile)
     \/ /\ c = "rebuild workspace"
        /\ \/ Call(<<BuildFrame("ws", TRUE, TRUE)>>, TRUE, m_RunAfterCompile)
           \/ Call(<<BuildFrame("ws", TRUE, FALSE), Frame("ws_rebuild")>>, FALSE,
                   m_RunAfterCompile)
     \/ /\ c = "run"
        /\ Call(<<Frame("run")>>, m_LastBuildStep, m_RunAfterCompile)
     \/ /\ c = "compile file"
        /\ Call(<<Frame("file")>>, m_LastBuildStep, m_RunAfterCompile)
  /\ UNCHANGED <<m_CommandQueue, processVars, build, stateVars,
                 m_BuildJobTargetsList, m_IsWorkspaceOperation, m_LastExitCode,
                 m_LastWasRun, errors, owed>>

(* The processes are sent SIGTERM; their ends are reported as any other.    *)
KillProcess ==
  /\ Polling /\ IsRunning
  /\ "abort" \in Menu
  /\ ResetBuildState
  /\ m_RunAfterCompile' = FALSE
  /\ aborted' = TRUE
  /\ UNCHANGED <<stack, processVars, stateVars, m_BuildJobTargetsList, modeVars,
                 m_LastExitCode, m_LastWasRun, errors, hindrance, sessions, owed, failed>>

Engine ==
  \/ BuildStateManagement \/ GenerateCommands \/ GetNextStateBasedOnJob
  \/ AddToCommandQueue \/ DoRunQueue \/ RunNextCommand
  \/ OnJobEnd \/ JobLoop \/ JobEnd \/ JobAfter
  \/ DoBuild \/ BuildProject \/ Rebuild
  \/ DoWorkspaceBuild \/ BuildWorkspace \/ WorkspaceStarted \/ RebuildWorkspace
  \/ PrepareQueue \/ Run \/ CompileFile
  \/ ProcessPendingEvents

Next ==
  \/ Engine
  \/ \E i \in Slot : Terminate(i)
  \/ \E c \in Menu : UserCommand(c)
  \/ KillProcess

Spec == Init /\ [][Next]_vars

(* The GUI thread runs, and processes end.  The user need not do anything.  *)
FairSpec == Spec /\ WF_vars(Engine) /\ \A i \in Slot : WF_vars(Terminate(i))

-----------------------------------------------------------------------------
(* Properties.                                                              *)

Kind == {"log", "step", "link", "run"}
         \cup UNION {{l[i] : i \in DOMAIN l} : l \in CompileLists \cup {<<"cc">>}}
Cmd == [kind : Kind, job : Job \cup {NoJob}]

(* Every variable keeps its type.                                           *)
TypeOK ==
  /\ m_CommandQueue \in Seq(Cmd)
  /\ m_Processes \in [Slot -> BOOLEAN] /\ m_Pid \in [Slot -> BOOLEAN]
  /\ child \in [Slot -> SUBSET Cmd]
  /\ ended \in Seq([slot : Slot, code : {0, 1}, kind : Kind])
  /\ build \in [job : {"idle", "project", "workspace"}, state : BuildState,
                next : BuildState, target : Job \cup {NoJob}]
  /\ {m_Clean, m_Build, m_RunTargetPostBuild, m_RunProjectPostBuild,
      m_IsWorkspaceOperation, m_LastBuildStep, m_RunAfterCompile, m_LastWasRun,
      errors, owed, failed, aborted} \subseteq BOOLEAN
  /\ m_BuildJobTargetsList \in Seq(Job)
  /\ hindrance \in Hindrance \cup {"none"}
  /\ m_LastExitCode \in {0, 1} /\ sessions \in 0..MaxSessions

Pending(i) == {k \in DOMAIN ended : ended[k].slot = i}

(* DoRunQueue starts no process in a slot that is running: a slot has at    *)
(* most one process or one end of process yet to be handled, m_Pid says     *)
(* whether it has, and m_Processes whether the process lives.               *)
SlotIntegrity ==
  \A i \in Slot :
    /\ Cardinality(child[i]) + Cardinality(Pending(i)) = (IF m_Pid[i] THEN 1 ELSE 0)
    /\ m_Processes[i] <=> child[i] # {}

Live == UNION {child[i] : i \in Slot}
Launched == UNION {child'[i] \ child[i] : i \in Slot}

(* A pre- or post-build step and a linker never run beside another process  *)
(* of the build.                                                            *)
WaitAlone ==
  \A i, j \in Slot : \A c \in child[i], d \in child[j] :
    Alone(c) /\ d.kind # "run" => i = j /\ c = d

(* The processes of a build that run in parallel belong to the same target. *)
OneTargetAtATime ==
  \A c, d \in Live : c.kind # "run" /\ d.kind # "run" => c.job = d.job

(* Once a command is known to have failed, no further command of that build *)
(* is executed.                                                             *)
StopsAtFailure == [][failed => \A c \in Launched : c.kind = "run"]_vars

(* A build that begins is announced finished, whether it succeeds, fails or *)
(* is aborted: other plugins wait for the event.                            *)
BuildIsFinished == owed ~> ~owed

(* A linker is executed only when every command the build has executed has  *)
(* ended, OnJobEnd has handled its end, and none of them has failed: no     *)
(* process of the build lives, no end of one is posted, and no failure is   *)
(* known since the build began.  The test for mustWait and isLink in        *)
(* DoRunQueue sees only the first.                                          *)
LinkAfterCompile ==
  [][\A c \in Launched : c.kind = "link" =>
       /\ ~failed
       /\ \A d \in Live : d.kind = "run"
       /\ \A k \in DOMAIN ended : ended[k].kind = "run"]_vars

(* KillProcess aborts the build: nothing more is executed until the user    *)
(* gives a command.                                                         *)
AbortStops == [][aborted /\ aborted' => Launched = {}]_vars

(* GetExitCode and FINISHED tell of a build with a failed command that it   *)
(* failed.                                                                  *)
ExitCodeTells == [][owed /\ ~owed' /\ failed => m_LastExitCode' # 0]_vars
=============================================================================
