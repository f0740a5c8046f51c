---------------------------- MODULE ParserTasks ----------------------------
(***************************************************************************)
(* How the parsers of the code completion plugin get their files parsed    *)
(* (parser/parser.cpp).  The GUI thread collects files in lists and starts *)
(* a timer; the timer queues an AddParseThread in the parser's pool of one *)
(* thread, which turns the lists into parse tasks; each time the pool runs *)
(* out of tasks it posts an event, and the GUI thread decides what is next,  *)
(* until it announces the end.  A GUI handler is one action; the worker    *)
(* moves between handlers, one critical section at a time.                 *)
(***************************************************************************)
EXTENDS Integers, Sequences, FiniteSets, SequencesExt

CONSTANTS
    Parsers,     \* parser objects
    Projects,    \* those that belong to a project
    Files,
    Includes,    \* Includes[f]: the includes of f, in order
    Contents,    \* Contents[p]: what DoFullParsing finds for p; system are the
                 \* priority headers from outside the project
    MaxRequests, \* bound: requests of the user
    Mishaps      \* what the environment may do beyond the ordinary

None == "none"
Add == "AddParseThread"
Mark == "MarkFileAsLocalThread"
Include == [file : Files, isGlobal : BOOLEAN]
ASSUME ParserAssumption ==
    /\ IsFiniteSet(Parsers) /\ IsFiniteSet(Files) /\ Projects \subseteq Parsers
    /\ Includes \in [Files -> Seq(Include)]
    /\ Contents \in [Parsers -> [macros : BOOLEAN, priority : Seq(Files),
                                 system : Seq(Files), batch : Seq(Files)]]
    /\ \A p \in Parsers : Range(Contents[p].system) \subseteq Range(Contents[p].priority)
    /\ MaxRequests \in Nat
    /\ None \notin Parsers /\ {None, Add, Mark} \cap Files = {}
    /\ Mishaps \subseteq
        { "add in the gap",     \* between the end of the tasks and the next batch
          "add while listing",  \* while the lists become tasks
          "add while reparsing",
          "early delete",       \* a parser is deleted while its worker works
          "quick worker" }      \* it wakes between two posts of AwakeNeeded

VARIABLES
    parser,           \* the fields of each Parser
    tree,             \* m_FilesStatus and m_FilesToBeReparsed of its TokensTree
    pool,             \* its cbThreadPool with the one worker
    s_CurrentParser,
    deleting,         \* the parser in whose destructor the GUI thread is
    wanted,           \* history: files asked for and not parsed since
    requests          \* bound counter
vars == <<parser, tree, pool, s_CurrentParser, deleting, wanted, requests>>

Down == [up |-> FALSE, macros |-> FALSE, priority |-> <<>>, system |-> <<>>, batch |-> <<>>,
         poolTask |-> <<>>, isParsing |-> FALSE, isPriority |-> FALSE, firstBatch |-> FALSE,
         ignore |-> TRUE, needLocal |-> TRUE, type |-> "create",
         batchTimer |-> FALSE, reparseTimer |-> FALSE]
EmptyTree == [status |-> [f \in Files |-> "none"], reparse |-> {}]
\* events: posted cbEVT_THREADTASK_ALLDONE; stack: files the running task is
\* in, innermost first; priority and batch: the copies of AddParseThread.
NewPool == [queue |-> <<>>, sem |-> 0, added |-> FALSE, events |-> 0, at |-> "asleep",
            task |-> None, stack |-> <<>>, priority |-> <<>>, batch |-> <<>>, abort |-> FALSE]
-----------------------------------------------------------------------------
(* The pool: cbThreadPool with one worker.                                 *)

Working(pl) == pl.at \notin {"asleep", "awake"}

\* Mutant of AddTask: a working worker is woken too.
AddTaskPosts(pl, t) == [pl EXCEPT !.queue = Append(@, t), !.added = TRUE, !.sem = 1]
AddTask(pl, t) ==
    [pl EXCEPT !.queue = Append(@, t), !.added = TRUE, !.sem = IF Working(pl) THEN @ ELSE 1]

\* Mutant of BatchOf: the semaphore has no maximum.
BatchOfUnbounded(pl, ts) ==
    LET q == pl.queue \o ts
    IN  {[pl EXCEPT !.queue = q, !.added = @ \/ ts # <<>>, !.sem = @ + Len(q)]}
\* BatchBegin, AddTask of each, BatchEnd: a post for each queued task, though
\* the semaphore holds one.
BatchOf(pl, ts) ==
    LET q == pl.queue \o ts
        added == [pl EXCEPT !.queue = q, !.added = @ \/ ts # <<>>]
    IN  IF q = <<>> THEN {added}
        ELSE {[added EXCEPT !.sem = 1]}
             \cup IF Len(q) > 1 /\ pl.at = "asleep" /\ "quick worker" \in Mishaps
                  THEN {[added EXCEPT !.sem = 1, !.at = "awake"]} ELSE {}

CriticalFree == deleting = None
Worker(p) == pool[p].at
PoolIs(p, pl) == pool' = [pool EXCEPT ![p] = pl]
ParserIs(p, d) == parser' = [parser EXCEPT ![p] = d]
TreeIs(p, tr) == tree' = [tree EXCEPT ![p] = tr]
Goes(p, at) == PoolIs(p, [pool[p] EXCEPT !.at = at])

Wake(p) ==
    /\ Worker(p) = "asleep" /\ pool[p].sem = 1
    /\ PoolIs(p, [pool[p] EXCEPT !.sem = 0, !.at = "awake"])
    /\ UNCHANGED <<parser, tree, s_CurrentParser, deleting, wanted, requests>>

WorkingThread(p) ==
    /\ Worker(p) = "awake"
    /\ Goes(p, "gets")
    /\ UNCHANGED <<parser, tree, s_CurrentParser, deleting, wanted, requests>>

GetNextTask(p) ==
    /\ Worker(p) = "gets"
    /\ IF pool[p].queue = <<>> THEN Goes(p, "rests")
       ELSE LET t == Head(pool[p].queue) IN
            PoolIs(p, [pool[p] EXCEPT !.queue = Tail(@), !.task = t,
                          !.at = CASE t = Add  -> "copies"
                                   [] t = Mark -> "marks"
                                   [] OTHER    -> "opens"])
    /\ UNCHANGED <<parser, tree, s_CurrentParser, deleting, wanted, requests>>

Ended(pl) == [pl EXCEPT !.task = None, !.at = "gets", !.abort = FALSE]
TaskDone(p) == PoolIs(p, Ended(pool[p]))

WaitingThread(p) ==
    /\ Worker(p) = "rests"
    /\ PoolIs(p, [pool[p] EXCEPT !.at = "asleep",
                      !.sem = IF pool[p].queue = <<>> THEN @ ELSE 1,
                      !.events = IF pool[p].queue = <<>> /\ pool[p].added THEN @ + 1 ELSE @])
    /\ UNCHANGED <<parser, tree, s_CurrentParser, deleting, wanted, requests>>
-----------------------------------------------------------------------------
(* Parser::Parse and ParserThread::Parse, on the worker.                   *)

CanParse(p, f) ==
    \/ tree[p].status[f] = "none"
    \/ tree[p].status[f] = "done" /\ f \in tree[p].reparse
Status(p, f, status) ==
    TreeIs(p, [status |-> [tree[p].status EXCEPT ![f] = status], reparse |-> tree[p].reparse \ {f}])

Entered(f) == [file |-> f, rest |-> Includes[f]]

\* Where a task for a file goes that is not parsed on the spot.
Dispatch(p, pl, f) ==
    LET d == parser[p]
        first == d.firstBatch /\ ~d.isPriority
        queued == IF first \/ d.isPriority THEN Append(d.poolTask, <<>>) ELSE d.poolTask
        n == Len(queued)
        last == IF n = 0 THEN queued ELSE [queued EXCEPT ![n] = Append(@, f)]
    IN  IF ~d.isPriority /\ d.isParsing
        THEN /\ ParserIs(p, [d EXCEPT !.firstBatch = FALSE, !.poolTask = queued])
             /\ PoolIs(p, AddTask(pl, f))
        ELSE /\ ParserIs(p, [d EXCEPT !.firstBatch = @ /\ ~first, !.poolTask = last])
             /\ PoolIs(p, pl)      \* lost when n = 0

Parse(p, pl, f, isLocal) ==
    IF ~CanParse(p, f)
    THEN PoolIs(p, pl) /\ UNCHANGED <<parser, tree>>
    ELSE IF parser[p].isPriority /\ isLocal
    THEN /\ PoolIs(p, [pl EXCEPT !.stack = <<Entered(f)>> \o @])
         /\ Status(p, f, "parsing")
         /\ UNCHANGED parser
    ELSE CriticalFree /\ Dispatch(p, pl, f) /\ Status(p, f, "assigned")

\* A parse task begins: it may have been aborted, or the file parsed since.
Open(p) ==
    LET f == pool[p].task IN
    /\ Worker(p) = "opens"
    /\ IF pool[p].abort \/ tree[p].status[f] \in {"parsing", "done"}
       THEN TaskDone(p) /\ UNCHANGED tree
       ELSE /\ PoolIs(p, [pool[p] EXCEPT !.at = "parses", !.stack = <<Entered(f)>>])
            /\ Status(p, f, "parsing")
    /\ UNCHANGED <<parser, s_CurrentParser, deleting, wanted, requests>>

InFile(p) == pool[p].stack # <<>>
Top(p) == Head(pool[p].stack)

\* HandleIncludes at the next include of the file.
HandleInclude(p) ==
    /\ InFile(p) /\ Top(p).rest # <<>> /\ ~pool[p].abort
    /\ LET include == Head(Top(p).rest) IN
       Parse(p, [pool[p] EXCEPT !.stack = <<[Top(p) EXCEPT !.rest = Tail(@)]>> \o Tail(@)],
             include.file, ~include.isGlobal)
    /\ UNCHANGED <<s_CurrentParser, deleting, wanted, requests>>

FlagFileAsParsed(p) ==
    /\ InFile(p) /\ (Top(p).rest = <<>> \/ pool[p].abort)
    /\ TreeIs(p, [tree[p] EXCEPT !.status = [@ EXCEPT ![Top(p).file] = "done"]])
    /\ wanted' = [wanted EXCEPT ![p] = @ \ {Top(p).file}]
    /\ IF Len(pool[p].stack) = 1 /\ Worker(p) = "parses"
       THEN PoolIs(p, [Ended(pool[p]) EXCEPT !.stack = <<>>])
       ELSE PoolIs(p, [pool[p] EXCEPT !.stack = Tail(@)])
    /\ UNCHANGED <<parser, s_CurrentParser, deleting, requests>>

MarkFiles(p) ==
    /\ Worker(p) = "marks"
    /\ TaskDone(p)
    /\ UNCHANGED <<parser, tree, s_CurrentParser, deleting, wanted, requests>>
-----------------------------------------------------------------------------
(* AddParseThread::Execute.                                                *)

CopyLists(p) ==
    /\ Worker(p) = "copies" /\ CriticalFree
    /\ PoolIs(p, [pool[p] EXCEPT !.at = "macros", !.priority = parser[p].priority,
                                 !.batch = parser[p].batch])
    /\ UNCHANGED <<parser, tree, s_CurrentParser, deleting, wanted, requests>>

\* Mutant of MacrosParsed: m_IsPriority is not set.
MacrosParsedOnly(p) ==
    /\ Worker(p) = "macros" /\ CriticalFree
    /\ ParserIs(p, [parser[p] EXCEPT !.macros = FALSE])
    /\ Goes(p, "priority")
    /\ UNCHANGED <<tree, s_CurrentParser, deleting, wanted, requests>>
MacrosParsed(p) ==
    /\ Worker(p) = "macros" /\ CriticalFree
    /\ ParserIs(p, [parser[p] EXCEPT !.macros = FALSE, !.isPriority = TRUE])
    /\ Goes(p, "priority")
    /\ UNCHANGED <<tree, s_CurrentParser, deleting, wanted, requests>>

NextPriorityHeader(p) ==
    /\ Worker(p) = "priority" /\ ~InFile(p) /\ pool[p].priority # <<>>
    /\ Parse(p, [pool[p] EXCEPT !.priority = Tail(@)], Head(pool[p].priority), TRUE)
    /\ UNCHANGED <<s_CurrentParser, deleting, wanted, requests>>

PriorityParsed(p) ==
    /\ Worker(p) = "priority" /\ ~InFile(p) /\ pool[p].priority = <<>> /\ CriticalFree
    /\ ParserIs(p, [parser[p] EXCEPT !.priority = <<>>, !.isPriority = FALSE,
                                     !.firstBatch = @ \/ parser[p].ignore])
    /\ Goes(p, "batch")
    /\ UNCHANGED <<tree, s_CurrentParser, deleting, wanted, requests>>

NextBatchFile(p) ==
    /\ Worker(p) = "batch" /\ ~InFile(p) /\ pool[p].batch # <<>>
    /\ Parse(p, [pool[p] EXCEPT !.batch = Tail(@)], Head(pool[p].batch), TRUE)
    /\ UNCHANGED <<s_CurrentParser, deleting, wanted, requests>>

BatchListed(p) ==
    /\ Worker(p) = "batch" /\ ~InFile(p) /\ pool[p].batch = <<>> /\ CriticalFree
    /\ ParserIs(p, [parser[p] EXCEPT !.batch = <<>>, !.ignore = FALSE,
                                     !.isParsing = @ \/ parser[p].ignore])
    /\ TaskDone(p)
    /\ UNCHANGED <<tree, s_CurrentParser, deleting, wanted, requests>>

WorkerStep(p) ==
    \/ Wake(p) \/ WorkingThread(p) \/ GetNextTask(p) \/ WaitingThread(p)
    \/ Open(p) \/ HandleInclude(p) \/ FlagFileAsParsed(p) \/ MarkFiles(p)
    \/ CopyLists(p) \/ MacrosParsed(p) \/ NextPriorityHeader(p)
    \/ PriorityParsed(p) \/ NextBatchFile(p) \/ BatchListed(p)
-----------------------------------------------------------------------------
(* Handlers of the GUI thread.                                             *)

Free(p) == deleting = None /\ parser[p].up
\* s_TokensTreeCritical, which the worker holds while it is in a file.
TreeFree == \A p \in Parsers : ~InFile(p)

PoolDone(p) == ~Working(pool[p])
NoLists(p) == parser[p].priority = <<>> /\ parser[p].batch = <<>> /\ ~parser[p].macros
Done(p) == /\ NoLists(p) /\ parser[p].system = <<>> /\ ~parser[p].needLocal
           /\ parser[p].poolTask = <<>> /\ PoolDone(p)

\* Mutant of Restarted: the timer is stopped and not started.
RestartedNot(d) == [d EXCEPT !.batchTimer = FALSE]
\* The end of every Add...: the timer is stopped, and started again.
Restarted(d) == [d EXCEPT !.batchTimer = ~d.isParsing]
Typed(d, type) == [d EXCEPT !.type = IF @ = "undefined" THEN type ELSE @]
\* AddParse of each of fs.
AddParse(d, fs) == IF fs = <<>> THEN d ELSE Restarted([d EXCEPT !.batch = @ \o fs])
Requested == requests < MaxRequests /\ requests' = requests + 1

\* CreateParser with DoFullParsing: macros, priority headers, batch files.
CreateParser(p) ==
    LET c == Contents[p] IN
    /\ deleting = None /\ ~parser[p].up /\ Requested
    /\ ParserIs(p, [Down EXCEPT !.up = TRUE, !.macros = c.macros, !.priority = c.priority,
                                !.system = c.system, !.batch = c.batch,
                                !.batchTimer = c.macros \/ c.priority # <<>> \/ c.batch # <<>>])
    /\ TreeIs(p, EmptyTree)
    /\ PoolIs(p, NewPool)
    /\ wanted' = [wanted EXCEPT ![p] = Range(c.priority) \cup Range(c.batch)]
    /\ UNCHANGED <<s_CurrentParser, deleting>>

Listing(p) == pool[p].task = Add \/ Contains(pool[p].queue, Add)
AddFile(p, f) ==
    /\ Free(p) /\ TreeFree /\ Requested
    /\ ~(tree[p].status[f] \in {"parsing", "done"} /\ f \notin tree[p].reparse)
    /\ ~Contains(parser[p].batch, f)
    /\ Listing(p) => "add while listing" \in Mishaps
    /\ parser[p].isParsing /\ parser[p].batchTimer => "add in the gap" \in Mishaps
    /\ parser[p].type = "reparse" /\ p \in Projects => "add while reparsing" \in Mishaps
    /\ ParserIs(p, [AddParse(Typed(parser[p], "add"), <<f>>)
                      EXCEPT !.needLocal = @ \/ p \in Projects])
    /\ wanted' = [wanted EXCEPT ![p] = @ \cup {f}]
    /\ UNCHANGED <<tree, pool, s_CurrentParser, deleting>>

Reparse(p, f) ==
    /\ Free(p) /\ TreeFree /\ Requested /\ Done(p)
    /\ TreeIs(p, [tree[p] EXCEPT !.reparse = @ \cup {f}])
    /\ ParserIs(p, [parser[p] EXCEPT !.reparseTimer = TRUE])
    /\ wanted' = [wanted EXCEPT ![p] = @ \cup {f}]
    /\ UNCHANGED <<pool, s_CurrentParser, deleting>>

\* ReparseModifiedFiles (the headers go first; here in any order).
OnReparseTimer(p) ==
    /\ Free(p) /\ TreeFree /\ parser[p].reparseTimer
    /\ IF ~Done(p) THEN UNCHANGED parser     \* the timer is started again
       ELSE \E fs \in SetToSeqs(tree[p].reparse) :
            LET d == IF fs = <<>> THEN parser[p] ELSE Typed(parser[p], "reparse")
            IN  ParserIs(p, AddParse([d EXCEPT !.reparseTimer = FALSE], fs))
    /\ UNCHANGED <<tree, pool, s_CurrentParser, deleting, wanted, requests>>

\* Mutant of MyTurn: whichever parser is current.
MyTurnAlways(p) == TRUE
\* Otherwise the timer is only started again.
MyTurn(p) == s_CurrentParser \in {None, p}
OnBatchTimer(p) ==
    LET d == [parser[p] EXCEPT !.batchTimer = FALSE] IN
    /\ Free(p) /\ parser[p].batchTimer /\ MyTurn(p)
    /\ \/ /\ d.poolTask # <<>>
          /\ \E pl \in BatchOf(pool[p], Head(d.poolTask)) : PoolIs(p, pl)
          /\ ParserIs(p, [d EXCEPT !.poolTask = Tail(@)])
          /\ UNCHANGED s_CurrentParser
       \/ /\ d.poolTask = <<>> /\ ~NoLists(p)
          /\ PoolIs(p, AddTask(pool[p], Add))
          /\ ParserIs(p, d)
          /\ s_CurrentParser' = p
    /\ UNCHANGED <<tree, deleting, wanted, requests>>

\* Mutant of Finished: m_IsParsing stays set.
FinishedBusy(d, hasProject) ==
    [d EXCEPT !.needLocal = @ /\ hasProject, !.ignore = TRUE, !.type = "undefined"]
Finished(d, hasProject) ==
    [d EXCEPT !.needLocal = @ /\ hasProject, !.ignore = TRUE,
              !.isParsing = FALSE, !.type = "undefined"]

OnAllThreadsDone(p) ==
    LET d == parser[p]
        took == [pool[p] EXCEPT !.events = @ - 1]
        ignored == d.ignore \/ ~d.isParsing
        more == d.poolTask # <<>> \/ ~NoLists(p)
        reparse == d.system # <<>>
        mark == d.type \in {"create", "add"} /\ d.needLocal /\ p \in Projects
    IN
    /\ Free(p) /\ pool[p].events > 0 /\ TreeFree
    /\ \/ /\ ignored \/ more
          /\ ParserIs(p, [d EXCEPT !.batchTimer = @ \/ ~ignored])
          /\ PoolIs(p, took) /\ UNCHANGED <<tree, s_CurrentParser, wanted>>
       \/ /\ ~ignored /\ ~more /\ reparse      \* the system headers, again
          /\ TreeIs(p, [status |-> [f \in Files |-> IF Contains(d.system, f) THEN "none"
                                                     ELSE tree[p].status[f]],
                        reparse |-> tree[p].reparse \ Range(d.system)])
          /\ ParserIs(p, [d EXCEPT !.batch = d.system, !.system = <<>>, !.batchTimer = TRUE])
          /\ wanted' = [wanted EXCEPT ![p] = @ \cup Range(d.system)]
          /\ PoolIs(p, took) /\ UNCHANGED s_CurrentParser
       \/ /\ ~ignored /\ ~more /\ ~reparse /\ mark
          /\ ParserIs(p, [d EXCEPT !.needLocal = FALSE])
          /\ PoolIs(p, AddTask(took, Mark))
          /\ UNCHANGED <<tree, s_CurrentParser, wanted>>
       \/ /\ ~ignored /\ ~more /\ ~reparse /\ ~mark
          /\ ParserIs(p, Finished(d, p \in Projects))
          /\ s_CurrentParser' = None
          /\ PoolIs(p, took) /\ UNCHANGED <<tree, wanted>>
    /\ UNCHANGED <<deleting, requests>>

\* ~Parser: it holds s_ParserCritical while it waits for the worker.
DeleteParser(p) ==
    /\ Free(p) /\ Requested
    /\ ~PoolDone(p) => "early delete" \in Mishaps
    /\ deleting' = p
    /\ ParserIs(p, [parser[p] EXCEPT !.poolTask = <<>>])
    /\ PoolIs(p, [pool[p] EXCEPT !.queue = <<>>, !.abort = pool[p].task # None])
    /\ UNCHANGED <<tree, s_CurrentParser, wanted>>

Deleted(p) ==
    /\ deleting = p /\ PoolDone(p)
    /\ deleting' = None
    /\ s_CurrentParser' = IF s_CurrentParser = p THEN None ELSE s_CurrentParser
    /\ ParserIs(p, Down)
    /\ TreeIs(p, EmptyTree)
    /\ PoolIs(p, NewPool)
    /\ wanted' = [wanted EXCEPT ![p] = {}]
    /\ UNCHANGED requests

Init ==
    /\ parser = [p \in Parsers |-> Down]
    /\ tree = [p \in Parsers |-> EmptyTree]
    /\ pool = [p \in Parsers |-> NewPool]
    /\ s_CurrentParser = None /\ deleting = None
    /\ wanted = [p \in Parsers |-> {}]
    /\ requests = 0

Handler(p) == OnReparseTimer(p) \/ OnBatchTimer(p) \/ OnAllThreadsDone(p) \/ Deleted(p)
Next ==
    \E p \in Parsers :
        \/ WorkerStep(p) \/ Handler(p)
        \/ CreateParser(p) \/ DeleteParser(p)
        \/ \E f \in Files : AddFile(p, f) \/ Reparse(p, f)

Spec == Init /\ [][Next]_vars
\* Workers run, and the GUI thread gets to every event and timer.  Nobody has
\* to create parsers, add files or delete parsers.
FairSpec ==
    /\ Spec
    /\ \A p \in Parsers : /\ WF_vars(WorkerStep(p))
                          /\ WF_vars(OnReparseTimer(p)) /\ WF_vars(OnBatchTimer(p))
                          /\ WF_vars(OnAllThreadsDone(p)) /\ WF_vars(Deleted(p))
-----------------------------------------------------------------------------
Points == {"asleep", "awake", "gets", "rests", "opens", "parses", "marks", "copies",
           "macros", "priority", "batch"}
Tasks == Files \cup {Add, Mark}
Entries == [file : Files, rest : Seq(Include)]   \* rest: the includes still to come
Pools ==
    [queue : Seq(Tasks), sem : 0..1, added : BOOLEAN, events : 0..1, at : Points,
     task : Tasks \cup {None}, stack : Seq(Entries),
     priority : Seq(Files), batch : Seq(Files), abort : BOOLEAN]
ParserStates ==
    [up : BOOLEAN, macros : BOOLEAN, priority : Seq(Files), system : Seq(Files),
     batch : Seq(Files), poolTask : Seq(Seq(Files)), isParsing : BOOLEAN,
     isPriority : BOOLEAN, firstBatch : BOOLEAN, ignore : BOOLEAN, needLocal : BOOLEAN,
     type : {"create", "add", "reparse", "undefined"}, batchTimer : BOOLEAN,
     reparseTimer : BOOLEAN]
Trees == [status : [Files -> {"none", "assigned", "parsing", "done"}], reparse : SUBSET Files]
\* Every variable holds what the code can put there; one event at most waits.
TypeOK ==
    /\ parser \in [Parsers -> ParserStates]
    /\ tree \in [Parsers -> Trees]
    /\ pool \in [Parsers -> Pools]
    /\ {s_CurrentParser, deleting} \subseteq Parsers \cup {None}
    /\ wanted \in [Parsers -> SUBSET Files] /\ requests \in 0..MaxRequests

Idle(p) == pool[p].at = "asleep" /\ pool[p].sem = 0 /\ pool[p].queue = <<>>

\* "true, if the parser is still busy with parsing" (parser.h:315): something
\* is under way, or due, that will take the parsing on.
BusyMeansWork ==
    \A p \in Parsers : parser[p].isParsing /\ deleting # p =>
        ~Idle(p) \/ pool[p].events > 0 \/ parser[p].batchTimer

\* Parsers take turns: a parser that has tasks, or says it is parsing, is the
\* current one, so there is one at most.
OneParserAtATime ==
    \A p \in Parsers : parser[p].isParsing \/ ~Idle(p) => s_CurrentParser = p

\* No other file of a project is even taken up before all its priority headers
\* are parsed, or being parsed (a header may include the file).
PriorityFirst ==
    [][\A p \in Parsers : \A f \in Range(Contents[p].batch) :
            tree[p].status[f] = "none" /\ tree'[p].status[f] # "none" =>
                \A hdr \in Range(Contents[p].priority) :
                    tree[p].status[hdr] \in {"parsing", "done"}]_vars

\* The end is announced when nothing is left to do: no list, no task queued
\* or running, no file that is still to be marked as local ("Finish all task,
\* then we need post a PARSER_END event").
EndMeansDone ==
    [][\A p \in Parsers : parser[p].isParsing /\ ~parser'[p].isParsing /\ parser'[p].up =>
            Idle(p) /\ Done(p)']_vars

\* A file that is added, or added again, is parsed, or its parser deleted.
AddedIsParsed ==
    \A p \in Parsers : \A f \in Files : f \in wanted[p] ~> f \notin wanted[p]
=============================================================================
