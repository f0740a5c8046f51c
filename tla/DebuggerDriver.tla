--------------------------- MODULE DebuggerDriver ---------------------------
(***************************************************************************)
(* The debugger plugin: the editor's breakpoints (DebuggerState), the      *)
(* queue of commands of the driver (DebuggerDriver, GDB_driver), the       *)
(* commands that set breakpoints and evaluate tooltips (gdb_commands.h),   *)
(* and the session (DebuggerGDB).  GDB is a process at the other end of a  *)
(* pipe: it reads one command at a time and answers it with a text that    *)
(* ends in the prompt.  Every handler of the plugin runs to its end on the *)
(* GUI thread, so it is one action here; GDB and the debugged program move *)
(* between handlers.                                                       *)
(***************************************************************************)
EXTENDS Integers, Sequences, FiniteSets, SequencesExt

CONSTANTS
    CodeBps,    \* objects for breakpoints of a line
    DataBps,    \* objects for data breakpoints
    MaxLine,    \* lines of the one source file
    MaxClicks,  \* bound: what the user does in a behaviour
    Mishaps     \* what the environment may do beyond the ordinary

Bps == CodeBps \cup DataBps
Lines == 1..MaxLine

ASSUME DriverAssumption ==
    /\ IsFiniteSet(Bps) /\ CodeBps \cap DataBps = {}
    /\ MaxLine \in Nat \ {0} /\ MaxClicks \in Nat
    /\ Mishaps \subseteq
        { "haste",          \* a click while the last one is still being served
          "disable",        \* a breakpoint is disabled while GDB has it
          "unknown word",   \* a tooltip is asked for a word GDB does not know
          "refusal" }       \* GDB refuses the address of a data breakpoint

VARIABLES
    m_Breakpoints,  \* the editor's list, in order
    bp,             \* the fields of the breakpoint objects
    driver,         \* the driver with its queue and its end of the pipe
    m_pProcess,     \* the plugin holds GDB's process
    starting,       \* DoDebug is in the Yield loop after the launch
    gdb,            \* the GDB process
    events,         \* GDB's output and its end, posted to the GUI thread
    clicks          \* bound counter
vars == <<m_Breakpoints, bp, driver, m_pProcess, starting, gdb, events, clicks>>

NoBp == "no breakpoint"
Cmd(kind, b, arg) == [kind |-> kind, bp |-> b, arg |-> arg]
Plain(kind) == Cmd(kind, NoBp, 0)

\* Commands whose m_Cmd is empty: nothing is sent for them.
Empty == {"action", "untyped"}
Resuming == {"run", "cont", "next"}

IsStopped == ~driver.up \/ driver.m_ProgramIsStopped
-----------------------------------------------------------------------------
(* The queue: operators from a driver to the driver.                       *)

SendCommand(d, c) ==
    IF m_pProcess /\ d.m_ProgramIsStopped /\ d.open
    THEN [d EXCEPT !.stdin = Append(@, c)] ELSE d

\* Leading action-only commands are done and dropped on the way.
Pending(cmds) ==
    LET sendable == {i \in DOMAIN cmds : cmds[i].kind \notin Empty}
    IN  IF sendable = {} THEN <<>>
        ELSE SubSeq(cmds, CHOOSE i \in sendable : \A j \in sendable : i <= j, Len(cmds))

\* Mutant of RunQueue: the program counts as running before the command is sent.
RunQueueRunning(d) ==
    LET rest == Pending(d.m_DCmds)
        q == [d EXCEPT !.m_DCmds = rest]
    IN  IF d.m_QueueBusy \/ d.m_DCmds = <<>> THEN d
        ELSE IF rest = <<>> THEN q
        ELSE SendCommand([q EXCEPT !.m_QueueBusy = TRUE, !.m_ProgramIsStopped = FALSE], Head(rest))
RunQueue(d) ==
    LET rest == Pending(d.m_DCmds)
        q == [d EXCEPT !.m_DCmds = rest]
    IN  IF d.m_QueueBusy \/ d.m_DCmds = <<>> THEN d
        ELSE IF rest = <<>> THEN q
        ELSE [SendCommand([q EXCEPT !.m_QueueBusy = TRUE], Head(rest))
                EXCEPT !.m_ProgramIsStopped = FALSE]

\* Mutant of QueueLow: the command goes to the front.
QueueFront(d, c) == RunQueue([d EXCEPT !.m_DCmds = <<c>> \o @])
QueueLow(d, c)  == RunQueue([d EXCEPT !.m_DCmds = Append(@, c)])
QueueHigh(d, c) == RunQueue([d EXCEPT !.m_DCmds = <<c>> \o @])
QueueAll(d, cs) == FoldLeft(QueueLow, d, cs)

Continue(d) ==
    IF ~m_pProcess \/ ~d.up THEN d
    ELSE [QueueLow(d, Plain(IF d.m_IsStarted THEN "cont" ELSE "run"))
            EXCEPT !.m_IsStarted = TRUE]

\* SIGINT stays pending until the program runs.  (With an unknown child GDB
\* itself is signalled, and passes it on while the program runs.)
Break(g) == IF ~m_pProcess \/ IsStopped THEN g ELSE [g EXCEPT !.signal = TRUE]
-----------------------------------------------------------------------------
(* Breakpoints: operators from a state [list, bp, d] of the editor's       *)
(* breakpoints and the driver to the next one.                             *)

Here == [list |-> m_Breakpoints, bp |-> bp, d |-> driver]
Becomes(s) == /\ m_Breakpoints' = s.list
              /\ bp' = s.bp
              /\ driver' = s.d

GdbCmd_AddBreakpoint(b, o) ==
    Cmd(IF ~o.enabled THEN "action" ELSE IF b \in DataBps THEN "watch"
        ELSE IF o.temporary THEN "tbreak" ELSE "break", b, o.line)

\* Constructing the command already forgets the number of the breakpoint.
AddCommand(s, b, Queue(_, _)) ==
    [s EXCEPT !.bp[b].index = -1,
              !.bp[b].alreadySet = @ \/ s.bp[b].enabled,
              !.d = Queue(@, GdbCmd_AddBreakpoint(b, s.bp[b]))]

DriverAdd(s, b) ==
    IF ~s.d.up THEN s
    ELSE IF b \in CodeBps THEN AddCommand(s, b, QueueLow)
    ELSE [s EXCEPT !.d = QueueLow(@, Cmd(IF s.bp[b].enabled THEN "output" ELSE "action", b, 0))]

DriverRemove(s, b) ==
    IF ~s.d.up \/ s.bp[b].index = -1 THEN s
    ELSE [s EXCEPT !.d = QueueLow(@, Cmd(IF s.bp[b].enabled /\ s.bp[b].index >= 0
                                         THEN "delete" ELSE "action", b, s.bp[b].index))]

Unlisted(list, b) == RemoveAt(list, CHOOSE i \in DOMAIN list : list[i] = b)

StateRemove(s, b) ==
    IF ~Contains(s.list, b) THEN s
    ELSE DriverRemove([s EXCEPT !.list = Unlisted(@, b)], b)

\* m_BpAutoIndex only has to be positive and unlike GDB's numbers are not:
\* it is the number of breakpoints made since the indices were set up.
StateAdd(s, b) ==
    DriverAdd([s EXCEPT !.list = Append(@, b), !.bp[b].index = s.d.auto + 1,
                        !.d.auto = @ + 1], b)

HasBreakpoint(s, line) == {b \in Range(s.list) \cap CodeBps : s.bp[b].line = line}

Fresh == [line |-> 0, index |-> -1, temporary |-> FALSE, enabled |-> TRUE,
          alreadySet |-> FALSE, useCondition |-> FALSE, useIgnoreCount |-> FALSE]

AddAt(s, b, line, temp) ==
    LET old == HasBreakpoint(s, line)
        s1 == IF old = {} THEN s ELSE StateRemove(s, CHOOSE x \in old : TRUE)
    IN  StateAdd([s1 EXCEPT !.bp[b] = [Fresh EXCEPT !.line = line, !.temporary = temp]], b)

\* The loops over the list run from its end.
RemoveWhere(s, Doomed(_)) ==
    FoldLeft(LAMBDA t, b : IF Doomed(b) THEN StateRemove(t, b) ELSE t, s, Reverse(s.list))

\* Mutants of ShiftBreakpoints: the lines are counted twice; the driver is not
\* told to take the breakpoint out of its old line.
ShiftTwice(s, startline, lines) ==
    FoldLeft(LAMBDA t, b : IF b \notin CodeBps \/ t.bp[b].line < startline THEN t
                           ELSE DriverAdd([DriverRemove(t, b) EXCEPT !.bp[b].line = @ + 2 * lines], b),
             s, Reverse(s.list))
ShiftOnlyAdd(s, startline, lines) ==
    FoldLeft(LAMBDA t, b : IF b \notin CodeBps \/ t.bp[b].line < startline THEN t
                           ELSE DriverAdd([t EXCEPT !.bp[b].line = @ + lines], b),
             s, Reverse(s.list))
ShiftBreakpoints(s, startline, lines) ==
    FoldLeft(LAMBDA t, b : IF b \notin CodeBps \/ t.bp[b].line < startline THEN t
                           ELSE DriverAdd([DriverRemove(t, b) EXCEPT !.bp[b].line = @ + lines], b),
             s, Reverse(s.list))

\* RemoveBreakpoint(0) of the driver does nothing: see GDB_driver.
ApplyBreakpoints(s) ==
    LET Outdated(b) == s.bp[b].temporary /\ s.bp[b].alreadySet
        kept == FoldLeft(LAMBDA list, b : IF Outdated(b) THEN Unlisted(list, b) ELSE list,
                         s.list, Reverse(s.list))
    IN  FoldLeft(DriverAdd, [s EXCEPT !.list = kept], Reverse(kept))
-----------------------------------------------------------------------------
NoDriver == [up |-> FALSE, m_DCmds |-> <<>>, m_QueueBusy |-> FALSE,
             m_ProgramIsStopped |-> TRUE, m_IsStarted |-> FALSE,
             m_ChildPID |-> FALSE, auto |-> 0, stdin |-> <<>>, open |-> FALSE]

NoGdb == [state |-> "dead", trusted |-> FALSE, asked |-> Plain("none"),
          next |-> 1, bps |-> <<>>, signal |-> FALSE, killed |-> FALSE]

Init ==
    /\ m_Breakpoints = <<>>
    /\ bp = [b \in Bps |-> Fresh]
    /\ driver = NoDriver
    /\ m_pProcess = FALSE /\ starting = FALSE
    /\ gdb = NoGdb
    /\ events = <<>>
    /\ clicks = 0

Click == clicks < MaxClicks /\ clicks' = clicks + 1

(***************************************************************************)
(* The ordinary user touches breakpoints and runs the program when nothing *)
(* he asked for is outstanding, or when the program is running, its process*)
(* is known, and at most a refresh of the watches waits behind it.         *)
(***************************************************************************)
Calm ==
    \/ "haste" \in Mishaps
    \/ ~starting /\ ~driver.m_QueueBusy
    \/ /\ ~starting /\ driver.m_DCmds # <<>> /\ driver.m_ChildPID
       /\ Head(driver.m_DCmds).kind \in Resuming
       /\ \A i \in 2..Len(driver.m_DCmds) : driver.m_DCmds[i].kind \in {"info", "action"}

\* An object is new memory: neither listed nor meant by a queued command.
Unused(b) ==
    /\ b \notin Range(m_Breakpoints)
    /\ \A i \in DOMAIN driver.m_DCmds : driver.m_DCmds[i].bp # b

\* Breakpoints change while the program runs: interrupt it, and continue it.
Interrupted(s) ==
    /\ gdb' = Break(gdb)
    /\ Becomes(IF IsStopped THEN s ELSE [s EXCEPT !.d = Continue(@)])

AddBreakpoint(b, line) ==
    /\ Click /\ Calm /\ Unused(b)
    /\ \A x \in HasBreakpoint(Here, line) : bp[x].temporary
    /\ Interrupted(AddAt(Here, b, line, FALSE))
    /\ UNCHANGED <<m_pProcess, starting, events>>

RemoveBreakpoint(b) ==
    /\ Click /\ Calm
    /\ b \in Range(m_Breakpoints) \cap CodeBps /\ ~bp[b].temporary
    /\ Interrupted(StateRemove(Here, b))
    /\ UNCHANGED <<m_pProcess, starting, events>>

OnRemoveAllBreakpoints ==
    /\ Click /\ Calm /\ IsStopped /\ m_Breakpoints # <<>>
    /\ Becomes(FoldLeft(StateRemove, Here, m_Breakpoints))
    /\ UNCHANGED <<m_pProcess, starting, gdb, events>>

\* Data breakpoints come and go without an interruption.
AddDataBreakpoint(b) ==
    /\ Click /\ Calm /\ Unused(b)
    /\ Becomes(StateAdd([Here EXCEPT !.bp[b] = Fresh], b))
    /\ UNCHANGED <<m_pProcess, starting, gdb, events>>

RemoveDataBreakpoint(b) ==
    /\ Click /\ Calm /\ b \in Range(m_Breakpoints)
    /\ Becomes(StateRemove(Here, b))
    /\ UNCHANGED <<m_pProcess, starting, gdb, events>>

\* At most one of the two options: the dialog greys out the other.
OnBreakpointEdit(b, enabled, cond, ign) ==
    /\ Click /\ Calm /\ b \in Range(m_Breakpoints) \cap CodeBps
    /\ ~(cond /\ ign) /\ (enabled \/ (~cond /\ ~ign))
    /\ enabled \/ "disable" \in Mishaps \/ bp[b].index = -1 \/ ~driver.up
    /\ LET edited == [Here EXCEPT !.bp[b].enabled = enabled, !.bp[b].useCondition = cond,
                                  !.bp[b].useIgnoreCount = ign]
       IN  Becomes(StateAdd(StateRemove(edited, b), b))
    /\ UNCHANGED <<m_pProcess, starting, gdb, events>>

LinesRemoved(startline, lines) ==
    LET endline == startline + lines - 1
        Gone(b) == b \in CodeBps /\ bp[b].line \in startline..endline
    IN  /\ Click /\ Calm /\ endline <= MaxLine
        /\ Becomes(ShiftBreakpoints(RemoveWhere(Here, Gone), endline + 1, 0 - lines))
        /\ UNCHANGED <<m_pProcess, starting, gdb, events>>

LinesAdded(startline, lines) ==
    /\ Click /\ Calm
    /\ \A b \in Range(m_Breakpoints) : bp[b].line + lines <= MaxLine
    /\ Becomes(ShiftBreakpoints(Here, startline + 1, lines))
    /\ UNCHANGED <<m_pProcess, starting, gdb, events>>
-----------------------------------------------------------------------------
(* The session.                                                            *)

\* DoDebug up to the Yield loop: a new driver and a new process.
Launch(s) ==
    /\ m_Breakpoints' = s.list
    /\ bp' = [b \in Bps |-> IF Contains(s.list, b)
                            THEN [s.bp[b] EXCEPT !.index = CHOOSE i \in DOMAIN s.list : s.list[i] = b]
                            ELSE s.bp[b]]
    /\ driver' = [NoDriver EXCEPT !.up = TRUE, !.open = TRUE, !.auto = Len(s.list)]
    /\ m_pProcess' = TRUE /\ starting' = TRUE
    /\ gdb' = [NoGdb EXCEPT !.state = "prompt"]

CanDebug == ~m_pProcess /\ ~driver.up /\ ~starting

Debug ==
    /\ Click /\ CanDebug
    /\ Launch(Here)
    /\ UNCHANGED events

RunToCursor(b, line) ==
    /\ Click /\ Calm /\ IsStopped /\ Unused(b)
    /\ LET s == AddAt(Here, b, line, TRUE)
       IN  IF m_pProcess
           THEN Becomes([s EXCEPT !.d = Continue(@)]) /\ UNCHANGED <<m_pProcess, starting, gdb>>
           ELSE CanDebug /\ Launch(s)
    /\ UNCHANGED events

EndOfYield == starting /\ starting' = FALSE

\* The rest of DoDebug: Prepare, ApplyBreakpoints, Start.
FinishStart ==
    /\ EndOfYield
    /\ IF driver.up
       THEN LET prepared == [Here EXCEPT !.d = QueueAll(@, <<Plain("prompt"), Plain("catch")>>)]
                s == ApplyBreakpoints(prepared)
            IN  Becomes([s EXCEPT !.d = [QueueLow(@, Plain("run")) EXCEPT !.m_IsStarted = TRUE]])
       ELSE UNCHANGED <<m_Breakpoints, bp, driver>>
    /\ UNCHANGED <<m_pProcess, gdb, events, clicks>>

\* OnContinue and the stepping commands, enabled in a stopped session.
Resume(kind) ==
    /\ Click /\ Calm /\ m_pProcess /\ driver.up /\ IsStopped
    /\ driver' = IF kind = "cont" THEN Continue(driver) ELSE QueueLow(driver, Plain(kind))
    /\ UNCHANGED <<m_Breakpoints, bp, m_pProcess, starting, gdb, events>>

\* The mouse rests on a word: GDB is asked for its type first.
OnValueTooltip ==
    /\ Click /\ Calm /\ m_pProcess /\ driver.up /\ IsStopped
    /\ driver' = QueueLow(driver, Plain("whatis"))
    /\ UNCHANGED <<m_Breakpoints, bp, m_pProcess, starting, gdb, events>>

\* Stop(): a program that does not stop by itself is killed, GDB gets "quit"
\* and the end of its input.
Stop(d) ==
    IF ~m_pProcess THEN d
    ELSE [QueueLow(IF IsStopped THEN d ELSE [d EXCEPT !.open = FALSE], Plain("quit"))
            EXCEPT !.m_IsStarted = FALSE, !.open = FALSE]

\* The menu command pauses a running program and ends a stopped session.
OnStop ==
    /\ Click /\ m_pProcess /\ driver.up
    /\ \/ ~IsStopped /\ Calm /\ gdb' = Break(gdb) /\ UNCHANGED driver
       \/ IsStopped /\ driver' = Stop(driver) /\ UNCHANGED gdb
    /\ UNCHANGED <<m_Breakpoints, bp, m_pProcess, starting, events>>

\* The user activates another project: the session ends, program running or
\* not; with an unknown child it is refused.
\* Mutant of OnProjectActivated: the program is not killed.
OnlyClose ==
    /\ Click /\ m_pProcess /\ driver.up
    /\ IsStopped \/ driver.m_ChildPID
    /\ driver' = Stop(driver)
    /\ UNCHANGED <<m_Breakpoints, bp, m_pProcess, starting, gdb, events>>
OnProjectActivated ==
    /\ Click /\ m_pProcess /\ driver.up
    /\ IsStopped \/ driver.m_ChildPID
    /\ driver' = Stop(driver)
    /\ gdb' = IF IsStopped THEN gdb ELSE [gdb EXCEPT !.killed = TRUE]
    /\ UNCHANGED <<m_Breakpoints, bp, m_pProcess, starting, events>>
-----------------------------------------------------------------------------
(* What a command makes of the answer, whatever it was an answer to.       *)

\* Mutant of SetOptions: the options are queued at the end.
SetOptionsLater(s, b) ==
    LET kinds == {k \in {"condition", "ignore"} :
                    IF k = "ignore" THEN s.bp[b].useIgnoreCount ELSE s.bp[b].useCondition}
    IN  [s EXCEPT !.d = QueueAll(@, SetToSeq({Cmd(k, b, s.bp[b].index) : k \in kinds}))]
SetOptions(s, b) ==
    LET n == s.bp[b].index
        s1 == IF s.bp[b].useCondition
              THEN [s EXCEPT !.d = QueueHigh(@, Cmd("condition", b, n))] ELSE s
    IN  IF s.bp[b].useIgnoreCount
        THEN [s1 EXCEPT !.d = QueueHigh(@, Cmd("ignore", b, n))] ELSE s1

CmdParseOutput(c, ans, s) ==
    CASE c.kind \in {"break", "tbreak", "watch"} /\ ans.text = "breakpoint" ->
            SetOptions([s EXCEPT !.bp[c.bp].index = ans.number], c.bp)
      [] c.kind \in {"break", "tbreak", "watch"} /\ ans.text = "watchpoint" ->
            [s EXCEPT !.bp[c.bp].index = ans.number]
      [] c.kind = "output" /\ ans.text = "address" -> AddCommand(s, c.bp, QueueHigh)
      [] c.kind = "whatis" /\ ans.text # "unknown" ->
            [s EXCEPT !.d = QueueHigh(@, Plain("typed"))]
      [] c.kind = "whatis" /\ ans.text = "unknown" ->
            [s EXCEPT !.d = QueueHigh(QueueHigh(@, Plain("evaluate")), Plain("untyped"))]
      [] c.kind \in {"typed", "untyped"} -> [s EXCEPT !.d = QueueHigh(@, Plain("evaluate"))]
      [] OTHER -> s

\* The GUI loop takes the next posted event.
NextEvent == events # <<>> /\ events' = Tail(events)

\* Mutant of CommandAnswered: the next command is not sent.
CommandAnsweredOnly(ans) ==
    LET idle == [Here EXCEPT !.d.m_ProgramIsStopped = TRUE, !.d.m_QueueBusy = FALSE]
        parsed == CmdParseOutput(Head(driver.m_DCmds), ans,
                                 [idle EXCEPT !.d.m_DCmds = Tail(@)])
    IN  IF driver.m_DCmds = <<>> THEN idle
        ELSE parsed
\* GDB_driver::ParseOutput at a prompt: the current command takes the text,
\* and the next one is sent.
CommandAnswered(ans) ==
    LET idle == [Here EXCEPT !.d.m_ProgramIsStopped = TRUE, !.d.m_QueueBusy = FALSE]
        parsed == CmdParseOutput(Head(driver.m_DCmds), ans,
                                 [idle EXCEPT !.d.m_DCmds = Tail(@)])
    IN  IF driver.m_DCmds = <<>> THEN idle
        ELSE [parsed EXCEPT !.d = RunQueue(@)]

\* Then the text is read for what became of the program.  A changed cursor
\* refreshes the watches, which ends in an action-only command.
ProgramChanged(d, text, refresh) ==
    CASE text = "exited" -> [QueueLow(d, Plain("quit")) EXCEPT !.m_IsStarted = FALSE]
      [] text = "stopped" /\ refresh -> QueueAll(d, <<Plain("info"), Plain("action")>>)
      [] OTHER -> d

ParseAnswer(refresh) ==
    /\ NextEvent /\ Head(events).kind = "answer"
    /\ IF driver.up
       THEN Becomes([CommandAnswered(Head(events)) EXCEPT
                        !.d = ProgramChanged(@, Head(events).text, refresh)])
       ELSE UNCHANGED <<m_Breakpoints, bp, driver>>
    /\ UNCHANGED <<m_pProcess, starting, gdb, clicks>>

\* A line without a prompt that names the child process.
ParsePid ==
    /\ NextEvent /\ Head(events).kind = "pid"
    /\ driver' = [driver EXCEPT !.m_ChildPID = driver.up]
    /\ UNCHANGED <<m_Breakpoints, bp, m_pProcess, starting, gdb, clicks>>

OnGDBTerminated ==
    /\ NextEvent /\ Head(events).kind = "terminated"
    /\ driver' = NoDriver
    /\ UNCHANGED <<m_Breakpoints, bp, m_pProcess, starting, gdb, clicks>>

\* PipedProcess::OnTerminate: the output left is posted, then the end; the
\* plugin's pointer is cleared at once.
ProcessTerminates ==
    /\ m_pProcess /\ gdb.state = "dead"
    /\ m_pProcess' = FALSE
    /\ events' = Append(events, [kind |-> "terminated"])
    /\ UNCHANGED <<m_Breakpoints, bp, driver, starting, gdb, clicks>>
-----------------------------------------------------------------------------
(* GDB (external).                                                         *)

Answer(c, text, n) == [kind |-> "answer", to |-> c, text |-> text, number |-> n]

\* Only the prompt that "set prompt" asked for ends an answer.
Answers(g, c, text, n) ==
    events' = IF g.trusted THEN Append(events, Answer(c, text, n)) ELSE events

SetBreakpoint(g, c) ==
    [g EXCEPT !.next = @ + 1,
              !.bps = [n \in DOMAIN @ \cup {g.next} |->
                        IF n \in DOMAIN @ THEN @[n]
                        ELSE [at |-> c.arg, temp |-> c.kind = "tbreak",
                              cond |-> FALSE, ign |-> FALSE]]]

Without(f, n) == [m \in DOMAIN f \ {n} |-> f[m]]

GdbReads ==
    /\ gdb.state = "prompt" /\ driver.stdin # <<>>
    /\ driver' = [driver EXCEPT !.stdin = Tail(@)]

GdbExecute ==
    /\ GdbReads
    /\ LET c == Head(driver.stdin)
           known == c.arg \in DOMAIN gdb.bps
       IN  CASE c.kind \in {"break", "tbreak"} ->
                    gdb' = SetBreakpoint(gdb, c) /\ Answers(gdb, c, "breakpoint", gdb.next)
             [] c.kind = "watch" ->
                    gdb' = SetBreakpoint(gdb, c) /\ Answers(gdb, c, "watchpoint", gdb.next)
             [] c.kind = "delete" ->
                    gdb' = [gdb EXCEPT !.bps = Without(@, c.arg)] /\ Answers(gdb, c, "done", 0)
             [] c.kind = "condition" ->
                    /\ gdb' = IF known THEN [gdb EXCEPT !.bps[c.arg].cond = TRUE] ELSE gdb
                    /\ Answers(gdb, c, "done", 0)
             [] c.kind = "ignore" ->
                    /\ gdb' = IF known THEN [gdb EXCEPT !.bps[c.arg].ign = TRUE] ELSE gdb
                    /\ Answers(gdb, c, "done", 0)
             [] c.kind = "output" ->
                    /\ UNCHANGED gdb
                    /\ \E text \in {"address"} \cup
                                    (IF "refusal" \in Mishaps THEN {"refused"} ELSE {}) :
                            Answers(gdb, c, text, 0)
             [] c.kind = "whatis" ->
                    /\ UNCHANGED gdb
                    /\ \E text \in {"type"} \cup
                                    (IF "unknown word" \in Mishaps THEN {"unknown"} ELSE {}) :
                            Answers(gdb, c, text, 0)
             [] c.kind = "prompt" ->
                    gdb' = [gdb EXCEPT !.trusted = TRUE] /\ Answers(gdb', c, "done", 0)
             [] c.kind = "catch" ->
                    gdb' = [gdb EXCEPT !.next = @ + 1] /\ Answers(gdb, c, "catchpoint", 0)
             [] c.kind \in Resuming ->
                    /\ gdb' = [gdb EXCEPT !.state = "program", !.asked = c]
                    /\ events' = IF c.kind = "run" THEN Append(events, [kind |-> "pid"]) ELSE events
             [] c.kind = "quit" -> gdb' = [gdb EXCEPT !.state = "dead"] /\ UNCHANGED events
             [] OTHER -> UNCHANGED gdb /\ Answers(gdb, c, "done", 0)
    /\ UNCHANGED <<m_Breakpoints, bp, m_pProcess, starting, clicks>>

\* The program stops of itself: at a breakpoint, after a step, at its end.  A
\* temporary breakpoint that is hit is gone.
ProgramStops ==
    /\ gdb.state = "program" /\ ~gdb.killed
    /\ \/ /\ gdb' = [gdb EXCEPT !.state = "prompt"]
          /\ \E text \in {"stopped", "exited"} : Answers(gdb, gdb.asked, text, 0)
       \/ \E n \in DOMAIN gdb.bps :
            /\ gdb.bps[n].temp
            /\ gdb' = [gdb EXCEPT !.state = "prompt", !.bps = Without(@, n)]
            /\ Answers(gdb, gdb.asked, "stopped", 0)
    /\ UNCHANGED <<m_Breakpoints, bp, driver, m_pProcess, starting, clicks>>

\* SIGINT or SIGKILL reaches the program.
ProgramSignalled ==
    /\ gdb.state = "program" /\ (gdb.signal \/ gdb.killed)
    /\ gdb' = [gdb EXCEPT !.state = "prompt", !.signal = FALSE]
    /\ Answers(gdb, gdb.asked, IF gdb.killed THEN "killed" ELSE "stopped", 0)
    /\ UNCHANGED <<m_Breakpoints, bp, driver, m_pProcess, starting, clicks>>

GdbEndOfInput ==
    /\ gdb.state = "prompt" /\ driver.stdin = <<>> /\ ~driver.open
    /\ gdb' = [gdb EXCEPT !.state = "dead"]
    /\ UNCHANGED <<m_Breakpoints, bp, driver, m_pProcess, starting, events, clicks>>

\* GDB may fail to start: it ends in the Yield loop of DoDebug.
GdbFailsToStart ==
    /\ starting /\ gdb.state = "prompt" /\ ~gdb.trusted
    /\ gdb' = [gdb EXCEPT !.state = "dead"]
    /\ UNCHANGED <<m_Breakpoints, bp, driver, m_pProcess, starting, events, clicks>>
-----------------------------------------------------------------------------
Options == {<<FALSE, FALSE>>, <<TRUE, FALSE>>, <<FALSE, TRUE>>}

User ==
    \/ \E b \in CodeBps, line \in Lines : AddBreakpoint(b, line) \/ RunToCursor(b, line)
    \/ \E b \in CodeBps : RemoveBreakpoint(b)
    \/ \E b \in CodeBps, enabled \in BOOLEAN, o \in Options : OnBreakpointEdit(b, enabled, o[1], o[2])
    \/ \E b \in DataBps : AddDataBreakpoint(b) \/ RemoveDataBreakpoint(b)
    \/ OnRemoveAllBreakpoints
    \/ \E startline \in Lines : LinesRemoved(startline, 1)
    \/ \E startline \in 0..MaxLine : LinesAdded(startline, 1)
    \/ Debug
    \/ \E kind \in {"cont", "next"} : Resume(kind)
    \/ OnValueTooltip
    \/ OnStop
    \/ OnProjectActivated

Parse == \E refresh \in BOOLEAN : ParseAnswer(refresh)

Gdb == GdbExecute \/ ProgramSignalled \/ GdbEndOfInput

Next ==
    \/ User
    \/ FinishStart
    \/ Parse \/ ParsePid \/ OnGDBTerminated \/ ProcessTerminates
    \/ Gdb \/ ProgramStops \/ GdbFailsToStart

\* The GUI loop runs, GDB reads and answers, signals arrive.  Nothing is said
\* of the debugged program: it may run for ever.  (The first three are parts of
\* the actions below: whenever one is enabled, so is the action it is part of.)
Fairness ==
    /\ WF_starting(EndOfYield)
    /\ WF_events(NextEvent)
    /\ WF_driver(GdbReads)
    /\ WF_vars(ProcessTerminates) /\ WF_vars(ProgramSignalled)
    /\ WF_vars(GdbEndOfInput)

Spec == Init /\ [][Next]_vars
FairSpec == Spec /\ Fairness
-----------------------------------------------------------------------------
Kinds == {"none", "action", "untyped", "prompt", "catch", "run", "cont", "next", "quit",
          "info", "break", "tbreak", "watch", "delete", "condition", "ignore", "output",
          "whatis", "typed", "evaluate"}
Commands == [kind : Kinds, bp : Bps \cup {NoBp}, arg : Int]

\* Type invariant.
TypeOK ==
    /\ m_Breakpoints \in Seq(Bps)
    /\ \A b \in Bps : bp[b].line \in 0..MaxLine /\ bp[b].index \in Int
    /\ driver.m_DCmds \in Seq(Commands) /\ driver.stdin \in Seq(Commands)
    /\ \A f \in {"up", "m_QueueBusy", "m_ProgramIsStopped", "m_IsStarted", "m_ChildPID", "open"} :
            driver[f] \in BOOLEAN
    /\ m_pProcess \in BOOLEAN /\ starting \in BOOLEAN
    /\ gdb.state \in {"prompt", "program", "dead"}
    /\ clicks \in 0..MaxClicks

\* Commands that were sent and whose answer was not parsed yet.
Outstanding ==
    FoldLeft(LAMBDA asked, e : IF e.kind = "answer" THEN Append(asked, e.to) ELSE asked,
             <<>>, events)
    \o (IF gdb.state = "program" THEN <<gdb.asked>> ELSE <<>>)
    \o driver.stdin

(***************************************************************************)
(* The text GDB gives next is the answer to the command at the head of the *)
(* queue, the one whose ParseOutput will read it (debugger_defs.h: "the    *)
(* output argument to ParseOutput() contains the full debugger response to *)
(* the command given").                                                    *)
(***************************************************************************)
AnswerToAsker ==
    driver.up /\ Outstanding # <<>> =>
        driver.m_DCmds # <<>> /\ Head(driver.m_DCmds) = Head(Outstanding)

(***************************************************************************)
(* While the pipe is open, the queue is busy exactly when GDB owes one     *)
(* answer, and the program counts as stopped exactly when it owes none: no *)
(* command is dropped by SendCommand and none is sent ahead of its turn.   *)
(***************************************************************************)
BusyMeansAsked ==
    driver.up /\ driver.open /\ gdb.state # "dead" =>
        /\ driver.m_QueueBusy <=> Len(Outstanding) = 1
        /\ Len(Outstanding) <= 1
        /\ driver.m_ProgramIsStopped <=> ~driver.m_QueueBusy
        /\ ~driver.m_QueueBusy => driver.m_DCmds = <<>>

BreakpointWork ==
    \E i \in DOMAIN driver.m_DCmds :
        driver.m_DCmds[i].kind \in {"break", "tbreak", "output", "watch", "delete", "condition", "ignore"}

\* What GDB holds and what the editor shows, by GDB's number.
InGdb == {<<n, gdb.bps[n].at, gdb.bps[n].cond, gdb.bps[n].ign>> :
            n \in {m \in DOMAIN gdb.bps : ~gdb.bps[m].temp}}
InEditor == {<<bp[b].index, bp[b].line, bp[b].useCondition, bp[b].useIgnoreCount>> :
            b \in {x \in Range(m_Breakpoints) : bp[x].enabled /\ ~bp[x].temporary}}
TempsKnown ==
    \A n \in DOMAIN gdb.bps : gdb.bps[n].temp =>
        \E b \in Range(m_Breakpoints) : bp[b].index = n /\ bp[b].line = gdb.bps[n].at
Agree == InGdb = InEditor /\ TempsKnown

(***************************************************************************)
(* With nothing left to do in an open session, GDB has the breakpoints of  *)
(* the editor under the numbers the editor knows them by, on their lines   *)
(* and with their condition or ignore count, and no other one.             *)
(***************************************************************************)
BreakpointsAgree ==
    driver.up /\ driver.open /\ gdb.state = "prompt" /\ ~starting
        /\ ~driver.m_QueueBusy /\ events = <<>> => Agree

(***************************************************************************)
(* The program is never let run on breakpoints that are not the editor's:  *)
(* when "run", "cont" or "next" is sent, every change made before has been *)
(* carried out by GDB, the conditions and ignore counts, which are queued  *)
(* only when a breakpoint's number is known, included.                     *)
(***************************************************************************)
ArmedWhenRun ==
    [][Len(driver'.stdin) > Len(driver.stdin)
        /\ Last(driver'.stdin).kind \in Resuming => Agree']_vars

(***************************************************************************)
(* A click that interrupts the running program is carried out: the changes *)
(* it queued behind the run reach GDB and are answered.                    *)
(***************************************************************************)
ClickServed ==
    (driver.up /\ gdb.signal /\ BreakpointWork) ~> (~driver.up \/ ~BreakpointWork)

\* A session that was told to stop ends: the driver and its queue go away.
SessionEnds == (driver.up /\ ~driver.open) ~> ~driver.up

(***************************************************************************)
(* A breakpoint the user has disabled is not in GDB once the queue is      *)
(* empty (gdb_commands.h, GdbCmd_RemoveBreakpoint: "bp The breakpoint to   *)
(* remove").                                                               *)
(***************************************************************************)
DisabledIsOut ==
    driver.up /\ driver.open /\ gdb.state = "prompt" /\ ~starting
        /\ ~driver.m_QueueBusy /\ events = <<>> =>
        \A b \in Range(m_Breakpoints) \cap CodeBps :
            ~bp[b].enabled => \A n \in DOMAIN gdb.bps : gdb.bps[n].at # bp[b].line
=============================================================================
