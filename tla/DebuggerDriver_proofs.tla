----------------------- MODULE DebuggerDriver_proofs -----------------------
(***************************************************************************)
(* Proofs about DebuggerDriver, for every set of breakpoints, every length *)
(* of the file and any number of clicks: the types; the answer GDB gives   *)
(* next is read by the command it answers; the queue is busy exactly while *)
(* GDB owes an answer; and GDB has the breakpoints of the editor whenever  *)
(* nothing is left to do, above all when the program is let run.           *)
(*                                                                         *)
(* A command travels from the head of the queue into the pipe, to GDB, to  *)
(* the program it lets run, and comes back as a posted answer.  The        *)
(* invariant says that it is in one of these places at a time and is still *)
(* the head of the queue: Queue.  That GDB does answer rests on "set       *)
(* prompt" being the first command of a session: Owed.  That nothing of    *)
(* one session reaches the next rests on the end of the process being the  *)
(* last event: Life.                                                       *)
(*                                                                         *)
(* The second half, on the breakpoints, relates what the editor shows, what*)
(* the queue still asks of GDB, the numbers that GDB has given and nobody  *)
(* has read, and what GDB has: Fits, in BpInv.                             *)
(***************************************************************************)
EXTENDS DebuggerDriver, TLAPS

(* What the theorems assume, each the absence of one mishap.               *)
KnownWords == "unknown word" \notin Mishaps
Patient == "haste" \notin Mishaps

(* Types.                                                                   *)
Queueable == {c \in Commands : c.kind \in {"break", "tbreak", "watch", "output"} => c.bp \in Bps}

Fields == {f \in [line : 0..MaxLine, index : Int, temporary : BOOLEAN, enabled : BOOLEAN,
                  alreadySet : BOOLEAN, useCondition : BOOLEAN, useIgnoreCount : BOOLEAN] :
              ~(f.useCondition /\ f.useIgnoreCount)}

Drivers == [up : BOOLEAN, m_DCmds : Seq(Queueable), m_QueueBusy : BOOLEAN,
            m_ProgramIsStopped : BOOLEAN, m_IsStarted : BOOLEAN, m_ChildPID : BOOLEAN,
            auto : Nat, stdin : Seq(Queueable), open : BOOLEAN]

IsGdb(g) ==
    /\ g = [state |-> g.state, trusted |-> g.trusted, asked |-> g.asked, next |-> g.next,
            bps |-> g.bps, signal |-> g.signal, killed |-> g.killed]
    /\ g.state \in {"prompt", "program", "dead"}
    /\ g.trusted \in BOOLEAN
    /\ g.asked \in Queueable
    /\ g.next \in Nat

Texts == {"breakpoint", "watchpoint", "done", "address", "refused", "type", "unknown",
          "catchpoint", "stopped", "exited", "killed"}
Answered == {a \in [kind : {"answer"}, to : Queueable, text : Texts, number : Int] :
                a.text = "unknown" => ~KnownWords}
Posted == Answered \cup [kind : {"pid", "terminated"}]

Distinct(list) == \A i, j \in DOMAIN list : list[i] = list[j] => i = j
Lists == {list \in Seq(Bps) : Distinct(list)}

Types ==
    /\ m_Breakpoints \in Lists
    /\ bp \in [Bps -> Fields]
    /\ driver \in Drivers
    /\ m_pProcess \in BOOLEAN /\ starting \in BOOLEAN
    /\ IsGdb(gdb)
    /\ events \in Seq(Posted)
    /\ clicks \in 0..MaxClicks

(* The life of a session.                                                   *)
Terminated == {i \in DOMAIN events : events[i].kind = "terminated"}
Life ==
    /\ m_pProcess => driver.up /\ Terminated = {}
    /\ ~m_pProcess => gdb.state = "dead"
    /\ ~m_pProcess /\ driver.up => events # <<>> /\ Terminated = {Len(events)}
    /\ ~driver.up => events = <<>> /\ ~driver.m_QueueBusy /\ driver.stdin = <<>>

(* The queue and what GDB owes.                                             *)
AnswerAt == {i \in DOMAIN events : events[i].kind = "answer"}
Asked(c) == driver.m_QueueBusy /\ (KnownWords => Head(driver.m_DCmds) = c)

Queue ==
    /\ driver.m_QueueBusy = ~driver.m_ProgramIsStopped
    /\ ~driver.m_QueueBusy <=> driver.m_DCmds = <<>>
    /\ \A i \in AnswerAt : Asked(events[i].to) /\ AnswerAt = {i}
    /\ AnswerAt # {} => gdb.state # "program" /\ driver.stdin = <<>>
    /\ gdb.state = "program" => Asked(gdb.asked) /\ driver.stdin = <<>>
    /\ driver.stdin # <<>> => driver.stdin = <<Head(driver.stdin)>> /\ Asked(Head(driver.stdin))

(* GDB owes an answer whenever the queue is busy.                           *)
Answering ==
    Patient /\ driver.up /\ driver.open /\ gdb.state # "dead" /\ driver.m_QueueBusy =>
        AnswerAt # {} \/ gdb.state = "program" \/ driver.stdin # <<>>

(* It does not answer before "set prompt": that is the first command.       *)
PromptFirst ==
    Patient /\ driver.up /\ driver.open /\ gdb.state # "dead" /\ ~gdb.trusted =>
        /\ starting => ~driver.m_QueueBusy
        /\ ~starting => driver.stdin = <<Plain("prompt")>>

Owed == Answering /\ PromptFirst

(* The inductive invariant.                                                 *)
IInv == Types /\ Life /\ Queue /\ Owed
-----------------------------------------------------------------------------
(* Drivers.                                                                *)

(* Between the commands: one is being answered, or nothing is queued.      *)
Good(d) ==
    /\ d \in Drivers
    /\ d.m_QueueBusy = ~d.m_ProgramIsStopped
    /\ ~d.m_QueueBusy <=> d.m_DCmds = <<>>
    /\ ~d.m_QueueBusy => d.stdin = <<>>
    /\ ~d.up => ~d.m_QueueBusy

(* The head of the queue was sent to a pipe that was empty.                *)
Sent(e) ==
    IF m_pProcess /\ e.open
    THEN /\ e.stdin # <<>> /\ e.stdin = <<Head(e.stdin)>>
         /\ KnownWords => Head(e.stdin) = Head(e.m_DCmds)
    ELSE e.stdin = <<>>

(* After an answer: idle with an empty pipe, or the next command was sent. *)
Ready(e) ==
    /\ e \in Drivers
    /\ e.m_QueueBusy = ~e.m_ProgramIsStopped
    /\ IF e.m_QueueBusy THEN e.m_DCmds # <<>> /\ Sent(e) ELSE e.stdin = <<>>

(* What queueing commands makes of a driver.                               *)
Later(d, e) ==
    /\ Good(e) /\ e.up = d.up /\ e.open = d.open
    /\ IF d.m_QueueBusy
       THEN e.m_QueueBusy /\ e.stdin = d.stdin /\ Head(e.m_DCmds) = Head(d.m_DCmds)
       ELSE Ready(e)

(* What the folds of the model do with each element.  The two parameters    *)
(* stand for what the folded operator takes from its surroundings.          *)
LowOp(p, q, d, c) == QueueLow(d, c)
DropOp(s, q, list, b) ==
    IF s.bp[b].temporary /\ s.bp[b].alreadySet THEN Unlisted(list, b) ELSE list
AddOp(p, q, t, b) == DriverAdd(t, b)
RemoveOp(p, q, t, b) == StateRemove(t, b)
GoneOp(first, last, t, b) ==
    IF b \in CodeBps /\ bp[b].line \in first..last THEN StateRemove(t, b) ELSE t
ShiftOp(startline, lines, t, b) ==
    IF b \notin CodeBps \/ t.bp[b].line < startline THEN t
    ELSE DriverAdd([DriverRemove(t, b) EXCEPT !.bp[b].line = @ + lines], b)

AskedOp(p, q, asked, e) == IF e.kind = "answer" THEN Append(asked, e.to) ELSE asked

Asking == INSTANCE FoldLemmas WITH op <- AskedOp
Low == INSTANCE FoldLemmas WITH op <- LowOp
Dropping == INSTANCE FoldLemmas WITH op <- DropOp
Adding == INSTANCE FoldLemmas WITH op <- AddOp
Removing == INSTANCE FoldLemmas WITH op <- RemoveOp
Going == INSTANCE FoldLemmas WITH op <- GoneOp
Shifting == INSTANCE FoldLemmas WITH op <- ShiftOp

(* The loops of the model are the folds of FoldLemmas.                      *)
LEMMA TheFolds ==
  /\ \A d, cs : QueueAll(d, cs) = Low!Fold(0, 0, d, cs)
  /\ \A s, list : FoldLeft(StateRemove, s, list) = Removing!Fold(0, 0, s, list)
  /\ \A s, startline, lines :
        ShiftBreakpoints(s, startline, lines) = Shifting!Fold(startline, lines, s, Reverse(s.list))
  /\ \A s : LET kept == Dropping!Fold(s, 0, s.list, Reverse(s.list))
            IN  ApplyBreakpoints(s) = Adding!Fold(0, 0, [s EXCEPT !.list = kept], Reverse(kept))
<1>1. \A d, cs : QueueAll(d, cs) = Low!Fold(0, 0, d, cs)
  BY DEF QueueAll, FoldLeft, MapThenFoldSet, Max, Low!Fold, Low!Top, LowOp
<1>2. \A s, list : FoldLeft(StateRemove, s, list) = Removing!Fold(0, 0, s, list)
  BY DEF FoldLeft, MapThenFoldSet, Max, Removing!Fold, Removing!Top, RemoveOp
<1>4. \A s, startline, lines :
        ShiftBreakpoints(s, startline, lines) = Shifting!Fold(startline, lines, s, Reverse(s.list))
  BY DEF ShiftBreakpoints, FoldLeft, MapThenFoldSet, Max, Shifting!Fold, Shifting!Top, ShiftOp
<1>5. ASSUME NEW s
      PROVE  LET kept == Dropping!Fold(s, 0, s.list, Reverse(s.list))
             IN  ApplyBreakpoints(s) = Adding!Fold(0, 0, [s EXCEPT !.list = kept], Reverse(kept))
  BY DEF ApplyBreakpoints, FoldLeft, MapThenFoldSet, Max, Dropping!Fold, Dropping!Top, DropOp,
         Adding!Fold, Adding!Top, AddOp
<1> QED
  BY <1>1, <1>2, <1>4, <1>5

(* RunQueue drops the leading commands without a text, and only them.       *)
LEMMA PendingTyped ==
  ASSUME NEW cmds \in Seq(Queueable)
  PROVE  /\ Pending(cmds) \in Seq(Queueable)
         /\ cmds # <<>> /\ cmds[1].kind \notin Empty => Pending(cmds) # <<>> /\ Head(Pending(cmds)) = cmds[1]
<1> DEFINE sendable == {i \in DOMAIN cmds : cmds[i].kind \notin Empty}
           first == CHOOSE i \in sendable : \A j \in sendable : i <= j
<1>1. CASE sendable = {}
  <2>1. Pending(cmds) = <<>>
    BY <1>1 DEF Pending
  <2> QED
    BY <1>1, <2>1
<1>2. CASE sendable # {}
  <2>1. \E i \in sendable : \A j \in sendable : i <= j
    <3>1. sendable \in SUBSET Nat
      OBVIOUS
    <3> QED
      BY <1>2, <3>1, Low!Least
  <2>2. first \in sendable /\ \A j \in sendable : first <= j
    BY <2>1
  <2>3. Pending(cmds) = SubSeq(cmds, first, Len(cmds))
    BY <1>2 DEF Pending
  <2> HIDE DEF first
  <2>4. first \in 1..Len(cmds)
    BY <2>2
  <2>5. SubSeq(cmds, first, Len(cmds)) \in Seq(Queueable)
    BY <2>4
  <2>6. ASSUME cmds # <<>>, cmds[1].kind \notin Empty
        PROVE  Pending(cmds) # <<>> /\ Head(Pending(cmds)) = cmds[1]
    <3>1. 1 \in sendable
      BY <2>6
    <3>2. first = 1
      BY <2>2, <2>4, <3>1
    <3> QED
      BY <2>3, <2>6, <3>2
  <2> QED
    BY <2>3, <2>5, <2>6
<1> QED
  BY <1>1, <1>2

(* RunQueue on an idle driver sends the first command that has a text, or   *)
(* leaves nothing queued.                                                   *)
LEMMA RunQueueReady ==
  ASSUME NEW d, Ready(d), d.up = TRUE
  PROVE  LET e == RunQueue(d)
         IN  /\ Ready(e) /\ Good(e) /\ e.up = d.up /\ e.open = d.open
             /\ d.m_QueueBusy => e = d
             /\ ~d.m_QueueBusy /\ d.m_DCmds # <<>> /\ d.m_DCmds[1].kind \notin Empty =>
                    /\ e.m_QueueBusy /\ Head(e.m_DCmds) = d.m_DCmds[1]
                    /\ m_pProcess /\ d.open => e.stdin = <<d.m_DCmds[1]>>
<1> DEFINE rest == Pending(d.m_DCmds)
           e == RunQueue(d)
<1>1. d \in Drivers /\ rest \in Seq(Queueable)
  BY PendingTyped DEF Ready, Drivers
<1>2. d.m_DCmds # <<>> /\ d.m_DCmds[1].kind \notin Empty => rest # <<>> /\ Head(rest) = d.m_DCmds[1]
  BY PendingTyped DEF Ready, Drivers
<1>3. CASE d.m_QueueBusy \/ d.m_DCmds = <<>>
  BY <1>1, <1>3 DEF RunQueue, Ready, Good, Drivers
<1>4. CASE ~d.m_QueueBusy /\ d.m_DCmds # <<>> /\ rest = <<>>
  <2>1. e = [d EXCEPT !.m_DCmds = rest]
    BY <1>4 DEF RunQueue
  <2> HIDE DEF rest, e
  <2> QED
    BY <1>1, <1>2, <1>4, <2>1 DEF Ready, Good, Drivers, e, rest
<1>5. CASE ~d.m_QueueBusy /\ d.m_DCmds # <<>> /\ rest # <<>>
  <2> DEFINE q == [d EXCEPT !.m_DCmds = rest, !.m_QueueBusy = TRUE]
  <2>1. e = [SendCommand(q, Head(rest)) EXCEPT !.m_ProgramIsStopped = FALSE]
    BY <1>1, <1>5 DEF RunQueue, Drivers
  <2>2. Head(rest) \in Queueable
    BY <1>1, <1>5
  <2>3. d.stdin = <<>> /\ d.m_ProgramIsStopped
    BY <1>5 DEF Ready, Drivers
  <2> DEFINE sent == IF m_pProcess /\ d.open THEN <<Head(rest)>> ELSE <<>>
  <2> HIDE DEF rest
  <2>a. SendCommand(q, Head(rest)) = [q EXCEPT !.stdin = sent]
    <3>1. q.m_ProgramIsStopped /\ q.open = d.open /\ q.stdin = <<>>
      BY <1>1, <2>3 DEF Drivers
    <3>2. Append(<<>>, Head(rest)) = <<Head(rest)>>
      OBVIOUS
    <3>3. CASE m_pProcess /\ d.open
      <4>1. SendCommand(q, Head(rest)) = [q EXCEPT !.stdin = Append(q.stdin, Head(rest))]
        BY <1>1, <3>1, <3>3 DEF SendCommand
      <4> QED
        BY <3>1, <3>2, <3>3, <4>1
    <3>4. CASE ~(m_pProcess /\ d.open)
      <4>1. SendCommand(q, Head(rest)) = q
        BY <3>1, <3>4 DEF SendCommand
      <4>2. q \in [{"up", "m_DCmds", "m_QueueBusy", "m_ProgramIsStopped", "m_IsStarted",
                    "m_ChildPID", "auto", "stdin", "open"} -> {q[x] : x \in DOMAIN q}]
        BY <1>1, ZenonT(30) DEF Drivers
      <4> QED
        BY <1>1, <3>1, <3>4, <4>1, <4>2 DEF Drivers
    <3> QED
      BY <3>3, <3>4
  <2>4. e = [d EXCEPT !.m_DCmds = rest, !.m_QueueBusy = TRUE, !.m_ProgramIsStopped = FALSE,
                      !.stdin = sent]
    BY <1>1, <2>1, <2>a DEF Drivers
  <2>b. sent \in Seq(Queueable) /\ (m_pProcess /\ d.open => sent # <<>> /\ Head(sent) = Head(rest))
    BY <2>2
  <2>d. sent = IF m_pProcess /\ d.open THEN <<Head(rest)>> ELSE <<>>
    OBVIOUS
  <2> HIDE DEF e, sent
  <2>5. e \in Drivers
    BY <1>1, <2>b, <2>4 DEF Drivers
  <2>6. /\ e.m_DCmds = rest /\ e.m_QueueBusy = TRUE /\ e.m_ProgramIsStopped = FALSE
        /\ e.stdin = sent /\ e.open = d.open /\ e.up = d.up
    BY <1>1, <2>4 DEF Drivers
  <2>7. Sent(e)
    BY <2>b, <2>d, <2>6 DEF Sent
  <2>8. rest # <<>>
    BY <1>5 DEF rest
  <2>9. e.m_QueueBusy = ~e.m_ProgramIsStopped
    BY <2>6
  <2>10. Ready(e) /\ Good(e)
    BY <2>5, <2>6, <2>7, <2>8, <2>9 DEF Ready, Good
  <2>11. d.m_DCmds # <<>> /\ d.m_DCmds[1].kind \notin Empty => Head(e.m_DCmds) = d.m_DCmds[1]
    BY <1>2, <2>6 DEF rest
  <2>12. d.m_DCmds # <<>> /\ d.m_DCmds[1].kind \notin Empty /\ m_pProcess /\ d.open =>
            e.stdin = <<d.m_DCmds[1]>>
    BY <1>2, <2>d, <2>6 DEF rest
  <2> QED
    BY <1>5, <2>6, <2>10, <2>11, <2>12 DEF e
<1> QED
  BY <1>3, <1>4, <1>5

(* QueueCommand on a busy driver only adds to the end of the queue; on an   *)
(* idle one the command is sent.                                            *)
LEMMA QueueLowLater ==
  ASSUME NEW d, NEW e, Later(d, e), e.up, NEW c \in Queueable
  PROVE  /\ Later(d, QueueLow(e, c))
         /\ ~e.m_QueueBusy /\ c.kind \notin Empty =>
                /\ QueueLow(e, c).m_QueueBusy /\ Head(QueueLow(e, c).m_DCmds) = c
                /\ m_pProcess /\ e.open => QueueLow(e, c).stdin = <<c>>
<1> DEFINE f == [e EXCEPT !.m_DCmds = Append(@, c)]
<1>1. e \in Drivers /\ Good(e)
  BY DEF Later, Good
<1>2. f \in Drivers
  <2>1. e.m_DCmds \in Seq(Queueable)
    BY <1>1 DEF Drivers
  <2>2. Append(e.m_DCmds, c) \in Seq(Queueable)
    BY <2>1
  <2>3. f = [e EXCEPT !.m_DCmds = Append(e.m_DCmds, c)]
    BY <1>1 DEF Drivers
  <2> HIDE DEF f
  <2> QED
    BY <1>1, <2>2, <2>3 DEF Drivers
<1>3. f.m_DCmds = Append(e.m_DCmds, c) /\ f.m_DCmds # <<>>
  BY <1>1 DEF Drivers
<1>4. CASE e.m_QueueBusy
  <2>1. QueueLow(e, c) = f
    BY <1>1, <1>4 DEF QueueLow, RunQueue, Drivers
  <2>2. e.m_DCmds # <<>>
    BY <1>4 DEF Later, Good
  <2>3. Head(f.m_DCmds) = Head(e.m_DCmds)
    BY <1>1, <1>3, <2>2 DEF Drivers
  <2>4. /\ f.m_QueueBusy /\ f.m_QueueBusy = ~f.m_ProgramIsStopped /\ f.stdin = e.stdin
        /\ f.up = e.up /\ f.open = e.open
    BY <1>1, <1>4 DEF Drivers, Good
  <2> HIDE DEF f
  <2> QED
    BY <1>2, <1>3, <1>4, <2>1, <2>3, <2>4 DEF Later, Good, Ready, Sent
<1>5. CASE ~e.m_QueueBusy
  <2>1. f.m_DCmds = <<c>> /\ f.m_DCmds[1] = c /\ ~f.m_QueueBusy
    <3>1. e.m_DCmds = <<>> /\ f.m_QueueBusy = e.m_QueueBusy
      BY <1>1, <1>5 DEF Good, Drivers
    <3> HIDE DEF f
    <3> QED
      BY <1>3, <1>5, <3>1
  <2>2. ~d.m_QueueBusy
    BY <1>5 DEF Later
  <2>3. Ready(f) /\ f.up = e.up /\ f.open = e.open
    BY <1>1, <1>2, <1>5 DEF Good, Ready, Drivers
  <2>4. QueueLow(e, c) = RunQueue(f)
    BY DEF QueueLow
  <2>a. f.up = TRUE
    BY <1>1 DEF Drivers
  <2> HIDE DEF f
  <2>5. /\ Ready(RunQueue(f)) /\ Good(RunQueue(f))
        /\ RunQueue(f).up = f.up /\ RunQueue(f).open = f.open
        /\ c.kind \notin Empty => RunQueue(f).m_QueueBusy /\ Head(RunQueue(f).m_DCmds) = c
        /\ c.kind \notin Empty /\ m_pProcess /\ f.open => RunQueue(f).stdin = <<c>>
    <3>1. /\ Ready(RunQueue(f)) /\ Good(RunQueue(f))
          /\ RunQueue(f).up = f.up /\ RunQueue(f).open = f.open
      BY <2>3, <2>a, RunQueueReady
    <3>2. ~f.m_QueueBusy /\ f.m_DCmds # <<>> /\ f.m_DCmds[1].kind \notin Empty =>
                /\ RunQueue(f).m_QueueBusy /\ Head(RunQueue(f).m_DCmds) = f.m_DCmds[1]
                /\ m_pProcess /\ f.open => RunQueue(f).stdin = <<f.m_DCmds[1]>>
      BY <2>3, <2>a, RunQueueReady
    <3> QED
      BY <1>3, <2>1, <3>1, <3>2
  <2> QED
    BY <1>5, <2>2, <2>3, <2>4, <2>5 DEF Later
<1> QED
  BY <1>4, <1>5

(* To queue nothing is allowed too.                                         *)
LEMMA LaterSelf ==
  ASSUME NEW d, Good(d)
  PROVE  Later(d, d)
BY DEF Good, Later, Ready
-----------------------------------------------------------------------------
(* Breakpoints.                                                            *)

(* The editor's breakpoints with a driver that has queued commands since d. *)
Editors(d) == {s \in [list : Lists, bp : [Bps -> Fields], d : Drivers] : Later(d, s.d)}

SameLines(s, t) == \A x \in Bps : t.bp[x].line = s.bp[x].line

(* The fields of a breakpoint that the driver sets keep their types.        *)
LEMMA FieldsSet ==
  ASSUME NEW f \in Fields
  PROVE  /\ \A n \in Int : [f EXCEPT !.index = n] \in Fields
         /\ \A n \in Int, set \in BOOLEAN : [f EXCEPT !.index = n, !.alreadySet = set] \in Fields
         /\ \A n \in 0..MaxLine : [f EXCEPT !.line = n] \in Fields
BY DEF Fields

(* A new breakpoint has the fields of one.                                  *)
LEMMA FreshIsTyped == Fresh \in Fields
<1>1. MaxLine \in Nat
  BY DriverAssumption
<1>2. 0 \in 0..MaxLine
  BY <1>1
<1>3. -1 \in Int
  OBVIOUS
<1> QED
  BY <1>2, <1>3 DEF Fresh, Fields

(* The command that sets a breakpoint can be queued.                        *)
LEMMA AddIsQueueable ==
  ASSUME NEW b \in Bps, NEW o \in Fields
  PROVE  GdbCmd_AddBreakpoint(b, o) \in Queueable
<1>1. o.line \in Int
  <2>1. MaxLine \in Nat
    BY DriverAssumption
  <2>2. o.line \in 0..MaxLine
    BY DEF Fields
  <2> QED
    BY <2>1, <2>2
<1> QED
  BY <1>1 DEF GdbCmd_AddBreakpoint, Cmd, Queueable, Commands, Kinds

(* So can any command about a breakpoint,                                   *)
LEMMA CmdIsQueueable ==
  ASSUME NEW b \in Bps, NEW n \in Int, NEW kind \in Kinds
  PROVE  Cmd(kind, b, n) \in Queueable
BY DEF Cmd, Queueable, Commands

(* and any command about none.                                              *)
LEMMA PlainIsQueueable ==
  ASSUME NEW kind \in Kinds \ {"break", "tbreak", "watch", "output"}
  PROVE  Plain(kind) \in Queueable
BY DEF Plain, Cmd, Queueable, Commands

(* What a handler may do to a state of the editor and the driver.           *)
LEMMA EditorsSet ==
  ASSUME NEW d, NEW s \in Editors(d)
  PROVE  /\ s.list \in Lists /\ s.bp \in [Bps -> Fields] /\ Later(d, s.d) /\ s.d \in Drivers
         /\ \A l \in Lists : [s EXCEPT !.list = l] \in Editors(d)
         /\ \A e : Later(d, e) => [s EXCEPT !.d = e] \in Editors(d)
         /\ \A b \in Bps, f \in Fields : [s EXCEPT !.bp[b] = f] \in Editors(d)
<1>1. \A e : Later(d, e) => e \in Drivers
  BY DEF Later, Good
<1> QED
  BY <1>1 DEF Editors

(* GDB_driver::AddBreakpoint queues at most one command and forgets at most *)
(* a number.                                                                *)
LEMMA DriverAddKeeps ==
  ASSUME NEW d, NEW s \in Editors(d), NEW b \in Bps
  PROVE  /\ DriverAdd(s, b) \in Editors(d)
         /\ DriverAdd(s, b).list = s.list
         /\ SameLines(s, DriverAdd(s, b))
<1> DEFINE o == s.bp[b]
<1>1. /\ s \in [list : Lists, bp : [Bps -> Fields], d : Drivers] /\ o \in Fields
      /\ Later(d, s.d) /\ o.index \in Int /\ o.enabled \in BOOLEAN /\ o.alreadySet \in BOOLEAN
  BY DEF Editors, Fields
<1>2. CASE ~s.d.up
  BY <1>2 DEF DriverAdd, SameLines
<1>3. CASE s.d.up /\ b \in CodeBps
  <2> DEFINE c == GdbCmd_AddBreakpoint(b, o)
             f == [o EXCEPT !.index = -1, !.alreadySet = o.alreadySet \/ o.enabled]
  <2>1. DriverAdd(s, b) = [s EXCEPT !.bp = [s.bp EXCEPT ![b] = f], !.d = QueueLow(s.d, c)]
    BY <1>1, <1>3 DEF DriverAdd, AddCommand
  <2>2. Later(d, QueueLow(s.d, c))
    BY <1>1, <1>3, AddIsQueueable, QueueLowLater
  <2>3. f \in Fields /\ f.line = o.line
    <3> DEFINE v == o.alreadySet \/ o.enabled
    <3>1. v \in BOOLEAN
      OBVIOUS
    <3>2. f = [o EXCEPT !.index = -1, !.alreadySet = v]
      OBVIOUS
    <3> HIDE DEF v, f
    <3>3. f \in Fields
      <4>1. \A n \in Int, set \in BOOLEAN : [o EXCEPT !.index = n, !.alreadySet = set] \in Fields
        BY <1>1, FieldsSet
      <4>2. -1 \in Int
        OBVIOUS
      <4> QED
        BY <3>1, <3>2, <4>1, <4>2
    <3>4. f.line = o.line
      BY <1>1, <3>2 DEF Fields
    <3> QED
      BY <3>3, <3>4
  <2>4. QueueLow(s.d, c) \in Drivers
    BY <2>2 DEF Later, Good
  <2> HIDE DEF c, f
  <2> QED
    BY <1>1, <2>1, <2>2, <2>3, <2>4 DEF Editors, SameLines
<1>4. CASE s.d.up /\ b \notin CodeBps
  <2> DEFINE c == Cmd(IF o.enabled THEN "output" ELSE "action", b, 0)
  <2>1. DriverAdd(s, b) = [s EXCEPT !.d = QueueLow(s.d, c)]
    BY <1>1, <1>4 DEF DriverAdd
  <2>2. c \in Queueable
    BY DEF Cmd, Queueable, Commands, Kinds
  <2>3. Later(d, QueueLow(s.d, c))
    BY <1>1, <1>4, <2>2, QueueLowLater
  <2>4. QueueLow(s.d, c) \in Drivers
    BY <2>3 DEF Later, Good
  <2> HIDE DEF c
  <2> QED
    BY <1>1, <2>1, <2>3, <2>4 DEF Editors, SameLines
<1> QED
  BY <1>2, <1>3, <1>4

(* GDB_driver::RemoveBreakpoint queues at most one command.                 *)
LEMMA DriverRemoveKeeps ==
  ASSUME NEW d, NEW s \in Editors(d), NEW b \in Bps
  PROVE  /\ DriverRemove(s, b) \in Editors(d)
         /\ DriverRemove(s, b).list = s.list /\ DriverRemove(s, b).bp = s.bp
<1> DEFINE o == s.bp[b]
           c == Cmd(IF o.enabled /\ o.index >= 0 THEN "delete" ELSE "action", b, o.index)
<1>1. /\ s \in [list : Lists, bp : [Bps -> Fields], d : Drivers]
      /\ Later(d, s.d) /\ o.index \in Int
  BY DEF Editors, Fields
<1>2. CASE ~s.d.up \/ o.index = -1
  BY <1>2 DEF DriverRemove
<1>3. CASE ~(~s.d.up \/ o.index = -1)
  <2>1. DriverRemove(s, b) = [s EXCEPT !.d = QueueLow(s.d, c)]
    BY <1>1, <1>3 DEF DriverRemove
  <2>2. c \in Queueable
    BY <1>1 DEF Cmd, Queueable, Commands, Kinds
  <2>3. Later(d, QueueLow(s.d, c))
    BY <1>1, <1>3, <2>2, QueueLowLater
  <2>4. QueueLow(s.d, c) \in Drivers
    BY <2>3 DEF Later, Good
  <2> HIDE DEF c
  <2> QED
    BY <1>1, <2>1, <2>3, <2>4 DEF Editors
<1> QED
  BY <1>2, <1>3

(* The length of a concatenation.                                           *)
LEMMA ConcatLen ==
  ASSUME NEW T, NEW u \in Seq(T), NEW v \in Seq(T)
  PROVE  Len(u \o v) = Len(u) + Len(v)
OBVIOUS

(* A list without one of its breakpoints.                                   *)
LEMMA UnlistedKeeps ==
  ASSUME NEW list \in Lists, NEW b, \E i \in DOMAIN list : list[i] = b
  PROVE  /\ Unlisted(list, b) \in Lists
         /\ Range(Unlisted(list, b)) = Range(list) \ {b}
<1> DEFINE k == CHOOSE i \in DOMAIN list : list[i] = b
           n == Len(list)
           r == Unlisted(list, b)
<1>1. k \in 1..n /\ list[k] = b /\ list \in Seq(Bps) /\ n \in Nat /\ Distinct(list)
  BY DEF Lists
<1>2. r = SubSeq(list, 1, k - 1) \o SubSeq(list, k + 1, n)
  BY DEF Unlisted, RemoveAt
<1> HIDE DEF k
<1>3. /\ r \in Seq(Bps) /\ Len(r) = n - 1
      /\ \A i \in 1..(n - 1) : r[i] = IF i < k THEN list[i] ELSE list[i + 1]
  <2> DEFINE u == SubSeq(list, 1, k - 1)
             v == SubSeq(list, k + 1, n)
  <2>1. u \in Seq(Bps) /\ Len(u) = k - 1 /\ \A i \in 1..(k - 1) : u[i] = list[i]
    BY <1>1
  <2>2. v \in Seq(Bps) /\ Len(v) = n - k /\ \A i \in 1..(n - k) : v[i] = list[i + k]
    BY <1>1
  <2> HIDE DEF u, v
  <2>3. r \in Seq(Bps) /\ Len(r) = n - 1
    <3>1. r = u \o v
      BY <1>2 DEF u, v
    <3>a. u \o v \in Seq(Bps)
      BY <2>1, <2>2
    <3>b. Len(u \o v) = Len(u) + Len(v)
      BY <2>1, <2>2, ConcatLen
    <3>2. u \o v \in Seq(Bps) /\ Len(u \o v) = (k - 1) + (n - k)
      BY <2>1, <2>2, <3>a, <3>b
    <3>3. (k - 1) + (n - k) = n - 1
      BY <1>1
    <3> QED
      BY <3>1, <3>2, <3>3
  <2>4. ASSUME NEW i \in 1..(n - 1) PROVE r[i] = IF i < k THEN list[i] ELSE list[i + 1]
    <3>1. r = u \o v
      BY <1>2 DEF u, v
    <3> HIDE DEF r, n
    <3>2. CASE i < k
      <4>1. i \in 1..(k - 1)
        BY <1>1, <3>2
      <4>2. r[i] = u[i]
        BY <1>1, <2>1, <2>2, <3>1, <4>1
      <4> QED
        BY <2>1, <3>2, <4>1, <4>2
    <3>3. CASE ~(i < k)
      <4>1. i - (k - 1) \in 1..(n - k) /\ i > k - 1 /\ i <= (k - 1) + (n - k)
        BY <1>1, <3>3
      <4>2. r[i] = v[i - (k - 1)]
        BY <1>1, <2>1, <2>2, <3>1, <4>1
      <4>3. (i - (k - 1)) + k = i + 1
        BY <1>1
      <4> QED
        BY <2>2, <3>3, <4>1, <4>2, <4>3
    <3> QED
      BY <3>2, <3>3
  <2> QED
    BY <2>3, <2>4
<1> HIDE DEF r
<1>4. Distinct(r)
  <2> SUFFICES ASSUME NEW i \in 1..(n - 1), NEW j \in 1..(n - 1), r[i] = r[j] PROVE i = j
    BY <1>1, <1>3 DEF Distinct
  <2> DEFINE At(x) == IF x < k THEN x ELSE x + 1
  <2>1. \A x \in 1..(n - 1) : At(x) \in 1..n /\ r[x] = list[At(x)]
    BY <1>1, <1>3
  <2>2. DOMAIN list = 1..n
    BY <1>1
  <2>3. At(i) = At(j)
    BY <1>1, <2>1, <2>2 DEF Distinct
  <2> QED
    BY <1>1, <2>3
<1>5. ASSUME NEW x \in Range(list) \ {b} PROVE x \in Range(r)
  <2>1. PICK i \in 1..n : list[i] = x
    BY <1>1 DEF Range
  <2>2. i # k
    BY <1>1, <2>1
  <2>3. CASE i < k
    BY <1>1, <1>3, <2>1, <2>3 DEF Range
  <2>4. CASE i > k
    <3>1. i - 1 \in 1..(n - 1) /\ ~(i - 1 < k) /\ (i - 1) + 1 = i
      BY <1>1, <2>4
    <3>2. r[i - 1] = x
      BY <1>3, <2>1, <3>1
    <3> QED
      BY <1>1, <1>3, <3>1, <3>2 DEF Range
  <2> QED
    BY <1>1, <2>2, <2>3, <2>4
<1>6. ASSUME NEW x \in Range(r) PROVE x \in Range(list) \ {b}
  <2>1. PICK i \in 1..(n - 1) : r[i] = x
    BY <1>1, <1>3 DEF Range
  <2>2. CASE i < k
    <3>1. list[i] = x /\ i \in 1..n /\ i # k
      BY <1>1, <1>3, <2>1, <2>2
    <3> QED
      BY <1>1, <3>1 DEF Range, Distinct
  <2>3. CASE ~(i < k)
    <3>1. list[i + 1] = x /\ i + 1 \in 1..n /\ i + 1 # k
      BY <1>1, <1>3, <2>1, <2>3
    <3> QED
      BY <1>1, <3>1 DEF Range, Distinct
  <2> QED
    BY <2>2, <2>3
<1> QED
  BY <1>3, <1>4, <1>5, <1>6 DEF Lists, r

(* DebuggerState::RemoveBreakpoint takes a breakpoint out of the list.      *)
LEMMA StateRemoveKeeps ==
  ASSUME NEW d, NEW s \in Editors(d), NEW b \in Bps
  PROVE  /\ StateRemove(s, b) \in Editors(d)
         /\ Range(StateRemove(s, b).list) = Range(s.list) \ {b}
         /\ StateRemove(s, b).bp = s.bp
<1>1. s.list \in Lists /\ s.list \in Seq(Bps)
  BY EditorsSet DEF Lists
<1>2. DOMAIN s.list = 1..Len(s.list)
  BY <1>1
<1>3. CASE ~Contains(s.list, b)
  <2>1. b \notin Range(s.list)
    BY <1>2, <1>3 DEF Contains, Range
  <2> QED
    BY <1>3, <2>1 DEF StateRemove
<1>4. CASE Contains(s.list, b)
  <2> DEFINE r == Unlisted(s.list, b)
             t == [s EXCEPT !.list = r]
  <2>1. \E i \in DOMAIN s.list : s.list[i] = b
    BY <1>2, <1>4 DEF Contains
  <2>2. r \in Lists /\ Range(r) = Range(s.list) \ {b}
    BY <1>1, <2>1, UnlistedKeeps
  <2>3. t \in Editors(d)
    BY <2>2, EditorsSet
  <2>4. t.list = r /\ t.bp = s.bp
    BY DEF Editors
  <2>5. StateRemove(s, b) = DriverRemove(t, b)
    BY <1>4 DEF StateRemove
  <2> HIDE DEF t, r
  <2> QED
    BY <2>2, <2>3, <2>4, <2>5, DriverRemoveKeeps
<1> QED
  BY <1>3, <1>4

(* A list with a breakpoint that was not in it.                             *)
LEMMA AppendKeeps ==
  ASSUME NEW list \in Lists, NEW b \in Bps, b \notin Range(list)
  PROVE  Append(list, b) \in Lists
<1> DEFINE r == Append(list, b)
           n == Len(list)
<1>1. list \in Seq(Bps) /\ n \in Nat /\ DOMAIN list = 1..n /\ Distinct(list)
  BY DEF Lists
<1>2. /\ r \in Seq(Bps) /\ DOMAIN r = 1..(n + 1)
      /\ \A i \in 1..n : r[i] = list[i]
      /\ r[n + 1] = b
  BY <1>1
<1>3. \A i \in 1..n : list[i] # b
  BY <1>1 DEF Range
<1> HIDE DEF r, n
<1>4. ASSUME NEW i \in 1..(n + 1), NEW k \in 1..(n + 1), r[i] = r[k] PROVE i = k
  <2>1. i \in 1..n \/ i = n + 1
    BY <1>1
  <2>2. k \in 1..n \/ k = n + 1
    BY <1>1
  <2> QED
    BY <1>1, <1>2, <1>3, <1>4, <2>1, <2>2 DEF Distinct
<1>5. Distinct(r)
  BY <1>2, <1>4 DEF Distinct
<1> QED
  BY <1>2, <1>5 DEF Lists, r

(* DebuggerState::AddBreakpoint appends a breakpoint to the list.           *)
LEMMA StateAddKeeps ==
  ASSUME NEW d, NEW s \in Editors(d), NEW b \in Bps, b \notin Range(s.list)
  PROVE  /\ StateAdd(s, b) \in Editors(d)
         /\ StateAdd(s, b).list = Append(s.list, b)
         /\ SameLines(s, StateAdd(s, b))
<1> DEFINE f == [s.bp[b] EXCEPT !.index = s.d.auto + 1]
           e == [s.d EXCEPT !.auto = s.d.auto + 1]
           t == [s EXCEPT !.list = Append(s.list, b), !.bp[b] = f, !.d = e]
<1>1. /\ s \in [list : Lists, bp : [Bps -> Fields], d : Drivers] /\ s.d \in Drivers
      /\ Later(d, s.d) /\ s.bp[b] \in Fields /\ s.d.auto \in Nat
  BY DEF Editors, Drivers
<1>2. f \in Fields /\ f.line = s.bp[b].line
  <2>1. s.d.auto + 1 \in Int
    BY <1>1
  <2>2. f \in Fields
    BY <1>1, <2>1, FieldsSet
  <2>3. f.line = s.bp[b].line
    BY <1>1 DEF Fields
  <2> QED
    BY <2>2, <2>3
<1>3. /\ e \in Drivers /\ e.up = s.d.up /\ e.open = s.d.open /\ e.m_QueueBusy = s.d.m_QueueBusy
      /\ e.m_DCmds = s.d.m_DCmds /\ e.stdin = s.d.stdin
      /\ e.m_ProgramIsStopped = s.d.m_ProgramIsStopped
  <2>1. s.d.auto + 1 \in Nat
    BY <1>1
  <2> QED
    BY <1>1, <2>1 DEF Drivers
<1> HIDE DEF f, e
<1>4. Later(d, e)
  BY <1>1, <1>3 DEF Later, Good, Ready, Sent
<1>5. Append(s.list, b) \in Lists
  BY <1>1, AppendKeeps
<1>6. t \in Editors(d) /\ t.list = Append(s.list, b) /\ SameLines(s, t)
  BY <1>1, <1>2, <1>3, <1>4, <1>5 DEF Editors, SameLines
<1>7. StateAdd(s, b) = DriverAdd(t, b)
  BY <1>1 DEF StateAdd, f, e
<1> HIDE DEF t
<1> QED
  BY <1>6, <1>7, DriverAddKeeps DEF SameLines

(* A breakpoint at a line replaces the one that is there.                   *)
LEMMA AddAtKeeps ==
  ASSUME NEW d, NEW s \in Editors(d), NEW b \in Bps, b \notin Range(s.list),
         NEW line \in Lines, NEW temp \in BOOLEAN
  PROVE  AddAt(s, b, line, temp) \in Editors(d)
<1> DEFINE old == HasBreakpoint(s, line)
           s1 == IF old = {} THEN s ELSE StateRemove(s, CHOOSE x \in old : TRUE)
           f == [Fresh EXCEPT !.line = line, !.temporary = temp]
           t == [s1 EXCEPT !.bp[b] = f]
<1>1. s1 \in Editors(d) /\ b \notin Range(s1.list)
  <2>1. old \subseteq Bps
    BY DEF HasBreakpoint, Bps
  <2>2. CASE old = {}
    BY <2>2
  <2>3. CASE old # {}
    <3> DEFINE x == CHOOSE x \in old : TRUE
    <3>1. x \in Bps
      BY <2>1, <2>3
    <3>2. s1 = StateRemove(s, x)
      BY <2>3
    <3> HIDE DEF x, s1
    <3>3. StateRemove(s, x) \in Editors(d) /\ Range(StateRemove(s, x).list) = Range(s.list) \ {x}
      BY <3>1, StateRemoveKeeps
    <3>4. b \notin Range(StateRemove(s, x).list)
      BY <3>3
    <3> QED
      BY <3>2, <3>3, <3>4
  <2> QED
    BY <2>2, <2>3
<1>2. f \in Fields
  <2>1. line \in 0..MaxLine /\ MaxLine \in Nat
    <3>1. MaxLine \in Nat
      BY DriverAssumption
    <3> QED
      BY <3>1 DEF Lines
  <2>2. Fresh \in Fields
    BY FreshIsTyped
  <2>3. \A x \in Fields : [x EXCEPT !.line = line, !.temporary = temp] \in Fields
    BY <2>1 DEF Fields
  <2> QED
    BY <2>2, <2>3
<1>3. AddAt(s, b, line, temp) = StateAdd(t, b)
  BY DEF AddAt
<1> HIDE DEF s1, f
<1>4. t \in Editors(d) /\ t.list = s1.list
  <2>1. t \in Editors(d)
    BY <1>1, <1>2, EditorsSet
  <2>2. t.list = s1.list
    BY <1>1 DEF Editors
  <2> QED
    BY <2>1, <2>2
<1> HIDE DEF t
<1> QED
  BY <1>1, <1>3, <1>4, StateAddKeeps

(* A list read from its end has the same elements.                          *)
LEMMA ReverseTyped ==
  ASSUME NEW T, NEW list \in Seq(T)
  PROVE  /\ Reverse(list) \in Seq(T) /\ Len(Reverse(list)) = Len(list)
         /\ \A i \in 1..Len(list) : Reverse(list)[i] = list[(Len(list) - i) + 1]
         /\ \A i \in 1..Len(list) : (Len(list) - i) + 1 \in 1..Len(list)
<1>1. \A i \in 1..Len(list) : (Len(list) - i) + 1 \in 1..Len(list)
  OBVIOUS
<1> QED
  BY <1>1 DEF Reverse

(* It has none of them twice if the list has not.                           *)
LEMMA ReverseDistinct ==
  ASSUME NEW list \in Lists
  PROVE  Reverse(list) \in Lists
<1> DEFINE n == Len(list)
           r == Reverse(list)
<1>1. list \in Seq(Bps) /\ n \in Nat /\ DOMAIN list = 1..n /\ Distinct(list)
  BY DEF Lists
<1>2. /\ r \in Seq(Bps) /\ DOMAIN r = 1..n
      /\ \A i \in 1..n : r[i] = list[(n - i) + 1] /\ (n - i) + 1 \in 1..n
  <2>1. r \in Seq(Bps) /\ Len(r) = n
    BY <1>1, ReverseTyped
  <2> QED
    BY <1>1, <2>1, ReverseTyped
<1> HIDE DEF r, n
<1>3. ASSUME NEW i \in 1..n, NEW k \in 1..n, r[i] = r[k] PROVE i = k
  <2>1. (n - i) + 1 = (n - k) + 1
    BY <1>1, <1>2, <1>3 DEF Distinct
  <2> QED
    BY <1>1, <2>1
<1>4. Distinct(r)
  BY <1>2, <1>3 DEF Distinct
<1> QED
  BY <1>2, <1>4 DEF Lists, r

(* OnRemoveAllBreakpoints: each removal keeps what the next needs.          *)
LEMMA RemoveAllKeeps ==
  ASSUME NEW d, NEW s \in Editors(d), NEW list \in Seq(Bps)
  PROVE  FoldLeft(StateRemove, s, list) \in Editors(d)
<1>1. \A t \in Editors(d), b \in Bps : RemoveOp(0, 0, t, b) \in Editors(d)
  BY StateRemoveKeeps DEF RemoveOp
<1>2. Removing!Fold(0, 0, s, list) \in Editors(d)
  BY <1>1, Removing!FoldKeeps
<1> QED
  BY <1>2, TheFolds

(* The loop of RemoveBreakpointsRange.                                      *)
LEMMA RemoveWhereKeeps ==
  ASSUME NEW d, NEW s \in Editors(d), NEW first, NEW last, s.bp = bp
  PROVE  LET t == Going!Fold(first, last, s, Reverse(s.list))
         IN  t \in Editors(d) /\ t.bp = s.bp
<1> DEFINE T == {t \in Editors(d) : t.bp = s.bp}
           r == Reverse(s.list)
<1>1. ASSUME NEW t \in T, NEW b \in Bps PROVE GoneOp(first, last, t, b) \in T
  <2>1. t \in Editors(d) /\ t.bp = s.bp
    OBVIOUS
  <2>2. StateRemove(t, b) \in T
    BY <2>1, StateRemoveKeeps
  <2> QED
    BY <2>2 DEF GoneOp
<1>2. r \in Seq(Bps)
  <2>1. s.list \in Seq(Bps)
    BY EditorsSet DEF Lists
  <2> QED
    BY <2>1, ReverseTyped
<1>3. s \in T
  OBVIOUS
<1> HIDE DEF T, r
<1>4. Going!Fold(first, last, s, r) \in T
  BY <1>1, <1>2, <1>3, Going!FoldKeeps
<1> QED
  BY <1>4 DEF T, r

(* The list has no breakpoint twice, so each is shifted once.               *)
LEMMA ShiftKeeps ==
  ASSUME NEW d, NEW s \in Editors(d), NEW startline \in Int, NEW lines \in Int,
         \A b \in Range(s.list) \cap CodeBps :
            s.bp[b].line >= startline => s.bp[b].line + lines \in 0..MaxLine
  PROVE  ShiftBreakpoints(s, startline, lines) \in Editors(d)
<1> DEFINE r == Reverse(s.list)
           n == Len(r)
           S == [k \in 0..n |->
                    {t \in Editors(d) : \A i \in (k + 1)..n : t.bp[r[i]].line = s.bp[r[i]].line}]
<1>1. s.list \in Lists /\ s.list \in Seq(Bps) /\ r \in Lists
  BY EditorsSet, ReverseDistinct DEF Lists
<1>2. r \in Seq(Bps) /\ n \in Nat /\ DOMAIN r = 1..n /\ Distinct(r)
  BY <1>1 DEF Lists
<1>3. \A i \in 1..n : r[i] \in Range(s.list)
  <2>1. /\ n = Len(s.list) /\ DOMAIN s.list = 1..Len(s.list)
        /\ \A i \in 1..n : r[i] = s.list[(n - i) + 1] /\ (n - i) + 1 \in 1..n
    BY <1>1, ReverseTyped
  <2> QED
    BY <2>1 DEF Range
<1> HIDE DEF r, n
<1>4. s \in S[0]
  BY <1>2
<1>5. ASSUME NEW k \in 0..(n - 1), NEW t \in S[k]
      PROVE  ShiftOp(startline, lines, t, r[k + 1]) \in S[k + 1]
  <2> DEFINE b == r[k + 1]
             t1 == DriverRemove(t, b)
             f == [t.bp[b] EXCEPT !.line = t.bp[b].line + lines]
             t2 == [t1 EXCEPT !.bp[b] = f]
  <2>1. /\ k \in Nat /\ k + 1 \in 0..n /\ k + 1 \in 1..n /\ k \in 0..n
        /\ k + 1 \in (k + 1)..n /\ \A i \in ((k + 1) + 1)..n : i \in (k + 1)..n /\ i \in 1..n /\ i # k + 1
    BY <1>2
  <2>2. t \in Editors(d) /\ \A i \in (k + 1)..n : t.bp[r[i]].line = s.bp[r[i]].line
    BY <2>1
  <2>3. b \in Bps /\ b \in Range(s.list) /\ t.bp[b].line = s.bp[b].line
    BY <1>2, <1>3, <2>1, <2>2
  <2>4. \A i \in ((k + 1) + 1)..n : r[i] # b /\ r[i] \in Bps
    BY <1>2, <2>1 DEF Distinct
  <2>5. S[k + 1] = {u \in Editors(d) : \A i \in ((k + 1) + 1)..n : u.bp[r[i]].line = s.bp[r[i]].line}
    BY <2>1
  <2> HIDE DEF S, b
  <2>6. CASE b \notin CodeBps \/ t.bp[b].line < startline
    <3>1. ShiftOp(startline, lines, t, b) = t
      BY <2>6 DEF ShiftOp
    <3> QED
      BY <2>1, <2>2, <2>5, <3>1 DEF b
  <2>7. CASE ~(b \notin CodeBps \/ t.bp[b].line < startline)
    <3>1. t1 \in Editors(d) /\ t1.bp = t.bp
      BY <2>2, <2>3, DriverRemoveKeeps
    <3>2. t.bp \in [Bps -> Fields] /\ t.bp[b] \in Fields
      BY <2>2, <2>3, EditorsSet
    <3>3. t.bp[b].line \in Int
      <4>1. MaxLine \in Nat
        BY DriverAssumption
      <4>2. t.bp[b].line \in 0..MaxLine
        BY <3>2 DEF Fields
      <4> QED
        BY <4>1, <4>2
    <3>4. t.bp[b].line + lines \in 0..MaxLine
      BY <2>3, <2>7, <3>3
    <3>5. f \in Fields
      BY <3>2, <3>4, FieldsSet
    <3>6. ShiftOp(startline, lines, t, b) = DriverAdd(t2, b)
      <4>1. [t1 EXCEPT !.bp[b].line = @ + lines] = t2
        BY <3>1 DEF Editors
      <4> QED
        BY <2>7, <4>1 DEF ShiftOp
    <3> HIDE DEF f, t1
    <3>7. t2 \in Editors(d)
      BY <2>3, <3>1, <3>5, EditorsSet
    <3>8. \A x \in Bps : x # b => t2.bp[x] = t.bp[x]
      BY <3>1, <3>2 DEF Editors
    <3> HIDE DEF t2
    <3>9. DriverAdd(t2, b) \in Editors(d) /\ SameLines(t2, DriverAdd(t2, b))
      BY <2>3, <3>7, DriverAddKeeps
    <3>10. \A i \in ((k + 1) + 1)..n : DriverAdd(t2, b).bp[r[i]].line = s.bp[r[i]].line
      BY <2>1, <2>2, <2>4, <3>8, <3>9 DEF SameLines
    <3> QED
      BY <2>5, <3>6, <3>9, <3>10 DEF b
  <2> QED
    BY <2>6, <2>7
<1> HIDE DEF S
<1>6. Shifting!Fold(startline, lines, s, r) \in S[n]
  BY <1>2, <1>4, <1>5, Shifting!FoldSteps DEF n
<1>7. S[n] \subseteq Editors(d)
  BY <1>2 DEF S
<1> QED
  BY <1>6, <1>7, TheFolds DEF r

(* ApplyBreakpoints drops old temporary breakpoints, each of which is in    *)
(* the list when its turn comes, and adds the others.                       *)
LEMMA ApplyKeeps ==
  ASSUME NEW d, NEW s \in Editors(d)
  PROVE  ApplyBreakpoints(s) \in Editors(d)
<1> DEFINE r == Reverse(s.list)
           n == Len(r)
           S == [k \in 0..n |-> {list \in Lists : \A i \in (k + 1)..n : r[i] \in Range(list)}]
           kept == Dropping!Fold(s, 0, s.list, r)
<1>1. s.list \in Lists /\ s.list \in Seq(Bps) /\ r \in Lists
  BY EditorsSet, ReverseDistinct DEF Lists
<1>2. r \in Seq(Bps) /\ n \in Nat /\ DOMAIN r = 1..n /\ Distinct(r)
  BY <1>1 DEF Lists
<1>3. \A i \in 1..n : r[i] \in Range(s.list)
  <2>1. /\ n = Len(s.list) /\ DOMAIN s.list = 1..Len(s.list)
        /\ \A i \in 1..n : r[i] = s.list[(n - i) + 1] /\ (n - i) + 1 \in 1..n
    BY <1>1, ReverseTyped
  <2> QED
    BY <2>1 DEF Range
<1> HIDE DEF r, n
<1>4. s.list \in S[0]
  BY <1>1, <1>2, <1>3
<1>5. ASSUME NEW k \in 0..(n - 1), NEW list \in S[k]
      PROVE  DropOp(s, 0, list, r[k + 1]) \in S[k + 1]
  <2> DEFINE b == r[k + 1]
  <2>1. /\ k \in Nat /\ k + 1 \in 0..n /\ k + 1 \in 1..n /\ k \in 0..n
        /\ k + 1 \in (k + 1)..n /\ \A i \in ((k + 1) + 1)..n : i \in (k + 1)..n /\ i \in 1..n /\ i # k + 1
    BY <1>2
  <2>2. list \in Lists /\ \A i \in (k + 1)..n : r[i] \in Range(list)
    BY <2>1
  <2>3. \A i \in ((k + 1) + 1)..n : r[i] # b
    BY <1>2, <2>1 DEF Distinct
  <2>4. S[k + 1] = {l \in Lists : \A i \in ((k + 1) + 1)..n : r[i] \in Range(l)}
    BY <2>1
  <2>5. b \in Range(list)
    BY <2>1, <2>2
  <2> HIDE DEF S, b
  <2>6. \E i \in DOMAIN list : list[i] = b
    BY <2>5 DEF Range
  <2>7. Unlisted(list, b) \in Lists /\ Range(Unlisted(list, b)) = Range(list) \ {b}
    BY <2>2, <2>6, UnlistedKeeps
  <2>8. list \in S[k + 1] /\ Unlisted(list, b) \in S[k + 1]
    BY <2>1, <2>2, <2>3, <2>4, <2>7
  <2> QED
    BY <2>8 DEF DropOp, b
<1> HIDE DEF S
<1>6. kept \in S[n]
  BY <1>2, <1>4, <1>5, Dropping!FoldSteps DEF n
<1>7. kept \in Lists
  BY <1>2, <1>6 DEF S
<1> HIDE DEF kept
<1>8. Reverse(kept) \in Seq(Bps)
  BY <1>7, ReverseDistinct DEF Lists
<1>9. [s EXCEPT !.list = kept] \in Editors(d)
  BY <1>7, EditorsSet
<1>10. \A t \in Editors(d), b \in Bps : AddOp(0, 0, t, b) \in Editors(d)
  BY DriverAddKeeps DEF AddOp
<1>11. Adding!Fold(0, 0, [s EXCEPT !.list = kept], Reverse(kept)) \in Editors(d)
  BY <1>8, <1>9, <1>10, Adding!FoldKeeps
<1> QED
  BY <1>11, TheFolds DEF kept, r
-----------------------------------------------------------------------------
(* The user.                                                               *)

(* Between two handlers the driver is idle and empty, or busy.              *)
LEMMA HereEdits ==
  ASSUME IInv
  PROVE  /\ Good(driver) /\ Later(driver, driver) /\ Here \in Editors(driver)
         /\ Here.list = m_Breakpoints /\ Here.bp = bp /\ Here.d = driver
<1>1. driver.stdin # <<>> => driver.m_QueueBusy
  BY DEF IInv, Queue, Asked
<1>2. Good(driver)
  BY <1>1 DEF IInv, Types, Queue, Good, Life
<1>3. Later(driver, driver)
  BY <1>2, LaterSelf
<1> QED
  BY <1>2, <1>3 DEF IInv, Types, Here, Editors

(* Continue queues "run" or "cont".                                         *)
LEMMA ContinueLater ==
  ASSUME NEW d, NEW e, Later(d, e)
  PROVE  Later(d, Continue(e))
<1> DEFINE c == Plain(IF e.m_IsStarted THEN "cont" ELSE "run")
           f == QueueLow(e, c)
<1>1. CASE ~m_pProcess \/ ~e.up
  BY <1>1 DEF Continue
<1>2. CASE ~(~m_pProcess \/ ~e.up)
  <2>1. c \in Queueable
    BY DEF Plain, Cmd, Queueable, Commands, Kinds
  <2>2. Later(d, f)
    BY <1>2, <2>1, QueueLowLater
  <2>3. Continue(e) = [f EXCEPT !.m_IsStarted = TRUE]
    BY <1>2 DEF Continue
  <2> HIDE DEF f
  <2>4. f \in Drivers
    BY <2>2 DEF Later, Good
  <2>5. Later(d, [f EXCEPT !.m_IsStarted = TRUE])
    <3> DEFINE g == [f EXCEPT !.m_IsStarted = TRUE]
    <3>1. /\ g \in Drivers /\ g.up = f.up /\ g.open = f.open /\ g.m_QueueBusy = f.m_QueueBusy
          /\ g.m_DCmds = f.m_DCmds /\ g.stdin = f.stdin
          /\ g.m_ProgramIsStopped = f.m_ProgramIsStopped
      BY <2>4 DEF Drivers
    <3> HIDE DEF g
    <3>2. Later(d, g)
      BY <2>2, <3>1 DEF Later, Good, Ready, Sent
    <3> QED
      BY <3>2 DEF g
  <2> QED
    BY <2>3, <2>5
<1> QED
  BY <1>1, <1>2

(* Queueing commands, and closing the pipe, keep the invariant.             *)
LEMMA LaterKeeps ==
  ASSUME IInv, NEW e, Later(driver, e),
         driver'.up = e.up, driver'.m_DCmds = e.m_DCmds, driver'.m_QueueBusy = e.m_QueueBusy,
         driver'.m_ProgramIsStopped = e.m_ProgramIsStopped, driver'.stdin = e.stdin,
         driver'.open => driver.open,
         m_pProcess' = m_pProcess, events' = events,
         gdb'.state = gdb.state, gdb'.trusted = gdb.trusted, gdb'.asked = gdb.asked
  PROVE  /\ Life' /\ Queue' /\ Answering'
         /\ starting' = starting /\ (Patient /\ driver'.open /\ driver.up => ~starting) => Owed'
<1>1. Good(driver) /\ Life /\ Queue /\ Owed
  BY HereEdits DEF IInv
<1>2. /\ e.up = driver.up /\ e.m_QueueBusy = ~e.m_ProgramIsStopped
      /\ ~e.m_QueueBusy <=> e.m_DCmds = <<>>
      /\ ~e.m_QueueBusy => e.stdin = <<>>
      /\ e.open = driver.open
  BY DEF Later, Good
<1>3. AnswerAt' = AnswerAt /\ Terminated' = Terminated
  BY DEF AnswerAt, Terminated
<1>4. CASE driver.m_QueueBusy
  <2>1. e.m_QueueBusy /\ e.stdin = driver.stdin /\ Head(e.m_DCmds) = Head(driver.m_DCmds)
    BY <1>4 DEF Later
  <2>2. Life'
    BY <1>1, <1>2, <1>3, <1>4, <2>1 DEF Life
  <2>3. \A c : Asked(c) <=> Asked(c)'
    BY <1>4, <2>1 DEF Asked
  <2>4. Queue'
    BY <1>1, <1>2, <1>3, <2>1, <2>3 DEF Queue, Asked
  <2>5. Answering'
    BY <1>1, <1>2, <1>3, <1>4, <2>1 DEF Owed, Answering
  <2>6. starting' = starting /\ (Patient /\ driver'.open /\ driver.up => ~starting) => PromptFirst'
    BY <1>1, <1>2, <2>1 DEF Owed, PromptFirst
  <2> QED
    BY <2>2, <2>4, <2>5, <2>6 DEF Owed
<1>5. CASE ~driver.m_QueueBusy
  <2>1. Ready(e) /\ driver.stdin = <<>>
    BY <1>1, <1>5 DEF Later, Good
  <2>2. AnswerAt = {} /\ gdb.state # "program"
    BY <1>1, <1>5 DEF Queue, Asked
  <2>3. ~driver.up => ~m_pProcess
    BY <1>1 DEF Life
  <2>4. e.stdin # <<>> => m_pProcess /\ e.m_QueueBusy
    BY <2>1 DEF Ready, Sent
  <2>5. Life'
    <3>1. ~driver.up => ~e.m_QueueBusy
      BY <1>2 DEF Later, Good
    <3> QED
      BY <1>1, <1>2, <1>3, <2>3, <2>4, <3>1 DEF Life
  <2>6. Queue'
    BY <1>2, <1>3, <2>1, <2>2 DEF Queue, Asked, Ready, Sent
  <2>7. Answering'
    BY <1>1, <1>2, <1>3, <1>5, <2>1, <2>2 DEF Answering, Ready, Sent, Life
  <2>8. starting' = starting /\ (Patient /\ driver'.open /\ driver.up => ~starting) => PromptFirst'
    BY <1>1, <1>2, <2>1 DEF Owed, PromptFirst
  <2> QED
    BY <2>5, <2>6, <2>7, <2>8 DEF Owed
<1> QED
  BY <1>4, <1>5

(* A handler that changes breakpoints and queues commands.                  *)
LEMMA EditStep ==
  ASSUME IInv, NEW s \in Editors(driver), Becomes(s),
         m_pProcess' = m_pProcess, events' = events, starting' = starting,
         gdb' = gdb \/ gdb' = Break(gdb), clicks' \in 0..MaxClicks, Patient => ~starting
  PROVE  IInv'
<1>1. /\ m_Breakpoints' \in Lists /\ bp' \in [Bps -> Fields] /\ driver' \in Drivers
      /\ driver' = s.d /\ Later(driver, s.d)
  BY EditorsSet DEF Becomes
<1>2. /\ IsGdb(gdb') /\ gdb'.state = gdb.state /\ gdb'.trusted = gdb.trusted
      /\ gdb'.asked = gdb.asked
  <2>1. IsGdb(gdb)
    BY DEF IInv, Types
  <2>2. Break(gdb) \in {gdb, [gdb EXCEPT !.signal = TRUE]}
    BY DEF Break
  <2> QED
    BY <2>1, <2>2 DEF IsGdb
<1>3. driver'.open => driver.open
  BY <1>1 DEF Later
<1>4. Life' /\ Queue' /\ Owed'
  <2> DEFINE e == s.d
  <2>1. /\ driver'.up = e.up /\ driver'.m_DCmds = e.m_DCmds /\ driver'.m_QueueBusy = e.m_QueueBusy
        /\ driver'.m_ProgramIsStopped = e.m_ProgramIsStopped /\ driver'.stdin = e.stdin
        /\ Later(driver, e)
    BY <1>1
  <2> HIDE DEF e
  <2> QED
    BY <1>2, <1>3, <2>1, LaterKeeps
<1>5. Types'
  BY <1>1, <1>2 DEF IInv, Types
<1> QED
  BY <1>4, <1>5 DEF IInv

(* A click is counted.                                                      *)
LEMMA Clicked ==
  ASSUME IInv, Click
  PROVE  clicks' \in 0..MaxClicks
<1>1. MaxClicks \in Nat
  BY DriverAssumption
<1> QED
  BY <1>1 DEF IInv, Types, Click

(* A patient user waits for the end of DoDebug's Yield loop.                *)
LEMMA CalmIsPatient ==
  ASSUME Calm
  PROVE  Patient => ~starting
BY DEF Calm, Patient

(* Breakpoints that change while the program runs.                          *)
LEMMA InterruptedStep ==
  ASSUME IInv, NEW s \in Editors(driver), Interrupted(s), Click, Calm,
         UNCHANGED <<m_pProcess, starting, events>>
  PROVE  IInv'
<1> DEFINE t == IF IsStopped THEN s ELSE [s EXCEPT !.d = Continue(@)]
<1>1. t \in Editors(driver)
  <2>1. Later(driver, s.d)
    BY EditorsSet
  <2>2. Later(driver, Continue(s.d))
    BY <2>1, ContinueLater
  <2>3. [s EXCEPT !.d = Continue(s.d)] \in Editors(driver)
    BY <2>2, EditorsSet
  <2> QED
    BY <2>3
<1>2. Becomes(t) /\ gdb' = Break(gdb)
  BY DEF Interrupted
<1> HIDE DEF t
<1> QED
  BY <1>1, <1>2, EditStep, Clicked, CalmIsPatient

(* The editor's list holds breakpoints.                                     *)
LEMMA InList ==
  ASSUME IInv
  PROVE  Range(m_Breakpoints) \subseteq Bps
BY DEF IInv, Types, Lists, Range

(* The user adds, removes and edits breakpoints.                            *)
LEMMA BreakpointSteps ==
  ASSUME IInv, NEW b \in Bps
  PROVE  /\ \A line \in Lines : AddBreakpoint(b, line) => IInv'
         /\ RemoveBreakpoint(b) => IInv'
         /\ OnRemoveAllBreakpoints => IInv'
         /\ AddDataBreakpoint(b) => IInv'
         /\ RemoveDataBreakpoint(b) => IInv'
         /\ \A enabled \in BOOLEAN, o \in Options : OnBreakpointEdit(b, enabled, o[1], o[2]) => IInv'
<1>1. Here \in Editors(driver) /\ Here.list = m_Breakpoints /\ Here.bp = bp /\ Here.d = driver
  BY HereEdits
<1>2. ASSUME NEW line \in Lines, AddBreakpoint(b, line) PROVE IInv'
  <2>1. b \notin Range(Here.list)
    BY <1>1, <1>2 DEF AddBreakpoint, Unused
  <2>2. AddAt(Here, b, line, FALSE) \in Editors(driver)
    BY <1>1, <2>1, AddAtKeeps
  <2> QED
    BY <1>2, <2>2, InterruptedStep DEF AddBreakpoint
<1>3. ASSUME RemoveBreakpoint(b) PROVE IInv'
  <2>1. StateRemove(Here, b) \in Editors(driver)
    BY <1>1, StateRemoveKeeps
  <2> QED
    BY <1>3, <2>1, InterruptedStep DEF RemoveBreakpoint
<1>4. ASSUME OnRemoveAllBreakpoints PROVE IInv'
  <2>1. m_Breakpoints \in Seq(Bps)
    BY DEF IInv, Types, Lists
  <2>2. FoldLeft(StateRemove, Here, m_Breakpoints) \in Editors(driver)
    BY <1>1, <2>1, RemoveAllKeeps
  <2> QED
    BY <1>4, <2>2, EditStep, Clicked, CalmIsPatient DEF OnRemoveAllBreakpoints
<1>5. ASSUME AddDataBreakpoint(b) PROVE IInv'
  <2> DEFINE s == [Here EXCEPT !.bp[b] = Fresh]
  <2>1. s \in Editors(driver) /\ s.list = m_Breakpoints
    <3>1. s \in Editors(driver)
      BY <1>1, EditorsSet, FreshIsTyped
    <3>2. s.list = Here.list
      BY DEF Here
    <3> QED
      BY <1>1, <3>1, <3>2
  <2>2. b \notin Range(s.list)
    BY <1>5, <2>1 DEF AddDataBreakpoint, Unused
  <2> HIDE DEF s
  <2>3. StateAdd(s, b) \in Editors(driver)
    BY <2>1, <2>2, StateAddKeeps
  <2> QED
    BY <1>5, <2>3, EditStep, Clicked, CalmIsPatient DEF AddDataBreakpoint, s
<1>6. ASSUME RemoveDataBreakpoint(b) PROVE IInv'
  <2>1. StateRemove(Here, b) \in Editors(driver)
    BY <1>1, StateRemoveKeeps
  <2> QED
    BY <1>6, <2>1, EditStep, Clicked, CalmIsPatient DEF RemoveDataBreakpoint
<1>7. ASSUME NEW enabled \in BOOLEAN, NEW o \in Options, OnBreakpointEdit(b, enabled, o[1], o[2])
      PROVE  IInv'
  <2> DEFINE cond == o[1]
             ign == o[2]
             f == [bp[b] EXCEPT !.enabled = enabled, !.useCondition = cond, !.useIgnoreCount = ign]
             s == [Here EXCEPT !.bp[b].enabled = enabled, !.bp[b].useCondition = cond,
                               !.bp[b].useIgnoreCount = ign]
  <2>1. cond \in BOOLEAN /\ ign \in BOOLEAN /\ ~(cond /\ ign)
    <3>1. o = <<FALSE, FALSE>> \/ o = <<TRUE, FALSE>> \/ o = <<FALSE, TRUE>>
      BY DEF Options
    <3>2. CASE o = <<FALSE, FALSE>>
      BY <3>2
    <3>3. CASE o = <<TRUE, FALSE>>
      BY <3>3
    <3>4. CASE o = <<FALSE, TRUE>>
      BY <3>4
    <3> QED
      BY <3>1, <3>2, <3>3, <3>4
  <2>2. bp[b] \in Fields
    BY DEF IInv, Types
  <2> HIDE DEF cond, ign
  <2>3. f \in Fields
    BY <2>1, <2>2 DEF Fields
  <2>4. s = [Here EXCEPT !.bp[b] = f]
    BY <1>1, ZenonT(30) DEF Here
  <2> HIDE DEF f, s
  <2>5. s \in Editors(driver)
    BY <1>1, <2>3, <2>4, EditorsSet
  <2>6. StateRemove(s, b) \in Editors(driver) /\ b \notin Range(StateRemove(s, b).list)
    BY <2>5, StateRemoveKeeps
  <2>7. StateAdd(StateRemove(s, b), b) \in Editors(driver)
    BY <2>6, StateAddKeeps
  <2> QED
    BY <1>7, <2>7, EditStep, Clicked, CalmIsPatient DEF OnBreakpointEdit, s, cond, ign
<1> QED
  BY <1>2, <1>3, <1>4, <1>5, <1>6, <1>7

(* The user removes lines.                                                  *)
LEMMA LinesRemovedStep ==
  ASSUME IInv, NEW startline \in Lines, LinesRemoved(startline, 1)
  PROVE  IInv'
<1> DEFINE endline == startline + 1 - 1
           s == RemoveWhere(Here, LAMBDA b : b \in CodeBps /\ bp[b].line \in startline..endline)
           t == ShiftBreakpoints(s, endline + 1, 0 - 1)
<1>1. Here \in Editors(driver) /\ Here.bp = bp
  BY HereEdits
<1>2. s \in Editors(driver) /\ s.bp = bp
  <2> DEFINE u == Going!Fold(startline, endline, Here, Reverse(Here.list))
  <2>1. s = u
    BY DEF RemoveWhere, FoldLeft, MapThenFoldSet, Max, Going!Fold, Going!Top, GoneOp
  <2>2. u \in Editors(driver) /\ u.bp = bp
    BY <1>1, RemoveWhereKeeps
  <2> QED
    BY <2>1, <2>2
<1>3. t \in Editors(driver)
  <2>1. startline \in Nat /\ startline >= 1 /\ endline = startline /\ endline + 1 \in Int /\ 0 - 1 \in Int
    BY DEF Lines
  <2>2. MaxLine \in Nat
    BY DriverAssumption
  <2> HIDE DEF s, endline
  <2>3. ASSUME NEW b \in Range(s.list) \cap CodeBps, s.bp[b].line >= endline + 1
        PROVE  s.bp[b].line + (0 - 1) \in 0..MaxLine
    <3>1. s.bp[b].line \in 0..MaxLine
      BY <1>2 DEF Bps, IInv, Types, Fields
    <3> QED
      BY <2>1, <2>2, <2>3, <3>1
  <2> QED
    BY <1>2, <2>1, <2>3, ShiftKeeps
<1>4. Becomes(t)
  BY DEF LinesRemoved
<1> HIDE DEF t
<1> QED
  BY <1>3, <1>4, EditStep, Clicked, CalmIsPatient DEF LinesRemoved

(* The user adds lines; the breakpoints below stay in the file.             *)
LEMMA LinesAddedStep ==
  ASSUME IInv, NEW startline \in 0..MaxLine, LinesAdded(startline, 1)
  PROVE  IInv'
<1> DEFINE t == ShiftBreakpoints(Here, startline + 1, 1)
<1>1. Here \in Editors(driver) /\ Here.bp = bp /\ Here.list = m_Breakpoints
  BY HereEdits
<1>2. MaxLine \in Nat
  BY DriverAssumption
<1>3. startline + 1 \in Int
  BY <1>2
<1>4. ASSUME NEW b \in Range(Here.list) \cap CodeBps
      PROVE  Here.bp[b].line + 1 \in 0..MaxLine
  <2>1. bp[b].line \in 0..MaxLine
    BY DEF Bps, IInv, Types, Fields
  <2>2. bp[b].line + 1 <= MaxLine
    BY <1>1 DEF LinesAdded
  <2> QED
    BY <1>1, <1>2, <2>1, <2>2
<1>5. t \in Editors(driver)
  BY <1>1, <1>3, <1>4, ShiftKeeps
<1>6. Becomes(t)
  BY DEF LinesAdded
<1> HIDE DEF t
<1> QED
  BY <1>5, <1>6, EditStep, Clicked, CalmIsPatient DEF LinesAdded
-----------------------------------------------------------------------------
(* The session.                                                            *)

(* DoDebug starts a session: the driver and the process are new, and no     *)
(* event of an older session is left.                                       *)
LEMMA LaunchStep ==
  ASSUME IInv, NEW s \in Editors(driver), Launch(s), CanDebug, events' = events,
         clicks' \in 0..MaxClicks
  PROVE  IInv'
<1>1. ~m_pProcess /\ ~driver.up /\ events = <<>>
  BY DEF CanDebug, IInv, Life
<1>2. s.list \in Lists /\ s.bp \in [Bps -> Fields]
  BY EditorsSet
<1>3. bp' \in [Bps -> Fields]
  <2>1. \A b \in Bps : Contains(s.list, b) => (CHOOSE i \in DOMAIN s.list : s.list[i] = b) \in Int
    <3>1. DOMAIN s.list = 1..Len(s.list) /\ Len(s.list) \in Nat
      BY <1>2 DEF Lists
    <3>2. ASSUME NEW b \in Bps, Contains(s.list, b)
          PROVE  (CHOOSE i \in DOMAIN s.list : s.list[i] = b) \in DOMAIN s.list
      BY <3>1, <3>2 DEF Contains
    <3> QED
      BY <3>1, <3>2
  <2>2. ASSUME NEW b \in Bps
        PROVE  (IF Contains(s.list, b)
                THEN [s.bp[b] EXCEPT !.index = CHOOSE i \in DOMAIN s.list : s.list[i] = b]
                ELSE s.bp[b]) \in Fields
    <3>1. s.bp[b] \in Fields
      BY <1>2
    <3> QED
      BY <2>1, <3>1, FieldsSet
  <2> QED
    BY <2>2 DEF Launch
<1>4. Len(s.list) \in Nat
  BY <1>2 DEF Lists
<1>5. /\ driver' \in Drivers /\ driver'.up /\ driver'.open /\ driver'.m_DCmds = <<>>
      /\ driver'.m_QueueBusy = FALSE /\ driver'.m_ProgramIsStopped = TRUE /\ driver'.stdin = <<>>
  <2> DEFINE n == Len(s.list)
             e == [NoDriver EXCEPT !.up = TRUE, !.open = TRUE, !.auto = n]
  <2>1. driver' = e
    BY DEF Launch
  <2> HIDE DEF n
  <2>2. /\ e.up /\ e.open /\ e.m_DCmds = <<>> /\ e.m_QueueBusy = FALSE
        /\ e.m_ProgramIsStopped = TRUE
        /\ e.stdin = <<>>
    BY DEF NoDriver
  <2>3. e \in Drivers
    <3>1. <<>> \in Seq(Queueable) /\ n \in Nat
      BY <1>4 DEF n
    <3> QED
      BY <3>1 DEF NoDriver, Drivers
  <2> QED
    BY <2>1, <2>2, <2>3
<1>6. IsGdb(gdb') /\ gdb'.state = "prompt"
  <2>1. Plain("none") \in Queueable
    BY PlainIsQueueable DEF Kinds
  <2> QED
    BY <2>1 DEF Launch, NoGdb, IsGdb
<1>7. m_pProcess' = TRUE /\ starting' = TRUE /\ m_Breakpoints' = s.list
  BY DEF Launch
<1>8. Types'
  BY <1>2, <1>3, <1>5, <1>6, <1>7 DEF IInv, Types
<1>9. AnswerAt' = {} /\ Terminated' = {}
  BY <1>1 DEF AnswerAt, Terminated
<1>10. Life' /\ Queue' /\ Owed'
  <2>1. Life'
    BY <1>5, <1>6, <1>7, <1>9 DEF Life
  <2>2. Queue'
    BY <1>5, <1>6, <1>9 DEF Queue
  <2>3. Owed'
    BY <1>5, <1>6, <1>7, <1>9 DEF Owed, Answering, PromptFirst
  <2> QED
    BY <2>1, <2>2, <2>3
<1> QED
  BY <1>8, <1>10 DEF IInv

(* RunToCursor sets a temporary breakpoint, then continues or starts a      *)
(* session.                                                                 *)
LEMMA RunToCursorStep ==
  ASSUME IInv, NEW b \in Bps, NEW line \in Lines, RunToCursor(b, line)
  PROVE  IInv'
<1> DEFINE s == AddAt(Here, b, line, TRUE)
<1>1. Here \in Editors(driver) /\ Here.list = m_Breakpoints
  BY HereEdits
<1>2. b \notin Range(Here.list)
  BY <1>1 DEF RunToCursor, Unused
<1>3. s \in Editors(driver)
  BY <1>1, <1>2, AddAtKeeps
<1>4. /\ events' = events /\ Click /\ Calm
      /\ IF m_pProcess
         THEN Becomes([s EXCEPT !.d = Continue(@)]) /\ UNCHANGED <<m_pProcess, starting, gdb>>
         ELSE CanDebug /\ Launch(s)
  BY DEF RunToCursor
<1> HIDE DEF s
<1>5. CASE m_pProcess
  <2>1. Later(driver, Continue(s.d))
    BY <1>3, EditorsSet, ContinueLater
  <2>2. [s EXCEPT !.d = Continue(s.d)] \in Editors(driver)
    BY <1>3, <2>1, EditorsSet
  <2> QED
    BY <1>4, <1>5, <2>2, EditStep, Clicked, CalmIsPatient
<1>6. CASE ~m_pProcess
  BY <1>3, <1>4, <1>6, LaunchStep, Clicked
<1> QED
  BY <1>5, <1>6

(* Debug starts a session.                                                  *)
LEMMA DebugStep ==
  ASSUME IInv, Debug
  PROVE  IInv'
BY HereEdits, LaunchStep, Clicked DEF Debug

(* Handlers that touch only the driver.                                     *)
LEMMA DriverStep ==
  ASSUME IInv, NEW e, Later(driver, e), driver' = e, Click, Calm,
         UNCHANGED <<m_Breakpoints, bp, m_pProcess, starting, gdb, events>>
  PROVE  IInv'
<1> DEFINE s == [Here EXCEPT !.d = e]
<1>1. s \in Editors(driver)
  BY HereEdits, EditorsSet
<1>2. Becomes(s)
  BY DEF Here, Becomes
<1> HIDE DEF s
<1> QED
  BY <1>1, <1>2, EditStep, Clicked, CalmIsPatient

(* OnContinue and the stepping commands.                                    *)
LEMMA ResumeStep ==
  ASSUME IInv, NEW kind \in {"cont", "next"}, Resume(kind)
  PROVE  IInv'
<1> DEFINE e == IF kind = "cont" THEN Continue(driver) ELSE QueueLow(driver, Plain(kind))
<1>1. Later(driver, driver) /\ driver.up
  BY HereEdits DEF Resume
<1>2. Plain(kind) \in Queueable
  BY PlainIsQueueable DEF Kinds
<1>3. Later(driver, e)
  BY <1>1, <1>2, ContinueLater, QueueLowLater
<1>4. driver' = e /\ Click /\ Calm /\ UNCHANGED <<m_Breakpoints, bp, m_pProcess, starting, gdb, events>>
  BY DEF Resume
<1> HIDE DEF e
<1> QED
  BY <1>3, <1>4, DriverStep

(* A tooltip queues one command.                                            *)
LEMMA OnValueTooltipStep ==
  ASSUME IInv, OnValueTooltip
  PROVE  IInv'
<1>1. Later(driver, driver) /\ driver.up
  BY HereEdits DEF OnValueTooltip
<1>2. Plain("whatis") \in Queueable
  BY PlainIsQueueable DEF Kinds
<1>3. Later(driver, QueueLow(driver, Plain("whatis")))
  BY <1>1, <1>2, QueueLowLater
<1> QED
  BY <1>3, DriverStep DEF OnValueTooltip

(* Stop() queues "quit", if need be to a pipe that is closed already, and   *)
(* closes the pipe.                                                         *)
LEMMA StopStep ==
  ASSUME IInv, driver.up, m_pProcess, driver' = Stop(driver), clicks' \in 0..MaxClicks,
         IsGdb(gdb'), gdb'.state = gdb.state, gdb'.trusted = gdb.trusted, gdb'.asked = gdb.asked,
         UNCHANGED <<m_Breakpoints, bp, m_pProcess, starting, events>>
  PROVE  IInv'
<1> DEFINE c == Plain("quit")
           e == QueueLow(driver, c)
           shut == [driver EXCEPT !.open = FALSE]
           f == QueueLow(IF IsStopped THEN driver ELSE shut, c)
<1>1. Later(driver, driver) /\ Good(driver) /\ driver \in Drivers
  BY HereEdits DEF Good
<1>2. c \in Queueable
  BY PlainIsQueueable DEF Kinds
<1>3. Later(driver, e)
  BY <1>1, <1>2, QueueLowLater
<1>4. driver' = [f EXCEPT !.m_IsStarted = FALSE, !.open = FALSE]
  BY DEF Stop
<1>5. /\ f \in Drivers /\ f.up = e.up /\ f.m_DCmds = e.m_DCmds /\ f.m_QueueBusy = e.m_QueueBusy
      /\ f.m_ProgramIsStopped = e.m_ProgramIsStopped /\ f.stdin = e.stdin
  <2>1. CASE IsStopped
    BY <1>3, <2>1 DEF Later, Good
  <2>2. CASE ~IsStopped
    <3>1. driver.m_QueueBusy
      BY <1>1, <2>2 DEF IsStopped, Good
    <3>2. shut \in Drivers /\ shut.m_QueueBusy
      BY <1>1, <3>1 DEF Drivers
    <3>3. e = [driver EXCEPT !.m_DCmds = Append(driver.m_DCmds, c)]
      BY <1>1, <3>1 DEF QueueLow, RunQueue, Drivers
    <3>4. f = [shut EXCEPT !.m_DCmds = Append(driver.m_DCmds, c)]
      BY <1>1, <2>2, <3>2 DEF QueueLow, RunQueue, Drivers
    <3>5. Append(driver.m_DCmds, c) \in Seq(Queueable)
      BY <1>1, <1>2 DEF Drivers
    <3> HIDE DEF c, e, f
    <3> QED
      BY <1>1, <3>3, <3>4, <3>5 DEF Drivers
  <2> QED
    BY <2>1, <2>2
<1> HIDE DEF e, f
<1>6. /\ driver' \in Drivers /\ driver'.up = e.up /\ driver'.m_DCmds = e.m_DCmds
      /\ driver'.m_QueueBusy = e.m_QueueBusy /\ driver'.m_ProgramIsStopped = e.m_ProgramIsStopped
      /\ driver'.stdin = e.stdin /\ ~driver'.open
  BY <1>4, <1>5 DEF Drivers
<1>7. Life' /\ Queue' /\ Owed'
  BY <1>3, <1>6, LaterKeeps
<1>8. Types'
  BY <1>6 DEF IInv, Types
<1> QED
  BY <1>7, <1>8 DEF IInv

(* OnStop interrupts the program or stops the session.                      *)
LEMMA OnStopStep ==
  ASSUME IInv, OnStop
  PROVE  IInv'
<1>1. CASE ~IsStopped /\ Calm /\ gdb' = Break(gdb) /\ UNCHANGED driver
  <2>1. Here \in Editors(driver) /\ Becomes(Here)
    BY <1>1, HereEdits DEF OnStop, Becomes
  <2> QED
    BY <1>1, <2>1, EditStep, Clicked, CalmIsPatient DEF OnStop
<1>2. CASE IsStopped /\ driver' = Stop(driver) /\ UNCHANGED gdb
  <2>1. IsGdb(gdb')
    BY <1>2 DEF IInv, Types
  <2> QED
    BY <1>2, <2>1, StopStep, Clicked DEF OnStop
<1> QED
  BY <1>1, <1>2 DEF OnStop

(* OnProjectActivated kills the program and stops the session.              *)
LEMMA OnProjectActivatedStep ==
  ASSUME IInv, OnProjectActivated
  PROVE  IInv'
<1>1. /\ IsGdb(gdb') /\ gdb'.state = gdb.state /\ gdb'.trusted = gdb.trusted
      /\ gdb'.asked = gdb.asked
  <2>1. IsGdb(gdb)
    BY DEF IInv, Types
  <2>2. gdb' \in {gdb, [gdb EXCEPT !.killed = TRUE]}
    BY DEF OnProjectActivated
  <2> QED
    BY <2>1, <2>2 DEF IsGdb
<1> QED
  BY <1>1, StopStep, Clicked DEF OnProjectActivated

(* Two commands are queued.                                                 *)
LEMMA QueueTwo ==
  ASSUME NEW d, NEW c1 \in Queueable, NEW c2 \in Queueable
  PROVE  QueueAll(d, <<c1, c2>>) = QueueLow(QueueLow(d, c1), c2)
<1> DEFINE d1 == QueueLow(d, c1)
           d2 == QueueLow(d1, c2)
           S == [k \in 0..2 |-> IF k = 0 THEN {d} ELSE IF k = 1 THEN {d1} ELSE {d2}]
           cs == <<c1, c2>>
<1>1. cs \in Seq(Queueable) /\ Len(cs) = 2 /\ cs[1] = c1 /\ cs[2] = c2
  OBVIOUS
<1>2. S[0] = {d} /\ S[1] = {d1} /\ S[2] = {d2}
  OBVIOUS
<1>a. d1 = QueueLow(d, c1) /\ d2 = QueueLow(d1, c2)
  OBVIOUS
<1> HIDE DEF cs, S, d1, d2
<1>3. ASSUME NEW k \in 0..(Len(cs) - 1), NEW t \in S[k] PROVE LowOp(0, 0, t, cs[k + 1]) \in S[k + 1]
  <2>1. k = 0 \/ k = 1
    BY <1>1
  <2>2. CASE k = 0
    BY <1>1, <1>2, <1>a, <2>2 DEF LowOp
  <2>3. CASE k = 1
    BY <1>1, <1>2, <1>a, <2>3 DEF LowOp
  <2> QED
    BY <2>1, <2>2, <2>3
<1>4. Low!Fold(0, 0, d, cs) \in S[Len(cs)]
  BY <1>1, <1>2, <1>3, Low!FoldSteps
<1>5. QueueAll(d, cs) = Low!Fold(0, 0, d, cs)
  BY TheFolds
<1> QED
  BY <1>1, <1>2, <1>4, <1>5 DEF cs, d1, d2

(* What the start makes of the driver and the breakpoints.                  *)
LEMMA FinishStartIs ==
  ASSUME IInv, FinishStart, driver.up
  PROVE  LET d1 == QueueLow(driver, Plain("prompt"))
             d2 == QueueLow(d1, Plain("catch"))
             prepared == [Here EXCEPT !.d = d2]
             s == ApplyBreakpoints(prepared)
             e == QueueLow(s.d, Plain("run"))
         IN  /\ Later(driver, d1) /\ Later(d1, d2) /\ Later(driver, d2) /\ Later(driver, s.d)
             /\ Later(d1, e) /\ Later(driver, e)
             /\ ~driver.m_QueueBusy => d1.m_QueueBusy
             /\ ~driver.m_QueueBusy /\ m_pProcess /\ driver.open => d1.stdin = <<Plain("prompt")>>
             /\ prepared \in Editors(driver) /\ prepared.bp = bp /\ prepared.d = d2
             /\ s \in Editors(driver)
             /\ m_Breakpoints' = s.list /\ bp' = s.bp
             /\ driver' \in Drivers /\ driver'.up = e.up /\ driver'.m_DCmds = e.m_DCmds
             /\ driver'.m_QueueBusy = e.m_QueueBusy /\ driver'.open = e.open
             /\ driver'.m_ProgramIsStopped = e.m_ProgramIsStopped /\ driver'.stdin = e.stdin
<1> DEFINE p == Plain("prompt")
           c == Plain("catch")
           r == Plain("run")
           d1 == QueueLow(driver, p)
           d2 == QueueLow(d1, c)
           prepared == [Here EXCEPT !.d = d2]
           s == ApplyBreakpoints(prepared)
           e == QueueLow(s.d, r)
<1>0. Good(driver) /\ Later(driver, driver) /\ Here \in Editors(driver) /\ Here.d = driver /\ Here.bp = bp
  BY HereEdits
<1>1. p \in Queueable /\ c \in Queueable /\ r \in Queueable /\ p.kind \notin Empty
  <2>1. p.kind = "prompt"
    BY DEF Plain, Cmd
  <2> QED
    BY <2>1, PlainIsQueueable DEF Kinds, Empty
<1> HIDE DEF p, c, r
<1>2. /\ Later(driver, d1) /\ d1.up = driver.up
      /\ ~driver.m_QueueBusy => d1.m_QueueBusy
      /\ ~driver.m_QueueBusy /\ m_pProcess /\ driver.open => d1.stdin = <<p>>
  <2>1. Later(driver, d1)
    BY <1>0, <1>1, QueueLowLater
  <2>2. /\ ~driver.m_QueueBusy => d1.m_QueueBusy
        /\ ~driver.m_QueueBusy /\ m_pProcess /\ driver.open => d1.stdin = <<p>>
    BY <1>0, <1>1, QueueLowLater
  <2> QED
    BY <2>1, <2>2 DEF Later
<1>3. QueueAll(driver, <<p, c>>) = d2
  BY <1>1, QueueTwo
<1> HIDE DEF d1
<1>4. Later(d1, d1) /\ Later(d1, d2) /\ Later(driver, d2) /\ d2.up
  <2>1. Later(d1, d1)
    BY <1>2, LaterSelf DEF Later
  <2>2. Later(d1, d2)
    BY <1>1, <1>2, <2>1, QueueLowLater
  <2>3. Later(driver, d2)
    BY <1>1, <1>2, QueueLowLater
  <2>4. d2.up
    BY <2>3 DEF Later
  <2> QED
    BY <2>1, <2>2, <2>3, <2>4
<1> HIDE DEF d2
<1>5. /\ prepared \in Editors(d1) /\ prepared \in Editors(driver)
      /\ prepared.bp = bp /\ prepared.d = d2
  <2>1. d2 \in Drivers
    BY <1>4 DEF Later, Good
  <2>2. Here \in [list : Lists, bp : [Bps -> Fields], d : Drivers]
    BY <1>0 DEF Editors
  <2> QED
    BY <1>0, <1>4, <2>1, <2>2 DEF Editors
<1>6. s \in Editors(d1) /\ s \in Editors(driver)
  BY <1>5, ApplyKeeps
<1>a. prepared = [Here EXCEPT !.d = QueueAll(@, <<Plain("prompt"), Plain("catch")>>)]
  BY <1>0, <1>3 DEF p, c
<1>b. s = ApplyBreakpoints(prepared)
  OBVIOUS
<1> HIDE DEF prepared, s
<1>7. Later(driver, s.d) /\ Later(d1, e) /\ Later(driver, e)
  <2>1. Later(d1, s.d) /\ Later(driver, s.d)
    BY <1>6, EditorsSet
  <2>2. s.d.up
    BY <2>1 DEF Later
  <2> QED
    BY <1>1, <2>1, <2>2, QueueLowLater
<1>8. driver' = [e EXCEPT !.m_IsStarted = TRUE] /\ m_Breakpoints' = s.list /\ bp' = s.bp
  <2> DEFINE u == [s EXCEPT !.d = [QueueLow(@, Plain("run")) EXCEPT !.m_IsStarted = TRUE]]
  <2>1. Becomes(u)
    BY <1>a, <1>b DEF FinishStart
  <2>2. u.list = s.list /\ u.bp = s.bp /\ u.d = [e EXCEPT !.m_IsStarted = TRUE]
    BY <1>6 DEF Editors, r
  <2> HIDE DEF u
  <2> QED
    BY <2>1, <2>2 DEF Becomes
<1>9. /\ driver' \in Drivers /\ driver'.up = e.up /\ driver'.m_DCmds = e.m_DCmds
      /\ driver'.m_QueueBusy = e.m_QueueBusy /\ driver'.open = e.open
      /\ driver'.m_ProgramIsStopped = e.m_ProgramIsStopped /\ driver'.stdin = e.stdin
  <2>1. e \in Drivers
    BY <1>7 DEF Later, Good
  <2> HIDE DEF e
  <2> QED
    BY <1>8, <2>1 DEF Drivers
<1> QED
  BY <1>2, <1>4, <1>5, <1>6, <1>7, <1>8, <1>9 DEF d1, d2, prepared, s, p, c, r

(* The start queues its first command, "set prompt", on an idle driver, and *)
(* GDB answers nothing before it.                                           *)
LEMMA FinishStartStep ==
  ASSUME IInv, FinishStart
  PROVE  IInv'
<1>1. /\ starting /\ starting' = FALSE
      /\ UNCHANGED <<m_pProcess, gdb, events, clicks>>
  BY DEF FinishStart, EndOfYield
<1>2. Life /\ Queue /\ Owed /\ Types /\ Good(driver) /\ Later(driver, driver)
  BY HereEdits DEF IInv
<1>3. /\ AnswerAt' = AnswerAt /\ Terminated' = Terminated
      /\ gdb'.state = gdb.state /\ gdb'.trusted = gdb.trusted /\ gdb'.asked = gdb.asked
  BY <1>1 DEF AnswerAt, Terminated
<1>4. CASE ~driver.up
  <2>1. UNCHANGED <<m_Breakpoints, bp, driver>>
    BY <1>4 DEF FinishStart
  <2>2. Types'
    BY <1>1, <1>2, <2>1 DEF Types
  <2>3. Life'
    BY <1>1, <1>2, <1>3, <2>1 DEF Life
  <2>4. Queue'
    <3>1. driver' = driver /\ gdb' = gdb /\ events' = events
      BY <1>1, <2>1
    <3>2. \A c : Asked(c) <=> Asked(c)'
      BY <3>1 DEF Asked
    <3> QED
      BY <1>2, <1>3, <3>1, <3>2 DEF Queue
  <2>5. Owed'
    BY <1>4, <2>1 DEF Owed, Answering, PromptFirst
  <2> QED
    BY <2>2, <2>3, <2>4, <2>5 DEF IInv
<1>5. CASE driver.up
  <2> DEFINE p == Plain("prompt")
             d1 == QueueLow(driver, p)
             prepared == [Here EXCEPT !.d = QueueLow(d1, Plain("catch"))]
             s == ApplyBreakpoints(prepared)
             e == QueueLow(s.d, Plain("run"))
  <2>1. /\ Later(driver, d1) /\ Later(d1, e) /\ Later(driver, e)
        /\ ~driver.m_QueueBusy => d1.m_QueueBusy
        /\ ~driver.m_QueueBusy /\ m_pProcess /\ driver.open => d1.stdin = <<p>>
        /\ s \in Editors(driver) /\ m_Breakpoints' = s.list /\ bp' = s.bp
        /\ driver' \in Drivers /\ driver'.up = e.up /\ driver'.m_DCmds = e.m_DCmds
        /\ driver'.m_QueueBusy = e.m_QueueBusy /\ driver'.open = e.open
        /\ driver'.m_ProgramIsStopped = e.m_ProgramIsStopped /\ driver'.stdin = e.stdin
    BY <1>5, FinishStartIs
  <2> HIDE DEF d1, prepared, s, e, p
  <2>2. Types'
    BY <1>1, <1>2, <2>1 DEF Types, Editors
  <2>3. Life' /\ Queue' /\ Owed'
    <3>1. e.open = driver.open /\ e.up = driver.up
      BY <2>1 DEF Later
    <3>2. ~driver.m_QueueBusy /\ m_pProcess /\ driver.open => e.stdin = <<p>>
      BY <2>1 DEF Later
    <3>3. Life' /\ Queue' /\ Answering'
      BY <1>1, <1>3, <2>1, <3>1, LaterKeeps
    <3>4. PromptFirst'
      BY <1>1, <1>2, <1>3, <2>1, <3>1, <3>2 DEF Owed, PromptFirst, Life, p
    <3> QED
      BY <3>3, <3>4 DEF Owed
  <2> QED
    BY <2>2, <2>3 DEF IInv
<1> QED
  BY <1>4, <1>5
-----------------------------------------------------------------------------
(* The answers.                                                            *)

(* The driver while it parses an answer: ready, and still that of d.        *)
Parsers(d) ==
    {s \in [list : Lists, bp : [Bps -> Fields], d : Drivers] :
        Ready(s.d) /\ s.d.up = d.up /\ s.d.open = d.open}

(* What an answer may do to a state of the editor and the driver.           *)
LEMMA ParsersSet ==
  ASSUME NEW d, NEW s \in Parsers(d)
  PROVE  /\ s.list \in Lists /\ s.bp \in [Bps -> Fields] /\ s.d \in Drivers /\ Ready(s.d)
         /\ s.d.up = d.up /\ s.d.open = d.open
         /\ \A e : Ready(e) /\ e.up = d.up /\ e.open = d.open => [s EXCEPT !.d = e] \in Parsers(d)
         /\ \A b \in Bps, f \in Fields : [s EXCEPT !.bp[b] = f] \in Parsers(d)
<1>1. \A e : Ready(e) => e \in Drivers
  BY DEF Ready
<1> QED
  BY <1>1 DEF Parsers

(* In front of a queue that is busy only a tooltip on an unknown word puts  *)
(* a command.                                                               *)
LEMMA QueueHighReady ==
  ASSUME NEW d, NEW s \in Parsers(d), d.up = TRUE, NEW c \in Queueable,
         s.d.m_QueueBusy => ~KnownWords
  PROVE  [s EXCEPT !.d = QueueHigh(@, c)] \in Parsers(d)
<1> DEFINE e == s.d
           f == [e EXCEPT !.m_DCmds = <<c>> \o @]
           g == QueueHigh(e, c)
<1>1. e \in Drivers /\ Ready(e) /\ e.up = d.up /\ e.open = d.open
  BY ParsersSet
<1>2. <<c>> \o e.m_DCmds \in Seq(Queueable) /\ <<c>> \o e.m_DCmds # <<>>
  <2>1. e.m_DCmds \in Seq(Queueable)
    BY <1>1 DEF Drivers
  <2>2. <<c>> \in Seq(Queueable)
    OBVIOUS
  <2> HIDE DEF e
  <2>3. <<c>> \o e.m_DCmds \in Seq(Queueable)
    BY <2>1, <2>2
  <2>4. Len(<<c>> \o e.m_DCmds) = Len(<<c>>) + Len(e.m_DCmds)
    BY <2>1, <2>2, ConcatLen
  <2>5. Len(<<c>>) = 1 /\ Len(e.m_DCmds) \in Nat
    BY <2>1
  <2>6. Len(<<c>> \o e.m_DCmds) # 0
    BY <2>4, <2>5
  <2> QED
    BY <2>3, <2>6
<1> HIDE DEF e
<1>3. /\ f \in Drivers /\ f.m_DCmds # <<>> /\ f.m_QueueBusy = e.m_QueueBusy /\ f.up = e.up
      /\ f.open = e.open /\ f.stdin = e.stdin /\ f.m_ProgramIsStopped = e.m_ProgramIsStopped
  BY <1>1, <1>2 DEF Drivers
<1>4. g = RunQueue(f)
  BY DEF QueueHigh
<1> HIDE DEF f, g
<1>5. Ready(f)
  BY <1>1, <1>3 DEF Ready, Sent, e
<1>6. Ready(g) /\ g.up = d.up /\ g.open = d.open
  BY <1>1, <1>3, <1>4, <1>5, RunQueueReady
<1>7. [s EXCEPT !.d = g] \in Parsers(d)
  BY <1>6, ParsersSet
<1> QED
  BY <1>7 DEF g, e

(* A breakpoint has a condition or an ignore count, not both: the command   *)
(* for it is sent, and no other.                                            *)
LEMMA SetOptionsReady ==
  ASSUME NEW d, NEW s \in Parsers(d), d.up = TRUE, ~s.d.m_QueueBusy, NEW b \in Bps
  PROVE  SetOptions(s, b) \in Parsers(d)
<1> DEFINE n == s.bp[b].index
           s1 == IF s.bp[b].useCondition
                 THEN [s EXCEPT !.d = QueueHigh(@, Cmd("condition", b, n))] ELSE s
<1>1. s.bp[b] \in Fields /\ n \in Int /\ ~(s.bp[b].useCondition /\ s.bp[b].useIgnoreCount)
  BY ParsersSet DEF Fields
<1>2. Cmd("condition", b, n) \in Queueable /\ Cmd("ignore", b, n) \in Queueable
  BY <1>1, CmdIsQueueable DEF Kinds
<1>3. s1 \in Parsers(d)
  BY <1>2, QueueHighReady
<1>4. CASE ~s.bp[b].useIgnoreCount
  BY <1>3, <1>4 DEF SetOptions
<1>5. CASE s.bp[b].useIgnoreCount
  <2>1. s1 = s
    BY <1>1, <1>5
  <2>2. SetOptions(s, b) = [s EXCEPT !.d = QueueHigh(@, Cmd("ignore", b, n))]
    BY <1>5, <2>1 DEF SetOptions
  <2> QED
    BY <1>2, <2>2, QueueHighReady
<1> QED
  BY <1>4, <1>5

(* A command that parses its answer puts at most one command in front of    *)
(* the idle queue, except for a tooltip on an unknown word.                 *)
LEMMA CmdParseOutputReady ==
  ASSUME NEW d, NEW s \in Parsers(d), d.up = TRUE, ~s.d.m_QueueBusy,
         NEW c \in Queueable, NEW ans \in Answered
  PROVE  CmdParseOutput(c, ans, s) \in Parsers(d)
<1> DEFINE numbered == [s EXCEPT !.bp[c.bp].index = ans.number]
<1>1. /\ ans.number \in Int /\ (ans.text = "unknown" => ~KnownWords)
      /\ c.kind \in {"break", "tbreak", "watch", "output"} => c.bp \in Bps
      /\ s.bp \in [Bps -> Fields]
  BY ParsersSet DEF Answered, Queueable
<1>2. ASSUME c.kind \in {"break", "tbreak", "watch"}
      PROVE  numbered \in Parsers(d) /\ numbered.d = s.d /\ c.bp \in Bps
  <2> DEFINE f == [s.bp[c.bp] EXCEPT !.index = ans.number]
  <2>1. c.bp \in Bps /\ s.bp[c.bp] \in Fields
    BY <1>1, <1>2
  <2>2. f \in Fields
    BY <1>1, <2>1, FieldsSet
  <2>3. numbered = [s EXCEPT !.bp[c.bp] = f]
    BY <1>1, <2>1 DEF Parsers
  <2>4. numbered.d = s.d
    BY DEF Parsers
  <2> HIDE DEF f
  <2> QED
    BY <2>1, <2>2, <2>3, <2>4, ParsersSet
<1> HIDE DEF numbered
<1>3. CASE c.kind \in {"break", "tbreak", "watch"} /\ ans.text = "breakpoint"
  <2>1. SetOptions(numbered, c.bp) \in Parsers(d)
    BY <1>2, <1>3, SetOptionsReady
  <2>2. CmdParseOutput(c, ans, s) = SetOptions(numbered, c.bp)
    BY <1>3 DEF CmdParseOutput, numbered
  <2> QED
    BY <2>1, <2>2
<1>4. CASE c.kind \in {"break", "tbreak", "watch"} /\ ans.text = "watchpoint"
  <2>1. CmdParseOutput(c, ans, s) = numbered
    BY <1>4 DEF CmdParseOutput, numbered
  <2> QED
    BY <1>2, <1>4, <2>1
<1>5. CASE c.kind = "output" /\ ans.text = "address"
  <2> DEFINE b == c.bp
             o == s.bp[b]
             a == GdbCmd_AddBreakpoint(b, o)
             v == o.alreadySet \/ o.enabled
             f == [o EXCEPT !.index = -1, !.alreadySet = v]
             t == [s EXCEPT !.bp[b] = f]
  <2>1. b \in Bps /\ o \in Fields /\ -1 \in Int /\ v \in BOOLEAN
    BY <1>1, <1>5
  <2>2. f \in Fields
    <3> HIDE DEF v, o
    <3>1. \A n \in Int, set \in BOOLEAN : [o EXCEPT !.index = n, !.alreadySet = set] \in Fields
      BY <2>1, FieldsSet
    <3> QED
      BY <2>1, <3>1
  <2>3. a \in Queueable
    BY <2>1, AddIsQueueable
  <2>4. t \in Parsers(d) /\ t.d = s.d
    <3> HIDE DEF f, b
    <3>1. t.d = s.d
      BY DEF Parsers
    <3> QED
      BY <2>1, <2>2, <3>1, ParsersSet
  <2>5. CmdParseOutput(c, ans, s) = [t EXCEPT !.d = QueueHigh(@, a)]
    <3>1. CmdParseOutput(c, ans, s) = AddCommand(s, c.bp, QueueHigh)
      BY <1>5 DEF CmdParseOutput
    <3>2. AddCommand(s, c.bp, QueueHigh) = [t EXCEPT !.d = QueueHigh(@, a)]
      BY <1>1, <2>1 DEF AddCommand, Parsers
    <3> QED
      BY <3>1, <3>2
  <2> HIDE DEF t, a
  <2> QED
    BY <2>3, <2>4, <2>5, QueueHighReady
<1>6. CASE c.kind = "whatis" /\ ans.text # "unknown"
  <2>1. CmdParseOutput(c, ans, s) = [s EXCEPT !.d = QueueHigh(@, Plain("typed"))]
    BY <1>6 DEF CmdParseOutput
  <2>2. Plain("typed") \in Queueable
    BY PlainIsQueueable DEF Kinds
  <2> QED
    BY <2>1, <2>2, QueueHighReady
<1>7. CASE c.kind = "whatis" /\ ans.text = "unknown"
  <2> DEFINE t == [s EXCEPT !.d = QueueHigh(@, Plain("evaluate"))]
  <2>1. Plain("evaluate") \in Queueable /\ Plain("untyped") \in Queueable
    BY PlainIsQueueable DEF Kinds
  <2>2. t \in Parsers(d)
    BY <2>1, QueueHighReady
  <2>3. CmdParseOutput(c, ans, s) = [t EXCEPT !.d = QueueHigh(@, Plain("untyped"))]
    BY <1>7 DEF CmdParseOutput, Parsers
  <2> HIDE DEF t
  <2> QED
    BY <1>1, <1>7, <2>1, <2>2, <2>3, QueueHighReady, ZenonT(30)
<1>8. CASE c.kind \in {"typed", "untyped"}
  <2>1. CmdParseOutput(c, ans, s) = [s EXCEPT !.d = QueueHigh(@, Plain("evaluate"))]
    BY <1>8 DEF CmdParseOutput
  <2>2. Plain("evaluate") \in Queueable
    BY PlainIsQueueable DEF Kinds
  <2> QED
    BY <2>1, <2>2, QueueHighReady
<1>9. CASE /\ ~(c.kind \in {"break", "tbreak", "watch"} /\ ans.text = "breakpoint")
           /\ ~(c.kind \in {"break", "tbreak", "watch"} /\ ans.text = "watchpoint")
           /\ ~(c.kind = "output" /\ ans.text = "address")
           /\ ~(c.kind = "whatis" /\ ans.text # "unknown")
           /\ ~(c.kind = "whatis" /\ ans.text = "unknown")
           /\ c.kind \notin {"typed", "untyped"}
  BY <1>9 DEF CmdParseOutput
<1> QED
  BY <1>3, <1>4, <1>5, <1>6, <1>7, <1>8, <1>9

(* The next event is taken.                                                 *)
LEMMA TailEvents ==
  ASSUME IInv, NextEvent
  PROVE  /\ events # <<>> /\ events' \in Seq(Posted) /\ Head(events) \in Posted /\ Head(events) = events[1]
         /\ 1 \in DOMAIN events
         /\ DOMAIN events' = 1..(Len(events) - 1) /\ Len(events) \in Nat
         /\ \A i \in DOMAIN events' : events'[i] = events[i + 1] /\ i + 1 \in DOMAIN events /\ i + 1 # 1
         /\ \A i \in AnswerAt' : i + 1 \in AnswerAt /\ i + 1 # 1
         /\ \A i \in Terminated' : i + 1 \in Terminated /\ i + 1 # 1
         /\ Terminated = {Len(events)} => \/ Terminated' = {Len(events')} /\ events' # <<>>
                                         \/ Len(events) = 1
<1>1. events \in Seq(Posted) /\ events # <<>> /\ events' = Tail(events)
  BY DEF IInv, Types, NextEvent
<1>2. /\ Len(events) \in Nat /\ DOMAIN events = 1..Len(events) /\ 1 \in DOMAIN events
      /\ Len(events') = Len(events) - 1 /\ DOMAIN events' = 1..(Len(events) - 1)
      /\ events' \in Seq(Posted) /\ Head(events) \in Posted /\ Head(events) = events[1]
  BY <1>1
<1>3. \A i \in DOMAIN events' : events'[i] = events[i + 1]
  BY <1>1
<1>4. \A i \in DOMAIN events' : i + 1 \in DOMAIN events /\ i + 1 # 1
  BY <1>2
<1>5. \A i \in AnswerAt' : i + 1 \in AnswerAt /\ i + 1 # 1
  BY <1>3, <1>4 DEF AnswerAt
<1>6. \A i \in Terminated' : i + 1 \in Terminated /\ i + 1 # 1
  BY <1>3, <1>4 DEF Terminated
<1>7. ASSUME Terminated = {Len(events)}, Len(events) # 1
      PROVE  Terminated' = {Len(events')} /\ events' # <<>>
  <2>1. Len(events) \in DOMAIN events /\ events[Len(events)].kind = "terminated"
    BY <1>7 DEF Terminated
  <2>2. Len(events) - 1 \in DOMAIN events' /\ (Len(events) - 1) + 1 = Len(events)
    BY <1>2, <1>7, <2>1
  <2>3. Len(events) - 1 \in Terminated'
    BY <1>3, <2>1, <2>2 DEF Terminated
  <2>4. ASSUME NEW i \in Terminated' PROVE i = Len(events) - 1
    <3>1. i \in DOMAIN events'
      BY DEF Terminated
    <3>2. i + 1 = Len(events)
      BY <1>6, <1>7
    <3> QED
      BY <1>2, <3>1, <3>2
  <2>5. events' # <<>>
    BY <1>2, <2>2
  <2> QED
    BY <1>2, <2>3, <2>4, <2>5
<1> QED
  BY <1>1, <1>2, <1>3, <1>4, <1>5, <1>6, <1>7

(* What an answer makes of the driver and the breakpoints.                  *)
LEMMA ParseAnswerIs ==
  ASSUME IInv, NEW refresh \in BOOLEAN, ParseAnswer(refresh)
  PROVE  LET ans == Head(events)
             d0 == [driver EXCEPT !.m_QueueBusy = FALSE]
             c == Head(driver.m_DCmds)
             d1 == [driver EXCEPT !.m_ProgramIsStopped = TRUE, !.m_QueueBusy = FALSE,
                                  !.m_DCmds = Tail(driver.m_DCmds)]
             popped == [list |-> m_Breakpoints, bp |-> bp, d |-> d1]
             parsed == CmdParseOutput(c, ans, popped)
             t == [parsed EXCEPT !.d = RunQueue(@)]
             e == ProgramChanged(t.d, ans.text, refresh)
         IN  /\ ans \in Answered /\ 1 \in AnswerAt /\ ans = events[1] /\ AnswerAt' = {}
             /\ driver.m_QueueBusy /\ AnswerAt = {1} /\ gdb.state # "program" /\ driver.stdin = <<>>
             /\ driver.up = TRUE /\ driver.m_DCmds # <<>> /\ c \in Queueable
             /\ popped \in Parsers(driver) /\ ~popped.d.m_QueueBusy /\ popped.bp = bp
             /\ popped.list = m_Breakpoints /\ popped.d.m_DCmds = Tail(driver.m_DCmds)
             /\ parsed \in Parsers(driver)
             /\ t \in Parsers(driver) /\ t.d = RunQueue(parsed.d) /\ Good(t.d) /\ t.d.up = TRUE
             /\ t.bp = parsed.bp /\ t.list = parsed.list
             /\ driver' = e /\ m_Breakpoints' = t.list /\ bp' = t.bp
             /\ Good(e) /\ Ready(e) /\ e.up = TRUE /\ e.open = driver.open /\ e \in Drivers
<1> DEFINE ans == Head(events)
           d0 == [driver EXCEPT !.m_QueueBusy = FALSE]
           c == Head(driver.m_DCmds)
           d1 == [driver EXCEPT !.m_ProgramIsStopped = TRUE, !.m_QueueBusy = FALSE,
                                !.m_DCmds = Tail(driver.m_DCmds)]
           idle == [Here EXCEPT !.d.m_ProgramIsStopped = TRUE, !.d.m_QueueBusy = FALSE]
           popped == [list |-> m_Breakpoints, bp |-> bp, d |-> d1]
           parsed == CmdParseOutput(c, ans, popped)
           t == [parsed EXCEPT !.d = RunQueue(@)]
           e == ProgramChanged(t.d, ans.text, refresh)
<1>1. /\ NextEvent /\ Head(events).kind = "answer"
      /\ UNCHANGED <<m_pProcess, starting, gdb, clicks>>
  BY DEF ParseAnswer
<1>2. /\ Life /\ Queue /\ Owed /\ Types /\ Good(driver) /\ driver \in Drivers
      /\ Here \in [list : Lists, bp : [Bps -> Fields], d : Drivers] /\ Here.d = driver
      /\ Here = [list |-> m_Breakpoints, bp |-> bp, d |-> driver]
  BY HereEdits DEF IInv, Editors, Good, Here
<1>3. ans \in Answered /\ 1 \in AnswerAt
  BY <1>1, TailEvents DEF Posted, AnswerAt
<1>4. /\ driver.m_QueueBusy /\ AnswerAt = {1} /\ gdb.state # "program" /\ driver.stdin = <<>>
  BY <1>2, <1>3 DEF Queue, Asked
<1>5. driver.up = TRUE /\ driver.m_DCmds # <<>>
  BY <1>2, <1>4 DEF Good, Drivers
<1>6. AnswerAt' = {}
  BY <1>1, <1>4, TailEvents
<1>7. /\ d0 \in Drivers /\ d0.up = driver.up /\ d0.open = driver.open /\ d0.m_QueueBusy = FALSE
  BY <1>2 DEF Drivers
<1>8. c \in Queueable /\ Tail(driver.m_DCmds) \in Seq(Queueable)
  <2>1. driver.m_DCmds \in Seq(Queueable)
    BY <1>2 DEF Drivers
  <2> QED
    BY <1>5, <2>1
<1>a. popped = [idle EXCEPT !.d.m_DCmds = Tail(@)]
  <2> DEFINE d2 == [driver EXCEPT !.m_ProgramIsStopped = TRUE, !.m_QueueBusy = FALSE]
             h == [Here EXCEPT !.d.m_ProgramIsStopped = TRUE]
  <2>1. idle = [h EXCEPT !.d.m_QueueBusy = FALSE]
    OBVIOUS
  <2>2. /\ h.d = [driver EXCEPT !.m_ProgramIsStopped = TRUE]
        /\ h = [Here EXCEPT !.d = [driver EXCEPT !.m_ProgramIsStopped = TRUE]]
    BY <1>2
  <2>3. [h EXCEPT !.d.m_QueueBusy = FALSE] = [h EXCEPT !.d = [h.d EXCEPT !.m_QueueBusy = FALSE]]
    OBVIOUS
  <2>4. idle = [Here EXCEPT !.d = d2]
    BY <2>1, <2>2, <2>3
  <2>5. /\ d2.m_DCmds = driver.m_DCmds
        /\ [d2 EXCEPT !.m_DCmds = Tail(driver.m_DCmds)] = d1
    BY <1>2 DEF Drivers
  <2> HIDE DEF h, idle, d2, d1
  <2>6. \A x : [Here EXCEPT !.d = x] = [list |-> m_Breakpoints, bp |-> bp, d |-> x]
    BY DEF Here
  <2>7. idle = [list |-> m_Breakpoints, bp |-> bp, d |-> d2]
    BY <2>4, <2>6
  <2>8. [idle EXCEPT !.d.m_DCmds = Tail(@)] =
            [list |-> m_Breakpoints, bp |-> bp, d |-> [d2 EXCEPT !.m_DCmds = Tail(d2.m_DCmds)]]
    <3>1. PICK x : x = [idle EXCEPT !.d.m_DCmds = Tail(@)]
      OBVIOUS
    <3>2. x = [list |-> m_Breakpoints, bp |-> bp, d |-> [d2 EXCEPT !.m_DCmds = Tail(d2.m_DCmds)]]
      BY <2>7, <3>1
    <3> QED
      BY <3>1, <3>2
  <2> QED
    BY <2>5, <2>8
<1>9. popped \in Parsers(driver) /\ ~popped.d.m_QueueBusy
  <2>1. /\ d1 \in Drivers /\ d1.m_QueueBusy = FALSE /\ d1.m_ProgramIsStopped = TRUE
        /\ d1.stdin = driver.stdin /\ d1.up = driver.up /\ d1.open = driver.open
    BY <1>2, <1>8 DEF Drivers
  <2> HIDE DEF d1
  <2>2. Ready(d1)
    BY <1>4, <2>1 DEF Ready
  <2> QED
    BY <1>2, <2>1, <2>2 DEF Parsers, Types
<1>b. popped.list = m_Breakpoints /\ popped.bp = bp /\ popped.d.m_DCmds = Tail(driver.m_DCmds)
  BY <1>2 DEF Drivers
<1>c. parsed = CmdParseOutput(c, ans, popped)
  OBVIOUS
<1> HIDE DEF idle
<1> HIDE DEF popped, d1
<1>10. parsed \in Parsers(driver)
  BY <1>3, <1>5, <1>8, <1>9, CmdParseOutputReady
<1> HIDE DEF parsed
<1>11. t \in Parsers(driver) /\ t.d = RunQueue(parsed.d) /\ Good(t.d)
  <2>1. Ready(parsed.d) /\ parsed.d.up = TRUE /\ parsed.d.open = driver.open
    BY <1>5, <1>10, ParsersSet
  <2>2. /\ Ready(RunQueue(parsed.d)) /\ Good(RunQueue(parsed.d))
        /\ RunQueue(parsed.d).up = TRUE /\ RunQueue(parsed.d).open = driver.open
    BY <2>1, RunQueueReady
  <2>3. [parsed EXCEPT !.d = RunQueue(parsed.d)] \in Parsers(driver)
    BY <1>5, <1>10, <2>2, ParsersSet
  <2>4. t.d = RunQueue(parsed.d)
    BY <1>10 DEF Parsers
  <2> QED
    BY <2>2, <2>3, <2>4
<1>12. t = CommandAnswered(ans)
  BY <1>5, <1>a, <1>c DEF CommandAnswered, idle
<1> HIDE DEF t
<1>13. Later(d0, t.d) /\ t.d.up = TRUE
  BY <1>5, <1>7, <1>11 DEF Later, Parsers
<1>14. Later(d0, e)
  <2>1. CASE ans.text = "exited"
    <3> DEFINE f == QueueLow(t.d, Plain("quit"))
    <3>1. Plain("quit") \in Queueable
      BY PlainIsQueueable DEF Kinds
    <3>2. Later(d0, f)
      BY <1>13, <3>1, QueueLowLater
    <3>3. e = [f EXCEPT !.m_IsStarted = FALSE]
      BY <2>1 DEF ProgramChanged
    <3> HIDE DEF f, e
    <3>4. /\ e \in Drivers /\ e.up = f.up /\ e.open = f.open /\ e.m_QueueBusy = f.m_QueueBusy
          /\ e.m_DCmds = f.m_DCmds /\ e.stdin = f.stdin
          /\ e.m_ProgramIsStopped = f.m_ProgramIsStopped
      <4>1. f \in Drivers
        BY <3>2 DEF Later, Good
      <4> QED
        BY <3>3, <4>1 DEF Drivers
    <3> HIDE DEF d0
    <3> QED
      BY <3>2, <3>4 DEF Later, Good, Ready, Sent
  <2>2. CASE ans.text = "stopped" /\ refresh
    <3> DEFINE cs == <<Plain("info"), Plain("action")>>
               S == {f \in Drivers : Later(d0, f) /\ f.up = TRUE}
    <3>1. cs \in Seq(Queueable)
      <4>1. Plain("info") \in Queueable /\ Plain("action") \in Queueable
        BY PlainIsQueueable DEF Kinds
      <4> QED
        BY <4>1
    <3>2. \A f \in S, x \in Queueable : LowOp(0, 0, f, x) \in S
      <4> SUFFICES ASSUME NEW f \in S, NEW x \in Queueable PROVE QueueLow(f, x) \in S
        BY DEF LowOp
      <4> HIDE DEF d0
      <4>1. Later(d0, QueueLow(f, x))
        BY QueueLowLater
      <4> QED
        BY <4>1, <1>5, <1>7 DEF Later, Good
    <3>3. t.d \in S
      BY <1>13 DEF Later, Good
    <3> HIDE DEF S, cs
    <3>4. Low!Fold(0, 0, t.d, cs) \in S
      BY <3>1, <3>2, <3>3, Low!FoldKeeps
    <3>5. e = Low!Fold(0, 0, t.d, cs)
      BY <2>2, TheFolds DEF ProgramChanged, cs
    <3> QED
      BY <3>4, <3>5 DEF S
  <2>3. CASE ~(ans.text = "exited") /\ ~(ans.text = "stopped" /\ refresh)
    BY <1>13, <2>3 DEF ProgramChanged
  <2> QED
    BY <2>1, <2>2, <2>3
<1>15. driver' = e /\ m_Breakpoints' = t.list /\ bp' = t.bp
  <2> DEFINE u == [t EXCEPT !.d = ProgramChanged(@, ans.text, refresh)]
  <2>1. Becomes(u)
    BY <1>5, <1>12 DEF ParseAnswer
  <2>2. u.list = t.list /\ u.bp = t.bp /\ u.d = e
    BY <1>11 DEF Parsers
  <2> HIDE DEF u
  <2> QED
    BY <2>1, <2>2 DEF Becomes
<1> HIDE DEF e
<1>16. /\ Good(e) /\ Ready(e) /\ e.up = TRUE /\ e.open = driver.open /\ e \in Drivers
  <2> HIDE DEF d0
  <2> QED
    BY <1>5, <1>7, <1>14 DEF Later, Good
<1>17. t.bp = parsed.bp /\ t.list = parsed.list
  <2>1. t = [parsed EXCEPT !.d = RunQueue(@)]
    BY DEF t
  <2> QED
    BY <1>10, <2>1 DEF Parsers
<1>18. ans = events[1] /\ t.d.up = TRUE
  BY <1>1, <1>13, TailEvents
<1> QED
  BY <1>3, <1>4, <1>5, <1>6, <1>8, <1>9, <1>b, <1>10, <1>11, <1>15, <1>16, <1>17, <1>18
     DEF parsed, popped, d1, t, e

(* An answer makes the driver idle; its command parses it, the next is      *)
(* sent, and what the text says of the program may queue more.              *)
LEMMA ParseAnswerStep ==
  ASSUME IInv, NEW refresh \in BOOLEAN, ParseAnswer(refresh)
  PROVE  IInv'
<1> DEFINE ans == Head(events)
           d1 == [driver EXCEPT !.m_ProgramIsStopped = TRUE, !.m_QueueBusy = FALSE,
                                !.m_DCmds = Tail(driver.m_DCmds)]
           popped == [list |-> m_Breakpoints, bp |-> bp, d |-> d1]
           parsed == CmdParseOutput(Head(driver.m_DCmds), ans, popped)
           t == [parsed EXCEPT !.d = RunQueue(@)]
           e == ProgramChanged(t.d, ans.text, refresh)
<1>1. /\ NextEvent /\ Head(events).kind = "answer"
      /\ UNCHANGED <<m_pProcess, starting, gdb, clicks>>
  BY DEF ParseAnswer
<1>2. Life /\ Queue /\ Owed /\ Types
  BY DEF IInv
<1>3. /\ driver.m_QueueBusy /\ AnswerAt = {1} /\ AnswerAt' = {}
      /\ gdb.state # "program" /\ driver.stdin = <<>> /\ driver.up = TRUE
      /\ t \in Parsers(driver) /\ driver' = e /\ m_Breakpoints' = t.list /\ bp' = t.bp
      /\ Good(e) /\ Ready(e) /\ e.up = TRUE /\ e.open = driver.open /\ e \in Drivers
  BY ParseAnswerIs
<1> HIDE DEF e, t
<1>4. Types'
  BY <1>1, <1>2, <1>3, TailEvents DEF Types, Parsers
<1>5. Life'
  <2>1. m_pProcess' = m_pProcess /\ gdb' = gdb /\ driver'.up = TRUE
    BY <1>1, <1>3
  <2>2. CASE m_pProcess
    BY <1>1, <1>2, <2>1, <2>2, TailEvents DEF Life
  <2>3. CASE ~m_pProcess
    <3>1. Terminated = {Len(events)} /\ gdb.state = "dead"
      BY <1>2, <1>3, <2>3 DEF Life
    <3>2. Len(events) # 1
      <4>1. ASSUME Len(events) = 1 PROVE FALSE
        <5>1. events[1].kind = "terminated"
          BY <3>1, <4>1 DEF Terminated
        <5> QED
          BY <1>1, <5>1, TailEvents
      <4> QED
        BY <4>1
    <3> QED
      BY <1>1, <2>1, <2>3, <3>1, <3>2, TailEvents DEF Life
  <2> QED
    BY <2>2, <2>3
<1>6. Queue'
  BY <1>1, <1>3 DEF Queue, Good, Ready, Sent, Asked
<1>7. Owed'
  <2>1. Answering'
    BY <1>1, <1>2, <1>3 DEF Answering, Ready, Sent, Life
  <2>2. PromptFirst'
    BY <1>1, <1>2, <1>3 DEF Owed, PromptFirst
  <2> QED
    BY <2>1, <2>2 DEF Owed
<1> QED
  BY <1>4, <1>5, <1>6, <1>7 DEF IInv

(* The line that names the child process changes nothing of the queue.      *)
LEMMA ParsePidStep ==
  ASSUME IInv, ParsePid
  PROVE  IInv'
<1>1. /\ NextEvent /\ Head(events).kind = "pid"
      /\ driver' = [driver EXCEPT !.m_ChildPID = driver.up]
      /\ UNCHANGED <<m_Breakpoints, bp, m_pProcess, starting, gdb, clicks>>
  BY DEF ParsePid
<1>2. /\ Life /\ Queue /\ Owed /\ Types /\ Good(driver) /\ driver \in Drivers
  BY HereEdits DEF IInv, Good
<1>3. /\ driver' \in Drivers /\ driver'.up = driver.up /\ driver'.m_DCmds = driver.m_DCmds
      /\ driver'.m_QueueBusy = driver.m_QueueBusy /\ driver'.open = driver.open
      /\ driver'.m_ProgramIsStopped = driver.m_ProgramIsStopped /\ driver'.stdin = driver.stdin
  <2>1. driver.up \in BOOLEAN
    BY <1>2 DEF Drivers
  <2> QED
    BY <1>1, <1>2, <2>1 DEF Drivers
<1>4. 1 \notin AnswerAt /\ 1 \notin Terminated
  BY <1>1, TailEvents DEF AnswerAt, Terminated
<1>5. ASSUME NEW i \in AnswerAt PROVE AnswerAt' = {i - 1} /\ events'[i - 1] = events[i]
  <2>1. AnswerAt = {i} /\ i # 1 /\ i \in DOMAIN events
    BY <1>2, <1>4 DEF Queue, AnswerAt
  <2>2. i - 1 \in DOMAIN events' /\ (i - 1) + 1 = i
    BY <1>1, <2>1, TailEvents
  <2>3. events'[i - 1] = events[i]
    BY <1>1, <2>2, TailEvents
  <2>4. i - 1 \in AnswerAt'
    BY <2>1, <2>2, <2>3 DEF AnswerAt
  <2>5. ASSUME NEW k \in AnswerAt' PROVE k = i - 1
    <3>1. k + 1 = i /\ k \in DOMAIN events'
      BY <1>1, <2>1, TailEvents DEF AnswerAt
    <3> QED
      BY <1>1, <2>2, <3>1, TailEvents
  <2> QED
    BY <2>3, <2>4, <2>5
<1>6. AnswerAt = {} => AnswerAt' = {}
  BY <1>1, TailEvents
<1>7. Types'
  BY <1>1, <1>2, <1>3, TailEvents DEF Types
<1>8. Life'
  <2>1. Terminated # {1}
    BY <1>4
  <2>2. Len(events) = 1 => Terminated # {Len(events)}
    BY <2>1
  <2> QED
    BY <1>1, <1>2, <1>3, <2>2, TailEvents DEF Life
<1>9. \A x : Asked(x) <=> Asked(x)'
  BY <1>3 DEF Asked
<1>10. Queue'
  <2>1. CASE AnswerAt = {}
    BY <1>1, <1>2, <1>3, <1>6, <1>9, <2>1 DEF Queue
  <2>2. CASE AnswerAt # {}
    <3>1. PICK i \in AnswerAt : TRUE
      BY <2>2
    <3>2. Asked(events[i].to)
      BY <1>2, <3>1 DEF Queue
    <3>3. \A k \in AnswerAt' : Asked(events[k].to)' /\ AnswerAt' = {k}
      BY <1>5, <1>9, <3>1, <3>2
    <3> QED
      BY <1>1, <1>2, <1>3, <1>9, <2>2, <3>3 DEF Queue
  <2> QED
    BY <2>1, <2>2
<1>11. Owed'
  BY <1>1, <1>2, <1>3, <1>5 DEF Owed, Answering, PromptFirst
<1> QED
  BY <1>7, <1>8, <1>10, <1>11 DEF IInv

(* The end of the process is the last event; the driver goes away with its  *)
(* queue.                                                                   *)
LEMMA OnGDBTerminatedStep ==
  ASSUME IInv, OnGDBTerminated
  PROVE  IInv'
<1>1. /\ NextEvent /\ Head(events).kind = "terminated" /\ driver' = NoDriver
      /\ UNCHANGED <<m_Breakpoints, bp, m_pProcess, starting, gdb, clicks>>
  BY DEF OnGDBTerminated
<1>2. Life /\ Types
  BY DEF IInv
<1>3. 1 \in Terminated
  BY <1>1, TailEvents DEF Terminated
<1>4. ~m_pProcess /\ gdb.state = "dead" /\ Terminated = {Len(events)}
  BY <1>2, <1>3, TailEvents, <1>1 DEF Life
<1>5. events' = <<>>
  <2>1. Len(events) = 1
    BY <1>3, <1>4
  <2>2. DOMAIN events' = {} /\ events' \in Seq(Posted)
    BY <1>1, <2>1, TailEvents
  <2> QED
    BY <2>2
<1>6. /\ driver' \in Drivers /\ driver'.up = FALSE /\ driver'.m_DCmds = <<>>
      /\ driver'.m_QueueBusy = FALSE /\ driver'.m_ProgramIsStopped = TRUE /\ driver'.stdin = <<>>
  <2>1. NoDriver \in Drivers
    BY DEF NoDriver, Drivers
  <2> QED
    BY <1>1, <2>1 DEF NoDriver
<1>7. Types'
  BY <1>1, <1>2, <1>5, <1>6 DEF Types
<1>8. AnswerAt' = {}
  BY <1>5 DEF AnswerAt
<1>9. Life'
  BY <1>1, <1>4, <1>5, <1>6 DEF Life
<1>10. Queue'
  BY <1>1, <1>4, <1>6, <1>8 DEF Queue
<1>11. Owed'
  BY <1>6 DEF Owed, Answering, PromptFirst
<1> QED
  BY <1>7, <1>9, <1>10, <1>11 DEF IInv
-----------------------------------------------------------------------------
(* GDB and the end of its process.                                          *)

(* An event is posted behind the others.                                    *)
LEMMA AppendEvents ==
  ASSUME Types, NEW e \in Posted, events' = Append(events, e)
  PROVE  /\ events' \in Seq(Posted) /\ events' # <<>> /\ Len(events) \in Nat
         /\ Len(events') = Len(events) + 1 /\ events'[Len(events')] = e
         /\ AnswerAt' = AnswerAt \cup (IF e.kind = "answer" THEN {Len(events')} ELSE {})
         /\ Terminated' = Terminated \cup (IF e.kind = "terminated" THEN {Len(events')} ELSE {})
<1>1. events \in Seq(Posted)
  BY DEF Types
<1>2. /\ Len(events) \in Nat /\ Len(events') = Len(events) + 1 /\ events' \in Seq(Posted)
      /\ DOMAIN events = 1..Len(events) /\ DOMAIN events' = 1..(Len(events) + 1)
      /\ events'[Len(events) + 1] = e
      /\ \A i \in 1..Len(events) : events'[i] = events[i]
  BY <1>1
<1>3. events' # <<>>
  BY <1>2
<1>4. DOMAIN events' = DOMAIN events \cup {Len(events')} /\ Len(events') \notin DOMAIN events
  BY <1>2
<1>5. \A i \in DOMAIN events' : events'[i] = IF i \in DOMAIN events THEN events[i] ELSE e
  BY <1>2, <1>4
<1>6. AnswerAt' = AnswerAt \cup (IF e.kind = "answer" THEN {Len(events')} ELSE {})
  BY <1>4, <1>5 DEF AnswerAt
<1>7. Terminated' = Terminated \cup (IF e.kind = "terminated" THEN {Len(events')} ELSE {})
  BY <1>4, <1>5 DEF Terminated
<1> QED
  BY <1>2, <1>3, <1>6, <1>7

(* GDB with another state, and with another value of each field that its    *)
(* moves set.                                                               *)
LEMMA StateSet ==
  ASSUME NEW g, IsGdb(g), NEW st \in {"prompt", "program", "dead"}
  PROVE  LET h == [g EXCEPT !.state = st]
         IN  IsGdb(h) /\ h.state = st /\ h.trusted = g.trusted
BY DEF IsGdb

LEMMA TrustedSet ==
  ASSUME NEW g, IsGdb(g), NEW b \in BOOLEAN
  PROVE  LET h == [g EXCEPT !.trusted = b]
         IN  IsGdb(h) /\ h.state = g.state
BY DEF IsGdb

LEMMA AskedSet ==
  ASSUME NEW g, IsGdb(g), NEW c \in Queueable
  PROVE  LET h == [g EXCEPT !.asked = c]
         IN  IsGdb(h) /\ h.asked = c /\ h.state = g.state /\ h.trusted = g.trusted
BY DEF IsGdb

LEMMA NextSet ==
  ASSUME NEW g, IsGdb(g), NEW n \in Nat
  PROVE  LET h == [g EXCEPT !.next = n]
         IN  IsGdb(h) /\ h.state = g.state /\ h.trusted = g.trusted
BY DEF IsGdb

LEMMA BpsSet ==
  ASSUME NEW g, IsGdb(g), NEW x
  PROVE  LET h == [g EXCEPT !.bps = x]
         IN  IsGdb(h) /\ h.state = g.state /\ h.trusted = g.trusted
BY DEF IsGdb

LEMMA SignalSet ==
  ASSUME NEW g, IsGdb(g), NEW x
  PROVE  LET h == [g EXCEPT !.signal = x]
         IN  IsGdb(h) /\ h.state = g.state /\ h.trusted = g.trusted
BY DEF IsGdb

(* An answer of GDB is one of the events that are posted.                   *)
LEMMA AnswerIsPosted ==
  ASSUME NEW c \in Queueable, NEW text \in Texts, NEW n \in Int,
         text = "unknown" => ~KnownWords
  PROVE  LET a == Answer(c, text, n)
         IN  a \in Answered /\ a \in Posted /\ a.to = c /\ a.kind = "answer"
BY DEF Answer, Answered, Posted

(* What an answer of GDB to c leaves behind.                                *)
Replied(c) ==
    \/ gdb'.trusted /\ \E a \in Answered : a.to = c /\ events' = Append(events, a)
    \/ ~gdb'.trusted /\ events' = events

(* GDB answers if it was told its prompt, and stays silent if not.          *)
LEMMA AnswersReply ==
  ASSUME NEW c \in Queueable, NEW text \in Texts, NEW n \in Int,
         text = "unknown" => ~KnownWords, NEW g, g.trusted = gdb'.trusted,
         Answers(g, c, text, n)
  PROVE  Replied(c)
<1>1. Answer(c, text, n) \in Answered /\ Answer(c, text, n).to = c
  BY AnswerIsPosted
<1> QED
  BY <1>1 DEF Answers, Replied

(* GDB reads a command: it answers and is at its prompt again, once it has  *)
(* been told its prompt, or it runs the program, or it ends.                *)
LEMMA GdbExecutes ==
  ASSUME IInv, GdbExecute
  PROVE  LET c == Head(driver.stdin)
         IN  /\ IsGdb(gdb')
             /\ \/ /\ gdb'.state = "prompt"
                   /\ gdb'.trusted = (gdb.trusted \/ c.kind = "prompt")
                   /\ Replied(c)
                \/ /\ gdb'.state = "program" /\ gdb'.asked = c /\ gdb'.trusted = gdb.trusted
                   /\ events' = events \/ events' = Append(events, [kind |-> "pid"])
                   /\ c.kind # "prompt"
                \/ gdb'.state = "dead" /\ events' = events
<1> DEFINE c == Head(driver.stdin)
           known == c.arg \in DOMAIN gdb.bps
<1>1. IsGdb(gdb) /\ gdb.state = "prompt" /\ gdb.trusted \in BOOLEAN /\ gdb.next \in Nat
  BY DEF IInv, Types, IsGdb, GdbExecute, GdbReads
<1>2. c \in Queueable
  <2>1. driver.stdin \in Seq(Queueable) /\ driver.stdin # <<>>
    BY DEF IInv, Types, Drivers, GdbExecute, GdbReads
  <2> QED
    BY <2>1
<1> HIDE DEF c
<1>3. CASE c.kind \in {"break", "tbreak", "watch"}
  <2>1. gdb' = SetBreakpoint(gdb, c)
    BY <1>3 DEF GdbExecute, Resuming, c
  <2>2. PICK text \in {"breakpoint", "watchpoint"} : Answers(gdb, c, text, gdb.next)
    BY <1>3 DEF GdbExecute, Resuming, c
  <2>3. /\ IsGdb(gdb') /\ gdb'.state = "prompt" /\ gdb'.trusted = gdb.trusted
    <3>1. PICK x : gdb' = [gdb EXCEPT !.next = gdb.next + 1, !.bps = x]
      BY <1>1, <2>1 DEF SetBreakpoint, IsGdb
    <3> DEFINE h == [gdb EXCEPT !.next = gdb.next + 1]
    <3>2. gdb.next + 1 \in Nat
      BY <1>1
    <3>3. IsGdb(h) /\ h.state = gdb.state /\ h.trusted = gdb.trusted
      BY <1>1, <3>2, NextSet
    <3>4. gdb' = [h EXCEPT !.bps = x]
      BY <3>1
    <3> HIDE DEF h
    <3> QED
      BY <1>1, <3>3, <3>4, BpsSet
  <2>4. Replied(c)
    BY <1>1, <1>2, <2>2, <2>3, AnswersReply DEF Texts
  <2> QED
    BY <1>1, <1>3, <2>3, <2>4 DEF c
<1>4. CASE c.kind \in {"delete", "condition", "ignore"}
  <2>1. \E x : gdb' = [gdb EXCEPT !.bps = x]
    <3>1. CASE c.kind = "delete"
      <4>1. gdb' = [gdb EXCEPT !.bps = Without(@, c.arg)]
        BY <3>1 DEF GdbExecute, Resuming, c
      <4> QED
        BY <4>1
    <3>2. CASE c.kind = "condition"
      <4>1. gdb' = IF known THEN [gdb EXCEPT !.bps[c.arg].cond = TRUE] ELSE gdb
        BY <3>2 DEF GdbExecute, Resuming, c
      <4>2. gdb = [gdb EXCEPT !.bps = gdb.bps]
        BY <1>1 DEF IsGdb
      <4> QED
        BY <4>1, <4>2
    <3>3. CASE c.kind = "ignore"
      <4>1. gdb' = IF known THEN [gdb EXCEPT !.bps[c.arg].ign = TRUE] ELSE gdb
        BY <3>3 DEF GdbExecute, Resuming, c
      <4>2. gdb = [gdb EXCEPT !.bps = gdb.bps]
        BY <1>1 DEF IsGdb
      <4> QED
        BY <4>1, <4>2
    <3> QED
      BY <1>4, <3>1, <3>2, <3>3
  <2>2. Answers(gdb, c, "done", 0)
    BY <1>4 DEF GdbExecute, Resuming, c
  <2>3. /\ IsGdb(gdb') /\ gdb'.state = "prompt" /\ gdb'.trusted = gdb.trusted
    <3>1. PICK x : gdb' = [gdb EXCEPT !.bps = x]
      BY <2>1
    <3> QED
      BY <1>1, <3>1, BpsSet
  <2>4. Replied(c)
    BY <1>2, <2>2, <2>3, AnswersReply DEF Texts
  <2> QED
    BY <1>1, <1>4, <2>3, <2>4 DEF c
<1>5. CASE c.kind = "output"
  <2>1. gdb' = gdb
    BY <1>5 DEF GdbExecute, Resuming, c
  <2>2. PICK text \in {"address", "refused"} : Answers(gdb, c, text, 0)
    BY <1>5 DEF GdbExecute, Resuming, c
  <2>3. Replied(c)
    BY <1>2, <2>1, <2>2, AnswersReply DEF Texts
  <2> QED
    BY <1>1, <1>5, <2>1, <2>3 DEF c
<1>6. CASE c.kind = "whatis"
  <2>1. gdb' = gdb
    BY <1>6 DEF GdbExecute, Resuming, c
  <2>2. \E text \in {"type"} \cup (IF "unknown word" \in Mishaps THEN {"unknown"} ELSE {}) :
            Answers(gdb, c, text, 0)
    BY <1>6 DEF GdbExecute, Resuming, c
  <2>3. PICK text \in {"type", "unknown"} :
            (text = "unknown" => ~KnownWords) /\ Answers(gdb, c, text, 0)
    BY <2>2 DEF KnownWords
  <2>4. Replied(c)
    BY <1>2, <2>1, <2>3, AnswersReply DEF Texts
  <2> QED
    BY <1>1, <1>6, <2>1, <2>4 DEF c
<1>7. CASE c.kind = "prompt"
  <2>1. gdb' = [gdb EXCEPT !.trusted = TRUE] /\ Answers(gdb', c, "done", 0)
    BY <1>7 DEF GdbExecute, Resuming, c
  <2>a. Answers(gdb', c, "done", 0)
    BY <2>1
  <2>2. Replied(c)
    BY <1>2, <2>a, AnswerIsPosted DEF Answers, Replied, Texts
  <2>3. gdb'.state = "prompt" /\ gdb'.trusted = TRUE
    BY <1>1, <2>1 DEF IsGdb
  <2>4. IsGdb(gdb')
    BY <1>1, <2>1, TrustedSet
  <2> QED
    BY <1>7, <2>2, <2>3, <2>4 DEF c
<1>8. CASE c.kind = "catch"
  <2>1. gdb' = [gdb EXCEPT !.next = @ + 1] /\ Answers(gdb, c, "catchpoint", 0)
    BY <1>8 DEF GdbExecute, Resuming, c
  <2>2. gdb' = [gdb EXCEPT !.next = gdb.next + 1] /\ gdb.next + 1 \in Nat
    BY <1>1, <2>1
  <2>3. gdb'.state = "prompt" /\ gdb'.trusted = gdb.trusted
    BY <1>1, <2>2 DEF IsGdb
  <2>4. IsGdb(gdb')
    BY <1>1, <2>2, NextSet
  <2>5. Replied(c)
    BY <1>2, <2>1, <2>3, AnswersReply DEF Texts
  <2> QED
    BY <1>1, <1>8, <2>3, <2>4, <2>5 DEF c
<1>9. CASE c.kind \in Resuming
  <2>1. /\ gdb' = [gdb EXCEPT !.state = "program", !.asked = c]
        /\ events' = IF c.kind = "run" THEN Append(events, [kind |-> "pid"]) ELSE events
    BY <1>9 DEF GdbExecute, Resuming, c
  <2> DEFINE h == [gdb EXCEPT !.state = "program"]
  <2>2. IsGdb(h) /\ h.state = "program" /\ h.trusted = gdb.trusted
    BY <1>1, StateSet
  <2>3. gdb' = [h EXCEPT !.asked = c]
    BY <2>1
  <2> HIDE DEF h
  <2>4. /\ IsGdb(gdb') /\ gdb'.state = "program" /\ gdb'.trusted = gdb.trusted
        /\ gdb'.asked = c
    BY <1>2, <2>2, <2>3, AskedSet
  <2> QED
    BY <1>9, <2>1, <2>4 DEF c, Resuming
<1>10. CASE c.kind = "quit"
  <2>1. gdb' = [gdb EXCEPT !.state = "dead"] /\ events' = events
    BY <1>10 DEF GdbExecute, Resuming, c
  <2>2. gdb'.state = "dead"
    BY <1>1, <2>1 DEF IsGdb
  <2> QED
    BY <1>1, <2>1, <2>2, StateSet
<1>11. CASE c.kind \notin {"break", "tbreak", "watch", "delete", "condition", "ignore", "output",
                           "whatis", "prompt", "catch", "quit"} \cup Resuming
  <2>1. gdb' = gdb /\ Answers(gdb, c, "done", 0)
    BY <1>11 DEF GdbExecute, Resuming, c
  <2>2. Replied(c)
    BY <1>2, <2>1, AnswersReply DEF Texts
  <2> QED
    BY <1>1, <1>11, <2>1, <2>2 DEF c
<1> QED
  BY <1>3, <1>4, <1>5, <1>6, <1>7, <1>8, <1>9, <1>10, <1>11

(* An answer that GDB gives to the command the queue waits for.             *)
LEMMA ReplyStep ==
  ASSUME IInv, NEW c, Asked(c), AnswerAt = {}, Replied(c), m_pProcess = TRUE,
         gdb'.state = "prompt", IsGdb(gdb'),
         Patient /\ driver.open => gdb'.trusted, driver' \in Drivers,
         driver'.stdin = <<>>, driver'.up = driver.up, driver'.m_DCmds = driver.m_DCmds,
         driver'.m_QueueBusy = driver.m_QueueBusy, driver'.open = driver.open,
         driver'.m_ProgramIsStopped = driver.m_ProgramIsStopped,
         UNCHANGED <<m_Breakpoints, bp, m_pProcess, starting, clicks>>
  PROVE  IInv'
<1>1. Types /\ Life /\ Queue /\ Owed
  BY DEF IInv
<1>2. Asked(c)'
  BY DEF Asked
<1>3. CASE gdb'.trusted
  <2>1. PICK a \in Answered : a.to = c /\ events' = Append(events, a)
    BY <1>3 DEF Replied
  <2>2. a \in Posted /\ a.kind = "answer"
    BY DEF Answered, Posted
  <2>3. /\ events' \in Seq(Posted) /\ events'[Len(events')] = a
        /\ AnswerAt' = {Len(events')} /\ Terminated' = Terminated
    BY <1>1, <2>1, <2>2, AppendEvents
  <2>4. Types'
    BY <1>1, <2>3 DEF Types
  <2>5. Life'
    BY <1>1, <2>3 DEF Life
  <2>6. Queue'
    BY <1>1, <1>2, <2>1, <2>3 DEF Queue, Asked
  <2>7. Owed'
    BY <1>3, <2>3 DEF Owed, Answering, PromptFirst
  <2> QED
    BY <2>4, <2>5, <2>6, <2>7 DEF IInv
<1>4. CASE ~gdb'.trusted
  <2>1. events' = events
    BY <1>4 DEF Replied
  <2>2. AnswerAt' = AnswerAt /\ Terminated' = Terminated
    BY <2>1 DEF AnswerAt, Terminated
  <2>3. Types'
    BY <1>1, <2>1 DEF Types
  <2>4. Life'
    BY <1>1, <2>1, <2>2 DEF Life
  <2>5. Queue'
    BY <1>1, <2>2 DEF Queue
  <2>6. Owed'
    BY <1>4 DEF Owed, Answering, PromptFirst
  <2> QED
    BY <2>3, <2>4, <2>5, <2>6 DEF IInv
<1> QED
  BY <1>3, <1>4

(* The command that GDB reads is the one at the head of the queue; after it *)
(* GDB owes nothing and its answer is posted, or it owes the answer of the  *)
(* running program, or it has ended.                                        *)
LEMMA GdbExecuteStep ==
  ASSUME IInv, GdbExecute
  PROVE  IInv'
<1>a. PICK c : c = Head(driver.stdin)
  OBVIOUS
<1>1. Types /\ Life /\ Queue /\ Owed
  BY DEF IInv
<1>2. /\ gdb.state = "prompt" /\ driver.stdin # <<>>
      /\ driver' = [driver EXCEPT !.stdin = Tail(@)]
      /\ UNCHANGED <<m_Breakpoints, bp, m_pProcess, starting, clicks>>
  BY DEF GdbExecute, GdbReads
<1>3. /\ Asked(c) /\ AnswerAt = {} /\ driver.stdin = <<c>> /\ m_pProcess = TRUE /\ driver.up
  BY <1>1, <1>2, <1>a DEF Queue, Life, Types
<1>4. Tail(driver.stdin) = <<>>
  <2>1. \A x : Tail(<<x>>) = <<>>
    OBVIOUS
  <2> QED
    BY <1>3, <2>1
<1>5. /\ driver' \in Drivers /\ driver'.stdin = <<>> /\ driver'.up = driver.up
      /\ driver'.m_DCmds = driver.m_DCmds /\ driver'.m_QueueBusy = driver.m_QueueBusy
      /\ driver'.open = driver.open /\ driver'.m_ProgramIsStopped = driver.m_ProgramIsStopped
  <2>1. <<>> \in Seq(Queueable)
    OBVIOUS
  <2> QED
    BY <1>1, <1>2, <1>4, <2>1 DEF Types, Drivers
<1>6. Patient /\ driver.open /\ ~gdb.trusted => c.kind = "prompt"
  <2> SUFFICES ASSUME Patient, driver.open, ~gdb.trusted PROVE c.kind = "prompt"
    OBVIOUS
  <2>1. ~starting
    BY <1>1, <1>2, <1>3 DEF Owed, PromptFirst, Asked
  <2>2. <<c>> = <<Plain("prompt")>>
    BY <1>1, <1>2, <1>3, <2>1 DEF Owed, PromptFirst
  <2>3. c = Plain("prompt")
    BY <2>2
  <2> QED
    BY <2>3 DEF Plain, Cmd
<1>7. /\ IsGdb(gdb')
      /\ \/ /\ gdb'.state = "prompt"
            /\ gdb'.trusted = (gdb.trusted \/ c.kind = "prompt")
            /\ Replied(c)
         \/ /\ gdb'.state = "program" /\ gdb'.asked = c /\ gdb'.trusted = gdb.trusted
            /\ events' = events \/ events' = Append(events, [kind |-> "pid"])
            /\ c.kind # "prompt"
         \/ gdb'.state = "dead" /\ events' = events
  BY <1>a, GdbExecutes
<1>8. CASE gdb'.state = "prompt" /\ Replied(c)
           /\ gdb'.trusted = (gdb.trusted \/ c.kind = "prompt")
  <2>1. Patient /\ driver.open => gdb'.trusted
    BY <1>6, <1>8
  <2> QED
    BY <1>2, <1>3, <1>5, <1>7, <1>8, <2>1, ReplyStep
<1>9. CASE /\ gdb'.state = "program" /\ gdb'.asked = c /\ gdb'.trusted = gdb.trusted
           /\ events' = events \/ events' = Append(events, [kind |-> "pid"])
           /\ c.kind # "prompt"
  <2>1. /\ AnswerAt' = AnswerAt /\ Terminated' = Terminated /\ events' \in Seq(Posted)
    <3>1. CASE events' = events
      BY <1>1, <3>1 DEF AnswerAt, Terminated, Types
    <3>2. CASE events' = Append(events, [kind |-> "pid"])
      <4> DEFINE e == [kind |-> "pid"]
      <4>1. e \in Posted /\ e.kind = "pid"
        BY DEF Posted
      <4> HIDE DEF e
      <4>2. events' = Append(events, e)
        BY <3>2 DEF e
      <4> QED
        BY <1>1, <4>1, <4>2, AppendEvents
    <3> QED
      BY <1>9, <3>1, <3>2
  <2>2. Asked(c)'
    BY <1>3, <1>5 DEF Asked
  <2>3. Types'
    BY <1>1, <1>2, <1>5, <1>7, <2>1 DEF Types
  <2>4. Life'
    BY <1>1, <1>2, <1>3, <1>5, <2>1 DEF Life
  <2>5. Queue'
    BY <1>1, <1>3, <1>5, <1>9, <2>1, <2>2 DEF Queue
  <2>6. Owed'
    BY <1>3, <1>5, <1>6, <1>9 DEF Owed, Answering, PromptFirst
  <2> QED
    BY <2>3, <2>4, <2>5, <2>6 DEF IInv
<1>10. CASE gdb'.state = "dead" /\ events' = events
  <2>1. AnswerAt' = AnswerAt /\ Terminated' = Terminated
    BY <1>10 DEF AnswerAt, Terminated
  <2>2. Types'
    BY <1>1, <1>2, <1>5, <1>7, <1>10 DEF Types
  <2>3. Life'
    BY <1>1, <1>2, <1>3, <1>5, <1>10, <2>1 DEF Life
  <2>4. Queue'
    BY <1>1, <1>3, <1>5, <1>10, <2>1 DEF Queue
  <2>5. Owed'
    BY <1>10 DEF Owed, Answering, PromptFirst
  <2> QED
    BY <2>2, <2>3, <2>4, <2>5 DEF IInv
<1> QED
  BY <1>7, <1>8, <1>9, <1>10

(* The program stops, by itself or at a signal: GDB answers the command     *)
(* that let it run.                                                         *)
LEMMA ProgramStopsSteps ==
  ASSUME IInv, ProgramStops \/ ProgramSignalled
  PROVE  IInv'
<1>1. Types /\ Life /\ Queue /\ Owed
  BY DEF IInv
<1>2. /\ gdb.state = "program" /\ IsGdb(gdb)
      /\ UNCHANGED <<m_Breakpoints, bp, driver, m_pProcess, starting, clicks>>
  BY <1>1 DEF ProgramStops, ProgramSignalled, Types
<1>3. /\ Asked(gdb.asked) /\ AnswerAt = {} /\ driver.stdin = <<>> /\ m_pProcess = TRUE
      /\ driver.up /\ gdb.asked \in Queueable
  BY <1>1, <1>2 DEF Queue, Life, Types, IsGdb
<1>4. /\ IsGdb(gdb') /\ gdb'.state = "prompt" /\ gdb'.trusted = gdb.trusted
      /\ \E text \in {"stopped", "exited", "killed"} : Answers(gdb, gdb.asked, text, 0)
  <2>1. /\ \/ gdb' = [gdb EXCEPT !.state = "prompt"]
           \/ \E x : gdb' = [gdb EXCEPT !.state = "prompt", !.bps = x]
           \/ \E x : gdb' = [gdb EXCEPT !.state = "prompt", !.signal = x]
        /\ \E text \in {"stopped", "exited", "killed"} : Answers(gdb, gdb.asked, text, 0)
    BY DEF ProgramStops, ProgramSignalled
  <2> DEFINE h == [gdb EXCEPT !.state = "prompt"]
  <2>2. IsGdb(h) /\ h.state = "prompt" /\ h.trusted = gdb.trusted
    BY <1>2, StateSet
  <2>3. gdb' = h \/ (\E x : gdb' = [h EXCEPT !.bps = x]) \/ (\E x : gdb' = [h EXCEPT !.signal = x])
    BY <2>1
  <2> HIDE DEF h
  <2>4. CASE gdb' = h
    BY <2>1, <2>2, <2>4
  <2>5. CASE \E x : gdb' = [h EXCEPT !.bps = x]
    <3>1. PICK x : gdb' = [h EXCEPT !.bps = x]
      BY <2>5
    <3> QED
      BY <2>1, <2>2, <3>1, BpsSet
  <2>6. CASE \E x : gdb' = [h EXCEPT !.signal = x]
    <3>1. PICK x : gdb' = [h EXCEPT !.signal = x]
      BY <2>6
    <3> QED
      BY <2>1, <2>2, <3>1, SignalSet
  <2> QED
    BY <2>3, <2>4, <2>5, <2>6
<1>5. Replied(gdb.asked)
  BY <1>3, <1>4, AnswersReply DEF Texts
<1>6. Patient /\ driver.open => gdb'.trusted
  <2> SUFFICES ASSUME Patient, driver.open, ~gdb.trusted PROVE FALSE
    BY <1>4
  <2>1. driver.stdin = <<Plain("prompt")>>
    BY <1>1, <1>2, <1>3 DEF Owed, PromptFirst, Asked
  <2> QED
    BY <1>3, <2>1
<1>7. driver' \in Drivers
  BY <1>1, <1>2 DEF Types
<1> QED
  BY <1>2, <1>3, <1>4, <1>5, <1>6, <1>7, ReplyStep

(* GDB ends: at the end of its input or because it could not start.         *)
LEMMA GdbEndSteps ==
  ASSUME IInv, GdbEndOfInput \/ GdbFailsToStart
  PROVE  IInv'
<1>1. Types /\ Life /\ Queue /\ Owed
  BY DEF IInv
<1>2. /\ gdb.state = "prompt" /\ gdb' = [gdb EXCEPT !.state = "dead"]
      /\ UNCHANGED <<m_Breakpoints, bp, driver, m_pProcess, starting, events, clicks>>
  BY DEF GdbEndOfInput, GdbFailsToStart
<1>3. IsGdb(gdb') /\ gdb'.state = "dead"
  <2>1. IsGdb(gdb)
    BY <1>1 DEF Types
  <2> QED
    BY <1>2, <2>1, StateSet
<1>4. AnswerAt' = AnswerAt /\ Terminated' = Terminated
  BY <1>2 DEF AnswerAt, Terminated
<1>5. Types'
  BY <1>1, <1>2, <1>3 DEF Types
<1>6. Life'
  BY <1>1, <1>2, <1>3, <1>4 DEF Life
<1>7. Queue'
  BY <1>1, <1>2, <1>3, <1>4 DEF Queue, Asked
<1>8. Owed'
  BY <1>3 DEF Owed, Answering, PromptFirst
<1> QED
  BY <1>5, <1>6, <1>7, <1>8 DEF IInv

(* The end of the process is the last event of the session.                 *)
LEMMA ProcessTerminatesStep ==
  ASSUME IInv, ProcessTerminates
  PROVE  IInv'
<1> DEFINE e == [kind |-> "terminated"]
<1>1. Types /\ Life /\ Queue /\ Owed
  BY DEF IInv
<1>2. /\ m_pProcess /\ gdb.state = "dead" /\ m_pProcess' = FALSE
      /\ UNCHANGED <<m_Breakpoints, bp, driver, starting, gdb, clicks>>
  BY DEF ProcessTerminates
<1>3. e \in Posted /\ e.kind = "terminated" /\ events' = Append(events, e)
  BY DEF Posted, ProcessTerminates
<1> HIDE DEF e
<1>4. /\ events' \in Seq(Posted) /\ events' # <<>> /\ AnswerAt' = AnswerAt
      /\ Terminated' = Terminated \cup {Len(events')} /\ Len(events') = Len(events) + 1
      /\ Len(events) \in Nat
  BY <1>1, <1>3, AppendEvents
<1>5. driver.up /\ Terminated = {}
  BY <1>1, <1>2 DEF Life
<1>6. Types'
  BY <1>1, <1>2, <1>4 DEF Types
<1>7. Life'
  BY <1>2, <1>4, <1>5 DEF Life
<1>8. Queue'
  <2>1. \A i \in AnswerAt : events'[i] = events[i]
    BY <1>1, <1>3 DEF AnswerAt, Types
  <2>2. \A x : Asked(x)' <=> Asked(x)
    BY <1>2 DEF Asked
  <2> QED
    BY <1>1, <1>2, <1>4, <2>1, <2>2 DEF Queue
<1>9. Owed'
  BY <1>2 DEF Owed, Answering, PromptFirst
<1> QED
  BY <1>6, <1>7, <1>8, <1>9 DEF IInv
-----------------------------------------------------------------------------
(* The invariant.                                                           *)

(* No session.                                                              *)
LEMMA InitIInv == Init => IInv
<1> SUFFICES ASSUME Init PROVE IInv
  OBVIOUS
<1>1. NoDriver \in Drivers
  BY DEF NoDriver, Drivers
<1>2. IsGdb(NoGdb)
  <2>1. Plain("none") \in Queueable
    BY PlainIsQueueable DEF Kinds
  <2> QED
    BY <2>1 DEF IsGdb, NoGdb
<1>3. /\ driver.up = FALSE /\ driver.m_DCmds = <<>> /\ driver.m_QueueBusy = FALSE
      /\ driver.m_ProgramIsStopped = TRUE /\ driver.stdin = <<>> /\ gdb.state = "dead"
      /\ m_pProcess = FALSE /\ events = <<>>
  BY DEF Init, NoDriver, NoGdb
<1>4. AnswerAt = {}
  BY <1>3 DEF AnswerAt
<1>5. m_Breakpoints \in Lists
  BY DEF Init, Lists, Distinct
<1>6. clicks \in 0..MaxClicks
  <2>1. MaxClicks \in Nat
    BY DriverAssumption
  <2> QED
    BY <2>1 DEF Init
<1>7. bp \in [Bps -> Fields]
  BY FreshIsTyped DEF Init
<1>8. events \in Seq(Posted)
  BY <1>3
<1>9. Types
  BY <1>1, <1>2, <1>5, <1>6, <1>7, <1>8 DEF Types, Init
<1>10. Life /\ Queue /\ Owed
  BY <1>3, <1>4 DEF Life, Queue, Owed, Answering, PromptFirst
<1> QED
  BY <1>9, <1>10 DEF IInv

(* Whatever the user does.                                                  *)
LEMMA UserStep ==
  ASSUME IInv, User
  PROVE  IInv'
<1>1. CodeBps \subseteq Bps /\ DataBps \subseteq Bps
  BY DEF Bps
<1>2. ASSUME NEW b \in CodeBps, NEW line \in Lines, AddBreakpoint(b, line) \/ RunToCursor(b, line)
      PROVE  IInv'
  BY <1>1, <1>2, BreakpointSteps, RunToCursorStep
<1>3. ASSUME NEW b \in CodeBps, RemoveBreakpoint(b) PROVE IInv'
  BY <1>1, <1>3, BreakpointSteps
<1>4. ASSUME NEW b \in CodeBps, NEW enabled \in BOOLEAN, NEW o \in Options,
             OnBreakpointEdit(b, enabled, o[1], o[2])
      PROVE  IInv'
  BY <1>1, <1>4, BreakpointSteps
<1>5. ASSUME NEW b \in DataBps, AddDataBreakpoint(b) \/ RemoveDataBreakpoint(b) PROVE IInv'
  BY <1>1, <1>5, BreakpointSteps
<1>6. ASSUME OnRemoveAllBreakpoints PROVE IInv'
  <2>1. m_Breakpoints \in Seq(Bps) /\ m_Breakpoints # <<>>
    BY <1>6 DEF IInv, Types, Lists, OnRemoveAllBreakpoints
  <2>2. PICK b \in Bps : TRUE
    BY <2>1
  <2> QED
    BY <1>6, <2>2, BreakpointSteps
<1>7. ASSUME NEW startline \in Lines, LinesRemoved(startline, 1) PROVE IInv'
  BY <1>7, LinesRemovedStep
<1>8. ASSUME NEW startline \in 0..MaxLine, LinesAdded(startline, 1) PROVE IInv'
  BY <1>8, LinesAddedStep
<1>9. ASSUME NEW kind \in {"cont", "next"}, Resume(kind) PROVE IInv'
  BY <1>9, ResumeStep
<1> QED
  BY <1>2, <1>3, <1>4, <1>5, <1>6, <1>7, <1>8, <1>9, DebugStep, OnValueTooltipStep, OnStopStep,
     OnProjectActivatedStep DEF User

(* Whatever happens.                                                        *)
LEMMA NextIInv == IInv /\ [Next]_vars => IInv'
<1> SUFFICES ASSUME IInv, [Next]_vars PROVE IInv'
  OBVIOUS
<1>1. CASE User
  BY <1>1, UserStep
<1>2. CASE FinishStart
  BY <1>2, FinishStartStep
<1>3. CASE Parse \/ ParsePid \/ OnGDBTerminated
  BY <1>3, ParseAnswerStep, ParsePidStep, OnGDBTerminatedStep DEF Parse
<1>4. CASE ProcessTerminates
  BY <1>4, ProcessTerminatesStep
<1>5. CASE Gdb \/ ProgramStops \/ GdbFailsToStart
  BY <1>5, GdbExecuteStep, ProgramStopsSteps, GdbEndSteps DEF Gdb
<1>6. CASE UNCHANGED vars
  <2>1. UNCHANGED <<m_Breakpoints, bp, driver, m_pProcess, starting, gdb, events, clicks>>
    BY <1>6 DEF vars
  <2>2. AnswerAt' = AnswerAt /\ Terminated' = Terminated
    BY <2>1 DEF AnswerAt, Terminated
  <2>3. Types' /\ Life'
    BY <2>1, <2>2 DEF IInv, Types, Life
  <2>4. Queue' /\ Owed'
    BY <2>1, <2>2 DEF IInv, Queue, Asked, Owed, Answering, PromptFirst
  <2> QED
    BY <2>3, <2>4 DEF IInv
<1> QED
  BY <1>1, <1>2, <1>3, <1>4, <1>5, <1>6 DEF Next

(* The driver, the pipe, GDB and the posted events always hold together as  *)
(* IInv says, whatever the environment does.                                *)
THEOREM Invariance == Spec => []IInv
BY InitIInv, NextIInv, PTL DEF Spec

(* Every variable keeps its type, whatever the breakpoints, clicks and      *)
(* mishaps (DebuggerDriver, DebuggerState, GDB_driver).                     *)
THEOREM TypeCorrect == Spec => []TypeOK
<1>1. IInv => TypeOK
  <2> SUFFICES ASSUME IInv PROVE TypeOK
    OBVIOUS
  <2>1. Types
    BY DEF IInv
  <2>2. m_Breakpoints \in Seq(Bps)
    BY <2>1 DEF Types, Lists
  <2>3. \A b \in Bps : bp[b].line \in 0..MaxLine /\ bp[b].index \in Int
    BY <2>1 DEF Types, Fields
  <2>4. driver.m_DCmds \in Seq(Commands) /\ driver.stdin \in Seq(Commands)
    <3>1. Queueable \subseteq Commands
      BY DEF Queueable
    <3>2. driver.m_DCmds \in Seq(Queueable) /\ driver.stdin \in Seq(Queueable)
      BY <2>1 DEF Types, Drivers
    <3> QED
      BY <3>1, <3>2
  <2>5. \A f \in {"up", "m_QueueBusy", "m_ProgramIsStopped", "m_IsStarted", "m_ChildPID", "open"} :
            driver[f] \in BOOLEAN
    BY <2>1 DEF Types, Drivers
  <2> QED
    BY <2>1, <2>2, <2>3, <2>4, <2>5 DEF TypeOK, Types, IsGdb
<1> QED
  BY <1>1, Invariance, PTL

(* What GDB owes is nothing, or the answer to the one command asked.        *)
LEMMA OutstandingIs ==
  ASSUME IInv
  PROVE  \/ /\ Outstanding = <<>>
            /\ AnswerAt = {} /\ gdb.state # "program" /\ driver.stdin = <<>>
         \/ \E x : Outstanding = <<x>> /\ Asked(x)
<1> DEFINE given == Asking!Fold(0, 0, <<>>, events)
           running == IF gdb.state = "program" THEN <<gdb.asked>> ELSE <<>>
<1>1. events \in Seq(Posted) /\ Queue /\ Len(events) \in Nat /\ DOMAIN events = 1..Len(events)
  BY DEF IInv, Types
<1>2. Outstanding = given \o running \o driver.stdin
  BY DEF Outstanding, FoldLeft, MapThenFoldSet, Max, Asking!Fold, Asking!Top, AskedOp
<1>3. CASE AnswerAt = {}
  <2>1. given = <<>>
    <3> DEFINE S == [k \in 0..Len(events) |-> {<<>>}]
    <3>1. ASSUME NEW k \in 0..(Len(events) - 1), NEW s \in S[k]
          PROVE  AskedOp(0, 0, s, events[k + 1]) \in S[k + 1]
      <4>1. k \in 0..Len(events) /\ k + 1 \in 0..Len(events) /\ k + 1 \in DOMAIN events
        BY <1>1
      <4>2. s = <<>> /\ events[k + 1].kind # "answer"
        BY <1>3, <3>1, <4>1 DEF AnswerAt
      <4> QED
        BY <4>1, <4>2 DEF AskedOp
    <3>2. <<>> \in S[0]
      BY <1>1
    <3>3. S[Len(events)] = {<<>>}
      BY <1>1
    <3> HIDE DEF S
    <3>4. Asking!Fold(0, 0, <<>>, events) \in S[Len(events)]
      BY <1>1, <3>1, <3>2, Asking!FoldSteps
    <3> QED
      BY <3>3, <3>4
  <2> HIDE DEF given
  <2>2. CASE gdb.state = "program"
    <3>1. driver.stdin = <<>> /\ Asked(gdb.asked) /\ running = <<gdb.asked>>
      BY <1>1, <2>2 DEF Queue
    <3>2. <<>> \o <<gdb.asked>> \o <<>> = <<gdb.asked>>
      OBVIOUS
    <3> QED
      BY <1>2, <2>1, <3>1, <3>2
  <2>3. CASE gdb.state # "program" /\ driver.stdin = <<>>
    <3>1. <<>> \o <<>> \o <<>> = <<>>
      OBVIOUS
    <3> QED
      BY <1>2, <1>3, <2>1, <2>3, <3>1
  <2>4. CASE gdb.state # "program" /\ driver.stdin # <<>>
    <3> DEFINE x == Head(driver.stdin)
    <3>1. driver.stdin = <<x>> /\ Asked(x)
      BY <1>1, <2>4 DEF Queue
    <3> HIDE DEF x
    <3>2. <<>> \o <<>> \o <<x>> = <<x>>
      OBVIOUS
    <3>3. Outstanding = <<x>>
      BY <1>2, <2>1, <2>4, <3>1, <3>2
    <3> QED
      BY <3>1, <3>3
  <2> QED
    BY <2>2, <2>3, <2>4
<1>4. CASE AnswerAt # {}
  <2>1. PICK i \in AnswerAt : TRUE
    BY <1>4
  <2> DEFINE x == events[i].to
  <2>2. AnswerAt = {i} /\ Asked(x) /\ gdb.state # "program" /\ driver.stdin = <<>>
    BY <1>1, <1>4, <2>1 DEF Queue
  <2>a. i \in 1..Len(events)
    BY <1>1, <2>1 DEF AnswerAt
  <2>3. given = <<x>>
    <3> DEFINE S == [k \in 0..Len(events) |-> IF k < i THEN {<<>>} ELSE {<<x>>}]
    <3>1. ASSUME NEW k \in 0..(Len(events) - 1), NEW s \in S[k]
          PROVE  AskedOp(0, 0, s, events[k + 1]) \in S[k + 1]
      <4>1. k \in 0..Len(events) /\ k + 1 \in 0..Len(events) /\ k + 1 \in DOMAIN events
        BY <1>1
      <4>2. CASE k + 1 = i
        <5>1. s = <<>> /\ events[k + 1].kind = "answer"
          BY <2>1, <2>a, <3>1, <4>1, <4>2 DEF AnswerAt
        <5>2. AskedOp(0, 0, s, events[k + 1]) = Append(<<>>, x)
          BY <4>2, <5>1 DEF AskedOp
        <5>3. Append(<<>>, x) = <<x>>
          OBVIOUS
        <5> QED
          BY <2>a, <4>1, <4>2, <5>2, <5>3
      <4>3. CASE k + 1 # i
        <5>1. events[k + 1].kind # "answer"
          BY <2>2, <4>1, <4>3 DEF AnswerAt
        <5>2. AskedOp(0, 0, s, events[k + 1]) = s
          BY <5>1 DEF AskedOp
        <5>3. k < i <=> k + 1 < i
          BY <2>a, <4>1, <4>3
        <5> QED
          BY <3>1, <4>1, <5>2, <5>3
      <4> QED
        BY <4>2, <4>3
    <3>2. <<>> \in S[0]
      BY <1>1, <2>a
    <3>3. S[Len(events)] = {<<x>>}
      BY <1>1, <2>a
    <3> HIDE DEF S
    <3>4. Asking!Fold(0, 0, <<>>, events) \in S[Len(events)]
      BY <1>1, <3>1, <3>2, Asking!FoldSteps
    <3> QED
      BY <3>3, <3>4
  <2> HIDE DEF given, x
  <2>4. <<x>> \o <<>> \o <<>> = <<x>>
    OBVIOUS
  <2>5. Outstanding = <<x>>
    BY <1>2, <2>2, <2>3, <2>4
  <2> QED
    BY <2>2, <2>5
<1> QED
  BY <1>3, <1>4

(* Unless a tooltip is asked for a word that GDB does not know, the answer  *)
(* GDB gives next is read by the command it answers (RunQueue and           *)
(* ParseOutput of the driver), however hasty the user is, whatever          *)
(* addresses GDB refuses and whatever breakpoints are disabled.             *)
THEOREM AnswersReachAsker ==
  ASSUME KnownWords
  PROVE  Spec => []AnswerToAsker
<1>1. IInv => AnswerToAsker
  <2> SUFFICES ASSUME IInv, driver.up, Outstanding # <<>>
               PROVE  driver.m_DCmds # <<>> /\ Head(driver.m_DCmds) = Head(Outstanding)
    BY DEF AnswerToAsker
  <2>1. PICK x : Outstanding = <<x>> /\ Asked(x)
    BY OutstandingIs
  <2>2. driver.m_DCmds # <<>>
    BY <2>1 DEF IInv, Queue, Asked
  <2> QED
    BY <2>1, <2>2 DEF Asked
<1> QED
  BY <1>1, Invariance, PTL

(* If the user does not click while the last click is being served,         *)
(* m_QueueBusy says exactly that GDB owes one answer: no command is dropped *)
(* by SendCommand, and none is sent ahead of its turn, tooltips on unknown  *)
(* words included.                                                          *)
THEOREM BusyIsAsked ==
  ASSUME Patient
  PROVE  Spec => []BusyMeansAsked
<1>1. IInv => BusyMeansAsked
  <2> SUFFICES ASSUME IInv, driver.up, driver.open, gdb.state # "dead"
               PROVE  /\ driver.m_QueueBusy <=> Len(Outstanding) = 1
                      /\ Len(Outstanding) <= 1
                      /\ driver.m_ProgramIsStopped <=> ~driver.m_QueueBusy
                      /\ ~driver.m_QueueBusy => driver.m_DCmds = <<>>
    BY DEF BusyMeansAsked
  <2>1. Queue /\ Owed /\ driver \in Drivers
    BY DEF IInv, Types
  <2>2. /\ driver.m_ProgramIsStopped <=> ~driver.m_QueueBusy
        /\ ~driver.m_QueueBusy => driver.m_DCmds = <<>>
    BY <2>1 DEF Queue, Drivers
  <2>3. CASE Outstanding = <<>> /\ AnswerAt = {} /\ gdb.state # "program" /\ driver.stdin = <<>>
    <3>1. ~driver.m_QueueBusy
      BY <2>1, <2>3 DEF Owed, Answering
    <3>2. Len(Outstanding) = 0
      BY <2>3
    <3> QED
      BY <2>2, <3>1, <3>2
  <2>4. CASE \E x : Outstanding = <<x>> /\ Asked(x)
    <3>1. PICK x : Outstanding = <<x>> /\ Asked(x)
      BY <2>4
    <3>2. Len(Outstanding) = 1 /\ driver.m_QueueBusy
      BY <3>1 DEF Asked
    <3> QED
      BY <2>2, <3>2
  <2> QED
    BY <2>3, <2>4, OutstandingIs
<1> QED
  BY <1>1, Invariance, PTL
-----------------------------------------------------------------------------
(* The breakpoints.                                                         *)

(* What the theorems about the breakpoints assume.                          *)
Ordinary == Mishaps = {}

Setting == {"break", "tbreak", "watch"}
Adds == Setting \cup {"output"}
Work == Adds \cup {"delete", "condition", "ignore"}

(* What a queue asks of GDB's breakpoints.                                  *)
Asks(q) == {q[i] : i \in {j \in DOMAIN q : q[j].kind \in Work}}
Settled(A, b) == \A c \in A : c.bp = b => c.kind \notin Adds
Sends(A, kind, n) == \E c \in A : c.kind = kind /\ c.arg = n

(* The answers that are posted, and the numbers of new breakpoints in them. *)
Replies == {events[i] : i \in AnswerAt}
Got == {e.number : e \in {a \in Replies : a.to.kind \in Setting}}

(* The command that sets b.                                                 *)
AddFits(c, o) ==
    /\ o.enabled
    /\ c.kind = "output" \/ c.arg = o.line
    /\ IF c.bp \in DataBps THEN c.kind \in {"output", "watch"}
       ELSE c.kind = IF o.temporary THEN "tbreak" ELSE "break"

(* A breakpoint that has its number, if GDB has it still.                   *)
BpFits(g, A, got, o) ==
    /\ o.index \notin got /\ o.index < g.next
    /\ o.index \in DOMAIN g.bps \/ o.temporary
    /\ o.index \in DOMAIN g.bps =>
        /\ ~Sends(A, "delete", o.index)
        /\ g.bps[o.index].at = o.line /\ g.bps[o.index].temp = o.temporary
        /\ g.bps[o.index].cond => o.useCondition
        /\ g.bps[o.index].ign => o.useIgnoreCount
        /\ o.useCondition => g.bps[o.index].cond \/ Sends(A, "condition", o.index)
        /\ o.useIgnoreCount => g.bps[o.index].ign \/ Sends(A, "ignore", o.index)

Known(t, A, b) == t[b].enabled /\ Settled(A, b)

(* The commands that set breakpoints set those of the editor.               *)
AddsFit(t, A, on) ==
    \A c \in A : c.kind \in Adds => c.bp \in on /\ AddFits(c, t[c.bp])
(* The editor's breakpoints that are not on their way to GDB are there.     *)
BpsFit(t, A, g, got, on) ==
    \A b \in on : /\ ~t[b].enabled => t[b].index = -1
                  /\ Known(t, A, b) => BpFits(g, A, got, t[b])
(* No two have the same number.                                             *)
Apart(t, A, on) ==
    \A b1, b2 \in on :
        Known(t, A, b1) /\ Known(t, A, b2) /\ t[b1].index = t[b2].index => b1 = b2
(* GDB's breakpoints are those of the editor, or about to be.               *)
NumbersFit(t, A, g, got, on) ==
    \A n \in DOMAIN g.bps :
        /\ n \in Nat \ {0} /\ n < g.next
        /\ n \in got \/ Sends(A, "delete", n) \/ \E b \in on : Known(t, A, b) /\ t[b].index = n
(* The commands about numbers are about breakpoints that have them.         *)
OrdersFit(t, A, g, got, on) ==
    \A c \in A :
        /\ c.kind = "delete" => c.arg < g.next /\ c.arg \notin got
        /\ c.kind = "condition" => \E b \in on : Known(t, A, b) /\ t[b].index = c.arg /\ t[b].useCondition
        /\ c.kind = "ignore" => \E b \in on : Known(t, A, b) /\ t[b].index = c.arg /\ t[b].useIgnoreCount

Fits(t, A, g, got, on) ==
    /\ AddsFit(t, A, on) /\ BpsFit(t, A, g, got, on) /\ Apart(t, A, on)
    /\ NumbersFit(t, A, g, got, on) /\ OrdersFit(t, A, g, got, on)

Made(c) == [at |-> c.arg, temp |-> c.kind = "tbreak", cond |-> FALSE, ign |-> FALSE]
AnswerFits(a, g) ==
    /\ a.to.kind \in Setting => /\ a.number \in DOMAIN g.bps /\ g.bps[a.number] = Made(a.to)
                                /\ a.text = IF a.to.kind = "watch" THEN "watchpoint" ELSE "breakpoint"
    /\ a.to.kind = "output" => a.text = "address"
    /\ a.to.kind = "delete" => a.to.arg \notin DOMAIN g.bps
    /\ a.to.kind = "condition" /\ a.to.arg \in DOMAIN g.bps => g.bps[a.to.arg].cond
    /\ a.to.kind = "ignore" /\ a.to.arg \in DOMAIN g.bps => g.bps[a.to.arg].ign

(* No breakpoint is set twice by a queue.                                   *)
Unique(q) == \A i, j \in DOMAIN q :
    q[i].kind \in Adds /\ q[j].kind \in Adds /\ q[i].bp = q[j].bp => i = j
(* Breakpoints are changed before the program goes on, except when it runs  *)
(* already.                                                                 *)
Ordered(q) == \A i, j \in DOMAIN q :
    i < j /\ q[i].kind \in Resuming /\ q[j].kind \in Work => i = 1
NoRun(q) == \A i \in DOMAIN q : q[i].kind \in Resuming => i = 1
Strict(q) == \A i, j \in DOMAIN q :
    i < j /\ q[i].kind \in Resuming => q[j].kind \notin Work
Entries == [at : Int, temp : BOOLEAN, cond : BOOLEAN, ign : BOOLEAN]

AreData(t) == \A b \in DataBps :
    t[b].enabled /\ ~t[b].temporary /\ ~t[b].useCondition /\ ~t[b].useIgnoreCount
Plainly == AreData(bp)
Starts ==
    driver.up /\ driver.open /\ starting =>
        ~driver.m_QueueBusy /\ (gdb.state # "dead" => gdb.bps = <<>> /\ gdb.next = 1)
Dies == driver.up /\ driver.open /\ ~starting /\ gdb.state = "dead" => driver.m_QueueBusy /\ Replies = {}
Lives ==
    driver.up /\ driver.open /\ ~starting /\ gdb.state # "dead" =>
        /\ gdb.bps \in [DOMAIN gdb.bps -> Entries]
        /\ Fits(bp, Asks(driver.m_DCmds), gdb, Got, Range(m_Breakpoints))
        /\ Unique(driver.m_DCmds) /\ Ordered(driver.m_DCmds)
        /\ \A a \in Replies : AnswerFits(a, gdb)
        /\ gdb.state = "program" => gdb.asked.kind \in Resuming
BpInv == Plainly /\ Starts /\ Dies /\ Lives
-----------------------------------------------------------------------------
(* Queues.                                                                 *)

(* A queue that asks A, and lets the program run with its first command, if *)
(* at all, and only if busy, which says that this was sent before.          *)
Queued(q, A, busy) ==
    /\ q \in Seq(Queueable) /\ Asks(q) = A /\ Unique(q) /\ NoRun(q)
    /\ q # <<>> /\ q[1].kind \in Resuming => busy
(* What c adds to what is asked.                                            *)
Added(A, c) == IF c.kind \in Work THEN A \cup {c} ELSE A

(* The kinds of commands do not overlap.                                    *)
LEMMA KindsDiffer ==
  /\ \A k \in Work : k \notin Empty /\ k \notin Resuming
  /\ \A k \in Empty : k \notin Work /\ k \notin Adds /\ k \notin Resuming
  /\ Adds \subseteq Work
BY DEF Work, Adds, Setting, Empty, Resuming

(* A command behind a queue.                                                *)
LEMMA AppendQueued ==
  ASSUME NEW q \in Seq(Queueable), NEW c \in Queueable
  PROVE  /\ Asks(Append(q, c)) = Added(Asks(q), c)
         /\ Unique(q) /\ (c.kind \in Adds => Settled(Asks(q), c.bp)) => Unique(Append(q, c))
         /\ NoRun(q) /\ (c.kind \notin Resuming \/ q = <<>>) => NoRun(Append(q, c))
         /\ NoRun(q) /\ c.kind \notin Work => Ordered(Append(q, c))
         /\ Strict(q) /\ c.kind \notin Work => Strict(Append(q, c))
         /\ Ordered(q) /\ c.kind \notin Work => Ordered(Append(q, c))
<1> DEFINE r == Append(q, c)
           n == Len(q)
<1>1. /\ n \in Nat /\ DOMAIN q = 1..n /\ DOMAIN r = 1..(n + 1) /\ r[n + 1] = c
      /\ \A i \in 1..n : r[i] = q[i]
  OBVIOUS
<1>2. q = <<>> => n = 0
  OBVIOUS
<1>a. \A i \in 1..(n + 1) : i \in 1..n \/ i = n + 1
  BY <1>1
<1>b. \A i \in 1..n : i \in 1..(n + 1) /\ i # n + 1 /\ i < n + 1
  BY <1>1
<1>c. n + 1 \in 1..(n + 1)
  BY <1>1
<1> HIDE DEF r, n
<1>3. Asks(r) = Added(Asks(q), c)
  <2>1. ASSUME NEW x \in Asks(r) PROVE x \in Added(Asks(q), c)
    <3>1. PICK i \in 1..(n + 1) : r[i] = x /\ x.kind \in Work
      BY <1>1 DEF Asks
    <3>2. CASE i \in 1..n
      BY <1>1, <3>1, <3>2 DEF Asks, Added
    <3>3. CASE i = n + 1
      BY <1>1, <3>1, <3>3 DEF Added
    <3> QED
      BY <1>a, <3>2, <3>3
  <2>2. ASSUME NEW x \in Added(Asks(q), c) PROVE x \in Asks(r)
    <3>1. CASE x \in Asks(q)
      <4>1. PICK i \in 1..n : q[i] = x /\ x.kind \in Work
        BY <1>1, <3>1 DEF Asks
      <4> QED
        BY <1>1, <1>b, <4>1 DEF Asks
    <3>2. CASE x = c /\ c.kind \in Work
      BY <1>1, <1>c, <3>2 DEF Asks
    <3> QED
      BY <3>1, <3>2 DEF Added
  <2> QED
    BY <2>1, <2>2
<1>4. ASSUME Unique(q), c.kind \in Adds => Settled(Asks(q), c.bp) PROVE Unique(r)
  <2>1. \A i \in 1..n : c.kind \in Adds /\ q[i].kind \in Adds => q[i].bp # c.bp
    BY <1>1, <1>4, KindsDiffer DEF Asks, Settled
  <2> SUFFICES ASSUME NEW i \in 1..(n + 1), NEW j \in 1..(n + 1),
                      r[i].kind \in Adds, r[j].kind \in Adds, r[i].bp = r[j].bp
               PROVE  i = j
    BY <1>1 DEF Unique
  <2> QED
    BY <1>1, <1>4, <1>a, <2>1 DEF Unique
<1>5. NoRun(q) /\ (c.kind \notin Resuming \/ q = <<>>) => NoRun(r)
  BY <1>1, <1>2, <1>a DEF NoRun
<1>6. NoRun(q) /\ c.kind \notin Work => Ordered(r)
  BY <1>1, <1>a DEF NoRun, Ordered
<1>7. Strict(q) /\ c.kind \notin Work => Strict(r)
  BY <1>1, <1>a DEF Strict
<1>8. Ordered(q) /\ c.kind \notin Work => Ordered(r)
  BY <1>1, <1>a DEF Ordered
<1> QED
  BY <1>3, <1>4, <1>5, <1>6, <1>7, <1>8 DEF r

(* A queue of one command, and of none.                                     *)
LEMMA ShortQueues ==
  /\ \A busy : Queued(<<>>, {}, busy) /\ Strict(<<>>) /\ Ordered(<<>>)
  /\ \A c \in Queueable : \A busy :
        /\ c.kind \notin Resuming => Queued(<<c>>, Added({}, c), busy)
        /\ Asks(<<c>>) = Added({}, c) /\ Unique(<<c>>) /\ Strict(<<c>>) /\ Ordered(<<c>>)
<1>1. \A busy : Queued(<<>>, {}, busy) /\ Strict(<<>>) /\ Ordered(<<>>)
  BY DEF Queued, Asks, Unique, NoRun, Strict, Ordered
<1>2. ASSUME NEW c \in Queueable, NEW busy
      PROVE  /\ c.kind \notin Resuming => Queued(<<c>>, Added({}, c), busy)
             /\ Asks(<<c>>) = Added({}, c) /\ Unique(<<c>>) /\ Strict(<<c>>) /\ Ordered(<<c>>)
  <2> DEFINE q == <<c>>
  <2>1. q \in Seq(Queueable) /\ DOMAIN q = {1} /\ q[1] = c
    OBVIOUS
  <2> HIDE DEF q
  <2>2. Asks(q) = Added({}, c)
    BY <2>1 DEF Asks, Added
  <2>3. Unique(q) /\ NoRun(q) /\ Strict(q) /\ Ordered(q)
    BY <2>1 DEF Unique, NoRun, Strict, Ordered
  <2> QED
    BY <2>1, <2>2, <2>3 DEF Queued, q
<1> QED
  BY <1>1, <1>2

(* What the queue is after QueueCommand.                                    *)
LEMMA LowCmds ==
  ASSUME NEW e, Good(e), NEW c \in Queueable
  PROVE  QueueLow(e, c).m_DCmds =
           IF e.m_QueueBusy THEN Append(e.m_DCmds, c) ELSE IF c.kind \in Empty THEN <<>> ELSE <<c>>
<1> DEFINE f == [e EXCEPT !.m_DCmds = Append(@, c)]
<1>1. e \in Drivers /\ e.m_DCmds \in Seq(Queueable) /\ (~e.m_QueueBusy => e.m_DCmds = <<>>)
  BY DEF Good, Drivers
<1>2. /\ f.m_DCmds = Append(e.m_DCmds, c) /\ f.m_QueueBusy = e.m_QueueBusy /\ QueueLow(e, c) = RunQueue(f)
      /\ f \in [{"up", "m_DCmds", "m_QueueBusy", "m_ProgramIsStopped", "m_IsStarted",
                 "m_ChildPID", "auto", "stdin", "open"} -> {f[x] : x \in DOMAIN f}]
  BY <1>1 DEF QueueLow, Drivers
<1> HIDE DEF f
<1>3. CASE e.m_QueueBusy
  BY <1>2, <1>3 DEF RunQueue
<1>4. CASE ~e.m_QueueBusy
  <2> DEFINE q == <<c>>
             g == [f EXCEPT !.m_DCmds = Pending(q), !.m_QueueBusy = TRUE]
  <2>0. q \in Seq(Queueable) /\ DOMAIN q = {1} /\ q[1] = c /\ Len(q) = 1 /\ q # <<>> /\ Append(<<>>, c) = q
    OBVIOUS
  <2> HIDE DEF q
  <2>1. f.m_DCmds = q /\ q \in Seq(Queueable) /\ DOMAIN q = {1} /\ q[1] = c /\ Len(q) = 1 /\ q # <<>>
    BY <1>1, <1>2, <1>4, <2>0
  <2>2. CASE c.kind \in Empty
    <3>1. Pending(q) = <<>>
      BY <2>1, <2>2 DEF Pending
    <3> QED
      BY <1>2, <1>4, <2>1, <2>2, <3>1 DEF RunQueue
  <2>3. CASE c.kind \notin Empty
    <3> DEFINE sendable == {i \in DOMAIN q : q[i].kind \notin Empty}
    <3>1. sendable = {1}
      BY <2>1, <2>3
    <3>2. (CHOOSE i \in sendable : \A j \in sendable : i <= j) = 1
      BY <3>1
    <3>3. Pending(q) = SubSeq(q, 1, Len(q))
      BY <3>1, <3>2 DEF Pending
    <3>4. Pending(q) = q
      BY <2>1, <3>3
    <3>5. g.m_DCmds = q
      BY <1>2, <3>4
    <3>6. SendCommand(g, Head(Pending(q))).m_DCmds = q
      BY <1>2, <3>5 DEF SendCommand
    <3>7. RunQueue(f) = [SendCommand([[f EXCEPT !.m_DCmds = Pending(q)] EXCEPT !.m_QueueBusy = TRUE], Head(Pending(q)))
                           EXCEPT !.m_ProgramIsStopped = FALSE]
      BY <1>2, <1>4, <2>1, <3>4 DEF RunQueue
    <3>8. [[f EXCEPT !.m_DCmds = Pending(q)] EXCEPT !.m_QueueBusy = TRUE] = g
      BY <1>2
    <3> HIDE DEF g
    <3>9. RunQueue(f).m_DCmds = SendCommand(g, Head(Pending(q))).m_DCmds
      BY <3>7, <3>8
    <3> QED
      BY <1>2, <1>4, <2>3, <3>6, <3>9 DEF q
  <2> QED
    BY <2>2, <2>3
<1> QED
  BY <1>3, <1>4

(* A command is queued.                                                     *)
LEMMA LowQueued ==
  ASSUME NEW e, Good(e), NEW A, NEW busy, Queued(e.m_DCmds, A, busy), NEW c \in Queueable, c.kind \notin Resuming,
         c.kind \in Adds => Settled(A, c.bp)
  PROVE  Queued(QueueLow(e, c).m_DCmds, Added(A, c), busy)
<1> DEFINE q == e.m_DCmds
           r == QueueLow(e, c).m_DCmds
<1>0. /\ q \in Seq(Queueable) /\ Asks(q) = A /\ Unique(q) /\ NoRun(q)
      /\ q # <<>> /\ q[1].kind \in Resuming => busy
  BY DEF Queued
<1>1. CASE e.m_QueueBusy
  <2>a. \A s \in Seq(Queueable) : Append(s, c) \in Seq(Queueable) /\ (s # <<>> => Append(s, c)[1] = s[1])
    OBVIOUS
  <2>1. r = Append(q, c) /\ Append(q, c) \in Seq(Queueable)
    BY <1>0, <1>1, <2>a, LowCmds
  <2>2. Asks(Append(q, c)) = Added(A, c) /\ Unique(Append(q, c)) /\ NoRun(Append(q, c))
    BY <1>0, AppendQueued
  <2>3. q # <<>>
    BY <1>1 DEF Good
  <2> QED
    BY <1>0, <2>1, <2>2, <2>3, <2>a DEF Queued
<1>2. CASE ~e.m_QueueBusy
  <2>1. q = <<>>
    BY <1>2 DEF Good
  <2>2. A = {}
    BY <1>0, <2>1, ShortQueues DEF Queued
  <2>3. CASE c.kind \in Empty
    <3>1. r = <<>> /\ Added(A, c) = {}
      BY <1>2, <2>2, <2>3, LowCmds, KindsDiffer DEF Added
    <3> QED
      BY <3>1, ShortQueues
  <2>4. CASE c.kind \notin Empty
    <3>1. r = <<c>>
      BY <1>2, <2>4, LowCmds
    <3> QED
      BY <2>2, <3>1, ShortQueues
  <2> QED
    BY <2>3, <2>4
<1> QED
  BY <1>1, <1>2

(* A queue that is as the invariant says, and that lets the program run at  *)
(* once only if it asks nothing.                                            *)
Arranged(r, A, busy) ==
    /\ r \in Seq(Queueable) /\ Asks(r) = A /\ Unique(r) /\ Ordered(r)
    /\ ~busy /\ r # <<>> /\ r[1].kind \in Resuming => A = {}

(* The command that lets the program run is queued last.                    *)
LEMMA LowResumes ==
  ASSUME NEW e, Good(e), NEW A, NEW busy, Queued(e.m_DCmds, A, busy), NEW c \in Queueable, c.kind \in Resuming
  PROVE  Arranged(QueueLow(e, c).m_DCmds, A, busy)
<1> DEFINE q == e.m_DCmds
           r == QueueLow(e, c).m_DCmds
<1>0. /\ q \in Seq(Queueable) /\ Asks(q) = A /\ Unique(q) /\ NoRun(q)
      /\ q # <<>> /\ q[1].kind \in Resuming => busy
  BY DEF Queued
<1>a. c.kind \notin Work /\ c.kind \notin Adds /\ c.kind \notin Empty
  BY KindsDiffer
<1>1. CASE e.m_QueueBusy
  <2>a. \A s \in Seq(Queueable) : Append(s, c) \in Seq(Queueable) /\ (s # <<>> => Append(s, c)[1] = s[1])
    OBVIOUS
  <2>1. r = Append(q, c)
    BY <1>0, <1>1, LowCmds
  <2>2. Asks(Append(q, c)) = A /\ Unique(Append(q, c)) /\ Ordered(Append(q, c))
    BY <1>0, <1>a, AppendQueued DEF Added
  <2>3. q # <<>>
    BY <1>1 DEF Good
  <2> QED
    BY <1>0, <2>1, <2>2, <2>3, <2>a DEF Arranged
<1>2. CASE ~e.m_QueueBusy
  <2>1. q = <<>> /\ r = <<c>>
    BY <1>2, <1>a, LowCmds DEF Good
  <2>2. A = {} /\ Added({}, c) = {}
    BY <1>0, <1>a, <2>1, ShortQueues DEF Queued, Added
  <2>3. <<c>> \in Seq(Queueable)
    OBVIOUS
  <2> QED
    BY <2>1, <2>2, <2>3, ShortQueues DEF Arranged
<1> QED
  BY <1>1, <1>2

(* So it is with no such command.                                           *)
LEMMA QueuedReady ==
  ASSUME NEW q, NEW A, NEW busy, Queued(q, A, busy)
  PROVE  Arranged(q, A, busy)
<1>1. \A i, j \in DOMAIN q : i < j /\ q[i].kind \in Resuming => i = 1
  BY DEF Queued, NoRun
<1> QED
  BY <1>1 DEF Queued, Arranged, Ordered

(* Commands that do not change breakpoints.                                 *)
LEMMA LowStrict ==
  ASSUME NEW e, Good(e), Unique(e.m_DCmds), Strict(e.m_DCmds), NEW c \in Queueable, c.kind \notin Work
  PROVE  LET r == QueueLow(e, c).m_DCmds
         IN  Asks(r) = Asks(e.m_DCmds) /\ Unique(r) /\ Strict(r)
<1> DEFINE q == e.m_DCmds
           r == QueueLow(e, c).m_DCmds
<1>0. q \in Seq(Queueable)
  BY DEF Good, Drivers
<1>a. c.kind \notin Adds
  BY KindsDiffer
<1>1. CASE e.m_QueueBusy
  BY <1>0, <1>1, <1>a, LowCmds, AppendQueued DEF Added
<1>2. CASE ~e.m_QueueBusy
  <2>1. q = <<>> /\ r \in {<<>>, <<c>>}
    BY <1>2, LowCmds DEF Good
  <2>2. Asks(<<>>) = {} /\ Added({}, c) = {} /\ Unique(<<>>)
    BY ShortQueues DEF Queued, Added
  <2> QED
    BY <2>1, <2>2, ShortQueues DEF Queued
<1> QED
  BY <1>1, <1>2
-----------------------------------------------------------------------------
(* The editor and GDB.                                                     *)

Tables == [Bps -> Fields]
(* Neither a condition nor an ignore count is on its way.                   *)
NoOptions(A) == \A c \in A : c.kind \notin {"condition", "ignore"}

(* The fields that the invariant reads.                                     *)
LEMMA FieldTypes ==
  ASSUME NEW t \in Tables, NEW b \in Bps
  PROVE  /\ t[b] \in Fields /\ t[b].index \in Int /\ t[b].line \in Int
         /\ t[b].enabled \in BOOLEAN /\ t[b].temporary \in BOOLEAN
         /\ t[b].useCondition \in BOOLEAN /\ t[b].useIgnoreCount \in BOOLEAN
         /\ ~(t[b].useCondition /\ t[b].useIgnoreCount)
<1>1. MaxLine \in Nat
  BY DriverAssumption
<1>2. t[b] \in Fields
  BY DEF Tables
<1>3. t[b].line \in 0..MaxLine
  BY <1>2 DEF Fields
<1> QED
  BY <1>1, <1>2, <1>3 DEF Fields

(* A command that sets no breakpoint leaves settled what is.                *)
LEMMA SettledAdded ==
  ASSUME NEW A, NEW c, NEW b
  PROVE  /\ c.kind \notin Adds \/ c.bp # b => (Settled(A \cup {c}, b) <=> Settled(A, b))
         /\ Settled({}, b)
         /\ c.kind \in Adds /\ c.bp = b => ~Settled(A \cup {c}, b)
BY DEF Settled

(* A breakpoint is taken out: "delete" is queued if GDB may have it.        *)
LEMMA FitsRemove ==
  ASSUME NEW t \in Tables, NEW u \in Tables, NEW A \in SUBSET Queueable, NEW g, g.next \in Nat,
         NEW on \in SUBSET Bps, NEW b \in on, Settled(A, b), NoOptions(A), Fits(t, A, g, {}, on),
         \A x \in on \ {b} : u[x] = t[x],
         NEW c \in Queueable, c.kind = "delete", c.arg = t[b].index,
         NEW B, B = IF t[b].index >= 0 THEN A \cup {c} ELSE A
  PROVE  Fits(u, B, g, {}, on \ {b}) /\ \A x \in Bps : Settled(B, x) <=> Settled(A, x)
<1>0. c.kind \notin Adds /\ A \subseteq B /\ \A x \in B : x \in A \/ (x = c /\ t[b].index >= 0)
  BY DEF Adds, Setting
<1>1. \A x \in Bps : Settled(B, x) <=> Settled(A, x)
  BY <1>0, SettledAdded
<1>2. \A x \in on \ {b} : Known(u, B, x) <=> Known(t, A, x)
  BY <1>1 DEF Known
<1>3. t[b].index >= 0 => Known(t, A, b) /\ BpFits(g, A, {}, t[b])
  <2>1. t[b].index >= 0 => t[b].enabled
    BY FieldTypes DEF Fits, BpsFit
  <2> QED
    BY <2>1 DEF Known, Fits, BpsFit
<1>4. AddsFit(u, B, on \ {b})
  BY <1>0 DEF Fits, AddsFit, Settled
<1>5. BpsFit(u, B, g, {}, on \ {b})
  <2> SUFFICES ASSUME NEW x \in on \ {b}
               PROVE  /\ ~u[x].enabled => u[x].index = -1
                      /\ Known(u, B, x) => BpFits(g, B, {}, u[x])
    BY DEF BpsFit
  <2>1. u[x] = t[x] /\ (~t[x].enabled => t[x].index = -1)
    BY DEF Fits, BpsFit
  <2>2. ASSUME Known(t, A, x) PROVE BpFits(g, B, {}, t[x])
    <3>1. BpFits(g, A, {}, t[x])
      BY <2>2 DEF Fits, BpsFit
    <3>2. t[b].index >= 0 => t[x].index # t[b].index
      BY <1>3, <2>2 DEF Fits, Apart
    <3>3. ~Sends(A, "delete", t[x].index) => ~Sends(B, "delete", t[x].index)
      BY <1>0, <3>2 DEF Sends
    <3>4. \A kind \in {"condition", "ignore"} : Sends(A, kind, t[x].index) => Sends(B, kind, t[x].index)
      BY <1>0 DEF Sends
    <3> QED
      BY <3>1, <3>3, <3>4 DEF BpFits
  <2> QED
    BY <1>2, <2>1, <2>2
<1>6. Apart(u, B, on \ {b})
  BY <1>2 DEF Fits, Apart
<1>7. NumbersFit(u, B, g, {}, on \ {b})
  <2> SUFFICES ASSUME NEW n \in DOMAIN g.bps
               PROVE  /\ n \in Nat \ {0} /\ n < g.next
                      /\ Sends(B, "delete", n) \/ \E x \in on \ {b} : Known(u, B, x) /\ u[x].index = n
    BY DEF NumbersFit
  <2>1. /\ n \in Nat \ {0} /\ n < g.next
        /\ Sends(A, "delete", n) \/ \E x \in on : Known(t, A, x) /\ t[x].index = n
    BY DEF Fits, NumbersFit
  <2>2. CASE Sends(A, "delete", n)
    BY <1>0, <2>1, <2>2 DEF Sends
  <2>3. CASE \E x \in on : Known(t, A, x) /\ t[x].index = n
    <3>1. PICK x \in on : Known(t, A, x) /\ t[x].index = n
      BY <2>3
    <3>2. CASE x = b
      <4>1. c \in B /\ c.kind = "delete" /\ c.arg = n
        BY <2>1, <3>1, <3>2
      <4> QED
        BY <2>1, <4>1 DEF Sends
    <3>3. CASE x # b
      BY <1>2, <2>1, <3>1, <3>3
    <3> QED
      BY <3>2, <3>3
  <2> QED
    BY <2>1, <2>2, <2>3
<1>8. OrdersFit(u, B, g, {}, on \ {b})
  <2> SUFFICES ASSUME NEW x \in B
               PROVE  (x.kind = "delete" => x.arg < g.next) /\ x.kind \notin {"condition", "ignore"}
    BY DEF OrdersFit
  <2>1. CASE x \in A
    BY <2>1 DEF Fits, OrdersFit, NoOptions
  <2>2. CASE x = c /\ t[b].index >= 0
    BY <1>3, <2>2 DEF BpFits
  <2> QED
    BY <1>0, <2>1, <2>2
<1> QED
  BY <1>1, <1>4, <1>5, <1>6, <1>7, <1>8 DEF Fits

(* A breakpoint is set, or, if it is disabled, only listed.                 *)
LEMMA FitsAdd ==
  ASSUME NEW t \in Tables, NEW u \in Tables, NEW A \in SUBSET Queueable, NEW g,
         NEW on \in SUBSET Bps, NEW b \in Bps, b \notin on, NoOptions(A), Fits(t, A, g, {}, on),
         \A x \in on : u[x] = t[x],
         NEW c \in Queueable, NEW B,
         IF u[b].enabled THEN c.kind \in Adds /\ c.bp = b /\ AddFits(c, u[b]) /\ B = A \cup {c}
         ELSE u[b].index = -1 /\ B = A
  PROVE  Fits(u, B, g, {}, on \cup {b})
<1>0. /\ A \subseteq B /\ \A x \in B : x \in A \/ (x = c /\ u[b].enabled /\ c.kind \in Adds /\ c.bp = b)
      /\ \A k \in Adds : k \notin {"delete", "condition", "ignore"}
  BY DEF Adds, Setting
<1>1. \A x \in on : Settled(B, x) <=> Settled(A, x)
  BY <1>0 DEF Settled
<1>2. \A x \in on : Known(u, B, x) <=> Known(t, A, x)
  BY <1>1 DEF Known
<1>3. ~Known(u, B, b)
  BY DEF Known, Settled
<1>4. AddsFit(u, B, on \cup {b})
  BY <1>0 DEF Fits, AddsFit
<1>5. \A kind \in {"delete", "condition", "ignore"} : \A n : Sends(B, kind, n) <=> Sends(A, kind, n)
  BY <1>0 DEF Sends
<1>6. BpsFit(u, B, g, {}, on \cup {b})
  <2> SUFFICES ASSUME NEW x \in on \cup {b}
               PROVE  /\ ~u[x].enabled => u[x].index = -1
                      /\ Known(u, B, x) => BpFits(g, B, {}, u[x])
    BY DEF BpsFit
  <2>1. CASE x = b
    BY <1>3, <2>1
  <2>2. CASE x \in on
    <3>1. u[x] = t[x] /\ (~t[x].enabled => t[x].index = -1) /\ (Known(t, A, x) => BpFits(g, A, {}, t[x]))
      BY <2>2 DEF Fits, BpsFit
    <3>2. BpFits(g, A, {}, t[x]) => BpFits(g, B, {}, t[x])
      BY <1>5 DEF BpFits
    <3> QED
      BY <1>2, <2>2, <3>1, <3>2
  <2> QED
    BY <2>1, <2>2
<1>7. Apart(u, B, on \cup {b})
  BY <1>2, <1>3 DEF Fits, Apart
<1>8. NumbersFit(u, B, g, {}, on \cup {b})
  BY <1>2, <1>5 DEF Fits, NumbersFit
<1>9. OrdersFit(u, B, g, {}, on \cup {b})
  BY <1>0 DEF Fits, OrdersFit, NoOptions
<1> QED
  BY <1>4, <1>6, <1>7, <1>8, <1>9 DEF Fits

(* GDB makes a breakpoint, with the next number.                            *)
LEMMA FitsMade ==
  ASSUME NEW t \in Tables, NEW A \in SUBSET Queueable, NEW g, g.next \in Nat, NEW on \in SUBSET Bps,
         Fits(t, A, g, {}, on), NEW h, h.next = g.next + 1, g.next # 0,
         DOMAIN h.bps = DOMAIN g.bps \cup {g.next}, \A n \in DOMAIN g.bps : h.bps[n] = g.bps[n]
  PROVE  Fits(t, A, h, {g.next}, on)
<1>1. BpsFit(t, A, h, {g.next}, on)
  <2> SUFFICES ASSUME NEW x \in on, Known(t, A, x), BpFits(g, A, {}, t[x])
               PROVE  BpFits(h, A, {g.next}, t[x])
    BY DEF Fits, BpsFit
  <2>1. t[x].index \in Int /\ t[x].index < g.next
    BY FieldTypes DEF BpFits
  <2>2. t[x].index # g.next /\ t[x].index < g.next + 1
    BY <2>1
  <2>3. t[x].index \in DOMAIN h.bps <=> t[x].index \in DOMAIN g.bps
    BY <2>2
  <2> QED
    BY <2>2, <2>3 DEF BpFits
<1>2. NumbersFit(t, A, h, {g.next}, on)
  <2> SUFFICES ASSUME NEW n \in DOMAIN h.bps, n # g.next
               PROVE  /\ n \in Nat \ {0} /\ n < h.next
                      /\ Sends(A, "delete", n) \/ \E b \in on : Known(t, A, b) /\ t[b].index = n
    BY DEF NumbersFit
  <2>1. /\ n \in Nat \ {0} /\ n < g.next
        /\ Sends(A, "delete", n) \/ \E b \in on : Known(t, A, b) /\ t[b].index = n
    BY DEF Fits, NumbersFit
  <2>2. n < g.next + 1
    BY <2>1
  <2> QED
    BY <2>1, <2>2
<1>3. OrdersFit(t, A, h, {g.next}, on)
  <2>1. \A c \in A : c.kind = "delete" => c.arg < g.next + 1 /\ c.arg # g.next
    <3>1. \A c \in A : c.kind = "delete" => c.arg < g.next
      BY DEF Fits, OrdersFit
    <3>2. \A c \in A : c.arg \in Int
      BY DEF Queueable, Commands
    <3> QED
      BY <3>1, <3>2
  <2> QED
    BY <2>1 DEF Fits, OrdersFit
<1> QED
  BY <1>1, <1>2, <1>3 DEF Fits

(* GDB passes over a number.                                                *)
LEMMA FitsNext ==
  ASSUME NEW t \in Tables, NEW A \in SUBSET Queueable, NEW g, g.next \in Nat, NEW on \in SUBSET Bps,
         NEW got, Fits(t, A, g, got, on), NEW h, h.next = g.next + 1, h.bps = g.bps
  PROVE  Fits(t, A, h, got, on)
<1>1. BpsFit(t, A, h, got, on)
  <2> SUFFICES ASSUME NEW x \in on, Known(t, A, x), BpFits(g, A, got, t[x])
               PROVE  BpFits(h, A, got, t[x])
    BY DEF Fits, BpsFit
  <2>1. t[x].index \in Int /\ t[x].index < g.next
    BY FieldTypes DEF BpFits
  <2>2. t[x].index < g.next + 1
    BY <2>1
  <2> QED
    BY <2>2 DEF BpFits
<1>2. NumbersFit(t, A, h, got, on)
  <2>1. \A n \in DOMAIN g.bps : n \in Nat \ {0} /\ n < g.next
    BY DEF Fits, NumbersFit
  <2>2. \A n \in DOMAIN g.bps : n < g.next + 1
    BY <2>1
  <2> QED
    BY <2>2 DEF Fits, NumbersFit
<1>3. OrdersFit(t, A, h, got, on)
  <2>1. \A c \in A : c.kind = "delete" => c.arg < g.next
    BY DEF Fits, OrdersFit
  <2>2. \A c \in A : c.arg \in Int
    BY DEF Queueable, Commands
  <2>3. \A c \in A : c.kind = "delete" => c.arg < g.next + 1
    BY <2>1, <2>2
  <2> QED
    BY <2>3 DEF Fits, OrdersFit
<1> QED
  BY <1>1, <1>2, <1>3 DEF Fits

(* GDB takes out a breakpoint that is to be deleted, or a temporary one.    *)
LEMMA FitsWithout ==
  ASSUME NEW t \in Tables, NEW A \in SUBSET Queueable, NEW g, NEW on \in SUBSET Bps, NEW n,
         Fits(t, A, g, {}, on), Sends(A, "delete", n) \/ (n \in DOMAIN g.bps /\ g.bps[n].temp),
         NEW h, h.next = g.next, h.bps = Without(g.bps, n)
  PROVE  Fits(t, A, h, {}, on)
<1>1. DOMAIN h.bps = DOMAIN g.bps \ {n} /\ \A m \in DOMAIN h.bps : h.bps[m] = g.bps[m]
  BY DEF Without
<1>2. BpsFit(t, A, h, {}, on)
  <2> SUFFICES ASSUME NEW x \in on, Known(t, A, x), BpFits(g, A, {}, t[x])
               PROVE  BpFits(h, A, {}, t[x])
    BY DEF Fits, BpsFit
  <2>1. t[x].index \in DOMAIN g.bps => t[x].index \in DOMAIN h.bps \/ t[x].temporary
    BY <1>1 DEF BpFits
  <2> QED
    BY <1>1, <2>1 DEF BpFits
<1>3. NumbersFit(t, A, h, {}, on)
  BY <1>1 DEF Fits, NumbersFit
<1>4. OrdersFit(t, A, h, {}, on)
  BY DEF Fits, OrdersFit
<1> QED
  BY <1>2, <1>3, <1>4 DEF Fits

(* GDB sets an option of a breakpoint.                                      *)
LEMMA FitsOption ==
  ASSUME NEW t \in Tables, NEW A \in SUBSET Queueable, NEW g, NEW on \in SUBSET Bps, NEW c \in A,
         Fits(t, A, g, {}, on), c.kind \in {"condition", "ignore"}, c.arg \in DOMAIN g.bps,
         NEW h, h.next = g.next, DOMAIN h.bps = DOMAIN g.bps,
         \A m \in DOMAIN g.bps :
            /\ h.bps[m].at = g.bps[m].at /\ h.bps[m].temp = g.bps[m].temp
            /\ h.bps[m].cond = (g.bps[m].cond \/ (m = c.arg /\ c.kind = "condition"))
            /\ h.bps[m].ign = (g.bps[m].ign \/ (m = c.arg /\ c.kind = "ignore"))
  PROVE  Fits(t, A, h, {}, on)
<1>1. PICK b \in on : /\ Known(t, A, b) /\ t[b].index = c.arg
                      /\ c.kind = "condition" => t[b].useCondition
                      /\ c.kind = "ignore" => t[b].useIgnoreCount
  BY DEF Fits, OrdersFit
<1>2. BpsFit(t, A, h, {}, on)
  <2> SUFFICES ASSUME NEW x \in on, Known(t, A, x), BpFits(g, A, {}, t[x])
               PROVE  BpFits(h, A, {}, t[x])
    BY DEF Fits, BpsFit
  <2>1. t[x].index = c.arg => x = b
    BY <1>1 DEF Fits, Apart
  <2> QED
    BY <1>1, <2>1 DEF BpFits
<1>3. NumbersFit(t, A, h, {}, on)
  BY DEF Fits, NumbersFit
<1>4. OrdersFit(t, A, h, {}, on)
  BY DEF Fits, OrdersFit
<1> QED
  BY <1>2, <1>3, <1>4 DEF Fits

(* A command that GDB has carried out is forgotten.                         *)
LEMMA FitsDone ==
  ASSUME NEW t \in Tables, NEW A \in SUBSET Queueable, NEW g, NEW on \in SUBSET Bps, NEW c \in Queueable,
         Fits(t, A, g, {}, on), NEW B \in SUBSET A, A = B \cup {c} \/ A = B, c.kind \notin Adds,
         c.kind = "delete" => c.arg \notin DOMAIN g.bps,
         c.kind = "condition" /\ c.arg \in DOMAIN g.bps => g.bps[c.arg].cond,
         c.kind = "ignore" /\ c.arg \in DOMAIN g.bps => g.bps[c.arg].ign
  PROVE  Fits(t, B, g, {}, on)
<1>1. \A x \in Bps : Settled(B, x) <=> Settled(A, x)
  BY DEF Settled
<1>2. \A x \in on : Known(t, B, x) <=> Known(t, A, x)
  BY <1>1 DEF Known
<1>3. \A kind, n : Sends(A, kind, n) => Sends(B, kind, n) \/ (kind = c.kind /\ n = c.arg)
  BY DEF Sends
<1>4. \A kind, n : Sends(B, kind, n) => Sends(A, kind, n)
  BY DEF Sends
<1>5. BpsFit(t, B, g, {}, on)
  <2> SUFFICES ASSUME NEW x \in on, Known(t, A, x), BpFits(g, A, {}, t[x])
               PROVE  BpFits(g, B, {}, t[x])
    BY <1>2 DEF Fits, BpsFit
  <2> QED
    BY <1>3, <1>4 DEF BpFits
<1>6. NumbersFit(t, B, g, {}, on)
  BY <1>2, <1>3 DEF Fits, NumbersFit
<1>7. AddsFit(t, B, on) /\ Apart(t, B, on) /\ OrdersFit(t, B, g, {}, on)
  BY <1>2 DEF Fits, AddsFit, Apart, OrdersFit
<1> QED
  BY <1>5, <1>6, <1>7 DEF Fits

(* GDB knows the address of a data breakpoint: it is watched.               *)
LEMMA FitsOutput ==
  ASSUME NEW t \in Tables, NEW u \in Tables, NEW A \in SUBSET Queueable, NEW B \in SUBSET Queueable,
         NEW g, NEW on \in SUBSET Bps,
         Fits(t, A, g, {}, on), NEW c \in A, c.kind \in Adds, NEW R \in SUBSET A, A = R \cup {c},
         \A x \in R : x.kind \in Adds => x.bp # c.bp,
         NEW w \in Queueable, w.kind \in Adds, w.bp = c.bp, AddFits(w, u[c.bp]), B = R \cup {w},
         \A x \in on \ {c.bp} : u[x] = t[x], u[c.bp].enabled
  PROVE  Fits(u, B, g, {}, on)
<1>0. c.bp \in on /\ t[c.bp].enabled
  BY DEF Fits, AddsFit, AddFits
<1>1. \A x \in on : Settled(B, x) <=> Settled(A, x)
  BY DEF Settled
<1>2. \A x \in on : Known(u, B, x) <=> Known(t, A, x)
  BY <1>0, <1>1 DEF Known
<1>3. ~Known(t, A, c.bp)
  BY DEF Known, Settled
<1>4. \A kind \in {"delete", "condition", "ignore"} : \A n : Sends(B, kind, n) <=> Sends(A, kind, n)
  <2>1. c.kind \notin {"delete", "condition", "ignore"} /\ w.kind \notin {"delete", "condition", "ignore"}
    BY DEF Adds, Setting
  <2> QED
    BY <2>1 DEF Sends
<1>5. AddsFit(u, B, on)
  BY <1>0 DEF Fits, AddsFit
<1>6. BpsFit(u, B, g, {}, on)
  <2> SUFFICES ASSUME NEW x \in on
               PROVE  /\ ~u[x].enabled => u[x].index = -1
                      /\ Known(u, B, x) => BpFits(g, B, {}, u[x])
    BY DEF BpsFit
  <2>1. CASE x = c.bp
    BY <1>2, <1>3, <2>1
  <2>2. CASE x # c.bp
    <3>1. u[x] = t[x] /\ (~t[x].enabled => t[x].index = -1) /\ (Known(t, A, x) => BpFits(g, A, {}, t[x]))
      BY <2>2 DEF Fits, BpsFit
    <3>2. BpFits(g, A, {}, t[x]) => BpFits(g, B, {}, t[x])
      BY <1>4 DEF BpFits
    <3> QED
      BY <1>2, <3>1, <3>2
  <2> QED
    BY <2>1, <2>2
<1>a. \A x \in on : Known(u, B, x) => Known(t, A, x) /\ u[x] = t[x]
  BY <1>2, <1>3
<1>b. \A x \in on : Known(t, A, x) => Known(u, B, x) /\ u[x] = t[x]
  BY <1>2, <1>3
<1>7. Apart(u, B, on)
  <2>1. Apart(t, A, on)
    BY DEF Fits
  <2> QED
    BY <1>a, <2>1 DEF Apart
<1>8. NumbersFit(u, B, g, {}, on)
  BY <1>2, <1>3, <1>4, ZenonT(30) DEF Fits, NumbersFit
<1>9. OrdersFit(u, B, g, {}, on)
  <2>1. \A x \in B : x \in A \/ x.kind \notin {"delete", "condition", "ignore"}
    BY DEF Adds, Setting
  <2>2. OrdersFit(t, A, g, {}, on)
    BY DEF Fits
  <2> SUFFICES ASSUME NEW x \in A
               PROVE  /\ x.kind = "delete" => x.arg < g.next
                      /\ x.kind = "condition" => \E y \in on : Known(u, B, y) /\ u[y].index = x.arg /\ u[y].useCondition
                      /\ x.kind = "ignore" => \E y \in on : Known(u, B, y) /\ u[y].index = x.arg /\ u[y].useIgnoreCount
    BY <2>1 DEF OrdersFit
  <2>3. x.kind = "delete" => x.arg < g.next
    BY <2>2 DEF OrdersFit
  <2>4. x.kind = "condition" => \E y \in on : Known(t, A, y) /\ t[y].index = x.arg /\ t[y].useCondition
    BY <2>2 DEF OrdersFit
  <2>5. x.kind = "ignore" => \E y \in on : Known(t, A, y) /\ t[y].index = x.arg /\ t[y].useIgnoreCount
    BY <2>2 DEF OrdersFit
  <2> QED
    BY <1>b, <2>3, <2>4, <2>5
<1> QED
  BY <1>5, <1>6, <1>7, <1>8, <1>9 DEF Fits

(* A breakpoint learns its number; its options are queued.                  *)
Learns(t, u, A, B, R, g, got, on, c, n) ==
    /\ t \in Tables /\ u \in Tables /\ A \in SUBSET Queueable /\ B \in SUBSET Queueable
    /\ on \in SUBSET Bps /\ got = {n} /\ Fits(t, A, g, got, on)
    /\ c \in A /\ c.kind \in Setting /\ A = R \cup {c} /\ R \subseteq B
    /\ \A x \in R : x.kind \in Adds => x.bp # c.bp
    /\ n \in DOMAIN g.bps /\ g.bps[n] = Made(c)
    /\ \A x \in on \ {c.bp} : u[x] = t[x]
    /\ u[c.bp].index = n /\ u[c.bp].enabled = t[c.bp].enabled /\ u[c.bp].line = t[c.bp].line
    /\ u[c.bp].temporary = t[c.bp].temporary /\ u[c.bp].useCondition = t[c.bp].useCondition
    /\ u[c.bp].useIgnoreCount = t[c.bp].useIgnoreCount
    /\ c.bp \in DataBps => ~t[c.bp].temporary
    /\ \A x \in B \ R : \/ x.kind = "condition" /\ x.arg = n /\ t[c.bp].useCondition
                        \/ x.kind = "ignore" /\ x.arg = n /\ t[c.bp].useIgnoreCount
    /\ t[c.bp].useCondition => Sends(B, "condition", n)
    /\ t[c.bp].useIgnoreCount => Sends(B, "ignore", n)

(* Then they fit.                                                           *)
LEMMA FitsNumbered ==
  ASSUME NEW t, NEW u, NEW A, NEW B, NEW R, NEW g, NEW got, NEW on, NEW c, NEW n,
         Learns(t, u, A, B, R, g, got, on, c, n)
  PROVE  Fits(u, B, g, {}, on)
<1> USE DEF Learns
<1> DEFINE b == c.bp
<1>0. b \in on /\ b \in Bps /\ t[b].enabled /\ AddFits(c, t[b]) /\ c.kind \in Adds
  BY DEF Fits, AddsFit, AddFits, Adds
<1>a. /\ u[b].index = n /\ u[b].enabled /\ u[b].line = t[b].line /\ u[b].temporary = t[b].temporary
      /\ u[b].useCondition = t[b].useCondition /\ u[b].useIgnoreCount = t[b].useIgnoreCount
  BY <1>0, FieldTypes DEF Fields
<1>b. c.arg = t[b].line /\ (c.kind = "tbreak") = t[b].temporary
  <2>1. t[b].temporary \in BOOLEAN
    BY <1>0, FieldTypes
  <2> QED
    BY <1>0, <2>1 DEF AddFits, Setting
<1>c. n \in Nat \ {0} /\ n < g.next
  BY DEF Fits, NumbersFit
<1> HIDE DEF b
<1>1. \A x \in B : x \in R \/ x.kind \notin Adds
  BY DEF Adds, Setting
<1>2. \A x \in on : x # b => (Known(u, B, x) <=> Known(t, A, x))
  BY <1>1 DEF Known, Settled, b
<1>3. ~Known(t, A, b) /\ Known(u, B, b)
  BY <1>0, <1>1, <1>a DEF Known, Settled, b
<1>4. \A x \in on : x # b /\ Known(t, A, x) => t[x].index # n
  BY DEF Fits, BpsFit, BpFits
<1>5. \A m : Sends(B, "delete", m) <=> Sends(A, "delete", m)
  BY <1>0 DEF Sends, Adds, Setting
<1>6. \A m : \A kind \in {"condition", "ignore"} : Sends(A, kind, m) => Sends(B, kind, m)
  BY <1>0 DEF Sends, Adds, Setting
<1>7. AddsFit(u, B, on)
  BY <1>1 DEF Fits, AddsFit, b
<1>8. BpsFit(u, B, g, {}, on)
  <2> SUFFICES ASSUME NEW x \in on
               PROVE  /\ ~u[x].enabled => u[x].index = -1
                      /\ Known(u, B, x) => BpFits(g, B, {}, u[x])
    BY DEF BpsFit
  <2>1. CASE x = b
    <3>1. ~Sends(B, "delete", n)
      BY <1>5 DEF Fits, OrdersFit, Sends
    <3>2. /\ g.bps[n].at = c.arg /\ g.bps[n].temp = (c.kind = "tbreak")
          /\ g.bps[n].cond = FALSE /\ g.bps[n].ign = FALSE
      BY DEF Made
    <3>3. BpFits(g, B, {}, u[b])
      BY <1>a, <1>b, <1>c, <3>1, <3>2 DEF BpFits, b
    <3> QED
      BY <1>a, <2>1, <3>3
  <2>2. CASE x # b
    <3>1. u[x] = t[x] /\ (~t[x].enabled => t[x].index = -1) /\ (Known(t, A, x) => BpFits(g, A, {n}, t[x]))
      BY <2>2 DEF Fits, BpsFit, b
    <3>2. BpFits(g, A, {n}, t[x]) => BpFits(g, B, {}, t[x])
      BY <1>5, <1>6 DEF BpFits
    <3> QED
      BY <1>2, <2>2, <3>1, <3>2
  <2> QED
    BY <2>1, <2>2
<1>9. Apart(u, B, on)
  <2> SUFFICES ASSUME NEW x \in on, NEW y \in on, Known(u, B, x), Known(u, B, y), u[x].index = u[y].index
               PROVE  x = y
    BY DEF Apart
  <2>1. \A z \in on : z # b => u[z] = t[z]
    BY DEF b
  <2>2. Apart(t, A, on)
    BY DEF Fits
  <2>3. CASE x = b /\ y # b
    BY <1>2, <1>4, <1>a, <2>1, <2>3
  <2>4. CASE y = b /\ x # b
    BY <1>2, <1>4, <1>a, <2>1, <2>4
  <2>5. CASE x # b /\ y # b
    BY <1>2, <2>1, <2>2, <2>5 DEF Apart
  <2> QED
    BY <2>3, <2>4, <2>5
<1>10. NumbersFit(u, B, g, {}, on)
  <2> SUFFICES ASSUME NEW m \in DOMAIN g.bps
               PROVE  /\ m \in Nat \ {0} /\ m < g.next
                      /\ Sends(B, "delete", m) \/ \E x \in on : Known(u, B, x) /\ u[x].index = m
    BY DEF NumbersFit
  <2>1. /\ m \in Nat \ {0} /\ m < g.next
        /\ m = n \/ Sends(A, "delete", m) \/ \E x \in on : Known(t, A, x) /\ t[x].index = m
    BY DEF Fits, NumbersFit
  <2>2. CASE m = n
    BY <1>0, <1>3, <1>a, <2>1, <2>2
  <2>3. CASE Sends(A, "delete", m)
    BY <1>5, <2>1, <2>3
  <2>4. CASE \E x \in on : Known(t, A, x) /\ t[x].index = m
    BY <1>2, <1>3, <2>1, <2>4 DEF b
  <2> QED
    BY <2>1, <2>2, <2>3, <2>4
<1>11. OrdersFit(u, B, g, {}, on)
  <2> SUFFICES ASSUME NEW x \in B
               PROVE  /\ x.kind = "delete" => x.arg < g.next
                      /\ x.kind = "condition" => \E y \in on : Known(u, B, y) /\ u[y].index = x.arg /\ u[y].useCondition
                      /\ x.kind = "ignore" => \E y \in on : Known(u, B, y) /\ u[y].index = x.arg /\ u[y].useIgnoreCount
    BY DEF OrdersFit
  <2>1. CASE x \in R
    <3>1. \A y \in on : Known(t, A, y) => Known(u, B, y) /\ u[y] = t[y]
      BY <1>2, <1>3 DEF b
    <3>2. OrdersFit(t, A, g, {n}, on)
      BY DEF Fits
    <3>3. x.kind = "delete" => x.arg < g.next
      BY <2>1, <3>2 DEF OrdersFit
    <3>4. x.kind = "condition" => \E y \in on : Known(t, A, y) /\ t[y].index = x.arg /\ t[y].useCondition
      BY <2>1, <3>2 DEF OrdersFit
    <3>5. x.kind = "ignore" => \E y \in on : Known(t, A, y) /\ t[y].index = x.arg /\ t[y].useIgnoreCount
      BY <2>1, <3>2 DEF OrdersFit
    <3> QED
      BY <3>1, <3>3, <3>4, <3>5
  <2>2. CASE x \notin R
    BY <1>0, <1>3, <1>a, <2>2 DEF b
  <2> QED
    BY <2>1, <2>2
<1> QED
  BY <1>7, <1>8, <1>9, <1>10, <1>11 DEF Fits

(* With nothing on its way, GDB has what the editor has.                    *)
LEMMA FitsAgree ==
  ASSUME bp \in Tables, m_Breakpoints \in Lists, Fits(bp, {}, gdb, {}, Range(m_Breakpoints)),
         gdb.bps \in [DOMAIN gdb.bps -> Entries]
  PROVE  Agree
<1>0. Range(m_Breakpoints) \subseteq Bps
  BY DEF Lists, Range
<1> DEFINE on == Range(m_Breakpoints)
<1>1. \A kind, n : ~Sends({}, kind, n)
  BY DEF Sends
<1>2. \A b \in on : Known(bp, {}, b) <=> bp[b].enabled
  BY DEF Known, Settled
<1>3. \A b \in on : bp[b].enabled => BpFits(gdb, {}, {}, bp[b])
  BY <1>2 DEF Fits, BpsFit
<1>4. \A n \in DOMAIN gdb.bps : \E b \in on : bp[b].enabled /\ bp[b].index = n
  BY <1>1, <1>2 DEF Fits, NumbersFit
<1>5. \A b \in on : /\ bp[b].temporary \in BOOLEAN /\ bp[b].useCondition \in BOOLEAN
                    /\ bp[b].useIgnoreCount \in BOOLEAN
  BY <1>0, FieldTypes
<1>6. \A n \in DOMAIN gdb.bps : gdb.bps[n].temp \in BOOLEAN /\ gdb.bps[n].cond \in BOOLEAN /\ gdb.bps[n].ign \in BOOLEAN
  BY DEF Entries
<1>7. \A b \in on : bp[b].enabled /\ bp[b].index \in DOMAIN gdb.bps =>
        /\ gdb.bps[bp[b].index].at = bp[b].line /\ gdb.bps[bp[b].index].temp = bp[b].temporary
        /\ gdb.bps[bp[b].index].cond = bp[b].useCondition /\ gdb.bps[bp[b].index].ign = bp[b].useIgnoreCount
  BY <1>1, <1>3, <1>5, <1>6 DEF BpFits
<1>8. \A b \in on : bp[b].enabled /\ ~bp[b].temporary => bp[b].index \in DOMAIN gdb.bps
  BY <1>3 DEF BpFits
<1> HIDE DEF on
<1>9. TempsKnown
  BY <1>4, <1>7 DEF TempsKnown, on
<1>10. ASSUME NEW x \in InGdb PROVE x \in InEditor
  <2>1. PICK n \in DOMAIN gdb.bps : ~gdb.bps[n].temp /\ x = <<n, gdb.bps[n].at, gdb.bps[n].cond, gdb.bps[n].ign>>
    BY DEF InGdb
  <2>2. PICK b \in on : bp[b].enabled /\ bp[b].index = n
    BY <1>4
  <2>3. ~bp[b].temporary /\ x = <<bp[b].index, bp[b].line, bp[b].useCondition, bp[b].useIgnoreCount>>
    BY <1>7, <2>1, <2>2
  <2> QED
    BY <2>2, <2>3 DEF InEditor, on
<1>11. ASSUME NEW x \in InEditor PROVE x \in InGdb
  <2>1. PICK b \in on : /\ bp[b].enabled /\ ~bp[b].temporary
                        /\ x = <<bp[b].index, bp[b].line, bp[b].useCondition, bp[b].useIgnoreCount>>
    BY DEF InEditor, on
  <2> DEFINE n == bp[b].index
  <2>2. n \in DOMAIN gdb.bps /\ ~gdb.bps[n].temp /\ x = <<n, gdb.bps[n].at, gdb.bps[n].cond, gdb.bps[n].ign>>
    BY <1>7, <1>8, <2>1
  <2> QED
    BY <2>2 DEF InGdb
<1>12. InGdb = InEditor
  BY <1>10, <1>11
<1> QED
  BY <1>9, <1>12 DEF Agree
-----------------------------------------------------------------------------
(* What the user does to the breakpoints.                                  *)

Marked(t, u) == \A x \in Bps :
    /\ u[x].enabled = t[x].enabled /\ u[x].temporary = t[x].temporary
    /\ u[x].useCondition = t[x].useCondition /\ u[x].useIgnoreCount = t[x].useIgnoreCount

Wants(s) == Asks(s.d.m_DCmds)

(* The breakpoints in `on' fit, with their fields as in t.                  *)
Edited(s, t, g, on, busy) ==
    /\ Queued(s.d.m_DCmds, Wants(s), busy) /\ NoOptions(Wants(s))
    /\ Fits(t, Wants(s), g, {}, on)

(* Only b was changed, and asked for.                                       *)
Spared(s, r, b) ==
    \A x \in Bps \ {b} : r.bp[x] = s.bp[x] /\ (Settled(Wants(s), x) => Settled(Wants(r), x))

(* What is asked are commands.                                              *)
LEMMA WantsTyped ==
  ASSUME NEW q \in Seq(Queueable)
  PROVE  Asks(q) \in SUBSET Queueable
<1>1. \A i \in DOMAIN q : q[i] \in Queueable
  OBVIOUS
<1> QED
  BY <1>1 DEF Asks

(* A breakpoint that GDB may have is taken out.                             *)
LEMMA DriverRemoveFits ==
  ASSUME NEW d, NEW s \in Editors(d), s.d.up, NEW t \in Tables, NEW g, g.next \in Nat, NEW busy,
         NEW on \in SUBSET Bps, NEW b \in on, Edited(s, t, g, on, busy), Settled(Wants(s), b),
         \A x \in on \ {b} : s.bp[x] = t[x], s.bp[b].index = t[b].index,
         s.bp[b].index # -1 => s.bp[b].enabled
  PROVE  LET r == DriverRemove(s, b)
         IN  /\ Edited(r, s.bp, g, on \ {b}, busy)
             /\ \A x \in Bps : Settled(Wants(s), x) => Settled(Wants(r), x)
<1> DEFINE r == DriverRemove(s, b)
           n == t[b].index
           c == Cmd("delete", b, n)
           B == IF n >= 0 THEN Wants(s) \cup {c} ELSE Wants(s)
<1>1. /\ s.bp \in Tables /\ s.d.m_DCmds \in Seq(Queueable) /\ Good(s.d) /\ n \in Int
      /\ Wants(s) \in SUBSET Queueable /\ b \in Bps
  <2>1. s.bp \in Tables /\ s.d.m_DCmds \in Seq(Queueable) /\ Good(s.d)
    BY EditorsSet DEF Tables, Drivers, Later
  <2> QED
    BY <2>1, FieldTypes, WantsTyped DEF Wants
<1>2. /\ c \in Queueable /\ c.kind = "delete" /\ c.arg = n
      /\ "delete" \in Work /\ "delete" \notin Adds /\ "delete" \notin Resuming
      /\ \A k \in {"action"} : k \notin Work /\ k \notin Adds /\ k \notin Resuming
  <2>1. c \in Queueable
    BY <1>1, CmdIsQueueable DEF Kinds
  <2> QED
    BY <2>1 DEF Cmd, Work, Adds, Setting, Resuming
<1>3. NoOptions(Wants(s)) /\ Queued(s.d.m_DCmds, Wants(s), busy) /\ Fits(t, Wants(s), g, {}, on)
  BY DEF Edited
<1> HIDE DEF c
<1>4. Fits(s.bp, B, g, {}, on \ {b}) /\ \A x \in Bps : Settled(B, x) <=> Settled(Wants(s), x)
  <2>1. B = IF t[b].index >= 0 THEN Wants(s) \cup {c} ELSE Wants(s)
    OBVIOUS
  <2> HIDE DEF B
  <2> QED
    BY <1>1, <1>2, <1>3, <2>1, FitsRemove, ZenonT(30)
<1>5. NoOptions(B)
  BY <1>2, <1>3 DEF NoOptions
<1>6. r.bp = s.bp /\ Queued(r.d.m_DCmds, B, busy)
  <2>1. r.bp = s.bp
    BY <1>1, DriverRemoveKeeps
  <2>2. CASE n = -1
    <3>1. r = s /\ B = Wants(s)
      BY <2>2 DEF DriverRemove
    <3> QED
      BY <1>3, <2>1, <3>1
  <2>3. CASE n # -1
    <3> DEFINE a == Cmd(IF n >= 0 THEN "delete" ELSE "action", b, n)
    <3>1. r = [s EXCEPT !.d = QueueLow(s.d, a)]
      BY <2>3 DEF DriverRemove, Editors
    <3>2. r.d = QueueLow(s.d, a)
      BY <3>1 DEF Editors
    <3>3. a \in Queueable
      <4>1. (IF n >= 0 THEN "delete" ELSE "action") \in Kinds
        BY DEF Kinds
      <4> QED
        BY <1>1, <4>1, CmdIsQueueable
    <3>4. CASE n >= 0
      <4>1. a = c
        BY <3>4 DEF c
      <4>2. Added(Wants(s), c) = B
        BY <1>2, <3>4 DEF Added
      <4>3. Queued(QueueLow(s.d, c).m_DCmds, Added(Wants(s), c), busy)
        BY <1>1, <1>2, <1>3, LowQueued
      <4> QED
        BY <2>1, <3>2, <4>1, <4>2, <4>3
    <3>5. CASE ~(n >= 0)
      <4>1. a.kind = "action"
        BY <3>5 DEF Cmd
      <4>2. Added(Wants(s), a) = B
        BY <1>2, <3>5, <4>1 DEF Added
      <4> HIDE DEF a
      <4>3. Queued(QueueLow(s.d, a).m_DCmds, Added(Wants(s), a), busy)
        BY <1>1, <1>2, <1>3, <3>3, <4>1, LowQueued
      <4> QED
        BY <2>1, <3>2, <4>2, <4>3
    <3> QED
      BY <3>4, <3>5
  <2> QED
    BY <2>2, <2>3
<1>7. Wants(r) = B
  BY <1>6 DEF Queued, Wants
<1> QED
  BY <1>4, <1>5, <1>6, <1>7 DEF Edited

(* A breakpoint that GDB has not is set.                                    *)
LEMMA DriverAddFits ==
  ASSUME NEW d, NEW s \in Editors(d), s.d.up, NEW t \in Tables, NEW g, NEW busy,
         NEW on \in SUBSET Bps, NEW b \in Bps, b \notin on, Edited(s, t, g, on, busy),
         \A x \in on : s.bp[x] = t[x], b \in DataBps => s.bp[b].enabled
  PROVE  LET r == DriverAdd(s, b)
         IN  Edited(r, r.bp, g, on \cup {b}, busy) /\ Spared(s, r, b)
<1> DEFINE r == DriverAdd(s, b)
           o == s.bp[b]
           c == IF b \in CodeBps THEN GdbCmd_AddBreakpoint(b, o)
                ELSE Cmd(IF o.enabled THEN "output" ELSE "action", b, 0)
           B == Added(Wants(s), c)
<1>1. /\ s.bp \in Tables /\ s.d.m_DCmds \in Seq(Queueable) /\ Good(s.d) /\ o \in Fields
      /\ Wants(s) \in SUBSET Queueable /\ o.enabled \in BOOLEAN /\ o.index \in Int /\ o.temporary \in BOOLEAN
      /\ s \in [list : Lists, bp : [Bps -> Fields], d : Drivers] /\ o.alreadySet \in BOOLEAN
  <2>1. /\ s.bp \in Tables /\ s.d.m_DCmds \in Seq(Queueable) /\ Good(s.d)
        /\ s \in [list : Lists, bp : [Bps -> Fields], d : Drivers]
    BY EditorsSet DEF Tables, Drivers, Later, Editors
  <2>2. o.alreadySet \in BOOLEAN
    BY <2>1 DEF Tables, Fields
  <2> QED
    BY <2>1, <2>2, FieldTypes, WantsTyped DEF Wants
<1>2. NoOptions(Wants(s)) /\ Queued(s.d.m_DCmds, Wants(s), busy) /\ Fits(t, Wants(s), g, {}, on)
  BY DEF Edited
<1>3. /\ c \in Queueable /\ c.bp = b
      /\ o.enabled => /\ c.kind \in Adds /\ (c.kind = "output" \/ c.arg = o.line)
                      /\ IF b \in DataBps THEN c.kind \in {"output", "watch"}
                         ELSE c.kind = IF o.temporary THEN "tbreak" ELSE "break"
      /\ ~o.enabled => c.kind = "action"
  <2>1. CASE b \in CodeBps
    <3>1. c = GdbCmd_AddBreakpoint(b, o) /\ b \notin DataBps
      BY <2>1, DriverAssumption
    <3>2. c \in Queueable
      BY <1>1, <3>1, AddIsQueueable
    <3> QED
      BY <1>1, <3>1, <3>2 DEF GdbCmd_AddBreakpoint, Cmd, Adds, Setting
  <2>2. CASE b \notin CodeBps
    <3>1. c = Cmd(IF o.enabled THEN "output" ELSE "action", b, 0) /\ b \in DataBps /\ 0 \in Int
      BY <2>2 DEF Bps
    <3>2. (IF o.enabled THEN "output" ELSE "action") \in Kinds
      BY DEF Kinds
    <3>3. c \in Queueable
      BY <3>1, <3>2 DEF Cmd, Queueable, Commands
    <3> QED
      BY <1>1, <3>1, <3>3 DEF Cmd, Adds, Setting
  <2> QED
    BY <2>1, <2>2
<1>4. c.kind \notin Resuming /\ (c.kind \in Adds <=> c.kind \in Work) /\ (c.kind \in Adds <=> o.enabled)
      /\ c.kind \notin {"condition", "ignore"}
  BY <1>1, <1>3 DEF Adds, Setting, Work, Resuming
<1>5. /\ r.d = QueueLow(s.d, c) /\ \A x \in Bps \ {b} : r.bp[x] = s.bp[x]
      /\ r.bp[b].enabled = o.enabled /\ r.bp[b].line = o.line /\ r.bp[b].temporary = o.temporary
      /\ b \in CodeBps => r.bp[b].index = -1
      /\ r.bp \in Tables
  <2>1. CASE b \in CodeBps
    <3> DEFINE v == o.alreadySet \/ o.enabled
               f == [o EXCEPT !.index = -1, !.alreadySet = v]
    <3>0. v \in BOOLEAN /\ -1 \in Int
      OBVIOUS
    <3>1. r = [s EXCEPT !.bp = [s.bp EXCEPT ![b] = f], !.d = QueueLow(s.d, c)]
      BY <1>1, <2>1 DEF DriverAdd, AddCommand
    <3> HIDE DEF v
    <3>2. f \in Fields
      BY <1>1, <3>0, FieldsSet
    <3>3. f.enabled = o.enabled /\ f.line = o.line /\ f.temporary = o.temporary /\ f.index = -1
      BY <1>1 DEF Fields
    <3> HIDE DEF f, c
    <3> QED
      BY <1>1, <3>1, <3>2, <3>3 DEF Tables
  <2>2. CASE b \notin CodeBps
    <3>1. r = [s EXCEPT !.d = QueueLow(s.d, c)]
      BY <1>1, <2>2 DEF DriverAdd
    <3> HIDE DEF c
    <3> QED
      BY <1>1, <2>2, <3>1
  <2> QED
    BY <2>1, <2>2
<1>a. \A a \in Wants(s) : a.kind \in Adds => a.bp \in on
  BY <1>2 DEF Fits, AddsFit
<1>6. Settled(Wants(s), b)
  BY <1>a DEF Settled
<1>7. Queued(r.d.m_DCmds, B, busy)
  <2> HIDE DEF c
  <2> QED
    BY <1>1, <1>2, <1>3, <1>4, <1>5, <1>6, LowQueued, SMTT(30)
<1>8. B = IF o.enabled THEN Wants(s) \cup {c} ELSE Wants(s)
  BY <1>1, <1>4 DEF Added
<1> HIDE DEF c, B
<1>9. NoOptions(B)
  BY <1>2, <1>4, <1>8 DEF NoOptions
<1>10. Fits(r.bp, B, g, {}, on \cup {b})
  <2>1. IF r.bp[b].enabled THEN c.kind \in Adds /\ c.bp = b /\ AddFits(c, r.bp[b]) /\ B = Wants(s) \cup {c}
        ELSE r.bp[b].index = -1 /\ B = Wants(s)
    <3>1. CASE o.enabled
      <4>1. AddFits(c, r.bp[b])
        BY <1>3, <1>5, <3>1 DEF AddFits
      <4> QED
        BY <1>3, <1>5, <1>8, <3>1, <4>1
    <3>2. CASE ~o.enabled
      <4>1. b \in CodeBps
        BY <3>2 DEF Bps
      <4> QED
        BY <1>5, <1>8, <3>2, <4>1
    <3> QED
      BY <3>1, <3>2
  <2>2. \A x \in on : r.bp[x] = t[x]
    BY <1>5
  <2> QED
    BY <1>1, <1>2, <1>3, <1>5, <2>1, <2>2, FitsAdd
<1>11. Wants(r) = B
  BY <1>7 DEF Queued, Wants
<1>12. \A x \in Bps \ {b} : Settled(Wants(s), x) => Settled(B, x)
  BY <1>3, <1>8 DEF Settled
<1> QED
  BY <1>5, <1>7, <1>9, <1>10, <1>11, <1>12 DEF Edited, Spared

(* The driver leaves alone what the user has set.                           *)
LEMMA DriverMarks ==
  ASSUME NEW d, NEW s \in Editors(d), NEW b \in Bps
  PROVE  Marked(s.bp, DriverAdd(s, b).bp) /\ Marked(s.bp, DriverRemove(s, b).bp)
<1>0. /\ s \in [list : Lists, bp : [Bps -> Fields], d : Drivers] /\ s.bp[b] \in Fields
      /\ s.bp[b].alreadySet \in BOOLEAN /\ s.bp[b].enabled \in BOOLEAN
  BY DEF Editors, Fields
<1>1. DriverRemove(s, b).bp = s.bp
  BY DriverRemoveKeeps
<1>5. \A t : Marked(t, t)
  BY DEF Marked
<1> SUFFICES Marked(s.bp, DriverAdd(s, b).bp)
  BY <1>1, <1>5
<1>2. CASE ~s.d.up
  BY <1>2, <1>5 DEF DriverAdd
<1>3. CASE s.d.up /\ b \in CodeBps
  <2> DEFINE f == [s.bp[b] EXCEPT !.index = -1, !.alreadySet = s.bp[b].alreadySet \/ s.bp[b].enabled]
             q == QueueLow(s.d, GdbCmd_AddBreakpoint(b, s.bp[b]))
  <2>1. DriverAdd(s, b) = [s EXCEPT !.bp = [s.bp EXCEPT ![b] = f], !.d = q]
    BY <1>0, <1>3 DEF DriverAdd, AddCommand
  <2>2. /\ f.enabled = s.bp[b].enabled /\ f.temporary = s.bp[b].temporary
        /\ f.useCondition = s.bp[b].useCondition /\ f.useIgnoreCount = s.bp[b].useIgnoreCount
    BY <1>0 DEF Fields
  <2> HIDE DEF f, q
  <2>3. DriverAdd(s, b).bp = [s.bp EXCEPT ![b] = f]
    BY <1>0, <2>1
  <2>4. \A x \in Bps : DriverAdd(s, b).bp[x] = IF x = b THEN f ELSE s.bp[x]
    BY <1>0, <2>3
  <2> QED
    BY <2>2, <2>4 DEF Marked
<1>4. CASE s.d.up /\ b \notin CodeBps
  <2>1. DriverAdd(s, b).bp = s.bp
    BY <1>0, <1>4 DEF DriverAdd
  <2> QED
    BY <1>5, <2>1
<1> QED
  BY <1>2, <1>3, <1>4

(* Nothing the user asked for is outstanding but deletions: every           *)
(* breakpoint of the list can be taken out.                                 *)
AllSettled(A) == \A x \in Bps : Settled(A, x)
Resting(s, g, busy) == Edited(s, s.bp, g, Range(s.list), busy) /\ AllSettled(Wants(s))

(* The fields of listed breakpoints are all that matters.                   *)
LEMMA EditedSame ==
  ASSUME NEW s, NEW r, r.d.m_DCmds = s.d.m_DCmds, NEW t, NEW g, NEW on, NEW busy, Edited(s, t, g, on, busy)
  PROVE  Edited(r, t, g, on, busy) /\ Wants(r) = Wants(s)
BY DEF Edited, Wants

(* DebuggerState::RemoveBreakpoint of a listed breakpoint, whose fields may *)
(* have been edited.                                                        *)
LEMMA StateRemoveFits ==
  ASSUME NEW d, NEW s \in Editors(d), s.d.up, NEW t \in Tables, NEW g, g.next \in Nat, NEW busy,
         NEW b \in Range(s.list), Edited(s, t, g, Range(s.list), busy), Settled(Wants(s), b),
         \A x \in Range(s.list) \ {b} : s.bp[x] = t[x], s.bp[b].index = t[b].index,
         s.bp[b].index # -1 => s.bp[b].enabled
  PROVE  LET r == StateRemove(s, b)
         IN  /\ Edited(r, s.bp, g, Range(r.list), busy) /\ b \notin Range(r.list)
             /\ r.bp = s.bp /\ r.d.up
             /\ \A x \in Bps : Settled(Wants(s), x) => Settled(Wants(r), x)
<1> DEFINE r == StateRemove(s, b)
           u == [s EXCEPT !.list = Unlisted(s.list, b)]
           on == Range(s.list)
<1>1. s.list \in Lists /\ s.list \in Seq(Bps) /\ b \in Bps /\ on \in SUBSET Bps /\ DOMAIN s.list = 1..Len(s.list)
  <2>1. s.list \in Lists /\ s.list \in Seq(Bps)
    BY EditorsSet DEF Lists
  <2> QED
    BY <2>1 DEF Range
<1>2. Contains(s.list, b) /\ \E i \in DOMAIN s.list : s.list[i] = b
  BY <1>1 DEF Range, Contains
<1>3. Unlisted(s.list, b) \in Lists /\ Range(Unlisted(s.list, b)) = on \ {b}
  BY <1>1, <1>2, UnlistedKeeps
<1>4. u \in Editors(d) /\ u.list = Unlisted(s.list, b) /\ u.bp = s.bp /\ u.d = s.d
  <2>1. u \in Editors(d)
    BY <1>3, EditorsSet
  <2> QED
    BY <2>1 DEF Editors
<1>5. r = DriverRemove(u, b)
  BY <1>2 DEF StateRemove
<1> HIDE DEF u, r
<1>6. Edited(u, t, g, on, busy) /\ Wants(u) = Wants(s)
  BY <1>4, EditedSame
<1> HIDE DEF on
<1>7. /\ Edited(r, s.bp, g, on \ {b}, busy)
      /\ \A x \in Bps : Settled(Wants(s), x) => Settled(Wants(r), x)
  <2>1. b \in on /\ \A x \in on \ {b} : u.bp[x] = t[x]
    BY <1>4 DEF on
  <2>2. /\ Edited(DriverRemove(u, b), u.bp, g, on \ {b}, busy)
        /\ \A x \in Bps : Settled(Wants(u), x) => Settled(Wants(DriverRemove(u, b)), x)
    BY <1>1, <1>4, <1>6, <2>1, DriverRemoveFits, ZenonT(30)
  <2> QED
    BY <1>4, <1>5, <1>6, <2>2
<1>8. r.list = u.list /\ r.bp = s.bp /\ r \in Editors(d)
  BY <1>1, <1>4, <1>5, DriverRemoveKeeps
<1>9. r.d.up
  BY <1>8, EditorsSet DEF Later
<1>10. Range(r.list) = on \ {b}
  BY <1>3, <1>4, <1>8
<1> QED
  BY <1>7, <1>8, <1>9, <1>10 DEF r

(* Of any breakpoint, with nothing edited.                                  *)
LEMMA StateRemoveRests ==
  ASSUME NEW d, NEW s \in Editors(d), s.d.up, NEW g, g.next \in Nat, NEW busy,
         Resting(s, g, busy), NEW b \in Bps
  PROVE  Resting(StateRemove(s, b), g, busy) /\ StateRemove(s, b).d.up
<1>1. s.list \in Lists /\ s.list \in Seq(Bps) /\ s.bp \in Tables
  BY EditorsSet DEF Lists, Tables
<1>2. CASE ~Contains(s.list, b)
  BY <1>2 DEF StateRemove
<1>3. CASE Contains(s.list, b)
  <2>1. b \in Range(s.list)
    BY <1>1, <1>3 DEF Contains, Range
  <2>2. Edited(s, s.bp, g, Range(s.list), busy) /\ Settled(Wants(s), b)
    BY DEF Resting, AllSettled
  <2>3. s.bp[b].index # -1 => s.bp[b].enabled
    BY <2>1, <2>2 DEF Edited, Fits, BpsFit
  <2> DEFINE r == StateRemove(s, b)
  <2>4. /\ Edited(r, s.bp, g, Range(r.list), busy) /\ r.bp = s.bp /\ r.d.up
        /\ \A x \in Bps : Settled(Wants(s), x) => Settled(Wants(r), x)
    <3> DEFINE t == s.bp
    <3>1. /\ t \in Tables /\ Edited(s, t, g, Range(s.list), busy) /\ s.bp[b].index = t[b].index
          /\ \A x \in Range(s.list) \ {b} : s.bp[x] = t[x]
      BY <1>1, <2>2
    <3> HIDE DEF t
    <3> QED
      BY <2>1, <2>2, <2>3, <3>1, StateRemoveFits
  <2> HIDE DEF r
  <2> QED
    BY <2>4 DEF Resting, AllSettled, r
<1> QED
  BY <1>2, <1>3

(* DebuggerState::AddBreakpoint.                                            *)
LEMMA StateAddFits ==
  ASSUME NEW d, NEW s \in Editors(d), s.d.up, NEW t \in Tables, NEW g, NEW busy,
         NEW b \in Bps, b \notin Range(s.list), Edited(s, t, g, Range(s.list), busy),
         \A x \in Range(s.list) : s.bp[x] = t[x], b \in DataBps => s.bp[b].enabled
  PROVE  LET r == StateAdd(s, b)
         IN  Edited(r, r.bp, g, Range(r.list), busy) /\ r.d.up
<1> DEFINE r == StateAdd(s, b)
           f == [s.bp[b] EXCEPT !.index = s.d.auto + 1]
           e == [s.d EXCEPT !.auto = s.d.auto + 1]
           v == [s EXCEPT !.list = Append(s.list, b), !.bp[b] = f, !.d = e]
           on == Range(s.list)
<1>1. /\ s \in [list : Lists, bp : [Bps -> Fields], d : Drivers] /\ s.d \in Drivers
      /\ Later(d, s.d) /\ s.bp[b] \in Fields /\ s.d.auto \in Nat /\ s.list \in Seq(Bps) /\ s.list \in Lists
  <2>1. s \in [list : Lists, bp : [Bps -> Fields], d : Drivers] /\ Later(d, s.d)
    BY DEF Editors
  <2> QED
    BY <2>1 DEF Drivers, Lists
<1>2. f \in Fields /\ f.enabled = s.bp[b].enabled
  <2>1. s.d.auto + 1 \in Int
    BY <1>1
  <2>2. f \in Fields
    BY <1>1, <2>1, FieldsSet
  <2>3. f.enabled = s.bp[b].enabled
    BY <1>1 DEF Fields
  <2> QED
    BY <2>2, <2>3
<1>3. /\ e \in Drivers /\ e.up = s.d.up /\ e.open = s.d.open /\ e.m_QueueBusy = s.d.m_QueueBusy
      /\ e.m_DCmds = s.d.m_DCmds /\ e.stdin = s.d.stdin
      /\ e.m_ProgramIsStopped = s.d.m_ProgramIsStopped
  <2>1. s.d.auto + 1 \in Nat
    BY <1>1
  <2> QED
    BY <1>1, <2>1 DEF Drivers
<1> HIDE DEF f, e
<1>4. Later(d, e)
  BY <1>1, <1>3 DEF Later, Good, Ready, Sent
<1>5. Append(s.list, b) \in Lists /\ Range(Append(s.list, b)) = on \cup {b}
  <2>1. Append(s.list, b) \in Lists
    BY <1>1, AppendKeeps
  <2>2. /\ DOMAIN s.list = 1..Len(s.list) /\ Len(s.list) \in Nat
        /\ DOMAIN Append(s.list, b) = 1..(Len(s.list) + 1)
        /\ \A i \in 1..Len(s.list) : Append(s.list, b)[i] = s.list[i]
        /\ Append(s.list, b)[Len(s.list) + 1] = b
    BY <1>1
  <2>3. \A i \in 1..(Len(s.list) + 1) : i \in 1..Len(s.list) \/ i = Len(s.list) + 1
    BY <2>2
  <2>4. /\ \A i \in 1..Len(s.list) : i \in 1..(Len(s.list) + 1)
        /\ Len(s.list) + 1 \in 1..(Len(s.list) + 1)
    BY <2>2
  <2>5. \A x \in Range(Append(s.list, b)) : x \in on \cup {b}
    BY <2>2, <2>3 DEF Range
  <2>6. \A x \in on \cup {b} : x \in Range(Append(s.list, b))
    BY <2>2, <2>4 DEF Range
  <2> QED
    BY <2>1, <2>5, <2>6
<1>6. /\ v \in Editors(d) /\ v.list = Append(s.list, b) /\ v.d = e
      /\ v.bp[b] = f /\ \A x \in Bps : x # b => v.bp[x] = s.bp[x]
  BY <1>1, <1>2, <1>3, <1>4, <1>5 DEF Editors
<1>7. r = DriverAdd(v, b)
  BY <1>1 DEF StateAdd, f, e
<1> HIDE DEF v, r
<1>8. Edited(v, t, g, on, busy)
  BY <1>3, <1>6, EditedSame
<1>9. on \in SUBSET Bps /\ b \notin on
  BY <1>1 DEF Range
<1>10. \A x \in on : v.bp[x] = t[x]
  BY <1>6, <1>9
<1> HIDE DEF on
<1>11. Edited(r, r.bp, g, on \cup {b}, busy)
  BY <1>2, <1>3, <1>6, <1>7, <1>8, <1>9, <1>10, DriverAddFits
<1>12. r.list = v.list /\ r \in Editors(d)
  BY <1>6, <1>7, DriverAddKeeps
<1>13. r.d.up
  BY <1>12, EditorsSet DEF Later
<1> QED
  BY <1>5, <1>6, <1>11, <1>12, <1>13 DEF r, on

(* It leaves alone what the user has set.                                   *)
LEMMA StateAddMarks ==
  ASSUME NEW d, NEW s \in Editors(d), NEW b \in Bps, b \notin Range(s.list)
  PROVE  Marked(s.bp, StateAdd(s, b).bp)
<1> DEFINE f == [s.bp[b] EXCEPT !.index = s.d.auto + 1]
           e == [s.d EXCEPT !.auto = s.d.auto + 1]
           v == [s EXCEPT !.list = Append(s.list, b), !.bp[b] = f, !.d = e]
<1>1. /\ s \in [list : Lists, bp : [Bps -> Fields], d : Drivers] /\ s.d \in Drivers
      /\ Later(d, s.d) /\ s.bp[b] \in Fields /\ s.d.auto \in Nat
  <2>1. s \in [list : Lists, bp : [Bps -> Fields], d : Drivers] /\ Later(d, s.d)
    BY DEF Editors
  <2> QED
    BY <2>1 DEF Drivers
<1>2. /\ f \in Fields /\ f.enabled = s.bp[b].enabled /\ f.temporary = s.bp[b].temporary
      /\ f.useCondition = s.bp[b].useCondition /\ f.useIgnoreCount = s.bp[b].useIgnoreCount
  <2>1. s.d.auto + 1 \in Int
    BY <1>1
  <2>2. f \in Fields
    BY <1>1, <2>1, FieldsSet
  <2> QED
    BY <1>1, <2>2 DEF Fields
<1>3. /\ e \in Drivers /\ e.up = s.d.up /\ e.open = s.d.open /\ e.m_QueueBusy = s.d.m_QueueBusy
      /\ e.m_DCmds = s.d.m_DCmds /\ e.stdin = s.d.stdin
      /\ e.m_ProgramIsStopped = s.d.m_ProgramIsStopped
  <2>1. s.d.auto + 1 \in Nat
    BY <1>1
  <2> QED
    BY <1>1, <2>1 DEF Drivers
<1> HIDE DEF f, e
<1>4. Later(d, e)
  BY <1>1, <1>3 DEF Later, Good, Ready, Sent
<1>5. Append(s.list, b) \in Lists
  BY <1>1, AppendKeeps
<1>6. v \in Editors(d) /\ v.bp[b] = f /\ \A x \in Bps : x # b => v.bp[x] = s.bp[x]
  BY <1>1, <1>2, <1>3, <1>4, <1>5 DEF Editors
<1>7. StateAdd(s, b) = DriverAdd(v, b)
  BY <1>1 DEF StateAdd, f, e
<1> HIDE DEF v
<1>8. Marked(v.bp, DriverAdd(v, b).bp)
  BY <1>6, DriverMarks
<1>9. Marked(s.bp, v.bp)
  BY <1>2, <1>6 DEF Marked
<1> QED
  BY <1>7, <1>8, <1>9 DEF Marked

(* A breakpoint at a line, in the place of the one that is there.           *)
LEMMA AddAtFits ==
  ASSUME NEW d, NEW s \in Editors(d), NEW b \in CodeBps, b \notin Range(s.list),
         NEW line \in Lines, NEW temp \in BOOLEAN, NEW g, g.next \in Nat, NEW busy, NEW fits \in BOOLEAN,
         fits => s.d.up /\ Resting(s, g, busy), AreData(s.bp)
  PROVE  LET r == AddAt(s, b, line, temp)
         IN  AreData(r.bp) /\ (fits => Edited(r, r.bp, g, Range(r.list), busy) /\ r.d.up)
<1> DEFINE r == AddAt(s, b, line, temp)
           old == HasBreakpoint(s, line)
           s1 == IF old = {} THEN s ELSE StateRemove(s, CHOOSE x \in old : TRUE)
           f == [Fresh EXCEPT !.line = line, !.temporary = temp]
           t == [s1 EXCEPT !.bp[b] = f]
<1>0. b \in Bps /\ b \notin DataBps /\ DataBps \subseteq Bps
  BY DriverAssumption DEF Bps
<1>1. /\ s1 \in Editors(d) /\ b \notin Range(s1.list) /\ s1.bp = s.bp
      /\ fits => s1.d.up /\ Resting(s1, g, busy)
  <2>1. old \subseteq Bps
    BY DEF HasBreakpoint, Bps
  <2>2. CASE old = {}
    BY <2>2
  <2>3. CASE old # {}
    <3> DEFINE x == CHOOSE x \in old : TRUE
    <3>1. x \in Bps
      BY <2>1, <2>3
    <3>2. s1 = StateRemove(s, x)
      BY <2>3
    <3> HIDE DEF x, s1
    <3>3. /\ StateRemove(s, x) \in Editors(d) /\ Range(StateRemove(s, x).list) = Range(s.list) \ {x}
          /\ StateRemove(s, x).bp = s.bp
      BY <3>1, StateRemoveKeeps
    <3>4. fits => Resting(StateRemove(s, x), g, busy) /\ StateRemove(s, x).d.up
      BY <3>1, StateRemoveRests
    <3>5. b \notin Range(StateRemove(s, x).list)
      BY <3>3
    <3> QED
      BY <3>2, <3>3, <3>4, <3>5
  <2> QED
    BY <2>2, <2>3
<1>2. f \in Fields
  <2>1. line \in 0..MaxLine /\ MaxLine \in Nat
    <3>1. MaxLine \in Nat
      BY DriverAssumption
    <3> QED
      BY <3>1 DEF Lines
  <2>2. Fresh \in Fields
    BY FreshIsTyped
  <2>3. \A x \in Fields : [x EXCEPT !.line = line, !.temporary = temp] \in Fields
    BY <2>1 DEF Fields
  <2> QED
    BY <2>2, <2>3
<1>3. r = StateAdd(t, b)
  BY DEF AddAt
<1> HIDE DEF s1, f
<1>4. t \in Editors(d) /\ t.list = s1.list /\ t.d = s1.d /\ \A x \in Bps : x # b => t.bp[x] = s.bp[x]
  <2>1. t \in Editors(d)
    BY <1>0, <1>1, <1>2, EditorsSet
  <2>2. s1 \in [list : Lists, bp : [Bps -> Fields], d : Drivers]
    BY <1>1 DEF Editors
  <2> QED
    BY <1>1, <2>1, <2>2
<1> HIDE DEF t, r
<1>5. b \notin Range(t.list)
  BY <1>1, <1>4
<1>6. AreData(t.bp)
  BY <1>0, <1>4 DEF AreData
<1>7. AreData(r.bp)
  <2>1. Marked(t.bp, r.bp)
    BY <1>0, <1>3, <1>4, <1>5, StateAddMarks
  <2> QED
    BY <1>0, <1>6, <2>1 DEF AreData, Marked
<1>8. ASSUME fits PROVE Edited(r, r.bp, g, Range(r.list), busy) /\ r.d.up
  <2> DEFINE u == s.bp
  <2>1. Edited(s1, u, g, Range(s1.list), busy) /\ s1.d.up
    BY <1>1, <1>8 DEF Resting
  <2>2. Edited(t, u, g, Range(t.list), busy) /\ t.d.up
    BY <1>4, <2>1, EditedSame
  <2>3. u \in Tables
    BY EditorsSet DEF Tables
  <2>4. \A x \in Range(t.list) : t.bp[x] = u[x]
    <3>1. Range(t.list) \subseteq Bps
      <4>1. t.list \in Seq(Bps)
        BY <1>4, EditorsSet DEF Lists
      <4> QED
        BY <4>1 DEF Range
    <3> QED
      BY <1>4, <1>5, <3>1
  <2> HIDE DEF u
  <2> QED
    BY <1>0, <1>3, <1>4, <1>5, <2>2, <2>3, <2>4, StateAddFits
<1> QED
  BY <1>7, <1>8 DEF r

(* OnBreakpointEdit: out with the old fields, in with the new ones.         *)
LEMMA EditFits ==
  ASSUME NEW d, NEW s \in Editors(d), s.d.up, NEW t \in Tables, NEW g, g.next \in Nat, NEW busy,
         NEW b \in Range(s.list), b \in CodeBps, Edited(s, t, g, Range(s.list), busy), AllSettled(Wants(s)),
         \A x \in Range(s.list) \ {b} : s.bp[x] = t[x], s.bp[b].index = t[b].index,
         s.bp[b].index # -1 => s.bp[b].enabled
  PROVE  LET r == StateAdd(StateRemove(s, b), b)
         IN  Edited(r, r.bp, g, Range(r.list), busy) /\ r.d.up
<1> DEFINE u == StateRemove(s, b)
           r == StateAdd(u, b)
<1>1. b \in Bps /\ b \notin DataBps
  BY DriverAssumption DEF Bps
<1>2. Settled(Wants(s), b)
  BY <1>1 DEF AllSettled
<1>3. Edited(u, s.bp, g, Range(u.list), busy) /\ b \notin Range(u.list) /\ u.bp = s.bp /\ u.d.up
  BY <1>2, StateRemoveFits
<1>4. u \in Editors(d)
  BY <1>1, StateRemoveKeeps
<1>5. s.bp \in Tables
  BY EditorsSet DEF Tables
<1> HIDE DEF u
<1>6. \A x \in Range(u.list) : u.bp[x] = s.bp[x]
  BY <1>3
<1> DEFINE v == s.bp
<1>7. v \in Tables /\ Edited(u, v, g, Range(u.list), busy) /\ \A x \in Range(u.list) : u.bp[x] = v[x]
  BY <1>3, <1>5, <1>6
<1> HIDE DEF v
<1> QED
  BY <1>1, <1>3, <1>4, <1>7, StateAddFits DEF u

(* OnRemoveAllBreakpoints.                                                  *)
LEMMA RemoveAllFits ==
  ASSUME NEW d, NEW s \in Editors(d), NEW list \in Seq(Bps), NEW g, g.next \in Nat, NEW busy,
         NEW fits \in BOOLEAN, fits => s.d.up /\ Resting(s, g, busy)
  PROVE  LET r == FoldLeft(StateRemove, s, list)
         IN  r.bp = s.bp /\ (fits => Resting(r, g, busy))
<1> DEFINE S == {t \in Editors(d) : t.bp = s.bp /\ (fits => t.d.up /\ Resting(t, g, busy))}
<1>1. ASSUME NEW t \in S, NEW b \in Bps PROVE RemoveOp(0, 0, t, b) \in S
  <2>1. t \in Editors(d) /\ t.bp = s.bp /\ (fits => t.d.up /\ Resting(t, g, busy))
    OBVIOUS
  <2>2. StateRemove(t, b) \in Editors(d) /\ StateRemove(t, b).bp = s.bp
    BY <2>1, StateRemoveKeeps
  <2>3. fits => StateRemove(t, b).d.up /\ Resting(StateRemove(t, b), g, busy)
    BY <2>1, StateRemoveRests
  <2> QED
    BY <2>2, <2>3 DEF RemoveOp
<1>2. s \in S
  OBVIOUS
<1> HIDE DEF S
<1>3. Removing!Fold(0, 0, s, list) \in S
  BY <1>1, <1>2, Removing!FoldKeeps
<1>4. FoldLeft(StateRemove, s, list) = Removing!Fold(0, 0, s, list)
  BY TheFolds
<1> QED
  BY <1>3, <1>4 DEF S

(* The loop of RemoveBreakpointsRange.                                      *)
LEMMA RemoveWhereFits ==
  ASSUME NEW d, NEW s \in Editors(d), NEW first, NEW last, NEW g, g.next \in Nat, NEW busy,
         NEW fits \in BOOLEAN, fits => s.d.up /\ Resting(s, g, busy)
  PROVE  LET r == Going!Fold(first, last, s, Reverse(s.list))
         IN  r \in Editors(d) /\ r.bp = s.bp /\ (fits => r.d.up /\ Resting(r, g, busy))
<1> DEFINE S == {t \in Editors(d) : t.bp = s.bp /\ (fits => t.d.up /\ Resting(t, g, busy))}
           l == Reverse(s.list)
<1>1. ASSUME NEW t \in S, NEW b \in Bps PROVE GoneOp(first, last, t, b) \in S
  <2>1. t \in Editors(d) /\ t.bp = s.bp /\ (fits => t.d.up /\ Resting(t, g, busy))
    OBVIOUS
  <2>2. StateRemove(t, b) \in Editors(d) /\ StateRemove(t, b).bp = s.bp
    BY <2>1, StateRemoveKeeps
  <2>3. fits => StateRemove(t, b).d.up /\ Resting(StateRemove(t, b), g, busy)
    BY <2>1, StateRemoveRests
  <2>4. StateRemove(t, b) \in S
    BY <2>2, <2>3
  <2> HIDE DEF S
  <2> QED
    BY <2>4 DEF GoneOp
<1>2. l \in Seq(Bps)
  <2>1. s.list \in Seq(Bps)
    BY EditorsSet DEF Lists
  <2> QED
    BY <2>1, ReverseTyped
<1>3. s \in S
  OBVIOUS
<1> HIDE DEF S, l
<1>4. Going!Fold(first, last, s, l) \in S
  BY <1>1, <1>2, <1>3, Going!FoldKeeps
<1> QED
  BY <1>4 DEF S, l

(* Of s it has made r: b is on another line.                                *)
Shifted(d, s, r, b, g, on, busy, fits) ==
    /\ r \in Editors(d) /\ r.list = s.list /\ Marked(s.bp, r.bp)
    /\ \A x \in Bps : x # b => r.bp[x].line = s.bp[x].line
    /\ fits => /\ r.d.up /\ Edited(r, r.bp, g, on, busy)
               /\ \A x \in Bps : x # b /\ Settled(Wants(s), x) => Settled(Wants(r), x)

(* A breakpoint that GDB has on another line is moved.                      *)
LEMMA ShiftOneFits ==
  ASSUME NEW d, NEW s \in Editors(d), NEW startline \in Int, NEW lines \in Int,
         NEW g, g.next \in Nat, NEW busy, NEW on \in SUBSET Bps, NEW b \in on,
         b \in CodeBps, s.bp[b].line >= startline, s.bp[b].line + lines \in 0..MaxLine,
         NEW fits \in BOOLEAN,
         fits => s.d.up /\ Edited(s, s.bp, g, on, busy) /\ Settled(Wants(s), b)
  PROVE  Shifted(d, s, ShiftOp(startline, lines, s, b), b, g, on, busy, fits)
<1> DEFINE s1 == DriverRemove(s, b)
           f == [s.bp[b] EXCEPT !.line = s.bp[b].line + lines]
           s2 == [s1 EXCEPT !.bp[b] = f]
           r == DriverAdd(s2, b)
<1>0. b \in Bps /\ b \notin DataBps
  BY DriverAssumption
<1>1. s1 \in Editors(d) /\ s1.bp = s.bp /\ s1.list = s.list
  BY <1>0, DriverRemoveKeeps
<1>2. s.bp \in Tables /\ s.bp[b] \in Fields
  BY <1>0, EditorsSet DEF Tables
<1>3. s.bp[b].line \in Int
  BY <1>0, <1>2, FieldTypes
<1>4. /\ f \in Fields /\ f.enabled = s.bp[b].enabled /\ f.temporary = s.bp[b].temporary
      /\ f.useCondition = s.bp[b].useCondition /\ f.useIgnoreCount = s.bp[b].useIgnoreCount
  <2>1. f \in Fields
    BY <1>2, FieldsSet
  <2> QED
    BY <1>2, <2>1 DEF Fields
<1>5. ShiftOp(startline, lines, s, b) = r
  <2>1. [s1 EXCEPT !.bp[b].line = @ + lines] = s2
    BY <1>1 DEF Editors
  <2>2. ~(b \notin CodeBps \/ s.bp[b].line < startline)
    BY <1>3
  <2> QED
    BY <2>1, <2>2 DEF ShiftOp
<1>6. fits => /\ Edited(s1, s.bp, g, on \ {b}, busy) /\ s1.d.up
              /\ \A x \in Bps : Settled(Wants(s), x) => Settled(Wants(s1), x)
  <2> SUFFICES ASSUME fits
               PROVE  /\ Edited(s1, s.bp, g, on \ {b}, busy) /\ s1.d.up
                      /\ \A x \in Bps : Settled(Wants(s), x) => Settled(Wants(s1), x)
    OBVIOUS
  <2> DEFINE t == s.bp
  <2>1. s.bp[b].index # -1 => s.bp[b].enabled
    BY DEF Edited, Fits, BpsFit
  <2>2. t \in Tables /\ Edited(s, t, g, on, busy) /\ s.bp[b].index = t[b].index /\ \A x \in on \ {b} : s.bp[x] = t[x]
    BY <1>2
  <2> HIDE DEF t, s1
  <2>3. /\ Edited(DriverRemove(s, b), s.bp, g, on \ {b}, busy)
        /\ \A x \in Bps : Settled(Wants(s), x) => Settled(Wants(DriverRemove(s, b)), x)
    BY <2>1, <2>2, DriverRemoveFits
  <2>4. s1.d.up
    BY <1>1, EditorsSet DEF Later
  <2> QED
    BY <2>3, <2>4 DEF s1
<1> HIDE DEF f, s1
<1>7. s2 \in Editors(d)
  BY <1>0, <1>1, <1>4, EditorsSet
<1>8. /\ s2.bp[b] = f /\ \A x \in Bps : x # b => s2.bp[x] = s.bp[x]
      /\ s2.list = s.list /\ s2.d = s1.d
  <2>1. s1 \in [list : Lists, bp : [Bps -> Fields], d : Drivers]
    BY <1>1 DEF Editors
  <2> QED
    BY <1>0, <1>1, <2>1
<1> HIDE DEF s2, r
<1>9. /\ r \in Editors(d) /\ r.list = s.list /\ Marked(s2.bp, r.bp) /\ SameLines(s2, r)
  BY <1>0, <1>7, <1>8, DriverAddKeeps, DriverMarks DEF r
<1>10. Marked(s.bp, r.bp)
  <2>1. Marked(s.bp, s2.bp)
    BY <1>4, <1>8 DEF Marked
  <2> QED
    BY <1>9, <2>1 DEF Marked
<1>11. \A x \in Bps : x # b => r.bp[x].line = s.bp[x].line
  BY <1>8, <1>9 DEF SameLines
<1>12. ASSUME fits
       PROVE  /\ r.d.up /\ Edited(r, r.bp, g, on, busy)
              /\ \A x \in Bps : x # b /\ Settled(Wants(s), x) => Settled(Wants(r), x)
  <2>1. /\ Edited(s1, s.bp, g, on \ {b}, busy) /\ s1.d.up
        /\ \A x \in Bps : Settled(Wants(s), x) => Settled(Wants(s1), x)
    BY <1>6, <1>12
  <2> DEFINE t == s.bp
             o == on \ {b}
  <2>2. Edited(s2, t, g, o, busy) /\ Wants(s2) = Wants(s1) /\ s2.d.up
    BY <1>8, <2>1, EditedSame
  <2>3. t \in Tables /\ o \in SUBSET Bps /\ b \notin o /\ on = o \cup {b} /\ \A x \in o : s2.bp[x] = t[x]
    BY <1>2, <1>8
  <2> HIDE DEF t, o
  <2>4. /\ Edited(r, r.bp, g, o \cup {b}, busy)
        /\ \A x \in Bps \ {b} : Settled(Wants(s2), x) => Settled(Wants(r), x)
    <3> DEFINE v == DriverAdd(s2, b)
    <3>1. Edited(v, v.bp, g, o \cup {b}, busy)
      BY <1>0, <1>7, <2>2, <2>3, DriverAddFits
    <3>2. ASSUME NEW x \in Bps \ {b} PROVE Settled(Wants(s2), x) => Settled(Wants(v), x)
      <4>1. Spared(s2, v, b)
        BY <1>0, <1>7, <2>2, <2>3, DriverAddFits
      <4> QED
        BY <4>1 DEF Spared
    <3> QED
      BY <3>1, <3>2 DEF r
  <2>5. r.d.up
    BY <1>7, <1>9, <2>2, EditorsSet DEF Later
  <2> QED
    BY <2>1, <2>2, <2>3, <2>4, <2>5
<1> QED
  BY <1>5, <1>9, <1>10, <1>11, <1>12 DEF Shifted

(* The loop of ShiftBreakpoints: those that are still to come are settled.  *)
LEMMA ShiftFits ==
  ASSUME NEW d, NEW s \in Editors(d), NEW startline \in Int, NEW lines \in Int,
         \A b \in Range(s.list) \cap CodeBps :
            s.bp[b].line >= startline => s.bp[b].line + lines \in 0..MaxLine,
         NEW g, g.next \in Nat, NEW busy, NEW fits \in BOOLEAN, fits => s.d.up /\ Resting(s, g, busy)
  PROVE  LET r == ShiftBreakpoints(s, startline, lines)
         IN  Marked(s.bp, r.bp) /\ (fits => r.d.up /\ Edited(r, r.bp, g, Range(r.list), busy))
<1> DEFINE r == Reverse(s.list)
           n == Len(r)
           on == Range(s.list)
           S == [k \in 0..n |->
                    {t \in Editors(d) :
                        /\ t.list = s.list /\ Marked(s.bp, t.bp)
                        /\ \A i \in (k + 1)..n : t.bp[r[i]].line = s.bp[r[i]].line
                        /\ fits => /\ t.d.up /\ Edited(t, t.bp, g, on, busy)
                                   /\ \A i \in (k + 1)..n : Settled(Wants(t), r[i])}]
<1>1. s.list \in Lists /\ s.list \in Seq(Bps) /\ r \in Lists
  BY EditorsSet, ReverseDistinct DEF Lists
<1>2. r \in Seq(Bps) /\ n \in Nat /\ DOMAIN r = 1..n /\ Distinct(r)
  BY <1>1 DEF Lists
<1>3. (\A i \in 1..n : r[i] \in on) /\ on \in SUBSET Bps
  <2>a. on \in SUBSET Bps
    BY <1>1 DEF Range
  <2>1. /\ n = Len(s.list) /\ DOMAIN s.list = 1..Len(s.list)
        /\ \A i \in 1..n : r[i] = s.list[(n - i) + 1] /\ (n - i) + 1 \in 1..n
    BY <1>1, ReverseTyped
  <2> QED
    BY <2>a, <2>1 DEF Range
<1> HIDE DEF r, n
<1>4. s \in S[0]
  <2>1. Marked(s.bp, s.bp)
    BY DEF Marked
  <2>2. fits => s.d.up /\ Edited(s, s.bp, g, on, busy) /\ AllSettled(Wants(s))
    BY DEF Resting
  <2>3. \A i \in (0 + 1)..n : r[i] \in Bps
    BY <1>2
  <2>4. s \in {t \in Editors(d) :
                /\ t.list = s.list /\ Marked(s.bp, t.bp)
                /\ \A i \in (0 + 1)..n : t.bp[r[i]].line = s.bp[r[i]].line
                /\ fits => /\ t.d.up /\ Edited(t, t.bp, g, on, busy)
                           /\ \A i \in (0 + 1)..n : Settled(Wants(t), r[i])}
    BY <2>1, <2>2, <2>3 DEF AllSettled
  <2>5. 0 \in 0..n
    BY <1>2
  <2> QED
    BY <2>4, <2>5
<1>5. ASSUME NEW k \in 0..(n - 1), NEW t \in S[k]
      PROVE  ShiftOp(startline, lines, t, r[k + 1]) \in S[k + 1]
  <2> DEFINE b == r[k + 1]
             u == ShiftOp(startline, lines, t, b)
  <2>1. /\ k \in Nat /\ k + 1 \in 0..n /\ k + 1 \in 1..n /\ k \in 0..n
        /\ k + 1 \in (k + 1)..n /\ \A i \in ((k + 1) + 1)..n : i \in (k + 1)..n /\ i \in 1..n /\ i # k + 1
    BY <1>2
  <2>2. /\ t \in Editors(d) /\ \A i \in (k + 1)..n : t.bp[r[i]].line = s.bp[r[i]].line
        /\ t.list = s.list /\ Marked(s.bp, t.bp)
        /\ fits => /\ t.d.up /\ Edited(t, t.bp, g, on, busy)
                   /\ \A i \in (k + 1)..n : Settled(Wants(t), r[i])
    BY <2>1
  <2>3. /\ b \in Bps /\ b \in on /\ t.bp[b].line = s.bp[b].line
        /\ fits => Settled(Wants(t), b)
    BY <1>2, <1>3, <2>1, <2>2
  <2>4. \A i \in ((k + 1) + 1)..n : r[i] # b /\ r[i] \in Bps
    BY <1>2, <2>1 DEF Distinct
  <2>5. S[k + 1] = {x \in Editors(d) :
                        /\ x.list = s.list /\ Marked(s.bp, x.bp)
                        /\ \A i \in ((k + 1) + 1)..n : x.bp[r[i]].line = s.bp[r[i]].line
                        /\ fits => /\ x.d.up /\ Edited(x, x.bp, g, on, busy)
                                   /\ \A i \in ((k + 1) + 1)..n : Settled(Wants(x), r[i])}
    BY <2>1
  <2> HIDE DEF S, b
  <2>6. CASE b \notin CodeBps \/ t.bp[b].line < startline
    <3>1. u = t
      BY <2>6 DEF ShiftOp
    <3> HIDE DEF u
    <3>2. u \in S[k + 1]
      BY <2>1, <2>2, <2>5, <3>1
    <3> QED
      BY <3>2 DEF u, b
  <2>7. CASE ~(b \notin CodeBps \/ t.bp[b].line < startline)
    <3>1. t.bp[b].line \in Int
      BY <2>2, <2>3, FieldTypes, EditorsSet DEF Tables
    <3>2. t.bp[b].line >= startline /\ t.bp[b].line + lines \in 0..MaxLine /\ b \in CodeBps
      BY <2>3, <2>7, <3>1
    <3>3. /\ u \in Editors(d) /\ u.list = t.list /\ Marked(t.bp, u.bp)
          /\ \A x \in Bps : x # b => u.bp[x].line = t.bp[x].line
          /\ fits => /\ u.d.up /\ Edited(u, u.bp, g, on, busy)
                     /\ \A x \in Bps : x # b /\ Settled(Wants(t), x) => Settled(Wants(u), x)
      <4> DEFINE v == ShiftOp(startline, lines, t, b)
      <4> HIDE DEF u, on
      <4>1. fits => t.d.up /\ Edited(t, t.bp, g, on, busy) /\ Settled(Wants(t), b)
        BY <2>2, <2>3
      <4>2. t \in Editors(d) /\ on \in SUBSET Bps /\ b \in on
        BY <1>3, <2>2, <2>3
      <4>3. Shifted(d, t, v, b, g, on, busy, fits)
        BY <3>2, <4>1, <4>2, ShiftOneFits
      <4> QED
        BY <4>3 DEF u, Shifted
    <3> HIDE DEF u
    <3>4. Marked(s.bp, u.bp)
      BY <2>2, <3>3 DEF Marked
    <3>5. \A i \in ((k + 1) + 1)..n : u.bp[r[i]].line = s.bp[r[i]].line
      BY <2>1, <2>2, <2>4, <3>3
    <3>6. fits => \A i \in ((k + 1) + 1)..n : Settled(Wants(u), r[i])
      BY <2>1, <2>2, <2>4, <3>3
    <3>7. u \in S[k + 1]
      BY <2>2, <2>5, <3>3, <3>4, <3>5, <3>6
    <3> QED
      BY <3>7 DEF u, b
  <2> QED
    BY <2>6, <2>7
<1>6. S[n] \subseteq {t \in Editors(d) : t.list = s.list /\ Marked(s.bp, t.bp)
                        /\ (fits => t.d.up /\ Edited(t, t.bp, g, on, busy))}
  BY <1>2
<1> HIDE DEF S
<1>7. Shifting!Fold(startline, lines, s, r) \in S[n]
  BY <1>2, <1>4, <1>5, Shifting!FoldSteps DEF n
<1>8. ShiftBreakpoints(s, startline, lines) = Shifting!Fold(startline, lines, s, r)
  BY TheFolds DEF r
<1> QED
  BY <1>6, <1>7, <1>8

(* ApplyBreakpoints gives all breakpoints that are kept to a new GDB.       *)
LEMMA ApplyFits ==
  ASSUME NEW d, NEW s \in Editors(d), NEW g, NEW busy, AreData(s.bp),
         NEW fits \in BOOLEAN, fits => s.d.up /\ Edited(s, s.bp, g, {}, busy)
  PROVE  LET r == ApplyBreakpoints(s)
         IN  AreData(r.bp) /\ (fits => r.d.up /\ Edited(r, r.bp, g, Range(r.list), busy))
<1> DEFINE l == Reverse(s.list)
           m == Len(l)
           T == [k \in 0..m |-> {list \in Lists : \A i \in (k + 1)..m : l[i] \in Range(list)}]
           kept == Dropping!Fold(s, 0, s.list, l)
           r == Reverse(kept)
           n == Len(r)
           s1 == [s EXCEPT !.list = kept]
           on(k) == {r[i] : i \in 1..k}
           S == [k \in 0..n |-> {t \in Editors(d) : /\ t.list = kept /\ AreData(t.bp)
                                                    /\ fits => t.d.up /\ Edited(t, t.bp, g, on(k), busy)}]
<1>1. s.list \in Lists /\ s.list \in Seq(Bps) /\ l \in Lists
  BY EditorsSet, ReverseDistinct DEF Lists
<1>2. l \in Seq(Bps) /\ m \in Nat /\ DOMAIN l = 1..m /\ Distinct(l)
  BY <1>1 DEF Lists
<1>3. \A i \in 1..m : l[i] \in Range(s.list)
  <2>1. /\ m = Len(s.list) /\ DOMAIN s.list = 1..Len(s.list)
        /\ \A i \in 1..m : l[i] = s.list[(m - i) + 1] /\ (m - i) + 1 \in 1..m
    BY <1>1, ReverseTyped
  <2> QED
    BY <2>1 DEF Range
<1> HIDE DEF l, m
<1>4. s.list \in T[0]
  BY <1>1, <1>2, <1>3
<1>5. ASSUME NEW k \in 0..(m - 1), NEW list \in T[k]
      PROVE  DropOp(s, 0, list, l[k + 1]) \in T[k + 1]
  <2> DEFINE b == l[k + 1]
  <2>1. /\ k \in Nat /\ k + 1 \in 0..m /\ k + 1 \in 1..m /\ k \in 0..m
        /\ k + 1 \in (k + 1)..m /\ \A i \in ((k + 1) + 1)..m : i \in (k + 1)..m /\ i \in 1..m /\ i # k + 1
    BY <1>2
  <2>2. list \in Lists /\ \A i \in (k + 1)..m : l[i] \in Range(list)
    BY <2>1
  <2>3. \A i \in ((k + 1) + 1)..m : l[i] # b
    BY <1>2, <2>1 DEF Distinct
  <2>4. T[k + 1] = {x \in Lists : \A i \in ((k + 1) + 1)..m : l[i] \in Range(x)}
    BY <2>1
  <2>5. b \in Range(list)
    BY <2>1, <2>2
  <2> HIDE DEF T, b
  <2>6. \E i \in DOMAIN list : list[i] = b
    BY <2>5 DEF Range
  <2>7. Unlisted(list, b) \in Lists /\ Range(Unlisted(list, b)) = Range(list) \ {b}
    BY <2>2, <2>6, UnlistedKeeps
  <2>8. list \in T[k + 1] /\ Unlisted(list, b) \in T[k + 1]
    BY <2>1, <2>2, <2>3, <2>4, <2>7
  <2> QED
    BY <2>8 DEF DropOp, b
<1> HIDE DEF T
<1>6. kept \in T[m]
  BY <1>2, <1>4, <1>5, Dropping!FoldSteps DEF m
<1>7. kept \in Lists
  BY <1>2, <1>6 DEF T
<1> HIDE DEF kept
<1>8. r \in Lists /\ kept \in Seq(Bps)
  BY <1>7, ReverseDistinct DEF Lists
<1>9. r \in Seq(Bps) /\ n \in Nat /\ DOMAIN r = 1..n /\ Distinct(r)
  BY <1>8 DEF Lists
<1>10. on(n) = Range(kept)
  <2>1. /\ n = Len(kept) /\ DOMAIN kept = 1..Len(kept)
        /\ \A i \in 1..n : r[i] = kept[(n - i) + 1] /\ (n - i) + 1 \in 1..n
    BY <1>8, ReverseTyped
  <2> HIDE DEF r, n
  <2>2. ASSUME NEW x \in on(n) PROVE x \in Range(kept)
    BY <2>1, <2>2 DEF Range
  <2>3. ASSUME NEW x \in Range(kept) PROVE x \in on(n)
    <3>1. PICK i \in 1..n : kept[i] = x
      BY <2>1 DEF Range
    <3>2. (n - i) + 1 \in 1..n /\ (n - ((n - i) + 1)) + 1 = i
      BY <1>9, <2>1
    <3>3. r[(n - i) + 1] = x
      BY <2>1, <3>1, <3>2
    <3> QED
      BY <3>2, <3>3
  <2> QED
    BY <2>2, <2>3
<1> HIDE DEF r, n
<1>11. s1 \in Editors(d) /\ s1.list = kept /\ s1.bp = s.bp /\ s1.d = s.d
  <2>1. s1 \in Editors(d)
    BY <1>7, EditorsSet
  <2> QED
    BY <2>1 DEF Editors
<1> HIDE DEF s1
<1>12. s1 \in S[0]
  <2>1. on(0) = {}
    OBVIOUS
  <2>2. fits => s1.d.up /\ Edited(s1, s1.bp, g, on(0), busy)
    BY <1>11, <2>1, EditedSame
  <2>3. 0 \in 0..n
    BY <1>9
  <2> HIDE DEF on
  <2> QED
    BY <1>11, <2>2, <2>3
<1>13. ASSUME NEW k \in 0..(n - 1), NEW t \in S[k] PROVE AddOp(0, 0, t, r[k + 1]) \in S[k + 1]
  <2> DEFINE b == r[k + 1]
             u == DriverAdd(t, b)
             here == on(k)
  <2>1. /\ k \in Nat /\ k + 1 \in 0..n /\ k + 1 \in 1..n /\ k \in 0..n
        /\ \A i \in 1..k : i \in 1..n /\ i # k + 1
        /\ \A i \in 1..(k + 1) : i \in 1..k \/ i = k + 1
        /\ \A i \in 1..k : i \in 1..(k + 1)
        /\ k + 1 \in 1..(k + 1)
    BY <1>9
  <2>2. here \in SUBSET Bps /\ b \in Bps /\ b \notin here /\ on(k + 1) = here \cup {b}
    <3>1. here \in SUBSET Bps /\ b \in Bps
      BY <1>9, <2>1
    <3>2. b \notin here
      BY <1>9, <2>1 DEF Distinct
    <3>3. on(k + 1) = here \cup {b}
      BY <2>1
    <3> QED
      BY <3>1, <3>2, <3>3
  <2>3. S[k] = {x \in Editors(d) : /\ x.list = kept /\ AreData(x.bp)
                                   /\ fits => x.d.up /\ Edited(x, x.bp, g, here, busy)}
    BY <2>1
  <2>4. S[k + 1] = {x \in Editors(d) : /\ x.list = kept /\ AreData(x.bp)
                                       /\ fits => x.d.up /\ Edited(x, x.bp, g, here \cup {b}, busy)}
    BY <2>1, <2>2
  <2> HIDE DEF S, on, here, b
  <2>5. /\ t \in Editors(d) /\ t.list = kept /\ AreData(t.bp)
        /\ fits => t.d.up /\ Edited(t, t.bp, g, here, busy)
    BY <2>3
  <2>6. u \in Editors(d) /\ u.list = kept
    BY <2>2, <2>5, DriverAddKeeps
  <2>7. AreData(u.bp)
    <3>1. Marked(t.bp, u.bp) /\ DataBps \subseteq Bps
      BY <2>2, <2>5, DriverMarks DEF Bps
    <3> HIDE DEF u
    <3> QED
      BY <2>5, <3>1 DEF AreData, Marked
  <2>8. ASSUME fits PROVE u.d.up /\ Edited(u, u.bp, g, here \cup {b}, busy)
    <3> DEFINE v == t.bp
    <3>1. v \in Tables /\ Edited(t, v, g, here, busy) /\ t.d.up /\ \A x \in here : t.bp[x] = v[x]
      BY <2>5, <2>8, EditorsSet DEF Tables
    <3>2. b \in DataBps => t.bp[b].enabled
      BY <2>5 DEF AreData
    <3> HIDE DEF v
    <3>3. Edited(DriverAdd(t, b), DriverAdd(t, b).bp, g, here \cup {b}, busy)
      BY <2>2, <2>5, <3>1, <3>2, DriverAddFits
    <3>4. u.d.up
      BY <2>5, <2>6, <3>1, EditorsSet DEF Later
    <3> QED
      BY <3>3, <3>4
  <2> HIDE DEF u
  <2>9. u \in S[k + 1]
    BY <2>4, <2>6, <2>7, <2>8
  <2> QED
    BY <2>9 DEF AddOp, u, b
<1>14. S[n] = {t \in Editors(d) : /\ t.list = kept /\ AreData(t.bp)
                                  /\ fits => t.d.up /\ Edited(t, t.bp, g, on(n), busy)}
  BY <1>9
<1> HIDE DEF S, on
<1>15. Adding!Fold(0, 0, s1, r) \in S[n]
  BY <1>9, <1>12, <1>13, Adding!FoldSteps DEF n
<1>16. ApplyBreakpoints(s) = Adding!Fold(0, 0, s1, r)
  BY TheFolds DEF kept, r, s1, l
<1> QED
  BY <1>10, <1>14, <1>15, <1>16
-----------------------------------------------------------------------------
(* The steps: the user.                                                    *)

(* The session in which breakpoints matter.                                 *)
Live == driver.up /\ driver.open /\ ~starting /\ gdb.state # "dead"

(* The program is let run only when nothing more is asked of GDB.           *)
Send ==
    Len(driver'.stdin) > Len(driver.stdin) /\ Last(driver'.stdin).kind \in Resuming =>
        Live' /\ Asks(driver'.m_DCmds) = {}
Goal == BpInv' /\ Send

(* What a handler has made of the breakpoints.                              *)
Changed(s) ==
    AreData(s.bp) /\ (Live => Edited(s, s.bp, gdb, Range(s.list), driver.m_QueueBusy))

(* Without mishaps users are patient and know the words.                    *)
LEMMA OrdinaryIs ==
  ASSUME Ordinary
  PROVE  KnownWords /\ Patient /\ (Calm => ~starting)
BY DEF Ordinary, KnownWords, Patient, Calm

(* GDB's numbers and breakpoints are all that matters of it.                *)
LEMMA FitsSame ==
  ASSUME NEW t, NEW A, NEW g, NEW got, NEW on, Fits(t, A, g, got, on), NEW h, h.next = g.next, h.bps = g.bps
  PROVE  Fits(t, A, h, got, on)
BY DEF Fits, BpsFit, BpFits, NumbersFit, OrdersFit

(* The answer that is posted is to the head of the queue.                   *)
LEMMA RepliesAre ==
  ASSUME IInv, Ordinary
  PROVE  /\ \A a \in Replies : a.to = Head(driver.m_DCmds) /\ driver.m_QueueBusy /\ Replies = {a}
         /\ Replies = {} <=> AnswerAt = {}
         /\ Replies = {} => Got = {}
         /\ ~driver.m_QueueBusy => Replies = {}
         /\ gdb.state = "program" \/ driver.stdin # <<>> => Replies = {}
<1>1. \A i \in AnswerAt : Asked(events[i].to) /\ AnswerAt = {i}
  BY DEF IInv, Queue
<1>2. KnownWords
  BY OrdinaryIs
<1>3. \A a \in Replies : a.to = Head(driver.m_DCmds) /\ driver.m_QueueBusy /\ Replies = {a}
  BY <1>1, <1>2 DEF Replies, Asked
<1>4. Replies = {} <=> AnswerAt = {}
  BY DEF Replies
<1>5. Replies = {} => Got = {}
  BY DEF Got
<1>6. gdb.state = "program" \/ driver.stdin # <<>> => AnswerAt = {}
  BY DEF IInv, Queue
<1> QED
  BY <1>3, <1>4, <1>5, <1>6

(* A calm user finds nothing asked of GDB.                                  *)
LEMMA CalmRests ==
  ASSUME IInv, BpInv, Ordinary, Calm, Live
  PROVE  /\ Got = {} /\ Resting(Here, gdb, driver.m_QueueBusy) /\ Here.d.up
         /\ Asks(driver.m_DCmds) = {} /\ Queued(driver.m_DCmds, {}, driver.m_QueueBusy)
<1> DEFINE q == driver.m_DCmds
           busy == driver.m_QueueBusy
<1>1. Here.list = m_Breakpoints /\ Here.bp = bp /\ Here.d = driver /\ q \in Seq(Queueable)
  BY HereEdits DEF Good, Drivers
<1>2. (~driver.m_QueueBusy <=> q = <<>>) /\ driver.m_QueueBusy \in BOOLEAN
  BY DEF IInv, Queue, Types, Drivers
<1>3. Got = {} /\ Queued(q, {}, busy)
  <2>1. CASE ~driver.m_QueueBusy
    BY <1>2, <2>1, RepliesAre, ShortQueues
  <2>2. CASE driver.m_QueueBusy
    <3>1. /\ q # <<>> /\ Head(q).kind \in Resuming
          /\ \A i \in 2..Len(q) : q[i].kind \in {"info", "action"}
      BY <2>2 DEF Calm, Ordinary
    <3>2. DOMAIN q = 1..Len(q) /\ Len(q) \in Nat /\ Head(q) = q[1]
      BY <1>1, <3>1
    <3>a. \A i \in 1..Len(q) : i = 1 \/ i \in 2..Len(q)
      BY <3>2
    <3>3. \A i \in DOMAIN q : q[i].kind \notin Work /\ q[i].kind \notin Adds /\ (q[i].kind \in Resuming => i = 1)
      <4>1. \A k \in {"info", "action"} : k \notin Work /\ k \notin Adds /\ k \notin Resuming
        BY DEF Work, Adds, Setting, Resuming
      <4>2. \A k \in Resuming : k \notin Work /\ k \notin Adds
        BY KindsDiffer
      <4> QED
        BY <3>1, <3>2, <3>a, <4>1, <4>2
    <3>4. Asks(q) = {} /\ Unique(q) /\ NoRun(q)
      BY <3>3 DEF Asks, Unique, NoRun
    <3>5. Queued(q, {}, busy)
      BY <1>1, <2>2, <3>4 DEF Queued
    <3>6. Got = {}
      <4>1. \A a \in Replies : a.to = Head(q)
        BY RepliesAre
      <4>2. \A k \in Resuming : k \notin Setting
        BY DEF Resuming, Setting
      <4> QED
        BY <3>1, <4>1, <4>2 DEF Got
    <3> QED
      BY <3>5, <3>6
  <2> QED
    BY <1>2, <2>1, <2>2
<1>4. Asks(q) = {}
  BY <1>3 DEF Queued
<1>5. Fits(bp, {}, gdb, {}, Range(m_Breakpoints))
  BY <1>3, <1>4 DEF BpInv, Lives, Live
<1>6. NoOptions({}) /\ AllSettled({})
  BY DEF NoOptions, AllSettled, Settled
<1>7. Wants(Here) = {}
  BY <1>1, <1>4 DEF Wants
<1>8. Resting(Here, gdb, busy)
  BY <1>1, <1>3, <1>5, <1>6, <1>7 DEF Resting, Edited
<1> QED
  BY <1>1, <1>3, <1>4, <1>8 DEF Live

(* A handler that queues commands, the resuming one last.                   *)
LEMMA LaterFits ==
  ASSUME IInv, IInv', BpInv, Ordinary, NEW s \in Editors(driver), Becomes(s),
         events' = events, starting' = starting, m_pProcess' = m_pProcess, Calm,
         gdb'.state = gdb.state, gdb'.bps = gdb.bps, gdb'.next = gdb.next, gdb'.asked = gdb.asked,
         AreData(s.bp),
         Live => /\ Fits(s.bp, Wants(s), gdb, {}, Range(s.list))
                 /\ Arranged(s.d.m_DCmds, Wants(s), driver.m_QueueBusy)
  PROVE  Goal
<1>1. /\ m_Breakpoints' = s.list /\ bp' = s.bp /\ driver' = s.d /\ Later(driver, s.d)
      /\ s.d.up = driver.up /\ s.d.open = driver.open /\ Good(s.d)
  BY EditorsSet DEF Becomes, Later
<1>2. ~starting /\ KnownWords
  BY OrdinaryIs
<1>3. Replies' = Replies /\ Got' = Got /\ (Live' <=> Live)
  BY <1>1 DEF Replies, AnswerAt, Got, Live
<1>4. driver.m_QueueBusy => driver'.m_QueueBusy /\ driver'.stdin = driver.stdin
  BY <1>1 DEF Later
<1>5. Plainly' /\ Starts' /\ Dies'
  BY <1>1, <1>2, <1>3, <1>4 DEF BpInv, Plainly, Starts, Dies
<1>6. Lives'
  <2> SUFFICES ASSUME Live
               PROVE  /\ (gdb.bps \in [DOMAIN gdb.bps -> Entries])'
                      /\ Fits(bp, Asks(driver.m_DCmds), gdb, Got, Range(m_Breakpoints))'
                      /\ (Unique(driver.m_DCmds) /\ Ordered(driver.m_DCmds))'
                      /\ (\A a \in Replies : AnswerFits(a, gdb))'
                      /\ (gdb.state = "program" => gdb.asked.kind \in Resuming)'
    BY <1>3 DEF Lives, Live
  <2>1. Got = {}
    BY CalmRests
  <2>2. Fits(bp', Asks(driver'.m_DCmds), gdb', Got', Range(m_Breakpoints'))
    BY <1>1, <1>3, <2>1, FitsSame DEF Wants
  <2>3. Unique(driver'.m_DCmds) /\ Ordered(driver'.m_DCmds)
    BY <1>1 DEF Arranged
  <2>4. /\ gdb.bps \in [DOMAIN gdb.bps -> Entries]
        /\ \A a \in Replies : AnswerFits(a, gdb)
        /\ gdb.state = "program" => gdb.asked.kind \in Resuming
    BY DEF BpInv, Lives, Live
  <2>5. \A a \in Replies : AnswerFits(a, gdb')
    BY <2>4 DEF AnswerFits
  <2> QED
    BY <1>3, <2>2, <2>3, <2>4, <2>5
<1>7. Send
  <2> SUFFICES ASSUME Len(driver'.stdin) > Len(driver.stdin), Last(driver'.stdin).kind \in Resuming
               PROVE  Live' /\ Asks(driver'.m_DCmds) = {}
    BY DEF Send
  <2>1. driver.stdin \in Seq(Queueable) /\ driver'.stdin \in Seq(Queueable) /\ driver'.m_DCmds \in Seq(Queueable)
    BY DEF IInv, Types, Drivers
  <2>2. ~driver.m_QueueBusy /\ driver'.stdin # <<>>
    BY <1>4, <2>1
  <2>3. Ready(s.d) /\ s.d.stdin # <<>>
    BY <1>1, <2>2 DEF Later
  <2>4. /\ m_pProcess /\ s.d.open /\ s.d.m_QueueBusy /\ s.d.stdin = <<Head(s.d.stdin)>>
        /\ Head(s.d.stdin) = Head(s.d.m_DCmds) /\ s.d.m_DCmds # <<>>
    BY <1>2, <2>3 DEF Ready, Sent
  <2>5. driver.up /\ driver.open
    BY <1>1, <2>4 DEF Good
  <2>6. Live
    BY <1>2, <2>2, <2>5 DEF BpInv, Dies, Live
  <2>7. Last(driver'.stdin) = Head(s.d.m_DCmds)
    <3> DEFINE h == Head(s.d.stdin)
    <3>1. Last(<<h>>) = h
      BY DEF Last
    <3> QED
      BY <1>1, <2>4, <3>1
  <2>8. s.d.m_DCmds[1].kind \in Resuming
    BY <1>1, <2>1, <2>4, <2>7
  <2>9. Wants(s) = {}
    BY <2>2, <2>4, <2>6, <2>8 DEF Arranged
  <2> QED
    BY <1>1, <1>3, <2>6, <2>9 DEF Wants
<1> QED
  BY <1>5, <1>6, <1>7 DEF Goal, BpInv

(* The program goes on after what was changed.                              *)
LEMMA ContinueFits ==
  ASSUME NEW s \in Editors(driver), Changed(s)
  PROVE  LET r == [s EXCEPT !.d = Continue(@)]
         IN  /\ r \in Editors(driver) /\ AreData(r.bp)
             /\ Live => /\ Fits(r.bp, Wants(r), gdb, {}, Range(r.list))
                        /\ Arranged(r.d.m_DCmds, Wants(r), driver.m_QueueBusy)
<1> DEFINE r == [s EXCEPT !.d = Continue(s.d)]
           k == IF s.d.m_IsStarted THEN "cont" ELSE "run"
           f == QueueLow(s.d, Plain(k))
           busy == driver.m_QueueBusy
<1>0. s \in [list : Lists, bp : [Bps -> Fields], d : Drivers] /\ Later(driver, s.d) /\ Good(s.d)
  BY DEF Editors, Later
<1>1. Later(driver, Continue(s.d))
  BY <1>0, ContinueLater
<1>2. r \in Editors(driver) /\ r.list = s.list /\ r.bp = s.bp /\ r.d = Continue(s.d)
  <2>1. r \in Editors(driver)
    BY <1>1, EditorsSet
  <2> QED
    BY <1>0, <2>1
<1> HIDE DEF r
<1>3. ASSUME Live
      PROVE  /\ Fits(r.bp, Wants(r), gdb, {}, Range(r.list))
             /\ Arranged(r.d.m_DCmds, Wants(r), busy)
  <2>1. Edited(s, s.bp, gdb, Range(s.list), busy)
    BY <1>3 DEF Changed
  <2>2. Queued(s.d.m_DCmds, Wants(s), busy) /\ Fits(s.bp, Wants(s), gdb, {}, Range(s.list))
    BY <2>1 DEF Edited
  <2>3. CASE ~m_pProcess \/ ~s.d.up
    <3>1. Continue(s.d) = s.d
      BY <2>3 DEF Continue
    <3>2. Wants(r) = Wants(s)
      BY <1>2, <3>1 DEF Wants
    <3>3. Arranged(s.d.m_DCmds, Wants(s), busy)
      BY <2>2, QueuedReady
    <3> QED
      BY <1>2, <2>2, <3>1, <3>2, <3>3
  <2>4. CASE ~(~m_pProcess \/ ~s.d.up)
    <3>1. Plain(k) \in Queueable /\ Plain(k).kind \in Resuming
      <4>1. k \in {"cont", "run"}
        OBVIOUS
      <4> QED
        BY <4>1, PlainIsQueueable DEF Kinds, Plain, Cmd, Resuming
    <3>2. f \in Drivers
      <4>1. Later(driver, f)
        BY <1>0, <2>4, <3>1, QueueLowLater
      <4> QED
        BY <4>1 DEF Later, Good
    <3>3. Continue(s.d) = [f EXCEPT !.m_IsStarted = TRUE]
      BY <2>4 DEF Continue
    <3> HIDE DEF k
    <3>4. Arranged(f.m_DCmds, Wants(s), busy)
      BY <1>0, <2>2, <3>1, LowResumes
    <3> HIDE DEF f
    <3>5. r.d.m_DCmds = f.m_DCmds
      BY <1>2, <3>2, <3>3 DEF Drivers
    <3>6. Wants(r) = Wants(s)
      BY <3>4, <3>5 DEF Wants, Arranged
    <3> QED
      BY <1>2, <2>2, <3>4, <3>5, <3>6
  <2> QED
    BY <2>3, <2>4
<1>4. AreData(r.bp)
  BY <1>2 DEF Changed
<1>5. [s EXCEPT !.d = Continue(@)] = r
  BY DEF r
<1> QED
  BY <1>2, <1>3, <1>4, <1>5

(* A handler that changes breakpoints and queues no resuming command.       *)
LEMMA EditFitStep ==
  ASSUME IInv, IInv', BpInv, Ordinary, NEW s \in Editors(driver), Becomes(s), Changed(s),
         UNCHANGED <<m_pProcess, starting, gdb, events>>, Calm
  PROVE  Goal
<1>1. AreData(s.bp)
  BY DEF Changed
<1>2. Live => /\ Fits(s.bp, Wants(s), gdb, {}, Range(s.list))
              /\ Arranged(s.d.m_DCmds, Wants(s), driver.m_QueueBusy)
  <2>1. Live => Edited(s, s.bp, gdb, Range(s.list), driver.m_QueueBusy)
    BY DEF Changed
  <2> QED
    BY <2>1, QueuedReady DEF Edited
<1> QED
  BY <1>1, <1>2, LaterFits

(* A handler that interrupts the program for it.                            *)
LEMMA InterruptedFits ==
  ASSUME IInv, IInv', BpInv, Ordinary, NEW s \in Editors(driver), Interrupted(s), Changed(s),
         UNCHANGED <<m_pProcess, starting, events>>, Calm
  PROVE  Goal
<1> DEFINE t == IF IsStopped THEN s ELSE [s EXCEPT !.d = Continue(@)]
<1>1. /\ t \in Editors(driver) /\ AreData(t.bp)
      /\ Live => /\ Fits(t.bp, Wants(t), gdb, {}, Range(t.list))
                 /\ Arranged(t.d.m_DCmds, Wants(t), driver.m_QueueBusy)
  <2>1. CASE IsStopped
    <3>1. Live => Edited(s, s.bp, gdb, Range(s.list), driver.m_QueueBusy)
      BY DEF Changed
    <3> QED
      BY <2>1, <3>1, QueuedReady DEF Edited, Changed
  <2>2. CASE ~IsStopped
    <3> DEFINE r == [s EXCEPT !.d = Continue(@)]
    <3>1. /\ r \in Editors(driver) /\ AreData(r.bp)
          /\ Live => /\ Fits(r.bp, Wants(r), gdb, {}, Range(r.list))
                     /\ Arranged(r.d.m_DCmds, Wants(r), driver.m_QueueBusy)
      BY ContinueFits
    <3>2. t = r
      BY <2>2
    <3> QED
      BY <3>1, <3>2
  <2> QED
    BY <2>1, <2>2
<1>2. Becomes(t) /\ gdb' = Break(gdb)
  BY DEF Interrupted
<1>3. gdb'.state = gdb.state /\ gdb'.bps = gdb.bps /\ gdb'.next = gdb.next /\ gdb'.asked = gdb.asked
  <2>1. IsGdb(gdb)
    BY DEF IInv, Types
  <2>2. Break(gdb) \in {gdb, [gdb EXCEPT !.signal = TRUE]}
    BY DEF Break
  <2> QED
    BY <1>2, <2>1, <2>2 DEF IsGdb
<1> HIDE DEF t
<1> QED
  BY <1>1, <1>2, <1>3, LaterFits

(* What the user changes rests on what was there.                           *)
LEMMA HereRests ==
  ASSUME IInv, BpInv, Ordinary, Calm
  PROVE  /\ Here \in Editors(driver) /\ Here.list = m_Breakpoints /\ Here.bp = bp /\ Here.d = driver
         /\ AreData(Here.bp) /\ gdb.next \in Nat /\ bp \in Tables
         /\ Live \in BOOLEAN /\ (Live => Here.d.up /\ Resting(Here, gdb, driver.m_QueueBusy))
BY HereEdits, CalmRests DEF BpInv, Plainly, IInv, Types, IsGdb, Tables, Live

(* What only takes breakpoints out.                                         *)
LEMMA RestingChanged ==
  ASSUME NEW s, AreData(s.bp), Live => Resting(s, gdb, driver.m_QueueBusy)
  PROVE  Changed(s)
BY DEF Changed, Resting

(* A breakpoint is added.                                                   *)
LEMMA AddChanged ==
  ASSUME IInv, BpInv, Ordinary, Calm, NEW b \in CodeBps, Unused(b), NEW line \in Lines, NEW temp \in BOOLEAN
  PROVE  AddAt(Here, b, line, temp) \in Editors(driver) /\ Changed(AddAt(Here, b, line, temp))
<1> DEFINE busy == driver.m_QueueBusy
           r == AddAt(Here, b, line, temp)
<1>1. /\ Here \in Editors(driver) /\ AreData(Here.bp) /\ gdb.next \in Nat /\ b \notin Range(Here.list)
      /\ Live \in BOOLEAN /\ (Live => Here.d.up /\ Resting(Here, gdb, busy)) /\ b \in Bps
  BY HereRests DEF Unused, Bps
<1>2. r \in Editors(driver)
  BY <1>1, AddAtKeeps
<1>3. PICK fits \in BOOLEAN : fits = Live
  BY <1>1
<1>4. AreData(r.bp) /\ (fits => Edited(r, r.bp, gdb, Range(r.list), busy) /\ r.d.up)
  <2> HIDE DEF busy
  <2> QED
    BY <1>1, <1>3, AddAtFits
<1> QED
  BY <1>2, <1>3, <1>4 DEF Changed

(* The user adds and removes breakpoints.                                   *)
LEMMA BreakpointFits ==
  ASSUME IInv, IInv', BpInv, Ordinary, NEW b \in CodeBps
  PROVE  /\ \A line \in Lines : AddBreakpoint(b, line) => Goal
         /\ RemoveBreakpoint(b) => Goal
<1>0. b \in Bps
  BY DEF Bps
<1>1. ASSUME NEW line \in Lines, AddBreakpoint(b, line) PROVE Goal
  <2>1. Calm /\ Unused(b) /\ Interrupted(AddAt(Here, b, line, FALSE)) /\ UNCHANGED <<m_pProcess, starting, events>>
    BY <1>1 DEF AddBreakpoint
  <2>2. PICK s : s = AddAt(Here, b, line, FALSE)
    OBVIOUS
  <2>3. s \in Editors(driver) /\ Changed(s)
    BY <2>1, <2>2, AddChanged
  <2>4. Interrupted(s)
    BY <2>1, <2>2
  <2> QED
    BY <2>1, <2>3, <2>4, InterruptedFits
<1>2. ASSUME RemoveBreakpoint(b) PROVE Goal
  <2>1. Calm /\ Interrupted(StateRemove(Here, b)) /\ UNCHANGED <<m_pProcess, starting, events>>
    BY <1>2 DEF RemoveBreakpoint
  <2>2. PICK s : s = StateRemove(Here, b)
    OBVIOUS
  <2>3. s \in Editors(driver) /\ s.bp = Here.bp
    BY <1>0, <2>1, <2>2, HereRests, StateRemoveKeeps
  <2>4. Live => Resting(s, gdb, driver.m_QueueBusy)
    BY <1>0, <2>1, <2>2, HereRests, StateRemoveRests
  <2>5. Changed(s)
    BY <2>1, <2>3, <2>4, HereRests, RestingChanged
  <2>6. Interrupted(s)
    BY <2>1, <2>2
  <2> QED
    BY <2>1, <2>3, <2>5, <2>6, InterruptedFits
<1> QED
  BY <1>1, <1>2

(* The user removes all breakpoints.                                        *)
LEMMA OnRemoveAllFits ==
  ASSUME IInv, IInv', BpInv, Ordinary, OnRemoveAllBreakpoints
  PROVE  Goal
<1>1. /\ Calm /\ Becomes(FoldLeft(StateRemove, Here, m_Breakpoints))
      /\ UNCHANGED <<m_pProcess, starting, gdb, events>>
  BY DEF OnRemoveAllBreakpoints
<1>2. PICK s : s = FoldLeft(StateRemove, Here, m_Breakpoints)
  OBVIOUS
<1>a. m_Breakpoints \in Seq(Bps)
  BY DEF IInv, Types, Lists
<1>3. s \in Editors(driver)
  BY <1>1, <1>2, <1>a, HereRests, RemoveAllKeeps
<1>4. s.bp = Here.bp /\ (Live => Resting(s, gdb, driver.m_QueueBusy))
  <2> DEFINE busy == driver.m_QueueBusy
  <2>1. PICK fits \in BOOLEAN : fits = Live
    BY <1>1, HereRests
  <2>2. Here \in Editors(driver) /\ gdb.next \in Nat /\ (fits => Here.d.up /\ Resting(Here, gdb, busy))
    BY <1>1, <2>1, HereRests
  <2> HIDE DEF busy
  <2>3. s.bp = Here.bp /\ (fits => Resting(s, gdb, busy))
    BY <1>2, <1>a, <2>2, RemoveAllFits
  <2> QED
    BY <2>1, <2>3 DEF busy
<1>5. Changed(s)
  BY <1>1, <1>4, HereRests, RestingChanged
<1>6. Becomes(s)
  BY <1>1, <1>2
<1> QED
  BY <1>1, <1>3, <1>5, <1>6, EditFitStep

(* The user adds and removes data breakpoints.                              *)
LEMMA DataFits ==
  ASSUME IInv, IInv', BpInv, Ordinary, NEW b \in DataBps
  PROVE  /\ AddDataBreakpoint(b) => Goal
         /\ RemoveDataBreakpoint(b) => Goal
<1>0. b \in Bps
  BY DEF Bps
<1>1. ASSUME AddDataBreakpoint(b) PROVE Goal
  <2> DEFINE s == [Here EXCEPT !.bp[b] = Fresh]
  <2>1. /\ Calm /\ Unused(b) /\ Becomes(StateAdd(s, b)) /\ UNCHANGED <<m_pProcess, starting, gdb, events>>
    BY <1>1 DEF AddDataBreakpoint
  <2>2. Here \in Editors(driver) /\ Here \in [list : Lists, bp : [Bps -> Fields], d : Drivers]
    BY <2>1, HereRests DEF Editors
  <2>3. /\ s \in Editors(driver) /\ s.list = Here.list /\ s.d = Here.d
        /\ s.bp[b] = Fresh /\ \A x \in Bps : x # b => s.bp[x] = Here.bp[x]
    <3>1. s \in Editors(driver)
      BY <1>0, <2>2, EditorsSet, FreshIsTyped
    <3> QED
      BY <1>0, <2>2, <3>1
  <2> HIDE DEF s
  <2>4. b \notin Range(s.list) /\ Range(s.list) \subseteq Bps
    <3>1. b \notin Range(s.list)
      BY <2>1, <2>3, HereRests DEF Unused
    <3>2. s.list \in Seq(Bps)
      BY <2>3, EditorsSet DEF Lists
    <3> QED
      BY <3>1, <3>2 DEF Range
  <2>5. PICK r : r = StateAdd(s, b)
    OBVIOUS
  <2>6. r \in Editors(driver)
    BY <1>0, <2>3, <2>4, <2>5, StateAddKeeps
  <2>7. AreData(r.bp)
    <3>1. AreData(s.bp)
      <4>1. AreData(Here.bp) /\ \A x \in DataBps : x \in Bps
        BY <2>1, HereRests DEF Bps
      <4> QED
        BY <2>3, <4>1 DEF AreData, Fresh
    <3>2. Marked(s.bp, r.bp)
      BY <1>0, <2>3, <2>4, <2>5, StateAddMarks
    <3> QED
      BY <3>1, <3>2 DEF AreData, Marked, Bps
  <2>8. ASSUME Live PROVE Edited(r, r.bp, gdb, Range(r.list), driver.m_QueueBusy)
    <3> DEFINE t == Here.bp
               busy == driver.m_QueueBusy
    <3>1. Edited(Here, t, gdb, Range(Here.list), busy) /\ Here.d.up /\ t \in Tables
      BY <2>1, <2>8, HereRests DEF Resting
    <3>2. Edited(s, t, gdb, Range(s.list), busy) /\ s.d.up
      BY <2>3, <3>1, EditedSame
    <3>3. (\A x \in Range(s.list) : s.bp[x] = t[x]) /\ s.bp[b].enabled
      BY <2>3, <2>4 DEF Fresh
    <3> HIDE DEF t, busy
    <3>4. Edited(r, r.bp, gdb, Range(r.list), busy)
      BY <1>0, <2>3, <2>4, <2>5, <3>1, <3>2, <3>3, StateAddFits
    <3> QED
      BY <3>4 DEF busy
  <2>9. Changed(r)
    BY <2>7, <2>8 DEF Changed
  <2>10. Becomes(r)
    BY <2>1, <2>5
  <2> QED
    BY <2>1, <2>6, <2>9, <2>10, EditFitStep
<1>2. ASSUME RemoveDataBreakpoint(b) PROVE Goal
  <2>1. Calm /\ Becomes(StateRemove(Here, b)) /\ UNCHANGED <<m_pProcess, starting, gdb, events>>
    BY <1>2 DEF RemoveDataBreakpoint
  <2>2. PICK s : s = StateRemove(Here, b)
    OBVIOUS
  <2>3. s \in Editors(driver) /\ s.bp = Here.bp
    BY <1>0, <2>1, <2>2, HereRests, StateRemoveKeeps
  <2>4. Live => Resting(s, gdb, driver.m_QueueBusy)
    BY <1>0, <2>1, <2>2, HereRests, StateRemoveRests
  <2>5. Changed(s)
    BY <2>1, <2>3, <2>4, HereRests, RestingChanged
  <2>6. Becomes(s)
    BY <2>1, <2>2
  <2> QED
    BY <2>1, <2>3, <2>5, <2>6, EditFitStep
<1> QED
  BY <1>1, <1>2

(* The user edits a breakpoint; GDB has none that is disabled.              *)
LEMMA OnBreakpointEditFits ==
  ASSUME IInv, IInv', BpInv, Ordinary, NEW b \in CodeBps, NEW enabled \in BOOLEAN, NEW o \in Options,
         OnBreakpointEdit(b, enabled, o[1], o[2])
  PROVE  Goal
<1> DEFINE cond == o[1]
           ign == o[2]
           f == [bp[b] EXCEPT !.enabled = enabled, !.useCondition = cond, !.useIgnoreCount = ign]
           s == [Here EXCEPT !.bp[b].enabled = enabled, !.bp[b].useCondition = cond,
                             !.bp[b].useIgnoreCount = ign]
<1>0. b \in Bps /\ b \notin DataBps
  BY DriverAssumption DEF Bps
<1>1. cond \in BOOLEAN /\ ign \in BOOLEAN /\ ~(cond /\ ign)
  <2>1. o = <<FALSE, FALSE>> \/ o = <<TRUE, FALSE>> \/ o = <<FALSE, TRUE>>
    BY DEF Options
  <2>2. CASE o = <<FALSE, FALSE>>
    BY <2>2
  <2>3. CASE o = <<TRUE, FALSE>>
    BY <2>3
  <2>4. CASE o = <<FALSE, TRUE>>
    BY <2>4
  <2> QED
    BY <2>1, <2>2, <2>3, <2>4
<1>2. /\ Calm /\ b \in Range(m_Breakpoints) /\ Becomes(StateAdd(StateRemove(s, b), b))
      /\ UNCHANGED <<m_pProcess, starting, gdb, events>>
      /\ driver.up /\ bp[b].index # -1 => enabled
  BY DEF OnBreakpointEdit, Ordinary
<1> HIDE DEF cond, ign
<1>3. f \in Fields /\ f.index = bp[b].index /\ f.enabled = enabled
  <2>1. bp[b] \in Fields
    BY <1>0 DEF IInv, Types
  <2>2. f \in Fields
    BY <1>1, <2>1 DEF Fields
  <2> QED
    BY <2>1, <2>2 DEF Fields
<1>4. /\ Here \in Editors(driver) /\ Here.list = m_Breakpoints /\ Here.bp = bp /\ Here.d = driver
      /\ Here \in [list : Lists, bp : [Bps -> Fields], d : Drivers]
  BY <1>2, HereRests DEF Editors
<1>5. s = [Here EXCEPT !.bp[b] = f]
  BY DEF Here
<1> HIDE DEF f, s
<1>6. /\ s \in Editors(driver) /\ s.list = m_Breakpoints /\ s.d = driver /\ s.bp[b] = f
      /\ \A x \in Bps : x # b => s.bp[x] = bp[x]
  <2>1. s \in Editors(driver)
    BY <1>0, <1>3, <1>4, <1>5, EditorsSet
  <2> QED
    BY <1>0, <1>4, <1>5, <2>1
<1>7. StateRemove(s, b) \in Editors(driver) /\ b \notin Range(StateRemove(s, b).list) /\ StateRemove(s, b).bp = s.bp
  BY <1>0, <1>6, StateRemoveKeeps
<1>8. PICK r : r = StateAdd(StateRemove(s, b), b)
  OBVIOUS
<1>9. r \in Editors(driver)
  BY <1>0, <1>7, <1>8, StateAddKeeps
<1>10. AreData(r.bp)
  <2>1. AreData(bp)
    BY DEF BpInv, Plainly
  <2>2. AreData(s.bp)
    BY <1>0, <1>6, <2>1 DEF AreData, Bps
  <2>3. Marked(s.bp, r.bp)
    BY <1>0, <1>7, <1>8, StateAddMarks
  <2> QED
    BY <2>2, <2>3 DEF AreData, Marked, Bps
<1>11. ASSUME Live PROVE Edited(r, r.bp, gdb, Range(r.list), driver.m_QueueBusy)
  <2> DEFINE busy == driver.m_QueueBusy
  <2>1. Resting(Here, gdb, busy) /\ s.d.up /\ gdb.next \in Nat /\ bp \in Tables
    BY <1>2, <1>4, <1>6, <1>11, HereRests
  <2>2. Edited(Here, bp, gdb, Range(s.list), busy) /\ AllSettled(Wants(Here))
    BY <1>4, <1>6, <2>1 DEF Resting
  <2>3. Edited(s, bp, gdb, Range(s.list), busy) /\ AllSettled(Wants(s))
    <3>1. Edited(s, bp, gdb, Range(s.list), busy) /\ Wants(s) = Wants(Here)
      BY <1>4, <1>6, <2>2, EditedSame
    <3> QED
      BY <2>2, <3>1
  <2>4. \A x \in Range(s.list) \ {b} : s.bp[x] = bp[x]
    <3>1. Range(s.list) \subseteq Bps
      BY <1>6, InList
    <3> QED
      BY <1>6, <3>1
  <2>5. s.bp[b].index = bp[b].index /\ (s.bp[b].index # -1 => s.bp[b].enabled) /\ b \in Range(s.list)
    BY <1>2, <1>3, <1>6, <1>11 DEF Live
  <2> HIDE DEF busy
  <2>6. Edited(r, r.bp, gdb, Range(r.list), busy)
    BY <1>6, <1>8, <2>1, <2>3, <2>4, <2>5, EditFits
  <2> QED
    BY <2>6 DEF busy
<1>12. Changed(r)
  BY <1>10, <1>11 DEF Changed
<1>13. Becomes(r)
  BY <1>2, <1>8
<1> QED
  BY <1>2, <1>9, <1>12, <1>13, EditFitStep

(* The user removes lines, and their breakpoints with them.                 *)
LEMMA LinesRemovedFits ==
  ASSUME IInv, IInv', BpInv, Ordinary, NEW startline \in Lines, LinesRemoved(startline, 1)
  PROVE  Goal
<1> DEFINE endline == startline + 1 - 1
           s == RemoveWhere(Here, LAMBDA b : b \in CodeBps /\ bp[b].line \in startline..endline)
           t == ShiftBreakpoints(s, endline + 1, 0 - 1)
           busy == driver.m_QueueBusy
<1>1. /\ Calm /\ Becomes(t) /\ UNCHANGED <<m_pProcess, starting, gdb, events>>
  BY DEF LinesRemoved
<1>2. /\ Here \in Editors(driver) /\ Here.bp = bp /\ gdb.next \in Nat /\ AreData(bp)
  BY <1>1, HereRests
<1>3. PICK fits \in BOOLEAN : fits = Live
  BY <1>1, HereRests
<1>4. fits => Here.d.up /\ Resting(Here, gdb, busy)
  BY <1>1, <1>3, HereRests
<1>5. startline \in Nat /\ startline >= 1 /\ endline = startline /\ endline + 1 \in Int /\ 0 - 1 \in Int
  BY DEF Lines
<1> HIDE DEF endline, busy
<1>6. s \in Editors(driver) /\ s.bp = bp /\ (fits => s.d.up /\ Resting(s, gdb, busy))
  <2> DEFINE u == Going!Fold(startline, endline, Here, Reverse(Here.list))
  <2>1. s = u
    BY DEF RemoveWhere, FoldLeft, MapThenFoldSet, Max, Going!Fold, Going!Top, GoneOp
  <2>2. u \in Editors(driver) /\ u.bp = bp /\ (fits => u.d.up /\ Resting(u, gdb, busy))
    BY <1>2, <1>4, RemoveWhereFits
  <2> QED
    BY <2>1, <2>2
<1> HIDE DEF s
<1>7. ASSUME NEW b \in Range(s.list) \cap CodeBps, s.bp[b].line >= endline + 1
      PROVE  s.bp[b].line + (0 - 1) \in 0..MaxLine
  <2>1. s.bp[b].line \in 0..MaxLine
    BY <1>6 DEF Bps, IInv, Types, Fields
  <2>2. MaxLine \in Nat
    BY DriverAssumption
  <2> QED
    BY <1>5, <1>7, <2>1, <2>2
<1>8. PICK r : r = t
  OBVIOUS
<1>9. r \in Editors(driver)
  BY <1>5, <1>6, <1>7, <1>8, ShiftKeeps
<1>10. Marked(s.bp, r.bp) /\ (fits => r.d.up /\ Edited(r, r.bp, gdb, Range(r.list), busy))
  BY <1>2, <1>5, <1>6, <1>7, <1>8, ShiftFits
<1>11. AreData(r.bp)
  BY <1>2, <1>6, <1>10 DEF AreData, Marked, Bps
<1>12. Changed(r)
  BY <1>3, <1>10, <1>11 DEF Changed, busy
<1>13. Becomes(r)
  BY <1>1, <1>8
<1> QED
  BY <1>1, <1>9, <1>12, <1>13, EditFitStep

(* The user adds lines.                                                     *)
LEMMA LinesAddedFits ==
  ASSUME IInv, IInv', BpInv, Ordinary, NEW startline \in 0..MaxLine, LinesAdded(startline, 1)
  PROVE  Goal
<1> DEFINE t == ShiftBreakpoints(Here, startline + 1, 1)
           busy == driver.m_QueueBusy
<1>1. /\ Calm /\ Becomes(t) /\ UNCHANGED <<m_pProcess, starting, gdb, events>>
      /\ \A b \in Range(m_Breakpoints) : bp[b].line + 1 <= MaxLine
  BY DEF LinesAdded
<1>2. /\ Here \in Editors(driver) /\ Here.bp = bp /\ Here.list = m_Breakpoints /\ gdb.next \in Nat /\ AreData(bp)
  BY <1>1, HereRests
<1>3. PICK fits \in BOOLEAN : fits = Live
  BY <1>1, HereRests
<1>4. fits => Here.d.up /\ Resting(Here, gdb, busy)
  BY <1>1, <1>3, HereRests
<1>5. startline + 1 \in Int /\ 1 \in Int
  <2>1. MaxLine \in Nat
    BY DriverAssumption
  <2> QED
    BY <2>1
<1>6. ASSUME NEW b \in Range(Here.list) \cap CodeBps
      PROVE  Here.bp[b].line + 1 \in 0..MaxLine
  <2>1. bp[b].line \in 0..MaxLine
    BY DEF Bps, IInv, Types, Fields
  <2>2. bp[b].line + 1 <= MaxLine
    BY <1>1, <1>2
  <2>3. MaxLine \in Nat
    BY DriverAssumption
  <2> QED
    BY <1>2, <2>1, <2>2, <2>3
<1>7. PICK r : r = t
  OBVIOUS
<1> HIDE DEF busy
<1>8. r \in Editors(driver)
  BY <1>2, <1>5, <1>6, <1>7, ShiftKeeps
<1>9. Marked(Here.bp, r.bp) /\ (fits => r.d.up /\ Edited(r, r.bp, gdb, Range(r.list), busy))
  BY <1>2, <1>4, <1>5, <1>6, <1>7, ShiftFits
<1>10. AreData(r.bp)
  BY <1>2, <1>9 DEF AreData, Marked, Bps
<1>11. Changed(r)
  BY <1>3, <1>9, <1>10 DEF Changed, busy
<1>12. Becomes(r)
  BY <1>1, <1>7
<1> QED
  BY <1>1, <1>8, <1>11, <1>12, EditFitStep

(* A new GDB has no breakpoints.                                            *)
LEMMA LaunchFits ==
  ASSUME IInv, IInv', NEW s \in Editors(driver), AreData(s.bp), Launch(s)
  PROVE  Goal
<1>1. /\ driver' = [NoDriver EXCEPT !.up = TRUE, !.open = TRUE, !.auto = Len(s.list)]
      /\ starting' = TRUE /\ gdb' = [NoGdb EXCEPT !.state = "prompt"]
      /\ bp' = [b \in Bps |-> IF Contains(s.list, b)
                              THEN [s.bp[b] EXCEPT !.index = CHOOSE i \in DOMAIN s.list : s.list[i] = b]
                              ELSE s.bp[b]]
  BY DEF Launch
<1>2. driver'.m_QueueBusy = FALSE /\ driver'.stdin = <<>> /\ gdb'.bps = <<>> /\ gdb'.next = 1
  BY <1>1 DEF NoDriver, NoGdb
<1>3. Plainly'
  <2>1. ASSUME NEW b \in DataBps
        PROVE  bp'[b].enabled /\ ~bp'[b].temporary /\ ~bp'[b].useCondition /\ ~bp'[b].useIgnoreCount
    <3> DEFINE n == CHOOSE i \in DOMAIN s.list : s.list[i] = b
    <3> HIDE DEF n
    <3>1. b \in Bps /\ s.bp[b] \in Fields
      BY EditorsSet DEF Bps
    <3>2. bp'[b] = s.bp[b] \/ bp'[b] = [s.bp[b] EXCEPT !.index = n]
      BY <1>1, <3>1 DEF n
    <3> QED
      BY <3>1, <3>2 DEF AreData, Fields
  <2> QED
    BY <2>1 DEF Plainly, AreData
<1>4. Starts' /\ Dies' /\ Lives'
  BY <1>1, <1>2 DEF Starts, Dies, Lives
<1>5. Send
  <2>1. Len(driver'.stdin) = 0 /\ driver.stdin \in Seq(Queueable)
    BY <1>2 DEF IInv, Types, Drivers
  <2>2. Len(driver.stdin) \in Nat
    BY <2>1
  <2> QED
    BY <2>1, <2>2 DEF Send
<1> QED
  BY <1>3, <1>4, <1>5 DEF Goal, BpInv

(* Debug and RunToCursor.                                                   *)
LEMMA SessionFits ==
  ASSUME IInv, IInv', BpInv, Ordinary
  PROVE  /\ Debug => Goal
         /\ \A b \in CodeBps, line \in Lines : RunToCursor(b, line) => Goal
<1>1. ASSUME Debug PROVE Goal
  BY <1>1, HereEdits, LaunchFits DEF Debug, BpInv, Plainly
<1>2. ASSUME NEW b \in CodeBps, NEW line \in Lines, RunToCursor(b, line) PROVE Goal
  <2>1. /\ Calm /\ Unused(b) /\ UNCHANGED events
        /\ IF m_pProcess
           THEN Becomes([AddAt(Here, b, line, TRUE) EXCEPT !.d = Continue(@)])
                /\ UNCHANGED <<m_pProcess, starting, gdb>>
           ELSE Launch(AddAt(Here, b, line, TRUE))
    BY <1>2 DEF RunToCursor
  <2>2. PICK s : s = AddAt(Here, b, line, TRUE)
    OBVIOUS
  <2>3. s \in Editors(driver) /\ Changed(s)
    BY <2>1, <2>2, AddChanged
  <2>4. CASE m_pProcess
    <3> DEFINE r == [s EXCEPT !.d = Continue(@)]
    <3>1. /\ r \in Editors(driver) /\ AreData(r.bp)
          /\ Live => /\ Fits(r.bp, Wants(r), gdb, {}, Range(r.list))
                     /\ Arranged(r.d.m_DCmds, Wants(r), driver.m_QueueBusy)
      BY <2>3, ContinueFits
    <3>2. Becomes(r) /\ UNCHANGED <<m_pProcess, starting, gdb>>
      BY <2>1, <2>2, <2>4
    <3> HIDE DEF r
    <3> QED
      BY <2>1, <3>1, <3>2, LaterFits
  <2>5. CASE ~m_pProcess
    <3>1. Launch(s) /\ AreData(s.bp)
      BY <2>1, <2>2, <2>3, <2>5 DEF Changed
    <3> QED
      BY <2>3, <3>1, LaunchFits
  <2> QED
    BY <2>4, <2>5
<1> QED
  BY <1>1, <1>2

(* A handler that queues one command.                                       *)
LEMMA QueueFits ==
  ASSUME IInv, IInv', BpInv, Ordinary, Calm, NEW c \in Queueable, c.kind \notin Work, driver.up,
         driver' = QueueLow(driver, c) \/ (c.kind \in Resuming /\ driver' = Continue(driver)),
         UNCHANGED <<m_Breakpoints, bp, m_pProcess, starting, gdb, events>>
  PROVE  Goal
<1>1. /\ Here \in Editors(driver) /\ Here.list = m_Breakpoints /\ Here.bp = bp /\ Here.d = driver
      /\ Here \in [list : Lists, bp : [Bps -> Fields], d : Drivers]
      /\ Later(driver, driver) /\ Good(driver) /\ AreData(bp)
  BY HereRests, HereEdits DEF Editors
<1>2. CASE driver' = Continue(driver)
  <2> DEFINE r == [Here EXCEPT !.d = Continue(@)]
  <2>1. Changed(Here)
    BY HereRests, RestingChanged
  <2>2. /\ r \in Editors(driver) /\ AreData(r.bp)
        /\ Live => /\ Fits(r.bp, Wants(r), gdb, {}, Range(r.list))
                   /\ Arranged(r.d.m_DCmds, Wants(r), driver.m_QueueBusy)
    BY <1>1, <2>1, ContinueFits
  <2>3. Becomes(r)
    BY <1>1, <1>2 DEF Becomes
  <2> HIDE DEF r
  <2> QED
    BY <2>2, <2>3, LaterFits
<1>3. CASE driver' = QueueLow(driver, c)
  <2> DEFINE e == QueueLow(driver, c)
             r == [Here EXCEPT !.d = e]
  <2>1. Later(driver, e)
    BY <1>1, QueueLowLater
  <2>2. e \in Drivers
    BY <2>1 DEF Later, Good
  <2> HIDE DEF e
  <2>3. r \in Editors(driver) /\ r.list = m_Breakpoints /\ r.bp = bp /\ r.d = e
    BY <1>1, <2>1, <2>2, EditorsSet
  <2>4. Becomes(r)
    BY <1>3, <2>3 DEF Becomes, e
  <2> HIDE DEF r
  <2>5. ASSUME Live
        PROVE  /\ Fits(r.bp, Wants(r), gdb, {}, Range(r.list))
               /\ Arranged(r.d.m_DCmds, Wants(r), driver.m_QueueBusy)
    <3>1. Queued(driver.m_DCmds, {}, driver.m_QueueBusy) /\ Fits(bp, {}, gdb, {}, Range(m_Breakpoints))
      BY <1>1, <2>5, CalmRests DEF Resting, Edited, Wants
    <3>2. Added({}, c) = {} /\ c.kind \notin Adds
      BY KindsDiffer DEF Added
    <3>3. Arranged(e.m_DCmds, {}, driver.m_QueueBusy)
      <4>1. CASE c.kind \in Resuming
        BY <1>1, <3>1, <4>1, LowResumes DEF e
      <4>2. CASE c.kind \notin Resuming
        <5>1. Queued(QueueLow(driver, c).m_DCmds, Added({}, c), driver.m_QueueBusy)
          BY <1>1, <3>1, <3>2, <4>2, LowQueued
        <5> QED
          BY <3>2, <5>1, QueuedReady DEF e
      <4> QED
        BY <4>1, <4>2
    <3>4. Wants(r) = {}
      BY <2>3, <3>3 DEF Wants, Arranged
    <3> QED
      BY <2>3, <3>1, <3>3, <3>4
  <2> QED
    BY <1>1, <2>3, <2>4, <2>5, LaterFits
<1> QED
  BY <1>2, <1>3

(* The program goes on, or a word is looked at.                             *)
LEMMA DriverFits ==
  ASSUME IInv, IInv', BpInv, Ordinary
  PROVE  /\ \A kind \in {"cont", "next"} : Resume(kind) => Goal
         /\ OnValueTooltip => Goal
<1>1. ASSUME NEW kind \in {"cont", "next"}, Resume(kind) PROVE Goal
  <2>1. Plain(kind) \in Queueable /\ Plain(kind).kind \notin Work /\ Plain(kind).kind \in Resuming
    BY PlainIsQueueable DEF Kinds, Plain, Cmd, Work, Adds, Setting, Resuming
  <2>2. /\ Calm /\ driver.up /\ UNCHANGED <<m_Breakpoints, bp, m_pProcess, starting, gdb, events>>
        /\ driver' = QueueLow(driver, Plain(kind)) \/ driver' = Continue(driver)
    BY <1>1 DEF Resume
  <2> QED
    BY <2>1, <2>2, QueueFits
<1>2. ASSUME OnValueTooltip PROVE Goal
  <2>1. Plain("whatis") \in Queueable /\ Plain("whatis").kind \notin Work
    BY PlainIsQueueable DEF Kinds, Plain, Cmd, Work, Adds, Setting
  <2>2. /\ Calm /\ driver.up /\ UNCHANGED <<m_Breakpoints, bp, m_pProcess, starting, gdb, events>>
        /\ driver' = QueueLow(driver, Plain("whatis"))
    BY <1>2 DEF OnValueTooltip
  <2> QED
    BY <2>1, <2>2, QueueFits
<1> QED
  BY <1>1, <1>2

(* A session that is told to stop closes the pipe: nothing runs after that. *)
LEMMA StopFits ==
  ASSUME IInv, IInv', BpInv, Ordinary, driver.up, m_pProcess, driver' = Stop(driver),
         UNCHANGED <<m_Breakpoints, bp, m_pProcess, starting, events>>
  PROVE  Goal
<1> DEFINE c == Plain("quit")
           shut == [driver EXCEPT !.open = FALSE]
           f == QueueLow(IF IsStopped THEN driver ELSE shut, c)
           e == QueueLow(driver, c)
<1>1. Later(driver, driver) /\ Good(driver) /\ driver \in Drivers
  BY HereEdits DEF Good
<1>2. c \in Queueable /\ c.kind = "quit" /\ c.kind \notin Empty /\ c.kind \notin Resuming
  BY PlainIsQueueable DEF Kinds, Plain, Cmd, Empty, Resuming
<1> HIDE DEF c
<1>3. driver' = [f EXCEPT !.m_IsStarted = FALSE, !.open = FALSE]
  BY DEF Stop, c
<1>4. Later(driver, e) /\ e \in Drivers
  <2>1. Later(driver, e)
    BY <1>1, <1>2, QueueLowLater
  <2> QED
    BY <2>1 DEF Later, Good
<1>5. /\ f \in Drivers
      /\ \/ f.stdin = driver.stdin
         \/ f.stdin = <<c>>
  <2>1. CASE IsStopped
    <3>1. f = e
      BY <2>1
    <3>2. CASE driver.m_QueueBusy
      BY <1>4, <3>1, <3>2 DEF Later
    <3>3. CASE ~driver.m_QueueBusy
      <4>1. e.m_QueueBusy /\ Head(e.m_DCmds) = c
        BY <1>1, <1>2, <3>3, QueueLowLater
      <4>2. e.stdin = <<>> \/ e.stdin = <<c>>
        <5>1. Ready(e)
          BY <1>4, <3>3 DEF Later
        <5>2. Sent(e) /\ KnownWords
          BY <4>1, <5>1, OrdinaryIs DEF Ready
        <5> QED
          BY <4>1, <5>2 DEF Sent
      <4>3. driver.stdin = <<>>
        BY <1>1, <3>3 DEF Good
      <4> QED
        BY <1>4, <3>1, <4>2, <4>3
    <3> QED
      BY <3>2, <3>3
  <2>2. CASE ~IsStopped
    <3>1. driver.m_QueueBusy
      BY <1>1, <2>2 DEF IsStopped, Good
    <3>2. shut \in Drivers /\ shut.m_QueueBusy
      BY <1>1, <3>1 DEF Drivers
    <3>3. f = [shut EXCEPT !.m_DCmds = Append(driver.m_DCmds, c)]
      BY <1>1, <2>2, <3>2 DEF QueueLow, RunQueue, Drivers
    <3>4. Append(driver.m_DCmds, c) \in Seq(Queueable)
      BY <1>1, <1>2 DEF Drivers
    <3> HIDE DEF f
    <3> QED
      BY <1>1, <3>3, <3>4 DEF Drivers
  <2> QED
    BY <2>1, <2>2
<1> HIDE DEF f
<1>6. driver'.stdin = f.stdin /\ ~driver'.open
  BY <1>3, <1>5 DEF Drivers
<1>7. Send
  <2>1. CASE driver'.stdin = driver.stdin
    <3>1. Len(driver.stdin) \in Nat
      BY <1>1 DEF Drivers
    <3> QED
      BY <2>1, <3>1 DEF Send
  <2>2. CASE driver'.stdin = <<c>>
    <3>1. Last(<<c>>) = c
      BY DEF Last
    <3> QED
      BY <1>2, <2>2, <3>1 DEF Send
  <2> QED
    BY <1>5, <1>6, <2>1, <2>2
<1>8. BpInv'
  BY <1>6 DEF BpInv, Plainly, Starts, Dies, Lives
<1> QED
  BY <1>7, <1>8 DEF Goal

(* OnStop and OnProjectActivated.                                           *)
LEMMA EndFits ==
  ASSUME IInv, IInv', BpInv, Ordinary
  PROVE  (OnStop => Goal) /\ (OnProjectActivated => Goal)
<1>1. ASSUME OnStop, ~IsStopped /\ Calm /\ gdb' = Break(gdb) /\ UNCHANGED driver PROVE Goal
  <2>1. /\ Here \in Editors(driver) /\ Becomes(Here) /\ Changed(Here)
        /\ UNCHANGED <<m_pProcess, starting, events>>
    BY <1>1, HereRests, RestingChanged DEF OnStop, Becomes
  <2>2. gdb'.state = gdb.state /\ gdb'.bps = gdb.bps /\ gdb'.next = gdb.next /\ gdb'.asked = gdb.asked
    <3>1. IsGdb(gdb)
      BY DEF IInv, Types
    <3>2. Break(gdb) \in {gdb, [gdb EXCEPT !.signal = TRUE]}
      BY DEF Break
    <3> QED
      BY <1>1, <3>1, <3>2 DEF IsGdb
  <2>3. AreData(Here.bp)
    BY <2>1 DEF Changed
  <2>4. Live => /\ Fits(Here.bp, Wants(Here), gdb, {}, Range(Here.list))
                /\ Arranged(Here.d.m_DCmds, Wants(Here), driver.m_QueueBusy)
    BY <2>1, QueuedReady DEF Changed, Edited
  <2> QED
    BY <1>1, <2>1, <2>2, <2>3, <2>4, LaterFits
<1>2. ASSUME OnStop, driver' = Stop(driver) PROVE Goal
  BY <1>2, StopFits DEF OnStop
<1>3. ASSUME OnProjectActivated PROVE Goal
  BY <1>3, StopFits DEF OnProjectActivated
<1> QED
  BY <1>1, <1>2, <1>3 DEF OnStop

(* The user.                                                                *)
LEMMA UserFits ==
  ASSUME IInv, IInv', BpInv, Ordinary, User
  PROVE  Goal
<1>1. CASE \E b \in CodeBps, line \in Lines : AddBreakpoint(b, line) \/ RunToCursor(b, line)
  BY <1>1, BreakpointFits, SessionFits
<1>2. CASE \E b \in CodeBps : RemoveBreakpoint(b)
  BY <1>2, BreakpointFits
<1>3. CASE \E b \in CodeBps, enabled \in BOOLEAN, o \in Options : OnBreakpointEdit(b, enabled, o[1], o[2])
  BY <1>3, OnBreakpointEditFits
<1>4. CASE \E b \in DataBps : AddDataBreakpoint(b) \/ RemoveDataBreakpoint(b)
  BY <1>4, DataFits
<1>5. CASE OnRemoveAllBreakpoints
  BY <1>5, OnRemoveAllFits
<1>6. CASE \E startline \in Lines : LinesRemoved(startline, 1)
  BY <1>6, LinesRemovedFits
<1>7. CASE \E startline \in 0..MaxLine : LinesAdded(startline, 1)
  BY <1>7, LinesAddedFits
<1>8. CASE Debug
  BY <1>8, SessionFits
<1>9. CASE \E kind \in {"cont", "next"} : Resume(kind)
  BY <1>9, DriverFits
<1>10. CASE OnValueTooltip
  BY <1>10, DriverFits
<1>11. CASE OnStop
  BY <1>11, EndFits
<1>12. CASE OnProjectActivated
  BY <1>12, EndFits
<1> QED
  BY <1>1, <1>2, <1>3, <1>4, <1>5, <1>6, <1>7, <1>8, <1>9, <1>10, <1>11, <1>12 DEF User
-----------------------------------------------------------------------------
(* The steps: the start.                                                    *)

(* The start queues the breakpoints between "set prompt" and "run".         *)
LEMMA FinishStartFits ==
  ASSUME IInv, IInv', BpInv, Ordinary, FinishStart
  PROVE  Goal
<1>1. starting /\ starting' = FALSE /\ UNCHANGED <<m_pProcess, gdb, events>>
  BY DEF FinishStart, EndOfYield
<1>2. CASE ~driver.up
  <2>1. UNCHANGED <<m_Breakpoints, bp, driver>>
    BY <1>2 DEF FinishStart
  <2>2. BpInv'
    BY <1>1, <1>2, <2>1 DEF BpInv, Plainly, Starts, Dies, Lives
  <2>3. driver.stdin \in Seq(Queueable)
    BY DEF IInv, Types, Drivers
  <2>4. Send
    BY <2>1, <2>3 DEF Send
  <2> QED
    BY <2>2, <2>4 DEF Goal
<1>3. CASE driver.up
  <2> DEFINE p == Plain("prompt")
             c == Plain("catch")
             r == Plain("run")
             d1 == QueueLow(driver, p)
             d2 == QueueLow(d1, c)
             prepared == [Here EXCEPT !.d = d2]
             s == ApplyBreakpoints(prepared)
             e == QueueLow(s.d, r)
             fits == driver.open /\ gdb.state # "dead"
  <2>1. /\ Later(driver, d1) /\ Later(d1, d2) /\ Later(driver, d2) /\ Later(driver, s.d)
        /\ Later(d1, e) /\ Later(driver, e)
        /\ ~driver.m_QueueBusy => d1.m_QueueBusy
        /\ ~driver.m_QueueBusy /\ m_pProcess /\ driver.open => d1.stdin = <<p>>
        /\ prepared \in Editors(driver) /\ prepared.bp = bp /\ prepared.d = d2
        /\ s \in Editors(driver)
        /\ m_Breakpoints' = s.list /\ bp' = s.bp
        /\ driver' \in Drivers /\ driver'.up = e.up /\ driver'.m_DCmds = e.m_DCmds
        /\ driver'.m_QueueBusy = e.m_QueueBusy /\ driver'.open = e.open
        /\ driver'.m_ProgramIsStopped = e.m_ProgramIsStopped /\ driver'.stdin = e.stdin
    BY <1>3, FinishStartIs
  <2>2. /\ p \in Queueable /\ c \in Queueable /\ r \in Queueable
        /\ p.kind \notin Resuming /\ p.kind \notin Work /\ p.kind \notin Adds
        /\ c.kind \notin Resuming /\ c.kind \notin Work /\ c.kind \notin Adds
        /\ r.kind \in Resuming
    <3>1. p.kind = "prompt" /\ c.kind = "catch" /\ r.kind = "run"
      BY DEF Plain, Cmd
    <3>2. p \in Queueable /\ c \in Queueable /\ r \in Queueable
      BY PlainIsQueueable DEF Kinds
    <3> QED
      BY <3>1, <3>2 DEF Resuming, Work, Adds, Setting
  <2>3. s = ApplyBreakpoints(prepared)
    OBVIOUS
  <2>4. fits \in BOOLEAN
    BY DEF IInv, Types, Drivers
  <2>5. driver.open => ~driver.m_QueueBusy /\ (gdb.state # "dead" => gdb.bps = <<>> /\ gdb.next = 1)
    BY <1>1, <1>3 DEF BpInv, Starts
  <2>6. Good(driver) /\ Good(d1) /\ Good(d2) /\ Good(s.d) /\ Good(e)
    BY <2>1, HereEdits DEF Later
  <2> HIDE DEF p, c, r, prepared, s, fits
  <2>7. ASSUME driver.open PROVE Queued(d2.m_DCmds, {}, FALSE)
    <3>1. driver.m_DCmds = <<>>
      BY <2>5, <2>6, <2>7 DEF Good
    <3>2. Queued(driver.m_DCmds, {}, FALSE)
      BY <3>1, ShortQueues
    <3>3. Queued(d1.m_DCmds, Added({}, p), FALSE)
      BY <2>2, <2>6, <3>2, LowQueued
    <3>4. Queued(d1.m_DCmds, {}, FALSE)
      BY <2>2, <3>3 DEF Added
    <3> HIDE DEF d1
    <3>5. Queued(d2.m_DCmds, Added({}, c), FALSE)
      BY <2>2, <2>6, <3>4, LowQueued
    <3> QED
      BY <2>2, <3>5 DEF Added
  <2>8. fits => Edited(prepared, prepared.bp, gdb, {}, FALSE) /\ prepared.d.up
    <3> SUFFICES ASSUME fits PROVE Edited(prepared, prepared.bp, gdb, {}, FALSE) /\ prepared.d.up
      OBVIOUS
    <3>1. driver.open /\ gdb.bps = <<>>
      BY <2>5 DEF fits
    <3>2. Queued(d2.m_DCmds, {}, FALSE) /\ Wants(prepared) = {}
      BY <2>1, <2>7, <3>1 DEF Wants, Queued
    <3>3. Fits(bp, {}, gdb, {}, {})
      <4>1. DOMAIN gdb.bps = {}
        BY <3>1
      <4> QED
        BY <4>1 DEF Fits, AddsFit, BpsFit, Apart, NumbersFit, OrdersFit
    <3>4. prepared.d.up
      BY <1>3, <2>1 DEF Later
    <3> QED
      BY <2>1, <3>2, <3>3, <3>4 DEF Edited, NoOptions
  <2>9. AreData(s.bp) /\ (fits => Edited(s, s.bp, gdb, Range(s.list), FALSE))
    <3>1. AreData(prepared.bp)
      BY <2>1 DEF BpInv, Plainly
    <3> HIDE DEF d1, d2, e
    <3> QED
      BY <2>1, <2>3, <2>4, <2>8, <3>1, ApplyFits
  <2>10. e.up /\ e.open = driver.open
    BY <1>3, <2>1 DEF Later
  <2>11. Plainly' /\ Starts'
    BY <1>1, <2>1, <2>9 DEF Plainly, Starts
  <2>12. ASSUME driver.open PROVE Replies' = {} /\ Got' = {} /\ gdb.state # "program"
    <3>1. Replies = {} /\ Got = {}
      BY <2>5, <2>12, RepliesAre
    <3>2. Replies' = Replies /\ Got' = Got
      BY <1>1 DEF Replies, AnswerAt, Got
    <3>3. gdb.state # "program"
      BY <2>5, <2>12 DEF IInv, Queue, Asked
    <3> QED
      BY <3>1, <3>2, <3>3
  <2>13. Dies'
    <3>1. driver.open => e.m_QueueBusy
      BY <2>1, <2>5 DEF Later
    <3> QED
      BY <2>1, <2>10, <2>12, <3>1 DEF Dies
  <2>14. Lives'
    <3> SUFFICES ASSUME driver.open, gdb.state # "dead"
                 PROVE  /\ (gdb.bps \in [DOMAIN gdb.bps -> Entries])'
                        /\ Fits(bp, Asks(driver.m_DCmds), gdb, Got, Range(m_Breakpoints))'
                        /\ (Unique(driver.m_DCmds) /\ Ordered(driver.m_DCmds))'
                        /\ (\A a \in Replies : AnswerFits(a, gdb))'
                        /\ (gdb.state = "program" => gdb.asked.kind \in Resuming)'
      BY <1>1, <2>1, <2>10 DEF Lives
    <3>1. Edited(s, s.bp, gdb, Range(s.list), FALSE)
      BY <2>9 DEF fits
    <3>2. Queued(s.d.m_DCmds, Wants(s), FALSE) /\ Fits(s.bp, Wants(s), gdb, {}, Range(s.list))
      BY <3>1 DEF Edited
    <3>3. Arranged(e.m_DCmds, Wants(s), FALSE)
      BY <2>2, <2>6, <3>2, LowResumes
    <3> HIDE DEF e
    <3>4. /\ Asks(driver'.m_DCmds) = Wants(s)
          /\ Unique(driver'.m_DCmds) /\ Ordered(driver'.m_DCmds)
      BY <2>1, <3>3 DEF Arranged
    <3>5. gdb.bps \in [DOMAIN gdb.bps -> Entries]
      <4>1. <<>> \in Seq(Entries)
        OBVIOUS
      <4>2. <<>> \in [1..Len(<<>>) -> Entries] /\ DOMAIN <<>> = 1..Len(<<>>)
        BY <4>1
      <4> QED
        BY <2>5, <4>2
    <3> QED
      BY <1>1, <2>1, <2>12, <3>2, <3>4, <3>5
  <2>15. Send
    <3> SUFFICES ASSUME Len(driver'.stdin) > Len(driver.stdin) PROVE Last(driver'.stdin).kind \notin Resuming
      BY DEF Send
    <3>1. driver.stdin \in Seq(Queueable) /\ driver'.stdin \in Seq(Queueable)
      BY DEF IInv, Types, Drivers
    <3> HIDE DEF e, d1, d2
    <3>2. driver'.stdin # driver.stdin /\ driver'.stdin # <<>>
      BY <3>1
    <3>3. ~driver.m_QueueBusy
      BY <2>1, <3>2 DEF Later
    <3>4. e.m_QueueBusy /\ Ready(e) /\ e.stdin = d1.stdin
      BY <2>1, <3>3 DEF Later
    <3>5. m_pProcess /\ driver.open
      BY <2>1, <2>10, <3>2, <3>4 DEF Ready, Sent
    <3>6. driver'.stdin = <<p>>
      BY <2>1, <3>3, <3>4, <3>5
    <3>7. Last(<<p>>) = p
      BY DEF Last
    <3> QED
      BY <2>2, <3>6, <3>7
  <2> QED
    BY <2>11, <2>13, <2>14, <2>15 DEF Goal, BpInv
<1> QED
  BY <1>2, <1>3
-----------------------------------------------------------------------------
(* The steps: GDB.                                                          *)

(* GDB numbers its breakpoints from 1.                                      *)
Numbered == gdb.next # 0

(* GDB answers c.                                                           *)
LEMMA AnswerGiven ==
  ASSUME IInv, IInv', BpInv, Ordinary, NEW c \in Queueable, NEW text \in Texts, NEW n \in Int, NEW g,
         Answers(g, c, text, n), text # "unknown", AnswerAt = {}, driver.m_QueueBusy,
         driver'.stdin = <<>>, driver'.up = driver.up, driver'.open = driver.open,
         driver'.m_DCmds = driver.m_DCmds, UNCHANGED <<m_Breakpoints, bp, starting>>,
         gdb.state # "dead", gdb'.state = "prompt",
         Live => /\ g.trusted
                 /\ gdb'.bps \in [DOMAIN gdb'.bps -> Entries]
                 /\ Fits(bp, Asks(driver.m_DCmds), gdb', IF c.kind \in Setting THEN {n} ELSE {}, Range(m_Breakpoints))
                 /\ AnswerFits(Answer(c, text, n), gdb')
  PROVE  Goal
<1> DEFINE a == Answer(c, text, n)
<1>1. a \in Posted /\ a.kind = "answer" /\ a.to = c /\ a.number = n
  <2>1. a \in Posted /\ a.kind = "answer" /\ a.to = c
    BY AnswerIsPosted
  <2> QED
    BY <2>1 DEF Answer
<1> HIDE DEF a
<1>2. Live' <=> Live
  BY DEF Live
<1>3. ~(driver.up /\ driver.open /\ starting)
  BY DEF BpInv, Starts
<1>4. Plainly' /\ Starts' /\ Dies'
  BY <1>3 DEF BpInv, Plainly, Starts, Dies
<1>5. ASSUME Live PROVE Replies' = {a} /\ Got' = IF c.kind \in Setting THEN {n} ELSE {}
  <2>1. events' = Append(events, a)
    BY <1>5 DEF Answers, a
  <2>2. AnswerAt' = {Len(events')} /\ events'[Len(events')] = a
    BY <1>1, <2>1, AppendEvents DEF IInv
  <2>3. Replies' = {a}
    BY <2>2 DEF Replies
  <2> QED
    BY <1>1, <2>3 DEF Got
<1>6. Lives'
  <2> SUFFICES ASSUME Live
               PROVE  /\ (gdb.bps \in [DOMAIN gdb.bps -> Entries])'
                      /\ Fits(bp, Asks(driver.m_DCmds), gdb, Got, Range(m_Breakpoints))'
                      /\ (Unique(driver.m_DCmds) /\ Ordered(driver.m_DCmds))'
                      /\ (\A x \in Replies : AnswerFits(x, gdb))'
                      /\ (gdb.state = "program" => gdb.asked.kind \in Resuming)'
    BY <1>2 DEF Lives, Live
  <2>1. Unique(driver.m_DCmds) /\ Ordered(driver.m_DCmds)
    BY DEF BpInv, Lives, Live
  <2>2. Fits(bp', Asks(driver'.m_DCmds), gdb', Got', Range(m_Breakpoints'))
    BY <1>5
  <2>3. \A x \in Replies' : AnswerFits(x, gdb')
    BY <1>5 DEF a
  <2> QED
    BY <2>1, <2>2, <2>3
<1>7. Send
  <2>1. driver.stdin \in Seq(Queueable)
    BY DEF IInv, Types, Drivers
  <2>2. ~(Len(driver'.stdin) > Len(driver.stdin))
    BY <2>1
  <2> QED
    BY <2>2 DEF Send
<1> QED
  BY <1>4, <1>6, <1>7 DEF Goal, BpInv

(* So it does when the answer names no new breakpoint.                      *)
LEMMA DoneGiven ==
  ASSUME IInv, IInv', BpInv, Ordinary, NEW c \in Queueable, NEW text \in Texts, NEW g,
         Answers(g, c, text, 0), text # "unknown", AnswerAt = {}, driver.m_QueueBusy,
         driver'.stdin = <<>>, driver'.up = driver.up, driver'.open = driver.open,
         driver'.m_DCmds = driver.m_DCmds, UNCHANGED <<m_Breakpoints, bp, starting>>,
         gdb.state # "dead", gdb'.state = "prompt", c.kind \notin Setting,
         Live => /\ g.trusted
                 /\ gdb'.bps \in [DOMAIN gdb'.bps -> Entries]
                 /\ Fits(bp, Asks(driver.m_DCmds), gdb', {}, Range(m_Breakpoints))
                 /\ AnswerFits(Answer(c, text, 0), gdb')
  PROVE  Goal
<1>1. (IF c.kind \in Setting THEN {0} ELSE {}) = {} /\ 0 \in Int
  OBVIOUS
<1>2. Live => /\ g.trusted
              /\ gdb'.bps \in [DOMAIN gdb'.bps -> Entries]
              /\ Fits(bp, Asks(driver.m_DCmds), gdb', IF c.kind \in Setting THEN {0} ELSE {}, Range(m_Breakpoints))
              /\ AnswerFits(Answer(c, text, 0), gdb')
  BY <1>1
<1> QED
  BY <1>1, <1>2, AnswerGiven

(* What GDB has read when it reads c.                                       *)
LEMMA GdbHas ==
  ASSUME IInv, BpInv, Ordinary, GdbExecute, NEW c, c = Head(driver.stdin)
  PROVE  /\ gdb.state = "prompt" /\ c \in Queueable /\ AnswerAt = {} /\ driver.m_QueueBusy /\ IsGdb(gdb)
         /\ driver'.stdin = <<>> /\ driver'.up = driver.up /\ driver'.open = driver.open
         /\ driver'.m_DCmds = driver.m_DCmds /\ driver'.m_QueueBusy = driver.m_QueueBusy
         /\ UNCHANGED <<m_Breakpoints, bp, m_pProcess, starting>>
         /\ bp \in Tables /\ Asks(driver.m_DCmds) \in SUBSET Queueable /\ Range(m_Breakpoints) \in SUBSET Bps
         /\ Replies = {} /\ Got = {}
         /\ Live => /\ gdb.trusted \/ c.kind = "prompt"
                    /\ gdb.bps \in [DOMAIN gdb.bps -> Entries]
                    /\ Fits(bp, Asks(driver.m_DCmds), gdb, {}, Range(m_Breakpoints))
                    /\ c.kind \in Work => c \in Asks(driver.m_DCmds)
<1>1. /\ gdb.state = "prompt" /\ driver.stdin # <<>>
      /\ driver' = [driver EXCEPT !.stdin = Tail(@)]
      /\ UNCHANGED <<m_Breakpoints, bp, m_pProcess, starting>>
  BY DEF GdbExecute, GdbReads
<1>2. driver \in Drivers /\ driver.stdin \in Seq(Queueable) /\ driver.m_DCmds \in Seq(Queueable) /\ IsGdb(gdb)
  BY DEF IInv, Types, Drivers
<1>3. c \in Queueable
  BY <1>1, <1>2
<1>4. AnswerAt = {} /\ driver.stdin = <<c>> /\ driver.m_QueueBusy /\ c = Head(driver.m_DCmds) /\ driver.m_DCmds # <<>>
  <2>1. KnownWords
    BY OrdinaryIs
  <2> QED
    BY <1>1, <2>1 DEF IInv, Queue, Asked
<1>5. Tail(driver.stdin) = <<>>
  <2>1. \A x : Tail(<<x>>) = <<>>
    OBVIOUS
  <2> QED
    BY <1>4, <2>1
<1>6. /\ driver'.stdin = <<>> /\ driver'.up = driver.up /\ driver'.open = driver.open
      /\ driver'.m_DCmds = driver.m_DCmds /\ driver'.m_QueueBusy = driver.m_QueueBusy
  BY <1>1, <1>2, <1>5 DEF Drivers
<1>7. bp \in Tables /\ Asks(driver.m_DCmds) \in SUBSET Queueable /\ Range(m_Breakpoints) \in SUBSET Bps
  <2>1. bp \in Tables /\ m_Breakpoints \in Seq(Bps)
    BY DEF IInv, Types, Tables, Lists
  <2>2. Asks(driver.m_DCmds) \in SUBSET Queueable
    BY <1>2, WantsTyped
  <2> QED
    BY <2>1, <2>2 DEF Range
<1>8. Replies = {} /\ Got = {}
  BY <1>4, RepliesAre
<1>9. ASSUME Live
      PROVE  /\ gdb.trusted \/ c.kind = "prompt"
             /\ gdb.bps \in [DOMAIN gdb.bps -> Entries]
             /\ Fits(bp, Asks(driver.m_DCmds), gdb, {}, Range(m_Breakpoints))
             /\ c.kind \in Work => c \in Asks(driver.m_DCmds)
  <2>1. gdb.bps \in [DOMAIN gdb.bps -> Entries] /\ Fits(bp, Asks(driver.m_DCmds), gdb, {}, Range(m_Breakpoints))
    BY <1>8, <1>9 DEF BpInv, Lives, Live
  <2>2. gdb.trusted \/ c.kind = "prompt"
    <3> SUFFICES ASSUME ~gdb.trusted PROVE c.kind = "prompt"
      OBVIOUS
    <3>1. Patient
      BY OrdinaryIs
    <3>2. driver.stdin = <<Plain("prompt")>>
      BY <1>9, <3>1 DEF IInv, Owed, PromptFirst, Live
    <3>3. c = Plain("prompt")
      BY <1>4, <3>2
    <3> QED
      BY <3>3 DEF Plain, Cmd
  <2>3. c.kind \in Work => c \in Asks(driver.m_DCmds)
    <3>1. 1 \in DOMAIN driver.m_DCmds /\ driver.m_DCmds[1] = c
      BY <1>2, <1>4
    <3> QED
      BY <3>1 DEF Asks
  <2> QED
    BY <2>1, <2>2, <2>3
<1> QED
  BY <1>1, <1>2, <1>3, <1>4, <1>6, <1>7, <1>8, <1>9

(* GDB carries out a command.                                               *)
LEMMA GdbExecuteFits ==
  ASSUME IInv, IInv', BpInv, Numbered, Ordinary, GdbExecute
  PROVE  Goal
<1> DEFINE A == Asks(driver.m_DCmds)
           on == Range(m_Breakpoints)
<1>a. PICK c : c = Head(driver.stdin)
  OBVIOUS
<1> DEFINE known == c.arg \in DOMAIN gdb.bps
<1>1. /\ gdb.state = "prompt" /\ c \in Queueable /\ AnswerAt = {} /\ driver.m_QueueBusy /\ IsGdb(gdb)
      /\ driver'.stdin = <<>> /\ driver'.up = driver.up /\ driver'.open = driver.open
      /\ driver'.m_DCmds = driver.m_DCmds /\ driver'.m_QueueBusy = driver.m_QueueBusy
      /\ UNCHANGED <<m_Breakpoints, bp, m_pProcess, starting>>
      /\ bp \in Tables /\ A \in SUBSET Queueable /\ on \in SUBSET Bps
      /\ Replies = {} /\ Got = {}
  BY <1>a, GdbHas
<1>2. Live => /\ gdb.trusted \/ c.kind = "prompt"
              /\ gdb.bps \in [DOMAIN gdb.bps -> Entries]
              /\ Fits(bp, A, gdb, {}, on)
              /\ c.kind \in Work => c \in A
  BY <1>a, GdbHas
<1>3. gdb.next \in Nat /\ gdb.next # 0 /\ c.arg \in Int
  BY <1>1 DEF IsGdb, Numbered, Queueable, Commands
<1>4. gdb'.state = "prompt" \/ gdb'.state = "program" \/ gdb'.state = "dead"
  BY DEF IInv, Types, IsGdb
<1>b. /\ c.kind \in {"break", "tbreak", "watch", "delete", "condition", "ignore", "output"} => c.kind \in Work
      /\ Setting = {"break", "tbreak", "watch"}
  BY DEF Work, Adds, Setting
<1> HIDE DEF A, on
<1>5. CASE c.kind \in Setting
  <2>1. gdb' = SetBreakpoint(gdb, c)
    BY <1>5, <1>a DEF GdbExecute, Resuming, Setting
  <2>2. PICK text \in {"breakpoint", "watchpoint"} :
            /\ Answers(gdb, c, text, gdb.next)
            /\ text = IF c.kind = "watch" THEN "watchpoint" ELSE "breakpoint"
    BY <1>5, <1>a DEF GdbExecute, Resuming, Setting
  <2> DEFINE x == [n \in DOMAIN gdb.bps \cup {gdb.next} |->
                      IF n \in DOMAIN gdb.bps THEN gdb.bps[n] ELSE Made(c)]
  <2>3. gdb' = [gdb EXCEPT !.next = gdb.next + 1, !.bps = x]
    BY <1>1, <2>1 DEF SetBreakpoint, IsGdb, Made
  <2>4. /\ DOMAIN x = DOMAIN gdb.bps \cup {gdb.next} /\ \A n \in DOMAIN gdb.bps : x[n] = gdb.bps[n]
        /\ gdb.next \notin DOMAIN gdb.bps => x[gdb.next] = Made(c)
    OBVIOUS
  <2> HIDE DEF x
  <2>5. gdb'.next = gdb.next + 1 /\ gdb'.bps = x /\ gdb'.state = "prompt"
    BY <1>1, <2>3 DEF IsGdb
  <2>6. ASSUME Live
        PROVE  /\ gdb.trusted
               /\ gdb'.bps \in [DOMAIN gdb'.bps -> Entries]
               /\ Fits(bp, A, gdb', {gdb.next}, on)
               /\ AnswerFits(Answer(c, text, gdb.next), gdb')
    <3>1. Fits(bp, A, gdb', {gdb.next}, on)
      BY <1>1, <1>2, <1>3, <2>4, <2>5, <2>6, FitsMade
    <3>2. gdb.next \notin DOMAIN gdb.bps
      <4>1. \A n \in DOMAIN gdb.bps : n \in Nat \ {0} /\ n < gdb.next
        BY <1>2, <2>6 DEF Fits, NumbersFit
      <4> QED
        BY <1>3, <4>1
    <3>3. Made(c) \in Entries
      BY <1>3 DEF Made, Entries
    <3>4. gdb'.bps \in [DOMAIN gdb'.bps -> Entries]
      <4>1. \A n \in DOMAIN x : x[n] \in Entries
        BY <1>2, <2>4, <2>6, <3>2, <3>3
      <4>2. x = [n \in DOMAIN x |-> x[n]]
        BY <2>4 DEF x
      <4> QED
        BY <2>5, <4>1, <4>2
    <3>5. AnswerFits(Answer(c, text, gdb.next), gdb')
      <4>1. c.kind \notin {"output", "delete", "condition", "ignore"}
        BY <1>5 DEF Setting
      <4>2. /\ Answer(c, text, gdb.next).to = c /\ Answer(c, text, gdb.next).number = gdb.next
            /\ Answer(c, text, gdb.next).text = text
        BY DEF Answer
      <4> QED
        BY <2>2, <2>4, <2>5, <3>2, <4>1, <4>2 DEF AnswerFits
    <3>6. gdb.trusted
      BY <1>2, <1>5, <2>6 DEF Setting
    <3> QED
      BY <3>1, <3>4, <3>5, <3>6
  <2>7. text \in Texts /\ text # "unknown" /\ gdb.next \in Int
    BY <1>3, <2>2 DEF Texts
  <2> QED
    BY <1>1, <1>5, <2>2, <2>5, <2>6, <2>7, AnswerGiven DEF A, on
<1>6. CASE c.kind \in {"delete", "condition", "ignore"}
  <2>1. Answers(gdb, c, "done", 0)
    BY <1>6, <1>a DEF GdbExecute, Resuming
  <2>2. /\ gdb'.state = "prompt"
        /\ Live => /\ gdb'.bps \in [DOMAIN gdb'.bps -> Entries]
                   /\ Fits(bp, A, gdb', {}, on)
                   /\ AnswerFits(Answer(c, "done", 0), gdb')
    <3>a. Answer(c, "done", 0).to = c /\ c.kind \notin Setting /\ c.kind # "output"
      BY <1>6 DEF Answer, Setting
    <3>1. CASE c.kind = "delete"
      <4>1. gdb' = [gdb EXCEPT !.bps = Without(gdb.bps, c.arg)]
        BY <3>1, <1>a DEF GdbExecute, Resuming
      <4>2. gdb'.next = gdb.next /\ gdb'.bps = Without(gdb.bps, c.arg) /\ gdb'.state = "prompt"
        BY <1>1, <4>1 DEF IsGdb
      <4>3. ASSUME Live
            PROVE  /\ gdb'.bps \in [DOMAIN gdb'.bps -> Entries]
                   /\ Fits(bp, A, gdb', {}, on)
                   /\ AnswerFits(Answer(c, "done", 0), gdb')
        <5>1. c \in A
          BY <1>2, <1>6, <1>b, <4>3
        <5>2. Sends(A, "delete", c.arg)
          BY <3>1, <5>1 DEF Sends
        <5>3. Fits(bp, A, gdb', {}, on)
          BY <1>1, <1>2, <4>2, <4>3, <5>2, FitsWithout
        <5>4. gdb'.bps \in [DOMAIN gdb'.bps -> Entries]
          BY <1>2, <4>2, <4>3 DEF Without
        <5>5. c.arg \notin DOMAIN gdb'.bps
          BY <4>2 DEF Without
        <5> QED
          BY <3>1, <3>a, <5>3, <5>4, <5>5 DEF AnswerFits
      <4> QED
        BY <4>2, <4>3
    <3>2. CASE c.kind \in {"condition", "ignore"} /\ ~known
      <4>1. gdb' = gdb
        BY <3>2, <1>a DEF GdbExecute, Resuming
      <4>2. AnswerFits(Answer(c, "done", 0), gdb')
        BY <3>2, <3>a, <4>1 DEF AnswerFits
      <4> QED
        BY <1>1, <1>2, <4>1, <4>2
    <3>3. CASE c.kind \in {"condition", "ignore"} /\ known
      <4> DEFINE o == gdb.bps[c.arg]
                 x == [gdb.bps EXCEPT ![c.arg] =
                          IF c.kind = "condition" THEN [o EXCEPT !.cond = TRUE] ELSE [o EXCEPT !.ign = TRUE]]
      <4>1. gdb' = [gdb EXCEPT !.bps = x]
        <5>1. CASE c.kind = "condition"
          <6>1. gdb' = [gdb EXCEPT !.bps[c.arg].cond = TRUE]
            BY <3>3, <5>1, <1>a DEF GdbExecute, Resuming
          <6> QED
            BY <5>1, <6>1
        <5>2. CASE c.kind = "ignore"
          <6>1. gdb' = [gdb EXCEPT !.bps[c.arg].ign = TRUE]
            BY <3>3, <5>2, <1>a DEF GdbExecute, Resuming
          <6> QED
            BY <5>2, <6>1
        <5> QED
          BY <3>3, <5>1, <5>2
      <4>2. gdb'.next = gdb.next /\ gdb'.bps = x /\ gdb'.state = "prompt"
        <5> HIDE DEF x
        <5> QED
          BY <1>1, <4>1 DEF IsGdb
      <4>3. ASSUME Live
            PROVE  /\ gdb'.bps \in [DOMAIN gdb'.bps -> Entries]
                   /\ Fits(bp, A, gdb', {}, on)
                   /\ AnswerFits(Answer(c, "done", 0), gdb')
        <5>1. c \in A
          BY <1>2, <1>6, <1>b, <4>3
        <5>2. o \in Entries /\ c.arg \in DOMAIN gdb.bps
          BY <1>2, <3>3, <4>3
        <5> DEFINE v == IF c.kind = "condition" THEN [o EXCEPT !.cond = TRUE] ELSE [o EXCEPT !.ign = TRUE]
        <5>3. /\ v \in Entries /\ v.at = o.at /\ v.temp = o.temp
              /\ v.cond = (o.cond \/ c.kind = "condition") /\ v.ign = (o.ign \/ c.kind = "ignore")
          BY <3>3, <5>2 DEF Entries
        <5>a. x = [gdb.bps EXCEPT ![c.arg] = v]
          OBVIOUS
        <5> HIDE DEF v, x
        <5>4. /\ x \in [DOMAIN gdb.bps -> Entries] /\ DOMAIN x = DOMAIN gdb.bps
              /\ x[c.arg] = v /\ \A m \in DOMAIN gdb.bps : m # c.arg => x[m] = gdb.bps[m]
          BY <1>2, <4>3, <5>2, <5>3, <5>a
        <5>5. \A m \in DOMAIN gdb.bps :
                /\ x[m].at = gdb.bps[m].at /\ x[m].temp = gdb.bps[m].temp
                /\ x[m].cond = (gdb.bps[m].cond \/ (m = c.arg /\ c.kind = "condition"))
                /\ x[m].ign = (gdb.bps[m].ign \/ (m = c.arg /\ c.kind = "ignore"))
          <6> SUFFICES ASSUME NEW m \in DOMAIN gdb.bps
                       PROVE  /\ x[m].at = gdb.bps[m].at /\ x[m].temp = gdb.bps[m].temp
                              /\ x[m].cond = (gdb.bps[m].cond \/ (m = c.arg /\ c.kind = "condition"))
                              /\ x[m].ign = (gdb.bps[m].ign \/ (m = c.arg /\ c.kind = "ignore"))
            OBVIOUS
          <6>1. gdb.bps[m] \in Entries /\ gdb.bps[m].cond \in BOOLEAN /\ gdb.bps[m].ign \in BOOLEAN
            BY <1>2, <4>3 DEF Entries
          <6>2. CASE m = c.arg
            BY <5>3, <5>4, <6>2
          <6>3. CASE m # c.arg
            BY <5>4, <6>1, <6>3
          <6> QED
            BY <6>2, <6>3
        <5>6. Fits(bp, A, gdb', {}, on)
          BY <1>1, <1>2, <3>3, <4>2, <4>3, <5>1, <5>2, <5>4, <5>5, FitsOption
        <5>7. AnswerFits(Answer(c, "done", 0), gdb')
          BY <3>3, <3>a, <4>2, <5>3, <5>4 DEF AnswerFits
        <5> QED
          BY <4>2, <5>4, <5>6, <5>7
      <4> QED
        BY <4>2, <4>3
    <3> QED
      BY <1>6, <3>1, <3>2, <3>3
  <2>3. c.kind \notin Setting /\ c.kind # "prompt" /\ "done" \in Texts
    BY <1>6 DEF Setting, Texts
  <2> QED
    BY <1>1, <1>2, <2>1, <2>2, <2>3, DoneGiven DEF A, on
<1>7. CASE c.kind \in {"output", "whatis"}
  <2>1. gdb' = gdb
    BY <1>7, <1>a DEF GdbExecute, Resuming
  <2>2. PICK text \in {"address", "type"} :
            (c.kind = "output" => text = "address") /\ Answers(gdb, c, text, 0)
    <3>1. CASE c.kind = "output"
      <4>1. \E text \in {"address"} \cup (IF "refusal" \in Mishaps THEN {"refused"} ELSE {}) :
                Answers(gdb, c, text, 0)
        BY <3>1, <1>a DEF GdbExecute, Resuming
      <4> QED
        BY <4>1 DEF Ordinary
    <3>2. CASE c.kind = "whatis"
      <4>1. \E text \in {"type"} \cup (IF "unknown word" \in Mishaps THEN {"unknown"} ELSE {}) :
                Answers(gdb, c, text, 0)
        BY <3>2, <1>a DEF GdbExecute, Resuming
      <4> QED
        BY <3>2, <4>1 DEF Ordinary
    <3> QED
      BY <1>7, <3>1, <3>2
  <2>3. c.kind \notin Setting \cup {"prompt", "delete", "condition", "ignore"} /\ text \in Texts /\ text # "unknown"
    BY <1>7, <2>2 DEF Setting, Texts
  <2>4. AnswerFits(Answer(c, text, 0), gdb')
    BY <2>2, <2>3 DEF AnswerFits, Answer
  <2> QED
    BY <1>1, <1>2, <2>1, <2>2, <2>3, <2>4, DoneGiven DEF A, on
<1>8. CASE c.kind \in {"prompt", "catch"}
  <2>1. /\ gdb'.state = "prompt" /\ gdb'.bps = gdb.bps
        /\ gdb'.next = gdb.next \/ gdb'.next = gdb.next + 1
        /\ gdb'.trusted = (gdb.trusted \/ c.kind = "prompt")
        /\ \E text \in {"done", "catchpoint"} : Answers(gdb', c, text, 0)
    <3>1. CASE c.kind = "prompt"
      <4>1. gdb' = [gdb EXCEPT !.trusted = TRUE] /\ Answers(gdb', c, "done", 0)
        BY <3>1, <1>a DEF GdbExecute, Resuming
      <4>2. Answers(gdb', c, "done", 0)
        BY <4>1
      <4>3. gdb'.state = "prompt" /\ gdb'.bps = gdb.bps /\ gdb'.next = gdb.next /\ gdb'.trusted = TRUE
        BY <1>1, <4>1 DEF IsGdb
      <4> QED
        BY <3>1, <4>2, <4>3
    <3>2. CASE c.kind = "catch"
      <4>1. gdb' = [gdb EXCEPT !.next = gdb.next + 1] /\ Answers(gdb, c, "catchpoint", 0)
        BY <3>2, <1>a DEF GdbExecute, Resuming
      <4>2. /\ gdb'.state = "prompt" /\ gdb'.bps = gdb.bps /\ gdb'.next = gdb.next + 1
            /\ gdb'.trusted = gdb.trusted /\ gdb.trusted \in BOOLEAN
        BY <1>1, <4>1 DEF IsGdb
      <4>3. Answers(gdb', c, "catchpoint", 0)
        BY <4>1, <4>2 DEF Answers
      <4> QED
        BY <3>2, <4>2, <4>3
    <3> QED
      BY <1>8, <3>1, <3>2
  <2>2. PICK text \in {"done", "catchpoint"} : Answers(gdb', c, text, 0)
    BY <2>1
  <2>3. c.kind \notin Setting \cup {"output", "delete", "condition", "ignore"} /\ text \in Texts /\ text # "unknown"
    BY <1>8 DEF Setting, Texts
  <2>4. AnswerFits(Answer(c, text, 0), gdb')
    BY <2>3 DEF AnswerFits, Answer
  <2>5. Live => Fits(bp, A, gdb', {}, on)
    <3>1. CASE gdb'.next = gdb.next
      BY <1>2, <2>1, <3>1, FitsSame
    <3>2. CASE gdb'.next = gdb.next + 1
      BY <1>1, <1>2, <1>3, <2>1, <3>2, FitsNext
    <3> QED
      BY <2>1, <3>1, <3>2
  <2> QED
    BY <1>1, <1>2, <1>8, <2>1, <2>2, <2>3, <2>4, <2>5, DoneGiven DEF A, on
<1>c. ASSUME gdb'.bps = gdb.bps, gdb'.next = gdb.next, Replies' = {}, gdb'.state # "prompt",
             gdb'.state = "program" => gdb'.asked = c /\ c.kind \in Resuming
      PROVE  Goal
  <2>1. Got' = {}
    BY <1>c DEF Got
  <2>2. ~(driver.up /\ driver.open /\ starting)
    BY <1>1 DEF BpInv, Starts
  <2>3. Plainly' /\ Starts' /\ Dies'
    BY <1>1, <1>c, <2>2 DEF BpInv, Plainly, Starts, Dies
  <2>4. Lives'
    <3> SUFFICES ASSUME Live
                 PROVE  /\ (gdb.bps \in [DOMAIN gdb.bps -> Entries])'
                        /\ Fits(bp, Asks(driver.m_DCmds), gdb, Got, Range(m_Breakpoints))'
                        /\ (Unique(driver.m_DCmds) /\ Ordered(driver.m_DCmds))'
                        /\ (\A x \in Replies : AnswerFits(x, gdb))'
                        /\ (gdb.state = "program" => gdb.asked.kind \in Resuming)'
      BY <1>1 DEF Lives, Live
    <3>1. Unique(driver.m_DCmds) /\ Ordered(driver.m_DCmds)
      BY DEF BpInv, Lives, Live
    <3>2. Fits(bp, A, gdb', {}, on)
      BY <1>2, <1>c, FitsSame
    <3> QED
      BY <1>1, <1>2, <1>c, <2>1, <3>1, <3>2 DEF A, on
  <2>5. Send
    <3>1. driver.stdin \in Seq(Queueable)
      BY DEF IInv, Types, Drivers
    <3>2. ~(Len(driver'.stdin) > Len(driver.stdin))
      BY <1>1, <3>1
    <3> QED
      BY <3>2 DEF Send
  <2> QED
    BY <2>3, <2>4, <2>5 DEF Goal, BpInv
<1>9. CASE c.kind \in Resuming
  <2>1. gdb' = [gdb EXCEPT !.state = "program", !.asked = c]
    BY <1>9, <1>a DEF GdbExecute, Resuming
  <2>2. gdb'.state = "program" /\ gdb'.asked = c /\ gdb'.bps = gdb.bps /\ gdb'.next = gdb.next
    BY <1>1, <2>1 DEF IsGdb
  <2>3. Replies' = {}
    <3>1. AnswerAt' = {}
      BY <2>2 DEF IInv, Queue
    <3> QED
      BY <3>1 DEF Replies
  <2> QED
    BY <1>9, <1>c, <2>2, <2>3
<1>10. CASE c.kind = "quit"
  <2>1. gdb' = [gdb EXCEPT !.state = "dead"] /\ events' = events
    BY <1>10, <1>a DEF GdbExecute, Resuming
  <2>2. gdb'.state = "dead" /\ gdb'.bps = gdb.bps /\ gdb'.next = gdb.next
    BY <1>1, <2>1 DEF IsGdb
  <2>3. Replies' = Replies
    BY <2>1 DEF Replies, AnswerAt
  <2> QED
    BY <1>1, <1>c, <2>2, <2>3
<1>11. CASE c.kind \notin {"break", "tbreak", "watch", "delete", "condition", "ignore", "output",
                           "whatis", "prompt", "catch", "quit"} \cup Resuming
  <2>1. gdb' = gdb /\ Answers(gdb, c, "done", 0)
    BY <1>11, <1>a DEF GdbExecute, Resuming
  <2>2. c.kind \notin Setting /\ "done" \in Texts
    BY <1>11 DEF Setting, Texts
  <2>3. AnswerFits(Answer(c, "done", 0), gdb')
    BY <1>11, <2>2 DEF AnswerFits, Answer
  <2> QED
    BY <1>1, <1>2, <1>11, <2>1, <2>2, <2>3, DoneGiven DEF A, on
<1> QED
  BY <1>5, <1>6, <1>7, <1>8, <1>9, <1>10, <1>11, <1>b

(* The program stops; a temporary breakpoint may be gone.                   *)
LEMMA ProgramStopsFits ==
  ASSUME IInv, IInv', BpInv, Ordinary, ProgramStops \/ ProgramSignalled
  PROVE  Goal
<1> DEFINE c == gdb.asked
<1>1. /\ gdb.state = "program" /\ IsGdb(gdb)
      /\ UNCHANGED <<m_Breakpoints, bp, driver, m_pProcess, starting>>
  BY DEF ProgramStops, ProgramSignalled, IInv, Types
<1>2. /\ Asked(c) /\ driver.m_QueueBusy /\ AnswerAt = {} /\ driver.stdin = <<>> /\ c \in Queueable
      /\ Replies = {} /\ Got = {}
  <2>1. Asked(c) /\ driver.m_QueueBusy /\ AnswerAt = {} /\ driver.stdin = <<>> /\ c \in Queueable
    BY <1>1 DEF IInv, Queue, Asked, IsGdb
  <2> QED
    BY <2>1, RepliesAre
<1>3. /\ bp \in Tables /\ m_Breakpoints \in Seq(Bps) /\ driver.m_DCmds \in Seq(Queueable)
      /\ Range(m_Breakpoints) \in SUBSET Bps
  <2>1. bp \in Tables /\ m_Breakpoints \in Seq(Bps) /\ driver.m_DCmds \in Seq(Queueable)
    BY DEF IInv, Types, Tables, Lists, Drivers
  <2> QED
    BY <2>1 DEF Range
<1>4. PICK text \in {"stopped", "exited", "killed"} : Answers(gdb, c, text, 0)
  BY DEF ProgramStops, ProgramSignalled
<1>5. /\ gdb'.state = "prompt" /\ gdb'.next = gdb.next
      /\ \/ gdb'.bps = gdb.bps
         \/ \E n \in DOMAIN gdb.bps : gdb.bps[n].temp /\ gdb'.bps = Without(gdb.bps, n)
  <2>1. \/ gdb' = [gdb EXCEPT !.state = "prompt"]
        \/ \E n \in DOMAIN gdb.bps :
                gdb.bps[n].temp /\ gdb' = [gdb EXCEPT !.state = "prompt", !.bps = Without(gdb.bps, n)]
        \/ gdb' = [gdb EXCEPT !.state = "prompt", !.signal = FALSE]
    BY DEF ProgramStops, ProgramSignalled
  <2>2. CASE gdb' = [gdb EXCEPT !.state = "prompt"]
    BY <1>1, <2>2 DEF IsGdb
  <2>3. CASE \E n \in DOMAIN gdb.bps :
                gdb.bps[n].temp /\ gdb' = [gdb EXCEPT !.state = "prompt", !.bps = Without(gdb.bps, n)]
    <3>1. PICK n \in DOMAIN gdb.bps :
                gdb.bps[n].temp /\ gdb' = [gdb EXCEPT !.state = "prompt", !.bps = Without(gdb.bps, n)]
      BY <2>3
    <3>2. gdb'.state = "prompt" /\ gdb'.next = gdb.next /\ gdb'.bps = Without(gdb.bps, n)
      BY <1>1, <3>1 DEF IsGdb
    <3> QED
      BY <3>1, <3>2
  <2>4. CASE gdb' = [gdb EXCEPT !.state = "prompt", !.signal = FALSE]
    BY <1>1, <2>4 DEF IsGdb
  <2> QED
    BY <2>1, <2>2, <2>3, <2>4
<1> HIDE DEF c
<1>6. ASSUME Live
      PROVE  /\ gdb.trusted /\ c.kind \in Resuming
             /\ gdb'.bps \in [DOMAIN gdb'.bps -> Entries]
             /\ Fits(bp, Asks(driver.m_DCmds), gdb', {}, Range(m_Breakpoints))
  <2>1. /\ gdb.bps \in [DOMAIN gdb.bps -> Entries] /\ c.kind \in Resuming
        /\ Fits(bp, Asks(driver.m_DCmds), gdb, {}, Range(m_Breakpoints))
    BY <1>1, <1>2, <1>6 DEF BpInv, Lives, Live, c
  <2>2. gdb.trusted
    <3> SUFFICES ASSUME ~gdb.trusted PROVE FALSE
      OBVIOUS
    <3>1. driver.stdin = <<Plain("prompt")>>
      BY <1>6, OrdinaryIs DEF IInv, Owed, PromptFirst, Live
    <3> QED
      BY <1>2, <3>1
  <2>3. CASE gdb'.bps = gdb.bps
    BY <1>5, <2>1, <2>2, <2>3, FitsSame
  <2>4. CASE \E n \in DOMAIN gdb.bps : gdb.bps[n].temp /\ gdb'.bps = Without(gdb.bps, n)
    <3>1. PICK n \in DOMAIN gdb.bps : gdb.bps[n].temp /\ gdb'.bps = Without(gdb.bps, n)
      BY <2>4
    <3>2. Asks(driver.m_DCmds) \in SUBSET Queueable
      BY <1>3, WantsTyped
    <3>3. Fits(bp, Asks(driver.m_DCmds), gdb', {}, Range(m_Breakpoints))
      BY <1>3, <1>5, <2>1, <3>1, <3>2, FitsWithout
    <3>4. gdb'.bps \in [DOMAIN gdb'.bps -> Entries]
      BY <2>1, <3>1 DEF Without
    <3> QED
      BY <2>1, <2>2, <3>3, <3>4
  <2> QED
    BY <1>5, <2>3, <2>4
<1>7. c.kind \notin Setting \/ ~Live
  BY <1>6 DEF Setting, Resuming
<1>8. CASE Live
  <2>1. c.kind \notin Setting \cup {"output", "delete", "condition", "ignore"}
    BY <1>6, <1>8 DEF Setting, Resuming
  <2>2. AnswerFits(Answer(c, text, 0), gdb')
    BY <2>1 DEF AnswerFits, Answer
  <2>3. text \in Texts /\ text # "unknown"
    BY <1>4 DEF Texts
  <2> QED
    BY <1>1, <1>2, <1>4, <1>5, <1>6, <2>1, <2>2, <2>3, DoneGiven
<1>9. CASE ~Live
  <2>1. ~Live'
    BY <1>1, <1>5, <1>9 DEF Live
  <2>2. ~(driver.up /\ driver.open /\ starting)
    BY <1>2 DEF BpInv, Starts
  <2>3. BpInv'
    BY <1>1, <1>5, <2>1, <2>2 DEF BpInv, Plainly, Starts, Dies, Lives, Live
  <2>4. Send
    <3>1. ~(Len(driver'.stdin) > Len(driver.stdin))
      BY <1>1, <1>2
    <3> QED
      BY <3>1 DEF Send
  <2> QED
    BY <2>3, <2>4 DEF Goal
<1> QED
  BY <1>8, <1>9

(* GDB ends, at the end of its input or at the start.                       *)
LEMMA GdbEndFits ==
  ASSUME IInv, IInv', BpInv, Ordinary, GdbEndOfInput \/ GdbFailsToStart
  PROVE  Goal
<1>1. /\ gdb' = [gdb EXCEPT !.state = "dead"] /\ (~driver.open \/ starting)
      /\ UNCHANGED <<m_Breakpoints, bp, driver, m_pProcess, starting, events>>
  BY DEF GdbEndOfInput, GdbFailsToStart
<1>2. gdb'.state = "dead"
  <2>1. IsGdb(gdb)
    BY DEF IInv, Types
  <2> QED
    BY <1>1, <2>1 DEF IsGdb
<1>3. BpInv'
  BY <1>1, <1>2 DEF BpInv, Plainly, Starts, Dies, Lives
<1>4. Send
  <2>1. driver.stdin \in Seq(Queueable)
    BY DEF IInv, Types, Drivers
  <2>2. ~(Len(driver'.stdin) > Len(driver.stdin))
    BY <1>1, <2>1
  <2> QED
    BY <2>2 DEF Send
<1> QED
  BY <1>3, <1>4 DEF Goal

(* The answers that are posted stay when another event is posted or taken.  *)
LEMMA RepliesStay ==
  ASSUME IInv, (NextEvent /\ Head(events).kind # "answer") \/ events' = Append(events, [kind |-> "terminated"])
  PROVE  Replies' = Replies /\ Got' = Got
<1>1. CASE NextEvent /\ Head(events).kind # "answer"
  <2>1. /\ events # <<>> /\ Head(events) = events[1] /\ 1 \in DOMAIN events
        /\ DOMAIN events' = 1..(Len(events) - 1) /\ Len(events) \in Nat /\ events \in Seq(Posted)
        /\ \A i \in DOMAIN events' : events'[i] = events[i + 1] /\ i + 1 \in DOMAIN events /\ i + 1 # 1
    BY <1>1, TailEvents DEF IInv, Types
  <2>2. \A i \in AnswerAt : i # 1 /\ i - 1 \in DOMAIN events' /\ events'[i - 1] = events[i]
    <3> SUFFICES ASSUME NEW i \in AnswerAt PROVE i # 1 /\ i - 1 \in DOMAIN events' /\ events'[i - 1] = events[i]
      OBVIOUS
    <3>1. i \in DOMAIN events /\ i # 1 /\ DOMAIN events = 1..Len(events)
      BY <1>1, <2>1 DEF AnswerAt
    <3>2. i - 1 \in DOMAIN events' /\ (i - 1) + 1 = i
      <4>1. i \in 1..Len(events) /\ i # 1 /\ Len(events) \in Nat
        BY <2>1, <3>1
      <4>2. i - 1 \in 1..(Len(events) - 1) /\ (i - 1) + 1 = i
        BY <4>1
      <4> QED
        BY <2>1, <4>2
    <3> QED
      BY <2>1, <3>1, <3>2
  <2>3. ASSUME NEW a \in Replies PROVE a \in Replies'
    BY <2>2 DEF Replies, AnswerAt
  <2>4. ASSUME NEW a \in Replies' PROVE a \in Replies
    BY <2>1 DEF Replies, AnswerAt
  <2>5. Replies' = Replies
    BY <2>3, <2>4
  <2> QED
    BY <2>5 DEF Got
<1>2. CASE events' = Append(events, [kind |-> "terminated"])
  <2> DEFINE e == [kind |-> "terminated"]
  <2>1. e \in Posted /\ e.kind = "terminated" /\ events \in Seq(Posted)
    BY DEF Posted, IInv, Types
  <2> HIDE DEF e
  <2>2. events' = Append(events, e)
    BY <1>2 DEF e
  <2>3. AnswerAt' = AnswerAt /\ \A i \in AnswerAt : events'[i] = events[i]
    <3>1. AnswerAt' = AnswerAt
      BY <2>1, <2>2, AppendEvents DEF IInv
    <3>2. \A i \in AnswerAt : events'[i] = events[i]
      BY <2>1, <2>2 DEF AnswerAt
    <3> QED
      BY <3>1, <3>2
  <2>4. Replies' = Replies
    BY <2>3 DEF Replies
  <2> QED
    BY <2>4 DEF Got
<1> QED
  BY <1>1, <1>2

(* What leaves the breakpoints and the queue as they are.                   *)
LEMMA IdleFits ==
  ASSUME IInv, BpInv, UNCHANGED <<m_Breakpoints, bp, starting, gdb>>, Replies' = Replies, Got' = Got,
         driver'.up = driver.up, driver'.open = driver.open, driver'.stdin = driver.stdin,
         driver'.m_DCmds = driver.m_DCmds, driver'.m_QueueBusy = driver.m_QueueBusy
  PROVE  Goal
<1>1. Plainly' /\ Starts' /\ Dies' /\ Lives'
  BY DEF BpInv, Plainly, Starts, Dies, Lives
<1>2. Send
  <2>1. driver.stdin \in Seq(Queueable)
    BY DEF IInv, Types, Drivers
  <2>2. ~(Len(driver'.stdin) > Len(driver.stdin))
    BY <2>1
  <2> QED
    BY <2>2 DEF Send
<1> QED
  BY <1>1, <1>2 DEF Goal, BpInv

(* The line that names the child, and the end of the process.               *)
LEMMA OtherFits ==
  ASSUME IInv, IInv', BpInv, Ordinary, ParsePid \/ OnGDBTerminated \/ ProcessTerminates \/ UNCHANGED vars
  PROVE  Goal
<1>0. driver \in Drivers /\ driver.stdin \in Seq(Queueable)
  BY DEF IInv, Types, Drivers
<1>1. CASE ParsePid
  <2>1. /\ NextEvent /\ Head(events).kind = "pid" /\ driver' = [driver EXCEPT !.m_ChildPID = driver.up]
        /\ UNCHANGED <<m_Breakpoints, bp, starting, gdb>>
    BY <1>1 DEF ParsePid
  <2>2. Replies' = Replies /\ Got' = Got
    BY <2>1, RepliesStay
  <2>3. /\ driver'.up = driver.up /\ driver'.open = driver.open /\ driver'.stdin = driver.stdin
        /\ driver'.m_DCmds = driver.m_DCmds /\ driver'.m_QueueBusy = driver.m_QueueBusy
    BY <1>0, <2>1 DEF Drivers
  <2> QED
    BY <2>1, <2>2, <2>3, IdleFits
<1>2. CASE OnGDBTerminated
  <2>1. driver' = NoDriver /\ UNCHANGED <<bp, starting, gdb>>
    BY <1>2 DEF OnGDBTerminated
  <2>2. ~driver'.up /\ driver'.stdin = <<>>
    BY <2>1 DEF NoDriver
  <2>3. BpInv'
    BY <2>1, <2>2 DEF BpInv, Plainly, Starts, Dies, Lives
  <2>4. Send
    <3>1. ~(Len(driver'.stdin) > Len(driver.stdin))
      BY <1>0, <2>2
    <3> QED
      BY <3>1 DEF Send
  <2> QED
    BY <2>3, <2>4 DEF Goal
<1>3. CASE ProcessTerminates
  <2>1. events' = Append(events, [kind |-> "terminated"]) /\ UNCHANGED <<m_Breakpoints, bp, driver, starting, gdb>>
    BY <1>3 DEF ProcessTerminates
  <2>2. Replies' = Replies /\ Got' = Got
    BY <2>1, RepliesStay
  <2> QED
    BY <2>1, <2>2, IdleFits
<1>4. CASE UNCHANGED vars
  <2>1. events' = events /\ UNCHANGED <<m_Breakpoints, bp, driver, starting, gdb>>
    BY <1>4 DEF vars
  <2>2. Replies' = Replies /\ Got' = Got
    BY <2>1 DEF Replies, AnswerAt, Got
  <2> QED
    BY <2>1, <2>2, IdleFits
<1> QED
  BY <1>1, <1>2, <1>3, <1>4
-----------------------------------------------------------------------------
(* The steps: the answers.                                                  *)

(* The queue without its first command.                                     *)
LEMMA TailQueue ==
  ASSUME NEW q \in Seq(Queueable), q # <<>>, Unique(q), Ordered(q)
  PROVE  LET r == Tail(q)
             c == Head(q)
         IN  /\ r \in Seq(Queueable) /\ c \in Queueable /\ Asks(q) = Added(Asks(r), c)
             /\ Unique(r) /\ Strict(r)
             /\ \A x \in Asks(r) : x.kind \in Adds /\ c.kind \in Adds => x.bp # c.bp
<1> DEFINE r == Tail(q)
           c == Head(q)
           n == Len(q)
<1>1. /\ n \in Nat /\ n # 0 /\ DOMAIN q = 1..n /\ DOMAIN r = 1..(n - 1) /\ r \in Seq(Queueable)
      /\ c = q[1] /\ c \in Queueable
      /\ \A i \in 1..(n - 1) : r[i] = q[i + 1]
  OBVIOUS
<1>2. \A i \in 1..(n - 1) : i + 1 \in 1..n /\ i + 1 # 1
  BY <1>1
<1>3. \A i \in 1..n : i = 1 \/ \E j \in 1..(n - 1) : i = j + 1
  <2> SUFFICES ASSUME NEW i \in 1..n, i # 1 PROVE \E j \in 1..(n - 1) : i = j + 1
    OBVIOUS
  <2>1. i - 1 \in 1..(n - 1) /\ i = (i - 1) + 1
    BY <1>1
  <2> QED
    BY <2>1
<1>4. 1 \in 1..n
  BY <1>1
<1>a. \A i, j \in 1..(n - 1) : (i < j => i + 1 < j + 1) /\ (i + 1 = j + 1 => i = j)
  BY <1>1
<1> HIDE DEF r, c, n
<1>5. Asks(q) = Added(Asks(r), c)
  <2>1. ASSUME NEW x \in Asks(q) PROVE x \in Added(Asks(r), c)
    <3>1. PICK i \in 1..n : q[i] = x /\ x.kind \in Work
      BY <1>1 DEF Asks
    <3>2. CASE i = 1
      BY <1>1, <3>1, <3>2 DEF Added
    <3>3. CASE i # 1
      <4>1. PICK j \in 1..(n - 1) : i = j + 1
        BY <1>3, <3>3
      <4> QED
        BY <1>1, <3>1, <4>1 DEF Asks, Added
    <3> QED
      BY <3>2, <3>3
  <2>2. ASSUME NEW x \in Added(Asks(r), c) PROVE x \in Asks(q)
    <3>1. CASE x \in Asks(r)
      <4>1. PICK j \in 1..(n - 1) : r[j] = x /\ x.kind \in Work
        BY <1>1, <3>1 DEF Asks
      <4> QED
        BY <1>1, <1>2, <4>1 DEF Asks
    <3>2. CASE x = c /\ c.kind \in Work
      BY <1>1, <1>4, <3>2 DEF Asks
    <3> QED
      BY <3>1, <3>2 DEF Added
  <2> QED
    BY <2>1, <2>2
<1>6. Unique(r)
  <2> SUFFICES ASSUME NEW i \in 1..(n - 1), NEW j \in 1..(n - 1),
                      r[i].kind \in Adds, r[j].kind \in Adds, r[i].bp = r[j].bp
               PROVE  i = j
    BY <1>1 DEF Unique
  <2>1. i + 1 = j + 1
    BY <1>1, <1>2 DEF Unique
  <2> QED
    BY <1>a, <2>1
<1>7. Strict(r)
  <2> SUFFICES ASSUME NEW i \in 1..(n - 1), NEW j \in 1..(n - 1), i < j, r[i].kind \in Resuming
               PROVE  r[j].kind \notin Work
    BY <1>1 DEF Strict
  <2>1. i + 1 < j + 1 /\ r[i] = q[i + 1] /\ r[j] = q[j + 1]
    BY <1>1, <1>a
  <2> QED
    BY <1>1, <1>2, <2>1 DEF Ordered
<1>8. \A x \in Asks(r) : x.kind \in Adds /\ c.kind \in Adds => x.bp # c.bp
  <2> SUFFICES ASSUME NEW x \in Asks(r), x.kind \in Adds, c.kind \in Adds, x.bp = c.bp PROVE FALSE
    OBVIOUS
  <2>1. PICK j \in 1..(n - 1) : r[j] = x
    BY <1>1 DEF Asks
  <2>2. j + 1 = 1
    BY <1>1, <1>2, <1>4, <2>1 DEF Unique
  <2> QED
    BY <1>2, <2>2
<1> QED
  BY <1>1, <1>5, <1>6, <1>7, <1>8 DEF r, c

(* A command in front of a queue.                                           *)
LEMMA FrontQueue ==
  ASSUME NEW q \in Seq(Queueable), Unique(q), Strict(q), NEW w \in Queueable, w.kind \notin Resuming,
         w.kind \in Adds => Settled(Asks(q), w.bp)
  PROVE  LET r == <<w>> \o q
         IN  r \in Seq(Queueable) /\ r # <<>> /\ r[1] = w /\ Asks(r) = Added(Asks(q), w) /\ Unique(r) /\ Strict(r)
<1> DEFINE r == <<w>> \o q
           n == Len(q)
<1>1. /\ n \in Nat /\ DOMAIN q = 1..n /\ r \in Seq(Queueable)
  OBVIOUS
<1>2. Len(r) = n + 1 /\ DOMAIN r = 1..(n + 1) /\ r[1] = w /\ \A i \in 1..n : r[i + 1] = q[i]
  OBVIOUS
<1>3. r # <<>>
  BY <1>1, <1>2
<1>4. \A i \in 1..(n + 1) : i = 1 \/ \E j \in 1..n : i = j + 1
  <2> SUFFICES ASSUME NEW i \in 1..(n + 1), i # 1 PROVE \E j \in 1..n : i = j + 1
    OBVIOUS
  <2>1. i - 1 \in 1..n /\ i = (i - 1) + 1
    BY <1>1
  <2> QED
    BY <2>1
<1>5. 1 \in 1..(n + 1) /\ \A j \in 1..n : j + 1 \in 1..(n + 1) /\ j + 1 # 1 /\ ~(j + 1 < 1)
  BY <1>1
<1>6. \A i, j \in 1..n : (i + 1 < j + 1 => i < j)
  BY <1>1
<1> HIDE DEF r, n
<1>7. Asks(r) = Added(Asks(q), w)
  <2>1. ASSUME NEW x \in Asks(r) PROVE x \in Added(Asks(q), w)
    <3>1. PICK i \in 1..(n + 1) : r[i] = x /\ x.kind \in Work
      BY <1>2 DEF Asks
    <3>2. CASE i = 1
      BY <1>2, <3>1, <3>2 DEF Added
    <3>3. CASE i # 1
      <4>1. PICK j \in 1..n : i = j + 1
        BY <1>4, <3>3
      <4> QED
        BY <1>1, <1>2, <3>1, <4>1 DEF Asks, Added
    <3> QED
      BY <3>2, <3>3
  <2>2. ASSUME NEW x \in Added(Asks(q), w) PROVE x \in Asks(r)
    <3>1. CASE x \in Asks(q)
      <4>1. PICK j \in 1..n : q[j] = x /\ x.kind \in Work
        BY <1>1, <3>1 DEF Asks
      <4> QED
        BY <1>2, <1>5, <4>1 DEF Asks
    <3>2. CASE x = w /\ w.kind \in Work
      BY <1>2, <1>5, <3>2 DEF Asks
    <3> QED
      BY <3>1, <3>2 DEF Added
  <2> QED
    BY <2>1, <2>2
<1>8. Unique(r)
  <2>1. \A j \in 1..n : w.kind \in Adds /\ q[j].kind \in Adds => q[j].bp # w.bp
    BY <1>1, KindsDiffer DEF Asks, Settled
  <2> SUFFICES ASSUME NEW i \in 1..(n + 1), NEW j \in 1..(n + 1),
                      r[i].kind \in Adds, r[j].kind \in Adds, r[i].bp = r[j].bp
               PROVE  i = j
    BY <1>2 DEF Unique
  <2>2. CASE i = 1 /\ j = 1
    BY <2>2
  <2>3. CASE i = 1 /\ j # 1
    <3>1. PICK k \in 1..n : j = k + 1
      BY <1>4, <2>3
    <3> QED
      BY <1>2, <2>1, <2>3, <3>1
  <2>4. CASE i # 1 /\ j = 1
    <3>1. PICK k \in 1..n : i = k + 1
      BY <1>4, <2>4
    <3> QED
      BY <1>2, <2>1, <2>4, <3>1
  <2>5. CASE i # 1 /\ j # 1
    <3>1. PICK k \in 1..n : i = k + 1
      BY <1>4, <2>5
    <3>2. PICK l \in 1..n : j = l + 1
      BY <1>4, <2>5
    <3>3. k = l
      BY <1>1, <1>2, <3>1, <3>2 DEF Unique
    <3> QED
      BY <3>1, <3>2, <3>3
  <2> QED
    BY <2>2, <2>3, <2>4, <2>5
<1>9. Strict(r)
  <2> SUFFICES ASSUME NEW i \in 1..(n + 1), NEW j \in 1..(n + 1), i < j, r[i].kind \in Resuming
               PROVE  r[j].kind \notin Work
    BY <1>2 DEF Strict
  <2>1. i # 1
    BY <1>2
  <2>2. PICK k \in 1..n : i = k + 1
    BY <1>4, <2>1
  <2>3. j # 1
    BY <1>5, <2>2
  <2>4. PICK l \in 1..n : j = l + 1
    BY <1>4, <2>3
  <2>5. k < l
    BY <1>6, <2>2, <2>4
  <2> QED
    BY <1>1, <1>2, <2>2, <2>4, <2>5 DEF Strict
<1> QED
  BY <1>1, <1>2, <1>3, <1>7, <1>8, <1>9 DEF r

(* What RunQueue drops asks nothing.                                        *)
LEMMA PendingQueue ==
  ASSUME NEW q \in Seq(Queueable), Unique(q), Strict(q)
  PROVE  LET r == Pending(q)
         IN  r \in Seq(Queueable) /\ Asks(r) = Asks(q) /\ Unique(r) /\ Strict(r)
<1> DEFINE sendable == {i \in DOMAIN q : q[i].kind \notin Empty}
           first == CHOOSE i \in sendable : \A j \in sendable : i <= j
           r == Pending(q)
           n == Len(q)
<1>0. r \in Seq(Queueable)
  BY PendingTyped
<1>1. CASE sendable = {}
  <2>1. r = <<>>
    BY <1>1 DEF Pending
  <2>2. \A i \in DOMAIN q : q[i].kind \notin Work
    BY <1>1, KindsDiffer
  <2>3. Asks(q) = {}
    BY <2>2 DEF Asks
  <2>4. Asks(<<>>) = {} /\ Unique(<<>>) /\ Strict(<<>>)
    BY ShortQueues DEF Queued
  <2> QED
    BY <1>0, <2>1, <2>3, <2>4
<1>2. CASE sendable # {}
  <2>1. \E i \in sendable : \A j \in sendable : i <= j
    <3>1. sendable \in SUBSET Nat
      OBVIOUS
    <3> QED
      BY <1>2, <3>1, Low!Least
  <2>2. first \in sendable /\ \A j \in sendable : first <= j
    BY <2>1
  <2>3. r = SubSeq(q, first, n)
    BY <1>2 DEF Pending
  <2> HIDE DEF first, r
  <2>4. first \in 1..n /\ n \in Nat /\ DOMAIN q = 1..n
    BY <2>2
  <2>5. /\ DOMAIN r = 1..(n + 1 - first)
        /\ \A i \in 1..(n + 1 - first) : r[i] = q[first - 1 + i]
    <3>1. Len(SubSeq(q, first, n)) = n + 1 - first
      BY <2>4
    <3>2. \A i \in 1..(n + 1 - first) : SubSeq(q, first, n)[i] = q[first - 1 + i]
      BY <2>4
    <3> QED
      BY <1>0, <2>3, <3>1, <3>2
  <2>6. \A i \in 1..n : i < first => q[i].kind \notin Work
    <3> SUFFICES ASSUME NEW i \in 1..n, i < first, q[i].kind \in Work PROVE FALSE
      OBVIOUS
    <3>1. i \in sendable
      BY <2>4, KindsDiffer
    <3>2. first <= i
      BY <2>2, <3>1
    <3> QED
      BY <2>4, <3>2
  <2> HIDE DEF n, sendable
  <2>7. \A i \in 1..(n + 1 - first) : first - 1 + i \in 1..n
    BY <2>4
  <2>8. \A i \in 1..n : i < first \/ \E j \in 1..(n + 1 - first) : i = first - 1 + j
    <3> SUFFICES ASSUME NEW i \in 1..n, ~(i < first) PROVE \E j \in 1..(n + 1 - first) : i = first - 1 + j
      OBVIOUS
    <3>1. i - first + 1 \in 1..(n + 1 - first) /\ i = first - 1 + (i - first + 1)
      BY <2>4
    <3> QED
      BY <3>1
  <2>a. \A i, j \in 1..(n + 1 - first) :
            /\ i < j => first - 1 + i < first - 1 + j
            /\ first - 1 + i = first - 1 + j => i = j
    BY <2>4
  <2>9. Asks(r) = Asks(q)
    <3>1. ASSUME NEW x \in Asks(q) PROVE x \in Asks(r)
      <4>1. PICK i \in 1..n : q[i] = x /\ x.kind \in Work
        BY <2>4 DEF Asks
      <4>2. PICK j \in 1..(n + 1 - first) : i = first - 1 + j
        BY <2>6, <2>8, <4>1
      <4> QED
        BY <2>5, <4>1, <4>2 DEF Asks
    <3>2. ASSUME NEW x \in Asks(r) PROVE x \in Asks(q)
      <4>1. PICK j \in 1..(n + 1 - first) : r[j] = x /\ x.kind \in Work
        BY <2>5 DEF Asks
      <4> QED
        BY <2>4, <2>5, <2>7, <4>1 DEF Asks
    <3> QED
      BY <3>1, <3>2
  <2>10. Unique(r)
    <3> SUFFICES ASSUME NEW i \in 1..(n + 1 - first), NEW j \in 1..(n + 1 - first),
                        r[i].kind \in Adds, r[j].kind \in Adds, r[i].bp = r[j].bp
                 PROVE  i = j
      BY <2>5 DEF Unique
    <3>1. first - 1 + i \in DOMAIN q /\ first - 1 + j \in DOMAIN q
      BY <2>4, <2>7
    <3>2. r[i] = q[first - 1 + i] /\ r[j] = q[first - 1 + j]
      BY <2>5
    <3>3. first - 1 + i = first - 1 + j
      BY <3>1, <3>2 DEF Unique
    <3> QED
      BY <2>a, <3>3
  <2>11. Strict(r)
    <3> SUFFICES ASSUME NEW i \in 1..(n + 1 - first), NEW j \in 1..(n + 1 - first), i < j, r[i].kind \in Resuming
                 PROVE  r[j].kind \notin Work
      BY <2>5 DEF Strict
    <3>1. first - 1 + i \in DOMAIN q /\ first - 1 + j \in DOMAIN q
      BY <2>4, <2>7
    <3>2. r[i] = q[first - 1 + i] /\ r[j] = q[first - 1 + j]
      BY <2>5
    <3>3. first - 1 + i < first - 1 + j
      BY <2>a
    <3> QED
      BY <3>1, <3>2, <3>3 DEF Strict
  <2> QED
    BY <1>0, <2>9, <2>10, <2>11 DEF r
<1> QED
  BY <1>1, <1>2

(* What RunQueue makes of the queue of an idle driver.                      *)
LEMMA RunCmds ==
  ASSUME NEW f \in Drivers, ~f.m_QueueBusy
  PROVE  RunQueue(f).m_DCmds = Pending(f.m_DCmds)
<1> DEFINE rest == Pending(f.m_DCmds)
           g == [f EXCEPT !.m_DCmds = rest]
           h == [g EXCEPT !.m_QueueBusy = TRUE]
<1>0. rest \in Seq(Queueable) /\ g \in Drivers /\ g.m_DCmds = rest /\ h \in Drivers /\ h.m_DCmds = rest
  <2>1. rest \in Seq(Queueable)
    BY PendingTyped DEF Drivers
  <2> HIDE DEF rest
  <2> QED
    BY <2>1 DEF Drivers
<1> HIDE DEF g, h
<1>1. CASE f.m_DCmds = <<>>
  <2>1. Pending(<<>>) = <<>>
    BY DEF Pending
  <2> QED
    BY <1>1, <2>1 DEF RunQueue
<1>2. CASE f.m_DCmds # <<>> /\ rest = <<>>
  <2>1. RunQueue(f) = g
    BY <1>2 DEF RunQueue, g
  <2> QED
    BY <1>0, <2>1
<1>3. CASE f.m_DCmds # <<>> /\ rest # <<>>
  <2> DEFINE k == SendCommand(h, Head(rest))
  <2>1. RunQueue(f) = [k EXCEPT !.m_ProgramIsStopped = FALSE]
    BY <1>3 DEF RunQueue, g, h
  <2>2. k.m_DCmds = rest /\ DOMAIN k = DOMAIN h
    <3> HIDE DEF rest
    <3> QED
      BY <1>0 DEF SendCommand, Drivers
  <2> HIDE DEF k, rest
  <2>3. RunQueue(f).m_DCmds = k.m_DCmds
    BY <2>1
  <2> QED
    BY <2>2, <2>3 DEF rest
<1> QED
  BY <1>1, <1>2, <1>3

(* A command that has a text, in front of the queue of an idle driver.      *)
LEMMA HighCmds ==
  ASSUME NEW d \in Drivers, Ready(d), d.up = TRUE, ~d.m_QueueBusy, NEW w \in Queueable, w.kind \notin Empty
  PROVE  LET e == QueueHigh(d, w)
         IN  e.m_DCmds = Pending(<<w>> \o d.m_DCmds) /\ RunQueue(e) = e
<1> DEFINE q == <<w>> \o d.m_DCmds
           f == [d EXCEPT !.m_DCmds = q]
           e == QueueHigh(d, w)
<1>1. q \in Seq(Queueable) /\ q # <<>> /\ q[1] = w
  <2>1. d.m_DCmds \in Seq(Queueable)
    BY DEF Drivers
  <2>2. \A s \in Seq(Queueable) : <<w>> \o s \in Seq(Queueable) /\ (<<w>> \o s)[1] = w /\ Len(<<w>> \o s) = Len(s) + 1
    OBVIOUS
  <2>3. \A s \in Seq(Queueable) : <<w>> \o s # <<>>
    <3> SUFFICES ASSUME NEW s \in Seq(Queueable), <<w>> \o s = <<>> PROVE FALSE
      OBVIOUS
    <3>1. Len(s) \in Nat /\ Len(s) + 1 = 0
      BY <2>2
    <3> QED
      BY <3>1
  <2> QED
    BY <2>1, <2>2, <2>3
<1>2. e = RunQueue(f)
  BY DEF QueueHigh
<1> HIDE DEF q, e
<1>3. /\ f \in Drivers /\ f.m_DCmds = q /\ f.m_QueueBusy = FALSE /\ f.up = TRUE /\ f.stdin = d.stdin
      /\ f.m_ProgramIsStopped = d.m_ProgramIsStopped
  BY <1>1 DEF Drivers
<1> HIDE DEF f
<1>4. Ready(f)
  BY <1>3 DEF Ready
<1>5. e.m_DCmds = Pending(q)
  BY <1>2, <1>3, RunCmds
<1>6. e.m_QueueBusy /\ Ready(e) /\ e.up = TRUE
  BY <1>1, <1>2, <1>3, <1>4, RunQueueReady
<1>7. RunQueue(e) = e
  BY <1>6, RunQueueReady
<1> QED
  BY <1>5, <1>7 DEF q, e

(* The breakpoints fit when the rest of the queue goes on.                  *)
Left(s) == \E r \in Seq(Queueable) :
    /\ Unique(r) /\ Strict(r) /\ RunQueue(s.d).m_DCmds = Pending(r)
    /\ Fits(s.bp, Asks(r), gdb, {}, Range(m_Breakpoints))

(* The answer asks for no more.                                             *)
LEMMA LeftAlone ==
  ASSUME NEW d, NEW s \in Parsers(d), ~s.d.m_QueueBusy, Unique(s.d.m_DCmds), Strict(s.d.m_DCmds),
         Fits(s.bp, Asks(s.d.m_DCmds), gdb, {}, Range(m_Breakpoints))
  PROVE  Left(s)
<1>1. s.d \in Drivers /\ s.d.m_DCmds \in Seq(Queueable)
  BY ParsersSet DEF Drivers
<1>2. RunQueue(s.d).m_DCmds = Pending(s.d.m_DCmds)
  BY <1>1, RunCmds
<1> QED
  BY <1>1, <1>2 DEF Left

(* The answer asks for w.                                                   *)
LEMMA LeftFront ==
  ASSUME NEW d, d.up = TRUE, NEW s \in Parsers(d), ~s.d.m_QueueBusy, Unique(s.d.m_DCmds), Strict(s.d.m_DCmds),
         NEW w \in Queueable, w.kind \notin Empty, w.kind \notin Resuming,
         w.kind \in Adds => Settled(Asks(s.d.m_DCmds), w.bp),
         Fits(s.bp, Added(Asks(s.d.m_DCmds), w), gdb, {}, Range(m_Breakpoints))
  PROVE  Left([s EXCEPT !.d = QueueHigh(@, w)])
<1> DEFINE q == s.d.m_DCmds
           r == <<w>> \o q
           e == QueueHigh(s.d, w)
           p == [s EXCEPT !.d = e]
<1>1. s.d \in Drivers /\ q \in Seq(Queueable) /\ Ready(s.d) /\ s.d.up = TRUE
  BY ParsersSet DEF Drivers
<1>2. e.m_DCmds = Pending(r) /\ RunQueue(e) = e
  BY <1>1, HighCmds
<1>3. r \in Seq(Queueable) /\ Asks(r) = Added(Asks(q), w) /\ Unique(r) /\ Strict(r)
  BY <1>1, FrontQueue
<1> HIDE DEF r, e
<1>4. p.d = e /\ p.bp = s.bp
  BY DEF Parsers
<1> HIDE DEF p
<1>5. Left(p)
  BY <1>2, <1>3, <1>4 DEF Left
<1> QED
  BY <1>5 DEF p, e

(* Answers leave what the user has set.                                     *)
LEMMA ParseMarks ==
  ASSUME NEW d, NEW s \in Parsers(d), NEW c \in Queueable, NEW ans
  PROVE  Marked(s.bp, CmdParseOutput(c, ans, s).bp)
<1> DEFINE b == c.bp
           numbered == [s EXCEPT !.bp[b].index = ans.number]
           o == s.bp[b]
           f == [o EXCEPT !.index = -1, !.alreadySet = @ \/ s.bp[b].enabled]
<1>1. s.bp \in [Bps -> Fields] /\ (c.kind \in {"break", "tbreak", "watch", "output"} => b \in Bps)
  BY ParsersSet DEF Queueable
<1>2. \A x : [s EXCEPT !.d = x].bp = s.bp /\ [numbered EXCEPT !.d = x].bp = numbered.bp
  BY DEF Parsers
<1>3. c.kind \in {"break", "tbreak", "watch"} => Marked(s.bp, numbered.bp)
  BY <1>1 DEF Marked, Parsers, Fields
<1>4. SetOptions(numbered, b).bp = numbered.bp
  <2>1. DOMAIN numbered = {"list", "bp", "d"}
    BY DEF Parsers
  <2> HIDE DEF numbered
  <2>2. \A x : [numbered EXCEPT !.d = x].bp = numbered.bp /\ DOMAIN [numbered EXCEPT !.d = x] = {"list", "bp", "d"}
    BY <2>1
  <2>3. \A x, y : [[numbered EXCEPT !.d = x] EXCEPT !.d = y].bp = numbered.bp
    BY <2>1
  <2> QED
    BY <2>2, <2>3 DEF SetOptions
<1>5. c.kind = "output" => Marked(s.bp, AddCommand(s, b, QueueHigh).bp)
  <2> SUFFICES ASSUME b \in Bps PROVE Marked(s.bp, AddCommand(s, b, QueueHigh).bp)
    BY <1>1
  <2>1. AddCommand(s, b, QueueHigh).bp = [s.bp EXCEPT ![b] = [o EXCEPT !.index = -1, !.alreadySet = @ \/ o.enabled]]
    BY <1>1 DEF AddCommand, Parsers
  <2>2. o \in Fields
    BY <1>1
  <2> QED
    BY <1>1, <2>1, <2>2 DEF Marked, Fields
<1>6. Marked(s.bp, s.bp)
  BY DEF Marked
<1> HIDE DEF numbered
<1>7. CASE c.kind \in {"break", "tbreak", "watch"} /\ ans.text = "breakpoint"
  <2>1. CmdParseOutput(c, ans, s) = SetOptions(numbered, b)
    BY <1>7 DEF CmdParseOutput, numbered
  <2> QED
    BY <1>3, <1>4, <1>7, <2>1
<1>8. CASE c.kind \in {"break", "tbreak", "watch"} /\ ans.text = "watchpoint"
  <2>1. CmdParseOutput(c, ans, s) = numbered
    BY <1>8 DEF CmdParseOutput, numbered
  <2> QED
    BY <1>3, <1>8, <2>1
<1>9. CASE c.kind = "output" /\ ans.text = "address"
  <2>1. CmdParseOutput(c, ans, s) = AddCommand(s, c.bp, QueueHigh)
    BY <1>9 DEF CmdParseOutput
  <2> QED
    BY <1>5, <1>9, <2>1
<1>10. CASE /\ ~(c.kind \in {"break", "tbreak", "watch"} /\ ans.text = "breakpoint")
            /\ ~(c.kind \in {"break", "tbreak", "watch"} /\ ans.text = "watchpoint")
            /\ ~(c.kind = "output" /\ ans.text = "address")
  <2>1. \/ CmdParseOutput(c, ans, s) = s
        \/ \E x : CmdParseOutput(c, ans, s) = [s EXCEPT !.d = x]
    BY <1>10 DEF CmdParseOutput
  <2> QED
    BY <1>2, <1>6, <2>1
<1> QED
  BY <1>7, <1>8, <1>9, <1>10

(* A command that parses its answer leaves breakpoints that fit.            *)
LEMMA ParsedFits ==
  ASSUME IInv, BpInv, Ordinary, Live, driver.up = TRUE, driver.m_DCmds # <<>>,
         NEW c, c = Head(driver.m_DCmds), NEW ans \in Answered, ans \in Replies,
         NEW s \in Parsers(driver), ~s.d.m_QueueBusy, s.bp = bp, s.d.m_DCmds = Tail(driver.m_DCmds)
  PROVE  Left(CmdParseOutput(c, ans, s))
<1> DEFINE q == driver.m_DCmds
           rest == Tail(q)
           R == Asks(rest)
           A == Asks(q)
           on == Range(m_Breakpoints)
           b == c.bp
           n == ans.number
           o == bp[b]
<1>1. /\ q \in Seq(Queueable) /\ bp \in Tables /\ m_Breakpoints \in Seq(Bps)
      /\ Unique(q) /\ Ordered(q) /\ Fits(bp, A, gdb, Got, on) /\ AnswerFits(ans, gdb)
      /\ AreData(bp)
  BY DEF IInv, Types, Drivers, Tables, Lists, BpInv, Plainly, Lives, Live
<1>2. /\ rest \in Seq(Queueable) /\ c \in Queueable /\ A = Added(R, c) /\ Unique(rest) /\ Strict(rest)
      /\ \A x \in R : x.kind \in Adds /\ c.kind \in Adds => x.bp # b
  BY <1>1, TailQueue
<1>3. A \in SUBSET Queueable /\ R \in SUBSET Queueable /\ on \in SUBSET Bps
  <2>1. A \in SUBSET Queueable /\ R \in SUBSET Queueable
    BY <1>1, <1>2, WantsTyped
  <2> QED
    BY <1>1, <2>1 DEF Range
<1>4. Replies = {ans} /\ ans.to = c /\ Got = IF c.kind \in Setting THEN {n} ELSE {}
  <2>1. Replies = {ans} /\ ans.to = c
    BY RepliesAre
  <2> QED
    BY <2>1 DEF Got
<1>5. ans.text # "unknown" /\ n \in Int /\ (c.kind \in Adds => b \in Bps /\ o \in Fields)
  <2>1. ans.text # "unknown" /\ n \in Int
    BY OrdinaryIs DEF Answered
  <2> QED
    BY <1>1, <1>2, <2>1 DEF Queueable, Adds, Setting, Tables
<1>6. c.kind \in Adds => c \in A /\ AddFits(c, o) /\ (c.kind \in {"watch", "output"} <=> b \in DataBps)
  <2>1. c.kind \in Adds => c \in A /\ AddFits(c, o)
    BY <1>1, <1>2, KindsDiffer DEF Fits, AddsFit, Added
  <2> QED
    BY <2>1 DEF AddFits, Adds, Setting
<1> HIDE DEF A, R, on, b, n, o
<1>7. CASE c.kind \in Setting
  <2> DEFINE f == [o EXCEPT !.index = n]
             u == [bp EXCEPT ![b] = f]
             numbered == [s EXCEPT !.bp[b].index = n]
  <2>1. c.kind \in Adds /\ b \in Bps /\ o \in Fields /\ c \in A
    BY <1>5, <1>6, <1>7 DEF Adds
  <2>2. f \in Fields /\ o = bp[b] /\ f.index = n
    BY <1>5, <2>1, FieldsSet DEF o, Fields
  <2> HIDE DEF f
  <2>3. u \in Tables /\ u[b] = f /\ \A x \in Bps : x # b => u[x] = bp[x]
    BY <1>1, <2>1, <2>2 DEF Tables
  <2>4. /\ numbered \in Parsers(driver) /\ numbered.d = s.d /\ numbered.bp = u
        /\ numbered.bp[b] = f
    <3>1. numbered = [s EXCEPT !.bp[b] = f]
      BY <2>1, <2>2 DEF f, Parsers
    <3>2. numbered \in Parsers(driver)
      BY <2>1, <2>2, <3>1, ParsersSet
    <3>3. numbered.d = s.d /\ numbered.bp = u
      BY <3>1 DEF Parsers
    <3> QED
      BY <2>3, <3>2, <3>3
  <2> HIDE DEF u, numbered
  <2>5. /\ n \in DOMAIN gdb.bps /\ gdb.bps[n] = Made(c)
        /\ ans.text = IF c.kind = "watch" THEN "watchpoint" ELSE "breakpoint"
    BY <1>1, <1>4, <1>7 DEF AnswerFits, n
  <2>6. A = R \cup {c}
    BY <1>2, <2>1, KindsDiffer DEF Added, A, R
  <2>7. b \in DataBps => ~o.temporary /\ ~o.useCondition /\ ~o.useIgnoreCount
    BY <1>1, <2>2 DEF AreData
  <2>8. ASSUME NEW B \in SUBSET Queueable, R \subseteq B,
               \A x \in B \ R : \/ x.kind = "condition" /\ x.arg = n /\ o.useCondition
                                \/ x.kind = "ignore" /\ x.arg = n /\ o.useIgnoreCount,
               o.useCondition => Sends(B, "condition", n),
               o.useIgnoreCount => Sends(B, "ignore", n)
        PROVE  Fits(u, B, gdb, {}, on)
    <3>1. Fits(bp, A, gdb, Got, on) /\ Got = {n}
      BY <1>1, <1>4, <1>7 DEF A, on
    <3>10. PICK got : got = Got
      OBVIOUS
    <3>11. Fits(bp, A, gdb, got, on) /\ got = {n}
      BY <3>1, <3>10
    <3>2. \A x \in on \ {c.bp} : u[x] = bp[x]
      BY <1>3, <2>3 DEF b, on
    <3>3. /\ u[c.bp].index = n /\ u[c.bp].enabled = bp[c.bp].enabled /\ u[c.bp].line = bp[c.bp].line
          /\ u[c.bp].temporary = bp[c.bp].temporary /\ u[c.bp].useCondition = bp[c.bp].useCondition
          /\ u[c.bp].useIgnoreCount = bp[c.bp].useIgnoreCount
      BY <2>1, <2>2, <2>3 DEF b, f, Fields
    <3>4. R \in SUBSET A /\ (\A x \in R : x.kind \in Adds => x.bp # c.bp)
      BY <1>2, <2>1, <2>6 DEF b, R
    <3>5. c.bp \in DataBps => ~bp[c.bp].temporary
      BY <2>2, <2>7 DEF b
    <3>6. bp[c.bp] = o
      BY DEF o, b
    <3>7. A \in SUBSET Queueable /\ on \in SUBSET Bps
      BY <1>3 DEF A, on
    <3>8. /\ \A x \in B \ R : \/ x.kind = "condition" /\ x.arg = n /\ bp[c.bp].useCondition
                              \/ x.kind = "ignore" /\ x.arg = n /\ bp[c.bp].useIgnoreCount
          /\ bp[c.bp].useCondition => Sends(B, "condition", n)
          /\ bp[c.bp].useIgnoreCount => Sends(B, "ignore", n)
      BY <2>8, <3>6
    <3>9. /\ bp \in Tables /\ u \in Tables /\ A \in SUBSET Queueable /\ B \in SUBSET Queueable
          /\ on \in SUBSET Bps /\ c \in A /\ c.kind \in Setting /\ R \subseteq B /\ A = R \cup {c}
          /\ n \in DOMAIN gdb.bps /\ gdb.bps[n] = Made(c)
      BY <1>1, <1>7, <2>1, <2>3, <2>5, <2>6, <2>8, <3>7
    <3> HIDE DEF u
    <3>12. Learns(bp, u, A, B, R, gdb, got, on, c, n)
      BY <3>2, <3>3, <3>4, <3>5, <3>8, <3>9, <3>11 DEF Learns
    <3> QED
      BY <3>12, FitsNumbered
  <2>9. /\ f.useCondition = o.useCondition /\ f.useIgnoreCount = o.useIgnoreCount /\ f.index = n
        /\ ~(o.useCondition /\ o.useIgnoreCount) /\ o.useCondition \in BOOLEAN /\ o.useIgnoreCount \in BOOLEAN
    BY <2>1 DEF f, Fields
  <2>10. numbered.d.m_DCmds = rest /\ Asks(rest) = R /\ ~numbered.d.m_QueueBusy
    BY <2>4 DEF R
  <2>11. CASE ~o.useCondition /\ ~o.useIgnoreCount
    <3>1. CmdParseOutput(c, ans, s) = numbered
      <4>1. CASE c.kind = "watch"
        BY <2>5, <4>1 DEF CmdParseOutput, numbered, b, n
      <4>2. CASE c.kind # "watch"
        <5>1. c.kind \in {"break", "tbreak", "watch"} /\ ans.text = "breakpoint"
          BY <1>7, <2>5, <4>2 DEF Setting
        <5>2. CmdParseOutput(c, ans, s) = SetOptions(numbered, b)
          BY <5>1 DEF CmdParseOutput, numbered, b, n
        <5> QED
          BY <2>4, <2>9, <2>11, <5>2 DEF SetOptions
      <4> QED
        BY <4>1, <4>2
    <3>2. Fits(u, R, gdb, {}, on)
      BY <1>3, <2>8, <2>11 DEF R
    <3> QED
      BY <1>2, <2>4, <2>10, <3>1, <3>2, LeftAlone DEF on
  <2>12. CASE o.useCondition \/ o.useIgnoreCount
    <3> DEFINE k == IF o.useCondition THEN "condition" ELSE "ignore"
               w == Cmd(k, b, n)
    <3>1. c.kind # "watch" /\ c.kind \in {"break", "tbreak", "watch"} /\ ans.text = "breakpoint"
      BY <1>6, <1>7, <2>1, <2>5, <2>7, <2>12 DEF Setting
    <3>2. CmdParseOutput(c, ans, s) = SetOptions(numbered, b)
      BY <3>1 DEF CmdParseOutput, numbered, b, n
    <3>3. SetOptions(numbered, b) = [numbered EXCEPT !.d = QueueHigh(@, w)]
      <4>1. CASE o.useCondition
        BY <2>4, <2>9, <4>1 DEF SetOptions
      <4>2. CASE ~o.useCondition
        BY <2>4, <2>9, <2>12, <4>2 DEF SetOptions
      <4> QED
        BY <4>1, <4>2
    <3>4. /\ w \in Queueable /\ w.kind = k /\ w.arg = n /\ k \in {"condition", "ignore"}
          /\ k \notin Adds /\ k \in Work /\ k \notin Empty /\ k \notin Resuming
      <4>1. w \in Queueable
        BY <1>5, <2>1, CmdIsQueueable DEF Kinds
      <4> QED
        BY <4>1 DEF Cmd, Adds, Setting, Work, Empty, Resuming
    <3>a. (o.useCondition => k = "condition") /\ (o.useIgnoreCount => k = "ignore")
          /\ (k = "condition" => o.useCondition) /\ (k = "ignore" => o.useIgnoreCount)
      BY <2>9, <2>12
    <3> HIDE DEF w, k
    <3>5. Added(R, w) = R \cup {w}
      BY <3>4 DEF Added
    <3>6. Fits(u, R \cup {w}, gdb, {}, on)
      <4>1. R \cup {w} \in SUBSET Queueable /\ R \subseteq R \cup {w}
        BY <1>3, <3>4 DEF R
      <4>2. \A x \in (R \cup {w}) \ R : \/ x.kind = "condition" /\ x.arg = n /\ o.useCondition
                                        \/ x.kind = "ignore" /\ x.arg = n /\ o.useIgnoreCount
        BY <3>4, <3>a
      <4>3. /\ o.useCondition => Sends(R \cup {w}, "condition", n)
            /\ o.useIgnoreCount => Sends(R \cup {w}, "ignore", n)
        BY <3>4, <3>a DEF Sends
      <4> QED
        BY <2>8, <4>1, <4>2, <4>3
    <3>7. Left([numbered EXCEPT !.d = QueueHigh(@, w)])
      BY <1>2, <2>4, <2>10, <3>4, <3>5, <3>6, LeftFront DEF on
    <3> QED
      BY <3>2, <3>3, <3>7
  <2> QED
    BY <2>9, <2>11, <2>12
<1>8. CASE c.kind = "output"
  <2> DEFINE v == o.alreadySet \/ o.enabled
             f == [o EXCEPT !.index = -1, !.alreadySet = v]
             w == GdbCmd_AddBreakpoint(b, o)
             u == [bp EXCEPT ![b] = f]
             t == [s EXCEPT !.bp[b] = f]
  <2>1. c.kind \in Adds /\ b \in Bps /\ b \in DataBps /\ o \in Fields /\ c \in A /\ o.enabled /\ ans.text = "address"
    <3>1. c.kind \in Adds
      BY <1>8 DEF Adds
    <3> QED
      BY <1>1, <1>4, <1>5, <1>6, <1>8, <3>1 DEF AddFits, AnswerFits
  <2>2. f \in Fields /\ f.enabled /\ f.line = o.line
    <3>1. v \in BOOLEAN /\ -1 \in Int
      BY <2>1 DEF Fields
    <3> HIDE DEF v
    <3>2. f \in Fields
      BY <2>1, <3>1, FieldsSet
    <3> QED
      BY <2>1, <3>2 DEF Fields
  <2>3. w \in Queueable /\ w.kind = "watch" /\ w.bp = b /\ w.arg = o.line
    <3>1. w \in Queueable
      BY <2>1, AddIsQueueable
    <3> QED
      BY <2>1, <3>1 DEF GdbCmd_AddBreakpoint, Cmd
  <2>4. /\ w.kind \in Adds /\ w.kind \in Work /\ w.kind \notin Empty /\ w.kind \notin Resuming
    BY <2>3 DEF Adds, Setting, Work, Empty, Resuming
  <2>5. CmdParseOutput(c, ans, s) = [t EXCEPT !.d = QueueHigh(@, w)]
    <3>1. CmdParseOutput(c, ans, s) = AddCommand(s, c.bp, QueueHigh)
      BY <1>8, <2>1 DEF CmdParseOutput
    <3>2. s.bp \in [Bps -> Fields] /\ s.bp[b] = o
      BY <1>1 DEF Tables, o
    <3>3. AddCommand(s, b, QueueHigh) = [t EXCEPT !.d = QueueHigh(@, w)]
      BY <2>1, <3>2 DEF AddCommand, Parsers
    <3> QED
      BY <3>1, <3>3 DEF b
  <2> HIDE DEF f, w
  <2>6. u \in Tables /\ u[b] = f /\ \A x \in Bps : x # b => u[x] = bp[x]
    BY <1>1, <2>1, <2>2 DEF Tables
  <2>7. t \in Parsers(driver) /\ t.d = s.d /\ t.bp = u
    <3>1. t \in Parsers(driver)
      BY <2>1, <2>2, ParsersSet
    <3> QED
      BY <3>1 DEF Parsers
  <2> HIDE DEF u, t
  <2>8. A = R \cup {c} /\ (\A x \in R : x.kind \in Adds => x.bp # c.bp) /\ R \in SUBSET A
    BY <1>2, <2>1, KindsDiffer DEF Added, A, R, b
  <2>9. Fits(u, R \cup {w}, gdb, {}, on)
    <3>1. Fits(bp, A, gdb, {}, on)
      <4>1. c.kind \notin Setting
        BY <1>8 DEF Setting
      <4> QED
        BY <1>1, <1>4, <4>1 DEF A, on
    <3>2. AddFits(w, u[c.bp]) /\ u[c.bp].enabled
      BY <2>1, <2>2, <2>3, <2>6 DEF AddFits, b
    <3>3. \A x \in on \ {c.bp} : u[x] = bp[x]
      BY <1>3, <2>6 DEF b, on
    <3>4. R \cup {w} \in SUBSET Queueable /\ A \in SUBSET Queueable /\ on \in SUBSET Bps
      BY <1>3, <2>3 DEF R, A, on
    <3>5. w.bp = c.bp
      BY <2>3 DEF b
    <3> QED
      BY <1>1, <2>1, <2>3, <2>4, <2>6, <2>8, <3>1, <3>2, <3>3, <3>4, <3>5, FitsOutput
  <2>10. Settled(R, b)
    BY <2>8 DEF Settled, b
  <2>11. Added(R, w) = R \cup {w}
    BY <2>4 DEF Added
  <2>12. t.d.m_DCmds = rest /\ Asks(rest) = R /\ ~t.d.m_QueueBusy
    BY <2>7 DEF R
  <2>13. Left([t EXCEPT !.d = QueueHigh(@, w)])
    BY <1>2, <2>3, <2>4, <2>7, <2>9, <2>10, <2>11, <2>12, LeftFront DEF on
  <2> QED
    BY <2>5, <2>13
<1>9. CASE c.kind \notin Adds
  <2>1. Fits(bp, R, gdb, {}, on)
    <3>1. Got = {}
      BY <1>4, <1>9 DEF Adds
    <3>2. R \in SUBSET A /\ (A = R \cup {c} \/ A = R)
      BY <1>2 DEF Added, A, R
    <3>3. /\ c.kind = "delete" => c.arg \notin DOMAIN gdb.bps
          /\ c.kind = "condition" /\ c.arg \in DOMAIN gdb.bps => gdb.bps[c.arg].cond
          /\ c.kind = "ignore" /\ c.arg \in DOMAIN gdb.bps => gdb.bps[c.arg].ign
      BY <1>1, <1>4 DEF AnswerFits
    <3>4. Fits(bp, A, gdb, {}, on) /\ A \in SUBSET Queueable /\ on \in SUBSET Bps
      BY <1>1, <1>3, <3>1 DEF A, on
    <3> QED
      BY <1>1, <1>2, <1>9, <3>2, <3>3, <3>4, FitsDone
  <2>2. s.d.m_DCmds = rest /\ Asks(rest) = R
    BY DEF R
  <2>3. ASSUME NEW k \in {"typed", "evaluate"} PROVE Left([s EXCEPT !.d = QueueHigh(@, Plain(k))])
    <3> DEFINE w == Plain(k)
    <3>1. w \in Queueable /\ w.kind = k
      BY PlainIsQueueable DEF Kinds, Plain, Cmd
    <3>2. w.kind \notin Empty /\ w.kind \notin Resuming /\ w.kind \notin Adds /\ w.kind \notin Work
      BY <3>1 DEF Empty, Resuming, Adds, Setting, Work
    <3> HIDE DEF w
    <3>3. Added(R, w) = R
      BY <3>2 DEF Added
    <3>4. Left([s EXCEPT !.d = QueueHigh(@, w)])
      BY <1>2, <2>1, <2>2, <3>1, <3>2, <3>3, LeftFront DEF on
    <3> QED
      BY <3>4 DEF w
  <2>4. CASE c.kind = "whatis"
    <3>1. CmdParseOutput(c, ans, s) = [s EXCEPT !.d = QueueHigh(@, Plain("typed"))]
      BY <1>5, <2>4 DEF CmdParseOutput
    <3> QED
      BY <2>3, <3>1
  <2>5. CASE c.kind \in {"typed", "untyped"}
    <3>1. CmdParseOutput(c, ans, s) = [s EXCEPT !.d = QueueHigh(@, Plain("evaluate"))]
      BY <2>5 DEF CmdParseOutput
    <3> QED
      BY <2>3, <3>1
  <2>6. CASE c.kind \notin {"whatis", "typed", "untyped"}
    <3>1. CmdParseOutput(c, ans, s) = s
      BY <1>9, <2>6 DEF CmdParseOutput, Adds, Setting
    <3> QED
      BY <1>2, <2>1, <2>2, <3>1, LeftAlone DEF on
  <2> QED
    BY <2>4, <2>5, <2>6
<1> QED
  BY <1>7, <1>8, <1>9 DEF Adds

(* Answers leave the list of the editor's breakpoints.                      *)
LEMMA ParseList ==
  ASSUME NEW d, NEW s \in Parsers(d), NEW c \in Queueable, NEW ans
  PROVE  CmdParseOutput(c, ans, s).list = s.list
<1> DEFINE numbered == [s EXCEPT !.bp[c.bp].index = ans.number]
<1>1. \A x, y : [s EXCEPT !.d = x].list = s.list /\ [numbered EXCEPT !.d = x].list = s.list
               /\ [[numbered EXCEPT !.d = x] EXCEPT !.d = y].list = s.list
  BY DEF Parsers
<1>2. numbered.list = s.list
  BY DEF Parsers
<1>3. AddCommand(s, c.bp, QueueHigh).list = s.list
  BY DEF AddCommand, Parsers
<1> HIDE DEF numbered
<1>4. SetOptions(numbered, c.bp).list = s.list
  BY <1>1, <1>2 DEF SetOptions
<1>5. CASE c.kind \in {"break", "tbreak", "watch"} /\ ans.text = "breakpoint"
  <2>1. CmdParseOutput(c, ans, s) = SetOptions(numbered, c.bp)
    BY <1>5 DEF CmdParseOutput, numbered
  <2> QED
    BY <1>4, <2>1
<1>6. CASE c.kind \in {"break", "tbreak", "watch"} /\ ans.text = "watchpoint"
  <2>1. CmdParseOutput(c, ans, s) = numbered
    BY <1>6 DEF CmdParseOutput, numbered
  <2> QED
    BY <1>2, <2>1
<1>7. CASE c.kind = "output" /\ ans.text = "address"
  <2>1. CmdParseOutput(c, ans, s) = AddCommand(s, c.bp, QueueHigh)
    BY <1>7 DEF CmdParseOutput
  <2> QED
    BY <1>3, <2>1
<1>8. CASE /\ ~(c.kind \in {"break", "tbreak", "watch"} /\ ans.text = "breakpoint")
           /\ ~(c.kind \in {"break", "tbreak", "watch"} /\ ans.text = "watchpoint")
           /\ ~(c.kind = "output" /\ ans.text = "address")
  <2>1. \/ CmdParseOutput(c, ans, s) = s
        \/ \E x : CmdParseOutput(c, ans, s) = [s EXCEPT !.d = x]
    BY <1>8 DEF CmdParseOutput
  <2> QED
    BY <1>1, <2>1
<1> QED
  BY <1>5, <1>6, <1>7, <1>8

(* What became of the program changes no breakpoint.                        *)
LEMMA ProgramAsks ==
  ASSUME NEW d, Good(d), d.up = TRUE, Unique(d.m_DCmds), Strict(d.m_DCmds), NEW text, NEW refresh
  PROVE  LET q == ProgramChanged(d, text, refresh).m_DCmds
         IN  Asks(q) = Asks(d.m_DCmds) /\ Unique(q) /\ Strict(q)
<1> DEFINE e == ProgramChanged(d, text, refresh)
<1>1. /\ Plain("quit") \in Queueable /\ Plain("info") \in Queueable /\ Plain("action") \in Queueable
      /\ Plain("quit").kind \notin Work /\ Plain("info").kind \notin Work /\ Plain("action").kind \notin Work
  <2>1. Plain("quit") \in Queueable /\ Plain("info") \in Queueable /\ Plain("action") \in Queueable
    BY PlainIsQueueable DEF Kinds
  <2> QED
    BY <2>1 DEF Plain, Cmd, Work, Adds, Setting
<1>2. CASE text = "exited"
  <2> DEFINE f == QueueLow(d, Plain("quit"))
  <2>1. Asks(f.m_DCmds) = Asks(d.m_DCmds) /\ Unique(f.m_DCmds) /\ Strict(f.m_DCmds)
    BY <1>1, LowStrict
  <2>2. Good(f)
    BY <1>1, LaterSelf, QueueLowLater DEF Later
  <2>3. e = [f EXCEPT !.m_IsStarted = FALSE]
    BY <1>2 DEF ProgramChanged
  <2> HIDE DEF f, e
  <2>4. e.m_DCmds = f.m_DCmds
    BY <2>2, <2>3 DEF Good, Drivers
  <2> QED
    BY <2>1, <2>4 DEF e
<1>3. CASE text = "stopped" /\ refresh
  <2> DEFINE f == QueueLow(d, Plain("info"))
             g == QueueLow(f, Plain("action"))
  <2>1. Asks(f.m_DCmds) = Asks(d.m_DCmds) /\ Unique(f.m_DCmds) /\ Strict(f.m_DCmds)
    BY <1>1, LowStrict
  <2>2. Good(f)
    BY <1>1, LaterSelf, QueueLowLater DEF Later
  <2>3. g = QueueLow(f, Plain("action"))
    OBVIOUS
  <2>4. e = g
    <3>1. QueueAll(d, <<Plain("info"), Plain("action")>>) = g
      BY <1>1, QueueTwo
    <3> QED
      BY <1>3, <3>1 DEF ProgramChanged
  <2> HIDE DEF f, e, g
  <2>5. Asks(g.m_DCmds) = Asks(f.m_DCmds) /\ Unique(g.m_DCmds) /\ Strict(g.m_DCmds)
    BY <1>1, <2>1, <2>2, <2>3, LowStrict
  <2> QED
    BY <2>1, <2>4, <2>5 DEF e
<1>4. CASE text # "exited" /\ ~(text = "stopped" /\ refresh)
  BY <1>4 DEF ProgramChanged
<1> QED
  BY <1>2, <1>3, <1>4

(* An answer is parsed.                                                     *)
LEMMA ParseAnswerFits ==
  ASSUME IInv, IInv', BpInv, Ordinary, NEW refresh \in BOOLEAN, ParseAnswer(refresh)
  PROVE  Goal
<1> DEFINE d1 == [driver EXCEPT !.m_ProgramIsStopped = TRUE, !.m_QueueBusy = FALSE,
                                !.m_DCmds = Tail(driver.m_DCmds)]
<1>1. PICK ans : ans = Head(events)
  OBVIOUS
<1>2. PICK c : c = Head(driver.m_DCmds)
  OBVIOUS
<1>3. PICK popped : popped = [list |-> m_Breakpoints, bp |-> bp, d |-> d1]
  OBVIOUS
<1> DEFINE parsed == CmdParseOutput(c, ans, popped)
           t == [parsed EXCEPT !.d = RunQueue(@)]
           e == ProgramChanged(t.d, ans.text, refresh)
<1>4. /\ ans \in Answered /\ 1 \in AnswerAt /\ ans = events[1] /\ AnswerAt' = {}
      /\ driver.m_QueueBusy /\ gdb.state # "program" /\ driver.stdin = <<>>
      /\ driver.up = TRUE /\ driver.m_DCmds # <<>> /\ c \in Queueable
      /\ popped \in Parsers(driver) /\ ~popped.d.m_QueueBusy /\ popped.bp = bp
      /\ popped.list = m_Breakpoints /\ popped.d.m_DCmds = Tail(driver.m_DCmds)
      /\ parsed \in Parsers(driver)
      /\ t.d = RunQueue(parsed.d) /\ Good(t.d) /\ t.d.up = TRUE
      /\ t.bp = parsed.bp /\ t.list = parsed.list
      /\ driver' = e /\ m_Breakpoints' = t.list /\ bp' = t.bp
      /\ Good(e) /\ Ready(e) /\ e.up = TRUE /\ e.open = driver.open
  BY <1>1, <1>2, <1>3, ParseAnswerIs
<1>5. UNCHANGED <<m_pProcess, starting, gdb>>
  BY DEF ParseAnswer
<1>6. ans \in Replies /\ Replies' = {} /\ Got' = {}
  <2>1. ans \in Replies /\ Replies' = {}
    BY <1>4 DEF Replies
  <2> QED
    BY <2>1 DEF Got
<1>7. ~(driver.open /\ starting) /\ (driver.open => Live)
  BY <1>4, <1>6 DEF BpInv, Starts, Dies, Live
<1>8. m_Breakpoints' = m_Breakpoints /\ bp' = parsed.bp
  BY <1>4, ParseList
<1>9. AreData(bp')
  <2>1. Marked(bp, parsed.bp)
    BY <1>4, ParseMarks
  <2>2. AreData(bp)
    BY DEF BpInv, Plainly
  <2> QED
    BY <1>8, <2>1, <2>2, DriverAssumption DEF AreData, Marked, Bps
<1>10. ASSUME Live
       PROVE  /\ Unique(e.m_DCmds) /\ Strict(e.m_DCmds)
              /\ Fits(bp', Asks(e.m_DCmds), gdb', Got', Range(m_Breakpoints'))
  <2>1. Left(parsed)
    BY <1>2, <1>4, <1>6, <1>10, ParsedFits
  <2> HIDE DEF parsed, t
  <2>2. PICK r \in Seq(Queueable) :
            /\ Unique(r) /\ Strict(r) /\ t.d.m_DCmds = Pending(r)
            /\ Fits(parsed.bp, Asks(r), gdb, {}, Range(m_Breakpoints))
    BY <1>4, <2>1 DEF Left
  <2>3. Asks(t.d.m_DCmds) = Asks(r) /\ Unique(t.d.m_DCmds) /\ Strict(t.d.m_DCmds)
    BY <2>2, PendingQueue
  <2>4. Asks(e.m_DCmds) = Asks(r) /\ Unique(e.m_DCmds) /\ Strict(e.m_DCmds)
    BY <1>4, <2>3, ProgramAsks
  <2> QED
    BY <1>5, <1>6, <1>8, <2>2, <2>4
<1> HIDE DEF e, t, parsed
<1>11. Plainly' /\ Starts' /\ Dies'
  BY <1>4, <1>5, <1>7, <1>9 DEF Plainly, Starts, Dies, Live
<1>12. Lives'
  <2> SUFFICES ASSUME Live
               PROVE  /\ (gdb.bps \in [DOMAIN gdb.bps -> Entries])'
                      /\ Fits(bp, Asks(driver.m_DCmds), gdb, Got, Range(m_Breakpoints))'
                      /\ (Unique(driver.m_DCmds) /\ Ordered(driver.m_DCmds))'
                      /\ (\A a \in Replies : AnswerFits(a, gdb))'
                      /\ (gdb.state = "program" => gdb.asked.kind \in Resuming)'
    BY <1>4, <1>5, <1>7 DEF Lives
  <2>1. gdb.bps \in [DOMAIN gdb.bps -> Entries]
    BY DEF BpInv, Lives, Live
  <2>2. Ordered(e.m_DCmds) /\ Unique(e.m_DCmds)
    BY <1>10 DEF Ordered, Strict
  <2>3. Fits(bp', Asks(driver'.m_DCmds), gdb', Got', Range(m_Breakpoints'))
    BY <1>4, <1>10
  <2> QED
    BY <1>4, <1>5, <1>6, <2>1, <2>2, <2>3
<1>13. Send
  <2> SUFFICES ASSUME Len(driver'.stdin) > Len(driver.stdin), Last(driver'.stdin).kind \in Resuming
               PROVE  Live' /\ Asks(driver'.m_DCmds) = {}
    BY DEF Send
  <2>1. driver'.stdin \in Seq(Queueable) /\ driver'.m_DCmds \in Seq(Queueable)
    BY DEF IInv, Types, Drivers
  <2>2. driver'.stdin # <<>>
    BY <1>4, <2>1
  <2>3. e.m_QueueBusy /\ e.m_DCmds # <<>> /\ Sent(e)
    BY <1>4, <2>2 DEF Ready
  <2>4. driver.open /\ driver'.stdin = <<Head(e.m_DCmds)>>
    BY <1>4, <2>2, <2>3, OrdinaryIs DEF Sent
  <2>5. Head(e.m_DCmds).kind \in Resuming
    <3>1. \A x : Last(<<x>>) = x
      BY DEF Last
    <3> QED
      BY <2>4, <3>1
  <2>6. Live /\ Live'
    BY <1>4, <1>5, <1>7, <2>4 DEF Live
  <2>7. Asks(driver'.m_DCmds) = {}
    <3> DEFINE q == driver'.m_DCmds
    <3>1. q \in Seq(Queueable) /\ q # <<>> /\ Strict(q) /\ Head(q).kind \in Resuming
      BY <1>4, <1>10, <2>1, <2>3, <2>5, <2>6
    <3> HIDE DEF q
    <3>2. /\ 1 \in DOMAIN q /\ q[1].kind \in Resuming
          /\ \A i \in DOMAIN q : i = 1 \/ 1 < i
      BY <3>1
    <3>3. \A i \in DOMAIN q : q[i].kind \notin Work
      BY <3>1, <3>2, KindsDiffer DEF Strict
    <3>4. Asks(q) = {}
      BY <3>3 DEF Asks
    <3> QED
      BY <3>4 DEF q
  <2> QED
    BY <2>6, <2>7
<1> QED
  BY <1>11, <1>12, <1>13 DEF Goal, BpInv
-----------------------------------------------------------------------------
(* Every step.                                                              *)

(* GDB's numbers only grow.                                                 *)
LEMMA Numbering ==
  ASSUME Types, Numbered, [Next]_vars
  PROVE  Numbered'
<1>1. IsGdb(gdb) /\ gdb.next \in Nat /\ gdb.next # 0 /\ DOMAIN gdb = DOMAIN NoGdb
  BY DEF Types, IsGdb, Numbered, NoGdb
<1>2. Break(gdb).next = gdb.next
  BY <1>1 DEF Break, NoGdb
<1>3. ASSUME gdb' = gdb \/ gdb' = Break(gdb) PROVE Numbered'
  BY <1>1, <1>2, <1>3 DEF Numbered
<1>4. CASE User
  <2>1. gdb' = gdb \/ gdb' = Break(gdb) \/ gdb' = [NoGdb EXCEPT !.state = "prompt"]
            \/ gdb' = [gdb EXCEPT !.killed = TRUE]
    BY <1>4, ZenonT(30)
    DEF User, AddBreakpoint, Interrupted, RunToCursor, RemoveBreakpoint, OnBreakpointEdit, AddDataBreakpoint,
                RemoveDataBreakpoint, OnRemoveAllBreakpoints, LinesRemoved, LinesAdded, Debug, Launch, Resume,
                OnValueTooltip, OnStop, OnProjectActivated
  <2>2. CASE gdb' = [NoGdb EXCEPT !.state = "prompt"]
    BY <2>2 DEF Numbered, NoGdb
  <2>3. CASE gdb' = [gdb EXCEPT !.killed = TRUE]
    BY <1>1, <2>3 DEF Numbered, NoGdb
  <2> QED
    BY <1>3, <2>1, <2>2, <2>3
<1>5. CASE FinishStart \/ Parse \/ ParsePid \/ OnGDBTerminated \/ ProcessTerminates \/ UNCHANGED vars
  <2>1. gdb' = gdb
    BY <1>5 DEF FinishStart, Parse, ParseAnswer, ParsePid, OnGDBTerminated, ProcessTerminates, vars
  <2> QED
    BY <1>3, <2>1
<1>6. CASE GdbExecute
  <2>1. PICK c : c = Head(driver.stdin)
    OBVIOUS
  <2>2. CASE c.kind \in {"break", "tbreak", "watch"}
    <3>1. gdb' = SetBreakpoint(gdb, c)
      BY <1>6, <2>1, <2>2 DEF GdbExecute, Resuming
    <3>2. gdb'.next = gdb.next + 1
      BY <1>1, <3>1 DEF SetBreakpoint, NoGdb
    <3> QED
      BY <1>1, <3>2 DEF Numbered
  <2>3. CASE c.kind = "catch"
    <3>1. gdb' = [gdb EXCEPT !.next = gdb.next + 1]
      BY <1>6, <2>1, <2>3 DEF GdbExecute, Resuming
    <3>2. gdb'.next = gdb.next + 1
      BY <1>1, <3>1 DEF NoGdb
    <3> QED
      BY <1>1, <3>2 DEF Numbered
  <2>4. CASE c.kind \notin {"break", "tbreak", "watch", "catch"}
    <3>1. gdb'.next = gdb.next
      <4>1. c.kind \in {"delete", "prompt", "quit"} \cup Resuming => gdb'.next = gdb.next
        BY <1>1, <1>6, <2>1 DEF GdbExecute, Resuming, NoGdb
      <4>2. c.kind \in {"condition", "ignore"} => gdb'.next = gdb.next
        BY <1>1, <1>6, <2>1 DEF GdbExecute, Resuming, NoGdb
      <4>3. c.kind \notin {"delete", "prompt", "quit", "condition", "ignore"} \cup Resuming => gdb' = gdb
        BY <1>6, <2>1, <2>4 DEF GdbExecute
      <4> QED
        BY <4>1, <4>2, <4>3
    <3> QED
      BY <1>1, <3>1 DEF Numbered
  <2> QED
    BY <2>2, <2>3, <2>4
<1>7. CASE ProgramStops \/ ProgramSignalled \/ GdbEndOfInput \/ GdbFailsToStart
  <2>1. gdb'.next = gdb.next
    BY <1>1, <1>7 DEF ProgramStops, ProgramSignalled, GdbEndOfInput, GdbFailsToStart, NoGdb
  <2> QED
    BY <1>1, <2>1 DEF Numbered
<1> QED
  BY <1>4, <1>5, <1>6, <1>7 DEF Next, Gdb
-----------------------------------------------------------------------------
(* The breakpoints agree.                                                   *)

(* No session is open.                                                      *)
LEMMA InitBp == Init => BpInv /\ Numbered
<1> SUFFICES ASSUME Init PROVE BpInv /\ Numbered
  OBVIOUS
<1>1. ~driver.up /\ gdb.next = 1
  BY DEF Init, NoDriver, NoGdb
<1>2. Plainly
  BY DriverAssumption DEF Init, Fresh, Plainly, AreData, Bps
<1> QED
  BY <1>1, <1>2 DEF BpInv, Starts, Dies, Lives, Numbered

(* Every step keeps the breakpoints fitting.                                *)
LEMMA NextBp ==
  ASSUME IInv, IInv', BpInv, Numbered, Ordinary, [Next]_vars
  PROVE  Goal
<1>1. CASE User
  BY <1>1, UserFits
<1>2. CASE FinishStart
  BY <1>2, FinishStartFits
<1>3. CASE Parse
  BY <1>3, ParseAnswerFits DEF Parse
<1>4. CASE ParsePid \/ OnGDBTerminated \/ ProcessTerminates \/ UNCHANGED vars
  BY <1>4, OtherFits
<1>5. CASE GdbExecute
  BY <1>5, GdbExecuteFits
<1>6. CASE ProgramSignalled \/ ProgramStops
  BY <1>6, ProgramStopsFits
<1>7. CASE GdbEndOfInput \/ GdbFailsToStart
  BY <1>7, GdbEndFits
<1> QED
  BY <1>1, <1>2, <1>3, <1>4, <1>5, <1>6, <1>7 DEF Next, Gdb

(* Nothing more is asked of GDB: it has what the editor shows.              *)
Served == Live /\ Asks(driver.m_DCmds) = {} /\ Got = {}
LEMMA ServedAgree == IInv /\ BpInv /\ Served => Agree
<1> SUFFICES ASSUME IInv, BpInv, Served PROVE Agree
  OBVIOUS
<1>1. gdb.bps \in [DOMAIN gdb.bps -> Entries] /\ Fits(bp, {}, gdb, {}, Range(m_Breakpoints))
  BY DEF BpInv, Lives, Live, Served
<1>2. bp \in Tables /\ m_Breakpoints \in Lists
  BY DEF IInv, Types, Tables
<1> QED
  BY <1>1, <1>2, FitsAgree

(* The breakpoints fit in every behaviour without mishaps.                  *)
LEMMA BpInvariance ==
  ASSUME Ordinary
  PROVE  Spec => [](BpInv /\ Numbered) /\ [][IInv /\ IInv' /\ BpInv' /\ Send]_vars
<1>1. IInv /\ IInv' /\ BpInv /\ Numbered /\ [Next]_vars => BpInv' /\ Numbered' /\ Send
  <2> SUFFICES ASSUME IInv, IInv', BpInv, Numbered, [Next]_vars PROVE BpInv' /\ Numbered' /\ Send
    OBVIOUS
  <2>1. Numbered'
    BY Numbering DEF IInv
  <2> QED
    BY <2>1, NextBp DEF Goal
<1> QED
  BY <1>1, InitBp, Invariance, PTL DEF Spec

(* Without mishaps, when an open session is at rest GDB has exactly the     *)
(* breakpoints of the editor, under the numbers the editor knows, however   *)
(* many there are and however long the user clicks (BreakpointsAgree).      *)
THEOREM BreakpointsMatch ==
  ASSUME Ordinary
  PROVE  Spec => []BreakpointsAgree
<1>1. IInv /\ BpInv => BreakpointsAgree
  <2> SUFFICES ASSUME IInv, BpInv, driver.up, driver.open, gdb.state = "prompt", ~starting,
                      ~driver.m_QueueBusy, events = <<>>
               PROVE  Agree
    BY DEF BreakpointsAgree
  <2>1. driver.m_DCmds = <<>>
    BY DEF IInv, Queue
  <2>2. Asks(driver.m_DCmds) = {}
    BY <2>1 DEF Asks
  <2>3. Got = {}
    <3>1. AnswerAt = {}
      BY DEF AnswerAt
    <3> QED
      BY <3>1 DEF Got, Replies
  <2> QED
    BY <2>2, <2>3, ServedAgree DEF Served, Live
<1> QED
  BY <1>1, BpInvariance, Invariance, PTL

(* Without mishaps the program is let run only when GDB has exactly the     *)
(* editor's breakpoints, conditions and ignore counts (ArmedWhenRun).       *)
THEOREM Armed ==
  ASSUME Ordinary
  PROVE  Spec => ArmedWhenRun
<1>1. IInv' /\ BpInv' /\ Served' => Agree'
  BY ServedAgree, PTL
<1>2. IInv /\ IInv' /\ BpInv' /\ Send => (Len(driver'.stdin) > Len(driver.stdin)
        /\ Last(driver'.stdin).kind \in Resuming => Agree')
  <2> SUFFICES ASSUME IInv, IInv', BpInv', Send, Len(driver'.stdin) > Len(driver.stdin),
                      Last(driver'.stdin).kind \in Resuming
               PROVE  Agree'
    OBVIOUS
  <2>1. Live' /\ Asks(driver'.m_DCmds) = {}
    BY DEF Send
  <2>2. Got' = {}
    <3>1. driver.stdin \in Seq(Queueable) /\ driver'.stdin \in Seq(Queueable)
      BY DEF IInv, Types, Drivers
    <3>3. driver'.stdin # <<>>
      BY <3>1
    <3>4. AnswerAt' = {}
      BY <3>3 DEF IInv, Queue
    <3> QED
      BY <3>4 DEF Got, Replies
  <2>3. Served'
    BY <2>1, <2>2 DEF Served
  <2> QED
    BY <1>1, <2>3
<1> QED
  BY <1>2, BpInvariance, PTL DEF ArmedWhenRun
=============================================================================
