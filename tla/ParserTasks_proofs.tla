------------------------- MODULE ParserTasks_proofs -------------------------
(***************************************************************************)
(* What holds of ParserTasks for every value of the constants.             *)
(***************************************************************************)
EXTENDS ParserTasks, FiniteSetTheorems, SequenceTheorems, TLAPS

-----------------------------------------------------------------------------
(* The names of the tasks, and the queues they wait in.                     *)

LEMMA Names == Add # Mark /\ Add # None /\ Mark # None
BY DEF Add, Mark, None

LEMMA FileNames ==
  ASSUME NEW f \in Files
  PROVE  f # None /\ f # Add /\ f # Mark /\ f \in Tasks
BY ParserAssumption DEF Tasks

LEMMA NoneIsNoTask == None \notin Tasks
BY ParserAssumption, Names DEF Tasks

LEMMA Lists == \A S : <<>> \in Seq(S)
OBVIOUS

LEMMA ContainsNothing == \A x : ~Contains(<<>>, x)
BY DEF Contains

LEMMA ContainsOne == \A x, y : Contains(<<x>>, y) <=> x = y
BY DEF Contains

LEMMA ContainsAppend ==
  ASSUME NEW q \in Seq(Tasks), NEW t \in Tasks, NEW x, Contains(Append(q, t), x)
  PROVE  Contains(q, x) \/ x = t
<1>1. /\ Len(Append(q, t)) = Len(q) + 1 /\ Len(q) \in Nat
      /\ \A i \in 1..Len(q) : Append(q, t)[i] = q[i]
      /\ Append(q, t)[Len(q) + 1] = t
  BY AppendProperties, LenProperties
<1>2. PICK i \in 1..Len(q) + 1 : Append(q, t)[i] = x
  BY <1>1 DEF Contains
<1>3. i \in 1..Len(q) \/ i = Len(q) + 1
  BY <1>1
<1> QED
  BY <1>1, <1>2, <1>3 DEF Contains

LEMMA ContainsTail ==
  ASSUME NEW q \in Seq(Tasks), q # <<>>, NEW x, Contains(Tail(q), x)
  PROVE  Contains(q, x)
<1>1. /\ Len(Tail(q)) = Len(q) - 1 /\ Len(q) \in Nat
      /\ \A i \in 1..Len(Tail(q)) : Tail(q)[i] = q[i + 1]
  BY HeadTailProperties, LenProperties
<1>2. PICK i \in 1..Len(Tail(q)) : Tail(q)[i] = x
  BY DEF Contains
<1>3. i + 1 \in 1..Len(q) /\ q[i + 1] = x
  BY <1>1, <1>2
<1> QED
  BY <1>3 DEF Contains

LEMMA ContainsHead ==
  ASSUME NEW q \in Seq(Tasks), q # <<>>
  PROVE  Contains(q, Head(q))
<1>1. Len(q) \in Nat \ {0}
  BY EmptySeq
<1>2. Head(q) = q[1] /\ 1 \in 1..Len(q)
  BY <1>1
<1> QED
  BY <1>2 DEF Contains

LEMMA AppendToNothing ==
  ASSUME NEW t
  PROVE  Append(<<>>, t) = <<t>>
OBVIOUS

LEMMA ContainsFiles ==
  ASSUME NEW fs \in Seq(Files), NEW x, Contains(fs, x)
  PROVE  x \in Files
BY ElementOfSeq DEF Contains

LEMMA FilesAreTasks ==
  ASSUME NEW fs \in Seq(Files)
  PROVE  fs \in Seq(Tasks)
BY SeqMonotonic DEF Tasks

-----------------------------------------------------------------------------
(* The invariant.                                                           *)

Rests(pl) == pl.at = "asleep" /\ pl.sem = 0 /\ pl.queue = <<>>
Quiet(pl) == Rests(pl) /\ pl.events = 0
Busy(d, pl) == d.isParsing \/ ~Rests(pl)
Adds(pl) == pl.task = Add \/ Contains(pl.queue, Add)
Empty(d) == d.priority = <<>> /\ d.batch = <<>> /\ ~d.macros

(* What a parser and its pool are to each other at all times, even while    *)
(* the parser is deleted.                                                   *)
Sound(d, pl) ==
    /\ pl.at \in {"copies", "macros", "priority", "batch"} <=> pl.task = Add
    /\ pl.at \in {"asleep", "awake", "gets", "rests"} <=> pl.task = None
    /\ pl.at \in {"opens", "parses"} => pl.task \in Files
    /\ pl.events # 0 => Rests(pl)
    /\ pl.sem # 0 => pl.at = "asleep"
    /\ pl.stack # <<>> => pl.at \in {"parses", "priority"}
    /\ d.isPriority <=> pl.at = "priority"
    /\ ~d.up => d = Down /\ pl = NewPool
    /\ d.ignore <=> ~d.isParsing
    /\ pl.added \/ Rests(pl)

(* And while it is not: one thing at a time drives the parsing, the timer,  *)
(* an AddParseThread, or the tasks it made.                                 *)
Alive(d, pl) ==
    /\ d.batchTimer => Quiet(pl)
    /\ d.isParsing \/ Quiet(pl) \/ Adds(pl)
    /\ Contains(pl.queue, Add) =>
          pl.queue = <<Add>> /\ pl.at \in {"asleep", "awake", "gets"} /\ ~Empty(d)
    /\ d.poolTask # <<>> => d.isParsing \/ pl.task = Add
    /\ pl.at \in {"opens", "parses", "marks"} => d.isParsing

Good(d, pl, dying) == Sound(d, pl) /\ (dying \/ Alive(d, pl))
Turn(p) == Busy(parser[p], pool[p]) => s_CurrentParser = p
Inv == TypeOK /\ \A p \in Parsers : Good(parser[p], pool[p], deleting = p) /\ Turn(p)

(* A step of one parser, which gives the turn to nobody else.               *)
Moves(d1, pl1, d2, pl2, dying) ==
    /\ d2 \in ParserStates /\ pl2 \in Pools
    /\ Good(d2, pl2, dying)
    /\ Busy(d2, pl2) => Busy(d1, pl1)

LEMMA Types ==
  ASSUME Inv, NEW p \in Parsers
  PROVE  /\ parser[p] \in ParserStates /\ pool[p] \in Pools /\ tree[p] \in Trees
         /\ Good(parser[p], pool[p], deleting = p) /\ Turn(p)
         /\ wanted[p] \in SUBSET Files
BY DEF Inv, TypeOK

LEMMA Moved ==
  ASSUME Inv, NEW p \in Parsers, NEW d \in ParserStates, NEW pl \in Pools,
         ParserIs(p, d), PoolIs(p, pl), Good(d, pl, deleting' = p),
         \A q \in Parsers : q # p /\ deleting = q => deleting' = q,
         \A q \in Parsers : q # p /\ s_CurrentParser = q => s_CurrentParser' = q,
         Busy(d, pl) => s_CurrentParser' = p,
         tree' \in [Parsers -> Trees], wanted' \in [Parsers -> SUBSET Files],
         requests' \in 0..MaxRequests,
         s_CurrentParser' \in Parsers \cup {None}, deleting' \in Parsers \cup {None}
  PROVE  Inv'
<1>1. TypeOK'
  BY DEF Inv, TypeOK, ParserIs, PoolIs
<1>2. parser'[p] = d /\ pool'[p] = pl
  BY DEF Inv, TypeOK, ParserIs, PoolIs
<1>3. Good(parser'[p], pool'[p], deleting' = p) /\ Turn(p)'
  BY <1>2 DEF Turn
<1>4. ASSUME NEW q \in Parsers, q # p
      PROVE  Good(parser'[q], pool'[q], deleting' = q) /\ Turn(q)'
  <2>1. parser'[q] = parser[q] /\ pool'[q] = pool[q]
    BY <1>4 DEF Inv, TypeOK, ParserIs, PoolIs
  <2>2. Good(parser[q], pool[q], deleting = q) /\ Turn(q)
    BY DEF Inv
  <2> QED
    BY <1>4, <2>1, <2>2 DEF Good, Turn
<1> QED
  BY <1>1, <1>3, <1>4 DEF Inv

(* A step of a worker.                                                      *)
LEMMA WorkerMoved ==
  ASSUME Inv, NEW p \in Parsers, NEW d, NEW pl,
         ParserIs(p, d), PoolIs(p, pl),
         Moves(parser[p], pool[p], d, pl, deleting = p),
         UNCHANGED <<s_CurrentParser, deleting, requests>>,
         tree' \in [Parsers -> Trees], wanted' \in [Parsers -> SUBSET Files]
  PROVE  Inv'
<1>1. /\ d \in ParserStates /\ pl \in Pools /\ Good(d, pl, deleting' = p)
      /\ Busy(d, pl) => s_CurrentParser' = p
  BY Types DEF Moves, Turn
<1>2. /\ s_CurrentParser' = s_CurrentParser /\ deleting' = deleting
      /\ s_CurrentParser \in Parsers \cup {None} /\ deleting \in Parsers \cup {None}
      /\ requests' \in 0..MaxRequests
  BY DEF Inv, TypeOK
<1> QED
  BY <1>1, <1>2, Moved

LEMMA Same ==
  ASSUME NEW S, NEW f \in [Parsers -> S], NEW p \in Parsers
  PROVE  f = [f EXCEPT ![p] = f[p]]
OBVIOUS

LEMMA Same2 ==
  ASSUME Inv, NEW p \in Parsers
  PROVE  /\ UNCHANGED parser => ParserIs(p, parser[p])
         /\ UNCHANGED pool => PoolIs(p, pool[p])
         /\ UNCHANGED tree => tree' \in [Parsers -> Trees]
         /\ UNCHANGED wanted => wanted' \in [Parsers -> SUBSET Files]
BY Same DEF Inv, TypeOK, ParserIs, PoolIs

(* A worker that moves has a parser.                                        *)
LEMMA MovesUp ==
  ASSUME NEW d, NEW pl, Sound(d, pl), ~Rests(pl)
  PROVE  d.up
BY DEF Sound, Rests, NewPool

-----------------------------------------------------------------------------
(* The steps of a worker, on the records of its parser and pool.            *)

LEMMA PointNames ==
  /\ "asleep" \in Points /\ "awake" \in Points /\ "gets" \in Points /\ "rests" \in Points
  /\ "opens" \in Points /\ "parses" \in Points /\ "marks" \in Points /\ "copies" \in Points
  /\ "macros" \in Points /\ "priority" \in Points /\ "batch" \in Points
  /\ 0 \in 0..1 /\ 1 \in 0..1
BY DEF Points

LEMMA PoolMoves ==
  ASSUME NEW pl \in Pools, NEW at \in Points, NEW sem \in 0..1, NEW events \in 0..1
  PROVE  /\ [pl EXCEPT !.at = at] \in Pools
         /\ [pl EXCEPT !.sem = sem, !.at = at] \in Pools
         /\ [pl EXCEPT !.at = at, !.sem = sem, !.events = events] \in Pools
BY DEF Pools

LEMMA WakeMoves ==
  ASSUME NEW d \in ParserStates, NEW pl \in Pools, NEW dying, Good(d, pl, dying),
         pl.at = "asleep", pl.sem = 1
  PROVE  Moves(d, pl, d, [pl EXCEPT !.sem = 0, !.at = "awake"], dying)
<1> DEFINE n == [pl EXCEPT !.sem = 0, !.at = "awake"]
<1>1. ~Rests(pl) /\ d.up
  BY MovesUp DEF Good, Rests
<1>2. n \in Pools
  BY PointNames, PoolMoves
<1>3. /\ n.at = "awake" /\ n.sem = 0 /\ n.queue = pl.queue /\ n.task = pl.task
      /\ n.events = pl.events /\ n.stack = pl.stack /\ n.added = pl.added
  BY DEF Pools
<1> HIDE DEF n
<1>4. Sound(d, n)
  BY <1>1, <1>3, Names DEF Good, Sound, Rests
<1>5. Alive(d, pl) => Alive(d, n)
  BY <1>1, <1>3, Names DEF Alive, Quiet, Adds, Rests
<1> QED
  BY <1>1, <1>2, <1>4, <1>5 DEF Good, Moves, Busy, n

LEMMA WorkingMoves ==
  ASSUME NEW d \in ParserStates, NEW pl \in Pools, NEW dying, Good(d, pl, dying),
         pl.at = "awake"
  PROVE  Moves(d, pl, d, [pl EXCEPT !.at = "gets"], dying)
<1> DEFINE n == [pl EXCEPT !.at = "gets"]
<1>1. ~Rests(pl) /\ d.up
  BY MovesUp DEF Good, Rests
<1>2. n \in Pools
  BY PointNames, PoolMoves
<1>3. /\ n.at = "gets" /\ n.sem = pl.sem /\ n.queue = pl.queue /\ n.task = pl.task
      /\ n.events = pl.events /\ n.stack = pl.stack /\ n.added = pl.added
  BY DEF Pools
<1> HIDE DEF n
<1>4. Sound(d, n)
  BY <1>1, <1>3, Names DEF Good, Sound, Rests
<1>5. Alive(d, pl) => Alive(d, n)
  BY <1>1, <1>3, Names DEF Alive, Quiet, Adds, Rests
<1> QED
  BY <1>1, <1>2, <1>4, <1>5 DEF Good, Moves, Busy, n

(* No task is left.                                                         *)
LEMMA NoTaskMoves ==
  ASSUME NEW d \in ParserStates, NEW pl \in Pools, NEW dying, Good(d, pl, dying),
         pl.at = "gets", pl.queue = <<>>
  PROVE  Moves(d, pl, d, [pl EXCEPT !.at = "rests"], dying)
<1> DEFINE n == [pl EXCEPT !.at = "rests"]
<1>1. ~Rests(pl) /\ d.up
  BY MovesUp DEF Good, Rests
<1>2. n \in Pools
  BY PointNames, PoolMoves
<1>3. /\ n.at = "rests" /\ n.sem = pl.sem /\ n.queue = <<>> /\ n.task = pl.task
      /\ n.events = pl.events /\ n.stack = pl.stack /\ n.added = pl.added
  BY DEF Pools
<1> HIDE DEF n
<1>4. Sound(d, n)
  BY <1>1, <1>3, Names DEF Good, Sound, Rests
<1>5. Alive(d, pl) => Alive(d, n)
  BY <1>1, <1>3, ContainsNothing, Names DEF Alive, Quiet, Adds, Rests
<1> QED
  BY <1>1, <1>2, <1>4, <1>5 DEF Good, Moves, Busy, n

(* The worker takes the first task of the queue.                            *)
Place(t) == CASE t = Add -> "copies" [] t = Mark -> "marks" [] OTHER -> "opens"
LEMMA TaskMoves ==
  ASSUME NEW d \in ParserStates, NEW pl \in Pools, NEW dying, Good(d, pl, dying),
         pl.at = "gets", pl.queue # <<>>
  PROVE  Moves(d, pl, d, [pl EXCEPT !.queue = Tail(@), !.task = Head(pl.queue),
                                    !.at = Place(Head(pl.queue))], dying)
<1> DEFINE t == Head(pl.queue)
           n == [pl EXCEPT !.queue = Tail(@), !.task = t, !.at = Place(t)]
<1>1. t \in Tasks /\ Tail(pl.queue) \in Seq(Tasks) /\ pl.queue \in Seq(Tasks)
  BY HeadTailProperties DEF Pools
<1>2. Contains(pl.queue, t) /\ (pl.queue = <<Add>> => Tail(pl.queue) = <<>> /\ t = Add)
  <2>1. Contains(pl.queue, t)
    BY <1>1, ContainsHead
  <2>2. pl.queue = <<Add>> => Tail(pl.queue) = <<>> /\ t = Add
    OBVIOUS
  <2> QED
    BY <2>1, <2>2
<1>3. Contains(Tail(pl.queue), Add) => Contains(pl.queue, Add)
  BY <1>1, ContainsTail
<1> HIDE DEF t
<1>4. /\ \/ t = Add /\ Place(t) = "copies"
         \/ t = Mark /\ Place(t) = "marks"
         \/ t \in Files /\ t # Add /\ t # Mark /\ Place(t) = "opens"
      /\ t # None
  <2>1. t \in Files \/ t = Add \/ t = Mark
    BY <1>1 DEF Tasks
  <2>2. t \in Files => t # Add /\ t # Mark /\ t # None
    BY FileNames
  <2> QED
    BY <2>1, <2>2, Names DEF Place
<1>5. n \in Pools
  BY <1>1, <1>4 DEF Pools, Points
<1>6. /\ n.at = Place(t) /\ n.sem = pl.sem /\ n.queue = Tail(pl.queue)
      /\ n.task = t /\ n.events = pl.events /\ n.stack = pl.stack /\ n.added = pl.added
  BY DEF Pools
<1> HIDE DEF n
<1>7. ~Rests(pl) /\ d.up /\ ~Rests(n)
  BY <1>4, <1>6, MovesUp DEF Good, Rests
<1>8. Sound(d, n)
  BY <1>4, <1>6, <1>7, Names DEF Good, Sound, Rests
<1>9. ASSUME Alive(d, pl)
      PROVE  Alive(d, n)
  <2>1. pl.task = None
    BY DEF Good, Sound
  <2>2. ~Contains(n.queue, Add)
    BY <1>2, <1>3, <1>6, <1>9, ContainsNothing DEF Alive
  <2>3. t = Add \/ d.isParsing
    BY <1>2, <1>7, <1>9, <2>1, Names DEF Alive, Quiet, Adds
  <2>4. ~d.batchTimer
    BY <1>7, <1>9 DEF Alive, Quiet
  <2>5. d.poolTask # <<>> => d.isParsing
    BY <1>9, <2>1, Names DEF Alive
  <2> QED
    BY <1>4, <1>6, <2>2, <2>3, <2>4, <2>5, Names DEF Alive, Adds
<1> QED
  BY <1>5, <1>7, <1>8, <1>9 DEF Good, Moves, Busy, n, t

(* Back to waiting, when nothing was added meanwhile with an event.         *)
LEMMA WaitingMoves ==
  ASSUME NEW d \in ParserStates, NEW pl \in Pools, NEW dying, Good(d, pl, dying),
         pl.at = "rests"
  PROVE  Moves(d, pl, d,
               [pl EXCEPT !.at = "asleep", !.sem = IF pl.queue = <<>> THEN @ ELSE 1,
                          !.events = IF pl.queue = <<>> /\ pl.added THEN @ + 1 ELSE @], dying)
<1> DEFINE n == [pl EXCEPT !.at = "asleep", !.sem = IF pl.queue = <<>> THEN @ ELSE 1,
                           !.events = IF pl.queue = <<>> /\ pl.added THEN @ + 1 ELSE @]
<1>1. ~Rests(pl) /\ d.up /\ pl.events = 0 /\ pl.sem = 0 /\ pl.added
  BY MovesUp DEF Good, Rests, Sound
<1>2. n = [pl EXCEPT !.at = "asleep", !.sem = IF pl.queue = <<>> THEN 0 ELSE 1,
                     !.events = IF pl.queue = <<>> THEN 1 ELSE 0]
  BY <1>1 DEF Pools
<1> HIDE DEF n
<1>3. n \in Pools
  BY <1>2, PointNames, PoolMoves
<1>4. /\ n.at = "asleep" /\ n.sem = (IF pl.queue = <<>> THEN 0 ELSE 1)
      /\ n.events = (IF pl.queue = <<>> THEN 1 ELSE 0)
      /\ n.queue = pl.queue /\ n.task = pl.task /\ n.stack = pl.stack /\ n.added = pl.added
  BY <1>2 DEF Pools
<1>5. Sound(d, n)
  BY <1>1, <1>4, Names DEF Good, Sound, Rests
<1>6. Alive(d, pl) => Alive(d, n)
  BY <1>1, <1>4, Names DEF Alive, Quiet, Adds, Rests
<1> QED
  BY <1>1, <1>3, <1>5, <1>6 DEF Good, Moves, Busy, n

(* The end of a task that is not an AddParseThread.                         *)
LEMMA EndedMoves ==
  ASSUME NEW d \in ParserStates, NEW pl \in Pools, NEW dying, Good(d, pl, dying),
         pl.at \in {"opens", "parses", "marks"}, NEW n \in Pools,
         n.at = "gets", n.task = None, n.stack = <<>>, n.queue = pl.queue, n.sem = pl.sem,
         n.events = pl.events, n.added = pl.added
  PROVE  Moves(d, pl, d, n, dying)
<1>1. ~Rests(pl) /\ d.up
  BY MovesUp DEF Good, Rests
<1>2. Sound(d, n)
  BY <1>1, Names DEF Good, Sound, Rests
<1>3. Alive(d, pl) => Alive(d, n)
  BY <1>1, Names DEF Alive, Quiet, Adds, Rests
<1> QED
  BY <1>1, <1>2, <1>3 DEF Good, Moves, Busy

(* A step into a file, or from one to the next.                             *)
LEMMA FileMoves ==
  ASSUME NEW d \in ParserStates, NEW pl \in Pools, NEW dying, Good(d, pl, dying),
         pl.at \in {"opens", "parses", "priority", "batch"}, NEW n \in Pools,
         n.at = pl.at \/ (pl.at = "opens" /\ n.at = "parses"),
         n.stack # <<>> => n.at \in {"parses", "priority"},
         n.task = pl.task, n.queue = pl.queue, n.sem = pl.sem,
         n.events = pl.events, n.added = pl.added
  PROVE  Moves(d, pl, d, n, dying)
<1>1. ~Rests(pl) /\ d.up /\ ~Rests(n)
  BY MovesUp DEF Good, Rests
<1>2. Sound(d, n)
  BY <1>1, Names DEF Good, Sound, Rests
<1>3. Alive(d, pl) => Alive(d, n)
  BY <1>1, Names DEF Alive, Quiet, Adds, Rests
<1> QED
  BY <1>1, <1>2, <1>3 DEF Good, Moves, Busy

(* A step of AddParseThread.                                                *)
LEMMA AddingMoves ==
  ASSUME NEW d \in ParserStates, NEW pl \in Pools, Good(d, pl, FALSE), pl.task = Add,
         NEW d2 \in ParserStates, NEW n \in Pools,
         n.at \in {"copies", "macros", "priority", "batch"},
         n.stack # <<>> => n.at = "priority",
         n.task = pl.task, n.queue = pl.queue, n.sem = pl.sem, n.events = pl.events,
         n.added = pl.added,
         d2.up = d.up, d2.isParsing = d.isParsing, d2.ignore = d.ignore,
         d2.batchTimer = d.batchTimer,
         d2.isPriority <=> n.at = "priority"
  PROVE  Moves(d, pl, d2, n, FALSE)
<1>1. pl.at \in {"copies", "macros", "priority", "batch"} /\ Sound(d, pl) /\ Alive(d, pl)
  BY DEF Good, Sound
<1>2. ~Rests(pl) /\ d.up /\ ~Rests(n)
  BY <1>1, MovesUp DEF Rests
<1>3. Sound(d2, n)
  BY <1>1, <1>2, Names DEF Sound, Rests
<1>4. Alive(d2, n)
  BY <1>1, <1>2, Names DEF Alive, Quiet, Adds, Rests
<1> QED
  BY <1>2, <1>3, <1>4 DEF Good, Moves, Busy

(* Its end: from now on the parser is parsing.                              *)
LEMMA ListedMoves ==
  ASSUME NEW d \in ParserStates, NEW pl \in Pools, Good(d, pl, FALSE), pl.at = "batch",
         NEW d2 \in ParserStates, NEW n \in Pools,
         n.at = "gets", n.task = None, n.stack = <<>>, n.queue = pl.queue, n.sem = pl.sem,
         n.events = pl.events, n.added = pl.added,
         d2.up = d.up, d2.isParsing, ~d2.ignore, d2.isPriority = d.isPriority,
         d2.batchTimer = d.batchTimer
  PROVE  Moves(d, pl, d2, n, FALSE)
<1>1. Sound(d, pl) /\ Alive(d, pl)
  BY DEF Good
<1>2. ~Rests(pl) /\ d.up /\ ~Rests(n)
  BY <1>1, MovesUp DEF Rests
<1>3. Sound(d2, n)
  BY <1>1, <1>2, Names DEF Sound, Rests
<1>4. Alive(d2, n)
  BY <1>1, <1>2, Names DEF Alive, Quiet, Adds, Rests
<1> QED
  BY <1>2, <1>3, <1>4 DEF Good, Moves, Busy

(* A task that is put in the queue, by the worker itself.                   *)
LEMMA QueuedMoves ==
  ASSUME NEW d \in ParserStates, NEW pl \in Pools, Good(d, pl, FALSE),
         pl.at \in {"parses", "batch"}, d.isParsing, NEW f \in Files,
         NEW d2 \in ParserStates, NEW n \in Pools,
         n.queue = Append(pl.queue, f), n.added, n.at = pl.at, n.task = pl.task,
         n.stack = pl.stack, n.sem = pl.sem, n.events = pl.events,
         d2.up = d.up, d2.isParsing, d2.ignore = d.ignore, d2.isPriority = d.isPriority,
         d2.batchTimer = d.batchTimer
  PROVE  Moves(d, pl, d2, n, FALSE)
<1>1. Sound(d, pl) /\ Alive(d, pl)
  BY DEF Good
<1>2. ~Rests(pl) /\ d.up /\ ~Rests(n)
  BY <1>1, MovesUp DEF Rests
<1>3. Sound(d2, n)
  BY <1>1, <1>2, Names DEF Sound, Rests
<1>4. ~Contains(n.queue, Add)
  <2>1. f \in Tasks /\ f # Add /\ pl.queue \in Seq(Tasks)
    BY FileNames DEF Pools
  <2>2. ~Contains(pl.queue, Add)
    BY <1>1 DEF Alive
  <2> QED
    BY <2>1, <2>2, ContainsAppend
<1>5. Alive(d2, n)
  BY <1>1, <1>2, <1>4, Names DEF Alive, Quiet, Adds, Rests
<1> QED
  BY <1>2, <1>3, <1>5 DEF Good, Moves, Busy

(* And one that is put in the list of tasks for later.                      *)
LEMMA LaterMoves ==
  ASSUME NEW d \in ParserStates, NEW pl \in Pools, Good(d, pl, FALSE),
         pl.at \in {"parses", "priority", "batch"}, d.isPriority \/ ~d.isParsing,
         NEW d2 \in ParserStates,
         d2.up = d.up, d2.isParsing = d.isParsing, d2.ignore = d.ignore,
         d2.isPriority = d.isPriority, d2.batchTimer = d.batchTimer
  PROVE  Moves(d, pl, d2, pl, FALSE)
<1>1. Sound(d, pl) /\ Alive(d, pl)
  BY DEF Good
<1>2. ~Rests(pl) /\ d.up
  BY <1>1, MovesUp DEF Rests
<1>3. Sound(d2, pl)
  BY <1>1, <1>2, Names DEF Sound, Rests
<1>4. pl.task = Add
  BY <1>1, Names DEF Sound, Alive
<1>5. Alive(d2, pl)
  BY <1>1, <1>2, <1>4, Names DEF Alive, Quiet, Adds, Rests, Sound
<1> QED
  BY <1>2, <1>3, <1>5 DEF Good, Moves, Busy

-----------------------------------------------------------------------------
(* The steps of a worker.                                                   *)

LEMMA MovesOn ==
  ASSUME NEW d1, NEW pl1, NEW d2, NEW pl2, NEW d3, NEW pl3, NEW dying,
         Moves(d1, pl1, d2, pl2, dying), Moves(d2, pl2, d3, pl3, dying)
  PROVE  Moves(d1, pl1, d3, pl3, dying)
BY DEF Moves

LEMMA TreeTypes ==
  ASSUME Inv, NEW p \in Parsers, NEW f \in Files,
         NEW st \in {"none", "assigned", "parsing", "done"}, Status(p, f, st)
  PROVE  tree' \in [Parsers -> Trees]
<1>1. tree[p].status \in [Files -> {"none", "assigned", "parsing", "done"}]
      /\ tree[p].reparse \in SUBSET Files
  BY Types DEF Trees
<1>2. [tree[p].status EXCEPT ![f] = st] \in [Files -> {"none", "assigned", "parsing", "done"}]
  BY <1>1
<1>3. [status |-> [tree[p].status EXCEPT ![f] = st], reparse |-> tree[p].reparse \ {f}] \in Trees
  BY <1>1, <1>2 DEF Trees
<1> QED
  BY <1>3 DEF Status, TreeIs, Inv, TypeOK

LEMMA EnteredIn ==
  ASSUME NEW f \in Files
  PROVE  Entered(f) \in Entries /\ Entered(f).file = f
BY ParserAssumption DEF Entered, Entries

LEMMA PushIn ==
  ASSUME NEW S, NEW x \in S, NEW s \in Seq(S)
  PROVE  /\ <<x>> \o s \in Seq(S) /\ <<x>> \o s # <<>>
         /\ Len(<<x>> \o s) = Len(s) + 1
         /\ (<<x>> \o s)[1] = x
<1>1. <<x>> \in Seq(S) /\ Len(<<x>>) = 1 /\ <<x>>[1] = x
  OBVIOUS
<1>2. /\ <<x>> \o s \in Seq(S)
      /\ Len(<<x>> \o s) = Len(<<x>>) + Len(s)
      /\ \A i \in 1 .. Len(<<x>>) + Len(s) : (<<x>> \o s)[i] =
                     IF i <= Len(<<x>>) THEN <<x>>[i] ELSE s[i - Len(<<x>>)]
  BY <1>1, ConcatProperties
<1>3. Len(s) \in Nat
  BY LenProperties
<1>4. Len(<<x>> \o s) = Len(s) + 1 /\ 1 \in 1 .. Len(<<x>>) + Len(s)
  BY <1>1, <1>2, <1>3
<1>5. (<<x>> \o s)[1] = x
  BY <1>1, <1>2, <1>4
<1>6. <<x>> \o s # <<>>
  BY <1>2, <1>3, <1>4, EmptySeq
<1> QED
  BY <1>2, <1>4, <1>5, <1>6

(* What Dispatch does to the list of lists.                                 *)
Queued(d) == IF (d.firstBatch /\ ~d.isPriority) \/ d.isPriority
             THEN Append(d.poolTask, <<>>) ELSE d.poolTask
WithLast(s, f) == IF Len(s) = 0 THEN s ELSE [s EXCEPT ![Len(s)] = Append(@, f)]

LEMMA QueuedIn ==
  ASSUME NEW d \in ParserStates, NEW f \in Files
  PROVE  Queued(d) \in Seq(Seq(Files)) /\ WithLast(Queued(d), f) \in Seq(Seq(Files))
<1>1. Queued(d) \in Seq(Seq(Files))
  <2>1. d.poolTask \in Seq(Seq(Files)) /\ <<>> \in Seq(Files)
    BY Lists DEF ParserStates
  <2> QED
    BY <2>1, AppendProperties DEF Queued
<1> DEFINE s == Queued(d)
<1> HIDE DEF s
<1>2. s \in Seq(Seq(Files))
  BY <1>1 DEF s
<1>3. CASE Len(s) = 0
  BY <1>2, <1>3 DEF WithLast, s
<1>4. CASE Len(s) # 0
  <2>1. Len(s) \in 1..Len(s)
    BY <1>2, <1>4, LenProperties
  <2>2. s[Len(s)] \in Seq(Files)
    BY <1>2, <2>1, ElementOfSeq
  <2>3. Append(s[Len(s)], f) \in Seq(Files)
    BY <2>2, AppendProperties
  <2>4. [s EXCEPT ![Len(s)] = Append(s[Len(s)], f)] \in Seq(Seq(Files))
    BY <1>2, <2>1, <2>3, ExceptSeq
  <2> QED
    BY <1>4, <2>4, <1>1 DEF WithLast, s
<1> QED
  BY <1>3, <1>4

LEMMA DispatchIs ==
  ASSUME NEW p \in Parsers, NEW pl, NEW f, Dispatch(p, pl, f)
  PROVE  \/ /\ ~parser[p].isPriority /\ parser[p].isParsing
            /\ ParserIs(p, [parser[p] EXCEPT !.firstBatch = FALSE, !.poolTask = Queued(parser[p])])
            /\ PoolIs(p, AddTask(pl, f))
         \/ /\ parser[p].isPriority \/ ~parser[p].isParsing
            /\ ParserIs(p, [parser[p] EXCEPT
                    !.firstBatch = parser[p].firstBatch
                                   /\ ~(parser[p].firstBatch /\ ~parser[p].isPriority),
                    !.poolTask = WithLast(Queued(parser[p]), f)])
            /\ PoolIs(p, pl)
BY DEF Dispatch, Queued, WithLast

LEMMA ParseMoves ==
  ASSUME Inv, NEW p \in Parsers, NEW pl, NEW f \in Files, NEW isLocal, Parse(p, pl, f, isLocal),
         Moves(parser[p], pool[p], parser[p], pl, deleting = p),
         pl.at \in {"parses", "priority", "batch"},
         UNCHANGED <<s_CurrentParser, deleting, wanted, requests>>
  PROVE  Inv'
<1> DEFINE d == parser[p]
<1>1. d \in ParserStates /\ pl \in Pools /\ Good(d, pl, deleting = p) /\ Sound(d, pl)
  BY Types DEF Moves, Good
<1>2. UNCHANGED wanted => wanted' \in [Parsers -> SUBSET Files]
  BY Same2
<1> HIDE DEF d
<1>3. CASE ~CanParse(p, f)
  <2>1. ParserIs(p, d) /\ PoolIs(p, pl) /\ tree' \in [Parsers -> Trees]
    BY <1>3, Same2 DEF Parse, d
  <2> QED
    BY <1>2, <2>1, WorkerMoved DEF d
<1>4. CASE CanParse(p, f) /\ parser[p].isPriority /\ isLocal
  <2> DEFINE n == [pl EXCEPT !.stack = <<Entered(f)>> \o @]
  <2>1. ParserIs(p, d) /\ PoolIs(p, n) /\ tree' \in [Parsers -> Trees]
    BY <1>4, Same2, TreeTypes DEF Parse, d
  <2>2. pl.stack \in Seq(Entries)
    BY <1>1 DEF Pools
  <2>3. <<Entered(f)>> \o pl.stack \in Seq(Entries)
    BY <2>2, EnteredIn, PushIn
  <2>4. n \in Pools
    BY <1>1, <2>3 DEF Pools
  <2>5. /\ n.at = pl.at /\ n.task = pl.task /\ n.queue = pl.queue /\ n.sem = pl.sem
        /\ n.events = pl.events /\ n.added = pl.added
    BY <1>1 DEF Pools
  <2> HIDE DEF n
  <2>6. pl.at = "priority"
    BY <1>1, <1>4 DEF Sound, d
  <2>7. Moves(d, pl, d, n, deleting = p)
    BY <1>1, <2>4, <2>5, <2>6, FileMoves
  <2> QED
    BY <1>2, <2>1, <2>7, MovesOn, WorkerMoved DEF d
<1>5. CASE CanParse(p, f) /\ ~(parser[p].isPriority /\ isLocal)
  <2>1. deleting = None /\ Dispatch(p, pl, f) /\ Status(p, f, "assigned")
    BY <1>5 DEF Parse, CriticalFree
  <2>2. tree' \in [Parsers -> Trees]
    BY <2>1, TreeTypes
  <2>3. (deleting = p) = FALSE
    BY <2>1, ParserAssumption
  <2>4. Queued(d) \in Seq(Seq(Files)) /\ WithLast(Queued(d), f) \in Seq(Seq(Files))
    BY <1>1, QueuedIn
  <2>5. CASE /\ ~d.isPriority /\ d.isParsing
             /\ ParserIs(p, [d EXCEPT !.firstBatch = FALSE, !.poolTask = Queued(d)])
             /\ PoolIs(p, AddTask(pl, f))
    <3> DEFINE d2 == [d EXCEPT !.firstBatch = FALSE, !.poolTask = Queued(d)]
               n == AddTask(pl, f)
    <3>1. d2 \in ParserStates
      BY <1>1, <2>4 DEF ParserStates
    <3>2. /\ d2.up = d.up /\ d2.isParsing = d.isParsing /\ d2.ignore = d.ignore
          /\ d2.isPriority = d.isPriority /\ d2.batchTimer = d.batchTimer
      BY <1>1 DEF ParserStates
    <3>3. Append(pl.queue, f) \in Seq(Tasks)
      BY <1>1, FileNames, AppendProperties DEF Pools
    <3>4. n = [pl EXCEPT !.queue = Append(pl.queue, f), !.added = TRUE, !.sem = pl.sem]
      BY DEF AddTask, Working
    <3>5. /\ n.queue = Append(pl.queue, f) /\ n.added /\ n.at = pl.at /\ n.task = pl.task
          /\ n.stack = pl.stack /\ n.sem = pl.sem /\ n.events = pl.events
      BY <1>1, <3>4 DEF Pools
    <3>6. n \in Pools
      BY <1>1, <3>3, <3>4 DEF Pools
    <3>7. pl.at \in {"parses", "batch"}
      BY <1>1, <2>5 DEF Sound
    <3>8. ParserIs(p, d2) /\ PoolIs(p, n)
      BY <2>5
    <3> HIDE DEF d2, n
    <3>9. Moves(d, pl, d2, n, FALSE)
      BY <1>1, <2>3, <2>5, <3>1, <3>2, <3>5, <3>6, <3>7, QueuedMoves
    <3> QED
      BY <1>2, <2>2, <2>3, <3>8, <3>9, MovesOn, WorkerMoved DEF d
  <2>6. CASE /\ d.isPriority \/ ~d.isParsing
             /\ ParserIs(p, [d EXCEPT !.firstBatch = d.firstBatch /\ ~(d.firstBatch /\ ~d.isPriority),
                                      !.poolTask = WithLast(Queued(d), f)])
             /\ PoolIs(p, pl)
    <3> DEFINE b == d.firstBatch /\ ~(d.firstBatch /\ ~d.isPriority)
               d2 == [d EXCEPT !.firstBatch = b, !.poolTask = WithLast(Queued(d), f)]
    <3>1. b \in BOOLEAN
      OBVIOUS
    <3> HIDE DEF b
    <3>2. d2 \in ParserStates
      BY <1>1, <2>4, <3>1 DEF ParserStates
    <3>3. /\ d2.up = d.up /\ d2.isParsing = d.isParsing /\ d2.ignore = d.ignore
          /\ d2.isPriority = d.isPriority /\ d2.batchTimer = d.batchTimer
      BY <1>1 DEF ParserStates
    <3>4. ParserIs(p, d2)
      BY <2>6 DEF b
    <3> HIDE DEF d2
    <3>5. Moves(d, pl, d2, pl, FALSE)
      BY <1>1, <2>3, <2>6, <3>2, <3>3, LaterMoves
    <3> QED
      BY <1>2, <2>2, <2>3, <2>6, <3>4, <3>5, MovesOn, WorkerMoved DEF d
  <2> QED
    BY <2>1, <2>5, <2>6, DispatchIs DEF d
<1> QED
  BY <1>3, <1>4, <1>5

LEMMA WaitStep ==
  ASSUME Inv, NEW p \in Parsers, Wake(p) \/ WorkingThread(p) \/ GetNextTask(p) \/ WaitingThread(p)
  PROVE  Inv'
<1> DEFINE d == parser[p]
           pl == pool[p]
<1>1. d \in ParserStates /\ pl \in Pools /\ Good(d, pl, deleting = p)
  BY Types
<1>2. UNCHANGED <<parser, tree, s_CurrentParser, deleting, wanted, requests>>
  BY DEF Wake, WorkingThread, GetNextTask, WaitingThread
<1>3. /\ ParserIs(p, d) /\ tree' \in [Parsers -> Trees]
      /\ wanted' \in [Parsers -> SUBSET Files]
  BY <1>2, Same2
<1>4. \E n : PoolIs(p, n) /\ Moves(d, pl, d, n, deleting = p)
  <2>1. CASE Wake(p)
    BY <1>1, <2>1, WakeMoves DEF Wake, Worker
  <2>2. CASE WorkingThread(p)
    BY <1>1, <2>2, WorkingMoves DEF WorkingThread, Worker, Goes
  <2>3. CASE GetNextTask(p)
    <3>1. CASE pl.queue = <<>>
      BY <1>1, <2>3, <3>1, NoTaskMoves DEF GetNextTask, Worker, Goes
    <3>2. CASE pl.queue # <<>>
      BY <1>1, <2>3, <3>2, TaskMoves DEF GetNextTask, Worker, Place
    <3> QED
      BY <3>1, <3>2
  <2>4. CASE WaitingThread(p)
    BY <1>1, <2>4, WaitingMoves DEF WaitingThread, Worker
  <2> QED
    BY <2>1, <2>2, <2>3, <2>4
<1> HIDE DEF d, pl
<1> QED
  BY <1>2, <1>3, <1>4, WorkerMoved DEF d, pl

LEMMA EndedIn ==
  ASSUME NEW pl \in Pools
  PROVE  /\ Ended(pl) \in Pools
         /\ Ended(pl).at = "gets" /\ Ended(pl).task = None /\ Ended(pl).stack = pl.stack
         /\ Ended(pl).queue = pl.queue /\ Ended(pl).sem = pl.sem
         /\ Ended(pl).events = pl.events /\ Ended(pl).added = pl.added
<1>1. Ended(pl) \in Pools
  BY PointNames DEF Ended, Pools
<1>2. /\ Ended(pl).at = "gets" /\ Ended(pl).task = None /\ Ended(pl).stack = pl.stack
      /\ Ended(pl).queue = pl.queue /\ Ended(pl).sem = pl.sem
      /\ Ended(pl).events = pl.events /\ Ended(pl).added = pl.added
  BY DEF Ended, Pools
<1> QED
  BY <1>1, <1>2

LEMMA MarkStep ==
  ASSUME Inv, NEW p \in Parsers, MarkFiles(p)
  PROVE  Inv'
<1>1. /\ parser[p] \in ParserStates /\ pool[p] \in Pools
      /\ Good(parser[p], pool[p], deleting = p) /\ pool[p].at = "marks"
  BY Types DEF MarkFiles, Worker
<1>2. pool[p].stack = <<>>
  BY <1>1 DEF Good, Sound
<1>3. PoolIs(p, Ended(pool[p])) /\ Moves(parser[p], pool[p], parser[p], Ended(pool[p]), deleting = p)
  BY <1>1, <1>2, EndedIn, EndedMoves DEF MarkFiles, TaskDone
<1> QED
  BY <1>3, Same2, WorkerMoved DEF MarkFiles

LEMMA OpenStep ==
  ASSUME Inv, NEW p \in Parsers, Open(p)
  PROVE  Inv'
<1>1. /\ parser[p] \in ParserStates /\ pool[p] \in Pools
      /\ Good(parser[p], pool[p], deleting = p) /\ pool[p].at = "opens"
      /\ UNCHANGED <<parser, s_CurrentParser, deleting, wanted, requests>>
  BY Types DEF Open, Worker
<1>2. pool[p].stack = <<>> /\ pool[p].task \in Files
  BY <1>1 DEF Good, Sound
<1>3. CASE TaskDone(p) /\ UNCHANGED tree
  <2>1. PoolIs(p, Ended(pool[p])) /\ Moves(parser[p], pool[p], parser[p], Ended(pool[p]), deleting = p)
    BY <1>1, <1>2, <1>3, EndedIn, EndedMoves DEF TaskDone
  <2> QED
    BY <1>1, <1>3, <2>1, Same2, WorkerMoved
<1>4. CASE /\ PoolIs(p, [pool[p] EXCEPT !.at = "parses", !.stack = <<Entered(pool[p].task)>>])
           /\ Status(p, pool[p].task, "parsing")
  <2> DEFINE n == [pool[p] EXCEPT !.at = "parses", !.stack = <<Entered(pool[p].task)>>]
  <2>1. <<Entered(pool[p].task)>> \in Seq(Entries)
    BY <1>2, EnteredIn
  <2>2. n \in Pools
    BY <1>1, <2>1, PointNames DEF Pools
  <2>3. /\ n.at = "parses" /\ n.task = pool[p].task /\ n.queue = pool[p].queue
        /\ n.sem = pool[p].sem /\ n.events = pool[p].events /\ n.added = pool[p].added
    BY <1>1 DEF Pools
  <2>4. PoolIs(p, n)
    BY <1>4
  <2> HIDE DEF n
  <2>5. Moves(parser[p], pool[p], parser[p], n, deleting = p)
    BY <1>1, <2>2, <2>3, FileMoves
  <2>6. tree' \in [Parsers -> Trees]
    BY <1>2, <1>4, TreeTypes
  <2> QED
    BY <1>1, <2>4, <2>5, <2>6, Same2, WorkerMoved
<1> QED
  BY <1>3, <1>4 DEF Open

LEMMA FlagStep ==
  ASSUME Inv, NEW p \in Parsers, FlagFileAsParsed(p)
  PROVE  Inv'
<1> DEFINE pl == pool[p]
           f == Top(p).file
<1>1. /\ parser[p] \in ParserStates /\ pl \in Pools /\ tree[p] \in Trees
      /\ Good(parser[p], pl, deleting = p) /\ wanted[p] \in SUBSET Files
      /\ UNCHANGED <<parser, s_CurrentParser, deleting, requests>>
  BY Types DEF FlagFileAsParsed
<1>2. pl.stack \in Seq(Entries) /\ pl.stack # <<>>
  BY <1>1 DEF Pools, FlagFileAsParsed, InFile
<1>3. pl.at \in {"parses", "priority"}
  BY <1>1, <1>2 DEF Good, Sound
<1>4. f \in Files /\ Tail(pl.stack) \in Seq(Entries) /\ Head(pl.stack) \in Entries
  <2>1. Tail(pl.stack) \in Seq(Entries) /\ Head(pl.stack) \in Entries
    BY <1>2, HeadTailProperties
  <2> QED
    BY <2>1 DEF Entries, Top
<1>5. tree' \in [Parsers -> Trees] /\ wanted' \in [Parsers -> SUBSET Files]
  <2>1. TreeIs(p, [tree[p] EXCEPT !.status = [tree[p].status EXCEPT ![f] = "done"]])
    BY DEF FlagFileAsParsed
  <2>2. tree[p].status \in [Files -> {"none", "assigned", "parsing", "done"}]
    BY <1>1 DEF Trees
  <2>3. [tree[p].status EXCEPT ![f] = "done"] \in [Files -> {"none", "assigned", "parsing", "done"}]
    BY <2>2, <1>4
  <2>4. [tree[p] EXCEPT !.status = [tree[p].status EXCEPT ![f] = "done"]] \in Trees
    BY <1>1, <2>3 DEF Trees
  <2>5. tree' \in [Parsers -> Trees]
    BY <2>1, <2>4 DEF TreeIs, Inv, TypeOK
  <2>6. wanted' \in [Parsers -> SUBSET Files]
    BY <1>1 DEF FlagFileAsParsed, Inv, TypeOK
  <2> QED
    BY <2>5, <2>6
<1> HIDE DEF f
<1>6. CASE Len(pl.stack) = 1 /\ pl.at = "parses"
  <2> DEFINE n == [Ended(pl) EXCEPT !.stack = <<>>]
  <2>1. PoolIs(p, n)
    BY <1>6 DEF FlagFileAsParsed, Worker
  <2>2. Ended(pl) \in Pools
    BY <1>1, EndedIn
  <2>3. n \in Pools
    BY <2>2, Lists DEF Pools
  <2>4. /\ n.at = "gets" /\ n.task = None /\ n.stack = <<>> /\ n.queue = pl.queue
        /\ n.sem = pl.sem /\ n.events = pl.events /\ n.added = pl.added
    BY <1>1, <2>2, EndedIn DEF Pools
  <2> HIDE DEF n
  <2>5. Moves(parser[p], pl, parser[p], n, deleting = p)
    BY <1>1, <1>6, <2>3, <2>4, EndedMoves
  <2> QED
    BY <1>1, <1>5, <2>1, <2>5, Same2, WorkerMoved
<1>7. CASE ~(Len(pl.stack) = 1 /\ pl.at = "parses")
  <2> DEFINE n == [pl EXCEPT !.stack = Tail(@)]
  <2>1. PoolIs(p, n)
    BY <1>7 DEF FlagFileAsParsed, Worker
  <2>2. n \in Pools
    BY <1>1, <1>4 DEF Pools
  <2>3. /\ n.at = pl.at /\ n.task = pl.task /\ n.queue = pl.queue
        /\ n.sem = pl.sem /\ n.events = pl.events /\ n.added = pl.added
    BY <1>1 DEF Pools
  <2> HIDE DEF n
  <2>4. Moves(parser[p], pl, parser[p], n, deleting = p)
    BY <1>1, <1>3, <2>2, <2>3, FileMoves
  <2> QED
    BY <1>1, <1>5, <2>1, <2>4, Same2, WorkerMoved
<1> QED
  BY <1>6, <1>7

LEMMA IncludeStep ==
  ASSUME Inv, NEW p \in Parsers, HandleInclude(p)
  PROVE  Inv'
<1> DEFINE pl == pool[p]
           top == Top(p)
           include == Head(top.rest)
           e == [top EXCEPT !.rest = Tail(@)]
           n == [pl EXCEPT !.stack = <<e>> \o Tail(@)]
<1>1. /\ parser[p] \in ParserStates /\ pl \in Pools /\ Good(parser[p], pl, deleting = p)
  BY Types
<1>2. pl.stack \in Seq(Entries) /\ pl.stack # <<>> /\ top.rest # <<>>
  BY <1>1 DEF Pools, HandleInclude, InFile
<1>3. pl.at \in {"parses", "priority"}
  BY <1>1, <1>2 DEF Good, Sound
<1>4. Tail(pl.stack) \in Seq(Entries) /\ top \in Entries
  BY <1>2, HeadTailProperties DEF Top
<1>5. Parse(p, n, include.file, ~include.isGlobal)
      /\ UNCHANGED <<s_CurrentParser, deleting, wanted, requests>>
  BY DEF HandleInclude
<1> HIDE DEF top, pl
<1>6. top.rest \in Seq(Include)
  BY <1>4 DEF Entries
<1>7. include \in Include /\ Tail(top.rest) \in Seq(Include)
  BY <1>2, <1>6, HeadTailProperties
<1>8. e \in Entries
  BY <1>4, <1>7 DEF Entries
<1>9. include.file \in Files
  BY <1>7 DEF Include
<1> HIDE DEF e, include
<1>10. <<e>> \o Tail(pl.stack) \in Seq(Entries)
  BY <1>4, <1>8, PushIn
<1>11. n \in Pools
  BY <1>1, <1>10 DEF Pools
<1>12. /\ n.at = pl.at /\ n.task = pl.task /\ n.queue = pl.queue
       /\ n.sem = pl.sem /\ n.events = pl.events /\ n.added = pl.added
  BY <1>1 DEF Pools
<1> HIDE DEF n
<1>13. Moves(parser[p], pl, parser[p], n, deleting = p)
  BY <1>1, <1>3, <1>11, <1>12, FileMoves
<1> QED
  BY <1>3, <1>5, <1>9, <1>12, <1>13, ParseMoves DEF pl

(* AddParseThread: its copies.                                              *)
LEMMA CopyStep ==
  ASSUME Inv, NEW p \in Parsers, CopyLists(p)
  PROVE  Inv'
<1> DEFINE d == parser[p]
           pl == pool[p]
           n == [pl EXCEPT !.at = "macros", !.priority = d.priority, !.batch = d.batch]
<1>1. d \in ParserStates /\ pl \in Pools /\ Good(d, pl, deleting = p) /\ pl.at = "copies"
      /\ (deleting = p) = FALSE
  BY Types, ParserAssumption DEF CopyLists, CriticalFree, Worker
<1>2. d.priority \in Seq(Files) /\ d.batch \in Seq(Files)
  BY <1>1 DEF ParserStates
<1>3. n \in Pools
  BY <1>1, <1>2, PointNames DEF Pools
<1>4. /\ n.at = "macros" /\ n.task = pl.task /\ n.queue = pl.queue /\ n.stack = pl.stack
      /\ n.sem = pl.sem /\ n.events = pl.events /\ n.added = pl.added
  BY <1>1 DEF Pools
<1>5. pl.task = Add /\ pl.stack = <<>> /\ ~d.isPriority
  BY <1>1 DEF Good, Sound
<1>6. PoolIs(p, n)
  BY DEF CopyLists
<1> HIDE DEF n
<1>7. Moves(d, pl, d, n, FALSE)
  BY <1>1, <1>3, <1>4, <1>5, AddingMoves
<1> QED
  BY <1>1, <1>6, <1>7, Same2, WorkerMoved DEF CopyLists

LEMMA MacrosStep ==
  ASSUME Inv, NEW p \in Parsers, MacrosParsed(p)
  PROVE  Inv'
<1> DEFINE d == parser[p]
           pl == pool[p]
           n == [pl EXCEPT !.at = "priority"]
           d2 == [d EXCEPT !.macros = FALSE, !.isPriority = TRUE]
<1>1. d \in ParserStates /\ pl \in Pools /\ Good(d, pl, deleting = p) /\ pl.at = "macros"
      /\ (deleting = p) = FALSE
  BY Types, ParserAssumption DEF MacrosParsed, CriticalFree, Worker
<1>2. /\ d2 \in ParserStates /\ d2.up = d.up /\ d2.isParsing = d.isParsing
      /\ d2.ignore = d.ignore /\ d2.batchTimer = d.batchTimer /\ d2.isPriority = TRUE
  BY <1>1 DEF ParserStates
<1>3. n \in Pools
  BY <1>1, PointNames, PoolMoves
<1>4. /\ n.at = "priority" /\ n.task = pl.task /\ n.queue = pl.queue /\ n.stack = pl.stack
      /\ n.sem = pl.sem /\ n.events = pl.events /\ n.added = pl.added
  BY <1>1 DEF Pools
<1>5. pl.task = Add
  BY <1>1 DEF Good, Sound
<1>6. PoolIs(p, n) /\ ParserIs(p, d2)
  BY DEF MacrosParsed, Goes
<1> HIDE DEF n, d2
<1>7. Moves(d, pl, d2, n, FALSE)
  BY <1>1, <1>2, <1>3, <1>4, <1>5, AddingMoves
<1> QED
  BY <1>1, <1>6, <1>7, Same2, WorkerMoved DEF MacrosParsed

LEMMA PriorityStep ==
  ASSUME Inv, NEW p \in Parsers, PriorityParsed(p)
  PROVE  Inv'
<1> DEFINE d == parser[p]
           pl == pool[p]
           n == [pl EXCEPT !.at = "batch"]
           b == d.firstBatch \/ d.ignore
           d2 == [d EXCEPT !.priority = <<>>, !.isPriority = FALSE, !.firstBatch = b]
<1>1. d \in ParserStates /\ pl \in Pools /\ Good(d, pl, deleting = p) /\ pl.at = "priority"
      /\ (deleting = p) = FALSE /\ pl.stack = <<>>
  BY Types, ParserAssumption DEF PriorityParsed, CriticalFree, Worker, InFile
<1>2. PoolIs(p, n) /\ ParserIs(p, d2)
  BY DEF PriorityParsed, Goes
<1>3. b \in BOOLEAN
  OBVIOUS
<1> HIDE DEF b
<1>4. /\ d2 \in ParserStates /\ d2.up = d.up /\ d2.isParsing = d.isParsing
      /\ d2.ignore = d.ignore /\ d2.batchTimer = d.batchTimer /\ d2.isPriority = FALSE
  BY <1>1, <1>3, Lists DEF ParserStates
<1>5. n \in Pools
  BY <1>1, PointNames, PoolMoves
<1>6. /\ n.at = "batch" /\ n.task = pl.task /\ n.queue = pl.queue /\ n.stack = pl.stack
      /\ n.sem = pl.sem /\ n.events = pl.events /\ n.added = pl.added
  BY <1>1 DEF Pools
<1>7. pl.task = Add
  BY <1>1 DEF Good, Sound
<1> HIDE DEF n, d2
<1>8. Moves(d, pl, d2, n, FALSE)
  BY <1>1, <1>4, <1>5, <1>6, <1>7, AddingMoves
<1> QED
  BY <1>1, <1>2, <1>8, Same2, WorkerMoved DEF PriorityParsed

LEMMA HeaderStep ==
  ASSUME Inv, NEW p \in Parsers, NextPriorityHeader(p)
  PROVE  Inv'
<1> DEFINE pl == pool[p]
           f == Head(pl.priority)
           n == [pl EXCEPT !.priority = Tail(@)]
<1>1. /\ parser[p] \in ParserStates /\ pl \in Pools /\ Good(parser[p], pl, deleting = p)
      /\ pl.at = "priority"
  BY Types DEF NextPriorityHeader, Worker
<1>2. Parse(p, n, f, TRUE) /\ UNCHANGED <<s_CurrentParser, deleting, wanted, requests>>
  BY DEF NextPriorityHeader
<1>3. pl.priority \in Seq(Files) /\ pl.priority # <<>>
  BY <1>1 DEF Pools, NextPriorityHeader
<1>4. f \in Files /\ Tail(pl.priority) \in Seq(Files)
  BY <1>3, HeadTailProperties
<1> HIDE DEF f
<1>5. n \in Pools
  BY <1>1, <1>4 DEF Pools
<1>6. /\ n.at = "priority" /\ n.task = pl.task /\ n.queue = pl.queue
      /\ n.sem = pl.sem /\ n.events = pl.events /\ n.added = pl.added
  BY <1>1 DEF Pools
<1> HIDE DEF n
<1>7. Moves(parser[p], pl, parser[p], n, deleting = p)
  BY <1>1, <1>5, <1>6, FileMoves
<1> QED
  BY <1>2, <1>4, <1>6, <1>7, ParseMoves

LEMMA FileStep ==
  ASSUME Inv, NEW p \in Parsers, NextBatchFile(p)
  PROVE  Inv'
<1> DEFINE pl == pool[p]
           f == Head(pl.batch)
           n == [pl EXCEPT !.batch = Tail(@)]
<1>1. /\ parser[p] \in ParserStates /\ pl \in Pools /\ Good(parser[p], pl, deleting = p)
      /\ pl.at = "batch" /\ pl.stack = <<>>
  BY Types DEF NextBatchFile, Worker, InFile
<1>2. Parse(p, n, f, TRUE) /\ UNCHANGED <<s_CurrentParser, deleting, wanted, requests>>
  BY DEF NextBatchFile
<1>3. pl.batch \in Seq(Files) /\ pl.batch # <<>>
  BY <1>1 DEF Pools, NextBatchFile
<1>4. f \in Files /\ Tail(pl.batch) \in Seq(Files)
  BY <1>3, HeadTailProperties
<1> HIDE DEF f
<1>5. n \in Pools
  BY <1>1, <1>4 DEF Pools
<1>6. /\ n.at = "batch" /\ n.task = pl.task /\ n.queue = pl.queue /\ n.stack = pl.stack
      /\ n.sem = pl.sem /\ n.events = pl.events /\ n.added = pl.added
  BY <1>1 DEF Pools
<1> HIDE DEF n
<1>7. Moves(parser[p], pl, parser[p], n, deleting = p)
  BY <1>1, <1>5, <1>6, FileMoves
<1> QED
  BY <1>2, <1>4, <1>6, <1>7, ParseMoves

LEMMA ListedStep ==
  ASSUME Inv, NEW p \in Parsers, BatchListed(p)
  PROVE  Inv'
<1> DEFINE d == parser[p]
           pl == pool[p]
           b == d.isParsing \/ d.ignore
           d2 == [d EXCEPT !.batch = <<>>, !.ignore = FALSE, !.isParsing = b]
<1>1. d \in ParserStates /\ pl \in Pools /\ Good(d, pl, deleting = p) /\ pl.at = "batch"
      /\ (deleting = p) = FALSE /\ pl.stack = <<>>
  BY Types, ParserAssumption DEF BatchListed, CriticalFree, Worker, InFile
<1>2. PoolIs(p, Ended(pl)) /\ ParserIs(p, d2)
  BY DEF BatchListed, TaskDone
<1>3. b \in BOOLEAN /\ b
  BY <1>1 DEF Good, Sound
<1> HIDE DEF b
<1>4. /\ d2 \in ParserStates /\ d2.up = d.up /\ d2.isParsing = b
      /\ d2.ignore = FALSE /\ d2.batchTimer = d.batchTimer /\ d2.isPriority = d.isPriority
  BY <1>1, <1>3, Lists DEF ParserStates
<1> HIDE DEF d2
<1>5. Moves(d, pl, d2, Ended(pl), FALSE)
  BY <1>1, <1>3, <1>4, EndedIn, ListedMoves
<1> QED
  BY <1>1, <1>2, <1>5, Same2, WorkerMoved DEF BatchListed

LEMMA WorkerSteps ==
  ASSUME Inv, NEW p \in Parsers, WorkerStep(p)
  PROVE  Inv'
BY WaitStep, OpenStep, IncludeStep, FlagStep, MarkStep, CopyStep, MacrosStep, HeaderStep,
   PriorityStep, FileStep, ListedStep DEF WorkerStep

-----------------------------------------------------------------------------
(* The handlers of the GUI thread.                                          *)

(* What the environment does not do: files are not added while an           *)
(* AddParseThread lists those before them, and no worker wakes between the  *)
(* posts of one batch.                                                      *)
Orderly == {"add while listing", "quick worker"} \cap Mishaps = {}

LEMMA HandlerMoved ==
  ASSUME Inv, NEW p \in Parsers, NEW d, NEW pl,
         ParserIs(p, d), PoolIs(p, pl),
         Moves(parser[p], pool[p], d, pl, deleting = p),
         UNCHANGED <<s_CurrentParser, deleting>>, requests' \in 0..MaxRequests,
         tree' \in [Parsers -> Trees], wanted' \in [Parsers -> SUBSET Files]
  PROVE  Inv'
<1>1. /\ d \in ParserStates /\ pl \in Pools /\ Good(d, pl, deleting' = p)
      /\ Busy(d, pl) => s_CurrentParser' = p
  BY Types DEF Moves, Turn
<1>2. /\ s_CurrentParser' = s_CurrentParser /\ deleting' = deleting
      /\ s_CurrentParser \in Parsers \cup {None} /\ deleting \in Parsers \cup {None}
  BY DEF Inv, TypeOK
<1> QED
  BY <1>1, <1>2, Moved

LEMMA RequestedIn ==
  ASSUME Inv, Requested \/ UNCHANGED requests
  PROVE  requests' \in 0..MaxRequests
<1>1. requests \in 0..MaxRequests /\ MaxRequests \in Nat
  BY ParserAssumption DEF Inv, TypeOK
<1> QED
  BY <1>1 DEF Requested

(* What a parser has to do changes, but no task of it lists anything.       *)
LEMMA ListMoves ==
  ASSUME NEW d \in ParserStates, NEW pl \in Pools, Good(d, pl, FALSE), ~Adds(pl), d.up,
         NEW d2 \in ParserStates,
         d2.up = d.up, d2.isParsing = d.isParsing, d2.ignore = d.ignore,
         d2.isPriority = d.isPriority, d2.poolTask = d.poolTask,
         d2.batchTimer => d.batchTimer \/ ~d.isParsing
  PROVE  Moves(d, pl, d2, pl, FALSE)
<1>1. Sound(d2, pl)
  BY DEF Good, Sound
<1>2. Alive(d2, pl)
  BY DEF Good, Alive, Adds
<1> QED
  BY <1>1, <1>2 DEF Good, Moves, Busy

LEMMA DoneLists ==
  ASSUME NEW p \in Parsers, NEW pl, Good(parser[p], pl, FALSE), pl = pool[p], Done(p)
  PROVE  ~Adds(pl)
<1>1. Empty(parser[p]) /\ pl.at \in {"asleep", "awake"}
  BY DEF Done, NoLists, PoolDone, Working, Empty
<1> QED
  BY <1>1, Names DEF Good, Sound, Alive, Adds

LEMMA RestartedIn ==
  ASSUME NEW d \in ParserStates
  PROVE  /\ Restarted(d) \in ParserStates
         /\ Restarted(d).batchTimer = ~d.isParsing
         /\ Restarted(d).up = d.up /\ Restarted(d).isParsing = d.isParsing
         /\ Restarted(d).ignore = d.ignore /\ Restarted(d).isPriority = d.isPriority
         /\ Restarted(d).poolTask = d.poolTask /\ Restarted(d).firstBatch = d.firstBatch
         /\ Restarted(d).batch = d.batch /\ Restarted(d).priority = d.priority
         /\ Restarted(d).macros = d.macros /\ Restarted(d).type = d.type
         /\ Restarted(d).needLocal = d.needLocal
<1> DEFINE b == ~d.isParsing
<1>1. b \in BOOLEAN
  OBVIOUS
<1>2. Restarted(d) = [d EXCEPT !.batchTimer = b]
  BY DEF Restarted
<1> HIDE DEF b
<1>3. [d EXCEPT !.batchTimer = b] \in ParserStates
  BY <1>1 DEF ParserStates
<1>4. /\ Restarted(d).batchTimer = b
      /\ Restarted(d).up = d.up /\ Restarted(d).isParsing = d.isParsing
      /\ Restarted(d).ignore = d.ignore /\ Restarted(d).isPriority = d.isPriority
      /\ Restarted(d).poolTask = d.poolTask /\ Restarted(d).firstBatch = d.firstBatch
      /\ Restarted(d).batch = d.batch /\ Restarted(d).priority = d.priority
      /\ Restarted(d).macros = d.macros /\ Restarted(d).type = d.type
      /\ Restarted(d).needLocal = d.needLocal
  BY <1>2 DEF ParserStates
<1> QED
  BY <1>2, <1>3, <1>4 DEF b

(* Files are listed, and the timer started.                                 *)
LEMMA AddParseIn ==
  ASSUME NEW d \in ParserStates, NEW fs \in Seq(Files)
  PROVE  /\ AddParse(d, fs) \in ParserStates
         /\ AddParse(d, fs).batchTimer => d.batchTimer \/ ~d.isParsing
         /\ fs # <<>> => AddParse(d, fs).batchTimer = ~d.isParsing
         /\ AddParse(d, fs).up = d.up /\ AddParse(d, fs).isParsing = d.isParsing
         /\ AddParse(d, fs).ignore = d.ignore /\ AddParse(d, fs).isPriority = d.isPriority
         /\ AddParse(d, fs).poolTask = d.poolTask /\ AddParse(d, fs).firstBatch = d.firstBatch
         /\ AddParse(d, fs).batch = d.batch \o fs /\ AddParse(d, fs).priority = d.priority
         /\ AddParse(d, fs).macros = d.macros /\ AddParse(d, fs).type = d.type
         /\ AddParse(d, fs).needLocal = d.needLocal
<1>1. d.batch \in Seq(Files)
  BY DEF ParserStates
<1>2. CASE fs = <<>>
  <2>1. AddParse(d, fs) = d /\ d.batch \o fs = d.batch
    BY <1>1, <1>2, ConcatEmptySeq DEF AddParse
  <2> QED
    BY <1>2, <2>1
<1>3. CASE fs # <<>>
  <2> DEFINE l == [d EXCEPT !.batch = @ \o fs]
  <2>1. d.batch \o fs \in Seq(Files)
    BY <1>1, ConcatProperties
  <2>2. l \in ParserStates
    BY <2>1 DEF ParserStates
  <2>3. /\ l.batchTimer = d.batchTimer /\ l.up = d.up /\ l.isParsing = d.isParsing
        /\ l.ignore = d.ignore /\ l.isPriority = d.isPriority /\ l.poolTask = d.poolTask
        /\ l.firstBatch = d.firstBatch /\ l.batch = d.batch \o fs /\ l.priority = d.priority
        /\ l.macros = d.macros /\ l.type = d.type /\ l.needLocal = d.needLocal
    BY DEF ParserStates
  <2>4. AddParse(d, fs) = Restarted(l)
    BY <1>3 DEF AddParse
  <2> HIDE DEF l
  <2>5. AddParse(d, fs) \in ParserStates /\ AddParse(d, fs).batchTimer = ~l.isParsing
    BY <2>2, <2>4, RestartedIn
  <2>6. AddParse(d, fs).batchTimer = ~d.isParsing
    BY <2>3, <2>5
  <2>7. /\ AddParse(d, fs).up = l.up /\ AddParse(d, fs).isParsing = l.isParsing
        /\ AddParse(d, fs).ignore = l.ignore /\ AddParse(d, fs).isPriority = l.isPriority
        /\ AddParse(d, fs).poolTask = l.poolTask /\ AddParse(d, fs).firstBatch = l.firstBatch
        /\ AddParse(d, fs).batch = l.batch /\ AddParse(d, fs).priority = l.priority
        /\ AddParse(d, fs).macros = l.macros /\ AddParse(d, fs).type = l.type
        /\ AddParse(d, fs).needLocal = l.needLocal
    BY <2>2, <2>4, RestartedIn
  <2> QED
    BY <1>3, <2>3, <2>5, <2>6, <2>7
<1> QED
  BY <1>2, <1>3

LEMMA OneFile ==
  ASSUME NEW f \in Files
  PROVE  <<f>> \in Seq(Files)
OBVIOUS

LEMMA TypedIn ==
  ASSUME NEW d \in ParserStates, NEW t \in {"add", "reparse"}
  PROVE  /\ Typed(d, t) \in ParserStates
         /\ Typed(d, t).type = (IF d.type = "undefined" THEN t ELSE d.type)
         /\ Typed(d, t).batchTimer = d.batchTimer
         /\ Typed(d, t).up = d.up /\ Typed(d, t).isParsing = d.isParsing
         /\ Typed(d, t).ignore = d.ignore /\ Typed(d, t).isPriority = d.isPriority
         /\ Typed(d, t).poolTask = d.poolTask /\ Typed(d, t).firstBatch = d.firstBatch
         /\ Typed(d, t).batch = d.batch /\ Typed(d, t).priority = d.priority
         /\ Typed(d, t).macros = d.macros /\ Typed(d, t).needLocal = d.needLocal
<1> DEFINE s == IF d.type = "undefined" THEN t ELSE d.type
<1>1. s \in {"create", "add", "reparse", "undefined"}
  BY DEF ParserStates
<1>2. Typed(d, t) = [d EXCEPT !.type = s]
  BY DEF Typed
<1> HIDE DEF s
<1>3. [d EXCEPT !.type = s] \in ParserStates
  BY <1>1 DEF ParserStates
<1>4. /\ Typed(d, t).type = s /\ Typed(d, t).batchTimer = d.batchTimer
      /\ Typed(d, t).up = d.up /\ Typed(d, t).isParsing = d.isParsing
      /\ Typed(d, t).ignore = d.ignore /\ Typed(d, t).isPriority = d.isPriority
      /\ Typed(d, t).poolTask = d.poolTask /\ Typed(d, t).firstBatch = d.firstBatch
      /\ Typed(d, t).batch = d.batch /\ Typed(d, t).priority = d.priority
      /\ Typed(d, t).macros = d.macros /\ Typed(d, t).needLocal = d.needLocal
  BY <1>2 DEF ParserStates
<1> QED
  BY <1>2, <1>3, <1>4 DEF s

LEMMA NewPoolIn ==
  /\ NewPool \in Pools /\ Rests(NewPool) /\ NewPool.events = 0 /\ NewPool.stack = <<>>
  /\ NewPool.task = None /\ NewPool.at = "asleep" /\ NewPool.queue = <<>> /\ NewPool.sem = 0
  /\ NewPool.abort = FALSE
BY Lists, PointNames DEF NewPool, Pools, Rests

LEMMA DownIn ==
  /\ Down \in ParserStates /\ ~Down.up /\ Down.ignore /\ ~Down.isParsing /\ ~Down.batchTimer
  /\ ~Down.isPriority /\ Down.poolTask = <<>> /\ ~Down.firstBatch
BY Lists DEF Down, ParserStates

LEMMA EmptyTreeIn == EmptyTree \in Trees
BY DEF EmptyTree, Trees

LEMMA NewGood ==
  ASSUME NEW d, d.up \/ d = Down, ~d.isPriority, ~d.isParsing, d.ignore, d.poolTask = <<>>
  PROVE  Good(d, NewPool, FALSE) /\ ~Busy(d, NewPool)
<1>1. ~Contains(NewPool.queue, Add)
  BY NewPoolIn, ContainsNothing
<1>2. Sound(d, NewPool)
  BY NewPoolIn, Names DEF Sound
<1>3. Alive(d, NewPool)
  BY <1>1, NewPoolIn, Names DEF Alive, Quiet
<1> QED
  BY <1>2, <1>3, NewPoolIn DEF Good, Busy

LEMMA InitInv == ASSUME Init PROVE Inv
<1>1. TypeOK
  <2> MaxRequests \in Nat
    BY ParserAssumption
  <2>1. 0 \in 0..MaxRequests
    OBVIOUS
  <2> QED
    BY <2>1, DownIn, NewPoolIn, EmptyTreeIn DEF Init, TypeOK
<1>2. ASSUME NEW p \in Parsers
      PROVE  Good(parser[p], pool[p], deleting = p) /\ Turn(p)
  <2>1. parser[p] = Down /\ pool[p] = NewPool
    BY DEF Init
  <2>2. Good(Down, NewPool, FALSE) /\ ~Busy(Down, NewPool)
    BY DownIn, NewGood
  <2> QED
    BY <2>1, <2>2 DEF Good, Turn
<1> QED
  BY <1>1, <1>2 DEF Inv

LEMMA CreateStep ==
  ASSUME Inv, NEW p \in Parsers, CreateParser(p)
  PROVE  Inv'
<1> DEFINE c == Contents[p]
           b == c.macros \/ c.priority # <<>> \/ c.batch # <<>>
           d2 == [Down EXCEPT !.up = TRUE, !.macros = c.macros, !.priority = c.priority,
                              !.system = c.system, !.batch = c.batch, !.batchTimer = b]
<1>1. /\ c.macros \in BOOLEAN /\ c.priority \in Seq(Files) /\ c.system \in Seq(Files)
      /\ c.batch \in Seq(Files)
  BY ParserAssumption
<1>2. /\ ParserIs(p, d2) /\ PoolIs(p, NewPool) /\ TreeIs(p, EmptyTree)
      /\ wanted' = [wanted EXCEPT ![p] = Range(c.priority) \cup Range(c.batch)]
      /\ UNCHANGED <<s_CurrentParser, deleting>> /\ Requested /\ deleting = None
  BY DEF CreateParser
<1>3. Range(c.priority) \cup Range(c.batch) \in SUBSET Files
  BY <1>1, RangeOfSeq
<1>4. b \in BOOLEAN
  OBVIOUS
<1> HIDE DEF c, b
<1>5. /\ d2 \in ParserStates /\ d2.up /\ ~d2.isPriority /\ ~d2.isParsing /\ d2.ignore
      /\ d2.poolTask = <<>>
  BY <1>1, <1>4, DownIn DEF ParserStates
<1> HIDE DEF d2
<1>6. (deleting = p) = FALSE
  BY <1>2, ParserAssumption
<1>7. Moves(parser[p], pool[p], d2, NewPool, deleting = p)
  BY <1>5, <1>6, NewGood, NewPoolIn DEF Moves
<1>8. tree' \in [Parsers -> Trees] /\ wanted' \in [Parsers -> SUBSET Files]
  BY <1>2, <1>3, EmptyTreeIn DEF TreeIs, Inv, TypeOK
<1> QED
  BY <1>2, <1>7, <1>8, HandlerMoved, RequestedIn

LEMMA AddStep ==
  ASSUME Orderly, Inv, NEW p \in Parsers, NEW f \in Files, AddFile(p, f)
  PROVE  Inv'
<1> DEFINE d == parser[p]
           pl == pool[p]
           a == AddParse(Typed(d, "add"), <<f>>)
           b == a.needLocal \/ p \in Projects
           d2 == [a EXCEPT !.needLocal = b]
<1>1. /\ d \in ParserStates /\ pl \in Pools /\ Good(d, pl, deleting = p)
      /\ (deleting = p) = FALSE /\ d.up /\ wanted[p] \in SUBSET Files
  BY Types, ParserAssumption DEF AddFile, Free
<1>2. ~Adds(pl)
  BY DEF AddFile, Orderly, Listing, Adds
<1>3. /\ ParserIs(p, d2) /\ Requested
      /\ wanted' = [wanted EXCEPT ![p] = @ \cup {f}]
      /\ UNCHANGED <<tree, pool, s_CurrentParser, deleting>>
  BY DEF AddFile
<1>4. /\ a \in ParserStates
      /\ a.batchTimer => d.batchTimer \/ ~d.isParsing
      /\ a.up = d.up /\ a.isParsing = d.isParsing /\ a.ignore = d.ignore
      /\ a.isPriority = d.isPriority /\ a.poolTask = d.poolTask
  <2>1. <<f>> \in Seq(Files)
    BY OneFile
  <2> DEFINE t == Typed(d, "add")
  <2>2. /\ t \in ParserStates /\ t.batchTimer = d.batchTimer
        /\ t.up = d.up /\ t.isParsing = d.isParsing /\ t.ignore = d.ignore
        /\ t.isPriority = d.isPriority /\ t.poolTask = d.poolTask
    BY <1>1, TypedIn
  <2> HIDE DEF t, d
  <2>3. /\ a \in ParserStates
        /\ a.batchTimer => t.batchTimer \/ ~t.isParsing
        /\ a.up = t.up /\ a.isParsing = t.isParsing /\ a.ignore = t.ignore
        /\ a.isPriority = t.isPriority /\ a.poolTask = t.poolTask
    BY <2>1, <2>2, AddParseIn DEF t
  <2> QED
    BY <2>2, <2>3
<1>5. b \in BOOLEAN
  OBVIOUS
<1> HIDE DEF a, b
<1>6. /\ d2 \in ParserStates /\ d2.batchTimer = a.batchTimer
      /\ d2.up = a.up /\ d2.isParsing = a.isParsing /\ d2.ignore = a.ignore
      /\ d2.isPriority = a.isPriority /\ d2.poolTask = a.poolTask
  BY <1>4, <1>5 DEF ParserStates
<1> HIDE DEF d2
<1>7. Moves(d, pl, d2, pl, deleting = p)
  BY <1>1, <1>2, <1>4, <1>6, ListMoves
<1>8. wanted' \in [Parsers -> SUBSET Files]
  BY <1>1, <1>3 DEF Inv, TypeOK
<1> QED
  BY <1>3, <1>7, <1>8, Same2, HandlerMoved, RequestedIn

LEMMA ReparseStep ==
  ASSUME Inv, NEW p \in Parsers, NEW f \in Files, Reparse(p, f)
  PROVE  Inv'
<1> DEFINE d == parser[p]
           pl == pool[p]
           d2 == [d EXCEPT !.reparseTimer = TRUE]
           tr == [tree[p] EXCEPT !.reparse = @ \cup {f}]
<1>1. /\ d \in ParserStates /\ pl \in Pools /\ Good(d, pl, deleting = p)
      /\ (deleting = p) = FALSE /\ d.up /\ wanted[p] \in SUBSET Files /\ tree[p] \in Trees
  BY Types, ParserAssumption DEF Reparse, Free
<1>2. ~Adds(pl)
  BY <1>1, DoneLists DEF Reparse
<1>3. /\ ParserIs(p, d2) /\ Requested /\ TreeIs(p, tr)
      /\ wanted' = [wanted EXCEPT ![p] = @ \cup {f}]
      /\ UNCHANGED <<pool, s_CurrentParser, deleting>>
  BY DEF Reparse
<1>4. /\ d2 \in ParserStates /\ d2.batchTimer = d.batchTimer
      /\ d2.up = d.up /\ d2.isParsing = d.isParsing /\ d2.ignore = d.ignore
      /\ d2.isPriority = d.isPriority /\ d2.poolTask = d.poolTask
  BY <1>1 DEF ParserStates
<1>5. tr \in Trees
  BY <1>1 DEF Trees
<1> HIDE DEF d2, tr
<1>6. Moves(d, pl, d2, pl, deleting = p)
  BY <1>1, <1>2, <1>4, ListMoves
<1>7. tree' \in [Parsers -> Trees] /\ wanted' \in [Parsers -> SUBSET Files]
  BY <1>1, <1>3, <1>5 DEF TreeIs, Inv, TypeOK
<1> QED
  BY <1>3, <1>6, <1>7, Same2, HandlerMoved, RequestedIn

LEMMA SeqsIn ==
  ASSUME NEW S \in SUBSET Files, NEW s \in SetToSeqs(S)
  PROVE  s \in Seq(Files)
<1>1. Cardinality(S) \in Nat
  BY ParserAssumption, FS_Subset, FS_CardinalityType
<1>2. s \in [1..Cardinality(S) -> S]
  BY DEF SetToSeqs
<1> QED
  BY <1>1, <1>2

LEMMA ReparseTimerStep ==
  ASSUME Inv, NEW p \in Parsers, OnReparseTimer(p)
  PROVE  Inv'
<1> DEFINE d == parser[p]
           pl == pool[p]
<1>1. /\ d \in ParserStates /\ pl \in Pools /\ Good(d, pl, deleting = p)
      /\ (deleting = p) = FALSE /\ d.up /\ tree[p] \in Trees
  BY Types, ParserAssumption DEF OnReparseTimer, Free
<1>2. UNCHANGED <<tree, pool, s_CurrentParser, deleting, wanted, requests>>
  BY DEF OnReparseTimer
<1>3. PoolIs(p, pl) /\ tree' \in [Parsers -> Trees] /\ wanted' \in [Parsers -> SUBSET Files]
      /\ requests' \in 0..MaxRequests
  BY <1>2, Same2, RequestedIn
<1>4. CASE ~Done(p)
  <2>1. UNCHANGED vars
    BY <1>2, <1>4 DEF OnReparseTimer, vars
  <2> QED
    BY <2>1 DEF vars, Inv, TypeOK, Turn
<1>5. CASE Done(p)
  <2>1. PICK fs \in SetToSeqs(tree[p].reparse) :
          ParserIs(p, AddParse([IF fs = <<>> THEN d ELSE Typed(d, "reparse")
                                  EXCEPT !.reparseTimer = FALSE], fs))
    BY <1>5 DEF OnReparseTimer
  <2> DEFINE t == IF fs = <<>> THEN d ELSE Typed(d, "reparse")
             r == [t EXCEPT !.reparseTimer = FALSE]
             a == AddParse(r, fs)
  <2>2. ParserIs(p, a)
    BY <2>1
  <2>3. fs \in Seq(Files)
    BY <1>1, SeqsIn DEF Trees
  <2>4. /\ t \in ParserStates /\ t.batchTimer = d.batchTimer
        /\ t.up = d.up /\ t.isParsing = d.isParsing /\ t.ignore = d.ignore
        /\ t.isPriority = d.isPriority /\ t.poolTask = d.poolTask
    BY <1>1, TypedIn
  <2> HIDE DEF t
  <2>5. /\ r \in ParserStates /\ r.batchTimer = t.batchTimer
        /\ r.up = t.up /\ r.isParsing = t.isParsing /\ r.ignore = t.ignore
        /\ r.isPriority = t.isPriority /\ r.poolTask = t.poolTask
    BY <2>4 DEF ParserStates
  <2> HIDE DEF r
  <2>6. /\ a \in ParserStates
        /\ a.batchTimer => r.batchTimer \/ ~r.isParsing
        /\ a.up = r.up /\ a.isParsing = r.isParsing /\ a.ignore = r.ignore
        /\ a.isPriority = r.isPriority /\ a.poolTask = r.poolTask
    BY <2>3, <2>5, AddParseIn
  <2> HIDE DEF a, d
  <2>7. ~Adds(pl)
    BY <1>1, <1>5, DoneLists DEF d
  <2>8. Moves(d, pl, a, pl, deleting = p)
    BY <1>1, <2>4, <2>5, <2>6, <2>7, ListMoves
  <2> QED
    BY <1>2, <1>3, <2>2, <2>8, HandlerMoved DEF d
<1> QED
  BY <1>4, <1>5

(* The next list of tasks goes to the pool.                                 *)
LEMMA BatchIs ==
  ASSUME Orderly, NEW pl \in Pools, NEW ts \in Seq(Files), NEW n \in BatchOf(pl, ts),
         pl.queue = <<>>
  PROVE  /\ n \in Pools
         /\ n.queue = ts /\ n.sem = (IF ts = <<>> THEN pl.sem ELSE 1)
         /\ n.added \/ (ts = <<>> /\ n.added = pl.added)
         /\ n.at = pl.at /\ n.events = pl.events
         /\ n.task = pl.task /\ n.stack = pl.stack /\ n.abort = pl.abort
<1> DEFINE b == pl.added \/ ts # <<>>
           added == [pl EXCEPT !.queue = ts, !.added = b]
<1>1. pl.queue \o ts = ts /\ ts \in Seq(Tasks)
  BY FilesAreTasks, ConcatEmptySeq
<1>2. n = IF ts = <<>> THEN added ELSE [added EXCEPT !.sem = 1]
  BY <1>1 DEF BatchOf, Orderly
<1>3. b \in BOOLEAN /\ (b \/ (ts = <<>> /\ b = pl.added))
  BY DEF Pools
<1> HIDE DEF b
<1>4. /\ added \in Pools /\ added.queue = ts /\ added.sem = pl.sem /\ added.added = b
      /\ added.at = pl.at /\ added.events = pl.events
      /\ added.task = pl.task /\ added.stack = pl.stack /\ added.abort = pl.abort
  BY <1>1, <1>3 DEF Pools
<1> HIDE DEF added
<1>5. CASE ts = <<>>
  BY <1>2, <1>3, <1>4, <1>5
<1>6. CASE ts # <<>>
  <2>1. n = [added EXCEPT !.sem = 1]
    BY <1>2, <1>6
  <2>2. n \in Pools
    BY <1>4, <2>1, PointNames DEF Pools
  <2>3. /\ n.queue = added.queue /\ n.sem = 1 /\ n.added = added.added /\ n.at = added.at
        /\ n.events = added.events /\ n.task = added.task /\ n.stack = added.stack
        /\ n.abort = added.abort
    BY <1>4, <2>1 DEF Pools
  <2> QED
    BY <1>3, <1>4, <1>6, <2>2, <2>3
<1> QED
  BY <1>5, <1>6

(* One task is added while nothing is under way.                            *)
LEMMA AddTaskIs ==
  ASSUME NEW pl \in Pools, NEW t \in Tasks, Rests(pl)
  PROVE  /\ AddTask(pl, t) \in Pools
         /\ AddTask(pl, t).queue = <<t>> /\ AddTask(pl, t).sem = 1 /\ AddTask(pl, t).added
         /\ AddTask(pl, t).at = "asleep" /\ AddTask(pl, t).events = pl.events
         /\ AddTask(pl, t).task = pl.task /\ AddTask(pl, t).stack = pl.stack
         /\ AddTask(pl, t).abort = pl.abort
<1>1. pl.queue = <<>> /\ pl.at = "asleep" /\ <<t>> \in Seq(Tasks)
  BY DEF Rests
<1>2. AddTask(pl, t) = [pl EXCEPT !.queue = <<t>>, !.added = TRUE, !.sem = 1]
  BY <1>1, AppendToNothing DEF AddTask, Working
<1>3. AddTask(pl, t) \in Pools
  BY <1>1, <1>2, PointNames DEF Pools
<1> QED
  BY <1>1, <1>2, <1>3 DEF Pools

LEMMA TimerOff ==
  ASSUME NEW d \in ParserStates
  PROVE  LET d2 == [d EXCEPT !.batchTimer = FALSE] IN
         /\ d2 \in ParserStates /\ ~d2.batchTimer
         /\ d2.up = d.up /\ d2.isParsing = d.isParsing /\ d2.ignore = d.ignore
         /\ d2.isPriority = d.isPriority /\ d2.poolTask = d.poolTask
         /\ d2.priority = d.priority /\ d2.batch = d.batch /\ d2.macros = d.macros
         /\ d2.firstBatch = d.firstBatch /\ d2.needLocal = d.needLocal /\ d2.type = d.type
BY DEF ParserStates

(* Why the timer of a parser runs: nothing of it is under way.              *)
LEMMA TimerRests ==
  ASSUME NEW d, NEW pl, Good(d, pl, FALSE), d.batchTimer
  PROVE  /\ Rests(pl) /\ pl.events = 0 /\ pl.task = None /\ pl.queue = <<>> /\ pl.at = "asleep"
         /\ d.poolTask # <<>> => d.isParsing
<1>1. Rests(pl) /\ pl.events = 0
  BY DEF Good, Alive, Quiet
<1>2. pl.task = None /\ pl.queue = <<>> /\ pl.at = "asleep"
  BY <1>1 DEF Good, Sound, Rests
<1>3. d.poolTask # <<>> => d.isParsing
  BY <1>2, Names DEF Good, Alive
<1> QED
  BY <1>1, <1>2, <1>3

LEMMA TasksMove ==
  ASSUME NEW d \in ParserStates, NEW pl \in Pools, Good(d, pl, FALSE), d.up, d.isParsing,
         Rests(pl), NEW d2 \in ParserStates, NEW n \in Pools,
         n.at = "asleep", n.task = None, n.stack = pl.stack, n.events = 0,
         ~Contains(n.queue, Add), n.added \/ Rests(n),
         d2.up = d.up, d2.isParsing = d.isParsing, d2.ignore = d.ignore,
         d2.isPriority = d.isPriority, ~d2.batchTimer
  PROVE  Moves(d, pl, d2, n, FALSE)
<1>1. pl.at = "asleep"
  BY DEF Rests
<1>2. Sound(d2, n)
  BY <1>1, Names DEF Good, Sound, Rests
<1>3. Alive(d2, n)
  BY Names DEF Alive
<1> QED
  BY <1>2, <1>3 DEF Good, Moves, Busy

LEMMA BatchTimerStep ==
  ASSUME Orderly, Inv, NEW p \in Parsers, OnBatchTimer(p)
  PROVE  Inv'
<1> DEFINE d == parser[p]
           pl == pool[p]
           d1 == [d EXCEPT !.batchTimer = FALSE]
<1>1. /\ d \in ParserStates /\ pl \in Pools /\ Good(d, pl, deleting = p)
      /\ (deleting = p) = FALSE /\ d.up /\ d.batchTimer /\ MyTurn(p)
  BY Types, ParserAssumption DEF OnBatchTimer, Free
<1>2. UNCHANGED <<tree, deleting, wanted, requests>>
  BY DEF OnBatchTimer
<1>3. /\ tree' \in [Parsers -> Trees] /\ wanted' \in [Parsers -> SUBSET Files]
      /\ requests' \in 0..MaxRequests
  BY <1>2, Same2, RequestedIn
<1>4. /\ Rests(pl) /\ pl.events = 0 /\ pl.task = None /\ pl.queue = <<>> /\ pl.at = "asleep"
      /\ d.poolTask # <<>> => d.isParsing
  BY <1>1, TimerRests
<1>5. /\ d1 \in ParserStates /\ ~d1.batchTimer
      /\ d1.up = d.up /\ d1.isParsing = d.isParsing /\ d1.ignore = d.ignore
      /\ d1.isPriority = d.isPriority /\ d1.poolTask = d.poolTask
      /\ d1.priority = d.priority /\ d1.batch = d.batch /\ d1.macros = d.macros
  BY <1>1, TimerOff
<1>6. CASE /\ d1.poolTask # <<>>
           /\ \E n \in BatchOf(pl, Head(d1.poolTask)) : PoolIs(p, n)
           /\ ParserIs(p, [d1 EXCEPT !.poolTask = Tail(@)])
           /\ UNCHANGED s_CurrentParser
  <2> DEFINE d2 == [d1 EXCEPT !.poolTask = Tail(@)]
             ts == Head(d1.poolTask)
  <2>1. PICK n \in BatchOf(pl, ts) : PoolIs(p, n)
    BY <1>6
  <2>2. ParserIs(p, d2)
    BY <1>6
  <2> HIDE DEF d1
  <2>3. d1.poolTask \in Seq(Seq(Files))
    BY <1>5 DEF ParserStates
  <2>4. ts \in Seq(Files) /\ Tail(d1.poolTask) \in Seq(Seq(Files))
    BY <1>6, <2>3, HeadTailProperties
  <2> HIDE DEF ts
  <2>5. /\ d2 \in ParserStates /\ d2.batchTimer = d1.batchTimer /\ d2.up = d1.up
        /\ d2.isParsing = d1.isParsing /\ d2.ignore = d1.ignore
        /\ d2.isPriority = d1.isPriority
    BY <1>5, <2>4 DEF ParserStates
  <2> HIDE DEF d2
  <2>6. /\ n \in Pools /\ n.queue = ts /\ n.sem = (IF ts = <<>> THEN pl.sem ELSE 1)
        /\ n.added \/ (ts = <<>> /\ n.added = pl.added)
        /\ n.at = pl.at /\ n.events = pl.events
        /\ n.task = pl.task /\ n.stack = pl.stack
    BY <1>1, <1>4, <2>1, <2>4, BatchIs
  <2>7. ~Contains(n.queue, Add)
    BY <2>4, <2>6, FileNames, ContainsFiles
  <2>8. n.added \/ Rests(n)
    BY <1>4, <2>6 DEF Rests
  <2>9. Moves(d, pl, d2, n, deleting = p)
    BY <1>1, <1>4, <1>5, <1>6, <2>5, <2>6, <2>7, <2>8, TasksMove
  <2> QED
    BY <1>2, <1>3, <1>6, <2>1, <2>2, <2>9, HandlerMoved
<1>7. CASE /\ d1.poolTask = <<>> /\ ~NoLists(p)
           /\ PoolIs(p, AddTask(pl, Add))
           /\ ParserIs(p, d1)
           /\ s_CurrentParser' = p
  <2> DEFINE n == AddTask(pl, Add)
  <2>1. Add \in Tasks
    BY DEF Tasks
  <2>2. PoolIs(p, n) /\ ParserIs(p, d1)
    BY <1>7
  <2>3. /\ n \in Pools /\ n.queue = <<Add>> /\ n.sem = 1 /\ n.added
        /\ n.at = "asleep" /\ n.events = 0 /\ n.task = None /\ n.stack = pl.stack
    BY <1>1, <1>4, <2>1, AddTaskIs
  <2> HIDE DEF n, d1
  <2>4. Contains(n.queue, Add) /\ ~Empty(d1)
    BY <1>5, <1>7, <2>3, ContainsOne DEF NoLists, Empty
  <2>5. Sound(d1, n)
    BY <1>1, <1>4, <1>5, <2>3, Names DEF Good, Sound
  <2>6. Alive(d1, n)
    BY <1>5, <1>7, <2>3, <2>4 DEF Alive, Adds
  <2>7. Good(d1, n, deleting' = p)
    BY <2>5, <2>6 DEF Good
  <2>8. \A q \in Parsers : q # p /\ s_CurrentParser = q => s_CurrentParser' = q
    BY <1>1, ParserAssumption DEF MyTurn
  <2>9. s_CurrentParser' \in Parsers \cup {None} /\ deleting' \in Parsers \cup {None}
    BY <1>2, <1>7 DEF Inv, TypeOK
  <2> QED
    BY <1>2, <1>3, <1>5, <1>7, <2>2, <2>3, <2>7, <2>8, <2>9, Moved
<1> QED
  BY <1>6, <1>7 DEF OnBatchTimer

(* The event is handled: the pool rests, and has nothing to say.            *)
LEMMA TookIn ==
  ASSUME NEW pl \in Pools, NEW d, NEW dying, Good(d, pl, dying), pl.events > 0
  PROVE  LET took == [pl EXCEPT !.events = @ - 1] IN
         /\ took \in Pools /\ took.events = 0 /\ Rests(took) /\ took.task = None
         /\ took.queue = <<>> /\ took.at = "asleep" /\ took.sem = 0
         /\ took.stack = pl.stack /\ took.added = pl.added /\ took.abort = pl.abort
         /\ Rests(pl)
<1> DEFINE took == [pl EXCEPT !.events = @ - 1]
<1>1. pl.events \in 0..1
  BY DEF Pools
<1>2. pl.events = 1
  BY <1>1
<1>3. Rests(pl) /\ pl.at = "asleep" /\ pl.sem = 0 /\ pl.queue = <<>> /\ pl.task = None
  BY <1>2 DEF Good, Sound, Rests
<1>4. took = [pl EXCEPT !.events = 0]
  BY <1>2
<1> HIDE DEF took
<1>5. took \in Pools
  BY <1>4, PointNames DEF Pools
<1>6. /\ took.events = 0 /\ took.task = None
      /\ took.queue = <<>> /\ took.at = "asleep" /\ took.sem = 0
      /\ took.stack = pl.stack /\ took.added = pl.added /\ took.abort = pl.abort
  BY <1>3, <1>4 DEF Pools
<1>7. Rests(took)
  BY <1>6 DEF Rests
<1> QED
  BY <1>3, <1>5, <1>6, <1>7 DEF took

LEMMA RestMoves ==
  ASSUME NEW d \in ParserStates, NEW pl \in Pools, Good(d, pl, FALSE), d.up, Rests(pl),
         NEW d2 \in ParserStates, NEW n \in Pools,
         n.at = "asleep", n.task = None, n.stack = pl.stack, n.events = 0, n.sem = 0,
         n.queue = <<>>,
         d2.up = d.up, d2.isParsing = d.isParsing, d2.ignore = d.ignore,
         d2.isPriority = d.isPriority, d2.poolTask = d.poolTask
  PROVE  Moves(d, pl, d2, n, FALSE)
<1>1. Rests(n) /\ ~Contains(n.queue, Add) /\ pl.task = None
  BY ContainsNothing DEF Rests, Good, Sound
<1>2. Sound(d2, n)
  BY <1>1, Names DEF Good, Sound, Rests
<1>3. Alive(d2, n)
  BY <1>1, Names DEF Good, Alive, Quiet
<1> QED
  BY <1>1, <1>2, <1>3 DEF Good, Moves, Busy

LEMMA DoneStep ==
  ASSUME Inv, NEW p \in Parsers, OnAllThreadsDone(p)
  PROVE  Inv'
<1> DEFINE d == parser[p]
           pl == pool[p]
           took == [pl EXCEPT !.events = @ - 1]
<1>1. /\ d \in ParserStates /\ pl \in Pools /\ Good(d, pl, deleting = p) /\ pl.events > 0
      /\ (deleting = p) = FALSE /\ d.up /\ tree[p] \in Trees /\ wanted[p] \in SUBSET Files
      /\ Turn(p)
  BY Types, ParserAssumption DEF OnAllThreadsDone, Free
<1>2. UNCHANGED <<deleting, requests>> /\ requests' \in 0..MaxRequests
  BY RequestedIn DEF OnAllThreadsDone
<1>3. /\ took \in Pools /\ took.events = 0 /\ Rests(took) /\ took.task = None
      /\ took.queue = <<>> /\ took.at = "asleep" /\ took.sem = 0
      /\ took.stack = pl.stack /\ took.added = pl.added /\ Rests(pl)
  BY <1>1, TookIn
<1> DEFINE ignored == d.ignore \/ ~d.isParsing
           b == d.batchTimer \/ ~ignored
           mark == d.type \in {"create", "add"} /\ d.needLocal /\ p \in Projects
           more == d.poolTask # <<>> \/ ~NoLists(p)
<1>4. CASE /\ ignored \/ more
           /\ ParserIs(p, [d EXCEPT !.batchTimer = b])
           /\ PoolIs(p, took) /\ UNCHANGED <<tree, s_CurrentParser, wanted>>
  <2> DEFINE d2 == [d EXCEPT !.batchTimer = b]
  <2>1. b \in BOOLEAN
    OBVIOUS
  <2>2. PoolIs(p, took) /\ ParserIs(p, d2) /\ UNCHANGED <<tree, s_CurrentParser, wanted>>
    BY <1>4
  <2> HIDE DEF b, took
  <2>3. /\ d2 \in ParserStates /\ d2.up = d.up /\ d2.isParsing = d.isParsing
        /\ d2.ignore = d.ignore /\ d2.isPriority = d.isPriority /\ d2.poolTask = d.poolTask
    BY <1>1, <2>1 DEF ParserStates
  <2> HIDE DEF d2
  <2>4. Moves(d, pl, d2, took, deleting = p)
    BY <1>1, <1>3, <2>3, RestMoves
  <2> QED
    BY <1>2, <2>2, <2>4, Same2, HandlerMoved
<1>5. CASE /\ d.poolTask = <<>>
           /\ TreeIs(p, [status |-> [f \in Files |-> IF Contains(d.system, f) THEN "none"
                                                     ELSE tree[p].status[f]],
                         reparse |-> tree[p].reparse \ Range(d.system)])
           /\ ParserIs(p, [d EXCEPT !.batch = d.system, !.system = <<>>, !.batchTimer = TRUE])
           /\ wanted' = [wanted EXCEPT ![p] = @ \cup Range(d.system)]
           /\ PoolIs(p, took) /\ UNCHANGED s_CurrentParser
  <2> DEFINE d2 == [d EXCEPT !.batch = d.system, !.system = <<>>, !.batchTimer = TRUE]
             st == [f \in Files |-> IF Contains(d.system, f) THEN "none"
                                    ELSE tree[p].status[f]]
             tr == [status |-> st, reparse |-> tree[p].reparse \ Range(d.system)]
  <2>1. PoolIs(p, took) /\ ParserIs(p, d2) /\ TreeIs(p, tr) /\ UNCHANGED s_CurrentParser
    BY <1>5
  <2>2. d.system \in Seq(Files)
    BY <1>1 DEF ParserStates
  <2>3. Range(d.system) \in SUBSET Files
    BY <2>2, RangeOfSeq
  <2> HIDE DEF took
  <2>4. /\ d2 \in ParserStates /\ d2.up = d.up /\ d2.isParsing = d.isParsing
        /\ d2.ignore = d.ignore /\ d2.isPriority = d.isPriority /\ d2.poolTask = d.poolTask
    BY <1>1, <2>2, Lists DEF ParserStates
  <2>5. st \in [Files -> {"none", "assigned", "parsing", "done"}]
    BY <1>1 DEF Trees
  <2> HIDE DEF st
  <2>6. tr \in Trees
    BY <1>1, <2>5 DEF Trees
  <2> HIDE DEF d2, tr
  <2>7. tree' \in [Parsers -> Trees] /\ wanted' \in [Parsers -> SUBSET Files]
    BY <1>1, <1>5, <2>1, <2>3, <2>6 DEF TreeIs, Inv, TypeOK
  <2>8. Moves(d, pl, d2, took, deleting = p)
    BY <1>1, <1>3, <2>4, RestMoves
  <2> QED
    BY <1>2, <2>1, <2>7, <2>8, HandlerMoved
<1>6. CASE /\ ~ignored
           /\ ParserIs(p, [d EXCEPT !.needLocal = FALSE])
           /\ PoolIs(p, AddTask(took, Mark))
           /\ UNCHANGED <<tree, s_CurrentParser, wanted>>
  <2> DEFINE d2 == [d EXCEPT !.needLocal = FALSE]
             n == AddTask(took, Mark)
  <2>1. PoolIs(p, n) /\ ParserIs(p, d2) /\ UNCHANGED <<tree, s_CurrentParser, wanted>>
        /\ d.isParsing
    BY <1>6
  <2>2. ~d.batchTimer
    <3>1. d.batchTimer => pl.events = 0
      BY <1>1, TimerRests
    <3> QED
      BY <1>1, <3>1
  <2> HIDE DEF took
  <2>3. /\ d2 \in ParserStates /\ d2.up = d.up /\ d2.isParsing = d.isParsing
        /\ d2.ignore = d.ignore /\ d2.isPriority = d.isPriority
        /\ d2.batchTimer = d.batchTimer
    BY <1>1 DEF ParserStates
  <2>4. Mark \in Tasks
    BY DEF Tasks
  <2>5. /\ n \in Pools /\ n.queue = <<Mark>> /\ n.sem = 1 /\ n.added
        /\ n.at = "asleep" /\ n.events = 0 /\ n.task = None /\ n.stack = pl.stack
    BY <1>3, <2>4, AddTaskIs
  <2> HIDE DEF d2, n
  <2>6. ~Contains(n.queue, Add)
    BY <2>5, ContainsOne, Names
  <2>7. Moves(d, pl, d2, n, deleting = p)
    BY <1>1, <1>3, <2>1, <2>2, <2>3, <2>5, <2>6, TasksMove
  <2> QED
    BY <1>2, <2>1, <2>7, Same2, HandlerMoved
<1>7. CASE /\ ~ignored /\ ~more
           /\ ParserIs(p, Finished(d, p \in Projects))
           /\ s_CurrentParser' = None
           /\ PoolIs(p, took) /\ UNCHANGED <<tree, wanted>>
  <2> DEFINE l == d.needLocal /\ p \in Projects
             d2 == [d EXCEPT !.needLocal = l, !.ignore = TRUE, !.isParsing = FALSE,
                             !.type = "undefined"]
  <2>1. PoolIs(p, took) /\ ParserIs(p, d2) /\ UNCHANGED <<tree, wanted>>
        /\ s_CurrentParser' = None /\ d.isParsing /\ d.poolTask = <<>>
    BY <1>7 DEF Finished
  <2>2. l \in BOOLEAN
    OBVIOUS
  <2> HIDE DEF l, took
  <2>3. /\ d2 \in ParserStates /\ d2.up = d.up /\ d2.isParsing = FALSE
        /\ d2.ignore = TRUE /\ d2.isPriority = d.isPriority
        /\ d2.batchTimer = d.batchTimer /\ d2.poolTask = d.poolTask
    BY <1>1, <2>2 DEF ParserStates
  <2> HIDE DEF d2
  <2>4. ~Contains(took.queue, Add)
    BY <1>3, ContainsNothing
  <2>5. Sound(d2, took)
    BY <1>1, <1>3, <2>3, Names DEF Good, Sound, Rests
  <2>6. Alive(d2, took)
    BY <1>3, <2>1, <2>3, <2>4, Names DEF Alive, Quiet
  <2>7. Good(d2, took, deleting' = p) /\ ~Busy(d2, took)
    BY <1>3, <2>3, <2>5, <2>6 DEF Good, Busy
  <2>8. s_CurrentParser = p
    BY <1>1, <2>1 DEF Turn, Busy
  <2>9. \A q \in Parsers : q # p /\ s_CurrentParser = q => s_CurrentParser' = q
    BY <2>8
  <2>10. s_CurrentParser' \in Parsers \cup {None} /\ deleting' \in Parsers \cup {None}
    BY <1>2, <2>1 DEF Inv, TypeOK
  <2>11. tree' \in [Parsers -> Trees] /\ wanted' \in [Parsers -> SUBSET Files]
    BY <2>1, Same2
  <2> QED
    BY <1>2, <1>3, <2>1, <2>3, <2>7, <2>9, <2>10, <2>11, Moved
<1> QED
  BY <1>4, <1>5, <1>6, <1>7 DEF OnAllThreadsDone

LEMMA DeleteStep ==
  ASSUME Inv, NEW p \in Parsers, DeleteParser(p)
  PROVE  Inv'
<1> DEFINE d == parser[p]
           pl == pool[p]
           d2 == [d EXCEPT !.poolTask = <<>>]
           a == pl.task # None
           n == [pl EXCEPT !.queue = <<>>, !.abort = a]
<1>1. /\ d \in ParserStates /\ pl \in Pools /\ Good(d, pl, deleting = p) /\ d.up
      /\ deleting = None /\ Turn(p)
  BY Types DEF DeleteParser, Free
<1>2. /\ ParserIs(p, d2) /\ PoolIs(p, n) /\ deleting' = p /\ Requested
      /\ UNCHANGED <<tree, s_CurrentParser, wanted>>
  BY DEF DeleteParser
<1>3. a \in BOOLEAN
  OBVIOUS
<1> HIDE DEF a
<1>4. /\ d2 \in ParserStates /\ d2.up = d.up /\ d2.isParsing = d.isParsing
      /\ d2.ignore = d.ignore /\ d2.isPriority = d.isPriority
  BY <1>1, Lists DEF ParserStates
<1>5. /\ n \in Pools /\ n.queue = <<>> /\ n.at = pl.at /\ n.sem = pl.sem /\ n.task = pl.task
      /\ n.stack = pl.stack /\ n.events = pl.events /\ n.added = pl.added
  BY <1>1, <1>3, Lists DEF Pools
<1> HIDE DEF d2, n
<1>6. Sound(d2, n)
  BY <1>1, <1>4, <1>5 DEF Good, Sound, Rests
<1>7. Good(d2, n, deleting' = p)
  BY <1>2, <1>6 DEF Good
<1>8. Busy(d2, n) => s_CurrentParser' = p
  BY <1>1, <1>2, <1>4, <1>5 DEF Turn, Busy, Rests
<1>9. /\ tree' \in [Parsers -> Trees] /\ wanted' \in [Parsers -> SUBSET Files]
      /\ requests' \in 0..MaxRequests
  BY <1>2, Same2, RequestedIn
<1>10. /\ s_CurrentParser' \in Parsers \cup {None} /\ deleting' \in Parsers \cup {None}
       /\ \A q \in Parsers : q # p /\ deleting = q => deleting' = q
       /\ \A q \in Parsers : q # p /\ s_CurrentParser = q => s_CurrentParser' = q
  BY <1>1, <1>2, ParserAssumption DEF Inv, TypeOK
<1> QED
  BY <1>2, <1>4, <1>5, <1>7, <1>8, <1>9, <1>10, Moved

LEMMA DeletedStep ==
  ASSUME Inv, NEW p \in Parsers, Deleted(p)
  PROVE  Inv'
<1>1. /\ ParserIs(p, Down) /\ PoolIs(p, NewPool) /\ TreeIs(p, EmptyTree)
      /\ wanted' = [wanted EXCEPT ![p] = {}] /\ UNCHANGED requests
      /\ deleting = p /\ deleting' = None
      /\ s_CurrentParser' = IF s_CurrentParser = p THEN None ELSE s_CurrentParser
  BY DEF Deleted
<1>2. Good(Down, NewPool, deleting' = p) /\ ~Busy(Down, NewPool)
  <2>1. (deleting' = p) = FALSE
    BY <1>1, ParserAssumption
  <2> QED
    BY <2>1, DownIn, NewGood
<1>3. /\ tree' \in [Parsers -> Trees] /\ wanted' \in [Parsers -> SUBSET Files]
      /\ requests' \in 0..MaxRequests
  BY <1>1, EmptyTreeIn, RequestedIn DEF TreeIs, Inv, TypeOK
<1>4. /\ s_CurrentParser' \in Parsers \cup {None} /\ deleting' \in Parsers \cup {None}
      /\ \A q \in Parsers : q # p /\ deleting = q => deleting' = q
      /\ \A q \in Parsers : q # p /\ s_CurrentParser = q => s_CurrentParser' = q
  BY <1>1 DEF Inv, TypeOK
<1> QED
  BY <1>1, <1>2, <1>3, <1>4, DownIn, NewPoolIn, Moved

LEMMA NextInv ==
  ASSUME Orderly, Inv, [Next]_vars
  PROVE  Inv'
<1>1. CASE UNCHANGED vars
  BY <1>1 DEF vars, Inv, TypeOK, Turn
<1>2. CASE Next
  BY <1>2, WorkerSteps, ReparseTimerStep, BatchTimerStep, DoneStep, DeletedStep, CreateStep,
     DeleteStep, AddStep, ReparseStep DEF Next, Handler
<1> QED
  BY <1>1, <1>2

(* Every variable has its type, whatever the parsers are asked for: at most *)
(* one cbEVT_THREADTASK_ALLDONE of a pool waits at a time (cbthreadpool.cpp *)
(* posts it only after tasks were added, and the parser adds none before it *)
(* has handled the event).                                                  *)
THEOREM TypeCorrect ==
  ASSUME Orderly
  PROVE  Spec => []TypeOK
<1>1. Init => Inv
  BY InitInv
<1>2. Inv /\ [Next]_vars => Inv'
  BY NextInv
<1>3. Inv => TypeOK
  BY DEF Inv
<1> QED
  BY <1>1, <1>2, <1>3, PTL DEF Spec

(* Parsers take turns: a parser that has tasks, or that says it is parsing, *)
(* is s_CurrentParser (Parser::OnBatchTimer, Parser::OnAllThreadsDone).     *)
THEOREM OneAtATime ==
  ASSUME Orderly
  PROVE  Spec => []OneParserAtATime
<1>1. Init => Inv
  BY InitInv
<1>2. Inv /\ [Next]_vars => Inv'
  BY NextInv
<1>3. Inv => OneParserAtATime
  BY DEF Inv, Turn, Busy, Rests, Idle, OneParserAtATime
<1> QED
  BY <1>1, <1>2, <1>3, PTL DEF Spec

-----------------------------------------------------------------------------
(* The end that is announced.                                               *)

(* The files of a project that are to be marked as local will be: the       *)
(* parser did not forget what it was doing.                                 *)
LocalState(p, d) == d.needLocal /\ p \in Projects /\ d.up => d.type \in {"create", "add"}
Locals == \A p \in Parsers : LocalState(p, parser[p])

(* Most steps neither end the parsing nor take up anything new.             *)
Calm(d, d2) ==
    /\ d2.up = d.up /\ d2.type = d.type
    /\ d2.needLocal => d.needLocal
    /\ d.isParsing => d2.isParsing

LEMMA CalmMoves ==
  ASSUME Inv, Locals, NEW p \in Parsers, NEW d2, ParserIs(p, d2), Calm(parser[p], d2)
  PROVE  /\ Locals'
         /\ \A q \in Parsers : parser[q].isParsing => parser'[q].isParsing
<1>1. parser' = [parser EXCEPT ![p] = d2] /\ parser \in [Parsers -> ParserStates]
  BY DEF ParserIs, Inv, TypeOK
<1>2. \A q \in Parsers : q # p => parser'[q] = parser[q]
  BY <1>1
<1>3. parser'[p] = d2
  BY <1>1
<1> QED
  BY <1>2, <1>3 DEF Locals, LocalState, Calm

LEMMA DispatchCalm ==
  ASSUME Inv, NEW p \in Parsers, NEW pl, NEW f, NEW isLocal, Parse(p, pl, f, isLocal)
  PROVE  \E d2 : ParserIs(p, d2) /\ Calm(parser[p], d2)
<1> DEFINE d == parser[p]
<1>1. d \in ParserStates
  BY Types
<1>2. CASE UNCHANGED parser
  BY <1>2, Same2 DEF Calm
<1>3. CASE Dispatch(p, pl, f)
  <2>1. PICK b, ls : ParserIs(p, [d EXCEPT !.firstBatch = b, !.poolTask = ls])
    BY <1>3, DispatchIs
  <2>2. Calm(d, [d EXCEPT !.firstBatch = b, !.poolTask = ls])
    BY <1>1 DEF Calm, ParserStates
  <2> QED
    BY <2>1, <2>2
<1> QED
  BY <1>2, <1>3 DEF Parse

LEMMA WorkerCalm ==
  ASSUME Inv, NEW p \in Parsers, WorkerStep(p)
  PROVE  \E d2 : ParserIs(p, d2) /\ Calm(parser[p], d2)
<1> DEFINE d == parser[p]
<1>1. d \in ParserStates
  BY Types
<1>2. CASE UNCHANGED parser
  BY <1>2, Same2 DEF Calm
<1>3. CASE HandleInclude(p) \/ NextPriorityHeader(p) \/ NextBatchFile(p)
  BY <1>3, DispatchCalm DEF HandleInclude, NextPriorityHeader, NextBatchFile
<1>4. CASE MacrosParsed(p)
  <2>1. Calm(d, [d EXCEPT !.macros = FALSE, !.isPriority = TRUE])
    BY <1>1 DEF Calm, ParserStates
  <2> QED
    BY <1>4, <2>1 DEF MacrosParsed
<1>5. CASE PriorityParsed(p)
  <2> DEFINE b == d.firstBatch \/ d.ignore
  <2>1. ParserIs(p, [d EXCEPT !.priority = <<>>, !.isPriority = FALSE, !.firstBatch = b])
    BY <1>5 DEF PriorityParsed
  <2> HIDE DEF b
  <2>2. Calm(d, [d EXCEPT !.priority = <<>>, !.isPriority = FALSE, !.firstBatch = b])
    BY <1>1 DEF Calm, ParserStates
  <2> QED
    BY <2>1, <2>2
<1>6. CASE BatchListed(p)
  <2> DEFINE b == d.isParsing \/ d.ignore
  <2>1. ParserIs(p, [d EXCEPT !.batch = <<>>, !.ignore = FALSE, !.isParsing = b])
    BY <1>6 DEF BatchListed
  <2>2. d.isParsing => b
    OBVIOUS
  <2> HIDE DEF b
  <2>3. Calm(d, [d EXCEPT !.batch = <<>>, !.ignore = FALSE, !.isParsing = b])
    BY <1>1, <2>2 DEF Calm, ParserStates
  <2> QED
    BY <2>1, <2>3
<1> QED
  BY <1>2, <1>3, <1>4, <1>5, <1>6
  DEF WorkerStep, Wake, WorkingThread, GetNextTask, WaitingThread, Open, FlagFileAsParsed,
      MarkFiles, CopyLists

LEMMA HandlerCalm ==
  ASSUME Inv, NEW p \in Parsers,
         OnBatchTimer(p) \/ DeleteParser(p) \/ \E f \in Files : Reparse(p, f)
  PROVE  \E d2 : ParserIs(p, d2) /\ Calm(parser[p], d2)
<1> DEFINE d == parser[p]
<1>1. d \in ParserStates
  BY Types
<1>2. CASE OnBatchTimer(p)
  <2> DEFINE d1 == [d EXCEPT !.batchTimer = FALSE]
  <2>1. Calm(d, d1) /\ Calm(d, [d1 EXCEPT !.poolTask = Tail(@)])
    BY <1>1 DEF Calm, ParserStates
  <2> QED
    BY <1>2, <2>1 DEF OnBatchTimer
<1>3. CASE DeleteParser(p)
  <2>1. Calm(d, [d EXCEPT !.poolTask = <<>>])
    BY <1>1 DEF Calm, ParserStates
  <2> QED
    BY <1>3, <2>1 DEF DeleteParser
<1>4. CASE \E f \in Files : Reparse(p, f)
  <2>1. Calm(d, [d EXCEPT !.reparseTimer = TRUE])
    BY <1>1 DEF Calm, ParserStates
  <2> QED
    BY <1>4, <2>1 DEF Reparse
<1> QED
  BY <1>2, <1>3, <1>4

(* What a step that is not calm must see to.                                *)
Ends(p) ==
    parser[p].isParsing /\ ~parser'[p].isParsing /\ parser'[p].up => Idle(p) /\ Done(p)'

LEMMA OneMoves ==
  ASSUME Inv, Locals, NEW p \in Parsers, NEW d2, ParserIs(p, d2), LocalState(p, d2), Ends(p)
  PROVE  Locals' /\ \A q \in Parsers : Ends(q)
<1>1. parser' = [parser EXCEPT ![p] = d2] /\ parser \in [Parsers -> ParserStates]
  BY DEF ParserIs, Inv, TypeOK
<1>2. \A q \in Parsers : q # p => parser'[q] = parser[q]
  BY <1>1
<1>3. parser'[p] = d2
  BY <1>1
<1>4. Locals'
  BY <1>2, <1>3 DEF Locals
<1>5. ASSUME NEW q \in Parsers, q # p
      PROVE  Ends(q)
  BY <1>2, <1>5 DEF Ends
<1> QED
  BY <1>4, <1>5

LEMMA CreateEnds ==
  ASSUME Inv, Locals, NEW p \in Parsers, CreateParser(p)
  PROVE  Locals' /\ \A q \in Parsers : Ends(q)
<1> DEFINE c == Contents[p]
           b == c.macros \/ c.priority # <<>> \/ c.batch # <<>>
           d2 == [Down EXCEPT !.up = TRUE, !.macros = c.macros, !.priority = c.priority,
                              !.system = c.system, !.batch = c.batch, !.batchTimer = b]
<1>1. ParserIs(p, d2)
  BY DEF CreateParser
<1>2. parser[p] = Down
  BY Types DEF CreateParser, Good, Sound
<1>3. d2.type = "create"
  BY DEF Down
<1> HIDE DEF d2
<1>4. Ends(p)
  BY <1>2, DownIn DEF Ends
<1> QED
  BY <1>1, <1>3, <1>4, OneMoves DEF LocalState

LEMMA AddEnds ==
  ASSUME "add while reparsing" \notin Mishaps, Inv, Locals,
         NEW p \in Parsers, NEW f \in Files, AddFile(p, f)
  PROVE  Locals' /\ \A q \in Parsers : Ends(q)
<1> DEFINE d == parser[p]
           t == Typed(d, "add")
           a == AddParse(t, <<f>>)
           b == a.needLocal \/ p \in Projects
           d2 == [a EXCEPT !.needLocal = b]
<1>1. d \in ParserStates /\ d.up /\ LocalState(p, d)
      /\ (d.type = "reparse" => p \notin Projects)
  BY Types DEF AddFile, Free, Locals
<1>2. ParserIs(p, d2)
  BY DEF AddFile
<1>3. /\ t \in ParserStates /\ t.type = (IF d.type = "undefined" THEN "add" ELSE d.type)
      /\ t.isParsing = d.isParsing
  BY <1>1, TypedIn
<1> HIDE DEF d, t
<1>4. <<f>> \in Seq(Files)
  BY OneFile
<1>5. a \in ParserStates /\ a.type = t.type /\ a.isParsing = t.isParsing
  BY <1>3, <1>4, AddParseIn
<1> HIDE DEF a, b
<1>6. d2.type = a.type /\ d2.isParsing = a.isParsing
  BY <1>5 DEF ParserStates
<1> HIDE DEF d2
<1>7. LocalState(p, d2)
  <2>1. d.type \in {"create", "add", "reparse", "undefined"}
    BY <1>1 DEF ParserStates
  <2> QED
    BY <1>1, <1>3, <1>5, <1>6, <2>1 DEF LocalState
<1>8. parser'[p] = d2
  BY <1>2 DEF ParserIs, Inv, TypeOK
<1>9. Ends(p)
  BY <1>3, <1>5, <1>6, <1>8 DEF Ends, d
<1> QED
  BY <1>2, <1>7, <1>9, OneMoves

LEMMA ReparseEnds ==
  ASSUME Inv, Locals, NEW p \in Parsers, OnReparseTimer(p)
  PROVE  Locals' /\ \A q \in Parsers : Ends(q)
<1> DEFINE d == parser[p]
<1>1. d \in ParserStates /\ LocalState(p, d) /\ tree[p] \in Trees
  BY Types DEF Locals
<1>2. CASE ~Done(p)
  <2>1. UNCHANGED parser
    BY <1>2 DEF OnReparseTimer
  <2> QED
    BY <2>1 DEF Locals, Ends
<1>3. CASE Done(p)
  <2>1. PICK fs \in SetToSeqs(tree[p].reparse) :
          ParserIs(p, AddParse([IF fs = <<>> THEN d ELSE Typed(d, "reparse")
                                  EXCEPT !.reparseTimer = FALSE], fs))
    BY <1>3 DEF OnReparseTimer
  <2> DEFINE t == IF fs = <<>> THEN d ELSE Typed(d, "reparse")
             r == [t EXCEPT !.reparseTimer = FALSE]
             a == AddParse(r, fs)
  <2>2. ParserIs(p, a)
    BY <2>1
  <2>3. fs \in Seq(Files)
    BY <1>1, SeqsIn DEF Trees
  <2>4. t \in ParserStates /\ t.isParsing = d.isParsing /\ t.needLocal = d.needLocal
    BY <1>1, TypedIn
  <2>5. ~d.needLocal
    BY <1>3 DEF Done
  <2> HIDE DEF t
  <2>6. r \in ParserStates /\ r.isParsing = t.isParsing /\ r.needLocal = t.needLocal
    BY <2>4 DEF ParserStates
  <2> HIDE DEF r
  <2>7. a.isParsing = r.isParsing /\ a.needLocal = r.needLocal
    BY <2>3, <2>6, AddParseIn
  <2> HIDE DEF a
  <2>8. LocalState(p, a)
    BY <2>4, <2>5, <2>6, <2>7 DEF LocalState
  <2>9. parser'[p] = a
    BY <2>2 DEF ParserIs, Inv, TypeOK
  <2>10. Ends(p)
    BY <2>4, <2>6, <2>7, <2>9 DEF Ends
  <2> QED
    BY <2>2, <2>8, <2>10, OneMoves
<1> QED
  BY <1>2, <1>3

LEMMA DeletedEnds ==
  ASSUME Inv, Locals, NEW p \in Parsers, Deleted(p)
  PROVE  Locals' /\ \A q \in Parsers : Ends(q)
<1>1. ParserIs(p, Down)
  BY DEF Deleted
<1>2. parser'[p] = Down
  BY <1>1 DEF ParserIs, Inv, TypeOK
<1>3. LocalState(p, Down) /\ Ends(p)
  BY <1>2, DownIn DEF LocalState, Ends
<1> QED
  BY <1>1, <1>3, OneMoves

LEMMA DoneEnds ==
  ASSUME Inv, Locals, NEW p \in Parsers, OnAllThreadsDone(p)
  PROVE  Locals' /\ \A q \in Parsers : Ends(q)
<1> DEFINE d == parser[p]
           pl == pool[p]
           took == [pl EXCEPT !.events = @ - 1]
           ignored == d.ignore \/ ~d.isParsing
           mark == d.type \in {"create", "add"} /\ d.needLocal /\ p \in Projects
           more == d.poolTask # <<>> \/ ~NoLists(p)
           b == d.batchTimer \/ ~ignored
<1>1. /\ d \in ParserStates /\ pl \in Pools /\ Good(d, pl, deleting = p) /\ pl.events > 0
      /\ LocalState(p, d) /\ d.up
  BY Types DEF OnAllThreadsDone, Locals, Free
<1>2. Rests(pl) /\ took.at = "asleep"
  BY <1>1, TookIn
<1> HIDE DEF took
<1>3. ASSUME NEW d2, ParserIs(p, d2), Calm(d, d2)
      PROVE  Locals' /\ \A q \in Parsers : Ends(q)
  BY <1>3, CalmMoves DEF Ends
<1>4. CASE ParserIs(p, [d EXCEPT !.batchTimer = b])
  <2> HIDE DEF b
  <2>1. Calm(d, [d EXCEPT !.batchTimer = b])
    BY <1>1 DEF Calm, ParserStates
  <2> QED
    BY <1>3, <1>4, <2>1
<1>5. CASE ParserIs(p, [d EXCEPT !.batch = d.system, !.system = <<>>, !.batchTimer = TRUE])
  <2>1. Calm(d, [d EXCEPT !.batch = d.system, !.system = <<>>, !.batchTimer = TRUE])
    BY <1>1 DEF Calm, ParserStates
  <2> QED
    BY <1>3, <1>5, <2>1
<1>6. CASE ParserIs(p, [d EXCEPT !.needLocal = FALSE])
  <2>1. Calm(d, [d EXCEPT !.needLocal = FALSE])
    BY <1>1 DEF Calm, ParserStates
  <2> QED
    BY <1>3, <1>6, <2>1
<1>7. CASE /\ ~ignored /\ ~more /\ d.system = <<>> /\ ~mark
           /\ ParserIs(p, Finished(d, p \in Projects)) /\ PoolIs(p, took)
  <2> DEFINE l == d.needLocal /\ p \in Projects
             d2 == [d EXCEPT !.needLocal = l, !.ignore = TRUE, !.isParsing = FALSE,
                             !.type = "undefined"]
  <2>1. ParserIs(p, d2) /\ PoolIs(p, took) /\ d.poolTask = <<>> /\ NoLists(p)
    BY <1>7 DEF Finished
  <2>2. l = FALSE
    BY <1>1, <1>7 DEF LocalState
  <2> HIDE DEF l
  <2>3. /\ d2.needLocal = l /\ d2.priority = d.priority /\ d2.batch = d.batch
        /\ d2.macros = d.macros /\ d2.system = d.system /\ d2.poolTask = d.poolTask
    BY <1>1 DEF ParserStates
  <2> HIDE DEF d2
  <2>4. parser'[p] = d2 /\ pool'[p] = took
    BY <2>1 DEF ParserIs, PoolIs, Inv, TypeOK
  <2>5. Done(p)'
    BY <1>2, <1>7, <2>1, <2>2, <2>3, <2>4 DEF Done, NoLists, PoolDone, Working
  <2>6. Ends(p)
    BY <1>2, <2>5 DEF Ends, Idle, Rests
  <2>7. LocalState(p, d2)
    BY <2>2, <2>3 DEF LocalState
  <2> QED
    BY <2>1, <2>6, <2>7, OneMoves
<1> QED
  BY <1>4, <1>5, <1>6, <1>7 DEF OnAllThreadsDone, took

(* The end is announced when nothing is left to do (Parser::                *)
(* OnAllThreadsDone): nothing waits in a list or in the pool, nothing runs, *)
(* and no file is still to be marked as local; unless a file was added      *)
(* while others were parsed again, which the type of the state forgets.     *)
THEOREM EndIsDone ==
  ASSUME Orderly, "add while reparsing" \notin Mishaps
  PROVE  Spec => EndMeansDone
<1>1. Init => Inv /\ Locals
  <2>1. Init => Locals
    BY DownIn DEF Init, Locals, LocalState
  <2> QED
    BY <2>1, InitInv
<1>2. ASSUME Inv, Locals, [Next]_vars
      PROVE  Locals' /\ \A q \in Parsers : Ends(q)
  <2>1. CASE UNCHANGED vars
    BY <1>2, <2>1 DEF vars, Locals, Ends
  <2>2. CASE Next
    <3>1. PICK p \in Parsers :
            \/ WorkerStep(p) \/ Handler(p)
            \/ CreateParser(p) \/ DeleteParser(p)
            \/ \E f \in Files : AddFile(p, f) \/ Reparse(p, f)
      BY <2>2 DEF Next
    <3>2. CASE WorkerStep(p) \/ OnBatchTimer(p) \/ DeleteParser(p) \/ \E f \in Files : Reparse(p, f)
      <4>1. PICK d2 : ParserIs(p, d2) /\ Calm(parser[p], d2)
        BY <1>2, <3>2, WorkerCalm, HandlerCalm
      <4> QED
        BY <1>2, <4>1, CalmMoves DEF Ends
    <3>3. CASE \/ OnReparseTimer(p) \/ OnAllThreadsDone(p) \/ Deleted(p) \/ CreateParser(p)
               \/ \E f \in Files : AddFile(p, f)
      BY <1>2, <3>3, ReparseEnds, DoneEnds, DeletedEnds, CreateEnds, AddEnds
    <3> QED
      BY <3>1, <3>2, <3>3 DEF Handler
  <2> QED
    BY <1>2, <2>1, <2>2
<1>3. Inv /\ Locals /\ [Next]_vars => (Inv /\ Locals)'
  BY <1>2, NextInv
<1>4. Inv /\ Locals /\ [Next]_vars =>
        [\A p \in Parsers : parser[p].isParsing /\ ~parser'[p].isParsing /\ parser'[p].up =>
            Idle(p) /\ Done(p)']_vars
  BY <1>2 DEF Ends
<1> QED
  BY <1>1, <1>3, <1>4, PTL DEF Spec, EndMeansDone

-----------------------------------------------------------------------------
(* A busy parser goes on.                                                   *)

(* The files that includes and priority headers lead to.                    *)
Included == {f \in Files : \E e \in Files : \E i \in 1..Len(Includes[e]) : Includes[e][i].file = f}
Headers(p) == Range(Contents[p].priority) \cup Included
Inclusions == [file : Included, isGlobal : BOOLEAN]
HeaderEntries(p) == [file : Headers(p), rest : Seq(Inclusions)]
Parsable(tr, f) == tr.status[f] = "none" \/ (tr.status[f] = "done" /\ f \in tr.reparse)

(* The timer runs when all else rests, and finds work; no list of tasks is  *)
(* empty; and a task is in its own file only.                               *)
Works(p, d, pl) ==
    /\ ~pl.abort
    /\ d.isParsing /\ Quiet(pl) => d.batchTimer
    /\ d.isParsing /\ d.batchTimer => d.poolTask # <<>> \/ ~Empty(d)
    /\ \A k \in 1..Len(d.poolTask) : d.poolTask[k] # <<>>
    /\ d.isParsing => ~d.firstBatch
    /\ pl.at = "parses" => Len(pl.stack) = 1 /\ pl.stack[1].file = pl.task
    /\ d.priority \in Seq(Headers(p)) /\ pl.priority \in Seq(Headers(p))
    /\ pl.at = "priority" => pl.stack \in Seq(HeaderEntries(p))

(* A file that is assigned waits, or is about to be opened; one that is     *)
(* being parsed is on the stack of the worker.                              *)
Waits(d, pl, f) ==
    \/ Contains(pl.queue, f)
    \/ pl.at = "opens" /\ pl.task = f
    \/ \E k \in 1..Len(d.poolTask) : Contains(d.poolTask[k], f)
OnStack(pl, f) == \E k \in 1..Len(pl.stack) : pl.stack[k].file = f
Placed(d, pl, tr) ==
    \A f \in Files : /\ tr.status[f] = "assigned" => Waits(d, pl, f)
                     /\ tr.status[f] = "parsing" => OnStack(pl, f)

(* Until the parsing begins a file that will be the first task is kept: no  *)
(* header that comes before it is, or includes, that file.                  *)
Kept(p, d, pl, tr, f) ==
    /\ Parsable(tr, f) /\ Contains(d.batch, f)
    /\ pl.at \in {"macros", "priority"} => Contains(pl.batch, f)
    /\ \/ f \notin Headers(p)
       \/ /\ d.priority = <<>>
          /\ pl.at \in {"macros", "priority"} => pl.priority = <<>> /\ pl.stack = <<>>
Begins(p, d, pl, tr) ==
    pl.at \in {"copies", "macros", "priority"} \/ (pl.at # "batch" /\ ~Empty(d)) =>
        \E f \in Files : Kept(p, d, pl, tr, f)
Starts(d, pl, tr) ==
    pl.at = "batch" =>
        \/ d.firstBatch /\ \E f \in Files : Contains(pl.batch, f) /\ Parsable(tr, f)
        \/ ~d.firstBatch /\ d.poolTask # <<>>
Fresh(p, d, pl, tr) == ~d.isParsing => Begins(p, d, pl, tr) /\ Starts(d, pl, tr)

Well(p, d, pl, tr) == Works(p, d, pl) /\ Placed(d, pl, tr) /\ Fresh(p, d, pl, tr)
AllWell == \A p \in Parsers : deleting # p => Well(p, parser[p], pool[p], tree[p])

(* What DoFullParsing finds is nothing, or it has a source that is no       *)
(* priority header and that no file includes.                               *)
Filled(p) ==
    LET c == Contents[p] IN
    \/ ~c.macros /\ c.priority = <<>> /\ c.batch = <<>>
    \/ \E f \in Files : Contains(c.batch, f) /\ f \notin Headers(p)

LEMMA StepWell ==
  ASSUME Inv, AllWell, Inv', NEW p \in Parsers, NEW d, NEW n, NEW t,
         ParserIs(p, d), PoolIs(p, n), TreeIs(p, t),
         \A q \in Parsers : q # p /\ deleting = q => deleting' = q,
         deleting' # p /\ d \in ParserStates /\ n \in Pools /\ t \in Trees /\ Good(d, n, FALSE)
             => Well(p, d, n, t)
  PROVE  AllWell'
<1>1. /\ parser \in [Parsers -> ParserStates] /\ pool \in [Parsers -> Pools]
      /\ tree \in [Parsers -> Trees]
  BY DEF Inv, TypeOK
<1>2. parser'[p] = d /\ pool'[p] = n /\ tree'[p] = t
  BY <1>1 DEF ParserIs, PoolIs, TreeIs
<1>3. \A q \in Parsers : q # p =>
        parser'[q] = parser[q] /\ pool'[q] = pool[q] /\ tree'[q] = tree[q]
  BY <1>1 DEF ParserIs, PoolIs, TreeIs
<1>4. /\ parser'[p] \in ParserStates /\ pool'[p] \in Pools /\ tree'[p] \in Trees
      /\ Good(parser'[p], pool'[p], deleting' = p)
  BY DEF Inv, TypeOK
<1>5. d \in ParserStates /\ n \in Pools /\ t \in Trees /\ Good(d, n, deleting' = p)
  BY <1>2, <1>4, Zenon
<1>6. ASSUME deleting' # p PROVE Well(p, parser'[p], pool'[p], tree'[p])
  <2>1. Good(d, n, FALSE)
    BY <1>5, <1>6 DEF Good
  <2> QED
    BY <1>2, <1>5, <1>6, <2>1
<1>7. ASSUME NEW q \in Parsers, q # p, deleting' # q
      PROVE  Well(q, parser'[q], pool'[q], tree'[q])
  <2>1. deleting # q
    BY <1>7
  <2>2. Well(q, parser[q], pool[q], tree[q])
    BY <2>1 DEF AllWell
  <2> QED
    BY <1>3, <1>7, <2>2
<1>8. \A q \in Parsers : deleting' # q => Well(q, parser'[q], pool'[q], tree'[q])
  BY <1>6, <1>7
<1>9. AllWell' <=> \A q \in Parsers : deleting' # q => Well(q, parser'[q], pool'[q], tree'[q])
  BY DEF AllWell, Well, Works, Placed, Fresh, Begins, Starts, Kept, Waits, OnStack, Parsable
<1> QED
  BY <1>8, <1>9

LEMMA Before ==
  ASSUME Inv, AllWell, NEW p \in Parsers, deleting # p
  PROVE  /\ parser[p] \in ParserStates /\ pool[p] \in Pools /\ tree[p] \in Trees
         /\ Good(parser[p], pool[p], FALSE)
         /\ Well(p, parser[p], pool[p], tree[p])
BY Types DEF AllWell, Good

LEMMA Same3 ==
  ASSUME Inv, NEW p \in Parsers
  PROVE  /\ UNCHANGED parser => ParserIs(p, parser[p])
         /\ UNCHANGED pool => PoolIs(p, pool[p])
         /\ UNCHANGED tree => TreeIs(p, tree[p])
BY Same2, Same DEF Inv, TypeOK, TreeIs

Off == {"asleep", "awake", "gets", "rests", "marks"}

(* Nothing is taken up: the lists and the stack stay, tasks may be added.   *)
LEMMA KeepsWell ==
  ASSUME NEW p, NEW d, NEW d2, NEW pl, NEW n, NEW t, Well(p, d, pl, t),
         pl.at \in Off, n.at \in Off,
         \A f \in Files : Contains(pl.queue, f) => Contains(n.queue, f),
         n.stack = pl.stack, n.priority = pl.priority, ~n.abort,
         d2.priority = d.priority, d2.batch = d.batch, d2.macros = d.macros,
         d2.poolTask = d.poolTask, d2.firstBatch = d.firstBatch, d2.isParsing = d.isParsing,
         d2.isParsing /\ Quiet(n) => d2.batchTimer,
         d2.isParsing /\ d2.batchTimer => d2.poolTask # <<>> \/ ~Empty(d2)
  PROVE  Well(p, d2, n, t)
<1>1. pl.at \notin {"opens", "parses", "copies", "macros", "priority", "batch"}
      /\ n.at \notin {"opens", "parses", "copies", "macros", "priority", "batch"}
  BY DEF Off
<1>2. Works(p, d2, n)
  BY <1>1 DEF Well, Works
<1>3. Placed(d2, n, t)
  BY <1>1 DEF Well, Placed, Waits, OnStack
<1>4. Fresh(p, d2, n, t)
  <2>1. Empty(d2) <=> Empty(d)
    BY DEF Empty
  <2>2. \A f : Kept(p, d2, n, t, f) <=> Kept(p, d, pl, t, f)
    BY <1>1 DEF Kept
  <2>3. Begins(p, d, pl, t) => Begins(p, d2, n, t)
    BY <1>1, <2>1, <2>2 DEF Begins
  <2>4. Starts(d2, n, t)
    BY <1>1 DEF Starts
  <2> QED
    BY <2>3, <2>4 DEF Fresh, Well
<1> QED
  BY <1>2, <1>3, <1>4 DEF Well

(* The worker between tasks.                                                *)
LEMMA WaitWell ==
  ASSUME Inv, AllWell, Inv', NEW p \in Parsers,
         \/ Wake(p) \/ WorkingThread(p) \/ WaitingThread(p) \/ MarkFiles(p)
         \/ GetNextTask(p) /\ pool[p].queue = <<>>
  PROVE  AllWell'
<1> DEFINE d == parser[p]
           pl == pool[p]
<1>1. /\ UNCHANGED <<parser, tree, deleting>>
      /\ ParserIs(p, d) /\ TreeIs(p, tree[p])
  BY Same3 DEF Wake, WorkingThread, WaitingThread, MarkFiles, GetNextTask
<1>2. pl \in Pools /\ Good(d, pl, deleting = p)
  BY Types
<1>3. /\ pl.queue \in Seq(Tasks) /\ pl.events \in 0..1
      /\ pl = [queue |-> pl.queue, sem |-> pl.sem, added |-> pl.added, events |-> pl.events,
               at |-> pl.at, task |-> pl.task, stack |-> pl.stack, priority |-> pl.priority,
               batch |-> pl.batch, abort |-> pl.abort]
  BY <1>2 DEF Pools
<1>4. pl.at \in Off
  BY DEF Off, Wake, WorkingThread, WaitingThread, MarkFiles, GetNextTask, Worker
<1>5. \E n : /\ PoolIs(p, n)
             /\ n.at \in Off /\ n.queue = pl.queue /\ n.stack = pl.stack
             /\ n.priority = pl.priority /\ (n.abort => pl.abort) /\ ~Quiet(n)
  <2>1. CASE Wake(p)
    <3> DEFINE n == [pl EXCEPT !.sem = 0, !.at = "awake"]
    <3>1. /\ n.at = "awake" /\ n.queue = pl.queue /\ n.stack = pl.stack
          /\ n.priority = pl.priority /\ n.abort = pl.abort
      BY <1>3
    <3>2. PoolIs(p, n)
      BY <2>1 DEF Wake
    <3> QED
      BY <3>1, <3>2 DEF Off, Quiet, Rests
  <2>2. CASE WorkingThread(p)
    <3> DEFINE n == [pl EXCEPT !.at = "gets"]
    <3>1. /\ n.at = "gets" /\ n.queue = pl.queue /\ n.stack = pl.stack
          /\ n.priority = pl.priority /\ n.abort = pl.abort
      BY <1>3
    <3>2. PoolIs(p, n)
      BY <2>2 DEF WorkingThread, Goes
    <3> QED
      BY <3>1, <3>2 DEF Off, Quiet, Rests
  <2>3. CASE GetNextTask(p) /\ pl.queue = <<>>
    <3> DEFINE n == [pl EXCEPT !.at = "rests"]
    <3>1. /\ n.at = "rests" /\ n.queue = pl.queue /\ n.stack = pl.stack
          /\ n.priority = pl.priority /\ n.abort = pl.abort
      BY <1>3
    <3>2. PoolIs(p, n)
      BY <2>3 DEF GetNextTask, Goes
    <3> QED
      BY <3>1, <3>2 DEF Off, Quiet, Rests
  <2>4. CASE WaitingThread(p)
    <3> DEFINE s == IF pl.queue = <<>> THEN pl.sem ELSE 1
               e == IF pl.queue = <<>> /\ pl.added THEN pl.events + 1 ELSE pl.events
               n == [pl EXCEPT !.at = "asleep", !.sem = s, !.events = e]
    <3>1. /\ n.at = "asleep" /\ n.queue = pl.queue /\ n.stack = pl.stack /\ n.events = e
          /\ n.priority = pl.priority /\ n.abort = pl.abort
      BY <1>3
    <3>2. PoolIs(p, n)
      BY <2>4 DEF WaitingThread
    <3>3. pl.added
      BY <1>2, <2>4 DEF WaitingThread, Worker, Good, Sound, Rests
    <3>4. ~Quiet(n)
      BY <1>3, <3>1, <3>3 DEF Quiet, Rests
    <3> QED
      BY <3>1, <3>2, <3>4 DEF Off
  <2>5. CASE MarkFiles(p)
    <3>1. PoolIs(p, Ended(pl))
      BY <2>5 DEF MarkFiles, TaskDone
    <3>2. /\ Ended(pl).at = "gets" /\ Ended(pl).queue = pl.queue /\ Ended(pl).stack = pl.stack
          /\ Ended(pl).priority = pl.priority /\ ~Ended(pl).abort
      BY <1>3 DEF Ended
    <3> QED
      BY <3>1, <3>2 DEF Off, Quiet, Rests
  <2> QED
    BY <2>1, <2>2, <2>3, <2>4, <2>5
<1>6. PICK n : /\ PoolIs(p, n)
               /\ n.at \in Off /\ n.queue = pl.queue /\ n.stack = pl.stack
               /\ n.priority = pl.priority /\ (n.abort => pl.abort) /\ ~Quiet(n)
  BY <1>5
<1>7. ASSUME deleting' # p, Good(d, n, FALSE) PROVE Well(p, d, n, tree[p])
  <2>1. Well(p, d, pl, tree[p])
    BY <1>1, <1>7, Before
  <2>2. ~n.abort /\ (d.isParsing /\ d.batchTimer => d.poolTask # <<>> \/ ~Empty(d))
    BY <1>6, <2>1 DEF Well, Works
  <2> QED
    BY <1>4, <1>6, <2>1, <2>2, KeepsWell
<1> QED
  BY <1>1, <1>6, <1>7, StepWell

LEMMA HeadOrTail ==
  ASSUME NEW S, NEW q \in Seq(S), q # <<>>, NEW x, Contains(q, x), x # Head(q)
  PROVE  Contains(Tail(q), x)
<1>1. /\ Len(q) \in Nat \ {0} /\ Head(q) = q[1] /\ Len(Tail(q)) = Len(q) - 1
      /\ \A i \in 1..(Len(q) - 1) : Tail(q)[i] = q[i + 1]
  BY EmptySeq, LenProperties, HeadTailProperties
<1>2. PICK i \in 1..Len(q) : q[i] = x
  BY DEF Contains
<1>3. i - 1 \in 1..(Len(q) - 1) /\ (i - 1) + 1 = i
  BY <1>1, <1>2
<1>4. Tail(q)[i - 1] = x /\ i - 1 \in 1..Len(Tail(q))
  BY <1>1, <1>2, <1>3
<1> QED
  BY <1>4 DEF Contains

LEMMA PlaceOf ==
  ASSUME NEW t \in Tasks
  PROVE  \/ t = Add /\ Place(t) = "copies"
         \/ t = Mark /\ Place(t) = "marks"
         \/ t \in Files /\ t # Add /\ t # Mark /\ Place(t) = "opens"
<1>1. t \in Files \/ t = Add \/ t = Mark
  BY DEF Tasks
<1>2. t \in Files => t # Add /\ t # Mark
  BY FileNames
<1> QED
  BY <1>1, <1>2, Names DEF Place

(* An AddParseThread is alone in the queue, and finds something to do.      *)
LEMMA TaskWell ==
  ASSUME Inv, AllWell, Inv', NEW p \in Parsers, GetNextTask(p), pool[p].queue # <<>>
  PROVE  AllWell'
<1> DEFINE d == parser[p]
           pl == pool[p]
           task == Head(pl.queue)
           at == Place(task)
           n == [pl EXCEPT !.queue = Tail(@), !.task = task, !.at = at]
<1>1. /\ UNCHANGED <<parser, tree, deleting>>
      /\ ParserIs(p, d) /\ TreeIs(p, tree[p]) /\ PoolIs(p, n) /\ pl.at = "gets"
  BY Same3 DEF GetNextTask, Worker, Place
<1>2. pl \in Pools /\ pl.queue \in Seq(Tasks)
  BY Types DEF Pools
<1>3. /\ n.at = at /\ n.queue = Tail(pl.queue) /\ n.stack = pl.stack /\ n.task = task
      /\ n.priority = pl.priority /\ n.abort = pl.abort
  BY <1>2 DEF Pools
<1>4. task \in Tasks
  BY <1>2, HeadTailProperties
<1>5. /\ task = Add => at = "copies"
      /\ task # Add => at \in {"marks", "opens"}
      /\ task \in Files => at = "opens"
  <2>1. task \in Files => task # Add
    BY FileNames
  <2>2. \/ task = Add /\ at = "copies"
        \/ task = Mark /\ at = "marks"
        \/ task \in Files /\ task # Add /\ task # Mark /\ at = "opens"
    BY <1>4, PlaceOf
  <2>3. Mark \notin Files /\ Add \notin Files /\ Add # Mark
    BY FileNames, Names
  <2> HIDE DEF task, at
  <2> QED
    BY <2>2, <2>3
<1> HIDE DEF n, at
<1>6. ASSUME deleting' # p, Good(d, n, FALSE) PROVE Well(p, d, n, tree[p])
  <2>1. Well(p, d, pl, tree[p]) /\ Good(d, pl, FALSE) /\ d \in ParserStates
    BY <1>1, <1>6, Before
  <2>2. n.at \notin {"asleep", "parses", "macros", "priority", "batch"}
    BY <1>3, <1>5
  <2>3. Works(p, d, n)
    BY <1>3, <2>1, <2>2 DEF Well, Works, Quiet, Rests
  <2>4. ASSUME NEW f \in Files, Waits(d, pl, f) PROVE Waits(d, n, f)
    <3>1. CASE Contains(pl.queue, f) /\ f # task
      BY <1>2, <1>3, <3>1, HeadOrTail DEF Waits
    <3>2. CASE f = task
      BY <1>3, <1>5, <3>2 DEF Waits
    <3>3. CASE ~Contains(pl.queue, f)
      BY <1>1, <2>4, <3>3 DEF Waits
    <3> QED
      BY <3>1, <3>2, <3>3
  <2>5. Placed(d, n, tree[p])
    BY <1>3, <2>1, <2>4 DEF Well, Placed, OnStack
  <2>6. ASSUME ~d.isParsing PROVE Begins(p, d, n, tree[p])
    <3>1. CASE task = Add
      <4>1. Contains(pl.queue, Add)
        BY <1>2, <3>1, ContainsHead
      <4>2. ~Empty(d)
        BY <2>1, <4>1 DEF Good, Alive
      <4>3. PICK f \in Files : Kept(p, d, pl, tree[p], f)
        BY <1>1, <2>1, <2>6, <4>2 DEF Well, Fresh, Begins
      <4>4. Kept(p, d, n, tree[p], f)
        BY <1>1, <2>2, <4>3 DEF Kept
      <4> QED
        BY <4>4 DEF Begins
    <3>2. CASE task # Add
      <4>1. n.at \notin {"copies", "macros", "priority"}
        BY <1>3, <1>5, <2>2, <3>2
      <4>2. \A f : Kept(p, d, pl, tree[p], f) => Kept(p, d, n, tree[p], f)
        BY <1>1, <2>2 DEF Kept
      <4> QED
        BY <1>1, <2>1, <2>6, <4>1, <4>2 DEF Well, Fresh, Begins
    <3> QED
      BY <3>1, <3>2
  <2>7. Starts(d, n, tree[p])
    BY <2>2 DEF Starts
  <2> QED
    BY <2>3, <2>5, <2>6, <2>7 DEF Well, Fresh
<1> QED
  BY <1>1, <1>6, StepWell

(* A tree in which the status of f became st.                               *)
Becomes(t, t2, f, st) ==
    /\ t2.status[f] = st
    /\ \A g \in Files \ {f} : t2.status[g] = t.status[g] /\ (Parsable(t, g) => Parsable(t2, g))

LEMMA StatusBecomes ==
  ASSUME NEW t \in Trees, NEW f \in Files, NEW st
  PROVE  Becomes(t, [status |-> [t.status EXCEPT ![f] = st], reparse |-> t.reparse \ {f}], f, st)
BY DEF Trees, Becomes, Parsable

LEMMA OneOnStack ==
  ASSUME NEW f \in Files
  PROVE  /\ <<Entered(f)>> \in Seq(Entries)
         /\ Len(<<Entered(f)>>) = 1 /\ <<Entered(f)>>[1].file = f
<1>1. Entered(f) \in Entries /\ Entered(f).file = f
  BY EnteredIn
<1> HIDE DEF Entered
<1> QED
  BY <1>1

LEMMA OpenWell ==
  ASSUME Inv, AllWell, Inv', NEW p \in Parsers, Open(p)
  PROVE  AllWell'
<1> DEFINE d == parser[p]
           pl == pool[p]
           t == tree[p]
           f == pl.task
<1>1. UNCHANGED <<parser, deleting>> /\ ParserIs(p, d) /\ pl.at = "opens"
  BY Same3 DEF Open, Worker
<1>3. pl \in Pools /\ t \in Trees /\ Good(d, pl, deleting = p)
  BY Types
<1>4. f \in Files /\ pl.stack = <<>>
  BY <1>1, <1>3 DEF Good, Sound
<1>5. CASE /\ TaskDone(p) /\ UNCHANGED tree
           /\ pl.abort \/ t.status[f] \in {"parsing", "done"}
  <2> DEFINE n == Ended(pl)
  <2>1. PoolIs(p, n) /\ TreeIs(p, t)
    BY <1>5, Same3 DEF TaskDone
  <2>2. /\ n.at = "gets" /\ n.queue = pl.queue /\ n.stack = pl.stack
        /\ n.priority = pl.priority /\ ~n.abort
    BY <1>3 DEF Pools, Ended
  <2> HIDE DEF n
  <2>3. ASSUME deleting' # p, Good(d, n, FALSE) PROVE Well(p, d, n, t)
    <3>1. Well(p, d, pl, t) /\ Good(d, pl, FALSE)
      BY <1>1, <2>3, Before
    <3>2. d.isParsing /\ ~pl.abort
      BY <1>1, <3>1 DEF Good, Alive, Well, Works
    <3>3. Works(p, d, n)
      BY <2>2, <3>1 DEF Well, Works, Quiet, Rests
    <3>4. Placed(d, n, t)
      BY <1>5, <2>2, <3>1, <3>2 DEF Well, Placed, Waits, OnStack
    <3> QED
      BY <3>2, <3>3, <3>4 DEF Well, Fresh
  <2> QED
    BY <1>1, <2>1, <2>3, StepWell
<1>6. CASE /\ PoolIs(p, [pl EXCEPT !.at = "parses", !.stack = <<Entered(f)>>])
           /\ Status(p, f, "parsing")
  <2> DEFINE n == [pl EXCEPT !.at = "parses", !.stack = <<Entered(f)>>]
             t2 == [status |-> [t.status EXCEPT ![f] = "parsing"], reparse |-> t.reparse \ {f}]
  <2>1. PoolIs(p, n) /\ TreeIs(p, t2)
    BY <1>6 DEF Status
  <2>2. /\ n.at = "parses" /\ n.queue = pl.queue /\ n.stack = <<Entered(f)>> /\ n.task = f
        /\ n.priority = pl.priority /\ n.abort = pl.abort
    BY <1>3 DEF Pools
  <2>3. Becomes(t, t2, f, "parsing")
    BY <1>3, <1>4, StatusBecomes
  <2>4. Len(n.stack) = 1 /\ n.stack[1].file = f
    BY <1>4, <2>2, OneOnStack
  <2> HIDE DEF n, t2, f
  <2>5. ASSUME deleting' # p, Good(d, n, FALSE) PROVE Well(p, d, n, t2)
    <3>1. Well(p, d, pl, t) /\ Good(d, pl, FALSE)
      BY <1>1, <2>5, Before
    <3>2. d.isParsing
      BY <1>1, <3>1 DEF Good, Alive
    <3>3. Works(p, d, n)
      BY <2>2, <2>4, <3>1 DEF Well, Works, Quiet, Rests
    <3>4. OnStack(n, f)
      BY <2>4 DEF OnStack
    <3>5. \A g \in Files : ~OnStack(pl, g)
      BY <1>4 DEF OnStack
    <3>6. \A g \in Files \ {f} : Waits(d, pl, g) => Waits(d, n, g)
      BY <2>2 DEF Waits, f
    <3>7. Placed(d, n, t2)
      BY <1>4, <2>3, <3>1, <3>4, <3>5, <3>6 DEF Well, Placed, Becomes
    <3> QED
      BY <3>2, <3>3, <3>7 DEF Well, Fresh
  <2> QED
    BY <1>1, <2>1, <2>5, StepWell
<1> QED
  BY <1>5, <1>6 DEF Open

(* AddParseThread goes on: the witness that the parsing will begin stays.   *)
LEMMA CopyWell ==
  ASSUME Inv, AllWell, Inv', NEW p \in Parsers, CopyLists(p)
  PROVE  AllWell'
<1> DEFINE d == parser[p]
           pl == pool[p]
           n == [pl EXCEPT !.at = "macros", !.priority = d.priority, !.batch = d.batch]
<1>1. /\ UNCHANGED deleting /\ ParserIs(p, d) /\ TreeIs(p, tree[p]) /\ PoolIs(p, n)
      /\ pl.at = "copies"
  BY Same3 DEF CopyLists, Worker
<1>2. pl \in Pools /\ Good(d, pl, deleting = p)
  BY Types
<1>3. /\ n.at = "macros" /\ n.queue = pl.queue /\ n.stack = pl.stack
      /\ n.priority = d.priority /\ n.batch = d.batch /\ n.abort = pl.abort
  BY <1>2 DEF Pools
<1>4. n.stack = <<>>
  BY <1>1, <1>2, <1>3 DEF Good, Sound
<1> HIDE DEF n
<1>5. ASSUME deleting' # p, Good(d, n, FALSE) PROVE Well(p, d, n, tree[p])
  <2>1. Well(p, d, pl, tree[p])
    BY <1>1, <1>5, Before
  <2>2. Works(p, d, n)
    BY <1>3, <2>1 DEF Well, Works, Quiet, Rests
  <2>3. Placed(d, n, tree[p])
    BY <1>1, <1>3, <2>1 DEF Well, Placed, Waits, OnStack
  <2>4. ASSUME ~d.isParsing PROVE Begins(p, d, n, tree[p])
    <3>1. PICK f \in Files : Kept(p, d, pl, tree[p], f)
      BY <1>1, <2>1, <2>4 DEF Well, Fresh, Begins
    <3>2. Kept(p, d, n, tree[p], f)
      BY <1>3, <1>4, <3>1 DEF Kept
    <3> QED
      BY <3>2 DEF Begins
  <2>5. Starts(d, n, tree[p])
    BY <1>3 DEF Starts
  <2> QED
    BY <2>2, <2>3, <2>4, <2>5 DEF Well, Fresh
<1> QED
  BY <1>1, <1>5, StepWell

LEMMA TimerStopped ==
  ASSUME NEW d, NEW pl, Good(d, pl, FALSE), pl.at # "asleep"
  PROVE  ~d.batchTimer /\ ~Rests(pl)
BY DEF Good, Alive, Quiet, Rests

LEMMA MacrosWell ==
  ASSUME Inv, AllWell, Inv', NEW p \in Parsers, MacrosParsed(p)
  PROVE  AllWell'
<1> DEFINE d == parser[p]
           pl == pool[p]
           d2 == [d EXCEPT !.macros = FALSE, !.isPriority = TRUE]
           n == [pl EXCEPT !.at = "priority"]
<1>1. /\ UNCHANGED deleting /\ ParserIs(p, d2) /\ TreeIs(p, tree[p]) /\ PoolIs(p, n)
      /\ pl.at = "macros"
  BY Same3 DEF MacrosParsed, Worker, Goes
<1>2. pl \in Pools /\ d \in ParserStates /\ Good(d, pl, deleting = p)
  BY Types
<1>3. /\ n.at = "priority" /\ n.queue = pl.queue /\ n.stack = pl.stack
      /\ n.priority = pl.priority /\ n.batch = pl.batch /\ n.abort = pl.abort
  BY <1>2 DEF Pools
<1>4. /\ d2.priority = d.priority /\ d2.batch = d.batch /\ d2.poolTask = d.poolTask
      /\ d2.isParsing = d.isParsing /\ d2.firstBatch = d.firstBatch
      /\ d2.batchTimer = d.batchTimer
  BY <1>2 DEF ParserStates
<1>5. n.stack = <<>>
  BY <1>1, <1>2, <1>3 DEF Good, Sound
<1> HIDE DEF n, d2
<1>6. ASSUME deleting' # p, Good(d2, n, FALSE) PROVE Well(p, d2, n, tree[p])
  <2>1. Well(p, d, pl, tree[p])
    BY <1>1, <1>6, Before
  <2>2. ~d2.batchTimer /\ ~Rests(n)
    BY <1>3, <1>6, TimerStopped
  <2>3. n.stack \in Seq(HeaderEntries(p))
    BY <1>5, Lists
  <2>4. Works(p, d2, n)
    BY <1>3, <1>4, <2>1, <2>2, <2>3 DEF Well, Works, Quiet
  <2>5. Placed(d2, n, tree[p])
    BY <1>1, <1>3, <1>4, <2>1 DEF Well, Placed, Waits, OnStack
  <2>6. ASSUME ~d2.isParsing PROVE Begins(p, d2, n, tree[p])
    <3>1. PICK f \in Files : Kept(p, d, pl, tree[p], f)
      BY <1>1, <1>4, <2>1, <2>6 DEF Well, Fresh, Begins
    <3>2. Kept(p, d2, n, tree[p], f)
      BY <1>1, <1>3, <1>4, <3>1 DEF Kept
    <3> QED
      BY <3>2 DEF Begins
  <2>7. Starts(d2, n, tree[p])
    BY <1>3 DEF Starts
  <2> QED
    BY <2>4, <2>5, <2>6, <2>7 DEF Well, Fresh
<1> QED
  BY <1>1, <1>6, StepWell

LEMMA PriorityWell ==
  ASSUME Inv, AllWell, Inv', NEW p \in Parsers, PriorityParsed(p)
  PROVE  AllWell'
<1> DEFINE d == parser[p]
           pl == pool[p]
           first == d.firstBatch \/ d.ignore
           d2 == [d EXCEPT !.priority = <<>>, !.isPriority = FALSE, !.firstBatch = first]
           n == [pl EXCEPT !.at = "batch"]
<1>1. /\ UNCHANGED deleting /\ ParserIs(p, d2) /\ TreeIs(p, tree[p]) /\ PoolIs(p, n)
      /\ pl.at = "priority" /\ pl.stack = <<>>
  BY Same3 DEF PriorityParsed, Worker, Goes, InFile
<1>2. pl \in Pools /\ d \in ParserStates /\ Good(d, pl, deleting = p)
  BY Types
<1>3. /\ n.at = "batch" /\ n.queue = pl.queue /\ n.stack = pl.stack
      /\ n.priority = pl.priority /\ n.batch = pl.batch /\ n.abort = pl.abort
  BY <1>2 DEF Pools
<1>4. first \in BOOLEAN /\ (d.ignore <=> ~d.isParsing)
  BY <1>2 DEF ParserStates, Good, Sound
<1>5. first <=> d.firstBatch \/ ~d.isParsing
  BY <1>4
<1> HIDE DEF first
<1>6. /\ d2.priority = <<>> /\ d2.batch = d.batch /\ d2.poolTask = d.poolTask
      /\ d2.isParsing = d.isParsing /\ d2.firstBatch = first
      /\ d2.batchTimer = d.batchTimer
  BY <1>2 DEF ParserStates
<1> HIDE DEF n, d2
<1>7. ASSUME deleting' # p, Good(d2, n, FALSE) PROVE Well(p, d2, n, tree[p])
  <2>1. Well(p, d, pl, tree[p])
    BY <1>1, <1>7, Before
  <2>2. ~d2.batchTimer /\ ~Rests(n)
    BY <1>3, <1>7, TimerStopped
  <2>3. <<>> \in Seq(Headers(p))
    BY Lists
  <2>4. Works(p, d2, n)
    BY <1>3, <1>5, <1>6, <2>1, <2>2, <2>3 DEF Well, Works, Quiet
  <2>5. Placed(d2, n, tree[p])
    BY <1>1, <1>3, <1>6, <2>1 DEF Well, Placed, Waits, OnStack
  <2>6. Begins(p, d2, n, tree[p])
    BY <1>3 DEF Begins
  <2>7. ASSUME ~d2.isParsing PROVE Starts(d2, n, tree[p])
    <3>1. PICK f \in Files : Kept(p, d, pl, tree[p], f)
      BY <1>1, <1>6, <2>1, <2>7 DEF Well, Fresh, Begins
    <3>2. Contains(n.batch, f) /\ Parsable(tree[p], f)
      BY <1>1, <1>3, <3>1 DEF Kept
    <3> QED
      BY <1>5, <1>6, <2>7, <3>2 DEF Starts
  <2> QED
    BY <2>4, <2>5, <2>6, <2>7 DEF Well, Fresh
<1> QED
  BY <1>1, <1>7, StepWell

LEMMA ListedWell ==
  ASSUME Inv, AllWell, Inv', NEW p \in Parsers, BatchListed(p)
  PROVE  AllWell'
<1> DEFINE d == parser[p]
           pl == pool[p]
           parsing == d.isParsing \/ d.ignore
           d2 == [d EXCEPT !.batch = <<>>, !.ignore = FALSE, !.isParsing = parsing]
           n == Ended(pl)
<1>1. /\ UNCHANGED deleting /\ ParserIs(p, d2) /\ TreeIs(p, tree[p]) /\ PoolIs(p, n)
      /\ pl.at = "batch" /\ pl.batch = <<>>
  BY Same3 DEF BatchListed, Worker, TaskDone
<1>2. pl \in Pools /\ d \in ParserStates /\ Good(d, pl, deleting = p)
  BY Types
<1>3. /\ n.at = "gets" /\ n.queue = pl.queue /\ n.stack = pl.stack
      /\ n.priority = pl.priority /\ ~n.abort
  BY <1>2 DEF Pools, Ended
<1>4. parsing = TRUE
  BY <1>2 DEF ParserStates, Good, Sound
<1> HIDE DEF parsing
<1>5. /\ d2.priority = d.priority /\ d2.poolTask = d.poolTask
      /\ d2.isParsing /\ d2.firstBatch = d.firstBatch
      /\ d2.batchTimer = d.batchTimer
  BY <1>2, <1>4 DEF ParserStates
<1> HIDE DEF n, d2
<1>6. ASSUME deleting' # p, Good(d2, n, FALSE) PROVE Well(p, d2, n, tree[p])
  <2>1. Well(p, d, pl, tree[p])
    BY <1>1, <1>6, Before
  <2>2. ~d2.batchTimer /\ ~Rests(n)
    BY <1>3, <1>6, TimerStopped
  <2>3. ~d.firstBatch
    <3>1. \A f \in Files : ~Contains(pl.batch, f)
      BY <1>1, ContainsNothing
    <3> QED
      BY <1>1, <2>1, <3>1 DEF Well, Fresh, Starts, Works
  <2>4. Works(p, d2, n)
    BY <1>3, <1>5, <2>1, <2>2, <2>3 DEF Well, Works, Quiet
  <2>5. Placed(d2, n, tree[p])
    BY <1>1, <1>3, <1>5, <2>1 DEF Well, Placed, Waits, OnStack
  <2> QED
    BY <1>5, <2>4, <2>5 DEF Well, Fresh
<1> QED
  BY <1>1, <1>6, StepWell

(* The stack while the priority headers are parsed.                         *)
LEMMA HeadersOnStack ==
  ASSUME NEW p, NEW s \in Seq(HeaderEntries(p)), s # <<>>
  PROVE  /\ Tail(s) \in Seq(HeaderEntries(p))
         /\ Head(s).file \in Headers(p) /\ Head(s).rest \in Seq(Inclusions)
<1>1. Head(s) \in HeaderEntries(p) /\ Tail(s) \in Seq(HeaderEntries(p))
  BY HeadTailProperties
<1> QED
  BY <1>1 DEF HeaderEntries

LEMMA StackFiles ==
  ASSUME NEW S, NEW s \in Seq(S), s # <<>>, NEW k \in 1..Len(s), s[k].file # Head(s).file
  PROVE  \E m \in 1..Len(Tail(s)) : Tail(s)[m].file = s[k].file
<1>1. /\ Len(s) \in Nat \ {0} /\ Head(s) = s[1] /\ Len(Tail(s)) = Len(s) - 1
      /\ \A i \in 1..(Len(s) - 1) : Tail(s)[i] = s[i + 1]
  BY EmptySeq, LenProperties, HeadTailProperties
<1>2. k # 1
  BY <1>1
<1>3. k - 1 \in 1..(Len(s) - 1) /\ (k - 1) + 1 = k
  BY <1>1, <1>2
<1> QED
  BY <1>1, <1>3

LEMMA FlagWell ==
  ASSUME Inv, AllWell, Inv', NEW p \in Parsers, FlagFileAsParsed(p)
  PROVE  AllWell'
<1> DEFINE d == parser[p]
           pl == pool[p]
           t == tree[p]
           f == Head(pl.stack).file
           t2 == [t EXCEPT !.status = [t.status EXCEPT ![f] = "done"]]
<1>1. UNCHANGED <<parser, deleting>> /\ ParserIs(p, d) /\ TreeIs(p, t2)
  BY Same3 DEF FlagFileAsParsed, Top
<1>2. d \in ParserStates /\ pl \in Pools /\ t \in Trees /\ Good(d, pl, deleting = p)
  BY Types
<1>3. pl.stack \in Seq(Entries) /\ pl.stack # <<>>
  BY <1>2 DEF Pools, FlagFileAsParsed, InFile
<1>4. pl.at \in {"parses", "priority"}
  BY <1>2, <1>3 DEF Good, Sound
<1>5. f \in Files /\ Head(pl.stack) = pl.stack[1]
  <2>1. Head(pl.stack) \in Entries /\ Head(pl.stack) = pl.stack[1]
    BY <1>3, HeadTailProperties
  <2> QED
    BY <2>1 DEF Entries
<1>6. /\ t2.status[f] = "done"
      /\ \A g \in Files \ {f} : t2.status[g] = t.status[g] /\ (Parsable(t, g) => Parsable(t2, g))
  BY <1>2, <1>5 DEF Trees, Parsable
<1> HIDE DEF f, t2
<1>7. CASE pl.at = "parses"
  <2>1. CASE Len(pl.stack) # 1
    <3>1. deleting = p
      BY <1>7, <2>1, Before DEF Well, Works
    <3>2. \E n : PoolIs(p, n)
      BY DEF FlagFileAsParsed
    <3> QED
      BY <1>1, <3>1, <3>2, StepWell
  <2>2. CASE Len(pl.stack) = 1
    <3> DEFINE n == [Ended(pl) EXCEPT !.stack = <<>>]
    <3>1. PoolIs(p, n)
      BY <1>7, <2>2 DEF FlagFileAsParsed, Worker
    <3>2. /\ Ended(pl) \in Pools /\ Ended(pl).queue = pl.queue /\ Ended(pl).at = "gets"
          /\ Ended(pl).priority = pl.priority /\ ~Ended(pl).abort
      BY <1>2, EndedIn DEF Ended, Pools
    <3>3. /\ n.at = "gets" /\ n.queue = pl.queue /\ n.priority = pl.priority /\ ~n.abort
      BY <3>2 DEF Pools
    <3> HIDE DEF n
    <3>4. ASSUME deleting' # p PROVE Well(p, d, n, t2)
      <4>1. Well(p, d, pl, t) /\ Good(d, pl, FALSE)
        BY <1>1, <3>4, Before
      <4>2. d.isParsing
        BY <1>7, <4>1 DEF Good, Alive
      <4>3. Works(p, d, n)
        BY <3>3, <4>1 DEF Well, Works, Quiet, Rests
      <4>4. \A g \in Files : OnStack(pl, g) => g = f
        BY <1>5, <2>2 DEF OnStack, f
      <4>5. \A g \in Files : Waits(d, pl, g) => Waits(d, n, g)
        BY <1>7, <3>3 DEF Waits
      <4>6. Placed(d, n, t2)
        BY <1>6, <4>1, <4>4, <4>5 DEF Well, Placed
      <4> QED
        BY <4>2, <4>3, <4>6 DEF Well, Fresh
    <3> QED
      BY <1>1, <3>1, <3>4, StepWell
  <2> QED
    BY <2>1, <2>2
<1>8. CASE pl.at = "priority"
  <2> DEFINE n == [pl EXCEPT !.stack = Tail(@)]
  <2>1. PoolIs(p, n)
    BY <1>8 DEF FlagFileAsParsed, Worker
  <2>2. /\ n.at = "priority" /\ n.queue = pl.queue /\ n.priority = pl.priority
        /\ n.abort = pl.abort /\ n.batch = pl.batch /\ n.stack = Tail(pl.stack)
    BY <1>2, <1>8 DEF Pools
  <2> HIDE DEF n
  <2>3. ASSUME deleting' # p PROVE Well(p, d, n, t2)
    <3>1. Well(p, d, pl, t) /\ Good(d, pl, FALSE)
      BY <1>1, <2>3, Before
    <3>2. pl.stack \in Seq(HeaderEntries(p))
      BY <1>8, <3>1 DEF Well, Works
    <3>3. f \in Headers(p) /\ n.stack \in Seq(HeaderEntries(p))
      BY <1>3, <2>2, <3>2, HeadersOnStack DEF f
    <3>4. Works(p, d, n)
      BY <1>8, <2>2, <3>1, <3>3 DEF Well, Works, Quiet, Rests
    <3>5. ASSUME NEW g \in Files, OnStack(pl, g), g # f PROVE OnStack(n, g)
      <4>1. PICK k \in 1..Len(pl.stack) : pl.stack[k].file = g
        BY <3>5 DEF OnStack
      <4>2. \E m \in 1..Len(Tail(pl.stack)) : Tail(pl.stack)[m].file = g
        BY <1>3, <3>5, <4>1, StackFiles DEF f
      <4> QED
        BY <2>2, <4>2 DEF OnStack
    <3>6. \A g \in Files : Waits(d, pl, g) => Waits(d, n, g)
      BY <1>8, <2>2 DEF Waits
    <3>7. Placed(d, n, t2)
      BY <1>6, <3>1, <3>5, <3>6 DEF Well, Placed
    <3>8. ASSUME ~d.isParsing PROVE Begins(p, d, n, t2)
      <4>1. PICK g \in Files : Kept(p, d, pl, t, g)
        BY <1>8, <3>1, <3>8 DEF Well, Fresh, Begins
      <4>2. g \notin Headers(p) /\ Contains(d.batch, g) /\ Contains(pl.batch, g) /\ Parsable(t, g)
        BY <1>3, <1>8, <4>1 DEF Kept
      <4>3. Kept(p, d, n, t2, g)
        BY <1>6, <2>2, <3>3, <4>2 DEF Kept
      <4> QED
        BY <4>3 DEF Begins
    <3>9. Starts(d, n, t2)
      BY <2>2 DEF Starts
    <3> QED
      BY <3>4, <3>7, <3>8, <3>9 DEF Well, Fresh
  <2> QED
    BY <1>1, <2>1, <2>3, StepWell
<1> QED
  BY <1>4, <1>7, <1>8

(* The lists of tasks to come.                                              *)
LEMMA ContainsMore ==
  ASSUME NEW S, NEW q \in Seq(S), NEW t \in S, NEW x, Contains(q, x) \/ x = t
  PROVE  Contains(Append(q, t), x)
<1>1. /\ Len(Append(q, t)) = Len(q) + 1 /\ Len(q) \in Nat
      /\ \A i \in 1..Len(q) : Append(q, t)[i] = q[i]
      /\ Append(q, t)[Len(q) + 1] = t
  BY AppendProperties, LenProperties
<1>2. CASE Contains(q, x)
  <2>1. PICK i \in 1..Len(q) : q[i] = x
    BY <1>2 DEF Contains
  <2>2. i \in 1..(Len(q) + 1)
    BY <1>1
  <2> QED
    BY <1>1, <2>1, <2>2 DEF Contains
<1>3. CASE x = t
  <2>1. Len(q) + 1 \in 1..(Len(q) + 1)
    BY <1>1
  <2> QED
    BY <1>1, <1>3, <2>1 DEF Contains
<1> QED
  BY <1>2, <1>3

LEMMA LastTasks ==
  ASSUME NEW s \in Seq(Seq(Files)), NEW q \in Seq(Seq(Files)), NEW f \in Files,
         q = s \/ q = Append(s, <<>>), Len(q) # 0,
         \A k \in 1..Len(s) : s[k] # <<>>
  PROVE  LET u == WithLast(q, f) IN
         /\ u # <<>>
         /\ \A k \in 1..Len(u) : u[k] # <<>>
         /\ \E k \in 1..Len(u) : Contains(u[k], f)
         /\ \A g : (\E k \in 1..Len(s) : Contains(s[k], g))
                     => \E k \in 1..Len(u) : Contains(u[k], g)
<1> DEFINE n == Len(q)
           x == q[n]
           y == Append(x, f)
           u == [q EXCEPT ![n] = y]
<1>1. n \in Nat \ {0} /\ n \in 1..n /\ DOMAIN q = 1..n
  BY LenProperties
<1>2. x \in Seq(Files)
  BY <1>1, ElementOfSeq
<1> HIDE DEF x
<1>3. y \in Seq(Files) /\ y # <<>> /\ Contains(y, f)
      /\ \A g : Contains(x, g) => Contains(y, g)
  <2>1. y \in Seq(Files) /\ Len(y) = Len(x) + 1 /\ Len(x) \in Nat
    BY <1>2, AppendProperties, LenProperties
  <2>2. y # <<>>
    <3> HIDE DEF y
    <3> QED
      BY <2>1, EmptySeq
  <2>3. Contains(y, f) /\ \A g : Contains(x, g) => Contains(y, g)
    BY <1>2, ContainsMore
  <2> QED
    BY <2>1, <2>2, <2>3
<1> HIDE DEF y
<1>4. /\ u \in Seq(Seq(Files)) /\ Len(u) = n /\ u[n] = y
      /\ \A k \in 1..n : k # n => u[k] = q[k]
  <2>1. u \in Seq(Seq(Files)) /\ DOMAIN u = 1..n
    BY <1>1, <1>3, ExceptSeq
  <2>2. u[n] = y /\ \A k \in 1..n : k # n => u[k] = q[k]
    BY <1>1
  <2> HIDE DEF u, n
  <2>3. Len(u) = n
    BY <1>1, <2>1, LenProperties
  <2> QED
    BY <2>1, <2>2, <2>3
<1>5. WithLast(q, f) = u
  BY DEF WithLast, x, y
<1> HIDE DEF u
<1>6. /\ Len(s) \in Nat /\ Len(s) <= n
      /\ \A k \in 1..Len(s) : k \in 1..n /\ q[k] = s[k]
      /\ \A k \in 1..n : k # n => k \in 1..Len(s)
  <2>1. CASE q = s
    <3>1. Len(s) = n
      BY <2>1
    <3> HIDE DEF n
    <3> QED
      BY <1>1, <2>1, <3>1
  <2>2. CASE q = Append(s, <<>>)
    <3>1. /\ n = Len(s) + 1 /\ Len(s) \in Nat
          /\ \A i \in 1..Len(s) : Append(s, <<>>)[i] = s[i]
      BY <2>2, Lists, AppendProperties, LenProperties
    <3> QED
      BY <2>2, <3>1
  <2> QED
    BY <2>1, <2>2
<1>7. u # <<>>
  BY <1>1, <1>4, EmptySeq
<1>8. ASSUME NEW k \in 1..n PROVE u[k] # <<>>
  BY <1>3, <1>4, <1>6
<1>9. ASSUME NEW g, NEW k \in 1..Len(s), Contains(s[k], g)
      PROVE  Contains(u[k], g) /\ k \in 1..n
  <2>1. CASE k = n
    BY <1>3, <1>4, <1>6, <1>9, <2>1 DEF x
  <2>2. CASE k # n
    BY <1>4, <1>6, <1>9, <2>2
  <2> QED
    BY <2>1, <2>2
<1>10. \E k \in 1..n : Contains(u[k], f)
  BY <1>1, <1>3, <1>4
<1>11. \A g : (\E k \in 1..Len(s) : Contains(s[k], g)) => \E k \in 1..n : Contains(u[k], g)
  BY <1>9
<1> QED
  BY <1>4, <1>5, <1>7, <1>8, <1>10, <1>11

(* What Parse can do with a file.                                           *)
SameTask(pl, n) ==
    /\ n.at = pl.at /\ n.task = pl.task /\ n.priority = pl.priority /\ n.batch = pl.batch
    /\ n.abort = pl.abort
SameLists(d, d2) ==
    /\ d2.priority = d.priority /\ d2.batch = d.batch /\ d2.macros = d.macros
    /\ d2.isParsing = d.isParsing /\ d2.isPriority = d.isPriority
    /\ d2.batchTimer = d.batchTimer

Skips(d, pl, t, f, d2, n, t2) == ~Parsable(t, f) /\ d2 = d /\ n = pl /\ t2 = t
Enters(d, pl, t, f, d2, n, t2) ==
    /\ d.isPriority /\ d2 = d
    /\ n.queue = pl.queue /\ n.stack = <<Entered(f)>> \o pl.stack
    /\ Becomes(t, t2, f, "parsing")
Queues(d, pl, t, f, d2, n, t2) ==
    /\ ~d.isPriority /\ d.isParsing /\ ~d2.firstBatch /\ d2.poolTask = Queued(d)
    /\ n.queue = Append(pl.queue, f) /\ n.stack = pl.stack
    /\ Becomes(t, t2, f, "assigned")
Collects(d, pl, t, f, d2, n, t2) ==
    /\ d.isPriority \/ ~d.isParsing
    /\ d2.firstBatch <=> d.firstBatch /\ d.isPriority
    /\ d2.poolTask = WithLast(Queued(d), f) /\ n = pl
    /\ Becomes(t, t2, f, "assigned")
Parses(d, pl, t, f, d2, n, t2) ==
    /\ SameTask(pl, n) /\ SameLists(d, d2)
    /\ \/ Skips(d, pl, t, f, d2, n, t2) \/ Enters(d, pl, t, f, d2, n, t2)
       \/ Queues(d, pl, t, f, d2, n, t2) \/ Collects(d, pl, t, f, d2, n, t2)

LEMMA ParseIs ==
  ASSUME Inv, NEW p \in Parsers, NEW pl \in Pools, NEW f \in Files, NEW isLocal,
         Parse(p, pl, f, isLocal)
  PROVE  \E d2, n, t2 : /\ ParserIs(p, d2) /\ PoolIs(p, n) /\ TreeIs(p, t2)
                        /\ Parses(parser[p], pl, tree[p], f, d2, n, t2)
<1> DEFINE d == parser[p]
           t == tree[p]
<1>1. d \in ParserStates /\ t \in Trees
  BY Types
<1>2. CanParse(p, f) <=> Parsable(t, f)
  BY DEF CanParse, Parsable
<1>3. CASE ~CanParse(p, f)
  <2>1. ParserIs(p, d) /\ PoolIs(p, pl) /\ TreeIs(p, t)
    BY <1>3, Same3 DEF Parse
  <2>2. Parses(d, pl, t, f, d, pl, t)
    BY <1>2, <1>3 DEF Parses, Skips, SameTask, SameLists
  <2> QED
    BY <2>1, <2>2
<1>4. CASE CanParse(p, f) /\ d.isPriority /\ isLocal
  <2> DEFINE n == [pl EXCEPT !.stack = <<Entered(f)>> \o @]
             t2 == [status |-> [t.status EXCEPT ![f] = "parsing"], reparse |-> t.reparse \ {f}]
  <2>1. ParserIs(p, d) /\ PoolIs(p, n) /\ TreeIs(p, t2)
    BY <1>4, Same3 DEF Parse, Status
  <2>2. Becomes(t, t2, f, "parsing")
    BY <1>1, StatusBecomes
  <2>3. SameTask(pl, n) /\ n.queue = pl.queue /\ n.stack = <<Entered(f)>> \o pl.stack
    BY DEF Pools, SameTask
  <2> HIDE DEF n, t2
  <2>4. Parses(d, pl, t, f, d, n, t2)
    BY <1>4, <2>2, <2>3 DEF Parses, Enters, SameLists
  <2> QED
    BY <2>1, <2>4
<1>5. CASE CanParse(p, f) /\ ~(d.isPriority /\ isLocal)
  <2> DEFINE t2 == [status |-> [t.status EXCEPT ![f] = "assigned"], reparse |-> t.reparse \ {f}]
  <2>1. Dispatch(p, pl, f) /\ TreeIs(p, t2)
    BY <1>5 DEF Parse, Status
  <2>2. Becomes(t, t2, f, "assigned")
    BY <1>1, StatusBecomes
  <2> HIDE DEF t2
  <2>3. Queued(d) \in Seq(Seq(Files)) /\ WithLast(Queued(d), f) \in Seq(Seq(Files))
    BY <1>1, QueuedIn
  <2>4. CASE /\ ~d.isPriority /\ d.isParsing
             /\ ParserIs(p, [d EXCEPT !.firstBatch = FALSE, !.poolTask = Queued(d)])
             /\ PoolIs(p, AddTask(pl, f))
    <3> DEFINE d2 == [d EXCEPT !.firstBatch = FALSE, !.poolTask = Queued(d)]
               n == AddTask(pl, f)
    <3>1. SameLists(d, d2) /\ ~d2.firstBatch /\ d2.poolTask = Queued(d)
      BY <1>1 DEF ParserStates, SameLists
    <3>2. SameTask(pl, n) /\ n.queue = Append(pl.queue, f) /\ n.stack = pl.stack
      BY DEF Pools, AddTask, SameTask
    <3>3. ParserIs(p, d2) /\ PoolIs(p, n)
      BY <2>4
    <3> HIDE DEF d2, n
    <3>4. Parses(d, pl, t, f, d2, n, t2)
      BY <2>2, <2>4, <3>1, <3>2 DEF Parses, Queues
    <3> QED
      BY <2>1, <3>3, <3>4
  <2>5. CASE /\ d.isPriority \/ ~d.isParsing
             /\ ParserIs(p, [d EXCEPT !.firstBatch = d.firstBatch /\ ~(d.firstBatch /\ ~d.isPriority),
                                      !.poolTask = WithLast(Queued(d), f)])
             /\ PoolIs(p, pl)
    <3> DEFINE b == d.firstBatch /\ ~(d.firstBatch /\ ~d.isPriority)
               d2 == [d EXCEPT !.firstBatch = b, !.poolTask = WithLast(Queued(d), f)]
    <3>1. b <=> d.firstBatch /\ d.isPriority
      OBVIOUS
    <3> HIDE DEF b
    <3>2. SameLists(d, d2) /\ d2.firstBatch = b /\ d2.poolTask = WithLast(Queued(d), f)
      BY <1>1 DEF ParserStates, SameLists
    <3>3. ParserIs(p, d2)
      BY <2>5 DEF b
    <3> HIDE DEF d2
    <3>4. Parses(d, pl, t, f, d2, pl, t2)
      BY <2>2, <2>5, <3>1, <3>2 DEF Parses, Collects, SameTask
    <3> QED
      BY <2>1, <2>5, <3>3, <3>4
  <2> QED
    BY <2>1, <2>4, <2>5, DispatchIs
<1> QED
  BY <1>3, <1>4, <1>5

(* What AddParseThread, or the task of a file, must bring to Parse: the     *)
(* file kept for the beginning is not this one, or it begins the parsing.   *)
Brings(p, d, pl, t, f) ==
    /\ Works(p, d, pl) /\ Placed(d, pl, t)
    /\ pl.at = "priority" => f \in Headers(p)
    /\ pl.at = "parses" => d.isParsing
    /\ ~d.isParsing /\ pl.at = "priority" =>
          \E g \in Files : Kept(p, d, pl, t, g) /\ g \notin Headers(p)
    /\ ~d.isParsing /\ pl.at = "batch" =>
          \/ d.firstBatch /\ (Parsable(t, f)
                             \/ \E g \in Files : Contains(pl.batch, g) /\ Parsable(t, g))
          \/ ~d.firstBatch /\ d.poolTask # <<>>

LEMMA IncludesIn ==
  ASSUME NEW f \in Files
  PROVE  Includes[f] \in Seq(Inclusions)
<1>1. Includes[f] \in Seq(Include)
  BY ParserAssumption
<1>2. \A i \in 1..Len(Includes[f]) : Includes[f][i] \in Inclusions
  <2> TAKE i \in 1..Len(Includes[f])
  <2>1. Includes[f][i] \in Include
    BY <1>1, ElementOfSeq
  <2>2. Includes[f][i].file \in Included
    BY <2>1 DEF Included, Include
  <2> QED
    BY <2>1, <2>2 DEF Include, Inclusions
<1>3. /\ Len(Includes[f]) \in Nat
      /\ Includes[f] = [i \in 1..Len(Includes[f]) |-> Includes[f][i]]
  BY <1>1
<1> QED
  BY <1>2, <1>3, IsASeq

LEMMA PushedFiles ==
  ASSUME NEW S, NEW x \in S, NEW s \in Seq(S), NEW k \in 1..Len(s)
  PROVE  \E m \in 1..Len(<<x>> \o s) : (<<x>> \o s)[m] = s[k]
<1>1. <<x>> \in Seq(S) /\ Len(<<x>>) = 1 /\ Len(s) \in Nat
  BY LenProperties
<1>2. /\ Len(<<x>> \o s) = 1 + Len(s)
      /\ (<<x>> \o s)[1 + k] = s[k]
  BY <1>1, ConcatProperties
<1>3. 1 + k \in 1..Len(<<x>> \o s)
  BY <1>1, <1>2
<1> QED
  BY <1>2, <1>3

LEMMA QueuedSome ==
  ASSUME NEW d \in ParserStates, d.isPriority \/ d.firstBatch \/ d.poolTask # <<>>
  PROVE  /\ Queued(d) = d.poolTask \/ Queued(d) = Append(d.poolTask, <<>>)
         /\ Len(Queued(d)) # 0
<1>1. d.poolTask \in Seq(Seq(Files)) /\ <<>> \in Seq(Files)
  BY Lists DEF ParserStates
<1>2. /\ Len(Append(d.poolTask, <<>>)) = Len(d.poolTask) + 1 /\ Len(d.poolTask) \in Nat
      /\ d.poolTask # <<>> => Len(d.poolTask) # 0
  BY <1>1, AppendProperties, LenProperties, EmptySeq
<1> QED
  BY <1>2 DEF Queued

LEMMA ParsesWorks ==
  ASSUME NEW p \in Parsers, NEW d \in ParserStates, NEW pl \in Pools, NEW t, NEW f \in Files,
         NEW d2, NEW n, NEW t2, Brings(p, d, pl, t, f), Parses(d, pl, t, f, d2, n, t2),
         Good(d2, n, FALSE), pl.at \in {"parses", "priority", "batch"},
         d.isPriority <=> pl.at = "priority"
  PROVE  Works(p, d2, n)
<1>1. Works(p, d, pl) /\ SameTask(pl, n) /\ SameLists(d, d2)
  BY DEF Brings, Parses
<1>2. ~d2.batchTimer /\ ~Rests(n)
  BY <1>1, TimerStopped DEF SameTask
<1>3. CASE Skips(d, pl, t, f, d2, n, t2)
  BY <1>1, <1>3 DEF Skips
<1>4. CASE Enters(d, pl, t, f, d2, n, t2)
  <2>1. pl.stack \in Seq(HeaderEntries(p)) /\ pl.at = "priority" /\ d2 = d
    BY <1>1, <1>4 DEF Works, Enters
  <2>2. Entered(f) \in HeaderEntries(p)
    BY <2>1, IncludesIn DEF Brings, Entered, HeaderEntries
  <2>3. n.stack \in Seq(HeaderEntries(p))
    <3>1. n.stack = <<Entered(f)>> \o pl.stack
      BY <1>4 DEF Enters
    <3> QED
      BY <2>1, <2>2, <3>1, PushIn
  <2> QED
    BY <1>1, <1>2, <2>1, <2>3 DEF Works, SameTask, SameLists, Quiet
<1>5. CASE Queues(d, pl, t, f, d2, n, t2)
  <2>1. d2.poolTask = d.poolTask /\ ~d2.firstBatch
    BY <1>1, <1>5 DEF Queues, Queued, Works
  <2> QED
    BY <1>1, <1>2, <1>5, <2>1 DEF Works, SameTask, SameLists, Quiet, Queues
<1>6. CASE Collects(d, pl, t, f, d2, n, t2)
  <2>1. d.isPriority \/ d.firstBatch \/ d.poolTask # <<>>
    BY <1>6 DEF Collects, Brings
  <2>2. /\ Queued(d) = d.poolTask \/ Queued(d) = Append(d.poolTask, <<>>)
        /\ Len(Queued(d)) # 0
    BY <2>1, QueuedSome
  <2>3. Queued(d) \in Seq(Seq(Files)) /\ d.poolTask \in Seq(Seq(Files))
    BY QueuedIn DEF ParserStates
  <2>4. \A k \in 1..Len(d2.poolTask) : d2.poolTask[k] # <<>>
    BY <1>1, <1>6, <2>2, <2>3, LastTasks DEF Collects, Works
  <2>5. d2.isParsing => ~d2.firstBatch
    BY <1>1, <1>6 DEF Collects, Works, SameLists
  <2> QED
    BY <1>1, <1>2, <1>6, <2>4, <2>5 DEF Works, SameLists, Quiet, Collects
<1> QED
  BY <1>3, <1>4, <1>5, <1>6 DEF Parses

LEMMA ParsesPlaced ==
  ASSUME NEW p \in Parsers, NEW d \in ParserStates, NEW pl \in Pools, NEW t, NEW f \in Files,
         NEW d2, NEW n, NEW t2, Brings(p, d, pl, t, f), Parses(d, pl, t, f, d2, n, t2),
         pl.at \in {"parses", "priority", "batch"},
         d.isPriority <=> pl.at = "priority"
  PROVE  Placed(d2, n, t2)
<1>1. /\ Works(p, d, pl) /\ Placed(d, pl, t) /\ SameTask(pl, n) /\ SameLists(d, d2)
      /\ pl.stack \in Seq(Entries) /\ pl.queue \in Seq(Tasks)
      /\ d.poolTask \in Seq(Seq(Files))
  BY DEF Brings, Parses, Pools, ParserStates
<1>2. CASE Skips(d, pl, t, f, d2, n, t2)
  BY <1>1, <1>2 DEF Skips
<1>3. CASE Enters(d, pl, t, f, d2, n, t2)
  <2>1. n.stack = <<Entered(f)>> \o pl.stack /\ Entered(f) \in Entries /\ Entered(f).file = f
    BY <1>3, EnteredIn DEF Enters
  <2> DEFINE x == Entered(f)
  <2> HIDE DEF x
  <2>2. OnStack(n, f)
    <3>1. Len(n.stack) = Len(pl.stack) + 1 /\ n.stack[1] = x /\ Len(pl.stack) \in Nat
      BY <1>1, <2>1, PushIn, LenProperties DEF x
    <3>2. 1 \in 1..Len(n.stack) /\ n.stack[1].file = f
      BY <2>1, <3>1 DEF x
    <3> QED
      BY <3>2 DEF OnStack
  <2>3. ASSUME NEW g, OnStack(pl, g) PROVE OnStack(n, g)
    <3>1. PICK k \in 1..Len(pl.stack) : pl.stack[k].file = g
      BY <2>3 DEF OnStack
    <3>2. \E m \in 1..Len(<<Entered(f)>> \o pl.stack) :
            (<<Entered(f)>> \o pl.stack)[m] = pl.stack[k]
      BY <1>1, <2>1, PushedFiles
    <3>3. PICK m \in 1..Len(n.stack) : n.stack[m] = pl.stack[k]
      BY <2>1, <3>2
    <3> QED
      BY <3>1, <3>3 DEF OnStack
  <2>4. \A g : Waits(d, pl, g) => Waits(d2, n, g)
    BY <1>1, <1>3 DEF Waits, SameTask, Enters
  <2> QED
    BY <1>1, <1>3, <2>2, <2>3, <2>4 DEF Placed, Becomes, Enters
<1>4. CASE Queues(d, pl, t, f, d2, n, t2)
  <2>1. d2.poolTask = d.poolTask
    BY <1>1, <1>4 DEF Queues, Queued, Works
  <2>2. /\ Contains(n.queue, f)
        /\ \A g : Contains(pl.queue, g) => Contains(n.queue, g)
    BY <1>1, <1>4, FileNames, ContainsMore DEF Queues
  <2>3. \A g : Waits(d, pl, g) => Waits(d2, n, g)
    BY <1>1, <2>1, <2>2 DEF Waits, SameTask
  <2>4. Waits(d2, n, f)
    BY <2>2 DEF Waits
  <2>5. \A g : OnStack(pl, g) => OnStack(n, g)
    BY <1>4 DEF OnStack, Queues
  <2> QED
    BY <1>1, <1>4, <2>3, <2>4, <2>5 DEF Placed, Becomes, Queues
<1>5. CASE Collects(d, pl, t, f, d2, n, t2)
  <2>1. d.isPriority \/ d.firstBatch \/ d.poolTask # <<>>
    BY <1>5 DEF Collects, Brings
  <2>2. /\ Queued(d) = d.poolTask \/ Queued(d) = Append(d.poolTask, <<>>)
        /\ Len(Queued(d)) # 0
    BY <2>1, QueuedSome
  <2>3. Queued(d) \in Seq(Seq(Files))
    BY QueuedIn
  <2> DEFINE q == Queued(d)
             u == WithLast(q, f)
  <2>4. q \in Seq(Seq(Files)) /\ (q = d.poolTask \/ q = Append(d.poolTask, <<>>)) /\ Len(q) # 0
    BY <2>2, <2>3
  <2>5. d2.poolTask = u
    BY <1>5 DEF Collects
  <2>6. \A k \in 1..Len(d.poolTask) : d.poolTask[k] # <<>>
    BY <1>1 DEF Works
  <2> HIDE DEF q
  <2>7. /\ \E k \in 1..Len(u) : Contains(u[k], f)
        /\ \A g : (\E k \in 1..Len(d.poolTask) : Contains(d.poolTask[k], g))
                    => \E k \in 1..Len(u) : Contains(u[k], g)
    BY <1>1, <2>4, <2>6, LastTasks
  <2>8. Waits(d2, n, f) /\ \A g : Waits(d, pl, g) => Waits(d2, n, g)
    BY <1>5, <2>5, <2>7 DEF Waits, Collects
  <2> QED
    BY <1>1, <1>5, <2>8 DEF Placed, Becomes, Collects
<1> QED
  BY <1>2, <1>3, <1>4, <1>5 DEF Parses

LEMMA ParsesFresh ==
  ASSUME NEW p \in Parsers, NEW d \in ParserStates, NEW pl \in Pools, NEW t, NEW f \in Files,
         NEW d2, NEW n, NEW t2, Brings(p, d, pl, t, f), Parses(d, pl, t, f, d2, n, t2),
         pl.at \in {"parses", "priority", "batch"},
         d.isPriority <=> pl.at = "priority"
  PROVE  Fresh(p, d2, n, t2)
<1>1. SameTask(pl, n) /\ SameLists(d, d2)
  BY DEF Parses
<1>2. SUFFICES ASSUME ~d.isParsing PROVE Begins(p, d2, n, t2) /\ Starts(d2, n, t2)
  BY <1>1 DEF Fresh, SameLists
<1>3. \A g \in Files : Parsable(t, g) => Parsable(t2, g) \/ (g = f /\ t2 # t)
  BY DEF Parses, Skips, Enters, Queues, Collects, Becomes
<1>4. pl.at # "parses" /\ n.at = pl.at
  BY <1>1, <1>2 DEF Brings, SameTask
<1>5. CASE pl.at = "priority"
  <2>1. PICK g \in Files : Kept(p, d, pl, t, g) /\ g \notin Headers(p)
    BY <1>2, <1>5 DEF Brings
  <2>2. g # f
    BY <1>5, <2>1 DEF Brings
  <2>3. Kept(p, d2, n, t2, g)
    BY <1>1, <1>3, <1>5, <2>1, <2>2 DEF Kept, SameTask, SameLists
  <2> QED
    BY <1>4, <1>5, <2>3 DEF Begins, Starts
<1>6. CASE pl.at = "batch"
  <2>1. CASE Skips(d, pl, t, f, d2, n, t2)
    BY <1>2, <1>6, <2>1 DEF Brings, Skips, Begins, Starts
  <2>2. CASE Collects(d, pl, t, f, d2, n, t2)
    <3>1. ~d2.firstBatch
      BY <1>6, <2>2 DEF Collects
    <3>2. d.firstBatch \/ d.poolTask # <<>>
      BY <1>2, <1>6 DEF Brings
    <3>3. /\ Queued(d) = d.poolTask \/ Queued(d) = Append(d.poolTask, <<>>)
          /\ Len(Queued(d)) # 0
      BY <3>2, QueuedSome
    <3>4. Queued(d) \in Seq(Seq(Files)) /\ d.poolTask \in Seq(Seq(Files))
      BY QueuedIn DEF ParserStates
    <3>5. d2.poolTask # <<>>
      BY <2>2, <3>3, <3>4, LastTasks DEF Collects, Works, Brings
    <3> QED
      BY <1>4, <1>6, <3>1, <3>5 DEF Begins, Starts
  <2> QED
    BY <1>2, <1>6, <2>1, <2>2 DEF Parses, Enters, Queues
<1> QED
  BY <1>4, <1>5, <1>6

LEMMA ParseWell ==
  ASSUME Inv, AllWell, Inv', NEW p \in Parsers, NEW pl \in Pools, NEW f \in Files, NEW isLocal,
         Parse(p, pl, f, isLocal), UNCHANGED deleting,
         pl.at \in {"parses", "priority", "batch"}, pool[p].at = pl.at,
         deleting # p => Brings(p, parser[p], pl, tree[p], f)
  PROVE  AllWell'
<1>1. PICK d2, n, t2 : /\ ParserIs(p, d2) /\ PoolIs(p, n) /\ TreeIs(p, t2)
                       /\ Parses(parser[p], pl, tree[p], f, d2, n, t2)
  BY ParseIs
<1>2. /\ parser[p] \in ParserStates /\ Good(parser[p], pool[p], deleting = p)
      /\ parser[p].isPriority <=> pl.at = "priority"
  BY Types DEF Good, Sound
<1>3. ASSUME deleting' # p, Good(d2, n, FALSE) PROVE Well(p, d2, n, t2)
  <2>1. Brings(p, parser[p], pl, tree[p], f)
    BY <1>3
  <2> QED
    BY <1>1, <1>2, <1>3, <2>1, ParsesWorks, ParsesPlaced, ParsesFresh DEF Well
<1> QED
  BY <1>1, <1>3, StepWell

(* m_PriorityHeaders lead to priority headers.                              *)
LEMMA HeaderWell ==
  ASSUME Inv, AllWell, Inv', NEW p \in Parsers, NextPriorityHeader(p)
  PROVE  AllWell'
<1> DEFINE d == parser[p]
           pl == pool[p]
           t == tree[p]
           f == Head(pl.priority)
           n == [pl EXCEPT !.priority = Tail(@)]
<1>1. pl \in Pools /\ pl.at = "priority" /\ UNCHANGED deleting /\ Parse(p, n, f, TRUE)
      /\ pl.stack = <<>>
  BY Types DEF NextPriorityHeader, Worker, InFile
<1>2. pl.priority \in Seq(Files) /\ pl.priority # <<>>
  BY <1>1 DEF Pools, NextPriorityHeader
<1>3. f \in Files /\ Tail(pl.priority) \in Seq(Files)
  BY <1>2, HeadTailProperties
<1>4. n \in Pools
  BY <1>1, <1>3 DEF Pools
<1>5. /\ n.at = "priority" /\ n.task = pl.task /\ n.queue = pl.queue /\ n.stack = pl.stack
      /\ n.batch = pl.batch /\ n.priority = Tail(pl.priority) /\ n.abort = pl.abort
  BY <1>1 DEF Pools
<1> HIDE DEF n
<1>6. ASSUME deleting # p PROVE Brings(p, d, n, t, f)
  <2>1. Well(p, d, pl, t) /\ Works(p, d, pl)
    BY <1>6, Before DEF Well
  <2>2. pl.priority \in Seq(Headers(p))
    BY <2>1 DEF Works
  <2>3. f \in Headers(p) /\ Tail(pl.priority) \in Seq(Headers(p))
    BY <1>2, <2>2, HeadTailProperties
  <2>4. Works(p, d, n)
    BY <1>1, <1>5, <2>1, <2>3 DEF Works, Quiet, Rests
  <2>5. Placed(d, n, t)
    BY <1>1, <1>5, <2>1 DEF Well, Placed, Waits, OnStack
  <2>6. ASSUME ~d.isParsing PROVE \E g \in Files : Kept(p, d, n, t, g) /\ g \notin Headers(p)
    <3>1. PICK g \in Files : Kept(p, d, pl, t, g)
      BY <1>1, <2>1, <2>6 DEF Well, Fresh, Begins
    <3>2. g \notin Headers(p)
      BY <1>1, <1>2, <3>1 DEF Kept
    <3>3. Kept(p, d, n, t, g)
      BY <1>1, <1>5, <3>1, <3>2 DEF Kept
    <3> QED
      BY <3>2, <3>3
  <2> QED
    BY <1>5, <2>3, <2>4, <2>5, <2>6 DEF Brings
<1> QED
  BY <1>1, <1>3, <1>4, <1>5, <1>6, ParseWell

(* The first batch takes a file that can be parsed.                         *)
LEMMA BatchFileWell ==
  ASSUME Inv, AllWell, Inv', NEW p \in Parsers, NextBatchFile(p)
  PROVE  AllWell'
<1> DEFINE d == parser[p]
           pl == pool[p]
           t == tree[p]
           f == Head(pl.batch)
           n == [pl EXCEPT !.batch = Tail(@)]
<1>1. pl \in Pools /\ pl.at = "batch" /\ UNCHANGED deleting /\ Parse(p, n, f, TRUE)
  BY Types DEF NextBatchFile, Worker
<1>2. pl.batch \in Seq(Files) /\ pl.batch # <<>>
  BY <1>1 DEF Pools, NextBatchFile
<1>3. f \in Files /\ Tail(pl.batch) \in Seq(Files)
  BY <1>2, HeadTailProperties
<1>4. n \in Pools
  BY <1>1, <1>3 DEF Pools
<1>5. /\ n.at = "batch" /\ n.task = pl.task /\ n.queue = pl.queue /\ n.stack = pl.stack
      /\ n.batch = Tail(pl.batch) /\ n.priority = pl.priority /\ n.abort = pl.abort
  BY <1>1 DEF Pools
<1> HIDE DEF n
<1>6. ASSUME deleting # p PROVE Brings(p, d, n, t, f)
  <2>1. Well(p, d, pl, t)
    BY <1>6, Before
  <2>2. Works(p, d, n)
    BY <1>1, <1>5, <2>1 DEF Well, Works, Quiet, Rests
  <2>3. Placed(d, n, t)
    BY <1>1, <1>5, <2>1 DEF Well, Placed, Waits, OnStack
  <2>4. ASSUME ~d.isParsing
        PROVE  \/ d.firstBatch /\ (Parsable(t, f)
                                  \/ \E g \in Files : Contains(n.batch, g) /\ Parsable(t, g))
               \/ ~d.firstBatch /\ d.poolTask # <<>>
    <3>1. CASE ~d.firstBatch
      BY <1>1, <2>1, <2>4, <3>1 DEF Well, Fresh, Starts
    <3>2. CASE d.firstBatch
      <4>1. PICK g \in Files : Contains(pl.batch, g) /\ Parsable(t, g)
        BY <1>1, <2>1, <2>4, <3>2 DEF Well, Fresh, Starts
      <4>2. g = f \/ Contains(n.batch, g)
        BY <1>2, <1>5, <4>1, HeadOrTail
      <4> QED
        BY <3>2, <4>1, <4>2
    <3> QED
      BY <3>1, <3>2
  <2> QED
    BY <1>5, <2>2, <2>3, <2>4 DEF Brings
<1> QED
  BY <1>1, <1>3, <1>4, <1>5, <1>6, ParseWell

LEMMA SameStack ==
  ASSUME NEW S, NEW s \in Seq(S), s # <<>>, NEW e \in S, e.file = Head(s).file
  PROVE  LET u == <<e>> \o Tail(s) IN
         /\ u \in Seq(S) /\ Len(u) = Len(s)
         /\ \A k \in 1..Len(s) : u[k].file = s[k].file
<1>1. /\ Len(s) \in Nat \ {0} /\ Head(s) = s[1] /\ Len(Tail(s)) = Len(s) - 1
      /\ Tail(s) \in Seq(S)
      /\ \A i \in 1..(Len(s) - 1) : Tail(s)[i] = s[i + 1]
  BY EmptySeq, LenProperties, HeadTailProperties
<1> DEFINE r == Tail(s)
<1> HIDE DEF r
<1>2. <<e>> \in Seq(S) /\ Len(<<e>>) = 1 /\ <<e>>[1] = e
  OBVIOUS
<1>3. /\ <<e>> \o r \in Seq(S) /\ Len(<<e>> \o r) = 1 + Len(r)
      /\ (<<e>> \o r)[1] = e
      /\ \A i \in 1..Len(r) : (<<e>> \o r)[1 + i] = r[i]
  BY <1>1, <1>2, ConcatProperties, PushIn DEF r
<1>4. ASSUME NEW k \in 1..Len(s) PROVE (<<e>> \o r)[k].file = s[k].file
  <2>1. CASE k = 1
    BY <1>1, <1>3, <2>1
  <2>2. CASE k # 1
    <3>1. k - 1 \in 1..(Len(s) - 1) /\ 1 + (k - 1) = k /\ (k - 1) + 1 = k
      BY <1>1, <2>2
    <3> QED
      BY <1>1, <1>3, <3>1 DEF r
  <2> QED
    BY <2>1, <2>2
<1> QED
  BY <1>1, <1>3, <1>4 DEF r

LEMMA IncludeWell ==
  ASSUME Inv, AllWell, Inv', NEW p \in Parsers, HandleInclude(p)
  PROVE  AllWell'
<1> DEFINE d == parser[p]
           pl == pool[p]
           t == tree[p]
           top == Head(pl.stack)
           include == Head(top.rest)
           e == [top EXCEPT !.rest = Tail(@)]
           u == <<e>> \o Tail(pl.stack)
           n == [pl EXCEPT !.stack = u]
<1>1. /\ pl \in Pools /\ Good(d, pl, deleting = p) /\ UNCHANGED deleting
      /\ Parse(p, n, include.file, ~include.isGlobal)
      /\ pl.stack # <<>> /\ top.rest # <<>>
  BY Types DEF HandleInclude, Top, InFile
<1>2. pl.stack \in Seq(Entries) /\ pl.at \in {"parses", "priority"}
  BY <1>1 DEF Pools, Good, Sound
<1>3. top \in Entries
  BY <1>1, <1>2, HeadTailProperties
<1> HIDE DEF top
<1>4. top.rest \in Seq(Include)
  BY <1>3 DEF Entries
<1>5. include \in Include /\ Tail(top.rest) \in Seq(Include)
  BY <1>1, <1>4, HeadTailProperties
<1>6. include.file \in Files
  BY <1>5 DEF Include
<1>7. e \in Entries /\ e.file = top.file
  BY <1>3, <1>5 DEF Entries
<1>8. ASSUME pl.at = "priority", deleting # p
      PROVE  e \in HeaderEntries(p) /\ include.file \in Headers(p)
             /\ pl.stack \in Seq(HeaderEntries(p))
  <2>1. pl.stack \in Seq(HeaderEntries(p))
    BY <1>8, Before DEF Well, Works
  <2>2. top \in HeaderEntries(p)
    BY <1>1, <2>1, HeadTailProperties DEF top
  <2>3. top.rest \in Seq(Inclusions)
    BY <2>2 DEF HeaderEntries
  <2>4. include \in Inclusions /\ Tail(top.rest) \in Seq(Inclusions)
    BY <1>1, <2>3, HeadTailProperties
  <2>5. include.file \in Headers(p)
    BY <2>4 DEF Inclusions, Headers
  <2>6. e \in HeaderEntries(p)
    BY <2>2, <2>4 DEF HeaderEntries
  <2> QED
    BY <2>1, <2>5, <2>6
<1> HIDE DEF include, e
<1>9. /\ u \in Seq(Entries) /\ Len(u) = Len(pl.stack)
      /\ \A k \in 1..Len(pl.stack) : u[k].file = pl.stack[k].file
  BY <1>1, <1>2, <1>7, SameStack DEF top
<1>10. pl.at = "priority" /\ deleting # p => u \in Seq(HeaderEntries(p))
  BY <1>1, <1>7, <1>8, SameStack DEF top
<1>11. pl.stack # <<>> => Len(pl.stack) \in Nat \ {0}
  BY <1>2, EmptySeq, LenProperties
<1> HIDE DEF u
<1>12. n \in Pools
  BY <1>1, <1>9 DEF Pools
<1>13. /\ n.at = pl.at /\ n.task = pl.task /\ n.queue = pl.queue /\ n.stack = u
       /\ n.batch = pl.batch /\ n.priority = pl.priority /\ n.abort = pl.abort
  BY <1>1 DEF Pools
<1> HIDE DEF n
<1>14. ASSUME deleting # p PROVE Brings(p, d, n, t, include.file)
  <2>1. Well(p, d, pl, t) /\ Good(d, pl, FALSE)
    BY <1>14, Before
  <2>2. n.at = "parses" => d.isParsing /\ Len(n.stack) = 1 /\ n.stack[1].file = n.task
    BY <1>9, <1>13, <2>1 DEF Good, Alive, Well, Works
  <2>3. Works(p, d, n)
    BY <1>2, <1>10, <1>13, <1>14, <2>1, <2>2 DEF Well, Works, Quiet, Rests
  <2>4. \A g : OnStack(pl, g) => OnStack(n, g)
    BY <1>9, <1>13 DEF OnStack
  <2>5. \A g : Waits(d, pl, g) => Waits(d, n, g)
    BY <1>13 DEF Waits
  <2>6. Placed(d, n, t)
    BY <2>1, <2>4, <2>5 DEF Well, Placed
  <2>7. ASSUME ~d.isParsing PROVE \E g \in Files : Kept(p, d, n, t, g) /\ g \notin Headers(p)
    <3>1. pl.at = "priority"
      BY <1>2, <1>13, <2>2, <2>7
    <3>2. PICK g \in Files : Kept(p, d, pl, t, g)
      BY <2>1, <2>7, <3>1 DEF Well, Fresh, Begins
    <3>3. g \notin Headers(p)
      BY <1>1, <3>1, <3>2 DEF Kept
    <3>4. Kept(p, d, n, t, g)
      BY <1>13, <3>2, <3>3 DEF Kept
    <3> QED
      BY <3>3, <3>4
  <2> QED
    BY <1>2, <1>8, <1>13, <1>14, <2>2, <2>3, <2>6, <2>7 DEF Brings
<1> QED
  BY <1>1, <1>2, <1>6, <1>12, <1>13, <1>14, ParseWell
-----------------------------------------------------------------------------
(* The GUI thread.                                                          *)

(* When no AddParseThread comes and the parsing has not begun, all files    *)
(* that are not parsed can be.                                              *)
LEMMA AllParsable ==
  ASSUME NEW d, NEW pl \in Pools, NEW t \in Trees, Good(d, pl, FALSE), Placed(d, pl, t),
         ~d.isParsing, ~Adds(pl), NEW f \in Files,
         ~(t.status[f] \in {"parsing", "done"} /\ f \notin t.reparse)
  PROVE  Parsable(t, f) /\ Quiet(pl)
<1>1. Quiet(pl) /\ d.poolTask = <<>>
  BY DEF Good, Alive, Adds
<1>2. pl.at = "asleep" /\ pl.stack = <<>> /\ pl.queue = <<>>
  BY <1>1 DEF Quiet, Rests, Good, Sound
<1>3. ~Waits(d, pl, f)
  BY <1>1, <1>2, ContainsNothing DEF Waits
<1>4. ~OnStack(pl, f)
  BY <1>2 DEF OnStack
<1>5. t.status[f] \in {"none", "assigned", "parsing", "done"}
  BY DEF Trees
<1> QED
  BY <1>1, <1>3, <1>4, <1>5 DEF Placed, Parsable

LEMMA ContainsConcat ==
  ASSUME NEW S, NEW q \in Seq(S), NEW r \in Seq(S), NEW x, Contains(q, x)
  PROVE  Contains(q \o r, x)
<1>1. /\ Len(q \o r) = Len(q) + Len(r) /\ Len(q) \in Nat /\ Len(r) \in Nat
      /\ \A i \in 1..Len(q) : (q \o r)[i] = q[i]
  BY ConcatProperties, LenProperties
<1>2. PICK i \in 1..Len(q) : q[i] = x
  BY DEF Contains
<1>3. i \in 1..Len(q \o r)
  BY <1>1
<1> QED
  BY <1>1, <1>2, <1>3 DEF Contains

LEMMA FirstIn ==
  ASSUME NEW S, NEW q \in Seq(S), q # <<>>
  PROVE  q[1] \in S /\ Contains(q, q[1])
<1>1. Len(q) \in Nat \ {0}
  BY EmptySeq, LenProperties
<1>2. 1 \in 1..Len(q)
  BY <1>1
<1> QED
  BY <1>2, ElementOfSeq DEF Contains

(* Files are added to the batch, and no AddParseThread is queued or runs.   *)
LEMMA AddedWell ==
  ASSUME NEW p, NEW d \in ParserStates, NEW d2, NEW pl \in Pools, NEW t \in Trees,
         NEW fs \in Seq(Files), Well(p, d, pl, t), Good(d, pl, FALSE), ~Adds(pl),
         d2.priority = d.priority, d2.macros = d.macros, d2.poolTask = d.poolTask,
         d2.firstBatch = d.firstBatch, d2.isParsing = d.isParsing,
         d2.batch = d.batch \o fs,
         d.isParsing => ~Quiet(pl) /\ ~d2.batchTimer,
         \A f \in Files : Contains(fs, f) =>
             ~(t.status[f] \in {"parsing", "done"} /\ f \notin t.reparse)
  PROVE  Well(p, d2, pl, t)
<1>1. Works(p, d2, pl)
  BY DEF Well, Works
<1>2. Placed(d2, pl, t)
  BY DEF Well, Placed, Waits
<1>3. ASSUME ~d.isParsing PROVE Begins(p, d2, pl, t) /\ Starts(d2, pl, t)
  <2>1. pl.at \notin {"copies", "macros", "priority", "batch"}
    BY DEF Good, Sound, Adds
  <2>2. CASE ~Empty(d)
    <3>1. PICK f \in Files : Kept(p, d, pl, t, f)
      BY <1>3, <2>1, <2>2 DEF Well, Fresh, Begins
    <3>2. Contains(d2.batch, f)
      BY <3>1, ContainsConcat DEF Kept, ParserStates
    <3>3. Kept(p, d2, pl, t, f)
      BY <2>1, <3>1, <3>2 DEF Kept
    <3> QED
      BY <2>1, <3>3 DEF Begins, Starts
  <2>3. CASE Empty(d) /\ fs # <<>>
    <3>1. d.batch = <<>> /\ d.priority = <<>>
      BY <2>3 DEF Empty
    <3>2. d2.batch = fs
      BY <3>1
    <3>3. PICK f \in Files : Contains(fs, f)
      BY <2>3, FirstIn
    <3>4. Parsable(t, f)
      BY <1>3, <3>3, AllParsable DEF Well
    <3>5. Kept(p, d2, pl, t, f)
      BY <2>1, <3>1, <3>2, <3>3, <3>4 DEF Kept
    <3> QED
      BY <2>1, <3>5 DEF Begins, Starts
  <2>4. CASE Empty(d) /\ fs = <<>>
    <3>1. d.batch = <<>>
      BY <2>4 DEF Empty
    <3>2. d2.batch = <<>>
      BY <2>4, <3>1
    <3>3. Empty(d2)
      BY <2>4, <3>2 DEF Empty
    <3> QED
      BY <2>1, <3>3 DEF Begins, Starts
  <2> QED
    BY <2>2, <2>3, <2>4
<1> QED
  BY <1>1, <1>2, <1>3 DEF Well, Fresh

LEMMA AddFileWell ==
  ASSUME Orderly, "add in the gap" \notin Mishaps,
         Inv, AllWell, Inv', NEW p \in Parsers, NEW f \in Files, AddFile(p, f)
  PROVE  AllWell'
<1> DEFINE d == parser[p]
           pl == pool[p]
           t == tree[p]
           d1 == Typed(d, "add")
           a == AddParse(d1, <<f>>)
           b == a.needLocal \/ p \in Projects
           d2 == [a EXCEPT !.needLocal = b]
<1>1. /\ d \in ParserStates /\ pl \in Pools /\ t \in Trees
      /\ deleting # p /\ UNCHANGED deleting
      /\ ~(t.status[f] \in {"parsing", "done"} /\ f \notin t.reparse)
      /\ ~(d.isParsing /\ d.batchTimer)
  BY Types, ParserAssumption DEF AddFile, Free
<1>2. ~Adds(pl)
  BY DEF AddFile, Orderly, Listing, Adds
<1>3. ParserIs(p, d2) /\ PoolIs(p, pl) /\ TreeIs(p, t)
  BY Same3 DEF AddFile
<1>4. /\ d1 \in ParserStates /\ d1.poolTask = d.poolTask /\ d1.isParsing = d.isParsing
      /\ d1.batch = d.batch /\ d1.priority = d.priority /\ d1.macros = d.macros
      /\ d1.firstBatch = d.firstBatch
  BY <1>1, TypedIn
<1>5. <<f>> \in Seq(Files) /\ <<f>> # <<>> /\ \A g : Contains(<<f>>, g) <=> g = f
  BY OneFile, ContainsOne
<1> DEFINE fs == <<f>>
<1> HIDE DEF d1, fs
<1>6. /\ AddParse(d1, fs) \in ParserStates
      /\ AddParse(d1, fs).batchTimer = ~d1.isParsing
      /\ AddParse(d1, fs).poolTask = d1.poolTask /\ AddParse(d1, fs).isParsing = d1.isParsing
      /\ AddParse(d1, fs).batch = d1.batch \o fs /\ AddParse(d1, fs).priority = d1.priority
      /\ AddParse(d1, fs).macros = d1.macros /\ AddParse(d1, fs).firstBatch = d1.firstBatch
  BY <1>4, <1>5, AddParseIn DEF fs
<1>7. a = AddParse(d1, fs) /\ b \in BOOLEAN
  BY DEF fs
<1> HIDE DEF a, b
<1>8. /\ d2.batchTimer = a.batchTimer /\ d2.poolTask = a.poolTask /\ d2.batch = a.batch
      /\ d2.isParsing = a.isParsing /\ d2.priority = a.priority /\ d2.macros = a.macros
      /\ d2.firstBatch = a.firstBatch
  BY <1>6, <1>7 DEF ParserStates
<1> HIDE DEF d2
<1>9. Well(p, d2, pl, t)
  <2>1. Well(p, d, pl, t) /\ Good(d, pl, FALSE)
    BY <1>1, Before
  <2>2. d.isParsing => ~Quiet(pl) /\ ~d2.batchTimer
    BY <1>1, <1>4, <1>6, <1>7, <1>8, <2>1 DEF Well, Works
  <2>3. fs \in Seq(Files) /\ \A g \in Files : Contains(fs, g) =>
                              ~(t.status[g] \in {"parsing", "done"} /\ g \notin t.reparse)
    BY <1>1, <1>5 DEF fs
  <2>4. /\ d2.priority = d.priority /\ d2.macros = d.macros /\ d2.poolTask = d.poolTask
        /\ d2.firstBatch = d.firstBatch /\ d2.isParsing = d.isParsing
        /\ d2.batch = d.batch \o fs
    BY <1>4, <1>6, <1>7, <1>8
  <2> HIDE DEF d, pl, t
  <2> QED
    BY <1>1, <1>2, <2>1, <2>2, <2>3, <2>4, AddedWell
<1> QED
  BY <1>1, <1>3, <1>9, StepWell

LEMMA ReparseWell ==
  ASSUME Inv, AllWell, Inv', NEW p \in Parsers, NEW f \in Files, Reparse(p, f)
  PROVE  AllWell'
<1> DEFINE d == parser[p]
           pl == pool[p]
           t == tree[p]
           t2 == [t EXCEPT !.reparse = @ \cup {f}]
           d2 == [d EXCEPT !.reparseTimer = TRUE]
<1>1. /\ d \in ParserStates /\ t \in Trees /\ deleting # p /\ UNCHANGED deleting
      /\ ParserIs(p, d2) /\ PoolIs(p, pl) /\ TreeIs(p, t2) /\ Done(p)
  BY Types, Same3, ParserAssumption DEF Reparse, Free
<1>2. Well(p, d, pl, t)
  BY <1>1, Before
<1>3. /\ d2.batchTimer = d.batchTimer /\ d2.poolTask = d.poolTask /\ d2.batch = d.batch
      /\ d2.isParsing = d.isParsing /\ d2.priority = d.priority /\ d2.macros = d.macros
      /\ d2.firstBatch = d.firstBatch
  BY <1>1 DEF ParserStates
<1>4. t2.status = t.status
  BY <1>1 DEF Trees
<1>5. Empty(d2) /\ pl.at \in {"asleep", "awake"}
  BY <1>1, <1>3 DEF Done, NoLists, Empty, PoolDone, Working
<1> HIDE DEF d2, t2
<1>6. Works(p, d2, pl)
  BY <1>2, <1>3 DEF Well, Works, Empty
<1>7. Placed(d2, pl, t2)
  BY <1>2, <1>3, <1>4 DEF Well, Placed, Waits
<1>8. Fresh(p, d2, pl, t2)
  BY <1>5 DEF Fresh, Begins, Starts
<1> QED
  BY <1>1, <1>6, <1>7, <1>8, StepWell DEF Well

LEMMA ReparseTimerWell ==
  ASSUME Inv, AllWell, Inv', NEW p \in Parsers, OnReparseTimer(p)
  PROVE  AllWell'
<1> DEFINE d == parser[p]
           pl == pool[p]
           t == tree[p]
<1>1. /\ d \in ParserStates /\ pl \in Pools /\ t \in Trees /\ deleting # p
      /\ UNCHANGED <<tree, pool, deleting>>
  BY Types, ParserAssumption DEF OnReparseTimer, Free
<1>2. PoolIs(p, pl) /\ TreeIs(p, t)
  BY <1>1, Same3
<1>3. Well(p, d, pl, t) /\ Good(d, pl, FALSE)
  BY <1>1, Before
<1>4. CASE ~Done(p)
  <2>1. ParserIs(p, d)
    BY <1>4, Same3 DEF OnReparseTimer
  <2> QED
    BY <1>1, <1>2, <1>3, <2>1, StepWell
<1>5. CASE Done(p)
  <2>1. PICK fs \in SetToSeqs(t.reparse) :
          ParserIs(p, AddParse([IF fs = <<>> THEN d ELSE Typed(d, "reparse")
                                  EXCEPT !.reparseTimer = FALSE], fs))
    BY <1>5 DEF OnReparseTimer
  <2> DEFINE s == IF fs = <<>> THEN d ELSE Typed(d, "reparse")
             r == [s EXCEPT !.reparseTimer = FALSE]
             a == AddParse(r, fs)
  <2>2. ParserIs(p, a)
    BY <2>1
  <2>3. fs \in Seq(Files) /\ \A f : Contains(fs, f) => f \in t.reparse
    <3>1. t.reparse \in SUBSET Files
      BY <1>1 DEF Trees
    <3>2. Cardinality(t.reparse) \in Nat
      BY <3>1, ParserAssumption, FS_Subset, FS_CardinalityType
    <3>3. fs \in [1..Cardinality(t.reparse) -> t.reparse]
      BY DEF SetToSeqs
    <3>4. Len(fs) = Cardinality(t.reparse)
      BY <3>2, <3>3
    <3> QED
      BY <3>1, <3>3, <3>4, SeqsIn DEF Contains
  <2>4. /\ s \in ParserStates /\ s.batchTimer = d.batchTimer /\ s.isParsing = d.isParsing
        /\ s.poolTask = d.poolTask /\ s.priority = d.priority /\ s.macros = d.macros
        /\ s.firstBatch = d.firstBatch /\ s.batch = d.batch
    BY <1>1, TypedIn
  <2> HIDE DEF s
  <2>5. /\ r \in ParserStates /\ r.batchTimer = s.batchTimer /\ r.isParsing = s.isParsing
        /\ r.poolTask = s.poolTask /\ r.priority = s.priority /\ r.macros = s.macros
        /\ r.firstBatch = s.firstBatch /\ r.batch = s.batch
    BY <2>4 DEF ParserStates
  <2> HIDE DEF r
  <2>6. /\ a.batchTimer => r.batchTimer \/ ~r.isParsing
        /\ a.isParsing = r.isParsing
        /\ a.poolTask = r.poolTask /\ a.priority = r.priority /\ a.macros = r.macros
        /\ a.firstBatch = r.firstBatch /\ a.batch = r.batch \o fs
    BY <2>3, <2>5, AddParseIn
  <2> HIDE DEF a
  <2>7. ~Adds(pl)
    BY <1>3, <1>5, DoneLists
  <2>8. d.isParsing => ~Quiet(pl) /\ ~d.batchTimer
    <3>1. d.poolTask = <<>> /\ Empty(d)
      BY <1>5 DEF Done, NoLists, Empty
    <3> QED
      BY <1>3, <3>1 DEF Well, Works
  <2>9. /\ a.priority = d.priority /\ a.macros = d.macros /\ a.poolTask = d.poolTask
        /\ a.firstBatch = d.firstBatch /\ a.isParsing = d.isParsing
        /\ a.batch = d.batch \o fs
        /\ d.isParsing => ~Quiet(pl) /\ ~a.batchTimer
    BY <2>4, <2>5, <2>6, <2>8
  <2>10. Well(p, a, pl, t)
    <3> HIDE DEF d, pl, t
    <3> QED
      BY <1>1, <1>3, <2>3, <2>7, <2>9, AddedWell
  <2> QED
    BY <1>1, <1>2, <2>2, <2>10, StepWell
<1> QED
  BY <1>4, <1>5

(* What the handlers do to the pool leaves the copies of the lists alone.   *)
LEMMA PriorityKept ==
  ASSUME NEW pl \in Pools
  PROVE  /\ [pl EXCEPT !.events = @ - 1].priority = pl.priority
         /\ \A t : AddTask(pl, t).priority = pl.priority
         /\ \A ts : \A n \in BatchOf(pl, ts) : n.priority = pl.priority
BY DEF Pools, AddTask, BatchOf

LEMMA TailShifts ==
  ASSUME NEW S, NEW q \in Seq(S), q # <<>>
  PROVE  /\ Len(q) \in Nat \ {0} /\ Head(q) = q[1] /\ Len(Tail(q)) = Len(q) - 1
         /\ \A i \in 1..(Len(q) - 1) : Tail(q)[i] = q[i + 1]
BY EmptySeq, LenProperties, HeadTailProperties

(* The files of a list of tasks move to the queue.                          *)
LEMMA TasksWell ==
  ASSUME NEW p, NEW d \in ParserStates, NEW d2, NEW pl \in Pools, NEW n, NEW t \in Trees,
         Well(p, d, pl, t), d.isParsing, Rests(pl), d.poolTask # <<>>,
         n.at = "asleep", n.queue = Head(d.poolTask), n.stack = pl.stack,
         n.priority = pl.priority, ~n.abort, n.sem = 1,
         d2.priority = d.priority, d2.firstBatch = d.firstBatch, d2.isParsing = d.isParsing,
         d2.poolTask = Tail(d.poolTask), ~d2.batchTimer
  PROVE  Well(p, d2, n, t)
<1> DEFINE q == d.poolTask
           r == Tail(q)
<1>1. q \in Seq(Seq(Files)) /\ q # <<>> /\ d2.poolTask = r /\ n.queue = Head(q)
  BY DEF ParserStates
<1>2. /\ Len(q) \in Nat \ {0} /\ Head(q) = q[1] /\ Len(r) = Len(q) - 1
      /\ \A i \in 1..(Len(q) - 1) : r[i] = q[i + 1]
  <2> DEFINE S == Seq(Files)
  <2>1. q \in Seq(S) /\ q # <<>>
    BY <1>1
  <2> HIDE DEF q, S
  <2> QED
    BY <2>1, TailShifts DEF r
<1>3. pl.at = "asleep" /\ ~Quiet(n) /\ pl.queue = <<>>
  BY DEF Quiet, Rests
<1>4. \A k \in 1..Len(q) : q[k] # <<>>
  BY DEF Well, Works
<1> HIDE DEF q, r
<1>5. \A k \in 1..Len(r) : r[k] # <<>> /\ k + 1 \in 1..Len(q) /\ r[k] = q[k + 1]
  BY <1>2, <1>4
<1>6. Works(p, d2, n)
  BY <1>1, <1>3, <1>5 DEF Well, Works
<1>7. ASSUME NEW f \in Files, Waits(d, pl, f) PROVE Waits(d2, n, f)
  <2>1. PICK k \in 1..Len(q) : Contains(q[k], f)
    BY <1>3, <1>7, ContainsNothing DEF Waits, q
  <2>2. CASE k = 1
    BY <1>1, <1>2, <2>1, <2>2 DEF Waits
  <2>3. CASE k # 1
    <3>1. k - 1 \in 1..Len(r) /\ (k - 1) + 1 = k
      BY <1>2, <2>3
    <3>2. r[k - 1] = q[k]
      BY <1>5, <3>1
    <3> QED
      BY <1>1, <2>1, <3>1, <3>2 DEF Waits
  <2> QED
    BY <2>2, <2>3
<1>8. Placed(d2, n, t)
  BY <1>7 DEF Well, Placed, OnStack
<1> QED
  BY <1>6, <1>8 DEF Well, Fresh

LEMMA BatchTimerWell ==
  ASSUME Orderly, Inv, AllWell, Inv', NEW p \in Parsers, OnBatchTimer(p)
  PROVE  AllWell'
<1> DEFINE d == parser[p]
           pl == pool[p]
           t == tree[p]
           d1 == [d EXCEPT !.batchTimer = FALSE]
<1>1. /\ d \in ParserStates /\ pl \in Pools /\ t \in Trees /\ deleting # p
      /\ UNCHANGED <<tree, deleting>> /\ d.batchTimer
  BY Types, ParserAssumption DEF OnBatchTimer, Free
<1>2. TreeIs(p, t)
  BY <1>1, Same3
<1>3. Well(p, d, pl, t) /\ Good(d, pl, FALSE)
  BY <1>1, Before
<1>4. /\ Rests(pl) /\ pl.events = 0 /\ pl.task = None /\ pl.queue = <<>> /\ pl.at = "asleep"
      /\ d.poolTask # <<>> => d.isParsing
  BY <1>1, <1>3, TimerRests
<1>5. /\ d1 \in ParserStates /\ ~d1.batchTimer /\ d1.isParsing = d.isParsing
      /\ d1.poolTask = d.poolTask /\ d1.priority = d.priority /\ d1.batch = d.batch
      /\ d1.macros = d.macros /\ d1.firstBatch = d.firstBatch
  BY <1>1, TimerOff
<1>6. ~pl.abort
  BY <1>3 DEF Well, Works
<1>7. CASE /\ d1.poolTask # <<>>
           /\ \E n \in BatchOf(pl, Head(d1.poolTask)) : PoolIs(p, n)
           /\ ParserIs(p, [d1 EXCEPT !.poolTask = Tail(@)])
  <2> DEFINE d2 == [d1 EXCEPT !.poolTask = Tail(@)]
             ts == Head(d1.poolTask)
  <2>1. PICK n \in BatchOf(pl, ts) : PoolIs(p, n)
    BY <1>7
  <2>2. ParserIs(p, d2)
    BY <1>7
  <2> HIDE DEF d1
  <2>3. d1.poolTask \in Seq(Seq(Files))
    BY <1>5 DEF ParserStates
  <2>4. ts \in Seq(Files) /\ ts = Head(d.poolTask) /\ ts # <<>>
    <3>1. ts \in Seq(Files) /\ ts = d1.poolTask[1]
      BY <1>7, <2>3, HeadTailProperties
    <3>2. 1 \in 1..Len(d1.poolTask)
      BY <1>7, <2>3, EmptySeq, LenProperties
    <3> QED
      BY <1>3, <1>5, <3>1, <3>2 DEF Well, Works
  <2> HIDE DEF ts
  <2>5. /\ d2.batchTimer = d1.batchTimer /\ d2.isParsing = d1.isParsing
        /\ d2.priority = d1.priority /\ d2.firstBatch = d1.firstBatch
        /\ d2.poolTask = Tail(d1.poolTask)
    BY <1>5 DEF ParserStates
  <2> HIDE DEF d2
  <2>6. /\ n.queue = ts /\ n.sem = 1 /\ n.at = "asleep" /\ n.stack = pl.stack
        /\ n.abort = pl.abort /\ n.priority = pl.priority
    BY <1>1, <1>4, <2>1, <2>4, BatchIs, PriorityKept
  <2>7. Well(p, d2, n, t)
    <3> HIDE DEF d, pl, t
    <3> QED
      BY <1>1, <1>3, <1>4, <1>5, <1>6, <1>7, <2>4, <2>5, <2>6, TasksWell
  <2> QED
    BY <1>1, <1>2, <2>1, <2>2, <2>7, StepWell
<1>8. CASE /\ d1.poolTask = <<>> /\ ~NoLists(p)
           /\ PoolIs(p, AddTask(pl, Add))
           /\ ParserIs(p, d1)
  <2> DEFINE n == AddTask(pl, Add)
  <2>1. Add \in Tasks
    BY DEF Tasks
  <2>2. PoolIs(p, n) /\ ParserIs(p, d1)
    BY <1>8
  <2>3. /\ n.sem = 1 /\ n.at = "asleep" /\ n.stack = pl.stack /\ n.abort = pl.abort
        /\ n.priority = pl.priority
    BY <1>1, <1>4, <2>1, AddTaskIs, PriorityKept
  <2> HIDE DEF n, d1
  <2>4. ~Quiet(n) /\ n.at \in Off /\ pl.at \in Off
    BY <1>4, <2>3 DEF Quiet, Rests, Off
  <2>5. \A f \in Files : Contains(pl.queue, f) => Contains(n.queue, f)
    BY <1>4, ContainsNothing
  <2>6. Well(p, d1, n, t)
    <3> HIDE DEF d, pl, t
    <3> QED
      BY <1>3, <1>5, <1>6, <2>3, <2>4, <2>5, KeepsWell
  <2> QED
    BY <1>1, <1>2, <2>2, <2>6, StepWell
<1> QED
  BY <1>7, <1>8 DEF OnBatchTimer

(* The system headers are to be parsed again: they are no task's now.       *)
LEMMA AgainWell ==
  ASSUME NEW p, NEW d, NEW d2, NEW pl, NEW n, NEW t, NEW t2,
         Well(p, d, pl, t), d.isParsing, pl.at = "asleep", pl.stack = <<>>, pl.queue = <<>>,
         d.poolTask = <<>>, d2.poolTask = <<>>, d2.batchTimer, ~Empty(d2),
         n.at = "asleep", n.priority = pl.priority, ~n.abort,
         d2.priority = d.priority, d2.firstBatch = d.firstBatch, d2.isParsing = d.isParsing,
         \A f \in Files : t2.status[f] = "none" \/ t2.status[f] = t.status[f]
  PROVE  Well(p, d2, n, t2)
<1>1. \A f : ~Waits(d, pl, f) /\ ~OnStack(pl, f)
  BY ContainsNothing DEF Waits, OnStack
<1>2. Works(p, d2, n)
  BY DEF Well, Works
<1>3. Placed(d2, n, t2)
  BY <1>1 DEF Well, Placed
<1> QED
  BY <1>2, <1>3 DEF Well, Fresh

LEMMA NothingListed ==
  ASSUME NEW p \in Parsers
  PROVE  NoLists(p) <=> Empty(parser[p])
BY DEF NoLists, Empty

LEMMA AllDoneWell ==
  ASSUME Inv, AllWell, Inv', NEW p \in Parsers, OnAllThreadsDone(p)
  PROVE  AllWell'
<1> DEFINE d == parser[p]
           pl == pool[p]
           t == tree[p]
           took == [pl EXCEPT !.events = @ - 1]
           ignored == d.ignore \/ ~d.isParsing
           b == d.batchTimer \/ ~ignored
           mark == d.type \in {"create", "add"} /\ d.needLocal /\ p \in Projects
           more == d.poolTask # <<>> \/ ~NoLists(p)
<1>1. /\ d \in ParserStates /\ pl \in Pools /\ t \in Trees /\ deleting # p
      /\ UNCHANGED deleting /\ pl.events > 0
  BY Types, ParserAssumption DEF OnAllThreadsDone, Free
<1>2. Well(p, d, pl, t) /\ Good(d, pl, FALSE)
  BY <1>1, Before
<1>3. /\ took \in Pools /\ took.events = 0 /\ Rests(took) /\ took.at = "asleep"
      /\ took.stack = pl.stack /\ took.abort = pl.abort /\ took.priority = pl.priority
      /\ Rests(pl)
  BY <1>1, <1>2, TookIn, PriorityKept
<1>4. /\ pl.at = "asleep" /\ pl.queue = <<>> /\ pl.stack = <<>> /\ ~pl.abort
      /\ ignored <=> ~d.isParsing
  BY <1>2, <1>3 DEF Rests, Good, Sound, Well, Works
<1>5. ~d.batchTimer
  <2>1. d.batchTimer => pl.events = 0
    BY <1>2, TimerRests
  <2> QED
    BY <1>1, <2>1
<1>6. /\ "asleep" \in Off /\ \A n, f : Contains(pl.queue, f) => Contains(n.queue, f)
      /\ UNCHANGED tree => TreeIs(p, t)
  BY <1>4, ContainsNothing, Same3 DEF Off
<1>7. CASE /\ ignored \/ more
           /\ ParserIs(p, [d EXCEPT !.batchTimer = b])
           /\ PoolIs(p, took) /\ UNCHANGED tree
  <2> DEFINE d2 == [d EXCEPT !.batchTimer = b]
  <2>1. /\ PoolIs(p, took) /\ ParserIs(p, d2) /\ TreeIs(p, t)
        /\ b <=> d.isParsing
        /\ d.isParsing => d.poolTask # <<>> \/ ~Empty(d)
    BY <1>4, <1>5, <1>6, <1>7, NothingListed
  <2> HIDE DEF b, took
  <2>2. /\ d2.batchTimer = b /\ d2.isParsing = d.isParsing
        /\ d2.poolTask = d.poolTask /\ d2.priority = d.priority /\ d2.batch = d.batch
        /\ d2.macros = d.macros /\ d2.firstBatch = d.firstBatch
    BY <1>1 DEF ParserStates
  <2> HIDE DEF d2
  <2>3. Empty(d2) <=> Empty(d)
    BY <2>2 DEF Empty
  <2>4. Well(p, d2, took, t)
    <3> HIDE DEF d, pl, t
    <3> QED
      BY <1>2, <1>3, <1>4, <1>6, <2>1, <2>2, <2>3, KeepsWell
  <2> QED
    BY <1>1, <2>1, <2>4, StepWell
<1>8. CASE /\ ~ignored /\ ~more /\ d.system # <<>>
           /\ TreeIs(p, [status |-> [f \in Files |-> IF Contains(d.system, f) THEN "none"
                                                     ELSE t.status[f]],
                         reparse |-> t.reparse \ Range(d.system)])
           /\ ParserIs(p, [d EXCEPT !.batch = d.system, !.system = <<>>, !.batchTimer = TRUE])
           /\ PoolIs(p, took)
  <2> DEFINE d2 == [d EXCEPT !.batch = d.system, !.system = <<>>, !.batchTimer = TRUE]
             st == [f \in Files |-> IF Contains(d.system, f) THEN "none" ELSE t.status[f]]
             t2 == [status |-> st, reparse |-> t.reparse \ Range(d.system)]
  <2>1. /\ PoolIs(p, took) /\ ParserIs(p, d2) /\ TreeIs(p, t2)
        /\ d.isParsing /\ d.poolTask = <<>>
    BY <1>4, <1>8
  <2>2. \A f \in Files : t2.status[f] = "none" \/ t2.status[f] = t.status[f]
    OBVIOUS
  <2>3. /\ d2.batchTimer /\ d2.isParsing = d.isParsing
        /\ d2.poolTask = d.poolTask /\ d2.priority = d.priority /\ d2.batch = d.system
        /\ d2.firstBatch = d.firstBatch
    BY <1>1 DEF ParserStates
  <2> HIDE DEF d2, t2, took
  <2>4. ~Empty(d2)
    BY <1>8, <2>3 DEF Empty
  <2>5. Well(p, d2, took, t2)
    <3>1. /\ Well(p, d, pl, t) /\ d.isParsing
          /\ pl.at = "asleep" /\ pl.stack = <<>> /\ pl.queue = <<>>
          /\ d.poolTask = <<>> /\ d2.poolTask = <<>> /\ d2.batchTimer /\ ~Empty(d2)
      BY <1>2, <1>4, <2>1, <2>3, <2>4
    <3>2. /\ took.at = "asleep" /\ took.priority = pl.priority /\ ~took.abort
          /\ d2.priority = d.priority /\ d2.firstBatch = d.firstBatch
          /\ d2.isParsing = d.isParsing
      BY <1>3, <1>4, <2>3
    <3> HIDE DEF d, pl, t
    <3> QED
      BY <2>2, <3>1, <3>2, AgainWell
  <2> QED
    BY <1>1, <2>1, <2>5, StepWell
<1>9. CASE /\ ~ignored
           /\ ParserIs(p, [d EXCEPT !.needLocal = FALSE])
           /\ PoolIs(p, AddTask(took, Mark)) /\ UNCHANGED tree
  <2> DEFINE d2 == [d EXCEPT !.needLocal = FALSE]
             n == AddTask(took, Mark)
  <2>1. PoolIs(p, n) /\ ParserIs(p, d2) /\ TreeIs(p, t)
    BY <1>6, <1>9
  <2> HIDE DEF took
  <2>2. /\ d2.batchTimer = d.batchTimer /\ d2.isParsing = d.isParsing
        /\ d2.poolTask = d.poolTask /\ d2.priority = d.priority /\ d2.batch = d.batch
        /\ d2.macros = d.macros /\ d2.firstBatch = d.firstBatch
    BY <1>1 DEF ParserStates
  <2>3. Mark \in Tasks
    BY DEF Tasks
  <2>4. /\ n.sem = 1 /\ n.at = "asleep" /\ n.stack = took.stack /\ n.abort = took.abort
        /\ n.priority = took.priority
    BY <1>3, <2>3, AddTaskIs, PriorityKept
  <2> HIDE DEF d2, n
  <2>5. ~Quiet(n)
    BY <2>4 DEF Quiet, Rests
  <2>6. Well(p, d2, n, t)
    <3> HIDE DEF d, pl, t
    <3> QED
      BY <1>2, <1>3, <1>4, <1>5, <1>6, <2>2, <2>4, <2>5, KeepsWell
  <2> QED
    BY <1>1, <2>1, <2>6, StepWell
<1>10. CASE /\ ~ignored /\ ~more
            /\ ParserIs(p, Finished(d, p \in Projects))
            /\ PoolIs(p, took) /\ UNCHANGED tree
  <2> DEFINE l == d.needLocal /\ p \in Projects
             d2 == [d EXCEPT !.needLocal = l, !.ignore = TRUE, !.isParsing = FALSE,
                             !.type = "undefined"]
  <2>1. PoolIs(p, took) /\ ParserIs(p, d2) /\ TreeIs(p, t) /\ d.poolTask = <<>> /\ Empty(d)
    BY <1>6, <1>10, NothingListed DEF Finished
  <2> HIDE DEF l, took
  <2>2. /\ d2.isParsing = FALSE
        /\ d2.poolTask = d.poolTask /\ d2.priority = d.priority /\ d2.batch = d.batch
        /\ d2.macros = d.macros /\ d2.firstBatch = d.firstBatch
    BY <1>1 DEF ParserStates
  <2> HIDE DEF d2
  <2>3. Works(p, d2, took)
    BY <1>2, <1>3, <1>4, <2>2 DEF Well, Works
  <2>4. Placed(d2, took, t)
    BY <1>2, <1>3, <1>4, <2>1, <2>2, ContainsNothing DEF Well, Placed, Waits, OnStack
  <2>5. Fresh(p, d2, took, t)
    BY <1>3, <2>1, <2>2 DEF Fresh, Begins, Starts, Empty
  <2> QED
    BY <1>1, <2>1, <2>3, <2>4, <2>5, StepWell DEF Well
<1> QED
  BY <1>7, <1>8, <1>9, <1>10 DEF OnAllThreadsDone

(* A parser that has just been made, or is not there.                       *)
LEMMA NewWell ==
  ASSUME NEW p, NEW d, d.poolTask = <<>>, ~d.isParsing, d.priority \in Seq(Headers(p)),
         Empty(d) \/ \E f \in Files : Contains(d.batch, f) /\ f \notin Headers(p)
  PROVE  Well(p, d, NewPool, EmptyTree)
<1>1. /\ NewPool.at = "asleep" /\ NewPool.priority = <<>> /\ NewPool.abort = FALSE
      /\ \A f \in Files : EmptyTree.status[f] = "none"
  BY DEF NewPool, EmptyTree
<1> HIDE DEF NewPool, EmptyTree
<1>2. Works(p, d, NewPool)
  BY <1>1, Lists DEF Works
<1>3. Placed(d, NewPool, EmptyTree)
  BY <1>1 DEF Placed
<1>4. Begins(p, d, NewPool, EmptyTree) /\ Starts(d, NewPool, EmptyTree)
  BY <1>1 DEF Begins, Starts, Kept, Parsable
<1> QED
  BY <1>2, <1>3, <1>4 DEF Well, Fresh

LEMMA DownWell == \A p : Well(p, Down, NewPool, EmptyTree)
<1>1. /\ Down.poolTask = <<>> /\ ~Down.isParsing /\ Down.priority = <<>> /\ Empty(Down)
  BY DEF Down, Empty
<1> QED
  BY <1>1, Lists, NewWell

LEMMA CreateWell ==
  ASSUME Inv, AllWell, Inv', NEW p \in Parsers, Filled(p), CreateParser(p)
  PROVE  AllWell'
<1> DEFINE c == Contents[p]
           b == c.macros \/ c.priority # <<>> \/ c.batch # <<>>
           d2 == [Down EXCEPT !.up = TRUE, !.macros = c.macros, !.priority = c.priority,
                              !.system = c.system, !.batch = c.batch, !.batchTimer = b]
<1>1. /\ c.macros \in BOOLEAN /\ c.priority \in Seq(Files) /\ c.batch \in Seq(Files)
  BY ParserAssumption
<1>2. /\ ParserIs(p, d2) /\ PoolIs(p, NewPool) /\ TreeIs(p, EmptyTree) /\ UNCHANGED deleting
  BY DEF CreateParser
<1>3. c.priority \in Seq(Headers(p))
  <2>1. c.priority \in Seq(Range(c.priority))
    BY <1>1, SeqOfRange
  <2>2. Range(c.priority) \subseteq Headers(p)
    BY DEF Headers
  <2> QED
    BY <2>1, <2>2, SeqMonotonic
<1>4. \/ ~c.macros /\ c.priority = <<>> /\ c.batch = <<>>
      \/ \E f \in Files : Contains(c.batch, f) /\ f \notin Headers(p)
  BY DEF Filled
<1> HIDE DEF c, b
<1>5. /\ d2.poolTask = <<>> /\ ~d2.isParsing /\ d2.priority = c.priority
      /\ d2.batch = c.batch /\ d2.macros = c.macros
  BY DEF Down
<1> HIDE DEF d2
<1>6. Well(p, d2, NewPool, EmptyTree)
  BY <1>3, <1>4, <1>5, NewWell DEF Empty
<1> QED
  BY <1>2, <1>6, StepWell

LEMMA DeletesWell ==
  ASSUME Inv, AllWell, Inv', NEW p \in Parsers, DeleteParser(p) \/ Deleted(p)
  PROVE  AllWell'
<1>1. CASE DeleteParser(p)
  <2> DEFINE d2 == [parser[p] EXCEPT !.poolTask = <<>>]
             n == [pool[p] EXCEPT !.queue = <<>>, !.abort = pool[p].task # None]
  <2>1. /\ ParserIs(p, d2) /\ PoolIs(p, n) /\ TreeIs(p, tree[p])
        /\ deleting = None /\ deleting' = p
    BY <1>1, Same3 DEF DeleteParser, Free
  <2>2. \A q \in Parsers : q # p /\ deleting = q => deleting' = q
    BY <2>1, ParserAssumption
  <2> HIDE DEF d2, n
  <2> QED
    BY <2>1, <2>2, StepWell
<1>2. CASE Deleted(p)
  <2>1. /\ ParserIs(p, Down) /\ PoolIs(p, NewPool) /\ TreeIs(p, EmptyTree)
        /\ deleting = p
    BY <1>2 DEF Deleted
  <2> QED
    BY <2>1, DownWell, StepWell
<1> QED
  BY <1>1, <1>2

LEMMA InitWell == ASSUME Init PROVE AllWell
BY DownWell DEF Init, AllWell

LEMMA NextWell ==
  ASSUME Orderly, "add in the gap" \notin Mishaps, \A p \in Parsers : Filled(p),
         Inv, AllWell, [Next]_vars
  PROVE  AllWell'
<1>1. Inv'
  BY NextInv
<1>2. CASE UNCHANGED vars
  <2>1. UNCHANGED <<parser, pool, tree, deleting>>
    BY <1>2 DEF vars
  <2>2. AllWell' <=> \A p \in Parsers : deleting' # p => Well(p, parser'[p], pool'[p], tree'[p])
    BY DEF AllWell, Well, Works, Placed, Fresh, Begins, Starts, Kept, Waits, OnStack, Parsable
  <2> QED
    BY <2>1, <2>2 DEF AllWell
<1>3. ASSUME NEW p \in Parsers, WorkerStep(p)
      PROVE  AllWell'
  BY <1>1, <1>3, WaitWell, TaskWell, OpenWell, IncludeWell, FlagWell, CopyWell, MacrosWell,
     HeaderWell, PriorityWell, BatchFileWell, ListedWell DEF WorkerStep
<1>4. ASSUME NEW p \in Parsers, Handler(p) \/ CreateParser(p) \/ DeleteParser(p)
      PROVE  AllWell'
  BY <1>1, <1>4, ReparseTimerWell, BatchTimerWell, AllDoneWell, DeletesWell, CreateWell
  DEF Handler
<1>5. ASSUME NEW p \in Parsers, NEW f \in Files, AddFile(p, f) \/ Reparse(p, f)
      PROVE  AllWell'
  BY <1>1, <1>5, AddFileWell, ReparseWell
<1> QED
  BY <1>2, <1>3, <1>4, <1>5 DEF Next

LEMMA WellIsBusy == ASSUME Inv, AllWell PROVE BusyMeansWork
<1> SUFFICES ASSUME NEW p \in Parsers, parser[p].isParsing, deleting # p, Idle(p)
             PROVE  pool[p].events > 0 \/ parser[p].batchTimer
  BY DEF BusyMeansWork
<1> DEFINE pl == pool[p]
<1>1. pl \in Pools /\ Well(p, parser[p], pl, tree[p])
  BY Before
<1>2. pl.events \in 0..1
  BY <1>1 DEF Pools
<1> HIDE DEF pl
<1>3. pl.events > 0 \/ pl.events = 0
  BY <1>2
<1>4. pl.events = 0 => Quiet(pl)
  BY DEF Idle, Quiet, Rests, pl
<1> QED
  BY <1>1, <1>3, <1>4 DEF Well, Works, pl

(* "true, if the parser is still busy with parsing" (parser.h:315): a       *)
(* parser whose m_IsParsing is set has a task, an event that is still to be *)
(* handled, or its batch timer running (Parser::OnBatchTimer,               *)
(* Parser::OnAllThreadsDone, AddParseThread::Execute): it is never busy     *)
(* with nothing to wake it.  No file may be added in the gap between the    *)
(* last task and the next batch, and DoFullParsing must have found nothing  *)
(* at all, or a source file that no header leads to.                        *)
THEOREM BusyGoesOn ==
  ASSUME Orderly, "add in the gap" \notin Mishaps, \A p \in Parsers : Filled(p)
  PROVE  Spec => []BusyMeansWork
<1>1. Init => Inv /\ AllWell
  BY InitInv, InitWell
<1>2. Inv /\ AllWell /\ [Next]_vars => (Inv /\ AllWell)'
  BY NextInv, NextWell
<1>3. Inv /\ AllWell => BusyMeansWork
  BY WellIsBusy
<1> QED
  BY <1>1, <1>2, <1>3, PTL DEF Spec
=============================================================================
