------------------------- MODULE CompilerGCC_proofs -------------------------
(***************************************************************************)
(* The build engine of CompilerGCC keeps its slots, runs steps and linkers *)
(* alone, works on one target at a time and stops at a failure, for every  *)
(* number of processes, every list of jobs and every bound, when the user  *)
(* gives no command in a Yield() and runs no program, and the commands of  *)
(* a target end in one that waits for the others.  The types, proved first *)
(* from the stack read from its head, need no such assumption.             *)
(***************************************************************************)
EXTENDS CompilerGCC, FiniteSetTheorems, SequenceTheorems, WellFoundedInduction, TLAPS

-----------------------------------------------------------------------------
(* The slot that DoRunQueue takes.                                          *)

(* Among free slots there is a first one: the subsets of the slots, ordered *)
(* by inclusion, are well-founded.                                          *)
LEMMA FirstOfSlots ==
  ASSUME NEW S, S \subseteq Slot, S # {}
  PROVE  \E i \in S : \A j \in S : i <= j
<1> DEFINE UpTo(i) == {j \in S : j <= i}
           T == {UpTo(i) : i \in S}
<1>1. N \in Nat /\ N - 1 \in Int /\ \A i \in Slot : i \in Nat
  BY BuildAssumption DEF Slot
<1>2. IsFiniteSet(S)
  <2>1. IsFiniteSet(Slot)
    BY <1>1, FS_Interval DEF Slot
  <2> QED
    BY <2>1, FS_Subset
<1>3. T \subseteq FiniteSubsetsOf(S)
  BY <1>2, FS_Subset DEF FiniteSubsetsOf
<1>4. T # {}
  OBVIOUS
<1>5. IsWellFoundedOn(StrictSubsetOrdering(S), FiniteSubsetsOf(S))
  BY FS_StrictSubsetOrderingWellFounded
<1> HIDE DEF T
<1>6. PICK x \in T : \A y \in T : <<y, x>> \notin StrictSubsetOrdering(S)
  BY <1>3, <1>4, <1>5, WFMin
<1>7. PICK i \in S : x = UpTo(i)
  BY DEF T
<1>8. ASSUME NEW j \in S, ~(i <= j)
      PROVE  FALSE
  <2>1. UpTo(j) \in T
    BY DEF T
  <2>2. i \in UpTo(i) /\ i \notin UpTo(j) /\ UpTo(j) \subseteq UpTo(i)
    BY <1>1, <1>8
  <2>3. <<UpTo(j), UpTo(i)>> \in StrictSubsetOrdering(S)
    BY <2>2 DEF StrictSubsetOrdering
  <2> QED
    BY <1>6, <1>7, <2>1, <2>3
<1> QED
  BY <1>8

LEMMA NextAvailable ==
  ASSUME FreeSlots # {}
  PROVE  GetNextAvailableProcessIndex \in Slot /\ IsFree(GetNextAvailableProcessIndex)
<1>1. \E i \in FreeSlots : \A j \in FreeSlots : i <= j
  BY FirstOfSlots DEF FreeSlots
<1>2. GetNextAvailableProcessIndex \in FreeSlots
  BY <1>1 DEF GetNextAvailableProcessIndex
<1> QED
  BY <1>2 DEF FreeSlots

-----------------------------------------------------------------------------
(* Stacks.                                                                  *)

Push(f, s) == <<f>> \o s
Has(s, S) == \E k \in DOMAIN s : s[k].at \in S

(* Where a frame may be: in the state machine (Chain), in a function that   *)
(* calls it (Homes), in wxApp::Yield (Pauses), in a menu command before it  *)
(* has a build to run (Calls), or between the halves of a rebuild (Halves). *)
Chain == {"bsm", "bsm_state", "bsm_next", "bsm_add"}
Homes == {"queue", "queue_next", "job_loop", "ws_end"}
Walks == Chain \cup Homes
Pauses == {"yield", "idle"}
Calls == {"build", "build_jobs", "ws", "ws_jobs", "file", "file_cmd"}
Halves == {"rebuild", "ws_rebuild"}

Twice(s) == \E j, k \in DOMAIN s : j < k /\ s[j].at \in Homes /\ s[k].at \in Homes
Rooted(s) == s # <<>> /\ s[Len(s)].at = "pending"
Silent(s, S) == \A k \in DOMAIN s : s[k].at \in S => s[k].cmds = <<>>

(* Frame f may stand on the frames s.                                       *)
Fits(f, s) ==
  /\ f.at \in Halves \cup {"pending"} => s = <<>>
  /\ f.at \in Calls => ~Has(s, Walks \cup Pauses)
  /\ f.at \in Pauses => s # <<>> /\ s[1].at \in Walks \cup Calls
  /\ f.at \in Chain => /\ s # <<>> /\ s[1].at \in Homes \cup {"bsm_add"}
                       /\ Has(s, Homes)
                       /\ Has(s, {"bsm", "bsm_state"}) => Twice(s)
  /\ Has(s, Calls \cup {"bsm_next"}) => f.at \in Pauses
  /\ ~Has(s, {"yield", "job_end"})
  /\ Silent(s, {"bsm_add"})
Nested(s) == \A k \in DOMAIN s : Fits(s[k], SubSeq(s, k + 1, Len(s)))

LEMMA PushIs ==
  ASSUME NEW F, NEW f \in F, NEW s \in Seq(F)
  PROVE  /\ Push(f, s) \in Seq(F) /\ Push(f, s) # <<>>
         /\ Head(Push(f, s)) = f /\ Tail(Push(f, s)) = s
         /\ Len(s) \in Nat /\ Len(Push(f, s)) = Len(s) + 1
         /\ DOMAIN s = 1..Len(s) /\ DOMAIN Push(f, s) = 1..(Len(s) + 1)
         /\ 1 \in DOMAIN Push(f, s) /\ Push(f, s)[1] = f
         /\ \A k \in DOMAIN s : k + 1 \in DOMAIN Push(f, s) /\ Push(f, s)[k + 1] = s[k]
         /\ \A k \in DOMAIN Push(f, s) \ {1} : \E m \in DOMAIN s : k = m + 1
<1>1. /\ Push(f, s) \in Seq(F) /\ Push(f, s) # <<>>
      /\ Head(Push(f, s)) = f /\ Tail(Push(f, s)) = s
      /\ Len(s) \in Nat /\ Len(Push(f, s)) = Len(s) + 1
      /\ DOMAIN s = 1..Len(s) /\ DOMAIN Push(f, s) = 1..(Len(s) + 1)
      /\ Push(f, s)[1] = f
      /\ \A k \in 1..Len(s) : Push(f, s)[k + 1] = s[k]
  BY DEF Push
<1> DEFINE p == Push(f, s)
           n == Len(s)
<1> HIDE DEF p, n
<1>2. n \in Nat /\ DOMAIN s = 1..n /\ DOMAIN p = 1..(n + 1)
  BY <1>1 DEF p, n
<1>3. 1 \in DOMAIN p /\ \A k \in DOMAIN s : k + 1 \in DOMAIN p
  BY <1>2
<1>4. ASSUME NEW k \in DOMAIN p \ {1}
      PROVE  \E m \in DOMAIN s : k = m + 1
  <2>1. k \in 1..(n + 1) /\ k # 1
    BY <1>2
  <2>2. k - 1 \in 1..n /\ k = (k - 1) + 1
    BY <1>2, <2>1
  <2> QED
    BY <1>2, <2>2
<1> QED
  BY <1>1, <1>3, <1>4 DEF p, n

LEMMA PushOne ==
  ASSUME NEW F, NEW a \in F, NEW s \in Seq(F)
  PROVE  <<a>> \o s = Push(a, s) /\ (<<a>> \o <<>>) \o s = Push(a, s) /\ <<>> \o s = s
<1>1. <<a>> \in Seq(F)
  OBVIOUS
<1>2. <<>> \o s = s /\ <<a>> \o <<>> = <<a>>
  BY <1>1, ConcatEmptySeq
<1> QED
  BY <1>2 DEF Push

LEMMA HeadTail ==
  ASSUME NEW F, NEW s \in Seq(F), s # <<>>
  PROVE  /\ Head(s) \in F /\ Tail(s) \in Seq(F) /\ s = Push(Head(s), Tail(s))
         /\ s[1] = Head(s)
  BY DEF Push

LEMMA HasPush ==
  ASSUME NEW F, NEW f \in F, NEW s \in Seq(F), NEW S
  PROVE  Has(Push(f, s), S) <=> f.at \in S \/ Has(s, S)
<1>1. 1 \in DOMAIN Push(f, s) /\ Push(f, s)[1] = f
  BY PushIs
<1>2. \A k \in DOMAIN s : k + 1 \in DOMAIN Push(f, s) /\ Push(f, s)[k + 1] = s[k]
  BY PushIs
<1>3. \A k \in DOMAIN Push(f, s) \ {1} : \E m \in DOMAIN s : k = m + 1
  BY PushIs
<1> QED
  BY <1>1, <1>2, <1>3 DEF Has

LEMMA SilentPush ==
  ASSUME NEW F, NEW f \in F, NEW s \in Seq(F), NEW S
  PROVE  Silent(Push(f, s), S) <=> (f.at \in S => f.cmds = <<>>) /\ Silent(s, S)
<1>1. 1 \in DOMAIN Push(f, s) /\ Push(f, s)[1] = f
  BY PushIs
<1>2. \A k \in DOMAIN s : k + 1 \in DOMAIN Push(f, s) /\ Push(f, s)[k + 1] = s[k]
  BY PushIs
<1>3. \A k \in DOMAIN Push(f, s) \ {1} : \E m \in DOMAIN s : k = m + 1
  BY PushIs
<1> QED
  BY <1>1, <1>2, <1>3 DEF Silent

LEMMA RootedPush ==
  ASSUME NEW F, NEW f \in F, NEW s \in Seq(F)
  PROVE  Rooted(Push(f, s)) <=> IF s = <<>> THEN f.at = "pending" ELSE Rooted(s)
<1>1. /\ Len(s) \in Nat /\ Len(Push(f, s)) = Len(s) + 1 /\ Push(f, s)[1] = f
      /\ DOMAIN s = 1..Len(s) /\ Push(f, s) # <<>>
      /\ \A k \in DOMAIN s : Push(f, s)[k + 1] = s[k]
  BY PushIs
<1>2. CASE s = <<>>
  BY <1>1, <1>2 DEF Rooted
<1>3. CASE s # <<>>
  <2>1. Len(s) \in DOMAIN s
    BY <1>1, <1>3
  <2> QED
    BY <1>1, <1>3, <2>1 DEF Rooted
<1> QED
  BY <1>2, <1>3

LEMMA TwicePush ==
  ASSUME NEW F, NEW f \in F, NEW s \in Seq(F)
  PROVE  Twice(Push(f, s)) <=> (f.at \in Homes /\ Has(s, Homes)) \/ Twice(s)
<1> DEFINE p == Push(f, s)
<1>1. DOMAIN p = 1..(Len(s) + 1) /\ DOMAIN s = 1..Len(s) /\ Len(s) \in Nat /\ p[1] = f
  BY PushIs
<1>2. \A k \in DOMAIN s : k + 1 \in DOMAIN p /\ p[k + 1] = s[k]
  BY PushIs
<1>3. \A k \in DOMAIN p \ {1} : \E m \in DOMAIN s : k = m + 1
  BY PushIs
<1> HIDE DEF p
<1>4. ASSUME Twice(p)
      PROVE  (f.at \in Homes /\ Has(s, Homes)) \/ Twice(s)
  <2>1. PICK j, k \in DOMAIN p : j < k /\ p[j].at \in Homes /\ p[k].at \in Homes
    BY <1>4 DEF Twice
  <2>2. PICK n \in DOMAIN s : k = n + 1
    BY <1>1, <1>3, <2>1
  <2>5. s[n].at \in Homes
    BY <1>2, <2>1, <2>2
  <2>3. CASE j = 1
    BY <1>1, <2>1, <2>3, <2>5 DEF Has
  <2>4. CASE j # 1
    <3>1. PICK m \in DOMAIN s : j = m + 1
      BY <1>3, <2>1, <2>4
    <3>2. s[m].at \in Homes
      BY <1>2, <2>1, <3>1
    <3>3. m < n
      BY <1>1, <2>1, <2>2, <3>1
    <3> QED
      BY <2>5, <3>2, <3>3 DEF Twice
  <2> QED
    BY <2>3, <2>4
<1>5. ASSUME f.at \in Homes, Has(s, Homes)
      PROVE  Twice(p)
  <2>1. PICK k \in DOMAIN s : s[k].at \in Homes
    BY <1>5 DEF Has
  <2>2. 1 \in DOMAIN p /\ 1 < k + 1
    BY <1>1
  <2> QED
    BY <1>1, <1>2, <1>5, <2>1, <2>2 DEF Twice
<1>6. ASSUME Twice(s)
      PROVE  Twice(p)
  <2>1. PICK j, k \in DOMAIN s : j < k /\ s[j].at \in Homes /\ s[k].at \in Homes
    BY <1>6 DEF Twice
  <2>2. j + 1 < k + 1
    BY <1>1, <2>1
  <2> QED
    BY <1>2, <2>1, <2>2 DEF Twice
<1> QED
  BY <1>4, <1>5, <1>6 DEF p

LEMMA NestedPush ==
  ASSUME NEW F, NEW f \in F, NEW s \in Seq(F)
  PROVE  Nested(Push(f, s)) <=> Fits(f, s) /\ Nested(s)
<1> DEFINE p == Push(f, s)
           Rest(q, k) == SubSeq(q, k + 1, Len(q))
<1>1. DOMAIN p = 1..(Len(s) + 1) /\ DOMAIN s = 1..Len(s) /\ Len(s) \in Nat /\ p[1] = f
      /\ Len(p) = Len(s) + 1 /\ p \in Seq(F)
  BY PushIs
<1>2. ASSUME NEW k \in DOMAIN s
      PROVE  k + 1 \in DOMAIN p /\ p[k + 1] = s[k] /\ Rest(p, k + 1) = Rest(s, k)
  <2>1. \A m \in DOMAIN s : p[m + 1] = s[m]
    BY PushIs
  <2>2. k \in Nat /\ k >= 1 /\ k <= Len(s)
    BY <1>1
  <2> HIDE DEF p
  <2>3. Len(Rest(p, k + 1)) = Len(s) - k /\ Len(Rest(s, k)) = Len(s) - k
    BY <1>1, <2>2
  <2>4. Rest(p, k + 1) \in Seq(F) /\ Rest(s, k) \in Seq(F)
    BY <1>1, <2>2
  <2>5. ASSUME NEW m \in 1..(Len(s) - k)
        PROVE  Rest(p, k + 1)[m] = Rest(s, k)[m]
    <3>1. Rest(p, k + 1)[m] = p[k + 1 + m]
      BY <1>1, <2>2
    <3>2. Rest(s, k)[m] = s[k + m]
      BY <1>1, <2>2
    <3>3. k + m \in 1..Len(s) /\ k + 1 + m = (k + m) + 1
      BY <1>1, <2>2
    <3> QED
      BY <1>1, <2>1, <3>1, <3>2, <3>3
  <2> HIDE DEF Rest
  <2>6. Rest(p, k + 1) = Rest(s, k)
    BY <2>3, <2>4, <2>5, SeqEqual
  <2> QED
    BY <1>1, <2>1, <2>2, <2>6
<1>3. 1 \in DOMAIN p /\ Rest(p, 1) = s
  <2>1. \A m \in DOMAIN s : p[m + 1] = s[m]
    BY PushIs
  <2> HIDE DEF p
  <2>2. Rest(p, 1) \in Seq(F) /\ Len(Rest(p, 1)) = Len(s)
    BY <1>1
  <2>3. ASSUME NEW m \in 1..Len(s)
        PROVE  Rest(p, 1)[m] = s[m]
    <3>1. Rest(p, 1)[m] = p[m + 1]
      BY <1>1
    <3> QED
      BY <1>1, <2>1, <3>1
  <2>4. Rest(p, 1) = s
    BY <2>2, <2>3
  <2> QED
    BY <1>1, <2>4
<1>4. \A k \in DOMAIN p \ {1} : \E m \in DOMAIN s : k = m + 1
  BY PushIs
<1> HIDE DEF p, Rest
<1>5. Nested(p) <=> \A k \in DOMAIN p : Fits(p[k], Rest(p, k))
  BY DEF Nested, Rest
<1>6. Nested(s) <=> \A k \in DOMAIN s : Fits(s[k], Rest(s, k))
  BY DEF Nested, Rest
<1> QED
  BY <1>1, <1>2, <1>3, <1>4, <1>5, <1>6 DEF p

LEMMA HasUnion ==
  ASSUME NEW s, NEW A, NEW B
  PROVE  Has(s, A \cup B) <=> Has(s, A) \/ Has(s, B)
  BY DEF Has

LEMMA HasSubset ==
  ASSUME NEW s, NEW A, NEW B, A \subseteq B, Has(s, A)
  PROVE  Has(s, B)
  BY DEF Has

LEMMA HasNothing ==
  ASSUME NEW S
  PROVE  ~Has(<<>>, S) /\ ~Twice(<<>>) /\ ~Rooted(<<>>) /\ Silent(<<>>, S) /\ Nested(<<>>)
<1>1. DOMAIN <<>> = {}
  OBVIOUS
<1> QED
  BY <1>1 DEF Has, Twice, Rooted, Silent, Nested

(* The sets of places that the invariants name, by their parts.             *)
LEMMA HasParts ==
  ASSUME NEW s
  PROVE  /\ Has(s, Walks) <=> Has(s, Chain) \/ Has(s, Homes)
         /\ Has(s, Walks \cup Pauses) <=> Has(s, Chain) \/ Has(s, Homes) \/ Has(s, Pauses)
         /\ Has(s, (Walks \ {"queue"}) \cup Pauses)
              <=> Has(s, Chain) \/ Has(s, Homes \ {"queue"}) \/ Has(s, Pauses)
         /\ Has(s, Homes) <=> Has(s, {"queue"}) \/ Has(s, Homes \ {"queue"})
         /\ Has(s, Chain) <=> Has(s, {"bsm", "bsm_state"}) \/ Has(s, {"bsm_next"})
                              \/ Has(s, {"bsm_add"})
         /\ Has(s, {"bsm", "bsm_state", "bsm_next"})
              <=> Has(s, {"bsm", "bsm_state"}) \/ Has(s, {"bsm_next"})
         /\ Has(s, {"bsm_next", "bsm_add"}) <=> Has(s, {"bsm_next"}) \/ Has(s, {"bsm_add"})
         /\ Has(s, Calls \cup {"bsm_next"}) <=> Has(s, Calls) \/ Has(s, {"bsm_next"})
         /\ Has(s, Calls \cup Halves) <=> Has(s, Calls) \/ Has(s, Halves)
<1>1. /\ Walks = Chain \cup Homes
      /\ (Walks \ {"queue"}) \cup Pauses = (Chain \cup (Homes \ {"queue"})) \cup Pauses
      /\ Homes = {"queue"} \cup (Homes \ {"queue"})
      /\ Chain = {"bsm", "bsm_state"} \cup ({"bsm_next"} \cup {"bsm_add"})
      /\ {"bsm", "bsm_state", "bsm_next"} = {"bsm", "bsm_state"} \cup {"bsm_next"}
      /\ {"bsm_next", "bsm_add"} = {"bsm_next"} \cup {"bsm_add"}
  BY DEF Walks, Chain, Homes
<1>2. /\ Has(s, Walks) <=> Has(s, Chain) \/ Has(s, Homes)
      /\ Has(s, Walks \cup Pauses) <=> Has(s, Walks) \/ Has(s, Pauses)
      /\ Has(s, (Walks \ {"queue"}) \cup Pauses)
           <=> Has(s, Chain \cup (Homes \ {"queue"})) \/ Has(s, Pauses)
      /\ Has(s, Chain \cup (Homes \ {"queue"})) <=> Has(s, Chain) \/ Has(s, Homes \ {"queue"})
  BY <1>1, HasUnion
<1>3. /\ Has(s, Homes) <=> Has(s, {"queue"}) \/ Has(s, Homes \ {"queue"})
      /\ Has(s, Chain) <=> Has(s, {"bsm", "bsm_state"}) \/ Has(s, {"bsm_next"} \cup {"bsm_add"})
      /\ Has(s, {"bsm_next"} \cup {"bsm_add"}) <=> Has(s, {"bsm_next"}) \/ Has(s, {"bsm_add"})
      /\ Has(s, {"bsm", "bsm_state", "bsm_next"})
           <=> Has(s, {"bsm", "bsm_state"}) \/ Has(s, {"bsm_next"})
      /\ Has(s, {"bsm_next", "bsm_add"}) <=> Has(s, {"bsm_next"}) \/ Has(s, {"bsm_add"})
  BY <1>1, HasUnion
<1>4. /\ Has(s, Calls \cup {"bsm_next"}) <=> Has(s, Calls) \/ Has(s, {"bsm_next"})
      /\ Has(s, Calls \cup Halves) <=> Has(s, Calls) \/ Has(s, Halves)
  BY HasUnion
<1> QED
  BY <1>2, <1>3, <1>4

LEMMA YieldingIs == Yielding <=> Has(stack, Pauses)
  BY DEF Yielding, Has, Pauses

LEMMA TwiceHas ==
  ASSUME NEW s, Twice(s)
  PROVE  Has(s, Homes)
  BY DEF Twice, Has

(* Below a frame of the state machine, or a Yield of a walk, is a function  *)
(* that called it.                                                          *)
LEMMA Caller ==
  ASSUME NEW F, NEW s \in Seq(F), Nested(s)
  PROVE  /\ Has(s, Chain) => Has(s, Homes)
         /\ Has(s, Pauses) => Has(s, Walks \cup Calls)
         /\ Has(s, Halves \cup {"pending"}) => s[Len(s)].at \in Halves \cup {"pending"}
<1>1. ASSUME NEW k \in DOMAIN s
      PROVE  /\ DOMAIN s = 1..Len(s) /\ Len(s) \in Nat
             /\ DOMAIN SubSeq(s, k + 1, Len(s)) = 1..(Len(s) - k)
             /\ \A m \in 1..(Len(s) - k) : /\ SubSeq(s, k + 1, Len(s))[m] = s[k + m]
                                           /\ k + m \in DOMAIN s
  OBVIOUS
<1>2. ASSUME NEW k \in DOMAIN s, NEW S, Has(SubSeq(s, k + 1, Len(s)), S)
      PROVE  Has(s, S)
  BY <1>1, <1>2 DEF Has
<1>3. ASSUME Has(s, Chain)
      PROVE  Has(s, Homes)
  BY <1>2, <1>3 DEF Has, Nested, Fits
<1>4. ASSUME NEW k \in DOMAIN s, s[k].at \in Pauses
      PROVE  Has(s, Walks \cup Calls)
  <2>1. SubSeq(s, k + 1, Len(s)) # <<>> /\ SubSeq(s, k + 1, Len(s))[1].at \in Walks \cup Calls
    BY <1>4 DEF Nested, Fits
  <2>2. 1 \in 1..(Len(s) - k)
    BY <1>1, <2>1
  <2> QED
    BY <1>1, <2>1, <2>2 DEF Has
<1>5. ASSUME NEW k \in DOMAIN s, s[k].at \in Halves \cup {"pending"}
      PROVE  s[Len(s)].at \in Halves \cup {"pending"}
  <2>1. SubSeq(s, k + 1, Len(s)) = <<>>
    BY <1>5 DEF Nested, Fits
  <2>2. \A m \in 1..(Len(s) - k) : FALSE
    <3>1. DOMAIN SubSeq(s, k + 1, Len(s)) = {}
      BY <2>1
    <3>2. DOMAIN SubSeq(s, k + 1, Len(s)) = 1..(Len(s) - k)
      BY <1>1
    <3> QED
      BY <3>1, <3>2
  <2>3. k \in 1..Len(s) /\ Len(s) \in Nat
    BY <1>1
  <2>4. k = Len(s)
    BY <2>2, <2>3
  <2> QED
    BY <1>5, <2>4
<1> QED
  BY <1>3, <1>4, <1>5 DEF Has

-----------------------------------------------------------------------------
(* The types of frames, commands and events.                                *)

Lists == CompileLists \cup Steps
PlainAt == {"yield", "idle", "pending", "bsm", "bsm_state", "queue", "job_loop",
            "job_end", "job_after", "rebuild", "ws_end", "ws_rebuild", "run",
            "run_cmd", "file", "file_cmd"}
BuildAt == {"build", "build_jobs", "ws", "ws_jobs"}

Frames == [at : PlainAt] \cup [at : BuildAt, clean : BOOLEAN, build : BOOLEAN]
            \cup [at : {"queue_next"}, slot : Slot]
            \cup [at : {"bsm_next"}, cmds : Lists, entered : BuildState]
            \cup [at : {"bsm_add"}, cmds : Lists, next : BuildState]
Targets == Job \cup {NoJob}
Builds == [job : {"idle", "project", "workspace"}, state : BuildState,
           next : BuildState, target : Targets]
Events == [slot : Slot, code : {0, 1}, kind : Kind]

QueueType == m_CommandQueue \in Seq(Cmd)
SlotsType == /\ m_Processes \in [Slot -> BOOLEAN] /\ m_Pid \in [Slot -> BOOLEAN]
             /\ child \in [Slot -> SUBSET Cmd]
             /\ ended \in Seq(Events)
BuildType == build \in Builds /\ m_BuildJobTargetsList \in Seq(Job)
StackType == stack \in Seq(Frames)
FlagsType == /\ m_Clean \in BOOLEAN /\ m_Build \in BOOLEAN
             /\ m_RunTargetPostBuild \in BOOLEAN /\ m_RunProjectPostBuild \in BOOLEAN
             /\ m_IsWorkspaceOperation \in BOOLEAN /\ m_LastBuildStep \in BOOLEAN
             /\ m_RunAfterCompile \in BOOLEAN /\ m_LastWasRun \in BOOLEAN
             /\ errors \in BOOLEAN /\ owed \in BOOLEAN /\ failed \in BOOLEAN
             /\ aborted \in BOOLEAN
CountsType == /\ hindrance \in Hindrance \cup {"none"}
              /\ m_LastExitCode \in {0, 1} /\ sessions \in 0..MaxSessions
Types == QueueType /\ SlotsType /\ BuildType /\ StackType /\ FlagsType /\ CountsType

LEMMA TypesAre == Types => TypeOK
  BY DEF Types, QueueType, SlotsType, BuildType, FlagsType, CountsType, TypeOK,
         Builds, Events, Targets

LEMMA PlainFrame ==
  ASSUME NEW a \in PlainAt
  PROVE  Frame(a) \in Frames /\ Frame(a).at = a
  BY DEF Frame, Frames

LEMMA BuildFrameIs ==
  ASSUME NEW a \in BuildAt, NEW c \in BOOLEAN, NEW b \in BOOLEAN
  PROVE  /\ BuildFrame(a, c, b) \in Frames /\ BuildFrame(a, c, b).at = a
         /\ BuildFrame(a, c, b).clean = c /\ BuildFrame(a, c, b).build = b
  BY DEF BuildFrame, Frames

LEMMA RecordFrames ==
  /\ \A i \in Slot : [at |-> "queue_next", slot |-> i] \in Frames
  /\ \A l \in Lists, e \in BuildState :
       /\ [at |-> "bsm_next", cmds |-> l, entered |-> e] \in Frames
       /\ [at |-> "bsm_add", cmds |-> l, next |-> e] \in Frames
  BY DEF Frames

LEMMA FramesAre ==
  ASSUME NEW f \in Frames
  PROVE  /\ f.at \in PlainAt \cup BuildAt \cup {"queue_next", "bsm_next", "bsm_add"}
         /\ f.at = "queue_next" => f.slot \in Slot
         /\ f.at \in {"bsm_next", "bsm_add"} => f.cmds \in Lists
         /\ f.at = "bsm_next" => f.entered \in BuildState
         /\ f.at = "bsm_add" => f.next \in BuildState
         /\ f.at \in BuildAt => f.clean \in BOOLEAN /\ f.build \in BOOLEAN
<1>1. CASE f \in [at : PlainAt]
  BY <1>1 DEF PlainAt, BuildAt
<1>2. CASE f \in [at : BuildAt, clean : BOOLEAN, build : BOOLEAN]
  BY <1>2 DEF PlainAt, BuildAt
<1>3. CASE f \in [at : {"queue_next"}, slot : Slot]
  BY <1>3 DEF PlainAt, BuildAt
<1>4. CASE f \in [at : {"bsm_next"}, cmds : Lists, entered : BuildState]
  BY <1>4 DEF PlainAt, BuildAt
<1>5. CASE f \in [at : {"bsm_add"}, cmds : Lists, next : BuildState]
  BY <1>5 DEF PlainAt, BuildAt
<1> QED
  BY <1>1, <1>2, <1>3, <1>4, <1>5 DEF Frames

(* The frame of a build moves on.                                           *)
LEMMA BuildMoves ==
  ASSUME NEW f \in Frames, f.at \in BuildAt, NEW a \in BuildAt
  PROVE  /\ [f EXCEPT !.at = a] \in Frames /\ [f EXCEPT !.at = a].at = a
         /\ [f EXCEPT !.at = a].clean = f.clean /\ [f EXCEPT !.at = a].build = f.build
<1>1. f \in [at : BuildAt, clean : BOOLEAN, build : BOOLEAN]
  BY DEF Frames, PlainAt, BuildAt
<1> QED
  BY <1>1 DEF Frames

LEMMA PushPair ==
  ASSUME NEW a \in Frames, NEW b \in Frames, NEW s \in Seq(Frames)
  PROVE  <<a, b>> \o s = Push(a, Push(b, s)) /\ (<<a>> \o <<b>>) \o s = Push(a, Push(b, s))
<1>1. <<a>> \in Seq(Frames) /\ <<b>> \in Seq(Frames)
  OBVIOUS
<1>2. <<a, b>> = <<a>> \o <<b>>
  <2>1. <<a>> \o <<b>> \in Seq(Frames) /\ Len(<<a>> \o <<b>>) = 2
        /\ (<<a>> \o <<b>>)[1] = a /\ (<<a>> \o <<b>>)[2] = b
    BY <1>1
  <2>2. <<a, b>> \in Seq(Frames) /\ Len(<<a, b>>) = 2 /\ <<a, b>>[1] = a /\ <<a, b>>[2] = b
    OBVIOUS
  <2>3. \A k \in 1..2 : k = 1 \/ k = 2
    OBVIOUS
  <2> QED
    BY <2>1, <2>2, <2>3, SeqEqual
<1>3. (<<a>> \o <<b>>) \o s = <<a>> \o (<<b>> \o s)
  BY <1>1, ConcatAssociative
<1> QED
  BY <1>2, <1>3 DEF Push

LEMMA YieldIs ==
  ASSUME NEW f \in Frames, NEW s \in Seq(Frames)
  PROVE  /\ Yield(<<f>>) \o s = IF Yielding THEN Push(f, s)
                                           ELSE Push(Frame("yield"), Push(f, s))
         /\ Yield(<<>>) \o s = IF Yielding THEN s ELSE Push(Frame("yield"), s)
<1>1. Frame("yield") \in Frames
  BY PlainFrame DEF PlainAt
<1>2. (<<Frame("yield")>> \o <<f>>) \o s = Push(Frame("yield"), Push(f, s))
  BY <1>1, PushPair
<1>3. (<<Frame("yield")>> \o <<>>) \o s = Push(Frame("yield"), s) /\ <<>> \o s = s
  BY <1>1, PushOne
<1>4. <<f>> \o s = Push(f, s)
  BY PushOne
<1> QED
  BY <1>2, <1>3, <1>4 DEF Yield

LEMMA StackIs ==
  ASSUME StackType, stack # <<>>
  PROVE  /\ Head(stack) \in Frames /\ Tail(stack) \in Seq(Frames)
         /\ stack = Push(Head(stack), Tail(stack)) /\ stack[1] = Head(stack)
  BY HeadTail DEF StackType

LEMMA CommandType ==
  /\ \A k \in Kind, j \in Targets : Command(k, j) \in Cmd
  /\ \A c \in Cmd : c.kind \in Kind /\ c.job \in Targets
  BY DEF Command, Cmd, Targets

LEMMA KindsAre ==
  /\ {"log", "step", "link", "run", "cc"} \subseteq Kind
  /\ Lists \subseteq Seq(Kind)
<1>1. "cc" \in {<<"cc">>[i] : i \in DOMAIN <<"cc">>}
  OBVIOUS
<1>2. {"log", "step", "link", "run", "cc"} \subseteq Kind
  BY <1>1 DEF Kind
<1>3. ASSUME NEW l \in CompileLists
      PROVE  l \in Seq(Kind)
  <2>1. l \in Seq(STRING)
    BY BuildAssumption
  <2>2. \A i \in 1..Len(l) : l[i] \in Kind
    BY <2>1 DEF Kind
  <2> QED
    BY <2>1, <2>2
<1>4. Steps \subseteq Seq(Kind)
  BY <1>2 DEF Steps
<1> QED
  BY <1>2, <1>3, <1>4 DEF Lists

LEMMA CommandsAre ==
  ASSUME NEW l \in Seq(Kind), BuildType
  PROVE  /\ Commands(l) \in Seq(Cmd) /\ DOMAIN Commands(l) = DOMAIN l /\ Len(Commands(l)) = Len(l)
         /\ \A i \in DOMAIN l : Commands(l)[i].kind = l[i] /\ Commands(l)[i].job = build.target
<1>1. build.target \in Targets
  BY DEF BuildType, Builds
<1>2. \A i \in DOMAIN l : Commands(l)[i] = Command(l[i], build.target)
                       /\ Commands(l)[i] \in Cmd
  BY <1>1, CommandType DEF Commands
<1>3. DOMAIN Commands(l) = 1..Len(l) /\ Len(l) \in Nat
  BY DEF Commands
<1>4. Commands(l) \in [1..Len(l) -> Cmd]
  BY <1>2, <1>3 DEF Commands
<1>5. Commands(l) \in Seq(Cmd)
  BY <1>3, <1>4
<1>6. Len(Commands(l)) = Len(l) /\ DOMAIN Commands(l) = DOMAIN l
  BY <1>3, <1>5
<1>7. ASSUME NEW i \in DOMAIN l
      PROVE  Commands(l)[i].kind = l[i] /\ Commands(l)[i].job = build.target
  <2>1. Commands(l)[i] = [kind |-> l[i], job |-> build.target]
    BY <1>2 DEF Command
  <2> QED
    BY <2>1
<1> QED
  BY <1>5, <1>6, <1>7

LEMMA CommandListsAre == CommandLists \subseteq Lists
  BY DEF CommandLists, Lists, Steps

LEMMA BuildIs ==
  ASSUME BuildType
  PROVE  /\ build.job \in {"idle", "project", "workspace"}
         /\ build.state \in BuildState /\ build.next \in BuildState
         /\ build.target \in Targets
  BY DEF BuildType, Builds

LEMMA IdleIs == Idle \in Builds /\ Idle.job = "idle" /\ Idle.state = "none"
                /\ Idle.next = "none" /\ Idle.target = NoJob
  BY DEF Idle, Builds, BuildState, Targets

LEMMA BuildTurns ==
  ASSUME BuildType, NEW x \in BuildState, NEW j \in Targets
  PROVE  /\ [build EXCEPT !.state = x] \in Builds /\ [build EXCEPT !.next = x] \in Builds
         /\ [build EXCEPT !.target = j] \in Builds
         /\ [build EXCEPT !.next = x, !.target = j] \in Builds
         /\ [build EXCEPT !.job = "idle"] \in Builds
  BY DEF BuildType, Builds

-----------------------------------------------------------------------------
(* What each action makes of the stack.                                     *)

LEMMA Popped ==
  ASSUME StackType, stack # <<>>, stack' = Tail(stack)
  PROVE  StackType'
  BY StackIs DEF StackType

LEMMA Replaced ==
  ASSUME StackType, stack # <<>>, NEW f \in Frames, stack' = Push(f, Tail(stack))
  PROVE  StackType'
  BY StackIs, PushIs DEF StackType

LEMMA ReplacedByTwo ==
  ASSUME StackType, stack # <<>>, NEW f \in Frames, NEW g \in Frames,
         stack' = Push(f, Push(g, Tail(stack)))
  PROVE  StackType'
<1>1. Push(g, Tail(stack)) \in Seq(Frames)
  BY StackIs, PushIs
<1> QED
  BY <1>1, PushIs DEF StackType

LEMMA Continues ==
  ASSUME StackType, stack # <<>>, NEW f \in Frames, NEW g \in Frames
  PROVE  /\ Continue(<<f>>) => stack' = Push(f, Tail(stack))
         /\ Continue(<<f, g>>) => stack' = Push(f, Push(g, Tail(stack)))
         /\ Continue(Yield(<<f>>)) =>
              stack' = IF Yielding THEN Push(f, Tail(stack))
                                   ELSE Push(Frame("yield"), Push(f, Tail(stack)))
         /\ Continue(Yield(<<>>)) =>
              stack' = IF Yielding THEN Tail(stack) ELSE Push(Frame("yield"), Tail(stack))
<1>1. Tail(stack) \in Seq(Frames)
  BY StackIs
<1>2. <<f>> \o Tail(stack) = Push(f, Tail(stack))
  BY <1>1, PushOne
<1>4. <<f, g>> \o Tail(stack) = Push(f, Push(g, Tail(stack)))
  BY <1>1, PushPair
<1>3. /\ Yield(<<f>>) \o Tail(stack) = IF Yielding THEN Push(f, Tail(stack))
                                   ELSE Push(Frame("yield"), Push(f, Tail(stack)))
      /\ Yield(<<>>) \o Tail(stack) = IF Yielding THEN Tail(stack)
                                   ELSE Push(Frame("yield"), Tail(stack))
  BY <1>1, YieldIs
<1> QED
  BY <1>2, <1>3, <1>4 DEF Continue

(* A frame, in a Yield() or not.                                            *)
Paused(f) == IF Yielding THEN stack' = Push(f, Tail(stack))
             ELSE \E y \in Frames : y.at = "yield" /\ stack' = Push(y, Push(f, Tail(stack)))

LEMMA PausedType ==
  ASSUME StackType, stack # <<>>, NEW f \in Frames, Paused(f)
  PROVE  StackType'
  BY Replaced, ReplacedByTwo DEF Paused

LEMMA Pauses1 ==
  ASSUME StackType, stack # <<>>, NEW f \in Frames, Continue(Yield(<<f>>))
  PROVE  Paused(f)
  BY Continues, PlainFrame DEF Paused, PlainAt

(* Frame f, or f on g, takes the place of the first frame.                  *)
To(f) == f \in Frames /\ stack' = Push(f, Tail(stack))
ToTwo(f, g) == f \in Frames /\ g \in Frames /\ stack' = Push(f, Push(g, Tail(stack)))

LEMMA ContinuePlain ==
  ASSUME StackType, stack # <<>>, NEW a \in PlainAt
  PROVE  /\ Continue(<<Frame(a)>>) => \E f \in Frames : f.at = a /\ To(f)
         /\ Continue(Yield(<<Frame(a)>>)) => \E f \in Frames : f.at = a /\ Paused(f)
  BY PlainFrame, Continues, Pauses1 DEF To

LEMMA ContinueTwo ==
  ASSUME StackType, stack # <<>>, NEW a \in PlainAt, NEW g \in Frames,
         Continue(<<Frame(a), g>>)
  PROVE  \E f \in Frames : f.at = a /\ ToTwo(f, g)
  BY PlainFrame, Continues DEF ToTwo

LEMMA BsmStack ==
  ASSUME StackType, BuildStateManagement
  PROVE  IF IsProcessRunning THEN stack' = Tail(stack)
         ELSE \E f \in Frames : f.at = "bsm_state" /\ Paused(f)
  BY ContinuePlain DEF BuildStateManagement, At, Return, PlainAt

(* GenerateCommands, with a target.                                         *)
LEMMA GenerateStack ==
  ASSUME StackType, BuildType, GenerateCommands, build.target # NoJob
  PROVE  \E f \in Frames : /\ f.at = "bsm_next" /\ f.cmds \in CommandLists /\ f.cmds \in Lists
                           /\ To(f) \/ Paused(f)
<1>1. PICK cmds \in CommandLists :
        LET resume == <<[at |-> "bsm_next", cmds |-> cmds, entered |-> build.next]>>
        IN  Continue(IF cmds # <<>> \/ build.next = "TargetBuild"
                     THEN Yield(resume) ELSE resume)
  BY DEF GenerateCommands
<1> DEFINE f == [at |-> "bsm_next", cmds |-> cmds, entered |-> build.next]
<1>2. f \in Frames /\ cmds \in Lists /\ f.at = "bsm_next" /\ f.cmds = cmds
  BY RecordFrames, CommandListsAre, BuildIs
<1> HIDE DEF f
<1>3. Continue(<<f>>) \/ Continue(Yield(<<f>>))
  BY <1>1 DEF f
<1>4. stack # <<>>
  BY DEF GenerateCommands, At
<1>5. To(f) \/ Paused(f)
  BY <1>2, <1>3, <1>4, Continues, Pauses1 DEF To
<1> QED
  BY <1>2, <1>5

LEMMA NextStack ==
  ASSUME StackType, BuildType, FlagsType, GetNextStateBasedOnJob
  PROVE  \E f \in Frames :
           /\ f.at = "bsm_add" /\ f.cmds = Head(stack).cmds /\ f.next \in BuildState
           /\ \/ /\ build.state = "TargetDone" /\ f.next = FirstOfTarget /\ To(f)
                 /\ m_BuildJobTargetsList # <<>>
                 /\ build' = [build EXCEPT !.target = PeekNextJob] /\ GetNextJob
              \/ /\ build.state = "TargetDone"
                 /\ f.next = (IF m_Build THEN "ProjectPostBuild" ELSE "ProjectDone")
                 /\ To(f) /\ UNCHANGED <<build, m_BuildJobTargetsList>>
              \/ /\ build.state = "ProjectDone" /\ f.next = FirstOfTarget
                 /\ m_BuildJobTargetsList # <<>>
                 /\ \E b \in Frames : b.at = "bsm" /\ ToTwo(b, f)
                 /\ build' = [build EXCEPT !.next = "ProjectPreBuild", !.target = PeekNextJob]
                 /\ GetNextJob
              \/ /\ build.state # "TargetDone" /\ f.next = AfterState /\ To(f)
                 /\ UNCHANGED <<build, m_BuildJobTargetsList>>
<1> DEFINE add(next) == [at |-> "bsm_add", cmds |-> Head(stack).cmds, next |-> next]
<1>1. stack # <<>> /\ Head(stack).at = "bsm_next"
  BY DEF GetNextStateBasedOnJob, At
<1>2. Head(stack).cmds \in Lists
  BY <1>1, StackIs, FramesAre
<1>3. ASSUME NEW x \in BuildState
      PROVE  /\ add(x) \in Frames /\ add(x).at = "bsm_add" /\ add(x).next = x
             /\ add(x).cmds = Head(stack).cmds
  BY <1>2, RecordFrames
<1>4. FirstOfTarget \in BuildState /\ AfterState \in BuildState
      /\ (IF m_Build THEN "ProjectPostBuild" ELSE "ProjectDone") \in BuildState
  BY DEF FirstOfTarget, AfterState, BuildState
<1>5. \/ /\ build.state = "TargetDone" /\ m_BuildJobTargetsList # <<>>
         /\ build' = [build EXCEPT !.target = PeekNextJob] /\ GetNextJob
         /\ Continue(<<add(FirstOfTarget)>>)
      \/ /\ build.state = "TargetDone"
         /\ Continue(<<add(IF m_Build THEN "ProjectPostBuild" ELSE "ProjectDone")>>)
         /\ UNCHANGED <<build, m_BuildJobTargetsList>>
      \/ /\ build.state = "ProjectDone" /\ m_BuildJobTargetsList # <<>>
         /\ build' = [build EXCEPT !.next = "ProjectPreBuild", !.target = PeekNextJob]
         /\ GetNextJob
         /\ Continue(<<Frame("bsm"), add(FirstOfTarget)>>)
      \/ /\ build.state # "TargetDone"
         /\ Continue(<<add(AfterState)>>)
         /\ UNCHANGED <<build, m_BuildJobTargetsList>>
  BY DEF GetNextStateBasedOnJob
<1> HIDE DEF add
<1>6. ASSUME NEW x \in BuildState, Continue(<<add(x)>>)
      PROVE  To(add(x))
  BY <1>1, <1>3, <1>6, Continues DEF To
<1>7. ASSUME NEW x \in BuildState, Continue(<<Frame("bsm"), add(x)>>)
      PROVE  \E b \in Frames : b.at = "bsm" /\ ToTwo(b, add(x))
  <2>1. "bsm" \in PlainAt
    BY DEF PlainAt
  <2> QED
    BY <1>1, <1>3, <1>7, <2>1, ContinueTwo
<1> QED
  BY <1>3, <1>4, <1>5, <1>6, <1>7

LEMMA AddStack ==
  ASSUME StackType, AddToCommandQueue
  PROVE  stack' = Tail(stack) \/ \E y \in Frames : y.at = "yield" /\ To(y) /\ ~Yielding
  BY Continues, PlainFrame DEF AddToCommandQueue, At, PlainAt, To

LEMMA LaunchStack ==
  ASSUME StackType, stack # <<>>, NEW i, Launch(i)
  PROVE  \E f \in Frames : f.at = "queue" /\ To(f)
<1>1. Continue(<<Frame("queue")>>)
  BY DEF Launch
<1> QED
  BY <1>1, ContinuePlain DEF PlainAt

(* DoRunQueue, when the queue is empty and no process runs.                 *)
LEMMA QueueStack ==
  ASSUME StackType, stack # <<>>, FreeSlots # {},
         Continue(<<Frame("bsm"), [at |-> "queue_next", slot |-> GetNextAvailableProcessIndex]>>)
  PROVE  \E f, g \in Frames : f.at = "bsm" /\ g.at = "queue_next" /\ ToTwo(f, g)
<1> DEFINE g == [at |-> "queue_next", slot |-> GetNextAvailableProcessIndex]
<1>1. g \in Frames /\ g.at = "queue_next"
  BY NextAvailable, RecordFrames
<1> HIDE DEF g
<1>2. \E f \in Frames : f.at = "bsm" /\ ToTwo(f, g)
  BY <1>1, ContinueTwo DEF PlainAt, g
<1> QED
  BY <1>1, <1>2

LEMMA NextCommandStack ==
  ASSUME StackType, RunNextCommand
  PROVE  \/ m_CommandQueue # <<>> /\ Launch(Head(stack).slot)
         \/ /\ m_CommandQueue = <<>>
            /\ \E f \in Frames : f.at = "bsm" /\ ToTwo(f, Head(stack))
            /\ UNCHANGED <<m_CommandQueue, processVars, build, m_RunAfterCompile,
                           m_LastWasRun, owed, failed>>
         \/ /\ ResetBuildState /\ m_RunAfterCompile' = FALSE
            /\ IF m_RunAfterCompile THEN \E f \in Frames : f.at = "run" /\ To(f)
                                    ELSE stack' = Tail(stack)
            /\ UNCHANGED <<processVars, m_LastWasRun, failed>>
<1>1. stack # <<>> /\ Head(stack) \in Frames
  BY StackIs DEF RunNextCommand, At
<1>2. CASE m_CommandQueue # <<>>
  BY <1>2 DEF RunNextCommand
<1>3. CASE m_CommandQueue = <<>> /\ ~AllStatesDone
  <2>1. Continue(<<Frame("bsm"), Head(stack)>>)
    BY <1>3 DEF RunNextCommand
  <2>2. \E f \in Frames : f.at = "bsm" /\ ToTwo(f, Head(stack))
    BY <1>1, <2>1, ContinueTwo DEF PlainAt
  <2> QED
    BY <1>3, <2>2 DEF RunNextCommand
<1>4. CASE m_CommandQueue = <<>> /\ AllStatesDone
  <2>1. /\ ResetBuildState /\ m_RunAfterCompile' = FALSE
        /\ IF m_RunAfterCompile THEN Continue(<<Frame("run")>>) ELSE stack' = Tail(stack)
        /\ UNCHANGED <<processVars, m_LastWasRun, failed>>
    BY <1>4 DEF RunNextCommand, Return
  <2> QED
    BY <1>1, <2>1, ContinuePlain DEF PlainAt
<1> QED
  BY <1>2, <1>3, <1>4

LEMMA PushStack ==
  ASSUME StackType, NEW f \in Frames, NEW g \in Frames
  PROVE  /\ stack' = <<f>> \o stack => stack' = Push(f, stack) /\ StackType'
         /\ stack' = <<f, g>> \o stack => stack' = Push(f, Push(g, stack)) /\ StackType'
<1>1. stack \in Seq(Frames) /\ Push(g, stack) \in Seq(Frames)
  BY PushIs DEF StackType
<1>2. <<f, g>> \o stack = Push(f, Push(g, stack))
  BY <1>1, PushPair
<1>3. Push(f, stack) \in Seq(Frames) /\ Push(f, Push(g, stack)) \in Seq(Frames)
  BY <1>1, PushIs
<1> QED
  BY <1>2, <1>3 DEF StackType, Push

(* OnJobEnd puts its frames on the stack.                                   *)
LEMMA JobEndStack ==
  ASSUME StackType, OnJobEnd
  PROVE  /\ StackType'
         /\ \/ /\ Head(ended).code # 0
               /\ \E f \in Frames : f.at = "job_end" /\ stack' = Push(f, stack)
            \/ /\ Head(ended).code = 0
               /\ m_CommandQueue # <<>> \/ \E i \in Slot : m_Processes'[i]
               /\ \E f \in Frames : f.at = "queue" /\ stack' = Push(f, stack)
            \/ /\ Head(ended).code = 0
               /\ m_CommandQueue = <<>> /\ \A i \in Slot : ~m_Processes'[i]
               /\ \E f, g \in Frames : /\ f.at = "bsm" /\ g.at = "job_loop"
                                       /\ stack' = Push(f, Push(g, stack))
<1>1. \A a \in {"job_end", "queue", "bsm", "job_loop"} : Frame(a) \in Frames /\ Frame(a).at = a
  BY PlainFrame DEF PlainAt
<1>2. \/ Head(ended).code # 0 /\ stack' = <<Frame("job_end")>> \o stack
      \/ /\ Head(ended).code = 0
         /\ m_CommandQueue # <<>> \/ \E i \in Slot : m_Processes'[i]
         /\ stack' = <<Frame("queue")>> \o stack
      \/ /\ Head(ended).code = 0
         /\ m_CommandQueue = <<>> /\ \A i \in Slot : ~m_Processes'[i]
         /\ stack' = <<Frame("bsm"), Frame("job_loop")>> \o stack
  BY DEF OnJobEnd
<1> QED
  BY <1>1, <1>2, PushStack

LEMMA JobLoopStack ==
  ASSUME StackType, JobLoop
  PROVE  \/ m_CommandQueue # <<>> /\ \E f \in Frames : f.at = "queue" /\ To(f)
         \/ m_CommandQueue = <<>> /\ \E f \in Frames : f.at = "job_end" /\ To(f)
         \/ /\ m_CommandQueue = <<>>
            /\ \E f, g \in Frames : f.at = "bsm" /\ g.at = "job_loop" /\ ToTwo(f, g)
<1>1. "queue" \in PlainAt /\ "job_end" \in PlainAt /\ "bsm" \in PlainAt /\ "job_loop" \in PlainAt
  BY DEF PlainAt
<1>2. stack # <<>>
  BY DEF JobLoop, At
<1>3. Frame("job_loop") \in Frames /\ Frame("job_loop").at = "job_loop"
  BY <1>1, PlainFrame
<1>4. \/ m_CommandQueue # <<>> /\ Continue(<<Frame("queue")>>)
      \/ m_CommandQueue = <<>> /\ Continue(<<Frame("job_end")>>)
      \/ m_CommandQueue = <<>> /\ Continue(<<Frame("bsm"), Frame("job_loop")>>)
  BY DEF JobLoop
<1>5. Continue(<<Frame("queue")>>) => \E f \in Frames : f.at = "queue" /\ To(f)
  BY <1>1, <1>2, ContinuePlain
<1>6. Continue(<<Frame("job_end")>>) => \E f \in Frames : f.at = "job_end" /\ To(f)
  BY <1>1, <1>2, ContinuePlain
<1>7. Continue(<<Frame("bsm"), Frame("job_loop")>>) =>
        \E f \in Frames : f.at = "bsm" /\ ToTwo(f, Frame("job_loop"))
  BY <1>1, <1>2, <1>3, ContinueTwo
<1> QED
  BY <1>3, <1>4, <1>5, <1>6, <1>7

LEMMA AfterJobStack ==
  ASSUME StackType, JobEnd
  PROVE  IF ~errors /\ m_RunAfterCompile
         THEN \E f, g \in Frames : f.at = "run" /\ g.at = "job_after" /\ ToTwo(f, g)
         ELSE stack' = Tail(stack)
<1>1. "run" \in PlainAt /\ "job_after" \in PlainAt
  BY DEF PlainAt
<1>2. stack # <<>>
  BY DEF JobEnd, At
<1>3. Frame("job_after") \in Frames /\ Frame("job_after").at = "job_after"
  BY <1>1, PlainFrame
<1>4. Continue(<<Frame("run"), Frame("job_after")>>) =>
        \E f \in Frames : f.at = "run" /\ ToTwo(f, Frame("job_after"))
  BY <1>1, <1>2, <1>3, ContinueTwo
<1> QED
  BY <1>3, <1>4 DEF JobEnd, Return

(* DoBuild and DoWorkspaceBuild refuse, or go on past their Yield().        *)
LEMMA DoBuildStack ==
  ASSUME StackType, DoBuild
  PROVE  \/ hindrance \in Hindrance /\ stack' = Tail(stack) /\ UNCHANGED <<errors, hindrance>>
         \/ /\ hindrance = "no project" /\ UNCHANGED <<errors, hindrance>>
            /\ \E f \in Frames : f.at = "file" /\ To(f)
         \/ /\ hindrance' = "none" /\ errors' = (errors /\ m_IsWorkspaceOperation)
            /\ \E f \in Frames : /\ f.at = "build_jobs" /\ f.clean = Head(stack).clean
                                 /\ f.build = Head(stack).build
                                 /\ To(f) \/ Paused(f)
<1>1. stack # <<>> /\ Head(stack).at = "build" /\ Head(stack) \in Frames
  BY StackIs DEF DoBuild, At
<1> DEFINE g == [Head(stack) EXCEPT !.at = "build_jobs"]
<1>2. /\ g \in Frames /\ g.at = "build_jobs"
      /\ g.clean = Head(stack).clean /\ g.build = Head(stack).build
  BY <1>1, BuildMoves DEF BuildAt
<1>3. \/ hindrance \in Hindrance /\ stack' = Tail(stack) /\ UNCHANGED <<errors, hindrance>>
      \/ /\ hindrance = "no project" /\ UNCHANGED <<errors, hindrance>>
         /\ Continue(<<Frame("file")>>)
      \/ /\ hindrance' = "none" /\ errors' = (errors /\ m_IsWorkspaceOperation)
         /\ Continue(<<g>>) \/ Continue(Yield(<<g>>))
  BY DEF DoBuild, Return
<1> HIDE DEF g
<1>4. (Continue(<<g>>) => To(g)) /\ (Continue(Yield(<<g>>)) => Paused(g))
  BY <1>1, <1>2, Continues, Pauses1 DEF To
<1>5. Continue(<<Frame("file")>>) => \E f \in Frames : f.at = "file" /\ To(f)
  BY <1>1, ContinuePlain DEF PlainAt
<1> QED
  BY <1>2, <1>3, <1>4, <1>5

LEMMA DoWorkspaceBuildStack ==
  ASSUME StackType, DoWorkspaceBuild
  PROVE  \/ stack' = Tail(stack) /\ UNCHANGED <<errors, hindrance>>
         \/ /\ hindrance' = "none" /\ errors' = (errors /\ m_CommandQueue # <<>>)
            /\ \E f \in Frames : /\ f.at = "ws_jobs" /\ f.clean = Head(stack).clean
                                 /\ f.build = Head(stack).build
                                 /\ Paused(f)
<1>1. stack # <<>> /\ Head(stack).at = "ws" /\ Head(stack) \in Frames
  BY StackIs DEF DoWorkspaceBuild, At
<1> DEFINE g == [Head(stack) EXCEPT !.at = "ws_jobs"]
<1>2. /\ g \in Frames /\ g.at = "ws_jobs"
      /\ g.clean = Head(stack).clean /\ g.build = Head(stack).build
  BY <1>1, BuildMoves DEF BuildAt
<1>3. \/ stack' = Tail(stack) /\ UNCHANGED <<errors, hindrance>>
      \/ /\ hindrance' = "none" /\ errors' = (errors /\ m_CommandQueue # <<>>)
         /\ Continue(Yield(<<g>>))
  BY DEF DoWorkspaceBuild, Return
<1> HIDE DEF g
<1>4. Continue(Yield(<<g>>)) => Paused(g)
  BY <1>1, <1>2, Pauses1
<1> QED
  BY <1>2, <1>3, <1>4

(* What StartBuild and NothingToBuild make of a list of jobs.               *)
LEMMA Started ==
  ASSUME StackType, BuildType, stack # <<>>, Head(stack).at \in BuildAt,
         NEW operation \in {"project", "workspace"}, NEW jobs \in Seq(Job), jobs # <<>>,
         NEW after \in {"queue", "ws_end"}, StartBuild(operation, jobs, after)
  PROVE  /\ \E f, g \in Frames : f.at = "bsm" /\ g.at = after /\ ToTwo(f, g)
         /\ build' \in Builds /\ build'.job = operation /\ build'.target \in Job
         /\ build'.state = "none" /\ build'.next = "ProjectPreBuild"
         /\ m_BuildJobTargetsList' \in Seq(Job) /\ m_CommandQueue' = <<>>
         /\ m_Clean' = Head(stack).clean /\ m_Build' = Head(stack).build
         /\ owed' = TRUE /\ failed' = FALSE
<1>1. Head(jobs) \in Job /\ Tail(jobs) \in Seq(Job)
  OBVIOUS
<1>2. build' = [job |-> operation, state |-> "none", next |-> "ProjectPreBuild",
                target |-> Head(jobs)]
  BY DEF StartBuild, InitBuildState
<1>3. /\ build' \in Builds /\ build'.job = operation /\ build'.target \in Job
      /\ build'.state = "none" /\ build'.next = "ProjectPreBuild"
  BY <1>1, <1>2 DEF Builds, Targets, BuildState
<1>4. after \in PlainAt /\ "bsm" \in PlainAt
  BY DEF PlainAt
<1>5. Frame(after) \in Frames /\ Frame(after).at = after
  BY <1>4, PlainFrame
<1>6. Continue(<<Frame("bsm"), Frame(after)>>)
  BY DEF StartBuild
<1>7. \E f \in Frames : f.at = "bsm" /\ ToTwo(f, Frame(after))
  BY <1>4, <1>5, <1>6, ContinueTwo
<1> QED
  BY <1>1, <1>3, <1>5, <1>7 DEF StartBuild, InitBuildState

LEMMA JobsAre ==
  ASSUME BuildType, NEW b \in BOOLEAN, NEW found \in {ProjectJobs, WorkspaceJobs, <<>>}
  PROVE  PreprocessJob(b, found) \in Seq(Job)
<1>1. <<>> \in Seq(Job) /\ m_BuildJobTargetsList \in Seq(Job)
  BY DEF BuildType
<1>2. found \in Seq(Job)
  BY <1>1, JobAssumption
<1>3. m_BuildJobTargetsList \o found \in Seq(Job) /\ <<>> \o found \in Seq(Job)
  BY <1>1, <1>2
<1> QED
  BY <1>3 DEF PreprocessJob

-----------------------------------------------------------------------------
(* Every variable keeps its type.                                           *)

LEMMA InitTypes == Init => Types
<1> SUFFICES ASSUME Init PROVE Types
  OBVIOUS
<1>1. QueueType /\ StackType
  BY DEF Init, QueueType, StackType
<1>2. SlotsType
  BY DEF Init, SlotsType
<1>3. BuildType
  <2>1. build \in Builds
    BY IdleIs DEF Init, Builds
  <2> QED
    BY <2>1 DEF Init, BuildType
<1>4. FlagsType
  BY DEF Init, FlagsType
<1>5. CountsType
  BY BuildAssumption DEF Init, CountsType
<1> QED
  BY <1>1, <1>2, <1>3, <1>4, <1>5 DEF Types

LEMMA LaunchType ==
  ASSUME QueueType, SlotsType, BuildType, NEW i \in Slot, m_CommandQueue # <<>>, Launch(i)
  PROVE  QueueType' /\ SlotsType' /\ BuildType'
<1>1. Head(m_CommandQueue) \in Cmd /\ Tail(m_CommandQueue) \in Seq(Cmd)
  BY DEF QueueType
<1>2. QueueType'
  <2>1. m_CommandQueue' = Tail(m_CommandQueue) \/ m_CommandQueue' = <<>>
    BY DEF Launch, TakeCommand, ResetBuildState
  <2>2. <<>> \in Seq(Cmd)
    OBVIOUS
  <2> QED
    BY <1>1, <2>1, <2>2 DEF QueueType
<1>3. BuildType'
  BY IdleIs DEF Launch, ResetBuildState, BuildType
<1>4. SlotsType'
  <2> DEFINE c == Head(m_CommandQueue)
  <2>1. \/ UNCHANGED processVars
        \/ /\ m_Processes' = [m_Processes EXCEPT ![i] = TRUE]
           /\ m_Pid' = [m_Pid EXCEPT ![i] = TRUE]
           /\ child' = [child EXCEPT ![i] = @ \cup {c}]
           /\ UNCHANGED ended
        \/ /\ m_Processes' = [m_Processes EXCEPT ![i] = FALSE]
           /\ m_Pid' = [m_Pid EXCEPT ![i] = FALSE]
           /\ UNCHANGED <<child, ended>>
    BY DEF Launch
  <2> HIDE DEF c
  <2>2. c \in Cmd
    BY <1>1 DEF c
  <2>3. m_Processes' \in [Slot -> BOOLEAN] /\ m_Pid' \in [Slot -> BOOLEAN]
    BY <2>1 DEF SlotsType, processVars
  <2>4. child' \in [Slot -> SUBSET Cmd]
    BY <2>1, <2>2 DEF SlotsType, processVars
  <2>5. ended' \in Seq(Events)
    BY <2>1 DEF SlotsType, processVars
  <2> QED
    BY <2>3, <2>4, <2>5 DEF SlotsType
<1> QED
  BY <1>2, <1>3, <1>4

(* The slot that DoRunQueue launches a command in.                          *)
LEMMA QueueSlot ==
  ASSUME StackType
  PROVE  /\ FreeSlots # {} => GetNextAvailableProcessIndex \in Slot
         /\ At("queue_next") => Head(stack).slot \in Slot
  BY NextAvailable, StackIs, FramesAre DEF At

LEMMA LaunchesType ==
  ASSUME Types, DoRunQueue \/ RunNextCommand
  PROVE  QueueType' /\ SlotsType' /\ BuildType'
<1>1. CASE \E i \in Slot : m_CommandQueue # <<>> /\ Launch(i)
  BY <1>1, LaunchType DEF Types
<1>2. CASE UNCHANGED <<m_CommandQueue, processVars, build, m_BuildJobTargetsList>>
  BY <1>2 DEF Types, QueueType, SlotsType, BuildType, processVars
<1>3. CASE ResetBuildState /\ UNCHANGED <<processVars, m_BuildJobTargetsList>>
  BY <1>3, IdleIs DEF Types, QueueType, SlotsType, BuildType, processVars, ResetBuildState
<1>4. DoRunQueue => <1>1!1 \/ <1>2!1
  BY QueueSlot DEF DoRunQueue, Types
<1>5. RunNextCommand => <1>1!1 \/ <1>2!1 \/ <1>3!1
  BY QueueSlot DEF RunNextCommand, Types
<1> QED
  BY <1>1, <1>2, <1>3, <1>4, <1>5

LEMMA StackStep ==
  ASSUME Types, [Next]_vars
  PROVE  StackType'
<1> USE DEF Types
<1>1. CASE BuildStateManagement
  <2>1. stack # <<>>
    BY <1>1 DEF BuildStateManagement, At
  <2> QED
    BY <1>1, <2>1, BsmStack, Popped, PausedType
<1>2. CASE GenerateCommands
  <2>1. stack # <<>>
    BY <1>2 DEF GenerateCommands, At
  <2>2. CASE build.target = NoJob
    BY <1>2, <2>1, <2>2, Popped DEF GenerateCommands, Return
  <2>3. CASE build.target # NoJob
    BY <1>2, <2>1, <2>3, GenerateStack, Replaced, PausedType DEF To
  <2> QED
    BY <2>2, <2>3
<1>3. CASE GetNextStateBasedOnJob
  <2>1. stack # <<>>
    BY <1>3 DEF GetNextStateBasedOnJob, At
  <2>2. \E f \in Frames : To(f) \/ \E b \in Frames : ToTwo(b, f)
    BY <1>3, NextStack
  <2> QED
    BY <2>1, <2>2, Replaced, ReplacedByTwo DEF To, ToTwo
<1>4. CASE AddToCommandQueue
  <2>1. stack # <<>>
    BY <1>4 DEF AddToCommandQueue, At
  <2> QED
    BY <1>4, <2>1, AddStack, Popped, Replaced DEF To
<1>5. CASE DoRunQueue
  <2>1. stack # <<>>
    BY <1>5 DEF DoRunQueue, At
  <2>2. CASE Return
    BY <2>1, <2>2, Popped DEF Return
  <2>3. CASE \E i \in Slot : Launch(i)
    BY <2>1, <2>3, LaunchStack, Replaced DEF To
  <2>4. CASE FreeSlots # {} /\ Continue(<<Frame("bsm"),
                      [at |-> "queue_next", slot |-> GetNextAvailableProcessIndex]>>)
    BY <2>1, <2>4, QueueStack, ReplacedByTwo DEF ToTwo
  <2> QED
    BY <1>5, <2>2, <2>3, <2>4, QueueSlot DEF DoRunQueue
<1>6. CASE RunNextCommand
  <2>1. stack # <<>> /\ Head(stack) \in Frames
    BY <1>6, StackIs DEF RunNextCommand, At
  <2>2. CASE Launch(Head(stack).slot)
    BY <2>1, <2>2, LaunchStack, Replaced DEF To
  <2>3. CASE \E f \in Frames : ToTwo(f, Head(stack)) \/ To(f)
    BY <2>1, <2>3, Replaced, ReplacedByTwo DEF To, ToTwo
  <2>4. CASE stack' = Tail(stack)
    BY <2>1, <2>4, Popped
  <2> QED
    BY <1>6, <2>2, <2>3, <2>4, NextCommandStack
<1>7. CASE OnJobEnd
  BY <1>7, JobEndStack
<1>8. CASE JobLoop
  <2>1. stack # <<>>
    BY <1>8 DEF JobLoop, At
  <2>2. \E f \in Frames : To(f) \/ \E g \in Frames : ToTwo(f, g)
    BY <1>8, JobLoopStack
  <2> QED
    BY <2>1, <2>2, Replaced, ReplacedByTwo DEF To, ToTwo
<1>9. CASE JobEnd
  <2>1. stack # <<>>
    BY <1>9 DEF JobEnd, At
  <2>2. stack' = Tail(stack) \/ \E f, g \in Frames : ToTwo(f, g)
    BY <1>9, AfterJobStack
  <2> QED
    BY <2>1, <2>2, Popped, ReplacedByTwo DEF ToTwo
<1>10. CASE JobAfter
  BY <1>10, Popped DEF JobAfter, At, Return
<1>11. CASE DoBuild
  <2>1. stack # <<>>
    BY <1>11 DEF DoBuild, At
  <2>2. stack' = Tail(stack) \/ \E f \in Frames : To(f) \/ Paused(f)
    BY <1>11, DoBuildStack
  <2> QED
    BY <2>1, <2>2, Popped, Replaced, PausedType DEF To
<1>12. CASE DoWorkspaceBuild
  <2>1. stack # <<>>
    BY <1>12 DEF DoWorkspaceBuild, At
  <2>2. stack' = Tail(stack) \/ \E f \in Frames : Paused(f)
    BY <1>12, DoWorkspaceBuildStack
  <2> QED
    BY <2>1, <2>2, Popped, PausedType
<1>13. CASE BuildProject \/ BuildWorkspace
  <2>1. stack # <<>> /\ Head(stack).at \in BuildAt
    BY <1>13 DEF BuildProject, BuildWorkspace, At, BuildAt
  <2>2. CASE NothingToBuild
    BY <2>1, <2>2, Popped DEF NothingToBuild, Return
  <2>3. ASSUME NEW op \in {"project", "workspace"}, NEW jobs \in Seq(Job), jobs # <<>>,
               NEW after \in {"queue", "ws_end"}, StartBuild(op, jobs, after)
        PROVE  StackType'
    <3>1. \E f, g \in Frames : ToTwo(f, g)
      BY <2>1, <2>3, Started
    <3> QED
      BY <2>1, <3>1, ReplacedByTwo DEF ToTwo
  <2>4. ASSUME NEW b \in BOOLEAN, NEW found \in {ProjectJobs, WorkspaceJobs, <<>>}
        PROVE  PreprocessJob(b, found) \in Seq(Job)
    BY JobsAre
  <2>5. CASE BuildProject
    <3>1. PICK found \in {ProjectJobs, <<>>} :
            LET jobs == PreprocessJob(m_IsWorkspaceOperation, found)
            IN  IF jobs = <<>> THEN NothingToBuild ELSE StartBuild("project", jobs, "queue")
      BY <2>5 DEF BuildProject
    <3>2. PreprocessJob(m_IsWorkspaceOperation, found) \in Seq(Job)
      BY <2>4 DEF FlagsType
    <3> QED
      BY <2>2, <2>3, <3>1, <3>2
  <2>6. CASE BuildWorkspace
    <3>1. PICK found \in {WorkspaceJobs, <<>>} :
            LET jobs == PreprocessJob(TRUE, found)
            IN  IF jobs = <<>> THEN NothingToBuild ELSE StartBuild("workspace", jobs, "ws_end")
      BY <2>6 DEF BuildWorkspace
    <3>2. PreprocessJob(TRUE, found) \in Seq(Job)
      BY <2>4
    <3> QED
      BY <2>2, <2>3, <3>1, <3>2
  <2> QED
    BY <1>13, <2>5, <2>6
<1>14. CASE Rebuild \/ RebuildWorkspace \/ WorkspaceStarted
  <2>1. stack # <<>>
    BY <1>14 DEF Rebuild, RebuildWorkspace, WorkspaceStarted, At
  <2>2. /\ BuildFrame("build", FALSE, TRUE) \in Frames /\ BuildFrame("ws", FALSE, TRUE) \in Frames
        /\ Frame("queue") \in Frames
    BY BuildFrameIs, PlainFrame DEF BuildAt, PlainAt
  <2>3. \E f \in Frames : Continue(<<f>>)
    BY <1>14, <2>2 DEF Rebuild, RebuildWorkspace, WorkspaceStarted
  <2>4. \E f \in Frames : stack' = Push(f, Tail(stack))
    BY <2>1, <2>3, Continues
  <2> QED
    BY <2>1, <2>4, Replaced
<1>15. CASE PrepareQueue
  <2>1. stack # <<>>
    BY <1>15 DEF PrepareQueue, At
  <2>2. Continue(Yield(<<Frame("run_cmd")>>)) \/ Continue(Yield(<<Frame("file_cmd")>>))
    BY <1>15 DEF PrepareQueue
  <2>3. \E f \in Frames : Paused(f)
    BY <2>1, <2>2, ContinuePlain DEF PlainAt
  <2> QED
    BY <2>1, <2>3, PausedType
<1>16. CASE Run \/ CompileFile
  <2>1. stack # <<>>
    BY <1>16 DEF Run, CompileFile, At
  <2>2. BuildFrame("build", FALSE, TRUE) \in Frames /\ Frame("queue") \in Frames
    BY BuildFrameIs, PlainFrame DEF BuildAt, PlainAt
  <2>3. Return \/ \E f \in Frames : Continue(<<f>>)
    BY <1>16, <2>2 DEF Run, CompileFile
  <2>4. stack' = Tail(stack) \/ \E f \in Frames : stack' = Push(f, Tail(stack))
    BY <2>1, <2>3, Continues DEF Return
  <2> QED
    BY <2>1, <2>4, Replaced, Popped
<1>17. CASE ProcessPendingEvents
  <2>1. Frame("pending") \in Frames /\ <<Frame("pending")>> \in Seq(Frames)
    BY PlainFrame DEF PlainAt
  <2>2. CASE At("yield") /\ Continue(<<Frame("idle")>>)
    BY <2>2, ContinuePlain, Replaced DEF At, PlainAt, To
  <2>3. CASE (At("pending") \/ At("idle")) /\ Return
    BY <2>3, Popped DEF At, Return
  <2> QED
    BY <1>17, <2>1, <2>2, <2>3 DEF ProcessPendingEvents, StackType
<1>18. CASE \E c \in Menu : UserCommand(c)
  <2>1. /\ \A c, b \in BOOLEAN : /\ BuildFrame("build", c, b) \in Frames
                                 /\ BuildFrame("ws", c, b) \in Frames
        /\ \A a \in {"rebuild", "ws_rebuild", "run", "file"} : Frame(a) \in Frames
    BY BuildFrameIs, PlainFrame DEF BuildAt, PlainAt
  <2>2. \E f, g \in Frames : stack' = <<f>> \o stack \/ stack' = <<f, g>> \o stack
    <3>1. PICK c \in Menu : UserCommand(c)
      BY <1>18
    <3>2. \E f, g \in Frames : \E l, r : Call(<<f>>, l, r) \/ Call(<<f, g>>, l, r)
      BY <2>1, <3>1 DEF UserCommand
    <3> QED
      BY <3>2 DEF Call
  <2> QED
    BY <2>2, PushStack
<1>19. CASE (\E i \in Slot : Terminate(i)) \/ KillProcess \/ UNCHANGED vars
  BY <1>19 DEF Terminate, KillProcess, vars, StackType
<1> QED
  BY <1>1, <1>2, <1>3, <1>4, <1>5, <1>6, <1>7, <1>8, <1>9, <1>10, <1>11, <1>12,
     <1>13, <1>14, <1>15, <1>16, <1>17, <1>18, <1>19 DEF Next, Engine

(* What a build that is begun, or found empty, makes of the state.          *)
LEMMA JobsStep ==
  ASSUME Types, BuildProject \/ BuildWorkspace
  PROVE  \/ NothingToBuild
         \/ /\ \E f, g \in Frames : /\ f.at = "bsm" /\ g.at \in {"queue", "ws_end"}
                                    /\ ToTwo(f, g)
            /\ build' \in Builds /\ build'.job # "idle" /\ build'.target \in Job
            /\ build'.state = "none" /\ build'.next = "ProjectPreBuild"
            /\ m_BuildJobTargetsList' \in Seq(Job) /\ m_CommandQueue' = <<>>
            /\ m_Clean' = Head(stack).clean /\ m_Build' = Head(stack).build
            /\ owed' = TRUE /\ failed' = FALSE
<1> USE DEF Types
<1>1. stack # <<>> /\ Head(stack).at \in BuildAt
  BY DEF BuildProject, BuildWorkspace, At, BuildAt
<1>2. ASSUME NEW op \in {"project", "workspace"}, NEW jobs \in Seq(Job), jobs # <<>>,
             NEW after \in {"queue", "ws_end"}, StartBuild(op, jobs, after)
      PROVE  /\ \E f, g \in Frames : /\ f.at = "bsm" /\ g.at \in {"queue", "ws_end"}
                                     /\ ToTwo(f, g)
             /\ build' \in Builds /\ build'.job # "idle" /\ build'.target \in Job
             /\ build'.state = "none" /\ build'.next = "ProjectPreBuild"
             /\ m_BuildJobTargetsList' \in Seq(Job) /\ m_CommandQueue' = <<>>
             /\ m_Clean' = Head(stack).clean /\ m_Build' = Head(stack).build
             /\ owed' = TRUE /\ failed' = FALSE
  BY <1>1, <1>2, Started
<1>3. ASSUME NEW b \in BOOLEAN, NEW found \in {ProjectJobs, WorkspaceJobs, <<>>}
      PROVE  PreprocessJob(b, found) \in Seq(Job)
  BY JobsAre
<1>4. CASE BuildProject
  <2>1. PICK found \in {ProjectJobs, <<>>} :
          LET jobs == PreprocessJob(m_IsWorkspaceOperation, found)
          IN  IF jobs = <<>> THEN NothingToBuild ELSE StartBuild("project", jobs, "queue")
    BY <1>4 DEF BuildProject
  <2>2. PreprocessJob(m_IsWorkspaceOperation, found) \in Seq(Job)
    BY <1>3 DEF FlagsType
  <2> QED
    BY <1>2, <2>1, <2>2
<1>5. CASE BuildWorkspace
  <2>1. PICK found \in {WorkspaceJobs, <<>>} :
          LET jobs == PreprocessJob(TRUE, found)
          IN  IF jobs = <<>> THEN NothingToBuild ELSE StartBuild("workspace", jobs, "ws_end")
    BY <1>5 DEF BuildWorkspace
  <2>2. PreprocessJob(TRUE, found) \in Seq(Job)
    BY <1>3
  <2> QED
    BY <1>2, <2>1, <2>2
<1> QED
  BY <1>4, <1>5

LEMMA QueueStep ==
  ASSUME Types, [Next]_vars
  PROVE  QueueType'
<1> USE DEF Types
<1>1. CASE m_CommandQueue' = m_CommandQueue \/ m_CommandQueue' = <<>>
  <2>1. <<>> \in Seq(Cmd)
    OBVIOUS
  <2> QED
    BY <1>1, <2>1 DEF QueueType
<1>2. CASE AddToCommandQueue \/ CompileFile
  <2>1. \A l \in Seq(Kind) : Commands(l) \in Seq(Cmd)
    BY CommandsAre
  <2>2. AddToCommandQueue => Head(stack).cmds \in Seq(Kind)
    BY StackIs, FramesAre, KindsAre DEF AddToCommandQueue, At
  <2>3. <<"cc">> \in Seq(Kind) /\ <<"cc", "link">> \in Seq(Kind)
    BY KindsAre
  <2>4. \/ m_CommandQueue' = m_CommandQueue
        \/ \E l \in Seq(Kind) : m_CommandQueue' = m_CommandQueue \o Commands(l)
    BY <1>2, <2>2, <2>3 DEF AddToCommandQueue, CompileFile
  <2>5. ASSUME NEW l \in Seq(Kind), m_CommandQueue' = m_CommandQueue \o Commands(l)
        PROVE  QueueType'
    <3>1. m_CommandQueue \in Seq(Cmd) /\ Commands(l) \in Seq(Cmd)
      BY <2>1 DEF QueueType
    <3>2. m_CommandQueue \o Commands(l) \in Seq(Cmd)
      BY <3>1
    <3> QED
      BY <2>5, <3>2 DEF QueueType
  <2> QED
    BY <1>1, <2>4, <2>5
<1>3. CASE DoRunQueue \/ RunNextCommand
  BY <1>3, LaunchesType
<1>4. CASE Run
  <2>1. Command("run", NoJob) \in Cmd
    BY CommandType, KindsAre DEF Targets
  <2>2. \/ m_CommandQueue' = m_CommandQueue
        \/ m_CommandQueue' = Append(m_CommandQueue, Command("run", NoJob))
    BY <1>4 DEF Run
  <2>3. m_CommandQueue \in Seq(Cmd)
    BY DEF QueueType
  <2>4. Append(m_CommandQueue, Command("run", NoJob)) \in Seq(Cmd)
    BY <2>1, <2>3
  <2> QED
    BY <1>1, <2>2, <2>4 DEF QueueType
<1>5. CASE BuildProject \/ BuildWorkspace
  BY <1>1, <1>5, JobsStep DEF NothingToBuild
<1>6. CASE GenerateCommands \/ JobEnd \/ KillProcess
  BY <1>1, <1>6 DEF GenerateCommands, JobEnd, KillProcess, ResetBuildState
<1>7. CASE \/ BuildStateManagement \/ GetNextStateBasedOnJob \/ OnJobEnd \/ JobLoop \/ JobAfter
           \/ DoBuild \/ DoWorkspaceBuild \/ Rebuild \/ RebuildWorkspace \/ WorkspaceStarted
           \/ PrepareQueue \/ ProcessPendingEvents \/ (\E i \in Slot : Terminate(i))
           \/ (\E c \in Menu : UserCommand(c)) \/ UNCHANGED vars
  BY <1>7 DEF BuildStateManagement, GetNextStateBasedOnJob, OnJobEnd, JobLoop, JobAfter, DoBuild,
              DoWorkspaceBuild, Rebuild, RebuildWorkspace, WorkspaceStarted, PrepareQueue,
              ProcessPendingEvents, Terminate, UserCommand, vars, QueueType
<1> QED
  BY <1>2, <1>3, <1>4, <1>5, <1>6, <1>7 DEF Next, Engine

LEMMA EventsAre ==
  /\ \A e \in Events : e.slot \in Slot /\ e.code \in {0, 1} /\ e.kind \in Kind
  /\ \A i \in Slot, x \in {0, 1}, k \in Kind : [slot |-> i, code |-> x, kind |-> k] \in Events
  BY DEF Events

LEMMA SlotsStep ==
  ASSUME Types, [Next]_vars
  PROVE  SlotsType'
<1> USE DEF Types
<1>1. CASE UNCHANGED processVars
  BY <1>1 DEF processVars, SlotsType
<1>2. CASE DoRunQueue \/ RunNextCommand
  BY <1>2, LaunchesType
<1>3. ASSUME NEW i \in Slot, Terminate(i)
      PROVE  SlotsType'
  <2>1. PICK c \in child[i], code \in {0, 1} :
          /\ child' = [child EXCEPT ![i] = @ \ {c}]
          /\ ended' = Append(ended, [slot |-> i, code |-> code, kind |-> c.kind])
    BY <1>3 DEF Terminate
  <2>2. c \in Cmd
    BY <2>1 DEF SlotsType
  <2>3. [slot |-> i, code |-> code, kind |-> c.kind] \in Events
    BY <2>2, CommandType, EventsAre
  <2>4. ended' \in Seq(Events)
    BY <2>1, <2>3 DEF SlotsType
  <2>5. child' \in [Slot -> SUBSET Cmd]
    BY <2>1 DEF SlotsType
  <2>6. m_Processes' \in [Slot -> BOOLEAN] /\ m_Pid' \in [Slot -> BOOLEAN]
    BY <1>3 DEF Terminate, SlotsType
  <2> QED
    BY <2>4, <2>5, <2>6 DEF SlotsType
<1>4. CASE OnJobEnd
  <2>1. ended # <<>> /\ ended' = Tail(ended) /\ UNCHANGED child
    BY <1>4 DEF OnJobEnd
  <2>2. ended' \in Seq(Events)
    BY <2>1 DEF SlotsType
  <2>3. m_Processes' \in [Slot -> BOOLEAN] /\ m_Pid' \in [Slot -> BOOLEAN]
    BY <1>4 DEF OnJobEnd, SlotsType
  <2> QED
    BY <2>1, <2>2, <2>3 DEF SlotsType
<1>5. CASE \/ BuildStateManagement \/ GenerateCommands \/ GetNextStateBasedOnJob
           \/ AddToCommandQueue \/ JobLoop \/ JobEnd \/ JobAfter
           \/ DoBuild \/ DoWorkspaceBuild \/ Rebuild \/ RebuildWorkspace \/ WorkspaceStarted
           \/ BuildProject \/ BuildWorkspace
           \/ PrepareQueue \/ Run \/ CompileFile \/ ProcessPendingEvents \/ KillProcess
           \/ (\E c \in Menu : UserCommand(c)) \/ UNCHANGED vars
  BY <1>1, <1>5 DEF BuildStateManagement, GenerateCommands, GetNextStateBasedOnJob,
              AddToCommandQueue, JobLoop, JobEnd, JobAfter, DoBuild,
              DoWorkspaceBuild, Rebuild, RebuildWorkspace, WorkspaceStarted, BuildProject,
              BuildWorkspace, PrepareQueue, Run, CompileFile,
              ProcessPendingEvents, KillProcess, UserCommand, vars
<1> QED
  BY <1>2, <1>3, <1>4, <1>5 DEF Next, Engine

LEMMA BuildStep ==
  ASSUME Types, [Next]_vars
  PROVE  BuildType'
<1> USE DEF Types
<1>1. CASE build' \in Builds /\ m_BuildJobTargetsList' \in Seq(Job)
  BY <1>1 DEF BuildType
<1>2. build \in Builds /\ m_BuildJobTargetsList \in Seq(Job) /\ Idle \in Builds
      /\ <<>> \in Seq(Job)
  BY IdleIs DEF BuildType
<1>3. ASSUME m_BuildJobTargetsList # <<>>
      PROVE  /\ PeekNextJob \in Targets /\ PeekNextJob \in Job
             /\ Tail(m_BuildJobTargetsList) \in Seq(Job)
  BY <1>2, <1>3 DEF PeekNextJob, Targets
<1>4. CASE DoRunQueue \/ RunNextCommand
  BY <1>4, LaunchesType
<1>5. CASE GenerateCommands
  <2>1. build' = Idle \/ build' = [build EXCEPT !.state = build.next]
    BY <1>5 DEF GenerateCommands, ResetBuildState
  <2> QED
    BY <1>1, <1>2, <1>5, <2>1, BuildIs, BuildTurns DEF GenerateCommands
<1>6. CASE GetNextStateBasedOnJob
  <2>1. "ProjectPreBuild" \in BuildState
    BY DEF BuildState
  <2>2. \/ UNCHANGED <<build, m_BuildJobTargetsList>>
        \/ /\ m_BuildJobTargetsList # <<>> /\ GetNextJob
           /\ \/ build' = [build EXCEPT !.target = PeekNextJob]
              \/ build' = [build EXCEPT !.next = "ProjectPreBuild", !.target = PeekNextJob]
    BY <1>6, NextStack
  <2> QED
    BY <1>1, <1>2, <1>3, <2>1, <2>2, BuildTurns DEF GetNextJob
<1>7. CASE AddToCommandQueue
  <2>1. Head(stack).next \in BuildState
    BY <1>7, StackIs, FramesAre DEF AddToCommandQueue, At
  <2> QED
    BY <1>1, <1>2, <1>7, <2>1, BuildTurns, BuildIs DEF AddToCommandQueue
<1>8. CASE JobEnd \/ KillProcess
  BY <1>1, <1>2, <1>8 DEF JobEnd, KillProcess, ResetBuildState
<1>9. CASE BuildProject \/ BuildWorkspace
  <2>1. NothingToBuild => build' \in Builds /\ m_BuildJobTargetsList' \in Seq(Job)
    <3>1. "none" \in BuildState /\ NoJob \in Targets
      BY DEF BuildState, Targets
    <3>2. [build EXCEPT !.job = "idle"] \in Builds
      BY <3>1, BuildTurns
    <3> QED
      BY <1>2, <3>2 DEF NothingToBuild
  <2> QED
    BY <1>1, <1>9, <2>1, JobsStep
<1>10. CASE \/ BuildStateManagement \/ OnJobEnd \/ JobLoop \/ JobAfter
           \/ DoBuild \/ DoWorkspaceBuild \/ Rebuild \/ RebuildWorkspace \/ WorkspaceStarted
           \/ PrepareQueue \/ Run \/ CompileFile
           \/ ProcessPendingEvents \/ (\E i \in Slot : Terminate(i))
           \/ (\E c \in Menu : UserCommand(c)) \/ UNCHANGED vars
  BY <1>10 DEF BuildStateManagement, OnJobEnd, JobLoop, JobAfter, DoBuild,
              DoWorkspaceBuild, Rebuild, RebuildWorkspace, WorkspaceStarted, PrepareQueue, Run,
              CompileFile, ProcessPendingEvents, Terminate, UserCommand, vars, BuildType
<1> QED
  BY <1>4, <1>5, <1>6, <1>7, <1>8, <1>9, <1>10 DEF Next, Engine

LEMMA CountsStep ==
  ASSUME Types, [Next]_vars
  PROVE  CountsType'
<1> USE DEF Types
<1>1. CASE UNCHANGED <<hindrance, m_LastExitCode, sessions>>
  BY <1>1 DEF CountsType
<1>2. CASE OnJobEnd
  <2>1. Head(ended) \in Events
    BY <1>2 DEF OnJobEnd, SlotsType
  <2>2. m_LastExitCode' \in {0, 1}
    BY <1>2, <2>1, EventsAre DEF OnJobEnd
  <2> QED
    BY <1>2, <2>2 DEF OnJobEnd, CountsType
<1>3. CASE JobEnd
  BY <1>3 DEF JobEnd, CountsType
<1>4. CASE DoBuild \/ DoWorkspaceBuild
  <2>1. hindrance' \in {hindrance, "none"} /\ UNCHANGED <<m_LastExitCode, sessions>>
    BY <1>4 DEF DoBuild, DoWorkspaceBuild, histVars
  <2> QED
    BY <2>1 DEF CountsType
<1>5. ASSUME sessions < MaxSessions, sessions' = sessions + 1
      PROVE  sessions' \in 0..MaxSessions
  BY <1>5, BuildAssumption DEF CountsType
<1>6. CASE Run
  <2>1. UNCHANGED <<hindrance, m_LastExitCode>>
        /\ (sessions' = sessions \/ (sessions < MaxSessions /\ sessions' = sessions + 1))
    BY <1>6 DEF Run
  <2> QED
    BY <1>5, <2>1 DEF CountsType
<1>7. CASE \E c \in Menu : UserCommand(c)
  <2>1. /\ hindrance' \in Hindrance \cup {"none"} /\ m_LastExitCode' = m_LastExitCode
        /\ sessions < MaxSessions /\ sessions' = sessions + 1
    BY <1>7 DEF UserCommand
  <2> QED
    BY <1>5, <2>1 DEF CountsType
<1>8. CASE \/ BuildStateManagement \/ GenerateCommands \/ GetNextStateBasedOnJob
           \/ AddToCommandQueue \/ DoRunQueue \/ RunNextCommand \/ JobLoop \/ JobAfter
           \/ BuildProject \/ BuildWorkspace
           \/ Rebuild \/ RebuildWorkspace \/ WorkspaceStarted
           \/ PrepareQueue \/ CompileFile
           \/ ProcessPendingEvents \/ KillProcess \/ (\E i \in Slot : Terminate(i))
           \/ UNCHANGED vars
  BY <1>1, <1>8 DEF BuildStateManagement, GenerateCommands, GetNextStateBasedOnJob,
       AddToCommandQueue, DoRunQueue, RunNextCommand, JobLoop, JobAfter,
       BuildProject, BuildWorkspace,
       Rebuild, RebuildWorkspace, WorkspaceStarted, PrepareQueue, CompileFile,
       ProcessPendingEvents, KillProcess, Terminate, vars, histVars
<1> QED
  BY <1>2, <1>3, <1>4, <1>6, <1>7, <1>8 DEF Next, Engine

LEMMA FlagsStep ==
  ASSUME Types, [Next]_vars
  PROVE  FlagsType'
<1> USE DEF Types
<1> DEFINE Modes == UNCHANGED <<m_IsWorkspaceOperation, m_LastBuildStep, m_RunAfterCompile,
                                m_LastWasRun, errors, owed, failed, aborted>>
           States == UNCHANGED stateVars
<1>1. CASE \/ BuildStateManagement \/ GenerateCommands
           \/ AddToCommandQueue \/ JobLoop \/ CompileFile
           \/ ProcessPendingEvents \/ (\E i \in Slot : Terminate(i)) \/ UNCHANGED vars
  <2>1. States /\ Modes
    BY <1>1 DEF BuildStateManagement, GenerateCommands, AddToCommandQueue, JobLoop, CompileFile,
                ProcessPendingEvents, Terminate, vars, modeVars, histVars
  <2> QED
    BY <2>1 DEF FlagsType, stateVars
<1>2. CASE GetNextStateBasedOnJob
  <2>1. /\ Modes /\ UNCHANGED <<m_Clean, m_Build>>
        /\ PostBuildFlags(Head(stack).entered, Head(stack).cmds # <<>>)
    BY <1>2 DEF GetNextStateBasedOnJob, modeVars, histVars
  <2>2. m_RunTargetPostBuild' \in BOOLEAN /\ m_RunProjectPostBuild' \in BOOLEAN
    BY <2>1 DEF PostBuildFlags, FlagsType
  <2> QED
    BY <2>1, <2>2 DEF FlagsType
<1>3. CASE DoRunQueue \/ RunNextCommand
  <2>1. m_LastWasRun' \in BOOLEAN /\ failed' \in BOOLEAN
    BY <1>3 DEF DoRunQueue, RunNextCommand, Launch, TakeCommand, FlagsType
  <2>2. m_RunAfterCompile' \in BOOLEAN /\ owed' \in BOOLEAN
    BY <1>3 DEF DoRunQueue, RunNextCommand, Launch, NotifyJobDone, FlagsType
  <2>3. States /\ UNCHANGED <<m_IsWorkspaceOperation, m_LastBuildStep, errors, aborted>>
    BY <1>3 DEF DoRunQueue, RunNextCommand, Launch, modeVars
  <2> QED
    BY <2>1, <2>2, <2>3 DEF FlagsType, stateVars
<1>4. CASE OnJobEnd
  <2>1. failed' \in BOOLEAN
    BY <1>4 DEF OnJobEnd, FlagsType
  <2>2. errors' \in BOOLEAN
    BY <1>4 DEF OnJobEnd, AddOutputLine, FlagsType
  <2>3. States /\ UNCHANGED <<m_IsWorkspaceOperation, m_LastBuildStep, m_RunAfterCompile,
                              m_LastWasRun, owed, aborted>>
    BY <1>4 DEF OnJobEnd, modeVars
  <2> QED
    BY <2>1, <2>2, <2>3 DEF FlagsType, stateVars
<1>5. CASE JobEnd \/ JobAfter \/ KillProcess
  <2>1. m_RunAfterCompile' \in BOOLEAN /\ owed' \in BOOLEAN /\ aborted' \in BOOLEAN
    BY <1>5 DEF JobEnd, JobAfter, KillProcess, NotifyJobDone, FlagsType, histVars
  <2>2. States /\ UNCHANGED <<m_IsWorkspaceOperation, m_LastBuildStep, m_LastWasRun, errors, failed>>
    BY <1>5 DEF JobEnd, JobAfter, KillProcess, modeVars, histVars
  <2> QED
    BY <2>1, <2>2 DEF FlagsType, stateVars
<1>6. CASE DoBuild \/ DoWorkspaceBuild \/ PrepareQueue
  <2>1. States /\ UNCHANGED <<m_IsWorkspaceOperation, m_LastBuildStep, m_RunAfterCompile,
                              m_LastWasRun, owed, failed, aborted>>
    BY <1>6 DEF DoBuild, DoWorkspaceBuild, PrepareQueue, modeVars, histVars
  <2>2. errors' \in BOOLEAN
    BY <1>6 DEF DoBuild, DoWorkspaceBuild, PrepareQueue, FlagsType
  <2> QED
    BY <2>1, <2>2 DEF FlagsType, stateVars
<1>7. CASE BuildProject \/ BuildWorkspace
  <2>1. /\ UNCHANGED <<m_RunTargetPostBuild, m_RunProjectPostBuild, m_LastBuildStep,
                       m_RunAfterCompile, m_LastWasRun, errors, aborted>>
        /\ m_IsWorkspaceOperation' \in BOOLEAN
    BY <1>7 DEF BuildProject, BuildWorkspace, modeVars, FlagsType
  <2>2. CASE NothingToBuild
    <3>1. UNCHANGED <<m_Clean, m_Build, failed>> /\ owed' \in BOOLEAN
      BY <2>2 DEF NothingToBuild, NotifyJobDone, FlagsType
    <3> QED
      BY <2>1, <3>1 DEF FlagsType
  <2>3. CASE /\ m_Clean' = Head(stack).clean /\ m_Build' = Head(stack).build
             /\ owed' = TRUE /\ failed' = FALSE
    <3>1. Head(stack).at \in BuildAt /\ stack # <<>>
      BY <1>7 DEF BuildProject, BuildWorkspace, At, BuildAt
    <3>2. m_Clean' \in BOOLEAN /\ m_Build' \in BOOLEAN
      BY <2>3, <3>1, StackIs, FramesAre
    <3> QED
      BY <2>1, <2>3, <3>2 DEF FlagsType
  <2> QED
    BY <1>7, <2>2, <2>3, JobsStep
<1>8. CASE Rebuild \/ RebuildWorkspace \/ WorkspaceStarted
  <2>1. States /\ m_IsWorkspaceOperation' \in BOOLEAN /\ m_LastBuildStep' \in BOOLEAN
        /\ UNCHANGED <<m_RunAfterCompile, m_LastWasRun, errors, owed, failed, aborted>>
    BY <1>8 DEF Rebuild, RebuildWorkspace, WorkspaceStarted, FlagsType, histVars
  <2> QED
    BY <2>1 DEF FlagsType, stateVars
<1>9. CASE Run
  <2>1. States /\ UNCHANGED <<m_IsWorkspaceOperation, m_LastWasRun, errors, owed>>
    BY <1>9 DEF Run
  <2>2. m_RunAfterCompile' \in BOOLEAN /\ m_LastBuildStep' \in BOOLEAN
        /\ failed' \in BOOLEAN /\ aborted' \in BOOLEAN
    BY <1>9 DEF Run, FlagsType
  <2> QED
    BY <2>1, <2>2 DEF FlagsType, stateVars
<1>10. CASE \E c \in Menu : UserCommand(c)
  <2>1. States /\ UNCHANGED <<m_IsWorkspaceOperation, m_LastWasRun, errors, owed>>
        /\ failed' \in BOOLEAN /\ aborted' \in BOOLEAN
    BY <1>10 DEF UserCommand
  <2>2. m_RunAfterCompile' \in BOOLEAN /\ m_LastBuildStep' \in BOOLEAN
    BY <1>10 DEF UserCommand, Call, FlagsType
  <2> QED
    BY <2>1, <2>2 DEF FlagsType, stateVars
<1> QED
  BY <1>1, <1>2, <1>3, <1>4, <1>5, <1>6, <1>7, <1>8, <1>9, <1>10 DEF Next, Engine

LEMMA TypesAlways == Spec => []Types
<1>1. Types /\ [Next]_vars => Types'
  BY StackStep, QueueStep, SlotsStep, BuildStep, FlagsStep, CountsStep DEF Types
<1> QED
  BY <1>1, InitTypes, PTL DEF Spec

(* Every variable keeps its type, whatever the menu, the lists of commands  *)
(* and the moment of the user's commands: no slot is used that does not     *)
(* exist, and no command, job or state is made up.                          *)
THEOREM TypeCorrect == Spec => []TypeOK
  BY TypesAlways, TypesAre, PTL

-----------------------------------------------------------------------------
(* What the proofs assume.                                                  *)

(* After a step or a linker no command can run beside it, and the last      *)
(* command waits.                                                           *)
Ordered(l) ==
  /\ \A k, m \in DOMAIN l : k < m /\ l[k] \in {"step", "link"} =>
       l[m] \in {"log", "step", "link", "cc after"}
  /\ l # <<>> => l[Len(l)] \in {"step", "link", "cc after"}

Orderly ==
  /\ ~Impatient
  /\ Menu \cap {"run", "build and run"} = {}
  /\ \A l \in CompileLists : Ordered(l)

-----------------------------------------------------------------------------
(* The inductive invariant.                                                 *)

Drained ==
  /\ ended = <<>>
  /\ \A i \in Slot : child[i] = {} /\ ~m_Processes[i] /\ ~m_Pid[i]
NoBuild == build.target = NoJob /\ m_CommandQueue = <<>>

(* A slot has a process, the end of one, or neither.                        *)
Slots ==
  /\ \A i \in Slot : m_Processes[i] => m_Pid[i] /\ child[i] # {}
  /\ \A i \in Slot : ~m_Processes[i] => child[i] = {}
  /\ \A i \in Slot : \A c, d \in child[i] : c = d
  /\ \A k \in DOMAIN ended : m_Pid[ended[k].slot] /\ ~m_Processes[ended[k].slot]
  /\ \A k, m \in DOMAIN ended : ended[k].slot = ended[m].slot => k = m
  /\ \A i \in Slot : m_Pid[i] /\ ~m_Processes[i] => \E k \in DOMAIN ended : ended[k].slot = i

(* A target whose commands are all started has one process left at most, or *)
(* the end of one: its last command has waited for the others.              *)
OneLeft ==
  m_CommandQueue = <<>> /\ build.target # NoJob =>
    /\ \A i, j \in Slot : m_Processes[i] /\ m_Processes[j] => i = j
    /\ stack = <<>> => \A i, j \in Slot : m_Pid[i] /\ m_Pid[j] => i = j
    /\ ~IsProcessRunning => Len(ended) <= 1

(* The commands of the queue are those of one target, as Ordered has them,  *)
(* and the processes are older commands of the same target.                 *)
MayFollow(c, d) == Alone(c) => Waits(d) \/ d.kind = "log"
Queued ==
  /\ m_CommandQueue # <<>> =>
       /\ m_CommandQueue[Len(m_CommandQueue)].kind # "log"
       /\ Waits(m_CommandQueue[Len(m_CommandQueue)]) \/ build.target = NoJob
  /\ \A k, m \in DOMAIN m_CommandQueue :
       /\ m_CommandQueue[k].job = m_CommandQueue[m].job
       /\ k < m => MayFollow(m_CommandQueue[k], m_CommandQueue[m])
  /\ \A i \in Slot : \A c \in child[i] : \A k \in DOMAIN m_CommandQueue :
       c.job = m_CommandQueue[k].job /\ MayFollow(c, m_CommandQueue[k])

Beside ==
  \A i, j \in Slot : \A c \in child[i], d \in child[j] :
    c.job = d.job /\ (Alone(c) => i = j /\ c = d)

(* The first half of a rebuild only cleans, and runs no process.            *)
CleanStates == {"none", "ProjectPreBuild", "TargetClean", "TargetDone", "ProjectDone"}
CleanFrame(f) ==
  /\ f.at \in {"build", "build_jobs", "ws", "ws_jobs"} => f.clean /\ ~f.build
  /\ f.at \notin {"file", "file_cmd", "job_loop"}
  /\ f.at \in {"bsm_next", "bsm_add"} => f.cmds = <<>>
  /\ f.at = "bsm_add" => f.next \in CleanStates
Gentle(s) == \A k \in DOMAIN s : CleanFrame(s[k])
CleanWalk == m_Clean /\ ~m_Build /\ build.state \in CleanStates /\ build.next \in CleanStates
Idling == Drained /\ m_CommandQueue = <<>> /\ hindrance # "no project"

(* Of the frames s with another one on them: a walk waits only while no     *)
(* process runs, or when it has nothing left to do.                         *)
Rests(s) ==
  /\ Nested(s)
  /\ ~Has(s, {"run", "run_cmd", "job_after"})
  /\ Has(s, Walks \cup Pauses) => Drained \/ NoBuild
  /\ Has(s, {"bsm_next", "bsm_add"}) => Drained /\ ~failed
  /\ Twice(s) => NoBuild /\ ~Has(s, {"bsm_next", "bsm_add"})
  /\ Has(s, {"bsm", "bsm_state", "bsm_next"}) => m_CommandQueue = <<>>
  /\ Silent(s, {"bsm_add"})
  /\ build.state = "ProjectDone" => Silent(s, {"bsm_next"})
  /\ Has(s, {"bsm_next"}) => build.target # NoJob \/ build.state = "none"
  /\ Has(s, Calls) => Drained /\ NoBuild
  /\ Has(s, Calls \cup Halves) => ~failed
  /\ Has(s, Halves) => Idling /\ Gentle(s) /\ (Has(s, Walks) => CleanWalk)
  /\ s # <<>> /\ ~Rooted(s) => Drained

(* Of the first frame f, on the frames s.                                   *)
Runs(f, s) ==
  /\ Fits(f, s)
  /\ f.at \notin {"run", "run_cmd", "job_after"}
  /\ f.at \in (Walks \ {"queue"}) \cup Pauses => Drained \/ NoBuild
  /\ f.at \in {"bsm_next", "bsm_add"} => Drained /\ ~failed /\ ~Twice(s)
  /\ f.at \in Homes /\ Has(s, Homes) => NoBuild /\ ~Has(s, {"bsm_next", "bsm_add"})
  /\ f.at \in {"bsm", "bsm_state", "bsm_next"} => m_CommandQueue = <<>>
  /\ f.at = "bsm_add" => m_CommandQueue = <<>> \/ f.cmds = <<>>
  /\ f.at = "bsm_next" => /\ build.state = "ProjectDone" => f.cmds = <<>>
                          /\ build.target # NoJob \/ build.state = "none"
  /\ f.at = "queue" /\ m_CommandQueue = <<>> => IsProcessRunning \/ Drained \/ NoBuild
  /\ f.at \in Calls => Drained /\ NoBuild
  /\ f.at \in Calls \cup Halves => ~failed
  /\ f.at \in Halves \/ Has(s, Halves) =>
       /\ Idling /\ CleanFrame(f)
       /\ IF f.at \in Walks \/ Has(s, Walks) THEN CleanWalk ELSE build.target = NoJob
  /\ f.at # "pending" /\ ~Rooted(s) =>
       ended = <<>> /\ (Drained \/ (f.at = "queue" /\ s = <<>>))
  /\ failed => f.at = "job_end" \/ NoBuild

Stacked == IF stack = <<>> THEN failed => NoBuild
           ELSE Runs(Head(stack), Tail(stack)) /\ Rests(Tail(stack))

Machine ==
  /\ Slots /\ Beside /\ Queued /\ OneLeft /\ Stacked
  /\ ~m_RunAfterCompile
  /\ build.job = "idle" => build.target = NoJob

-----------------------------------------------------------------------------
(* A stack and its first frame.                                             *)

(* What is said of a stack p, in terms of its first frame f and the rest s. *)
Top(p, f, s) ==
  /\ p # <<>> /\ Head(p) = f /\ Tail(p) = s /\ p[1] = f
  /\ \A S : Has(p, S) <=> f.at \in S \/ Has(s, S)
  /\ Twice(p) <=> (f.at \in Homes /\ Has(s, Homes)) \/ Twice(s)
  /\ Rooted(p) <=> IF s = <<>> THEN f.at = "pending" ELSE Rooted(s)
  /\ \A S : Silent(p, S) <=> (f.at \in S => f.cmds = <<>>) /\ Silent(s, S)
  /\ Nested(p) <=> Fits(f, s) /\ Nested(s)
  /\ Gentle(p) <=> CleanFrame(f) /\ Gentle(s)

LEMMA TopPush ==
  ASSUME NEW f \in Frames, NEW s \in Seq(Frames)
  PROVE  Top(Push(f, s), f, s) /\ Push(f, s) \in Seq(Frames)
<1>1. /\ Push(f, s) \in Seq(Frames) /\ Push(f, s) # <<>>
      /\ Head(Push(f, s)) = f /\ Tail(Push(f, s)) = s /\ Push(f, s)[1] = f
      /\ 1 \in DOMAIN Push(f, s)
  BY PushIs
<1>2. \A k \in DOMAIN s : k + 1 \in DOMAIN Push(f, s) /\ Push(f, s)[k + 1] = s[k]
  BY PushIs
<1>3. \A k \in DOMAIN Push(f, s) \ {1} : \E m \in DOMAIN s : k = m + 1
  BY PushIs
<1>4. Gentle(Push(f, s)) <=> CleanFrame(f) /\ Gentle(s)
  BY <1>1, <1>2, <1>3 DEF Gentle
<1>5. ASSUME NEW S
      PROVE  /\ Has(Push(f, s), S) <=> f.at \in S \/ Has(s, S)
             /\ Silent(Push(f, s), S) <=> (f.at \in S => f.cmds = <<>>) /\ Silent(s, S)
  BY HasPush, SilentPush
<1>6. /\ Twice(Push(f, s)) <=> (f.at \in Homes /\ Has(s, Homes)) \/ Twice(s)
      /\ Rooted(Push(f, s)) <=> IF s = <<>> THEN f.at = "pending" ELSE Rooted(s)
      /\ Nested(Push(f, s)) <=> Fits(f, s) /\ Nested(s)
  BY TwicePush, RootedPush, NestedPush
<1> QED
  BY <1>1, <1>4, <1>5, <1>6 DEF Top

LEMMA TopNothing ==
  /\ \A S : ~Has(<<>>, S) /\ Silent(<<>>, S)
  /\ ~Twice(<<>>) /\ ~Rooted(<<>>) /\ Nested(<<>>)
<1>1. \A S : ~Has(<<>>, S) /\ Silent(<<>>, S)
  BY HasNothing
<1> QED
  BY <1>1, HasNothing

LEMMA StackTop ==
  ASSUME StackType, stack # <<>>
  PROVE  \E h \in Frames, t \in Seq(Frames) :
           stack = Push(h, t) /\ h = Head(stack) /\ t = Tail(stack)
  BY StackIs

(* A frame that is called from, and one that is returned to.                *)
LEMMA Bury ==
  \A f \in Frames, s \in Seq(Frames) :
    /\ Runs(f, s) /\ Rests(s)
    /\ f.at = "queue" => Drained \/ NoBuild
    /\ f.at = "bsm_add" => f.cmds = <<>>
    /\ f.at = "pending" \/ Rooted(s) \/ Drained
    => Rests(Push(f, s))
<1> SUFFICES ASSUME NEW f \in Frames, NEW s \in Seq(Frames), Runs(f, s), Rests(s),
                    f.at = "queue" => Drained \/ NoBuild,
                    f.at = "bsm_add" => f.cmds = <<>>,
                    f.at = "pending" \/ Rooted(s) \/ Drained
             PROVE  Rests(Push(f, s))
  OBVIOUS
<1> DEFINE p == Push(f, s)
<1>1. Top(p, f, s)
  BY TopPush
<1> HIDE DEF p
<1>2. Nested(p) /\ ~Has(p, {"run", "run_cmd", "job_after"}) /\ Silent(p, {"bsm_add"})
  BY <1>1 DEF Runs, Rests, Top
<1>3. Has(p, Walks \cup Pauses) => Drained \/ NoBuild
  BY <1>1 DEF Runs, Rests, Top, Walks
<1>4. Has(p, {"bsm_next", "bsm_add"}) => Drained /\ ~failed
  BY <1>1 DEF Runs, Rests, Top
<1>5. Twice(p) => NoBuild /\ ~Has(p, {"bsm_next", "bsm_add"})
  BY <1>1 DEF Runs, Rests, Top, Homes
<1>6. Has(p, {"bsm", "bsm_state", "bsm_next"}) => m_CommandQueue = <<>>
  BY <1>1 DEF Runs, Rests, Top
<1>7. /\ build.state = "ProjectDone" => Silent(p, {"bsm_next"})
      /\ Has(p, {"bsm_next"}) => build.target # NoJob \/ build.state = "none"
  BY <1>1 DEF Runs, Rests, Top
<1>8. /\ Has(p, Calls) => Drained /\ NoBuild
      /\ Has(p, Calls \cup Halves) => ~failed
  BY <1>1 DEF Runs, Rests, Top
<1>9. Has(p, Halves) => Idling /\ Gentle(p) /\ (Has(p, Walks) => CleanWalk)
  <2>1. Gentle(s) \/ ~Has(s, Halves)
    BY DEF Rests
  <2>2. f.at \in Halves => s = <<>>
    BY DEF Runs, Fits
  <2>3. Gentle(<<>>)
    BY DEF Gentle
  <2> QED
    BY <1>1, <2>1, <2>2, <2>3 DEF Runs, Top
<1>10. p # <<>> /\ ~Rooted(p) => Drained
  <2>1. s # <<>> => f.at # "pending"
    BY DEF Runs, Fits
  <2> QED
    BY <1>1, <2>1, TopNothing DEF Rests, Top
<1> QED
  BY <1>2, <1>3, <1>4, <1>5, <1>6, <1>7, <1>8, <1>9, <1>10 DEF Rests, p

LEMMA Unbury ==
  \A f \in Frames, s \in Seq(Frames) :
    /\ Rests(Push(f, s))
    /\ failed => NoBuild
    /\ Has(Push(f, s), Walks) \/ ~Has(Push(f, s), Halves) \/ build.target = NoJob
    => Runs(f, s) /\ Rests(s)
<1> SUFFICES ASSUME NEW f \in Frames, NEW s \in Seq(Frames), Rests(Push(f, s)),
                    failed => NoBuild,
                    Has(Push(f, s), Walks) \/ ~Has(Push(f, s), Halves) \/ build.target = NoJob
             PROVE  Runs(f, s) /\ Rests(s)
  OBVIOUS
<1> DEFINE p == Push(f, s)
<1>1. Top(p, f, s)
  BY TopPush
<1>0. Rests(p) /\ (Has(p, Walks) \/ ~Has(p, Halves) \/ build.target = NoJob)
  OBVIOUS
<1> HIDE DEF p
<1>2. Fits(f, s) /\ Nested(s)
  BY <1>0, <1>1 DEF Rests, Top
<1>3. Rests(s)
  <2>1. /\ ~Has(s, {"run", "run_cmd", "job_after"}) /\ Silent(s, {"bsm_add"})
        /\ Has(s, Walks \cup Pauses) => Drained \/ NoBuild
        /\ Has(s, {"bsm_next", "bsm_add"}) => Drained /\ ~failed
    BY <1>0, <1>1 DEF Rests, Top
  <2>2. Twice(s) => NoBuild /\ ~Has(s, {"bsm_next", "bsm_add"})
    BY <1>0, <1>1 DEF Rests, Top
  <2>3. /\ Has(s, {"bsm", "bsm_state", "bsm_next"}) => m_CommandQueue = <<>>
        /\ build.state = "ProjectDone" => Silent(s, {"bsm_next"})
        /\ Has(s, {"bsm_next"}) => build.target # NoJob \/ build.state = "none"
    BY <1>0, <1>1 DEF Rests, Top
  <2>4. /\ Has(s, Calls) => Drained /\ NoBuild
        /\ Has(s, Calls \cup Halves) => ~failed
        /\ Has(s, Halves) => Idling /\ Gentle(s) /\ (Has(s, Walks) => CleanWalk)
    BY <1>0, <1>1 DEF Rests, Top
  <2>5. s # <<>> /\ ~Rooted(s) => Drained
    BY <1>0, <1>1 DEF Rests, Top
  <2> QED
    BY <1>2, <2>1, <2>2, <2>3, <2>4, <2>5 DEF Rests
<1>4. Runs(f, s)
  <2>1. /\ f.at \notin {"run", "run_cmd", "job_after"}
        /\ f.at \in Walks \cup Pauses => Drained \/ NoBuild
        /\ f.at \in {"bsm_next", "bsm_add"} => Drained /\ ~failed /\ ~Twice(s)
    BY <1>0, <1>1 DEF Rests, Top
  <2>2. f.at \in Homes /\ Has(s, Homes) => NoBuild /\ ~Has(s, {"bsm_next", "bsm_add"})
    BY <1>0, <1>1 DEF Rests, Top
  <2>3. /\ f.at \in {"bsm", "bsm_state", "bsm_next"} => m_CommandQueue = <<>>
        /\ f.at = "bsm_add" => f.cmds = <<>>
        /\ f.at = "bsm_next" => /\ build.state = "ProjectDone" => f.cmds = <<>>
                                /\ build.target # NoJob \/ build.state = "none"
    BY <1>0, <1>1 DEF Rests, Top
  <2>4. /\ f.at \in Calls => Drained /\ NoBuild
        /\ f.at \in Calls \cup Halves => ~failed
    BY <1>0, <1>1 DEF Rests, Top
  <2>5. f.at \in Halves \/ Has(s, Halves) =>
          /\ Idling /\ CleanFrame(f)
          /\ IF f.at \in Walks \/ Has(s, Walks) THEN CleanWalk ELSE build.target = NoJob
    BY <1>0, <1>1 DEF Rests, Top
  <2>6. f.at # "pending" /\ ~Rooted(s) => Drained /\ ended = <<>>
    BY <1>0, <1>1 DEF Rests, Top, Drained
  <2>7. f.at = "queue" => Drained \/ NoBuild
    BY <2>1 DEF Walks, Homes
  <2> QED
    BY <1>2, <2>1, <2>2, <2>3, <2>4, <2>5, <2>6, <2>7 DEF Runs
<1> QED
  BY <1>3, <1>4

LEMMA BuryNext ==
  (\A f \in Frames, s \in Seq(Frames) :
    /\ Runs(f, s) /\ Rests(s)
    /\ f.at = "queue" => Drained \/ NoBuild
    /\ f.at = "bsm_add" => f.cmds = <<>>
    /\ f.at = "pending" \/ Rooted(s) \/ Drained
    => Rests(Push(f, s)))'
  BY Bury, PTL

LEMMA UnburyNext ==
  (\A f \in Frames, s \in Seq(Frames) :
    /\ Rests(Push(f, s))
    /\ failed => NoBuild
    /\ Has(Push(f, s), Walks) \/ ~Has(Push(f, s), Halves) \/ build.target = NoJob
    => Runs(f, s) /\ Rests(s))'
  BY Unbury, PTL

(* Only the stack moves, or the build is reset: what is said of processes   *)
(* and commands remains.                                                    *)
LEMMA ProcessesKeep ==
  ASSUME Slots, Beside, Queued, OneLeft, UNCHANGED processVars,
         \/ m_CommandQueue' = <<>> /\ (build'.target = NoJob \/ Drained)
         \/ UNCHANGED m_CommandQueue /\ build'.target = build.target,
         stack' = <<>> => stack = <<>> \/ ended = <<>>
  PROVE  Slots' /\ Beside' /\ Queued' /\ OneLeft'
<1>1. Slots' /\ Beside'
  BY DEF Slots, Beside, processVars
<1>2. Queued'
  <2>1. CASE UNCHANGED m_CommandQueue /\ build'.target = build.target
    BY <2>1 DEF Queued, processVars
  <2>2. CASE m_CommandQueue' = <<>>
    BY <2>2 DEF Queued
  <2> QED
    BY <2>1, <2>2
<1>3. OneLeft'
  <2>1. CASE build'.target = NoJob
    BY <2>1 DEF OneLeft
  <2>2. CASE Drained
    <3>1. Len(ended) = 0
      BY <2>2 DEF Drained
    <3> QED
      BY <2>2, <3>1 DEF Drained, OneLeft, processVars
  <2>3. CASE UNCHANGED m_CommandQueue /\ build'.target = build.target
    <3>1. ended = <<>> => \A i \in Slot : m_Pid[i] => m_Processes[i]
      BY DEF Slots
    <3> QED
      BY <2>3, <3>1 DEF OneLeft, IsProcessRunning, processVars
  <2> QED
    BY <2>1, <2>2, <2>3
<1> QED
  BY <1>1, <1>2, <1>3

LEMMA QuietDrained ==
  ASSUME Slots, ended = <<>>, ~IsProcessRunning
  PROVE  Drained
  BY DEF Slots, Drained, IsProcessRunning

-----------------------------------------------------------------------------
(* Steps that leave the processes alone, and the build too or reset it.     *)

Calm ==
  /\ UNCHANGED processVars
  /\ failed' => failed
  /\ hindrance' \in {hindrance, "none"}
  /\ UNCHANGED <<m_Clean, m_Build>>
  /\ \/ UNCHANGED <<m_CommandQueue, build>>
     \/ m_CommandQueue' = <<>> /\ build' = Idle

LEMMA CalmIs ==
  ASSUME Calm
  PROVE  /\ Drained' <=> Drained
         /\ NoBuild => NoBuild'
         /\ Idling => Idling'
         /\ CleanWalk => CleanWalk'
         /\ m_CommandQueue = <<>> => m_CommandQueue' = <<>>
         /\ build.target = NoJob => build'.target = NoJob
         /\ build'.state # build.state => build'.state = "none" /\ m_CommandQueue' = <<>>
         /\ IsProcessRunning' <=> IsProcessRunning
         /\ ended' = ended
<1>1. Drained' <=> Drained
  BY DEF Calm, Drained, processVars
<1>2. NoBuild => NoBuild'
  BY IdleIs DEF Calm, NoBuild
<1>3. Idling => Idling'
  BY <1>1 DEF Calm, Idling
<1>4. CleanWalk => CleanWalk'
  BY DEF Calm, CleanWalk, Idle, CleanStates
<1>5. IsProcessRunning' <=> IsProcessRunning
  BY DEF Calm, IsProcessRunning, processVars
<1> QED
  BY <1>1, <1>2, <1>3, <1>4, <1>5, IdleIs DEF Calm, processVars

LEMMA CalmRests ==
  ASSUME Calm, NEW s, Rests(s)
  PROVE  Rests(s)'
<1>1. /\ Drained' <=> Drained
      /\ NoBuild => NoBuild'
      /\ Idling => Idling'
      /\ CleanWalk => CleanWalk'
      /\ m_CommandQueue = <<>> => m_CommandQueue' = <<>>
  BY CalmIs
<1>2. /\ failed' => failed
      /\ build' = build \/ build'.state = "none"
  BY IdleIs DEF Calm
<1> QED
  BY <1>1, <1>2 DEF Rests

LEMMA CalmRuns ==
  ASSUME Calm, NEW f, NEW s, Runs(f, s)
  PROVE  Runs(f, s)'
<1>1. /\ Drained' <=> Drained
      /\ NoBuild => NoBuild'
      /\ Idling => Idling'
      /\ CleanWalk => CleanWalk'
      /\ m_CommandQueue = <<>> => m_CommandQueue' = <<>>
      /\ IsProcessRunning' <=> IsProcessRunning
      /\ ended' = ended
      /\ build.target = NoJob => build'.target = NoJob
  BY CalmIs
<1>2. /\ failed' => failed
      /\ \/ build' = build /\ m_CommandQueue' = m_CommandQueue
         \/ build'.state = "none" /\ NoBuild' /\ m_CommandQueue' = <<>>
  BY IdleIs DEF Calm, NoBuild
<1> QED
  BY <1>1, <1>2 DEF Runs

LEMMA CalmKeeps ==
  ASSUME Types, Machine, Calm, ~m_RunAfterCompile', Stacked',
         stack' = <<>> => stack = <<>> \/ ended = <<>>
  PROVE  Machine'
<1>1. \/ m_CommandQueue' = <<>> /\ build'.target = NoJob
      \/ UNCHANGED <<m_CommandQueue, build>>
  BY IdleIs DEF Calm
<1>2. Slots' /\ Beside' /\ Queued' /\ OneLeft'
  BY <1>1, ProcessesKeep DEF Machine, Calm
<1>3. build'.job = "idle" => build'.target = NoJob
  BY <1>1, IdleIs DEF Calm, Machine
<1> QED
  BY <1>2, <1>3 DEF Machine

(* The first frame f has become h, on the same frames, or f is put on them. *)
LEMMA CalmTurn ==
  ASSUME Types, Machine, Calm, ~m_RunAfterCompile',
         NEW f \in Frames, NEW s \in Seq(Frames), stack' = Push(f, s),
         Runs(f, s), Rests(s)
  PROVE  Machine'
<1>1. Runs(f, s)' /\ Rests(s)'
  BY CalmRuns, CalmRests
<1>2. Top(stack', f, s)
  BY TopPush
<1>3. Stacked' /\ stack' # <<>>
  BY <1>1, <1>2 DEF Stacked, Top
<1> QED
  BY <1>3, CalmKeeps

(* The first frame returns.                                                 *)
LEMMA CalmPop ==
  ASSUME Types, Machine, Calm, ~m_RunAfterCompile',
         NEW h \in Frames, NEW t \in Seq(Frames), stack = Push(h, t), stack' = t,
         failed => NoBuild', t = <<>> => ended = <<>>,
         Has(t, Walks) \/ ~Has(t, Halves) \/ build'.target = NoJob
  PROVE  Machine'
<1>1. Rests(t)
  BY TopPush DEF Machine, Stacked, Top
<1>2. Rests(t)' /\ (failed' => NoBuild')
  BY <1>1, CalmRests DEF Calm
<1>3. CASE t = <<>>
  BY <1>2, <1>3, CalmKeeps DEF Stacked
<1>4. CASE t # <<>>
  <2>1. PICK f \in Frames, s \in Seq(Frames) : t = Push(f, s)
    BY <1>4, HeadTail
  <2>2. Runs(f, s)' /\ Rests(s)'
    BY <1>2, <2>1, UnburyNext
  <2>3. Top(stack', f, s)
    BY <2>1, TopPush
  <2>4. Stacked' /\ stack' # <<>>
    BY <2>2, <2>3 DEF Stacked, Top
  <2> QED
    BY <2>4, CalmKeeps
<1> QED
  BY <1>3, <1>4

(* A Yield() on frame f.                                                    *)
LEMMA YieldOn ==
  \A f, y \in Frames, s \in Seq(Frames) :
    /\ Runs(f, s) /\ Rests(s)
    /\ f.at \in (Walks \ {"queue", "bsm_add"}) \cup Calls
    /\ y.at = "yield"
    => Runs(y, Push(f, s)) /\ Rests(Push(f, s))
<1> SUFFICES ASSUME NEW f \in Frames, NEW y \in Frames, NEW s \in Seq(Frames),
                    Runs(f, s), Rests(s), y.at = "yield",
                    f.at \in (Walks \ {"queue", "bsm_add"}) \cup Calls
             PROVE  Runs(y, Push(f, s)) /\ Rests(Push(f, s))
  OBVIOUS
<1> DEFINE p == Push(f, s)
<1>1. Top(p, f, s)
  BY TopPush
<1>2. /\ f.at \notin {"queue", "bsm_add", "pending", "yield", "idle", "job_end"} /\ f.at \notin Halves
      /\ f.at \in Walks \cup Calls
  BY DEF Walks, Chain, Homes, Calls, Halves
<1>3. Drained \/ NoBuild
  BY <1>2 DEF Runs
<1>4. Rooted(s) \/ Drained
  BY <1>2 DEF Runs
<1>5. Rests(p)
  BY <1>2, <1>4, Bury
<1> HIDE DEF p
<1>6. Fits(y, p)
  <2>1. ~Has(p, {"yield", "job_end"}) /\ Silent(p, {"bsm_add"})
    BY <1>1, <1>2, <1>5 DEF Runs, Fits, Rests, Top
  <2> QED
    BY <1>1, <1>2, <2>1 DEF Fits, Top, Pauses, Halves, Calls, Chain
<1>7. /\ Has(p, Halves) => /\ Idling /\ CleanFrame(y)
                           /\ IF Has(p, Walks) THEN CleanWalk ELSE build.target = NoJob
      /\ ~Rooted(p) => Drained
      /\ failed => NoBuild
  BY <1>1, <1>2, <1>5 DEF Runs, Rests, Top, CleanFrame
<1>8. Runs(y, p)
  BY <1>3, <1>6, <1>7 DEF Runs, Walks, Chain, Homes, Calls, Halves, Drained
<1> QED
  BY <1>5, <1>8 DEF p

LEMMA CalmPaused ==
  ASSUME Types, Machine, Calm, ~m_RunAfterCompile',
         NEW f \in Frames, NEW s \in Seq(Frames), s = Tail(stack), Paused(f),
         Runs(f, s), Rests(s), f.at \in (Walks \ {"queue", "bsm_add"}) \cup Calls
  PROVE  Machine'
<1>1. CASE stack' = Push(f, s)
  BY <1>1, CalmTurn
<1>2. ASSUME NEW y \in Frames, y.at = "yield", stack' = Push(y, Push(f, s))
      PROVE  Machine'
  <2>1. Runs(y, Push(f, s)) /\ Rests(Push(f, s)) /\ Push(f, s) \in Seq(Frames)
    BY <1>2, YieldOn, TopPush
  <2> QED
    BY <1>2, <2>1, CalmTurn
<1> QED
  BY <1>1, <1>2 DEF Paused

(* BuildStateManagement called from frame g.                                *)
LEMMA CallBsm ==
  \A f, g \in Frames, s \in Seq(Frames) :
    /\ Runs(g, s) /\ Rests(s)
    /\ g.at \in Homes /\ f.at = "bsm"
    /\ m_CommandQueue = <<>> /\ (Drained \/ NoBuild) /\ (Drained \/ Rooted(s))
    => Runs(f, Push(g, s)) /\ Rests(Push(g, s))
<1> SUFFICES ASSUME NEW f \in Frames, NEW g \in Frames, NEW s \in Seq(Frames),
                    Runs(g, s), Rests(s), g.at \in Homes, f.at = "bsm", m_CommandQueue = <<>>,
                    Drained \/ NoBuild, Drained \/ Rooted(s)
             PROVE  Runs(f, Push(g, s)) /\ Rests(Push(g, s))
  OBVIOUS
<1> DEFINE p == Push(g, s)
<1>1. Top(p, g, s)
  BY TopPush
<1>2. g.at \notin {"bsm_add", "bsm_next", "bsm", "bsm_state", "pending", "yield", "job_end"}
      /\ g.at \notin Halves \cup Calls \cup Pauses
  BY DEF Homes, Halves, Calls, Pauses
<1>3. Rests(p)
  BY <1>2, Bury
<1> HIDE DEF p
<1>4. /\ ~Has(s, {"yield", "job_end"})
      /\ ~Has(s, Calls \cup {"bsm_next"})
      /\ Has(s, {"bsm", "bsm_state"}) => Has(s, Homes)
  <2>1. Has(s, {"bsm", "bsm_state"}) => Has(s, Chain)
    BY HasParts
  <2> QED
    BY <1>2, <2>1, Caller DEF Runs, Fits, Rests
<1>5. Fits(f, p)
  BY <1>1, <1>2, <1>3, <1>4 DEF Fits, Rests, Top, Halves, Calls, Pauses
<1>6. /\ f.at \in Chain /\ f.at \in Walks
      /\ f.at \notin Homes \cup Halves \cup Calls \cup Pauses
  BY DEF Chain, Walks, Homes, Halves, Calls, Pauses
<1>7. /\ Has(p, Halves) => Idling /\ CleanFrame(f) /\ CleanWalk
      /\ ~Rooted(p) => Drained
      /\ failed => NoBuild
  <2>1. Has(p, Walks)
    BY <1>1 DEF Top, Walks
  <2> QED
    BY <1>1, <1>2, <1>3, <2>1 DEF Runs, Rests, Top, CleanFrame
<1>8. Runs(f, p)
  BY <1>5, <1>6, <1>7 DEF Runs, Drained
<1> QED
  BY <1>3, <1>8 DEF p

LEMMA CallBsmNext ==
  (\A f, g \in Frames, s \in Seq(Frames) :
    /\ Runs(g, s) /\ Rests(s)
    /\ g.at \in Homes /\ f.at = "bsm"
    /\ m_CommandQueue = <<>> /\ (Drained \/ NoBuild) /\ (Drained \/ Rooted(s))
    => Runs(f, Push(g, s)) /\ Rests(Push(g, s)))'
  BY CallBsm, PTL

LEMMA YieldOnNext ==
  (\A f, y \in Frames, s \in Seq(Frames) :
    /\ Runs(f, s) /\ Rests(s)
    /\ f.at \in (Walks \ {"queue", "bsm_add"}) \cup Calls
    /\ y.at = "yield"
    => Runs(y, Push(f, s)) /\ Rests(Push(f, s)))'
  BY YieldOn, PTL

-----------------------------------------------------------------------------
(* The actions that are calm, one by one.                                   *)

(* The stack that an action finds.                                          *)
LEMMA Found ==
  ASSUME Types, Machine, stack # <<>>
  PROVE  \E h \in Frames, t \in Seq(Frames) :
           /\ stack = Push(h, t) /\ h = Head(stack) /\ t = Tail(stack)
           /\ Runs(h, t) /\ Rests(t) /\ Top(stack, h, t)
<1>1. PICK h \in Frames, t \in Seq(Frames) : stack = Push(h, t) /\ h = Head(stack) /\ t = Tail(stack)
  BY StackTop DEF Types
<1> QED
  BY <1>1, TopPush DEF Machine, Stacked

LEMMA BsmKeeps ==
  ASSUME Types, Machine, BuildStateManagement
  PROVE  Machine'
<1>1. stack # <<>> /\ Head(stack).at = "bsm"
  BY DEF BuildStateManagement, At
<1>2. PICK h \in Frames, t \in Seq(Frames) :
        /\ stack = Push(h, t) /\ h = Head(stack) /\ t = Tail(stack)
        /\ Runs(h, t) /\ Rests(t) /\ Top(stack, h, t)
  BY <1>1, Found
<1>3. Calm /\ ~m_RunAfterCompile'
  BY DEF BuildStateManagement, Calm, Machine, stateVars, histVars
<1>4. failed => NoBuild
  BY <1>1, <1>2 DEF Runs
<1>5. t # <<>> /\ Has(t, Walks)
  BY <1>1, <1>2, HasParts DEF Runs, Fits, Chain
<1>6. CASE stack' = t
  <2>1. failed => NoBuild'
    BY <1>3, <1>4, CalmIs
  <2> QED
    BY <1>2, <1>3, <1>5, <1>6, <2>1, CalmPop
<1>7. ASSUME NEW f \in Frames, f.at = "bsm_state", Paused(f)
      PROVE  Machine'
  <2>1. Runs(f, t)
    BY <1>1, <1>2, <1>7
       DEF Runs, Fits, CleanFrame, Walks, Chain, Homes, Calls, Halves, Pauses
  <2>2. f.at \in Walks \ {"queue", "bsm_add"}
    BY <1>7 DEF Walks, Chain
  <2> QED
    BY <1>2, <1>3, <1>7, <2>1, <2>2, CalmPaused
<1> QED
  BY <1>2, <1>6, <1>7, BsmStack DEF Types

LEMMA JobLoopKeeps ==
  ASSUME Types, Machine, JobLoop
  PROVE  Machine'
<1>1. stack # <<>> /\ Head(stack).at = "job_loop"
  BY DEF JobLoop, At
<1>2. PICK h \in Frames, t \in Seq(Frames) :
        /\ stack = Push(h, t) /\ h = Head(stack) /\ t = Tail(stack)
        /\ Runs(h, t) /\ Rests(t) /\ Top(stack, h, t)
  BY <1>1, Found
<1>3. Calm /\ ~m_RunAfterCompile'
  BY DEF JobLoop, Calm, Machine, stateVars, histVars
<1>4. Drained \/ NoBuild
  BY <1>1, <1>2 DEF Runs, Walks, Homes
<1>5. ~Has(t, Halves) /\ (failed => NoBuild) /\ (Drained \/ Rooted(t))
  BY <1>1, <1>2 DEF Runs, CleanFrame
<1>6. ASSUME NEW f \in Frames, To(f), f.at = "job_end" \/ (f.at = "queue" /\ m_CommandQueue # <<>>)
      PROVE  Machine'
  <2>1. Runs(f, t)
    BY <1>1, <1>2, <1>4, <1>5, <1>6
       DEF Runs, Fits, Walks, Chain, Homes, Calls, Halves, Pauses
  <2> QED
    BY <1>2, <1>3, <1>6, <2>1, CalmTurn DEF To
<1>7. ASSUME NEW f \in Frames, NEW g \in Frames, ToTwo(f, g),
             f.at = "bsm", g.at = "job_loop", m_CommandQueue = <<>>
      PROVE  Machine'
  <2>1. Runs(g, t)
    BY <1>1, <1>2, <1>5, <1>7 DEF Runs, Fits, Walks, Chain, Homes, Calls, Halves, Pauses
  <2>2. Runs(f, Push(g, t)) /\ Rests(Push(g, t)) /\ Push(g, t) \in Seq(Frames)
    BY <1>2, <1>4, <1>5, <1>7, <2>1, CallBsm, TopPush DEF Homes
  <2> QED
    BY <1>2, <1>3, <1>7, <2>2, CalmTurn DEF ToTwo
<1> QED
  BY <1>6, <1>7, JobLoopStack DEF Types

(* Once the queue is empty and no build is left a command returns.          *)
LEMMA ResetKeeps ==
  ASSUME Types, Machine, Calm, ResetBuildState, ~m_RunAfterCompile', stack # <<>>,
         stack' = Tail(stack), Head(stack).at # "pending"
  PROVE  Machine'
<1>1. PICK h \in Frames, t \in Seq(Frames) :
        /\ stack = Push(h, t) /\ h = Head(stack) /\ t = Tail(stack)
        /\ Runs(h, t) /\ Rests(t) /\ Top(stack, h, t)
  BY Found
<1>2. NoBuild' /\ build'.target = NoJob
  BY IdleIs DEF ResetBuildState, NoBuild
<1>3. t = <<>> => ended = <<>>
  BY <1>1, TopNothing DEF Runs
<1> QED
  BY <1>1, <1>2, <1>3, CalmPop

LEMMA JobEndKeeps ==
  ASSUME Types, Machine, JobEnd \/ JobAfter
  PROVE  Machine'
<1>1. stack # <<>> /\ ~m_RunAfterCompile
  BY DEF JobEnd, JobAfter, At, Machine
<1>2. PICK h \in Frames, t \in Seq(Frames) :
        /\ stack = Push(h, t) /\ h = Head(stack) /\ t = Tail(stack)
        /\ Runs(h, t) /\ Rests(t) /\ Top(stack, h, t)
  BY <1>1, Found
<1>3. JobEnd
  BY <1>2 DEF JobAfter, At, Runs
<1>4. Head(stack).at = "job_end" /\ stack' = Tail(stack) /\ ~m_RunAfterCompile'
  BY <1>1, <1>3, AfterJobStack DEF JobEnd, At, Types
<1>5. Calm /\ ResetBuildState
  BY <1>3 DEF JobEnd, Calm, ResetBuildState, stateVars
<1> QED
  BY <1>1, <1>4, <1>5, ResetKeeps

LEMMA KillKeeps ==
  ASSUME Types, Machine, KillProcess
  PROVE  Machine'
<1>1. Calm /\ ~m_RunAfterCompile' /\ stack' = stack /\ NoBuild'
  BY IdleIs DEF KillProcess, Calm, ResetBuildState, stateVars, NoBuild
<1>2. CASE stack = <<>>
  BY <1>1, <1>2, CalmKeeps DEF Stacked
<1>3. CASE stack # <<>>
  <2>1. PICK h \in Frames, t \in Seq(Frames) : stack = Push(h, t) /\ Runs(h, t) /\ Rests(t)
    BY <1>3, Found
  <2> QED
    BY <1>1, <2>1, CalmTurn
<1> QED
  BY <1>2, <1>3

LEMMA WorkspaceStartedKeeps ==
  ASSUME Types, Machine, WorkspaceStarted
  PROVE  Machine'
<1>1. stack # <<>> /\ Head(stack).at = "ws_end"
  BY DEF WorkspaceStarted, At
<1>2. PICK h \in Frames, t \in Seq(Frames) :
        /\ stack = Push(h, t) /\ h = Head(stack) /\ t = Tail(stack)
        /\ Runs(h, t) /\ Rests(t) /\ Top(stack, h, t)
  BY <1>1, Found
<1>3. Calm /\ ~m_RunAfterCompile'
  BY DEF WorkspaceStarted, Calm, Machine, stateVars, histVars
<1>4. \E f \in Frames : f.at = "queue" /\ To(f)
  BY <1>1, ContinuePlain DEF WorkspaceStarted, Types, PlainAt
<1>5. ASSUME NEW f \in Frames, f.at = "queue"
      PROVE  Runs(f, t)
  BY <1>1, <1>2, <1>5
     DEF Runs, Fits, CleanFrame, Walks, Chain, Homes, Calls, Halves, Pauses
<1> QED
  BY <1>2, <1>3, <1>4, <1>5, CalmTurn DEF To

LEMMA PendingKeeps ==
  ASSUME Types, Machine, ProcessPendingEvents
  PROVE  Machine'
<1>1. Calm /\ ~m_RunAfterCompile'
  BY DEF ProcessPendingEvents, Calm, Machine, stateVars, histVars
<1>2. CASE stack = <<>> /\ stack' = <<Frame("pending")>>
  <2>1. PICK f \in Frames : f.at = "pending" /\ stack' = Push(f, <<>>) /\ <<>> \in Seq(Frames)
    <3>1. Frame("pending") \in Frames /\ Frame("pending").at = "pending"
      BY PlainFrame DEF PlainAt
    <3>2. <<Frame("pending")>> = Push(Frame("pending"), <<>>)
      BY <3>1, PushOne DEF Push
    <3> QED
      BY <1>2, <3>1, <3>2
  <2>2. Rests(<<>>)
    BY TopNothing DEF Rests
  <2>3. failed => NoBuild
    BY <1>2 DEF Machine, Stacked
  <2>4. Runs(f, <<>>)
    BY <2>1, <2>3, TopNothing
       DEF Runs, Fits, Walks, Chain, Homes, Calls, Halves, Pauses
  <2> QED
    BY <1>1, <2>1, <2>2, <2>4, CalmTurn
<1>3. ASSUME At("yield"), Continue(<<Frame("idle")>>)
      PROVE  Machine'
  <2>1. stack # <<>> /\ Head(stack).at = "yield"
    BY <1>3 DEF At
  <2>2. PICK h \in Frames, t \in Seq(Frames) :
          /\ stack = Push(h, t) /\ h = Head(stack) /\ t = Tail(stack)
          /\ Runs(h, t) /\ Rests(t) /\ Top(stack, h, t)
    BY <2>1, Found
  <2>3. PICK f \in Frames : f.at = "idle" /\ To(f)
    BY <1>3, <2>1, ContinuePlain DEF Types, PlainAt
  <2>4. Runs(f, t)
    BY <2>1, <2>2, <2>3
       DEF Runs, Fits, CleanFrame, Walks, Chain, Homes, Calls, Halves, Pauses
  <2> QED
    BY <1>1, <2>2, <2>3, <2>4, CalmTurn DEF To
<1>4. ASSUME At("pending") \/ At("idle"), ended = <<>>, Return, UNCHANGED <<m_CommandQueue, build>>
      PROVE  Machine'
  <2>1. stack # <<>> /\ Head(stack).at \in {"pending", "idle"}
    BY <1>4 DEF At
  <2>2. PICK h \in Frames, t \in Seq(Frames) :
          /\ stack = Push(h, t) /\ h = Head(stack) /\ t = Tail(stack)
          /\ Runs(h, t) /\ Rests(t) /\ Top(stack, h, t)
    BY <2>1, Found
  <2>3. failed => NoBuild'
    BY <1>1, <2>1, <2>2, CalmIs DEF Runs
  <2>4. Has(t, Walks) \/ ~Has(t, Halves) \/ build'.target = NoJob
    BY <1>4, <2>1, <2>2 DEF Runs, Walks, Chain, Homes
  <2> QED
    BY <1>1, <1>4, <2>2, <2>3, <2>4, CalmPop DEF Return
<1> QED
  BY <1>2, <1>3, <1>4 DEF ProcessPendingEvents

LEMMA RebuildKeeps ==
  ASSUME Types, Machine, Rebuild \/ RebuildWorkspace
  PROVE  Machine'
<1>1. stack # <<>> /\ Head(stack).at \in {"rebuild", "ws_rebuild"}
  BY DEF Rebuild, RebuildWorkspace, At
<1>2. PICK h \in Frames, t \in Seq(Frames) :
        /\ stack = Push(h, t) /\ h = Head(stack) /\ t = Tail(stack)
        /\ Runs(h, t) /\ Rests(t) /\ Top(stack, h, t)
  BY <1>1, Found
<1>3. Calm /\ ~m_RunAfterCompile'
  BY DEF Rebuild, RebuildWorkspace, Calm, Machine, stateVars, histVars
<1>4. t = <<>> /\ Idling /\ build.target = NoJob /\ ~failed
  BY <1>1, <1>2, TopNothing DEF Runs, Fits, Halves, Walks, Chain, Homes
<1>5. \E f \in Frames : f.at \in {"build", "ws"} /\ To(f)
  BY <1>1, Continues, BuildFrameIs DEF Rebuild, RebuildWorkspace, Types, BuildAt, To
<1>6. ASSUME NEW f \in Frames, f.at \in {"build", "ws"}
      PROVE  Runs(f, t)
  BY <1>4, <1>6, TopNothing
     DEF Runs, Fits, Idling, NoBuild, Drained, Walks, Chain, Homes, Calls, Halves, Pauses
<1> QED
  BY <1>2, <1>3, <1>5, <1>6, CalmTurn DEF To

LEMMA DoBuildKeeps ==
  ASSUME Types, Machine, DoBuild
  PROVE  Machine'
<1>1. stack # <<>> /\ Head(stack).at = "build"
  BY DEF DoBuild, At
<1>2. PICK h \in Frames, t \in Seq(Frames) :
        /\ stack = Push(h, t) /\ h = Head(stack) /\ t = Tail(stack)
        /\ Runs(h, t) /\ Rests(t) /\ Top(stack, h, t)
  BY <1>1, Found
<1>3. Calm /\ ~m_RunAfterCompile'
  BY DEF DoBuild, Calm, Machine, stateVars, histVars
<1>4. Drained /\ NoBuild /\ ~failed /\ NoBuild' /\ ended = <<>> /\ build'.target = NoJob
  BY <1>1, <1>2, <1>3, CalmIs DEF Runs, Calls, Drained, NoBuild
<1>5. CASE stack' = Tail(stack)
  BY <1>2, <1>3, <1>4, <1>5, CalmPop
<1>6. ASSUME NEW f \in Frames, f.at = "file", To(f), hindrance = "no project"
      PROVE  Machine'
  <2>1. Runs(f, t)
    BY <1>1, <1>2, <1>4, <1>6
       DEF Runs, Fits, Idling, Walks, Chain, Homes, Calls, Halves, Pauses
  <2> QED
    BY <1>2, <1>3, <1>6, <2>1, CalmTurn DEF To
<1>7. ASSUME NEW f \in Frames, f.at = "build_jobs", f.clean = h.clean, f.build = h.build,
             To(f) \/ Paused(f)
      PROVE  Machine'
  <2>1. Runs(f, t)
    BY <1>1, <1>2, <1>4, <1>7
       DEF Runs, Fits, CleanFrame, Walks, Chain, Homes, Calls, Halves, Pauses
  <2>2. f.at \in Calls
    BY <1>7 DEF Calls
  <2> QED
    BY <1>2, <1>3, <1>7, <2>1, <2>2, CalmTurn, CalmPaused DEF To
<1> QED
  BY <1>2, <1>5, <1>6, <1>7, DoBuildStack DEF Types

LEMMA DoWorkspaceBuildKeeps ==
  ASSUME Types, Machine, DoWorkspaceBuild
  PROVE  Machine'
<1>1. stack # <<>> /\ Head(stack).at = "ws"
  BY DEF DoWorkspaceBuild, At
<1>2. PICK h \in Frames, t \in Seq(Frames) :
        /\ stack = Push(h, t) /\ h = Head(stack) /\ t = Tail(stack)
        /\ Runs(h, t) /\ Rests(t) /\ Top(stack, h, t)
  BY <1>1, Found
<1>3. Calm /\ ~m_RunAfterCompile'
  BY DEF DoWorkspaceBuild, Calm, Machine, stateVars, histVars
<1>4. Drained /\ NoBuild /\ ~failed /\ NoBuild' /\ ended = <<>> /\ build'.target = NoJob
  BY <1>1, <1>2, <1>3, CalmIs DEF Runs, Calls, Drained, NoBuild
<1>5. CASE stack' = Tail(stack)
  BY <1>2, <1>3, <1>4, <1>5, CalmPop
<1>6. ASSUME NEW f \in Frames, f.at = "ws_jobs", f.clean = h.clean, f.build = h.build, Paused(f)
      PROVE  Machine'
  <2>1. Runs(f, t)
    BY <1>1, <1>2, <1>4, <1>6
       DEF Runs, Fits, CleanFrame, Walks, Chain, Homes, Calls, Halves, Pauses
  <2>2. f.at \in Calls
    BY <1>6 DEF Calls
  <2> QED
    BY <1>2, <1>3, <1>6, <2>1, <2>2, CalmPaused
<1> QED
  BY <1>2, <1>5, <1>6, DoWorkspaceBuildStack DEF Types

LEMMA PrepareQueueKeeps ==
  ASSUME Types, Machine, PrepareQueue
  PROVE  Machine'
<1>1. stack # <<>> /\ Head(stack).at \in {"run", "file"}
  BY DEF PrepareQueue, At
<1>2. PICK h \in Frames, t \in Seq(Frames) :
        /\ stack = Push(h, t) /\ h = Head(stack) /\ t = Tail(stack)
        /\ Runs(h, t) /\ Rests(t) /\ Top(stack, h, t)
  BY <1>1, Found
<1>3. Calm /\ ~m_RunAfterCompile'
  BY DEF PrepareQueue, Calm, Machine, stateVars, histVars
<1>4. h.at = "file"
  BY <1>1, <1>2 DEF Runs
<1>5. PICK f \in Frames : f.at = "file_cmd" /\ Paused(f)
  <2>1. At("file") /\ Continue(Yield(<<Frame("file_cmd")>>))
    BY <1>2, <1>4 DEF PrepareQueue, At
  <2> QED
    BY <1>1, <2>1, ContinuePlain DEF Types, PlainAt
<1>6. Runs(f, t)
  BY <1>2, <1>4, <1>5
     DEF Runs, Fits, CleanFrame, Walks, Chain, Homes, Calls, Halves, Pauses
<1>7. f.at \in Calls
  BY <1>5 DEF Calls
<1> QED
  BY <1>2, <1>3, <1>5, <1>6, <1>7, CalmPaused

(* Run() and OnJobEnd after it are not reached.                             *)
LEMMA RunKeeps ==
  ASSUME Types, Machine, Run
  PROVE  Machine'
<1>1. stack # <<>> /\ Head(stack).at = "run_cmd"
  BY DEF Run, At
<1>2. \E h \in Frames, t \in Seq(Frames) : h = Head(stack) /\ Runs(h, t)
  BY <1>1, Found
<1> QED
  BY <1>1, <1>2 DEF Runs

(* DoRunQueue, when it starts no process.                                   *)
LEMMA SomeFree ==
  ASSUME Drained
  PROVE  FreeSlots # {}
<1>1. 0 \in Slot
  BY BuildAssumption DEF Slot
<1> QED
  BY <1>1 DEF Drained, FreeSlots, IsFree

LEMMA QueueReturns ==
  ASSUME Types, Machine, At("queue"), Calm, ~m_RunAfterCompile', Return,
         UNCHANGED <<m_CommandQueue, build>>,
         FreeSlots = {} \/ IF m_CommandQueue = <<>> THEN IsProcessRunning ELSE MustWait
  PROVE  Machine'
<1>1. stack # <<>> /\ Head(stack).at = "queue" /\ stack' = Tail(stack)
  BY DEF At, Return
<1>2. PICK h \in Frames, t \in Seq(Frames) :
        /\ stack = Push(h, t) /\ h = Head(stack) /\ t = Tail(stack)
        /\ Runs(h, t) /\ Rests(t) /\ Top(stack, h, t)
  BY <1>1, Found
<1>3. ~Drained \/ m_CommandQueue # <<>>
  BY SomeFree DEF Drained, IsProcessRunning
<1>4. ~Has(t, Halves)
  BY <1>2, <1>3 DEF Runs, Idling
<1>5. failed => NoBuild'
  BY <1>1, <1>2, CalmIs DEF Runs
<1>6. t = <<>> => ended = <<>>
  BY <1>1, <1>2, TopNothing DEF Runs
<1> QED
  BY <1>1, <1>2, <1>4, <1>5, <1>6, CalmPop

LEMMA QueueCalls ==
  ASSUME Types, Machine, At("queue"), Calm, ~m_RunAfterCompile',
         FreeSlots # {}, m_CommandQueue = <<>>, ~IsProcessRunning,
         Continue(<<Frame("bsm"), [at |-> "queue_next", slot |-> GetNextAvailableProcessIndex]>>)
  PROVE  Machine'
<1>1. stack # <<>> /\ Head(stack).at = "queue"
  BY DEF At
<1>2. PICK h \in Frames, t \in Seq(Frames) :
        /\ stack = Push(h, t) /\ h = Head(stack) /\ t = Tail(stack)
        /\ Runs(h, t) /\ Rests(t) /\ Top(stack, h, t)
  BY <1>1, Found
<1>3. PICK f \in Frames, g \in Frames : f.at = "bsm" /\ g.at = "queue_next" /\ ToTwo(f, g)
  BY <1>1, QueueStack DEF Types
<1>4. Drained \/ NoBuild
  BY <1>1, <1>2 DEF Runs
<1>5. Rooted(t) \/ Drained
  BY <1>1, <1>2, QuietDrained DEF Runs, Machine
<1>6. Runs(g, t)
  BY <1>1, <1>2, <1>3, <1>4, <1>5
     DEF Runs, Fits, CleanFrame, Drained, Walks, Chain, Homes, Calls, Halves, Pauses
<1>7. Runs(f, Push(g, t)) /\ Rests(Push(g, t)) /\ Push(g, t) \in Seq(Frames)
  BY <1>2, <1>3, <1>4, <1>5, <1>6, CallBsm, TopPush DEF Homes
<1> QED
  BY <1>2, <1>3, <1>7, CalmTurn DEF ToTwo

LEMMA NextCommandCalls ==
  ASSUME Types, Machine, At("queue_next"), Calm, ~m_RunAfterCompile', m_CommandQueue = <<>>,
         NEW f \in Frames, f.at = "bsm", ToTwo(f, Head(stack))
  PROVE  Machine'
<1>1. stack # <<>> /\ Head(stack).at = "queue_next"
  BY DEF At
<1>2. PICK h \in Frames, t \in Seq(Frames) :
        /\ stack = Push(h, t) /\ h = Head(stack) /\ t = Tail(stack)
        /\ Runs(h, t) /\ Rests(t) /\ Top(stack, h, t)
  BY <1>1, Found
<1>3. (Drained \/ NoBuild) /\ (Rooted(t) \/ Drained) /\ h.at \in Homes
  BY <1>1, <1>2 DEF Runs, Walks, Homes
<1>4. Runs(f, Push(h, t)) /\ Rests(Push(h, t)) /\ Push(h, t) \in Seq(Frames)
  BY <1>2, <1>3, CallBsm, TopPush
<1> QED
  BY <1>2, <1>4, CalmTurn DEF ToTwo

LEMMA GenerateNothingKeeps ==
  ASSUME Types, Machine, GenerateCommands, build.target = NoJob
  PROVE  Machine'
<1>1. stack # <<>> /\ Head(stack).at = "bsm_state" /\ stack' = Tail(stack)
  BY DEF GenerateCommands, At, Return
<1>2. Calm /\ ResetBuildState /\ ~m_RunAfterCompile'
  BY DEF GenerateCommands, Calm, Machine, ResetBuildState, stateVars, histVars
<1> QED
  BY <1>1, <1>2, ResetKeeps

LEMMA StutterKeeps ==
  ASSUME Types, Machine, UNCHANGED vars
  PROVE  Machine'
<1>1. /\ UNCHANGED <<stack, m_CommandQueue, m_Processes, m_Pid, child, ended>>
      /\ UNCHANGED <<build, m_Clean, m_Build, m_RunAfterCompile, hindrance, failed>>
  BY DEF vars, processVars, stateVars, histVars
<1>2. Calm /\ ~m_RunAfterCompile' /\ stack' = stack
  BY <1>1 DEF Calm, Machine, processVars
<1>3. CASE stack = <<>>
  BY <1>1, <1>2, <1>3, CalmKeeps DEF Machine, Stacked, NoBuild
<1>4. CASE stack # <<>>
  <2>1. PICK h \in Frames, t \in Seq(Frames) : stack = Push(h, t) /\ Runs(h, t) /\ Rests(t)
    BY <1>4, Found
  <2> QED
    BY <1>2, <2>1, CalmTurn
<1> QED
  BY <1>3, <1>4

-----------------------------------------------------------------------------
(* The stack after a step, from what holds of its frames.                   *)

LEMMA TurnStacked ==
  ASSUME NEW f \in Frames, NEW s \in Seq(Frames), stack' = Push(f, s), Runs(f, s)', Rests(s)'
  PROVE  Stacked' /\ stack' # <<>>
<1>1. Top(stack', f, s)
  BY TopPush
<1> QED
  BY <1>1 DEF Stacked, Top

LEMMA PausedStacked ==
  ASSUME NEW f \in Frames, NEW s \in Seq(Frames), s = Tail(stack), Paused(f),
         Runs(f, s)', Rests(s)', f.at \in (Walks \ {"queue", "bsm_add"}) \cup Calls
  PROVE  Stacked' /\ stack' # <<>>
<1>1. CASE stack' = Push(f, s)
  BY <1>1, TurnStacked
<1>2. ASSUME NEW y \in Frames, y.at = "yield", stack' = Push(y, Push(f, s))
      PROVE  Stacked' /\ stack' # <<>>
  <2>1. Runs(y, Push(f, s))' /\ Rests(Push(f, s))' /\ Push(f, s) \in Seq(Frames)
    BY <1>2, YieldOnNext, TopPush
  <2> QED
    BY <1>2, <2>1, TurnStacked
<1> QED
  BY <1>1, <1>2 DEF Paused

LEMMA CallStacked ==
  ASSUME NEW f \in Frames, NEW g \in Frames, NEW s \in Seq(Frames),
         stack' = Push(f, Push(g, s)), f.at = "bsm", g.at \in Homes,
         Runs(g, s)', Rests(s)', m_CommandQueue' = <<>>,
         Drained' \/ NoBuild', Drained' \/ Rooted(s)
  PROVE  Stacked' /\ stack' # <<>>
<1>1. Runs(f, Push(g, s))' /\ Rests(Push(g, s))' /\ Push(g, s) \in Seq(Frames)
  BY CallBsmNext, TopPush
<1> QED
  BY <1>1, TurnStacked

LEMMA PopStacked ==
  ASSUME NEW t \in Seq(Frames), stack' = t, Rests(t)', (failed => NoBuild)',
         Has(t, Walks) \/ ~Has(t, Halves) \/ build'.target = NoJob
  PROVE  Stacked'
<1>1. CASE t = <<>>
  BY <1>1 DEF Stacked
<1>2. CASE t # <<>>
  <2>1. PICK f \in Frames, s \in Seq(Frames) : t = Push(f, s)
    BY <1>2, HeadTail
  <2>2. Runs(f, s)' /\ Rests(s)'
    BY <2>1, UnburyNext
  <2> QED
    BY <2>1, <2>2, TurnStacked
<1> QED
  BY <1>1, <1>2

-----------------------------------------------------------------------------
(* The state machine enters a state, and chooses the next one.              *)

LEMMA GenerateKeeps ==
  ASSUME Types, Machine, GenerateCommands, build.target # NoJob
  PROVE  Machine'
<1>1. stack # <<>> /\ Head(stack).at = "bsm_state"
  BY DEF GenerateCommands, At
<1>2. PICK h \in Frames, t \in Seq(Frames) :
        /\ stack = Push(h, t) /\ h = Head(stack) /\ t = Tail(stack)
        /\ Runs(h, t) /\ Rests(t) /\ Top(stack, h, t)
  BY <1>1, Found
<1>3. PICK f \in Frames : /\ f.at = "bsm_next" /\ f.cmds \in CommandLists
                          /\ To(f) \/ Paused(f)
  BY GenerateStack DEF Types
<1>4. /\ UNCHANGED processVars /\ m_CommandQueue' = m_CommandQueue
      /\ build' = [build EXCEPT !.state = build.next]
      /\ UNCHANGED <<failed, hindrance, m_Clean, m_Build, m_RunAfterCompile>>
  BY DEF GenerateCommands, stateVars, histVars
<1>5. /\ build'.state = build.next /\ build'.next = build.next
      /\ build'.target = build.target /\ build'.job = build.job
  BY <1>4 DEF Types, BuildType, Builds
<1>6. Drained /\ ~failed /\ m_CommandQueue = <<>> /\ ~Twice(t)
  BY <1>1, <1>2 DEF Runs, Rests, NoBuild, Walks, Chain
<1>7. /\ ~Has(t, Calls) /\ ~Has(t, {"bsm_next"})
      /\ Has(t, {"bsm", "bsm_state"}) => Twice(t)
  BY <1>1, <1>2, HasParts DEF Runs, Fits, Chain, Pauses
<1>8. Drained' /\ ~failed' /\ m_CommandQueue' = <<>> /\ build'.target # NoJob
  BY <1>4, <1>5, <1>6 DEF Drained, processVars
<1>9. Has(t, Halves) => Idling' /\ CleanWalk' /\ f.cmds = <<>>
  <2>1. Has(t, Halves) => Idling /\ CleanWalk
    BY <1>1, <1>2 DEF Runs, Walks, Chain
  <2>2. CleanWalk => f.cmds = <<>>
    BY <1>3 DEF CleanWalk, CleanStates, CommandLists
  <2> QED
    BY <1>4, <1>5, <1>8, <2>1, <2>2 DEF Idling, CleanWalk
<1>10. Rests(t)'
  <2>1. Silent(t, {"bsm_next"})
    BY <1>7 DEF Silent, Has
  <2> QED
    BY <1>2, <1>6, <1>7, <1>8, <1>9, <2>1 DEF Rests
<1>11. Runs(f, t)'
  <2>1. Fits(f, t)
    BY <1>1, <1>2, <1>3 DEF Runs, Fits, Chain, Calls, Halves, Pauses
  <2>2. build'.state = "ProjectDone" => f.cmds = <<>>
    BY <1>3, <1>5 DEF CommandLists
  <2>3. f.at \notin Homes \cup Calls \cup Halves \cup Pauses /\ f.at \in Walks /\ ended' = <<>>
    BY <1>3, <1>8 DEF Walks, Chain, Homes, Calls, Halves, Pauses, Drained
  <2>4. Has(t, Halves) => CleanFrame(f)
    BY <1>3, <1>9 DEF CleanFrame
  <2> QED
    BY <1>3, <1>6, <1>7, <1>8, <1>9, <2>1, <2>2, <2>3, <2>4 DEF Runs
<1>12. Stacked' /\ stack' # <<>>
  <2>1. f.at \in Walks \ {"queue", "bsm_add"}
    BY <1>3 DEF Walks, Chain
  <2> QED
    BY <1>2, <1>3, <1>10, <1>11, <2>1, TurnStacked, PausedStacked DEF To
<1>13. Slots' /\ Beside' /\ Queued' /\ OneLeft'
  BY <1>4, <1>5, <1>12, ProcessesKeep DEF Machine
<1> QED
  BY <1>4, <1>5, <1>12, <1>13 DEF Machine

LEMMA NextStateKeeps ==
  ASSUME Types, Machine, GetNextStateBasedOnJob
  PROVE  Machine'
<1>1. stack # <<>> /\ Head(stack).at = "bsm_next"
  BY DEF GetNextStateBasedOnJob, At
<1>2. PICK h \in Frames, t \in Seq(Frames) :
        /\ stack = Push(h, t) /\ h = Head(stack) /\ t = Tail(stack)
        /\ Runs(h, t) /\ Rests(t) /\ Top(stack, h, t)
  BY <1>1, Found
<1>3. PICK f \in Frames :
        /\ f.at = "bsm_add" /\ f.cmds = h.cmds
        /\ \/ /\ build.state = "TargetDone" /\ f.next = FirstOfTarget /\ To(f)
              /\ m_BuildJobTargetsList # <<>>
              /\ build' = [build EXCEPT !.target = PeekNextJob]
           \/ /\ build.state = "TargetDone"
              /\ f.next = (IF m_Build THEN "ProjectPostBuild" ELSE "ProjectDone")
              /\ To(f) /\ UNCHANGED build
           \/ /\ build.state = "ProjectDone" /\ f.next = FirstOfTarget
              /\ m_BuildJobTargetsList # <<>>
              /\ \E b \in Frames : b.at = "bsm" /\ ToTwo(b, f)
              /\ build' = [build EXCEPT !.next = "ProjectPreBuild", !.target = PeekNextJob]
           \/ /\ build.state # "TargetDone" /\ f.next = AfterState /\ To(f)
              /\ UNCHANGED build
  BY <1>2, NextStack DEF Types
<1>4. /\ UNCHANGED processVars /\ m_CommandQueue' = m_CommandQueue
      /\ UNCHANGED <<failed, hindrance, m_Clean, m_Build, m_RunAfterCompile>>
  BY DEF GetNextStateBasedOnJob, histVars
<1>5. /\ Drained /\ ~failed /\ m_CommandQueue = <<>> /\ ~Twice(t)
      /\ build.state = "ProjectDone" => f.cmds = <<>>
      /\ build.target # NoJob \/ build.state = "none"
  BY <1>1, <1>2, <1>3 DEF Runs
<1>6. /\ ~Has(t, Calls) /\ ~Has(t, {"bsm_next"}) /\ ~Has(t, {"bsm", "bsm_state"})
      /\ ~Has(t, {"yield", "job_end"}) /\ Silent(t, {"bsm_add"})
      /\ Has(t, Homes) /\ t # <<>> /\ t[1].at \in Homes \cup {"bsm_add"}
  BY <1>1, <1>2, <1>5, HasParts DEF Runs, Fits, Chain, Pauses
<1>7. /\ build'.state = build.state /\ build'.job = build.job
      /\ build'.target = build.target \/ (build'.target # NoJob /\ build.target # NoJob)
      /\ build'.next = build.next \/ build'.next = "ProjectPreBuild"
  <2>1. m_BuildJobTargetsList # <<>> => PeekNextJob # NoJob
    <3>1. m_BuildJobTargetsList # <<>> => PeekNextJob \in Job
      BY DEF Types, BuildType, PeekNextJob
    <3> QED
      BY <3>1, JobAssumption
  <2> QED
    BY <1>3, <1>5, <2>1 DEF Types, BuildType, Builds
<1>8. Drained' /\ ~failed' /\ m_CommandQueue' = <<>>
  BY <1>4, <1>5 DEF Drained, processVars
<1>9. Has(t, Halves) => Idling' /\ CleanWalk' /\ CleanFrame(f)
  <2>1. Has(t, Halves) => Idling /\ CleanWalk /\ h.cmds = <<>>
    BY <1>1, <1>2 DEF Runs, CleanFrame, Walks, Chain
  <2>2. CleanWalk => f.next \in CleanStates
    BY <1>3 DEF CleanWalk, CleanStates, FirstOfTarget, AfterState
  <2>3. CleanWalk => CleanWalk'
    BY <1>4, <1>7 DEF CleanWalk, CleanStates
  <2> QED
    BY <1>3, <1>4, <1>8, <2>1, <2>2, <2>3 DEF Idling, CleanFrame
<1>10. Rests(t)'
  <2>1. Silent(t, {"bsm_next"}) /\ ~Has(t, {"bsm", "bsm_state", "bsm_next"})
    BY <1>6, HasParts DEF Silent, Has
  <2> QED
    BY <1>2, <1>5, <1>6, <1>8, <1>9, <2>1 DEF Rests
<1>11. Runs(f, t)'
  <2>1. Fits(f, t)
    BY <1>3, <1>6, HasParts DEF Fits, Chain, Homes, Calls, Halves, Pauses
  <2>2. /\ f.at \notin Homes \cup Calls \cup Halves \cup Pauses /\ f.at \in Walks
        /\ ended' = <<>>
    BY <1>3, <1>8 DEF Walks, Chain, Homes, Calls, Halves, Pauses, Drained
  <2> QED
    BY <1>3, <1>5, <1>6, <1>8, <1>9, <2>1, <2>2 DEF Runs
<1>12. Stacked' /\ stack' # <<>>
  <2>1. CASE To(f)
    BY <1>2, <1>10, <1>11, <2>1, TurnStacked DEF To
  <2>2. ASSUME NEW b \in Frames, b.at = "bsm", ToTwo(b, f), build.state = "ProjectDone"
        PROVE  Stacked' /\ stack' # <<>>
    <3> DEFINE p == Push(f, t)
    <3>1. Top(p, f, t) /\ p \in Seq(Frames)
      BY TopPush
    <3>2. Rests(p)'
      BY <1>3, <1>5, <1>8, <1>10, <1>11, <2>2, BuryNext
    <3> HIDE DEF p
    <3>3. Fits(b, p)
      <4>1. /\ ~Has(p, Calls) /\ ~Has(p, {"bsm_next"}) /\ ~Has(p, {"bsm", "bsm_state"})
            /\ ~Has(p, {"yield", "job_end"}) /\ Silent(p, {"bsm_add"})
            /\ Has(p, Homes) /\ p # <<>> /\ p[1].at = "bsm_add"
        BY <1>3, <1>5, <1>6, <2>2, <3>1 DEF Top, Calls
      <4> QED
        BY <2>2, <4>1, HasParts DEF Fits, Chain, Homes, Calls, Halves, Pauses
    <3>4. Has(p, Halves) => Idling' /\ CleanWalk' /\ CleanFrame(b)
      BY <1>3, <1>9, <2>2, <3>1 DEF Top, Halves, CleanFrame
    <3>5. /\ b.at \notin Homes \cup Calls \cup Halves \cup Pauses /\ b.at \in Walks
          /\ ended' = <<>>
      BY <1>8, <2>2 DEF Walks, Chain, Homes, Calls, Halves, Pauses, Drained
    <3>6. Runs(b, p)'
      BY <1>8, <2>2, <3>3, <3>4, <3>5 DEF Runs
    <3>7. stack' = Push(b, p)
      BY <1>2, <2>2 DEF ToTwo, p
    <3> QED
      BY <3>1, <3>2, <3>6, <3>7, TurnStacked
  <2> QED
    BY <1>3, <2>1, <2>2
<1>13. Slots' /\ Beside' /\ Queued' /\ OneLeft'
  BY <1>4, <1>5, <1>8, <1>12, ProcessesKeep DEF Machine
<1> QED
  BY <1>4, <1>7, <1>12, <1>13 DEF Machine

-----------------------------------------------------------------------------
(* Commands are put in the queue.                                           *)

LEMMA LastIs == \A n \in Nat \ {0} : n \in 1..n
  OBVIOUS

(* The queue was empty, and no process runs.                                *)
LEMMA QueueFilled ==
  ASSUME Types, Drained, m_CommandQueue = <<>>, UNCHANGED processVars,
         NEW l \in Seq(Kind), l # <<>>,
         m_CommandQueue' = m_CommandQueue \o Commands(l), build'.target = build.target,
         l[Len(l)] # "log",
         l[Len(l)] \in {"step", "link", "cc after"} \/ build.target = NoJob,
         \A k, m \in DOMAIN l : k < m /\ l[k] \in {"step", "link"} =>
           l[m] \in {"log", "step", "link", "cc after"}
  PROVE  Queued' /\ m_CommandQueue' # <<>>
<1> DEFINE q == Commands(l)
<1>1. /\ q \in Seq(Cmd) /\ DOMAIN q = DOMAIN l /\ Len(q) = Len(l)
      /\ \A i \in DOMAIN l : q[i].kind = l[i] /\ q[i].job = build.target
  BY CommandsAre DEF Types
<1> HIDE DEF q
<1>2. m_CommandQueue' = q
  BY <1>1, ConcatEmptySeq DEF q
<1>3. Len(l) \in Nat \ {0} /\ DOMAIN l = 1..Len(l)
  BY EmptySeq, LenProperties
<1>4. Len(q) \in DOMAIN l /\ q # <<>>
  <2>1. Len(q) # 0
    BY <1>1, <1>3
  <2>2. Len(<<>>) = 0
    OBVIOUS
  <2>3. Len(l) \in 1..Len(l)
    BY <1>3, LastIs, Zenon
  <2> QED
    BY <1>1, <1>3, <2>1, <2>2, <2>3, Zenon
<1>5. q[Len(q)].kind = l[Len(l)]
  BY <1>1, <1>4
<1>6. \A k, m \in DOMAIN q : q[k].job = q[m].job
  BY <1>1
<1>7. ASSUME NEW k \in DOMAIN q, NEW m \in DOMAIN q, k < m
      PROVE  MayFollow(q[k], q[m])
  <2>1. q[k].kind = l[k] /\ q[m].kind = l[m]
    BY <1>1
  <2>2. l[k] \in {"step", "link"} => l[m] \in {"log", "step", "link", "cc after"}
    BY <1>1, <1>7
  <2> QED
    BY <2>1, <2>2 DEF MayFollow, Alone, Waits
<1>8. \A i \in Slot : child'[i] = {}
  BY DEF Drained, processVars
<1>9. q[Len(q)].kind # "log" /\ (Waits(q[Len(q)]) \/ build'.target = NoJob)
  BY <1>5 DEF Waits, Alone
<1>10. Queued'
  BY <1>2, <1>6, <1>7, <1>8, <1>9 DEF Queued
<1> QED
  BY <1>2, <1>4, <1>10

LEMMA NothingAdded ==
  ASSUME Types, m_CommandQueue' = m_CommandQueue \o Commands(<<>>)
  PROVE  m_CommandQueue' = m_CommandQueue
<1>1. <<>> \in Seq(Kind)
  OBVIOUS
<1>2. Commands(<<>>) \in Seq(Cmd) /\ Len(Commands(<<>>)) = 0
  BY <1>1, CommandsAre DEF Types
<1>3. Commands(<<>>) = <<>>
  BY <1>2, EmptySeq
<1> QED
  BY <1>3, ConcatEmptySeq DEF Types, QueueType

LEMMA AddKeeps ==
  ASSUME Types, Machine, Orderly, AddToCommandQueue
  PROVE  Machine'
<1>1. stack # <<>> /\ Head(stack).at = "bsm_add"
  BY DEF AddToCommandQueue, At
<1>2. PICK h \in Frames, t \in Seq(Frames) :
        /\ stack = Push(h, t) /\ h = Head(stack) /\ t = Tail(stack)
        /\ Runs(h, t) /\ Rests(t) /\ Top(stack, h, t)
  BY <1>1, Found
<1>3. /\ UNCHANGED processVars /\ m_CommandQueue' = m_CommandQueue \o Commands(h.cmds)
      /\ build' = [build EXCEPT !.next = h.next]
      /\ UNCHANGED <<failed, hindrance, m_Clean, m_Build, m_RunAfterCompile>>
  BY <1>2 DEF AddToCommandQueue, stateVars, histVars
<1>4. h.cmds \in Lists /\ h.cmds \in Seq(Kind) /\ h.next \in BuildState
  BY <1>1, <1>2, FramesAre, KindsAre
<1>5. /\ build'.state = build.state /\ build'.job = build.job
      /\ build'.target = build.target /\ build'.next = h.next
  BY <1>3 DEF Types, BuildType, Builds
<1>6. /\ Drained /\ ~failed /\ ~Twice(t)
      /\ m_CommandQueue = <<>> \/ h.cmds = <<>>
  BY <1>1, <1>2 DEF Runs
<1>7. /\ ~Has(t, Calls) /\ ~Has(t, {"bsm_next"}) /\ ~Has(t, {"bsm", "bsm_state"})
      /\ ~Has(t, {"yield", "job_end"}) /\ Silent(t, {"bsm_add"})
      /\ Has(t, Homes) /\ t # <<>> /\ t[1].at \in Homes \cup {"bsm_add"}
  BY <1>1, <1>2, <1>6, HasParts DEF Runs, Fits, Chain, Pauses
<1>8. Drained' /\ ~failed' /\ ended' = <<>>
  BY <1>3, <1>6 DEF Drained, processVars
<1>9. h.cmds = <<>> => m_CommandQueue' = m_CommandQueue
  BY <1>3, NothingAdded
<1>10. Has(t, Walks)
  BY <1>7, HasParts
<1>11. Has(t, Halves) => Idling' /\ CleanWalk'
  <2>1. Has(t, Halves) => Idling /\ CleanWalk /\ h.cmds = <<>> /\ h.next \in CleanStates
    BY <1>1, <1>2, <1>10 DEF Runs, CleanFrame
  <2> QED
    BY <1>3, <1>5, <1>8, <1>9, <2>1 DEF Idling, CleanWalk
<1>12. Rests(t)'
  <2>1. Silent(t, {"bsm_next"}) /\ ~Has(t, {"bsm", "bsm_state", "bsm_next"})
    BY <1>7, HasParts DEF Silent, Has
  <2> QED
    BY <1>2, <1>6, <1>7, <1>8, <1>11, <2>1 DEF Rests
<1>13. Stacked'
  <2>1. CASE stack' = t
    BY <1>8, <1>10, <1>12, <2>1, PopStacked
  <2>2. ASSUME NEW y \in Frames, y.at = "yield", To(y)
        PROVE  Stacked'
    <3>1. Fits(y, t)
      BY <1>7, <2>2 DEF Fits, Walks, Chain, Homes, Calls, Halves, Pauses
    <3>2. y.at \notin Walks \cup Calls \cup Halves /\ y.at \in Pauses /\ CleanFrame(y)
      BY <2>2 DEF Walks, Chain, Homes, Calls, Halves, Pauses, CleanFrame
    <3>3. Runs(y, t)'
      BY <1>8, <1>10, <1>11, <2>2, <3>1, <3>2 DEF Runs, Walks, Chain, Homes
    <3>4. stack' = Push(y, t)
      BY <1>2, <2>2 DEF To
    <3> QED
      BY <1>12, <3>3, <3>4, TurnStacked
  <2> QED
    BY <1>2, <2>1, <2>2, AddStack DEF Types
<1>14. stack' # <<>>
  <2>1. CASE stack' = t
    BY <1>7, <2>1
  <2>2. ASSUME NEW y \in Frames, stack' = Push(y, t)
        PROVE  stack' # <<>>
    BY <2>2, TopPush DEF Top
  <2> QED
    BY <1>2, <2>1, <2>2, AddStack DEF To, Types
<1>15. CASE h.cmds = <<>>
  <2>1. Slots' /\ Beside' /\ Queued' /\ OneLeft'
    BY <1>3, <1>5, <1>9, <1>14, <1>15, ProcessesKeep DEF Machine
  <2> QED
    BY <1>3, <1>5, <1>13, <2>1 DEF Machine
<1>16. CASE h.cmds # <<>>
  <2>1. Ordered(h.cmds)
    <3>1. Ordered(<<"step">>)
      <4> DEFINE l == <<"step">>
      <4>1. Len(l) = 1 /\ l[1] = "step" /\ \A k \in DOMAIN l : k = 1
        OBVIOUS
      <4> HIDE DEF l
      <4>2. Ordered(l)
        BY <4>1 DEF Ordered
      <4> QED
        BY <4>2 DEF l
    <3> QED
      BY <1>4, <1>16, <3>1 DEF Orderly, Lists, Steps
  <2>2. Len(h.cmds) \in DOMAIN h.cmds
    BY <1>4, <1>16, EmptySeq
  <2>3. Queued' /\ m_CommandQueue' # <<>>
    BY <1>3, <1>4, <1>5, <1>6, <1>16, <2>1, QueueFilled DEF Ordered
  <2>4. Slots' /\ Beside'
    BY <1>3 DEF Machine, Slots, Beside, processVars
  <2>5. OneLeft'
    BY <2>3 DEF OneLeft
  <2> QED
    BY <1>3, <1>5, <1>13, <2>3, <2>4, <2>5 DEF Machine
<1> QED
  BY <1>15, <1>16

LEMMA CompileFileKeeps ==
  ASSUME Types, Machine, CompileFile
  PROVE  Machine'
<1>1. stack # <<>> /\ Head(stack).at = "file_cmd"
  BY DEF CompileFile, At
<1>2. PICK h \in Frames, t \in Seq(Frames) :
        /\ stack = Push(h, t) /\ h = Head(stack) /\ t = Tail(stack)
        /\ Runs(h, t) /\ Rests(t) /\ Top(stack, h, t)
  BY <1>1, Found
<1>3. /\ UNCHANGED <<processVars, build>>
      /\ UNCHANGED <<failed, hindrance, m_Clean, m_Build, m_RunAfterCompile>>
  BY DEF CompileFile, stateVars, histVars
<1>4. /\ Drained /\ ~failed /\ build.target = NoJob /\ m_CommandQueue = <<>>
      /\ ~Has(t, Halves)
  BY <1>1, <1>2 DEF Runs, Calls, NoBuild, CleanFrame
<1>5. CASE Return /\ UNCHANGED m_CommandQueue
  <2>1. Calm
    BY <1>3, <1>5 DEF Calm
  <2>2. stack' = t /\ ended = <<>> /\ NoBuild'
    BY <1>2, <1>3, <1>4, <1>5 DEF Return, Drained, NoBuild
  <2> QED
    BY <1>2, <1>3, <1>4, <2>1, <2>2, CalmPop DEF Machine
<1>6. ASSUME NEW l \in {<<"cc">>, <<"cc", "link">>},
             m_CommandQueue' = m_CommandQueue \o Commands(l), Continue(<<Frame("queue")>>)
      PROVE  Machine'
  <2>1. PICK f \in Frames : f.at = "queue" /\ stack' = Push(f, t)
    <3>1. \E f \in Frames : f.at = "queue" /\ To(f)
      BY <1>1, <1>6, ContinuePlain DEF Types, PlainAt
    <3> QED
      BY <1>2, <3>1 DEF To
  <2>2. l \in Seq(Kind) /\ l # <<>>
    <3>1. "cc" \in Kind /\ "link" \in Kind
      BY KindsAre
    <3> HIDE DEF Kind
    <3>2. CASE l = <<"cc">>
      BY <3>1, <3>2
    <3>3. CASE l = <<"cc", "link">>
      BY <3>1, <3>3
    <3> QED
      BY <3>2, <3>3
  <2>3. /\ l[Len(l)] # "log"
        /\ \A k, m \in DOMAIN l : k < m => l[k] = "cc"
    <3>1. CASE l = <<"cc">>
      BY <3>1
    <3>2. CASE l = <<"cc", "link">>
      BY <3>2
    <3> QED
      BY <3>1, <3>2
  <2>4. Queued' /\ m_CommandQueue' # <<>>
    BY <1>3, <1>4, <1>6, <2>2, <2>3, QueueFilled
  <2>5. Drained' /\ ended' = <<>> /\ ~failed'
    BY <1>3, <1>4 DEF Drained, processVars
  <2>6. /\ ~Has(t, Walks \cup Pauses) /\ ~Has(t, Calls) /\ ~Has(t, {"yield", "job_end"})
        /\ Silent(t, {"bsm_add"})
    BY <1>1, <1>2, HasParts DEF Runs, Fits, Chain, Calls, Pauses
  <2>7. /\ ~Has(t, Chain) /\ ~Has(t, Homes) /\ ~Has(t, {"bsm_next"}) /\ ~Has(t, {"bsm_add"})
        /\ ~Has(t, {"bsm", "bsm_state", "bsm_next"}) /\ ~Has(t, {"bsm_next", "bsm_add"})
        /\ ~Has(t, Calls \cup Halves) /\ ~Has(t, Calls \cup {"bsm_next"})
    BY <1>4, <2>6, HasParts
  <2>8. Rests(t)'
    <3>1. Silent(t, {"bsm_next"}) /\ ~Twice(t)
      BY <2>7, TwiceHas DEF Silent, Has
    <3> QED
      BY <1>2, <1>4, <2>5, <2>6, <2>7, <3>1 DEF Rests
  <2>9. Runs(f, t)'
    <3>1. Fits(f, t)
      BY <2>1, <2>6, <2>7 DEF Fits, Chain, Calls, Halves, Pauses
    <3> QED
      BY <1>4, <2>1, <2>4, <2>5, <2>7, <3>1 DEF Runs, Calls, Halves, Pauses
  <2>10. Stacked'
    BY <2>1, <2>8, <2>9, TurnStacked
  <2>11. Slots' /\ Beside' /\ OneLeft'
    BY <1>3, <2>4 DEF Machine, Slots, Beside, OneLeft, processVars
  <2> QED
    BY <1>3, <2>4, <2>10, <2>11 DEF Machine
<1> QED
  BY <1>5, <1>6 DEF CompileFile

-----------------------------------------------------------------------------
(* A build begins, or finds nothing to do.                                  *)

LEMMA JobsKeep ==
  ASSUME Types, Machine, BuildProject \/ BuildWorkspace
  PROVE  Machine'
<1>1. stack # <<>> /\ Head(stack).at \in {"build_jobs", "ws_jobs"}
  BY DEF BuildProject, BuildWorkspace, At
<1>2. PICK h \in Frames, t \in Seq(Frames) :
        /\ stack = Push(h, t) /\ h = Head(stack) /\ t = Tail(stack)
        /\ Runs(h, t) /\ Rests(t) /\ Top(stack, h, t)
  BY <1>1, Found
<1>3. UNCHANGED <<processVars, hindrance, m_RunAfterCompile>>
  BY DEF BuildProject, BuildWorkspace
<1>4. Drained /\ ~failed /\ build.target = NoJob /\ m_CommandQueue = <<>>
  BY <1>1, <1>2 DEF Runs, Calls, NoBuild
<1>5. /\ ~Has(t, Walks \cup Pauses) /\ ~Has(t, Calls) /\ ~Has(t, {"yield", "job_end"})
      /\ Silent(t, {"bsm_add"})
  BY <1>1, <1>2, HasParts DEF Runs, Fits, Chain, Calls, Pauses
<1>6. /\ ~Has(t, Chain) /\ ~Has(t, Homes) /\ ~Has(t, {"bsm_next"}) /\ ~Has(t, {"bsm_add"})
      /\ ~Has(t, {"bsm", "bsm_state", "bsm_next"}) /\ ~Has(t, {"bsm_next", "bsm_add"})
      /\ ~Has(t, Calls \cup {"bsm_next"}) /\ ~Has(t, Walks)
  BY <1>5, HasParts
<1>7. Silent(t, {"bsm_next"}) /\ ~Twice(t)
  BY <1>6, TwiceHas DEF Silent, Has
<1>8. Drained' /\ ended' = <<>>
  BY <1>3, <1>4 DEF Drained, processVars
<1>9. Has(t, Halves) => Idling /\ h.clean /\ ~h.build
  BY <1>1, <1>2 DEF Runs, CleanFrame
<1>10. ASSUME m_CommandQueue' = <<>>, ~failed'
       PROVE  Rests(t)'
  <2>1. Has(t, Halves) => Idling'
    BY <1>3, <1>8, <1>9, <1>10 DEF Idling
  <2> QED
    BY <1>2, <1>5, <1>6, <1>7, <1>8, <1>10, <2>1 DEF Rests
<1>11. CASE NothingToBuild
  <2>1. /\ stack' = t /\ m_CommandQueue' = m_CommandQueue /\ failed' = failed
        /\ build'.target = build.target
        /\ build' = [build EXCEPT !.job = "idle"] \/ build' = build
    BY <1>2, <1>11 DEF NothingToBuild, Return, Types, BuildType, Builds
  <2>2. Stacked'
    BY <1>4, <1>10, <2>1, PopStacked
  <2>3. Slots' /\ Beside' /\ Queued' /\ OneLeft'
    BY <1>3, <1>4, <2>1, ProcessesKeep DEF Machine, Drained
  <2> QED
    BY <1>3, <1>4, <2>1, <2>2, <2>3 DEF Machine
<1>12. ASSUME NEW f \in Frames, NEW g \in Frames, f.at = "bsm", g.at \in {"queue", "ws_end"},
              ToTwo(f, g), build'.job # "idle", build'.target \in Job, build'.state = "none",
              build'.next = "ProjectPreBuild", m_CommandQueue' = <<>>,
              m_Clean' = h.clean, m_Build' = h.build, failed' = FALSE
       PROVE  Machine'
  <2>1. Rests(t)'
    BY <1>10, <1>12
  <2>2. Has(t, Halves) => Idling' /\ CleanWalk' /\ CleanFrame(g)
    BY <1>3, <1>8, <1>9, <1>12 DEF Idling, CleanWalk, CleanStates, CleanFrame
  <2>3. Runs(g, t)'
    <3>1. Fits(g, t)
      BY <1>5, <1>6, <1>12 DEF Fits, Chain, Calls, Halves, Pauses
    <3>2. g.at \in Homes /\ g.at \in Walks /\ g.at \notin Calls \cup Halves \cup Pauses
      BY <1>12 DEF Homes, Walks, Calls, Halves, Pauses
    <3> QED
      BY <1>6, <1>8, <1>12, <2>2, <3>1, <3>2 DEF Runs
  <2>4. stack' = Push(f, Push(g, t)) /\ g.at \in Homes
    BY <1>2, <1>12 DEF ToTwo, Homes
  <2>5. Stacked' /\ stack' # <<>>
    BY <1>8, <1>12, <2>1, <2>3, <2>4, CallStacked
  <2>6. Slots' /\ Beside' /\ Queued' /\ OneLeft'
    BY <1>3, <1>4, <1>12, <2>5, ProcessesKeep DEF Machine
  <2> QED
    BY <1>3, <1>12, <2>5, <2>6 DEF Machine
<1> QED
  BY <1>2, <1>11, <1>12, JobsStep

-----------------------------------------------------------------------------
(* DoRunQueue executes a command.                                           *)

(* With a command to execute the function was called by OnJobEnd from the   *)
(* main loop, or by a menu command.                                         *)
LEMMA Busy ==
  ASSUME Types, NEW h \in Frames, NEW t \in Seq(Frames), Runs(h, t), Rests(t),
         h.at \in Homes, m_CommandQueue # <<>>
  PROVE  /\ ~failed /\ ~Has(t, Walks \cup Pauses) /\ ~Has(t, Calls) /\ ~Has(t, Halves)
         /\ ~Twice(t) /\ ~Has(t, {"yield", "job_end"}) /\ Silent(t, {"bsm_add"})
         /\ t = <<>> \/ Rooted(t)
<1>1. ~NoBuild
  BY DEF NoBuild
<1>2. ~failed /\ ~Has(t, Homes) /\ ~Has(t, Halves) /\ ~Twice(t)
  BY <1>1 DEF Runs, Rests, Idling, Homes
<1>3. ~Has(t, Calls) /\ ~Has(t, {"yield", "job_end"}) /\ Silent(t, {"bsm_add"})
  BY HasParts DEF Runs, Fits, Homes, Pauses
<1>4. ~Has(t, Walks) /\ ~Has(t, Walks \cup Pauses)
  <2>1. ~Has(t, Chain)
    BY <1>2, Caller DEF Rests
  <2>2. ~Has(t, Walks)
    BY <1>2, <2>1, HasParts
  <2>3. ~Has(t, Walks \cup Calls)
    BY <1>3, <2>2, HasUnion
  <2>4. ~Has(t, Pauses)
    BY <2>3, Caller DEF Rests
  <2> QED
    BY <2>2, <2>4, HasUnion
<1>5. ASSUME t # <<>>
      PROVE  Rooted(t)
  <2>1. t[1] \in Frames /\ 1 \in DOMAIN t /\ Len(t) \in DOMAIN t
    BY <1>5, EmptySeq, LenProperties
  <2>2. t[1].at \notin Walks \cup Pauses \cup Calls \cup Halves
        /\ t[1].at \notin {"run", "run_cmd", "job_after", "job_end", "yield"}
    BY <1>2, <1>3, <1>4, <2>1 DEF Has, Rests
  <2>3. t[1].at = "pending"
    BY <2>1, <2>2, FramesAre
       DEF PlainAt, BuildAt, Walks, Chain, Homes, Pauses, Calls, Halves
  <2>4. Has(t, Halves \cup {"pending"})
    BY <2>1, <2>3 DEF Has
  <2>5. t[Len(t)].at \in Halves \cup {"pending"}
    BY <2>4, Caller DEF Rests
  <2>6. t[Len(t)].at \notin Halves
    BY <1>2, <2>1 DEF Has
  <2> QED
    BY <1>5, <2>5, <2>6 DEF Rooted
<1> QED
  BY <1>2, <1>3, <1>4, <1>5

(* The first frame is then DoRunQueue's again.                              *)
LEMMA BusyStacked ==
  ASSUME Types, NEW h \in Frames, NEW t \in Seq(Frames), Runs(h, t), Rests(t),
         h.at \in Homes, m_CommandQueue # <<>>,
         NEW f \in Frames, f.at = "queue", stack' = Push(f, t), UNCHANGED ended,
         failed' => NoBuild',
         m_CommandQueue' = <<>> => IsProcessRunning' \/ NoBuild'
  PROVE  Stacked' /\ stack' # <<>>
<1>1. /\ ~failed /\ ~Has(t, Walks \cup Pauses) /\ ~Has(t, Calls) /\ ~Has(t, Halves)
      /\ ~Twice(t) /\ ~Has(t, {"yield", "job_end"}) /\ Silent(t, {"bsm_add"})
      /\ t = <<>> \/ Rooted(t)
  BY Busy
<1>2. /\ ~Has(t, Chain) /\ ~Has(t, Homes) /\ ~Has(t, {"bsm_next"}) /\ ~Has(t, {"bsm_add"})
      /\ ~Has(t, {"bsm", "bsm_state", "bsm_next"}) /\ ~Has(t, {"bsm_next", "bsm_add"})
      /\ ~Has(t, Calls \cup Halves) /\ ~Has(t, Calls \cup {"bsm_next"})
  BY <1>1, HasParts
<1>3. Rests(t)'
  <2>1. Silent(t, {"bsm_next"})
    BY <1>2 DEF Silent, Has
  <2> QED
    BY <1>1, <1>2, <2>1 DEF Rests
<1>4. Runs(f, t)'
  <2>1. Fits(f, t)
    BY <1>1, <1>2 DEF Fits, Chain, Calls, Halves, Pauses
  <2>2. ~Rooted(t) => t = <<>> /\ ended' = <<>>
    BY <1>1 DEF Runs, Homes
  <2> QED
    BY <1>1, <1>2, <2>1, <2>2 DEF Runs, Calls, Halves, Pauses
<1> QED
  BY <1>3, <1>4, TurnStacked

(* What the queue holds after its first command.                            *)
LEMMA QueueIs ==
  ASSUME QueueType, m_CommandQueue # <<>>
  PROVE  /\ Len(m_CommandQueue) \in Nat \ {0} /\ 1 \in DOMAIN m_CommandQueue
         /\ Head(m_CommandQueue) = m_CommandQueue[1]
         /\ \A k \in DOMAIN Tail(m_CommandQueue) :
              /\ k \in Int /\ k + 1 \in DOMAIN m_CommandQueue /\ 1 < k + 1
              /\ Tail(m_CommandQueue)[k] = m_CommandQueue[k + 1]
         /\ Tail(m_CommandQueue) # <<>> =>
              Tail(m_CommandQueue)[Len(Tail(m_CommandQueue))]
                = m_CommandQueue[Len(m_CommandQueue)]
         /\ Tail(m_CommandQueue) = <<>> => Len(m_CommandQueue) = 1
<1> DEFINE q == m_CommandQueue
<1>1. q \in Seq(Cmd) /\ q # <<>>
  BY DEF QueueType
<1> HIDE DEF q
<1>2. /\ Len(q) \in Nat \ {0} /\ DOMAIN q = 1..Len(q) /\ Head(q) = q[1]
      /\ Tail(q) \in Seq(Cmd) /\ Len(Tail(q)) = Len(q) - 1
  BY <1>1, EmptySeq, HeadTailProperties
<1>3. DOMAIN Tail(q) = 1..(Len(q) - 1)
  BY <1>2, LenProperties
<1>4. \A k \in 1..(Len(q) - 1) : Tail(q)[k] = q[k + 1]
  BY <1>1, <1>2
<1>5. Tail(q) # <<>> => Tail(q)[Len(Tail(q))] = q[Len(q)]
  <2>1. Tail(q) # <<>> => Len(Tail(q)) \in Nat \ {0}
    BY <1>2, EmptySeq
  <2>2. Tail(q) # <<>> => Len(q) - 1 \in 1..(Len(q) - 1) /\ (Len(q) - 1) + 1 = Len(q)
    BY <1>2, <2>1
  <2> QED
    BY <1>2, <1>4, <2>2
<1>6. Tail(q) = <<>> => Len(q) = 1
  <2>1. Len(<<>>) = 0
    OBVIOUS
  <2> QED
    BY <1>2, <2>1
<1>7. 1 \in DOMAIN q
  BY <1>2
<1>8. \A k \in DOMAIN Tail(q) : k \in Int /\ k + 1 \in DOMAIN q /\ 1 < k + 1
                              /\ Tail(q)[k] = q[k + 1]
  BY <1>2, <1>3, <1>4
<1> QED
  BY <1>2, <1>5, <1>6, <1>7, <1>8 DEF q

LEMMA TakenQueued ==
  ASSUME Types, Queued, m_CommandQueue # <<>>, m_CommandQueue' = Tail(m_CommandQueue),
         build'.target = build.target,
         \A i \in Slot : child'[i] \subseteq child[i] \cup {Head(m_CommandQueue)}
  PROVE  Queued'
<1> DEFINE q == m_CommandQueue
           r == Tail(m_CommandQueue)
           n == Len(m_CommandQueue)
           l == Len(Tail(m_CommandQueue))
<1>1. /\ n \in Nat \ {0} /\ 1 \in DOMAIN q /\ Head(q) = q[1]
      /\ \A k \in DOMAIN r : k \in Int /\ k + 1 \in DOMAIN q /\ 1 < k + 1 /\ r[k] = q[k + 1]
      /\ r # <<>> => r[l] = q[n]
  BY QueueIs DEF Types
<1>2. /\ q[n].kind # "log"
      /\ Waits(q[n]) \/ build.target = NoJob
      /\ \A k, m \in DOMAIN q : q[k].job = q[m].job /\ (k < m => MayFollow(q[k], q[m]))
      /\ \A i \in Slot : \A c \in child[i] : \A k \in DOMAIN q :
           c.job = q[k].job /\ MayFollow(c, q[k])
  BY DEF Queued
<1> HIDE DEF q, r, n, l
<1>3. r # <<>> => r[l].kind # "log" /\ (Waits(r[l]) \/ build'.target = NoJob)
  BY <1>1, <1>2
<1>4. ASSUME NEW k \in DOMAIN r, NEW m \in DOMAIN r
      PROVE  r[k].job = r[m].job /\ (k < m => MayFollow(r[k], r[m]))
  <2>1. /\ k + 1 \in DOMAIN q /\ m + 1 \in DOMAIN q /\ (k < m => k + 1 < m + 1)
        /\ r[k] = q[k + 1] /\ r[m] = q[m + 1]
    BY <1>1
  <2> QED
    BY <1>2, <2>1
<1>5. ASSUME NEW i \in Slot, NEW c \in child'[i], NEW k \in DOMAIN r
      PROVE  c.job = r[k].job /\ MayFollow(c, r[k])
  <2>1. k + 1 \in DOMAIN q /\ 1 < k + 1 /\ r[k] = q[k + 1]
    BY <1>1
  <2>2. c \in child[i] \/ c = q[1]
    BY <1>1 DEF q
  <2> QED
    BY <1>1, <1>2, <2>1, <2>2
<1>6. m_CommandQueue' = r
  BY DEF r
<1> QED
  BY <1>3, <1>4, <1>5, <1>6 DEF Queued, l, r

LEMMA LaunchKeeps ==
  ASSUME Types, Machine, stack # <<>>, Head(stack).at \in {"queue", "queue_next"},
         m_CommandQueue # <<>>, NEW i \in Slot, IsFree(i), Launch(i),
         ~IsProcessRunning \/ ~Waits(Head(m_CommandQueue))
  PROVE  Machine'
<1>1. PICK h \in Frames, t \in Seq(Frames) :
        /\ stack = Push(h, t) /\ h = Head(stack) /\ t = Tail(stack)
        /\ Runs(h, t) /\ Rests(t) /\ Top(stack, h, t)
  BY Found
<1>2. PICK f \in Frames : f.at = "queue" /\ stack' = Push(f, t)
  BY <1>1, LaunchStack DEF Types, To
<1>3. h.at \in Homes /\ ~failed
  BY <1>1, Busy DEF Homes
<1> DEFINE c == Head(m_CommandQueue)
<1>4. /\ 1 \in DOMAIN m_CommandQueue /\ c = m_CommandQueue[1]
      /\ m_CommandQueue[Len(m_CommandQueue)].kind # "log"
      /\ Tail(m_CommandQueue) = <<>> => c = m_CommandQueue[Len(m_CommandQueue)]
  BY QueueIs DEF Types, Machine, Queued
<1>5. UNCHANGED <<hindrance, m_Clean, m_Build, m_RunAfterCompile>> /\ UNCHANGED ended
  BY DEF Launch, stateVars, processVars
<1>6. CASE c.kind = "log" /\ TakeCommand /\ UNCHANGED <<processVars, build, failed>>
  <2>1. m_CommandQueue' = Tail(m_CommandQueue)
    BY <1>6 DEF TakeCommand
  <2>2. m_CommandQueue' # <<>>
    BY <1>4, <1>6, <2>1
  <2>3. Stacked' /\ stack' # <<>>
    BY <1>1, <1>2, <1>3, <1>5, <1>6, <2>2, BusyStacked
  <2>4. Queued'
    BY <1>6, <2>1, TakenQueued DEF Machine, processVars
  <2>5. Slots' /\ Beside' /\ OneLeft'
    BY <1>6, <2>2 DEF Machine, Slots, Beside, OneLeft, processVars
  <2> QED
    BY <1>5, <1>6, <2>3, <2>4, <2>5 DEF Machine
<1>7. CASE /\ c.kind # "log" /\ TakeCommand
           /\ m_Processes' = [m_Processes EXCEPT ![i] = TRUE]
           /\ m_Pid' = [m_Pid EXCEPT ![i] = TRUE]
           /\ child' = [child EXCEPT ![i] = @ \cup {c}]
           /\ UNCHANGED <<ended, build, failed>>
  <2>1. m_CommandQueue' = Tail(m_CommandQueue) /\ build' = build /\ ended' = ended
    BY <1>7 DEF TakeCommand
  <2>2. /\ m_Processes'[i] /\ m_Pid'[i] /\ child'[i] = {c}
        /\ \A j \in Slot \ {i} : /\ m_Processes'[j] = m_Processes[j]
                                 /\ m_Pid'[j] = m_Pid[j] /\ child'[j] = child[j]
    BY <1>7 DEF Types, SlotsType, Machine, Slots, IsFree
  <2>3. IsProcessRunning'
    BY <2>2 DEF IsProcessRunning
  <2>4. Stacked' /\ stack' # <<>>
    BY <1>1, <1>2, <1>3, <1>7, <2>1, <2>3, BusyStacked
  <2>5. Queued'
    BY <2>1, <2>2, TakenQueued DEF Machine
  <2>6. Slots'
    <3>1. \A k \in DOMAIN ended : ended[k].slot \in Slot /\ ended[k].slot # i
      <4>1. \A k \in DOMAIN ended : ended[k] \in Events
        BY DEF Types, SlotsType
      <4>2. \A k \in DOMAIN ended : ended[k].slot \in Slot
        BY <4>1, EventsAre
      <4> QED
        BY <4>2 DEF Machine, Slots, IsFree
    <3>2. \A k \in DOMAIN ended : m_Pid'[ended[k].slot] /\ ~m_Processes'[ended[k].slot]
      BY <2>2, <3>1 DEF Machine, Slots
    <3>3. \A j \in Slot : m_Processes'[j] => m_Pid'[j] /\ child'[j] # {}
      BY <2>2 DEF Machine, Slots
    <3>6. \A j \in Slot : ~m_Processes'[j] => child'[j] = {}
      BY <2>2 DEF Machine, Slots
    <3>8. ASSUME NEW j \in Slot, NEW d \in child'[j], NEW e \in child'[j]
          PROVE  d = e
      BY <2>2, <3>8 DEF Machine, Slots
    <3>4. \A j \in Slot : m_Pid'[j] /\ ~m_Processes'[j] => \E k \in DOMAIN ended : ended[k].slot = j
      BY <2>2 DEF Machine, Slots
    <3>5. \A k, m \in DOMAIN ended : ended[k].slot = ended[m].slot => k = m
      BY DEF Machine, Slots
    <3>7. ended' = ended
      BY <2>1
    <3> QED
      BY <3>2, <3>3, <3>4, <3>5, <3>6, <3>7, <3>8, Zenon DEF Slots
  <2>7. Beside'
    <3>1. ASSUME NEW j \in Slot \ {i}, NEW d \in child[j]
          PROVE  d.job = c.job /\ ~Alone(d) /\ ~Alone(c)
      <4>1. d.job = c.job /\ MayFollow(d, c)
        BY <1>4 DEF Machine, Queued
      <4>2. IsProcessRunning
        BY <3>1 DEF Machine, Slots, IsProcessRunning
      <4> QED
        BY <1>7, <4>1, <4>2 DEF MayFollow, Waits
    <3> HIDE DEF c
    <3>2. ASSUME NEW j \in Slot, NEW k \in Slot, NEW d \in child'[j], NEW e \in child'[k]
          PROVE  d.job = e.job /\ (Alone(d) => j = k /\ d = e)
      <4>1. CASE j = i /\ k = i
        BY <2>2, <3>2, <4>1
      <4>2. CASE j = i /\ k # i
        BY <2>2, <3>1, <3>2, <4>2
      <4>3. CASE j # i /\ k = i
        BY <2>2, <3>1, <3>2, <4>3
      <4>4. CASE j # i /\ k # i
        BY <2>2, <3>2, <4>4 DEF Machine, Beside
      <4> QED
        BY <4>1, <4>2, <4>3, <4>4
    <3> QED
      BY <3>2 DEF Beside
  <2>8. OneLeft'
    <3>1. ASSUME m_CommandQueue' = <<>>, build'.target # NoJob
          PROVE  \A j \in Slot : m_Processes'[j] => j = i
      <4>1. Waits(c)
        BY <1>4, <2>1, <3>1 DEF Machine, Queued
      <4> QED
        BY <2>2, <4>1 DEF IsProcessRunning
    <3> QED
      BY <2>3, <2>4, <3>1 DEF OneLeft
  <2> QED
    BY <1>5, <2>1, <2>4, <2>5, <2>6, <2>7, <2>8 DEF Machine
<1>8. CASE /\ m_Processes' = [m_Processes EXCEPT ![i] = FALSE]
           /\ m_Pid' = [m_Pid EXCEPT ![i] = FALSE]
           /\ ResetBuildState /\ UNCHANGED <<child, ended>>
  <2>1. UNCHANGED processVars
    <3>1. m_Processes[i] = FALSE /\ m_Pid[i] = FALSE
      BY DEF IsFree, Types, SlotsType
    <3>2. m_Processes' = m_Processes /\ m_Pid' = m_Pid
      BY <1>8, <3>1 DEF Types, SlotsType
    <3> QED
      BY <1>8, <3>2 DEF processVars
  <2>2. NoBuild' /\ m_CommandQueue' = <<>> /\ build'.target = NoJob
    BY <1>8, IdleIs DEF ResetBuildState, NoBuild
  <2>3. Stacked' /\ stack' # <<>>
    BY <1>1, <1>2, <1>3, <1>8, <2>2, BusyStacked
  <2>4. Slots' /\ Beside' /\ Queued' /\ OneLeft'
    BY <2>1, <2>2, <2>3, ProcessesKeep DEF Machine
  <2> QED
    BY <1>5, <2>2, <2>3, <2>4 DEF Machine
<1> QED
  BY <1>6, <1>7, <1>8 DEF Launch

LEMMA DoRunQueueKeeps ==
  ASSUME Types, Machine, DoRunQueue
  PROVE  Machine'
<1>1. stack # <<>> /\ Head(stack).at = "queue" /\ At("queue") /\ ~m_RunAfterCompile'
      /\ UNCHANGED <<hindrance, m_Clean, m_Build>>
  BY DEF DoRunQueue, At, Machine, stateVars
<1>2. CASE /\ FreeSlots = {} \/ IF m_CommandQueue = <<>> THEN IsProcessRunning ELSE MustWait
           /\ Return
           /\ UNCHANGED <<m_CommandQueue, processVars, build, m_LastWasRun, failed>>
  <2>1. Calm
    BY <1>1, <1>2 DEF Calm
  <2> QED
    BY <1>1, <1>2, <2>1, QueueReturns
<1>3. CASE FreeSlots # {} /\ m_CommandQueue # <<>> /\ ~MustWait
           /\ Launch(GetNextAvailableProcessIndex)
  <2>1. GetNextAvailableProcessIndex \in Slot /\ IsFree(GetNextAvailableProcessIndex)
    BY <1>3, NextAvailable
  <2>2. ~IsProcessRunning \/ ~Waits(Head(m_CommandQueue))
    BY <1>3 DEF MustWait
  <2> QED
    BY <1>1, <1>3, <2>1, <2>2, LaunchKeeps
<1>4. CASE /\ FreeSlots # {} /\ m_CommandQueue = <<>> /\ ~IsProcessRunning
           /\ Continue(<<Frame("bsm"), [at |-> "queue_next", slot |-> GetNextAvailableProcessIndex]>>)
           /\ UNCHANGED <<m_CommandQueue, processVars, build, m_LastWasRun, failed>>
  <2>1. Calm
    BY <1>1, <1>4 DEF Calm
  <2> QED
    BY <1>1, <1>4, <2>1, QueueCalls
<1> QED
  BY <1>2, <1>3, <1>4 DEF DoRunQueue

LEMMA RunNextCommandKeeps ==
  ASSUME Types, Machine, RunNextCommand
  PROVE  Machine'
<1>1. stack # <<>> /\ Head(stack).at = "queue_next" /\ At("queue_next")
      /\ UNCHANGED <<hindrance, m_Clean, m_Build>>
  BY DEF RunNextCommand, At, stateVars
<1>2. PICK h \in Frames, t \in Seq(Frames) :
        /\ stack = Push(h, t) /\ h = Head(stack) /\ t = Tail(stack)
        /\ Runs(h, t) /\ Rests(t) /\ Top(stack, h, t)
  BY <1>1, Found
<1>3. CASE m_CommandQueue # <<>> /\ Launch(Head(stack).slot)
  <2>1. Drained
    BY <1>1, <1>2, <1>3 DEF Runs, NoBuild, Walks, Homes
  <2>2. Head(stack).slot \in Slot
    BY <1>1, QueueSlot DEF Types
  <2>3. IsFree(Head(stack).slot) /\ ~IsProcessRunning
    BY <2>1, <2>2 DEF Drained, IsFree, IsProcessRunning
  <2> QED
    BY <1>1, <1>3, <2>2, <2>3, LaunchKeeps
<1>4. ASSUME NEW f \in Frames, f.at = "bsm", ToTwo(f, Head(stack)), m_CommandQueue = <<>>,
             UNCHANGED <<m_CommandQueue, processVars, build, m_RunAfterCompile, failed>>
      PROVE  Machine'
  <2>1. Calm /\ ~m_RunAfterCompile'
    BY <1>1, <1>4 DEF Calm, Machine
  <2> QED
    BY <1>1, <1>4, <2>1, NextCommandCalls
<1>5. CASE /\ ResetBuildState /\ m_RunAfterCompile' = FALSE /\ stack' = Tail(stack)
           /\ UNCHANGED <<processVars, failed>>
  <2>1. Calm
    BY <1>1, <1>5 DEF Calm, ResetBuildState
  <2> QED
    BY <1>1, <1>5, <2>1, ResetKeeps
<1>6. ~m_RunAfterCompile
  BY DEF Machine
<1> QED
  BY <1>3, <1>4, <1>5, <1>6, NextCommandStack DEF Types

-----------------------------------------------------------------------------
(* A process ends, and OnJobEnd is told.                                    *)

(* While a process runs, or the end of one is not yet handled.              *)
LEMMA Undrained ==
  ASSUME Types, Machine, Polling \/ At("pending") \/ At("idle"), ~Drained,
         ended # <<>> \/ ~(At("pending") \/ At("idle"))
  PROVE  /\ Rests(stack) /\ (failed => NoBuild) /\ ~Has(stack, {"job_end"})
         /\ stack # <<>> => Rooted(stack)
         /\ Has(stack, Walks \cup Pauses) => NoBuild
         /\ ~Has(stack, {"bsm_next", "bsm_add"}) /\ ~Has(stack, {"bsm_next"})
         /\ ~Has(stack, Calls) /\ ~Has(stack, Halves)
<1>1. CASE stack = <<>>
  <2>1. Rests(stack) /\ (failed => NoBuild) /\ \A S : ~Has(stack, S)
    BY <1>1, TopNothing DEF Rests, Machine, Stacked
  <2> QED
    BY <1>1, <2>1
<1>2. CASE stack # <<>>
  <2>1. PICK h \in Frames, t \in Seq(Frames) :
          /\ stack = Push(h, t) /\ h = Head(stack) /\ t = Tail(stack)
          /\ Runs(h, t) /\ Rests(t) /\ Top(stack, h, t)
    BY <1>2, Found
  <2>2. h.at \in {"yield", "idle", "pending"}
    BY <1>2, <2>1 DEF Polling, At
  <2>3. h.at = "pending" \/ Rooted(t)
    BY <2>1, <2>2 DEF Runs
  <2>4. Rests(stack)
    BY <2>1, <2>2, <2>3, Bury
  <2>5. /\ failed => NoBuild
        /\ ~Has(stack, {"job_end"})
    <3>1. ~Has(t, {"yield", "job_end"})
      BY <2>1 DEF Runs, Fits
    <3>2. ~Has(t, {"job_end"})
      BY <3>1, HasSubset
    <3> QED
      BY <2>1, <2>2, <3>2 DEF Runs, Top
  <2>6. /\ Has(stack, Walks \cup Pauses) => NoBuild
        /\ ~Has(stack, {"bsm_next", "bsm_add"}) /\ ~Has(stack, Calls) /\ ~Has(stack, Halves)
        /\ Rooted(stack)
    BY <1>2, <2>4 DEF Rests, Idling
  <2> QED
    BY <2>4, <2>5, <2>6, HasParts
<1> QED
  BY <1>1, <1>2

LEMMA TerminateKeeps ==
  ASSUME Types, Machine, NEW i \in Slot, Terminate(i)
  PROVE  Machine'
<1>1. PICK c \in child[i], code \in {0, 1} :
        /\ child' = [child EXCEPT ![i] = @ \ {c}]
        /\ ended' = Append(ended, [slot |-> i, code |-> code, kind |-> c.kind])
  BY DEF Terminate
<1>2. /\ m_Processes' = [m_Processes EXCEPT ![i] = FALSE] /\ m_Pid' = m_Pid /\ stack' = stack
      /\ UNCHANGED <<m_CommandQueue, build, m_Clean, m_Build, m_RunAfterCompile, failed, hindrance>>
  BY DEF Terminate, stateVars, histVars
<1>3. /\ ~m_Processes'[i] /\ child'[i] = {} /\ m_Processes[i] /\ m_Pid[i]
      /\ \A j \in Slot \ {i} : m_Processes'[j] = m_Processes[j] /\ child'[j] = child[j]
  <2>1. \A d \in child[i] : d = c
    BY DEF Machine, Slots
  <2>2. child'[i] = child[i] \ {c}
    BY <1>1 DEF Types, SlotsType
  <2> QED
    BY <1>1, <1>2, <2>1, <2>2 DEF Types, SlotsType, Machine, Slots
<1>4. /\ Len(ended) \in Nat /\ DOMAIN ended = 1..Len(ended)
      /\ Len(ended') = Len(ended) + 1 /\ DOMAIN ended' = 1..(Len(ended) + 1)
      /\ \A k \in DOMAIN ended : ended'[k] = ended[k]
      /\ ended'[Len(ended) + 1].slot = i
  BY <1>1 DEF Types, SlotsType
<1>5. \A k \in DOMAIN ended : ended[k].slot \in Slot /\ ended[k].slot # i
  <2>1. \A k \in DOMAIN ended : ended[k] \in Events
    BY DEF Types, SlotsType
  <2>2. \A k \in DOMAIN ended : ended[k].slot \in Slot
    BY <2>1, EventsAre
  <2> QED
    BY <1>3, <2>2 DEF Machine, Slots
<1>6. \A k \in DOMAIN ended' : k \in DOMAIN ended \/ (k = Len(ended) + 1 /\ k \notin DOMAIN ended)
  BY <1>4
<1>7. Slots'
  <2>1. \A j \in Slot : m_Processes'[j] => m_Pid'[j] /\ child'[j] # {}
    BY <1>2, <1>3 DEF Machine, Slots
  <2>2. \A j \in Slot : ~m_Processes'[j] => child'[j] = {}
    BY <1>3 DEF Machine, Slots
  <2>3. ASSUME NEW j \in Slot, NEW d \in child'[j], NEW e \in child'[j]
        PROVE  d = e
    BY <1>3, <2>3 DEF Machine, Slots
  <2>4. \A k \in DOMAIN ended' : m_Pid'[ended'[k].slot] /\ ~m_Processes'[ended'[k].slot]
    BY <1>2, <1>3, <1>4, <1>5, <1>6 DEF Machine, Slots
  <2>5. ASSUME NEW k \in DOMAIN ended', NEW m \in DOMAIN ended', ended'[k].slot = ended'[m].slot
        PROVE  k = m
    BY <1>4, <1>5, <1>6, <2>5 DEF Machine, Slots
  <2>6. ASSUME NEW j \in Slot, m_Pid'[j], ~m_Processes'[j]
        PROVE  \E k \in DOMAIN ended' : ended'[k].slot = j
    <3>1. CASE j = i
      <4>1. Len(ended) + 1 \in DOMAIN ended'
        BY <1>4
      <4> QED
        BY <1>4, <3>1, <4>1
    <3>2. CASE j # i
      <4>1. PICK k \in DOMAIN ended : ended[k].slot = j
        BY <1>2, <1>3, <2>6, <3>2 DEF Machine, Slots
      <4>2. k \in DOMAIN ended'
        BY <1>4
      <4> QED
        BY <1>4, <4>1, <4>2
    <3> QED
      BY <3>1, <3>2
  <2> QED
    BY <2>1, <2>2, <2>3, <2>4, <2>5, <2>6, Zenon DEF Slots
<1>8. \A j \in Slot : child'[j] \subseteq child[j]
  BY <1>3
<1>9. Beside'
  BY <1>8 DEF Machine, Beside
<1>10. Queued'
  BY <1>2, <1>8 DEF Machine, Queued
<1>11. ~Drained /\ ~Drained'
  BY <1>1, <1>3, <1>4, EmptySeq DEF Drained
<1>12. /\ Rests(stack) /\ (failed => NoBuild) /\ (stack # <<>> => Rooted(stack))
       /\ Has(stack, Walks \cup Pauses) => NoBuild
       /\ ~Has(stack, {"bsm_next", "bsm_add"}) /\ ~Has(stack, {"bsm_next"})
       /\ ~Has(stack, Calls) /\ ~Has(stack, Halves)
  <2>1. Polling /\ ~(At("pending") \/ At("idle"))
    BY DEF Terminate, Polling, At
  <2> QED
    BY <1>11, <2>1, Undrained
<1>13. NoBuild <=> NoBuild'
  BY <1>2 DEF NoBuild
<1>14. Stacked'
  <2>1. ~Has(stack, Calls \cup Halves)
    BY <1>12, HasUnion
  <2>2. PICK s \in Seq(Frames) : s = stack
    BY DEF Types, StackType
  <2>3. Rests(s)'
    BY <1>2, <1>12, <1>13, <2>1, <2>2 DEF Rests
  <2> QED
    BY <1>2, <1>12, <1>13, <2>2, <2>3, PopStacked
<1>15. OneLeft'
  <2>1. ASSUME m_CommandQueue' = <<>>, build'.target # NoJob
        PROVE  /\ stack = <<>>
               /\ \A j, k \in Slot : m_Processes'[j] /\ m_Processes'[k] => j = k
               /\ \A j, k \in Slot : m_Pid'[j] /\ m_Pid'[k] => j = k
               /\ Len(ended') <= 1
    <3>1. stack = <<>>
      <4>1. stack # <<>> => Has(stack, Walks \cup Pauses)
        <5>1. stack # <<>> => 1 \in DOMAIN stack /\ stack[1].at = "yield"
          BY StackIs, EmptySeq, LenProperties DEF Types, StackType, Terminate, Polling, At
        <5> QED
          BY <5>1 DEF Has, Pauses
      <4> QED
        BY <1>2, <1>12, <2>1, <4>1 DEF NoBuild
    <3>2. \A j, k \in Slot : m_Pid[j] /\ m_Pid[k] => j = k
      BY <1>2, <2>1, <3>1 DEF Machine, OneLeft
    <3>3. \A k \in DOMAIN ended : FALSE
      BY <1>3, <1>5, <3>2 DEF Machine, Slots
    <3>4. Len(ended) = 0
      BY <1>4, <3>3, LastIs
    <3> QED
      BY <1>2, <1>3, <1>4, <3>1, <3>2, <3>4 DEF Machine, Slots
  <2> QED
    BY <2>1 DEF OneLeft
<1> QED
  BY <1>2, <1>7, <1>9, <1>10, <1>14, <1>15 DEF Machine

(* The first of the events.                                                 *)
LEMMA EndedIs ==
  ASSUME SlotsType, ended # <<>>
  PROVE  /\ Len(ended) \in Nat \ {0} /\ 1 \in DOMAIN ended /\ Head(ended) = ended[1]
         /\ \A k \in DOMAIN Tail(ended) :
              /\ k \in Int /\ k + 1 \in DOMAIN ended /\ k + 1 # 1
              /\ Tail(ended)[k] = ended[k + 1]
         /\ \A k \in DOMAIN ended \ {1} :
              k - 1 \in DOMAIN Tail(ended) /\ Tail(ended)[k - 1] = ended[k]
         /\ Len(Tail(ended)) = Len(ended) - 1
<1> DEFINE q == ended
<1>1. q \in Seq(Events) /\ q # <<>>
  BY DEF SlotsType
<1> HIDE DEF q
<1>2. /\ Len(q) \in Nat \ {0} /\ DOMAIN q = 1..Len(q) /\ Head(q) = q[1]
      /\ Tail(q) \in Seq(Events) /\ Len(Tail(q)) = Len(q) - 1
  BY <1>1, EmptySeq, HeadTailProperties
<1>3. DOMAIN Tail(q) = 1..(Len(q) - 1)
  BY <1>2, LenProperties
<1>4. \A k \in 1..(Len(q) - 1) : Tail(q)[k] = q[k + 1]
  BY <1>1, <1>2
<1>5. 1 \in DOMAIN q
  BY <1>2
<1>6. \A k \in DOMAIN Tail(q) : k \in Int /\ k + 1 \in DOMAIN q /\ k + 1 # 1
                              /\ Tail(q)[k] = q[k + 1]
  BY <1>2, <1>3, <1>4
<1>7. ASSUME NEW k \in DOMAIN q \ {1}
      PROVE  k - 1 \in DOMAIN Tail(q) /\ Tail(q)[k - 1] = q[k]
  <2>1. k - 1 \in 1..(Len(q) - 1) /\ (k - 1) + 1 = k
    BY <1>2
  <2> QED
    BY <1>3, <1>4, <2>1
<1> QED
  BY <1>2, <1>5, <1>6, <1>7 DEF q

(* The slot is freed; the stack is what it was, below the new frames.       *)
LEMMA EndProcesses ==
  ASSUME Types, Machine, OnJobEnd
  PROVE  /\ Slots' /\ Beside' /\ Queued'
         /\ stack' # <<>> => OneLeft'
         /\ m_Processes' = m_Processes
         /\ m_CommandQueue = <<>> /\ ~IsProcessRunning => Drained' \/ NoBuild
<1> DEFINE e == Head(ended)
<1>1. /\ ended # <<>> /\ ended' = Tail(ended)
      /\ m_Pid' = [m_Pid EXCEPT ![e.slot] = FALSE]
      /\ m_Processes' = [m_Processes EXCEPT ![e.slot] = FALSE]
      /\ UNCHANGED <<m_CommandQueue, child, build>>
  BY DEF OnJobEnd
<1>2. /\ Len(ended) \in Nat \ {0} /\ 1 \in DOMAIN ended /\ e = ended[1]
      /\ \A k \in DOMAIN ended' : /\ k \in Int /\ k + 1 \in DOMAIN ended /\ k + 1 # 1
                                  /\ ended'[k] = ended[k + 1]
      /\ \A k \in DOMAIN ended \ {1} : k - 1 \in DOMAIN ended' /\ ended'[k - 1] = ended[k]
      /\ Len(ended') = Len(ended) - 1
  BY <1>1, EndedIs DEF Types
<1>3. e.slot \in Slot /\ m_Pid[e.slot] /\ ~m_Processes[e.slot]
  <2>1. e \in Events
    BY <1>1, <1>2 DEF Types, SlotsType
  <2> QED
    BY <1>2, <2>1, EventsAre DEF Machine, Slots
<1> HIDE DEF e
<1>4. m_Processes' = m_Processes
  BY <1>1, <1>3 DEF Types, SlotsType
<1>5. ~m_Pid'[e.slot] /\ \A i \in Slot \ {e.slot} : m_Pid'[i] = m_Pid[i]
  BY <1>1, <1>3 DEF Types, SlotsType
<1>6. Slots'
  <2>1. \A i \in Slot : m_Processes'[i] => m_Pid'[i] /\ child'[i] # {}
    BY <1>1, <1>3, <1>4, <1>5 DEF Machine, Slots
  <2>2. /\ \A i \in Slot : ~m_Processes'[i] => child'[i] = {}
        /\ \A i \in Slot : \A c, d \in child'[i] : c = d
    BY <1>1, <1>4 DEF Machine, Slots
  <2>3. ASSUME NEW k \in DOMAIN ended'
        PROVE  m_Pid'[ended'[k].slot] /\ ~m_Processes'[ended'[k].slot]
    <3>1. k + 1 \in DOMAIN ended /\ k + 1 # 1 /\ ended'[k] = ended[k + 1]
      BY <1>2
    <3>2. ended[k + 1].slot \in Slot /\ ended[k + 1].slot # e.slot
      <4>1. ended[k + 1] \in Events
        BY <3>1 DEF Types, SlotsType
      <4> QED
        BY <1>2, <3>1, <4>1, EventsAre DEF Machine, Slots
    <3> QED
      BY <1>4, <1>5, <3>1, <3>2 DEF Machine, Slots
  <2>4. ASSUME NEW k \in DOMAIN ended', NEW m \in DOMAIN ended', ended'[k].slot = ended'[m].slot
        PROVE  k = m
    <3>1. k + 1 = m + 1
      BY <1>2, <2>4 DEF Machine, Slots
    <3> QED
      BY <1>2, <3>1
  <2>5. ASSUME NEW i \in Slot, m_Pid'[i], ~m_Processes'[i]
        PROVE  \E k \in DOMAIN ended' : ended'[k].slot = i
    <3>1. i # e.slot
      BY <1>5, <2>5
    <3>2. PICK k \in DOMAIN ended : ended[k].slot = i
      BY <1>4, <1>5, <2>5, <3>1 DEF Machine, Slots
    <3>3. k # 1
      BY <1>2, <3>1, <3>2
    <3> QED
      BY <1>2, <3>2, <3>3
  <2> QED
    BY <2>1, <2>2, <2>3, <2>4, <2>5, Zenon DEF Slots
<1>7. Beside' /\ Queued'
  BY <1>1 DEF Machine, Beside, Queued
<1>8. m_CommandQueue = <<>> /\ build.target # NoJob /\ ~IsProcessRunning => Len(ended) <= 1
  BY DEF Machine, OneLeft
<1>9. stack' # <<>> => OneLeft'
  <2>1. IsProcessRunning' <=> IsProcessRunning
    BY <1>4 DEF IsProcessRunning
  <2>2. Len(ended) <= 1 => Len(ended') <= 1
    BY <1>2
  <2> QED
    BY <1>1, <1>4, <1>8, <2>1, <2>2 DEF Machine, OneLeft
<1>10. ASSUME m_CommandQueue = <<>>, ~IsProcessRunning, ~NoBuild
       PROVE  Drained'
  <2>1. Len(ended') = 0 /\ ~IsProcessRunning'
    BY <1>2, <1>4, <1>8, <1>10 DEF NoBuild, IsProcessRunning
  <2>2. ended' = <<>>
    <3>1. ended' \in Seq(Events)
      BY <1>1, HeadTail DEF Types, SlotsType
    <3> QED
      BY <2>1, <3>1, EmptySeq
  <2> QED
    BY <1>6, <2>1, <2>2 DEF Slots, Drained, IsProcessRunning
<1> QED
  BY <1>4, <1>6, <1>7, <1>9, <1>10

LEMMA OnJobEndKeeps ==
  ASSUME Types, Machine, OnJobEnd
  PROVE  Machine'
<1>1. /\ UNCHANGED <<m_CommandQueue, child, build, m_Clean, m_Build, m_RunAfterCompile, hindrance>>
      /\ failed' = (failed \/ (Head(ended).code # 0 /\ Head(ended).kind # "run"))
      /\ ended # <<>>
  BY DEF OnJobEnd, stateVars
<1>2. ~Drained
  BY <1>1 DEF Drained
<1>3. /\ Rests(stack) /\ (failed => NoBuild) /\ ~Has(stack, {"job_end"})
      /\ stack # <<>> /\ Rooted(stack)
      /\ Has(stack, Walks \cup Pauses) => NoBuild
      /\ ~Has(stack, {"bsm_next", "bsm_add"}) /\ ~Has(stack, {"bsm_next"})
      /\ ~Has(stack, Calls) /\ ~Has(stack, Halves)
  BY <1>1, <1>2, Undrained DEF OnJobEnd, At
<1>4. PICK s \in Seq(Frames) : s = stack
  BY DEF Types, StackType
<1>5. NoBuild' <=> NoBuild
  BY <1>1 DEF NoBuild
<1>6. ~Has(s, Calls \cup Halves) /\ (Has(s, Homes) => NoBuild) /\ ~Has(s, Calls \cup {"bsm_next"})
  BY <1>3, <1>4, HasUnion, HasParts
<1>7. Rests(s)'
  BY <1>1, <1>3, <1>4, <1>5, <1>6 DEF Rests
<1>8. ~Has(s, {"yield", "job_end"})
  <2>1. PICK h \in Frames, t \in Seq(Frames) :
          /\ stack = Push(h, t) /\ h = Head(stack) /\ t = Tail(stack)
          /\ Runs(h, t) /\ Rests(t) /\ Top(stack, h, t)
    BY <1>3, Found
  <2>2. ~Has(t, {"yield", "job_end"})
    BY <2>1 DEF Runs, Fits
  <2>3. h.at \in {"pending", "idle"}
    BY <2>1 DEF OnJobEnd, At
  <2> QED
    BY <1>4, <2>1, <2>2, <2>3 DEF Top
<1>9. Silent(s, {"bsm_add"})
  BY <1>3, <1>4 DEF Rests
<1>10. ASSUME NEW f \in Frames, f.at \in {"job_end", "queue", "job_loop"},
              f.at # "job_end" => ~failed' \/ NoBuild,
              f.at = "queue" => m_CommandQueue # <<>> \/ IsProcessRunning',
              f.at = "job_loop" => Drained' \/ NoBuild
       PROVE  Runs(f, s)'
  <2>1. Fits(f, s)
    BY <1>6, <1>8, <1>9, <1>10 DEF Fits, Chain, Calls, Halves, Pauses
  <2> QED
    BY <1>1, <1>3, <1>4, <1>5, <1>6, <1>10, <2>1
       DEF Runs, Walks, Chain, Homes, Calls, Halves, Pauses
<1>11. Stacked' /\ stack' # <<>>
  <2>1. ASSUME NEW f \in Frames, f.at = "job_end", stack' = Push(f, stack)
        PROVE  Stacked' /\ stack' # <<>>
    <3>1. Runs(f, s)'
      BY <1>10, <2>1
    <3> QED
      BY <1>4, <1>7, <2>1, <3>1, TurnStacked
  <2>2. ASSUME NEW f \in Frames, f.at = "queue", stack' = Push(f, stack), Head(ended).code = 0,
               m_CommandQueue # <<>> \/ \E i \in Slot : m_Processes'[i]
        PROVE  Stacked' /\ stack' # <<>>
    <3>1. Runs(f, s)'
      BY <1>1, <1>3, <1>10, <2>2 DEF IsProcessRunning
    <3> QED
      BY <1>4, <1>7, <2>2, <3>1, TurnStacked
  <2>3. ASSUME NEW f \in Frames, NEW g \in Frames, f.at = "bsm", g.at = "job_loop",
               stack' = Push(f, Push(g, stack)), Head(ended).code = 0,
               m_CommandQueue = <<>>, \A i \in Slot : ~m_Processes'[i]
        PROVE  Stacked' /\ stack' # <<>>
    <3>1. Drained' \/ NoBuild
      BY <2>3, EndProcesses DEF IsProcessRunning
    <3>2. Runs(g, s)'
      BY <1>1, <1>3, <1>10, <2>3, <3>1
    <3>3. g.at \in Homes
      BY <2>3 DEF Homes
    <3> QED
      BY <1>1, <1>3, <1>4, <1>5, <1>7, <2>3, <3>1, <3>2, <3>3, CallStacked
  <2> QED
    BY <2>1, <2>2, <2>3, JobEndStack DEF Types
<1> QED
  BY <1>1, <1>11, EndProcesses DEF Machine

-----------------------------------------------------------------------------
(* The user gives a command, in the main loop, while nothing runs.          *)

LEMMA UserKeeps ==
  ASSUME Types, Machine, Orderly, NEW c \in Menu, UserCommand(c)
  PROVE  Machine'
<1>1. /\ stack = <<>> /\ ended = <<>> /\ ~IsProcessRunning /\ m_CommandQueue = <<>>
      /\ build.job = "idle" /\ c \notin {"run", "build and run"}
  BY DEF UserCommand, IsRunning, Orderly
<1>2. /\ UNCHANGED <<processVars, m_CommandQueue, build, m_Clean, m_Build>> /\ failed' = FALSE
      /\ hindrance' = "no project" =>
           c \in {"build", "build and run", "run", "compile file"}
  BY DEF UserCommand, stateVars
<1>3. Drained /\ Drained' /\ NoBuild' /\ build'.target = NoJob /\ m_CommandQueue' = <<>>
  BY <1>1, <1>2, QuietDrained DEF Machine, Drained, NoBuild, processVars
<1>4. ended' = <<>>
  BY <1>1, <1>2 DEF processVars
<1>5. Rests(<<>>)' /\ <<>> \in Seq(Frames)
  BY TopNothing DEF Rests
<1>6. ASSUME NEW f \in Frames, f.at \in {"build", "ws", "file"}
      PROVE  Runs(f, <<>>)'
  <2>1. Fits(f, <<>>)
    BY <1>6, TopNothing DEF Fits, Chain, Calls, Halves, Pauses
  <2> QED
    BY <1>2, <1>3, <1>4, <1>6, <2>1, TopNothing
       DEF Runs, Walks, Chain, Homes, Calls, Halves, Pauses
<1>7. ASSUME NEW f \in Frames, NEW g \in Frames, f.at \in {"build", "ws"}, f.clean, ~f.build,
             g.at \in {"rebuild", "ws_rebuild"}, hindrance' # "no project"
      PROVE  Runs(f, Push(g, <<>>))' /\ Rests(Push(g, <<>>))' /\ Push(g, <<>>) \in Seq(Frames)
  <2> DEFINE p == Push(g, <<>>)
  <2>1. Top(p, g, <<>>) /\ p \in Seq(Frames)
    BY <1>5, TopPush
  <2> HIDE DEF p
  <2>2. /\ \A S : Has(p, S) <=> g.at \in S
        /\ ~Twice(p) /\ ~Rooted(p) /\ \A S : g.at \notin S => Silent(p, S)
    BY <1>7, <2>1, TopNothing DEF Top
  <2>3. Idling' /\ CleanFrame(g) /\ CleanFrame(f) /\ Gentle(<<>>)
    <3>1. Gentle(<<>>)
      BY DEF Gentle
    <3>2. Idling'
      BY <1>3, <1>7 DEF Idling
    <3>3. CleanFrame(g) /\ CleanFrame(f)
      BY <1>7 DEF CleanFrame
    <3> QED
      BY <3>1, <3>2, <3>3
  <2>4. Fits(g, <<>>)
    BY <1>7, TopNothing DEF Fits, Chain, Calls, Halves, Pauses
  <2>5. Nested(p) /\ Gentle(p)
    BY <2>1, <2>3, <2>4, TopNothing DEF Top
  <2>6. /\ ~Has(p, Walks) /\ ~Has(p, Walks \cup Pauses) /\ ~Has(p, Calls) /\ Has(p, Halves)
        /\ ~Has(p, Homes) /\ ~Has(p, Calls \cup {"bsm_next"}) /\ ~Has(p, {"yield", "job_end"})
        /\ Silent(p, {"bsm_add"}) /\ Silent(p, {"bsm_next"})
    BY <1>7, <2>2 DEF Walks, Chain, Homes, Calls, Halves, Pauses
  <2>7. Rests(p)'
    BY <1>2, <1>3, <1>7, <2>2, <2>3, <2>5, <2>6 DEF Rests
  <2>8. Fits(f, p)
    BY <1>7, <2>6 DEF Fits, Chain, Calls, Halves, Pauses
  <2>9. Runs(f, p)'
    BY <1>2, <1>3, <1>4, <1>7, <2>3, <2>6, <2>8
       DEF Runs, Walks, Chain, Homes, Calls, Halves, Pauses
  <2> QED
    BY <2>1, <2>7, <2>9 DEF p
<1>8. ASSUME NEW f \in Frames, f.at \in {"build", "ws", "file"}, stack' = <<f>> \o stack
      PROVE  Stacked' /\ stack' # <<>>
  <2>1. stack' = Push(f, <<>>)
    BY <1>1, <1>8 DEF Push
  <2> QED
    BY <1>5, <1>6, <1>8, <2>1, TurnStacked
<1>9. ASSUME NEW f \in Frames, NEW g \in Frames, f.at \in {"build", "ws"}, f.clean, ~f.build,
             g.at \in {"rebuild", "ws_rebuild"}, stack' = <<f, g>> \o stack,
             hindrance' # "no project"
      PROVE  Stacked' /\ stack' # <<>>
  <2>1. stack' = Push(f, Push(g, stack))
    BY <1>9, PushStack DEF Types
  <2> QED
    BY <1>1, <1>7, <1>9, <2>1, TurnStacked
<1>10. Stacked' /\ stack' # <<>> /\ ~m_RunAfterCompile'
  <2>0. /\ \A a \in {"build", "ws"}, x, y \in BOOLEAN :
             /\ BuildFrame(a, x, y) \in Frames /\ BuildFrame(a, x, y).at = a
             /\ BuildFrame(a, x, y).clean = x /\ BuildFrame(a, x, y).build = y
        /\ \A a \in {"file", "rebuild", "ws_rebuild"} : Frame(a) \in Frames /\ Frame(a).at = a
    BY BuildFrameIs, PlainFrame DEF BuildAt, PlainAt
  <2>1. \/ \E f \in Frames : f.at \in {"build", "ws", "file"} /\ stack' = <<f>> \o stack
        \/ /\ c \in {"rebuild", "rebuild workspace"}
           /\ \E f, g \in Frames : /\ f.at \in {"build", "ws"} /\ f.clean /\ ~f.build
                                   /\ g.at \in {"rebuild", "ws_rebuild"}
                                   /\ stack' = <<f, g>> \o stack
    <3>1. CASE c \in {"build", "clean", "build workspace", "clean workspace"}
      BY <1>1, <2>0, <3>1 DEF UserCommand, Call
    <3>2. CASE c \in {"rebuild", "rebuild workspace"}
      BY <1>1, <2>0, <3>2 DEF UserCommand, Call
    <3>3. CASE c = "compile file"
      BY <1>1, <2>0, <3>3 DEF UserCommand, Call
    <3> QED
      BY <1>1, <3>1, <3>2, <3>3 DEF UserCommand
  <2>2. m_RunAfterCompile' = m_RunAfterCompile
    BY <1>1 DEF UserCommand, Call
  <2> QED
    BY <1>2, <1>8, <1>9, <2>1, <2>2 DEF Machine
<1>11. Slots' /\ Beside' /\ Queued' /\ OneLeft'
  BY <1>2, <1>10, ProcessesKeep DEF Machine
<1> QED
  BY <1>2, <1>10, <1>11 DEF Machine

-----------------------------------------------------------------------------
(* The invariant, and the properties that follow from it.                   *)

LEMMA InitMachine == Init => Machine
<1> SUFFICES ASSUME Init
             PROVE  Machine
  OBVIOUS
<1>1. /\ stack = <<>> /\ m_CommandQueue = <<>> /\ ended = <<>> /\ ~m_RunAfterCompile /\ ~failed
      /\ \A i \in Slot : ~m_Processes[i] /\ ~m_Pid[i] /\ child[i] = {}
  BY DEF Init
<1>2. build.target = NoJob
  <2>1. PICK s \in BuildState : build = [Idle EXCEPT !.state = s]
    BY DEF Init
  <2> QED
    BY <2>1 DEF Idle
<1>3. Slots /\ Beside
  BY <1>1 DEF Slots, Beside
<1>4. Queued /\ OneLeft
  BY <1>1, <1>2 DEF Queued, OneLeft
<1>5. Stacked
  BY <1>1 DEF Stacked
<1> QED
  BY <1>1, <1>2, <1>3, <1>4, <1>5 DEF Machine

LEMMA MachineStep ==
  ASSUME Orderly, Types, Machine, [Next]_vars
  PROVE  Machine'
<1>1. CASE Engine
  <2>1. CASE GenerateCommands
    BY <2>1, GenerateKeeps, GenerateNothingKeeps
  <2> QED
    BY <1>1, <2>1, BsmKeeps, NextStateKeeps, AddKeeps, DoRunQueueKeeps, RunNextCommandKeeps,
       OnJobEndKeeps, JobLoopKeeps, JobEndKeeps, DoBuildKeeps, JobsKeep, RebuildKeeps,
       DoWorkspaceBuildKeeps, WorkspaceStartedKeeps, PrepareQueueKeeps, RunKeeps,
       CompileFileKeeps, PendingKeeps DEF Engine
<1>2. CASE \E i \in Slot : Terminate(i)
  BY <1>2, TerminateKeeps
<1>3. CASE \E c \in Menu : UserCommand(c)
  BY <1>3, UserKeeps
<1>4. CASE KillProcess
  BY <1>4, KillKeeps
<1>5. CASE UNCHANGED vars
  BY <1>5, StutterKeeps
<1> QED
  BY <1>1, <1>2, <1>3, <1>4, <1>5 DEF Next

LEMMA MachineAlways ==
  ASSUME Orderly
  PROVE  Spec => []Machine
<1>1. Spec => []Types
  BY TypesAlways
<1>2. Init => Machine
  BY InitMachine
<1>3. Machine /\ Types /\ [Next]_vars => Machine'
  BY MachineStep
<1> QED
  BY <1>1, <1>2, <1>3, PTL DEF Spec

(* In every reachable state a slot has at most one process or one end of    *)
(* process yet to be handled, and m_Pid and m_Processes tell which: neither *)
(* DoRunQueue nor a Yield() in it starts a process in a slot that is taken. *)
THEOREM SlotsAreKept ==
  ASSUME Orderly
  PROVE  Spec => []SlotIntegrity
<1>1. Types /\ Machine => SlotIntegrity
  <2> SUFFICES ASSUME Types, Machine, NEW i \in Slot
               PROVE  /\ Cardinality(child[i]) + Cardinality(Pending(i))
                           = (IF m_Pid[i] THEN 1 ELSE 0)
                      /\ m_Processes[i] <=> child[i] # {}
    BY DEF SlotIntegrity
  <2>1. Cardinality(child[i]) = IF m_Processes[i] THEN 1 ELSE 0
    <3>1. CASE m_Processes[i]
      <4>1. PICK c : child[i] = {c}
        BY <3>1 DEF Machine, Slots
      <4> QED
        BY <3>1, <4>1, FS_Singleton
    <3>2. CASE ~m_Processes[i]
      BY <3>2, FS_EmptySet DEF Machine, Slots
    <3> QED
      BY <3>1, <3>2
  <2>2. Cardinality(Pending(i)) = IF m_Pid[i] /\ ~m_Processes[i] THEN 1 ELSE 0
    <3>1. CASE m_Pid[i] /\ ~m_Processes[i]
      <4>1. PICK k \in DOMAIN ended : ended[k].slot = i
        BY <3>1 DEF Machine, Slots
      <4>2. Pending(i) = {k}
        BY <4>1 DEF Machine, Slots, Pending
      <4> QED
        BY <3>1, <4>2, FS_Singleton
    <3>2. CASE ~(m_Pid[i] /\ ~m_Processes[i])
      <4>1. Pending(i) = {}
        BY <3>2 DEF Machine, Slots, Pending
      <4> QED
        BY <3>2, <4>1, FS_EmptySet
    <3> QED
      BY <3>1, <3>2
  <2>3. /\ m_Processes[i] => m_Pid[i]
        /\ m_Processes[i] <=> child[i] # {}
    BY DEF Machine, Slots
  <2> QED
    BY <2>1, <2>2, <2>3
<1> QED
  BY <1>1, MachineAlways, TypesAlways, PTL

(* In every reachable state a pre- or post-build step, or a linker, is the  *)
(* only process of the build: mustWait and isLink are honoured whatever     *)
(* slots are free when DoRunQueue comes to the command.                     *)
THEOREM StepsRunAlone ==
  ASSUME Orderly
  PROVE  Spec => []WaitAlone
<1>1. Machine => WaitAlone
  BY DEF Machine, Beside, WaitAlone
<1> QED
  BY <1>1, MachineAlways, PTL

(* In every reachable state the processes that run in parallel were started *)
(* for the same target: BuildStateManagement goes to the next target only   *)
(* after the last process of this one.                                      *)
THEOREM TargetsInTurn ==
  ASSUME Orderly
  PROVE  Spec => []OneTargetAtATime
<1>1. Machine => OneTargetAtATime
  BY DEF Machine, Beside, OneTargetAtATime, Live
<1> QED
  BY <1>1, MachineAlways, PTL

(* Only DoRunQueue executes a command, in a slot that is free.              *)
LEMMA Launches ==
  ASSUME Types, Machine, [Next]_vars
  PROVE  \/ Launched = {}
         \/ /\ stack # <<>> /\ Head(stack).at \in {"queue", "queue_next"}
            /\ m_CommandQueue # <<>> /\ \E i \in Slot : IsFree(i)
<1>1. CASE UNCHANGED child
  BY <1>1 DEF Launched
<1>2. CASE DoRunQueue
  <2>1. CASE UNCHANGED processVars
    BY <1>1, <2>1 DEF processVars
  <2>2. CASE FreeSlots # {} /\ m_CommandQueue # <<>>
    BY <1>2, <2>2, NextAvailable DEF DoRunQueue, At
  <2> QED
    BY <1>2, <2>1, <2>2 DEF DoRunQueue
<1>3. CASE RunNextCommand
  <2>1. CASE UNCHANGED processVars
    BY <1>1, <2>1 DEF processVars
  <2>2. CASE m_CommandQueue # <<>>
    <3>1. stack # <<>> /\ Head(stack).at = "queue_next"
      BY <1>3 DEF RunNextCommand, At
    <3>2. PICK h \in Frames, t \in Seq(Frames) :
            /\ stack = Push(h, t) /\ h = Head(stack) /\ t = Tail(stack)
            /\ Runs(h, t) /\ Rests(t) /\ Top(stack, h, t)
      BY <3>1, Found
    <3>3. Drained
      BY <2>2, <3>1, <3>2 DEF Runs, NoBuild, Walks, Homes
    <3>4. FreeSlots # {}
      BY <3>3, SomeFree
    <3> QED
      BY <2>2, <3>1, <3>4 DEF FreeSlots
  <2> QED
    BY <1>3, <2>1, <2>2 DEF RunNextCommand
<1>4. ASSUME NEW i \in Slot, Terminate(i)
      PROVE  Launched = {}
  <2>1. \A j \in Slot : child'[j] \subseteq child[j]
    BY <1>4 DEF Terminate, Types, SlotsType
  <2> QED
    BY <2>1 DEF Launched
<1>5. \/ UNCHANGED child \/ DoRunQueue \/ RunNextCommand \/ \E i \in Slot : Terminate(i)
  <2>1. CASE Engine
    BY <2>1 DEF Engine, BuildStateManagement, GenerateCommands, GetNextStateBasedOnJob,
       AddToCommandQueue, OnJobEnd, JobLoop, JobEnd, JobAfter, DoBuild, BuildProject, Rebuild,
       DoWorkspaceBuild, BuildWorkspace, WorkspaceStarted, RebuildWorkspace, PrepareQueue,
       Run, CompileFile, ProcessPendingEvents, processVars
  <2>2. CASE \E c \in Menu : UserCommand(c)
    BY <2>2 DEF UserCommand, processVars
  <2>3. CASE KillProcess
    BY <2>3 DEF KillProcess, processVars
  <2>4. CASE UNCHANGED vars
    BY <2>4 DEF vars, processVars
  <2> QED
    BY <2>1, <2>2, <2>3, <2>4 DEF Next
<1> QED
  BY <1>1, <1>2, <1>3, <1>4, <1>5

(* After a failure there is nothing that could be executed.                 *)
LEMMA NothingLaunched ==
  ASSUME Types, Machine, [Next]_vars, failed
  PROVE  Launched = {}
<1>1. ASSUME stack # <<>>, m_CommandQueue # <<>>, Head(stack).at \in {"queue", "queue_next"}
      PROVE  FALSE
  <2>1. PICK h \in Frames, t \in Seq(Frames) :
          /\ stack = Push(h, t) /\ h = Head(stack) /\ t = Tail(stack)
          /\ Runs(h, t) /\ Rests(t) /\ Top(stack, h, t)
    BY <1>1, Found
  <2> QED
    BY <1>1, <2>1, Busy DEF Homes
<1> QED
  BY <1>1, Launches

(* Between the end of a command that failed and OnJobEnd's reset of the     *)
(* build nothing is executed, in whatever Yield() the end was reported.     *)
THEOREM FailureStops ==
  ASSUME Orderly
  PROVE  Spec => StopsAtFailure
<1>1. Types /\ Machine /\ [Next]_vars => [failed => \A c \in Launched : c.kind = "run"]_vars
  BY NothingLaunched
<1>2. Spec => []Types /\ []Machine
  BY TypesAlways, MachineAlways, PTL
<1> QED
  BY <1>1, <1>2, PTL DEF Spec, StopsAtFailure

(* With one process at a time, the default of the settings, a linker is     *)
(* executed only when every command executed before it for the build has    *)
(* ended, its exit code was handled, and none has failed: the one slot is   *)
(* free only then, and a failure that was handled, in whatever Yield(), has *)
(* left nothing to execute.  With more slots it is not so.                  *)
THEOREM LinkerWaits ==
  ASSUME Orderly, N = 1
  PROVE  Spec => LinkAfterCompile
<1> DEFINE AllHandled == /\ ~failed
                         /\ \A d \in Live : d.kind = "run"
                         /\ \A k \in DOMAIN ended : ended[k].kind = "run"
<1>1. ASSUME Types, Machine, [Next]_vars, Launched # {}
      PROVE  AllHandled
  <2>1. PICK i \in Slot : IsFree(i)
    BY <1>1, Launches
  <2>2. \A j \in Slot : j = i
    BY DEF Slot
  <2>3. \A k \in DOMAIN ended : ended[k] \in Events
    BY <1>1 DEF Types, SlotsType
  <2>4. \A k \in DOMAIN ended : m_Pid[ended[k].slot] /\ ended[k].slot = i
    BY <1>1, <2>2, <2>3, EventsAre DEF Machine, Slots
  <2>5. \A k \in DOMAIN ended : FALSE
    BY <2>1, <2>4 DEF IsFree
  <2>6. \A j \in Slot : child[j] = {}
    BY <1>1, <2>1, <2>2 DEF IsFree, Machine, Slots
  <2>7. Live = {}
    BY <2>6 DEF Live
  <2>8. ~failed
    BY <1>1, NothingLaunched
  <2> QED
    BY <2>5, <2>7, <2>8
<1>2. Types /\ Machine /\ [Next]_vars =>
        [\A c \in Launched : c.kind = "link" => AllHandled]_vars
  BY <1>1
<1>3. Spec => []Types /\ []Machine
  BY TypesAlways, MachineAlways, PTL
<1> QED
  BY <1>2, <1>3, PTL DEF Spec, LinkAfterCompile
=============================================================================
