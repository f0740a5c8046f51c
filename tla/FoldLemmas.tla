---------------------------- MODULE FoldLemmas ----------------------------
(***************************************************************************)
(* What FoldLeft of SequencesExt keeps, whatever the operator it folds.    *)
(* That operator is a constant here: each proof takes an instance of this  *)
(* module with an operator of its own, and shows that the fold of its      *)
(* model is Fold by expanding both.  An operator of a model may depend on  *)
(* its surroundings; p and q stand for what it takes from them.            *)
(*                                                                         *)
(* FoldLeft is MapThenFoldSet over the positions of the sequence: the      *)
(* recursion chooses the greatest position, folds the others and applies   *)
(* the operator.  Induction over it is induction over the naturals, which  *)
(* follows from their being well-founded, stated for sets.                 *)
(***************************************************************************)
EXTENDS Integers, Sequences, WellFoundedInduction, TLAPS

CONSTANT op(_, _, _, _)     \* p, q, what was folded so far, an element

(* A set of naturals with 0 and the successor of each of its members is all *)
(* of them: the naturals are well-founded.                                  *)
LEMMA SetInduction ==
  ASSUME NEW T \in SUBSET Nat, 0 \in T, \A n \in T : n + 1 \in T
  PROVE  \A n \in Nat : n \in T
<1> SUFFICES ASSUME NEW k \in Nat, k \notin T PROVE FALSE
  OBVIOUS
<1> DEFINE U == Nat \ T
           R == OpToRel(<, Nat)
<1>1. U \subseteq Nat /\ U # {} /\ IsWellFoundedOn(R, Nat)
  BY NatLessThanWellFounded
<1>2. \A x, y \in Nat : <<y, x>> \in R <=> y < x
  BY DEF OpToRel
<1> HIDE DEF U, R
<1>3. PICK m \in U : \A y \in U : ~(<<y, m>> \in R)
  BY <1>1, WFMin
<1>4. m \in Nat /\ m # 0 /\ m \notin T
  BY <1>3 DEF U
<1>5. m - 1 \in Nat /\ m - 1 < m /\ (m - 1) + 1 = m
  BY <1>4
<1>6. m - 1 \notin U
  BY <1>1, <1>2, <1>3, <1>4, <1>5
<1>7. m - 1 \in T
  BY <1>5, <1>6 DEF U
<1> QED
  BY <1>4, <1>5, <1>7

(* A set of naturals that is not empty has a least member.                  *)
LEMMA Least ==
  ASSUME NEW T \in SUBSET Nat, T # {}
  PROVE  \E i \in T : \A j \in T : i <= j
<1> DEFINE R == OpToRel(<, Nat)
<1>1. IsWellFoundedOn(R, Nat)
  BY NatLessThanWellFounded
<1>2. \A x, y \in Nat : <<y, x>> \in R <=> y < x
  BY DEF OpToRel
<1> HIDE DEF R
<1>3. PICK m \in T : \A y \in T : ~(<<y, m>> \in R)
  BY <1>1, WFMin
<1>4. ASSUME NEW j \in T PROVE m <= j
  <2>1. m \in Nat /\ j \in Nat
    OBVIOUS
  <2>2. ~(j < m)
    BY <1>2, <1>3, <2>1
  <2> QED
    BY <2>1, <2>2
<1> QED
  BY <1>4

-----------------------------------------------------------------------------
(* The recursion of MapThenFoldSet.                                         *)

Top(s) == CHOOSE x \in s : \A y \in s : x >= y

(* A set of positions that is not empty has a greatest one.                 *)
LEMMA TopIn ==
  ASSUME NEW n \in Nat, NEW s \in SUBSET (1..n), s # {}
  PROVE  Top(s) \in s /\ \A y \in s : Top(s) >= y
<1> DEFINE T == {k \in Nat : \A t \in SUBSET (1..k) : t # {} => \E x \in t : \A y \in t : x >= y}
<1>1. 0 \in T
  <2>1. \A t \in SUBSET (1..0) : t = {}
    OBVIOUS
  <2> QED
    BY <2>1
<1>2. ASSUME NEW k \in T PROVE k + 1 \in T
  <2> SUFFICES ASSUME NEW t \in SUBSET (1..(k + 1)), t # {}
               PROVE  \E x \in t : \A y \in t : x >= y
    OBVIOUS
  <2>1. CASE k + 1 \in t
    BY <2>1
  <2>2. CASE k + 1 \notin t
    <3>1. t \in SUBSET (1..k)
      BY <2>2
    <3> QED
      BY <3>1
  <2> QED
    BY <2>1, <2>2
<1> HIDE DEF T
<1>3. n \in T
  <2>1. T \in SUBSET Nat
    BY DEF T
  <2> QED
    BY <1>1, <1>2, <2>1, SetInduction
<1>4. \E x \in s : \A y \in s : x >= y
  BY <1>3 DEF T
<1> QED
  BY <1>4 DEF Top

Step(p, q, base, seq, g, s) == IF s = {} THEN base ELSE op(p, q, g[s \ {Top(s)}], seq[Top(s)])
IsFold(p, q, base, seq, n, g) == g = [s \in SUBSET (1..n) |-> Step(p, q, base, seq, g, s)]

(* There is a function that is the recursion of the fold at every set of    *)
(* positions.                                                               *)
LEMMA FoldExists ==
  ASSUME NEW p, NEW q, NEW base, NEW seq, NEW n \in Nat
  PROVE  \E g : IsFold(p, q, base, seq, n, g)
<1> DEFINE T == {k \in Nat : \E g : IsFold(p, q, base, seq, k, g)}
<1>1. 0 \in T
  <2> DEFINE g == [s \in SUBSET (1..0) |-> base]
  <2>1. \A s \in SUBSET (1..0) : s = {}
    OBVIOUS
  <2>2. \A s \in SUBSET (1..0) : Step(p, q, base, seq, g, s) = base
    BY <2>1 DEF Step
  <2> HIDE DEF g
  <2>3. g = [s \in SUBSET (1..0) |-> Step(p, q, base, seq, g, s)]
    BY <2>2 DEF g
  <2> QED
    BY <2>3 DEF IsFold
<1>2. ASSUME NEW k \in T PROVE k + 1 \in T
  <2>1. PICK g : IsFold(p, q, base, seq, k, g)
    OBVIOUS
  <2> DEFINE h == [s \in SUBSET (1..(k + 1)) |->
                      IF k + 1 \in s THEN op(p, q, g[s \ {k + 1}], seq[k + 1]) ELSE g[s]]
  <2>2. ASSUME NEW s \in SUBSET (1..(k + 1)) PROVE h[s] = Step(p, q, base, seq, h, s)
    <3>1. CASE k + 1 \in s
      <4>1. k + 1 \in Nat /\ s # {}
        BY <3>1
      <4>2. Top(s) \in s /\ Top(s) >= k + 1
        BY <3>1, <4>1, TopIn
      <4>3. Top(s) = k + 1
        <5> DEFINE t == Top(s)
        <5>1. t \in s /\ t >= k + 1
          BY <4>2
        <5> HIDE DEF t
        <5>2. t \in 1..(k + 1)
          BY <5>1
        <5>3. t = k + 1
          BY <5>1, <5>2
        <5> QED
          BY <5>3 DEF t
      <4>4. s \ {k + 1} \in SUBSET (1..(k + 1)) /\ k + 1 \notin s \ {k + 1}
        OBVIOUS
      <4>5. h[s \ {k + 1}] = g[s \ {k + 1}]
        BY <4>4
      <4>6. h[s] = op(p, q, g[s \ {k + 1}], seq[k + 1])
        BY <3>1
      <4> HIDE DEF h
      <4> QED
        BY <4>1, <4>3, <4>5, <4>6 DEF Step
    <3>2. CASE k + 1 \notin s
      <4>1. s \in SUBSET (1..k)
        BY <3>2
      <4>2. h[s] = g[s]
        BY <3>2
      <4>3. g[s] = Step(p, q, base, seq, g, s)
        BY <2>1, <4>1 DEF IsFold
      <4>4. CASE s = {}
        BY <4>2, <4>3, <4>4 DEF Step
      <4>5. CASE s # {}
        <5>1. Top(s) \in s
          BY <4>1, <4>5, TopIn
        <5> DEFINE r == s \ {Top(s)}
        <5>2. r \in SUBSET (1..(k + 1)) /\ k + 1 \notin r
          BY <3>2
        <5>3. h[r] = g[r]
          BY <5>2
        <5> HIDE DEF h
        <5> QED
          BY <4>2, <4>3, <4>5, <5>3 DEF Step
      <4> QED
        BY <4>4, <4>5
    <3> QED
      BY <3>1, <3>2
  <2>3. h = [s \in SUBSET (1..(k + 1)) |-> h[s]]
    OBVIOUS
  <2> HIDE DEF h
  <2>4. IsFold(p, q, base, seq, k + 1, h)
    BY <2>2, <2>3 DEF IsFold
  <2> QED
    BY <2>4
<1> HIDE DEF T
<1>3. n \in T
  <2>1. T \in SUBSET Nat
    BY DEF T
  <2> QED
    BY <1>1, <1>2, <2>1, SetInduction
<1> QED
  BY <1>3 DEF T

Fold(p, q, base, seq) ==
    LET iter[s \in SUBSET (DOMAIN seq)] ==
            IF s = {} THEN base ELSE op(p, q, iter[s \ {Top(s)}], seq[Top(s)])
    IN  iter[DOMAIN seq]

(* The fold is that function at all positions of the sequence.              *)
LEMMA FoldIs ==
  ASSUME NEW p, NEW q, NEW base, NEW E, NEW seq \in Seq(E)
  PROVE  \E g : IsFold(p, q, base, seq, Len(seq), g) /\ Fold(p, q, base, seq) = g[1..Len(seq)]
<1> DEFINE n == Len(seq)
           g == CHOOSE f : IsFold(p, q, base, seq, n, f)
<1>1. n \in Nat /\ DOMAIN seq = 1..n
  OBVIOUS
<1>2. IsFold(p, q, base, seq, n, g)
  BY <1>1, FoldExists
<1>3. Fold(p, q, base, seq) = g[1..n]
  BY <1>1 DEF Fold, IsFold, Step
<1> QED
  BY <1>2, <1>3

(* What holds before the first element and is carried over each element,    *)
(* holds after the last.                                                    *)
LEMMA FoldSteps ==
  ASSUME NEW p, NEW q, NEW E, NEW seq \in Seq(E), NEW base, NEW S, base \in S[0],
         \A k \in 0..(Len(seq) - 1) : \A s \in S[k] : op(p, q, s, seq[k + 1]) \in S[k + 1]
  PROVE  Fold(p, q, base, seq) \in S[Len(seq)]
<1>1. PICK g : IsFold(p, q, base, seq, Len(seq), g) /\ Fold(p, q, base, seq) = g[1..Len(seq)]
  BY FoldIs
<1> DEFINE n == Len(seq)
           T == {k \in Nat : k <= n => g[1..k] \in S[k]}
<1>2. n \in Nat
  OBVIOUS
<1>3. \A s \in SUBSET (1..n) : g[s] = Step(p, q, base, seq, g, s)
  BY <1>1 DEF IsFold
<1>a. \A k \in 0..(n - 1) : \A s \in S[k] : op(p, q, s, seq[k + 1]) \in S[k + 1]
  OBVIOUS
<1> HIDE DEF n
<1>4. 0 \in T
  <2>1. 1..0 = {} /\ {} \in SUBSET (1..n)
    OBVIOUS
  <2>2. g[{}] = base
    BY <1>3, <2>1 DEF Step
  <2>3. g[1..0] \in S[0]
    BY <2>1, <2>2
  <2> QED
    BY <2>3
<1>5. ASSUME NEW k \in T PROVE k + 1 \in T
  <2>1. k \in Nat /\ k + 1 \in Nat
    OBVIOUS
  <2>2. ASSUME k + 1 <= n PROVE g[1..(k + 1)] \in S[k + 1]
    <3> DEFINE s == 1..(k + 1)
    <3>1. s \in SUBSET (1..n) /\ s # {} /\ s \in SUBSET (1..(k + 1)) /\ k + 1 \in s
      <4>1. k + 1 \in s /\ s \in SUBSET (1..(k + 1))
        BY <2>1
      <4>2. \A i \in s : i \in 1..n
        BY <1>2, <2>1, <2>2
      <4> QED
        BY <4>1, <4>2
    <3>2. Top(s) \in s /\ \A y \in s : Top(s) >= y
      BY <2>1, <3>1, TopIn
    <3>3. Top(s) = k + 1
      <4>1. Top(s) \in Int /\ Top(s) <= k + 1 /\ Top(s) >= k + 1
        BY <2>1, <3>1, <3>2
      <4> QED
        BY <2>1, <4>1
    <3>4. s \ {k + 1} = 1..k
      BY <2>1
    <3>5. g[s] = op(p, q, g[1..k], seq[k + 1])
      BY <1>3, <3>1, <3>3, <3>4 DEF Step
    <3>6. g[1..k] \in S[k] /\ k \in 0..(n - 1)
      BY <1>2, <2>1, <2>2
    <3> QED
      BY <1>a, <3>5, <3>6
  <2> QED
    BY <2>1, <2>2
<1> HIDE DEF T
<1>6. n \in T
  <2>1. T \in SUBSET Nat
    BY DEF T
  <2> QED
    BY <1>2, <1>4, <1>5, <2>1, SetInduction
<1>7. g[1..n] \in S[n]
  BY <1>2, <1>6 DEF T
<1> QED
  BY <1>1, <1>7 DEF n

(* Where two operators do the same with every element, so do their folds.   *)
LEMMA FoldSame ==
  ASSUME NEW p, NEW r, NEW q, NEW base, NEW E, NEW seq \in Seq(E),
         \A i \in DOMAIN seq : \A acc : op(p, q, acc, seq[i]) = op(r, q, acc, seq[i])
  PROVE  Fold(p, q, base, seq) = Fold(r, q, base, seq)
<1>1. PICK h : IsFold(r, q, base, seq, Len(seq), h) /\ Fold(r, q, base, seq) = h[1..Len(seq)]
  BY FoldIs
<1> DEFINE n == Len(seq)
           S == [k \in 0..n |-> {h[1..k]}]
<1>2. n \in Nat /\ DOMAIN seq = 1..n
  OBVIOUS
<1>3. \A s \in SUBSET (1..n) : h[s] = Step(r, q, base, seq, h, s)
  BY <1>1 DEF IsFold
<1>4. \A i \in 1..n : \A acc : op(p, q, acc, seq[i]) = op(r, q, acc, seq[i])
  OBVIOUS
<1> HIDE DEF n
<1>5. base \in S[0]
  <2>1. 1..0 = {} /\ {} \in SUBSET (1..n)
    OBVIOUS
  <2>2. h[{}] = base
    BY <1>3, <2>1 DEF Step
  <2> QED
    BY <1>2, <2>1, <2>2
<1>6. ASSUME NEW k \in 0..(n - 1), NEW s \in S[k]
      PROVE  op(p, q, s, seq[k + 1]) \in S[k + 1]
  <2> DEFINE t == 1..(k + 1)
  <2>1. k \in Nat /\ k + 1 \in Nat /\ k \in 0..n /\ k + 1 \in 0..n /\ k + 1 \in 1..n
    BY <1>2
  <2>2. t \in SUBSET (1..n) /\ t # {} /\ t \in SUBSET (1..(k + 1)) /\ k + 1 \in t
    <3>1. k + 1 \in t /\ t \in SUBSET (1..(k + 1))
      BY <2>1
    <3>2. \A i \in t : i \in 1..n
      BY <1>2, <2>1
    <3> QED
      BY <3>1, <3>2
  <2>3. Top(t) \in t /\ \A y \in t : Top(t) >= y
    BY <2>1, <2>2, TopIn
  <2>4. Top(t) = k + 1
    <3>1. Top(t) \in Int /\ Top(t) <= k + 1 /\ Top(t) >= k + 1
      BY <2>1, <2>2, <2>3
    <3> QED
      BY <2>1, <3>1
  <2>5. t \ {k + 1} = 1..k
    BY <2>1
  <2>6. h[t] = op(r, q, h[1..k], seq[k + 1])
    BY <1>3, <2>2, <2>4, <2>5 DEF Step
  <2>7. s = h[1..k]
    BY <2>1
  <2> QED
    BY <1>4, <2>1, <2>6, <2>7
<1>7. S[n] = {h[1..n]}
  BY <1>2
<1> HIDE DEF S
<1>8. Fold(p, q, base, seq) \in S[n]
  BY <1>5, <1>6, FoldSteps DEF n
<1> QED
  BY <1>1, <1>7, <1>8 DEF n

(* What each element keeps, the fold keeps.                                 *)
LEMMA FoldKeeps ==
  ASSUME NEW p, NEW q, NEW S, NEW E, NEW base \in S, NEW seq \in Seq(E),
         \A s \in S, e \in E : op(p, q, s, e) \in S
  PROVE  Fold(p, q, base, seq) \in S
<1> DEFINE R == [k \in 0..Len(seq) |-> S]
<1>1. base \in R[0]
  OBVIOUS
<1>2. \A k \in 0..(Len(seq) - 1) : \A s \in R[k] : op(p, q, s, seq[k + 1]) \in R[k + 1]
  OBVIOUS
<1>3. R[Len(seq)] = S
  OBVIOUS
<1> HIDE DEF R
<1>4. Fold(p, q, base, seq) \in R[Len(seq)]
  BY <1>1, <1>2, FoldSteps
<1> QED
  BY <1>3, <1>4
=============================================================================
