------------------------ MODULE ProjectDeps_proofs ------------------------
(***************************************************************************)
(* Proofs about ProjectDeps, for all sets of addresses and files.          *)
(*                                                                         *)
(* The arrays are read as a graph on addresses, Edges.  DepsInv says that  *)
(* this graph, with the arrays of deleted projects in it, has no cycle,    *)
(* that arrays name open projects only and each once, and that the         *)
(* workspace file was written from such a state.  Each operation on the    *)
(* arrays gets a lemma that says what edges it leaves: the loops may be    *)
(* refused a dependency (Enriched says "at most these, and all where they  *)
(* close no cycle").  A reload and a workspace are refused none, because   *)
(* what they enter is a copy of a graph that has no cycle (LaidOver).      *)
(*                                                                         *)
(* From this, every step is one of ProjectGraph or none, if no object gets *)
(* the address of a deleted one that had dependencies.                     *)
(*                                                                         *)
(* Without a cycle the recursion of CalculateProjectDependencies ends, and *)
(* the order it computes is the one a build needs.                         *)
(***************************************************************************)
EXTENDS ProjectDeps, FiniteSetTheorems, TLAPS

(* The graph of the arrays, over addresses, and that of the files, which    *)
(* ProjectGraph is about.                                                   *)
A == INSTANCE ProjectGraph_proofs WITH Projects <- Address, open <- {}, edges <- {}, saved <- {}

ArraysTyped(deps) ==
  /\ deps \in [Address -> Seq(Address)]
  /\ \A a \in Address : IsInjective(deps[a])

Edges(deps) == {e \in Address \X Address : e[2] \in Range(deps[e[1]])}

(* What every operation on the arrays may rely on.                          *)
Sound(deps) == ArraysTyped(deps) /\ A!NoCycle(Edges(deps))

(* The loops.                                                               *)
ThoseOp(S, q, acc, x) == IF x \in S THEN Append(acc, x) ELSE acc
AddOp(base, q, acc, d) == AddProjectDependency(acc, base, d)
DependOp(b, q, acc, d) == AddProjectDependency(acc, d, b)
EnterOp(at, files, acc, e) ==
  AddAll(acc, at[e.file],
         [i \in DOMAIN Those(e.deps, files) |-> at[Those(e.deps, files)[i]]])
ClosedOp(p, q, acc, a) == RemoveProjectFromAllDependencies(acc, a)

Listing == INSTANCE FoldLemmas WITH op <- ThoseOp
Adding == INSTANCE FoldLemmas WITH op <- AddOp
Depending == INSTANCE FoldLemmas WITH op <- DependOp
Entering == INSTANCE FoldLemmas WITH op <- EnterOp
Closing == INSTANCE FoldLemmas WITH op <- ClosedOp

(* Each loop is the fold of its operator.                                   *)
LEMMA TheFolds ==
  /\ \A list, S : Those(list, S) = Listing!Fold(S, 0, <<>>, list)
  /\ \A deps, base, wanted : AddAll(deps, base, wanted) = Adding!Fold(base, 0, deps, wanted)
  /\ \A deps, list : FoldLeft(RemoveProjectFromAllDependencies, deps, list) = Closing!Fold(0, 0, deps, list)
<1>1. \A list, S : Those(list, S) = Listing!Fold(S, 0, <<>>, list)
  BY DEF Those, FoldLeft, MapThenFoldSet, Max, Listing!Fold, Listing!Top, ThoseOp
<1>2. \A deps, base, wanted : AddAll(deps, base, wanted) = Adding!Fold(base, 0, deps, wanted)
  BY DEF AddAll, FoldLeft, MapThenFoldSet, Max, Adding!Fold, Adding!Top, AddOp
<1>3. \A deps, list : FoldLeft(RemoveProjectFromAllDependencies, deps, list) = Closing!Fold(0, 0, deps, list)
  BY DEF FoldLeft, MapThenFoldSet, Max, Closing!Fold, Closing!Top, ClosedOp
<1> QED BY <1>1, <1>2, <1>3

(* The recursion of CausesCircularDependency ends, and says whether base is *)
(* among what dependsOn needs.                                              *)
LEMMA CausesIsNeeded ==
  ASSUME NEW deps, Sound(deps), NEW base \in Address, NEW x \in Address
  PROVE  CausesCircularDependency(deps, base, x) <=> base \in A!Needed(Edges(deps), x)
<1> DEFINE E == Edges(deps)
           F == [p \in Address |-> base \in A!Needed(E, p)]
           Is(g) == g = [p \in Address |-> p = base \/ \E q \in Range(deps[p]) : g[q]]
<1>0. \A p \in Address : Range(deps[p]) \subseteq Address
  BY DEF Sound, ArraysTyped, Range
<1>1. \A p, q \in Address : <<p, q>> \in E <=> q \in Range(deps[p])
  BY DEF Edges
<1>2. \A p \in Address : F[p] <=> (p = base \/ \E q \in Range(deps[p]) : F[q])
  <2>1. SUFFICES ASSUME NEW p \in Address
        PROVE  base \in A!Needed(E, p) <=> (p = base \/ \E q \in Range(deps[p]) : base \in A!Needed(E, q))
    BY <1>0
  <2> HIDE DEF E
  <2> QED BY <1>0, <1>1, A!NeededStep
<1> HIDE DEF E
<1>3. F \in [Address -> BOOLEAN]
  OBVIOUS
<1>4. Is(F)
  <2> DEFINE H == [p \in Address |-> p = base \/ \E q \in Range(deps[p]) : F[q]]
  <2>1. H \in [Address -> BOOLEAN]
    OBVIOUS
  <2>2. \A p \in Address : H[p] = F[p]
    BY <1>2, <1>3, <2>1
  <2> HIDE DEF F
  <2>3. F = H
    BY <1>3, <2>1, <2>2
  <2> QED BY <2>3
<1> DEFINE g == CHOOSE h : Is(h)
<1>5. Is(g)
  BY <1>4
<1>6. CausesCircularDependency(deps, base, x) = g[x]
  BY DEF CausesCircularDependency
<1> HIDE DEF g, F
<1>7. \A p \in Address : g[p] = (p = base \/ \E q \in Range(deps[p]) : g[q])
  BY <1>5
<1>8. \A p \in Address : F[p] = (p = base \/ \E q \in Range(deps[p]) : F[q])
  BY <1>4
<1> DEFINE D == {p \in Address : g[p] # F[p]}
<1>9. D = {}
  <2> SUFFICES ASSUME D # {} PROVE FALSE
    OBVIOUS
  <2>1. PICK a \in D : \A b \in D : <<a, b>> \notin E
    BY DEF Sound, A!NoCycle, E
  <2>2. \A q \in Range(deps[a]) : g[q] = F[q]
    BY <1>0, <1>1, <2>1
  <2>3. g[a] = F[a]
    BY <1>7, <1>8, <2>2
  <2> QED BY <2>3
<1>10. g[x] = F[x]
  BY <1>9
<1> QED BY <1>6, <1>10 DEF F, E
-----------------------------------------------------------------------------
(* Lists: each element once.                                                *)

(* Positions.                                                               *)
LEMMA OneMore ==
  ASSUME NEW k \in Nat
  PROVE  1..(k + 1) = (1..k) \cup {k + 1}
OBVIOUS

(* The length of two lists joined.                                          *)
LEMMA ConcatLen ==
  ASSUME NEW S, NEW u \in Seq(S), NEW v \in Seq(S)
  PROVE  Len(u \o v) = Len(u) + Len(v)
OBVIOUS

(* What is left of a list after its first k elements.                       *)
LEMMA After ==
  ASSUME NEW S, NEW s \in Seq(S), NEW k \in 1..Len(s)
  PROVE  LET v == SubSeq(s, k + 1, Len(s))
         IN  v \in Seq(S) /\ Len(v) = Len(s) - k /\ \A i \in 1..(Len(s) - k) : v[i] = s[i + k]
<1> DEFINE v == SubSeq(s, k + 1, Len(s))
<1>1. v \in Seq(S)
  OBVIOUS
<1>2. Len(v) = Len(s) - k
  OBVIOUS
<1>3. \A i \in 1..(Len(s) - k) : v[i] = s[i + k]
  OBVIOUS
<1> QED BY <1>1, <1>2, <1>3

(* A list over S is one over what S is part of.                             *)
LEMMA SeqMore ==
  ASSUME NEW S, NEW T, S \subseteq T, NEW s \in Seq(S)
  PROVE  s \in Seq(T)
<1>1. Len(s) \in Nat /\ s \in [1..Len(s) -> S]
  OBVIOUS
<1>2. s \in [1..Len(s) -> T]
  BY <1>1
<1> QED BY <1>1, <1>2

Lists(S) == {s \in Seq(S) : IsInjective(s)}

(* Appending what is not there keeps each element once.                     *)
LEMMA AppendKeeps ==
  ASSUME NEW S, NEW s \in Lists(S), NEW x \in S
  PROVE  /\ Append(s, x) \in Seq(S) /\ Range(Append(s, x)) = Range(s) \cup {x}
         /\ x \notin Range(s) => Append(s, x) \in Lists(S)
<1> DEFINE n == Len(s)
           t == Append(s, x)
<1>1. s \in Seq(S) /\ n \in Nat /\ DOMAIN s = 1..n /\ IsInjective(s)
  BY DEF Lists
<1>2. /\ t \in Seq(S) /\ DOMAIN t = 1..(n + 1) /\ t[n + 1] = x
      /\ \A i \in 1..n : t[i] = s[i]
  BY <1>1
<1> HIDE DEF t, n
<1>3. Range(t) = Range(s) \cup {x}
  BY <1>1, <1>2 DEF Range
<1>4. ASSUME x \notin Range(s), NEW i \in 1..(n + 1), NEW j \in 1..(n + 1), t[i] = t[j]
      PROVE  i = j
  <2>1. (i \in 1..n \/ i = n + 1) /\ (j \in 1..n \/ j = n + 1)
    BY <1>1
  <2>2. \A k \in 1..n : t[k] # x
    BY <1>1, <1>2, <1>4 DEF Range
  <2> QED BY <1>1, <1>2, <1>4, <2>1, <2>2 DEF IsInjective
<1> QED BY <1>1, <1>2, <1>3, <1>4 DEF Lists, IsInjective, t

(* A list contains what is in its range.                                    *)
LEMMA ContainsRange ==
  ASSUME NEW S, NEW s \in Seq(S), NEW x
  PROVE  Contains(s, x) <=> x \in Range(s)
BY DEF Contains, Range

(* Removing the first occurrence removes the element.                       *)
LEMMA RemoveKeeps ==
  ASSUME NEW S, NEW s \in Lists(S), NEW x
  PROVE  RemoveFirst(s, x) \in Lists(S) /\ Range(RemoveFirst(s, x)) = Range(s) \ {x}
<1> DEFINE I == {i \in 1..Len(s) : s[i] = x}
           k == Min(I)
           n == Len(s)
           r == RemoveFirst(s, x)
<1>0. s \in Seq(S) /\ n \in Nat /\ DOMAIN s = 1..n /\ IsInjective(s)
  BY DEF Lists
<1>a. CASE x \notin Range(s)
  BY <1>0, <1>a DEF RemoveFirst, Range
<1>b. CASE x \in Range(s)
  <2>1. I # {} /\ I \in SUBSET Nat
    BY <1>0, <1>b DEF Range
  <2>2. k \in I
    <3>1. \E i \in I : \A j \in I : i <= j
      BY <2>1, Listing!Least
    <3> HIDE DEF I
    <3> QED BY <3>1 DEF Min
  <2>3. r = SubSeq(s, 1, k - 1) \o SubSeq(s, k + 1, n)
    BY <2>1 DEF RemoveFirst, SelectInSeq, RemoveAt
  <2>4. k \in 1..n /\ s[k] = x
    BY <2>2
  <2> HIDE DEF k
  <2> DEFINE u == SubSeq(s, 1, k - 1)
             v == SubSeq(s, k + 1, n)
  <2>5. u \in Seq(S) /\ Len(u) = k - 1 /\ \A i \in 1..(k - 1) : u[i] = s[i]
    BY <1>0, <2>4
  <2>6. v \in Seq(S) /\ Len(v) = n - k /\ \A i \in 1..(n - k) : v[i] = s[i + k]
    BY <1>0, <2>4, After
  <2>7. r = u \o v
    BY <2>3
  <2> HIDE DEF u, v, r, n
  <2>8. Len(u \o v) = Len(u) + Len(v) /\ u \o v \in Seq(S)
    BY <2>5, <2>6, ConcatLen
  <2>9. r \in Seq(S) /\ Len(r) = n - 1
    BY <1>0, <2>4, <2>5, <2>6, <2>7, <2>8
  <2>10. ASSUME NEW i \in 1..(n - 1) PROVE r[i] = IF i < k THEN s[i] ELSE s[i + 1]
    <3>2. CASE i < k
      <4>1. i \in 1..(k - 1)
        BY <1>0, <2>4, <3>2
      <4>2. r[i] = u[i]
        BY <1>0, <2>5, <2>6, <2>7, <4>1
      <4> QED BY <2>5, <3>2, <4>1, <4>2
    <3>3. CASE ~(i < k)
      <4>1. i - (k - 1) \in 1..(n - k) /\ i > k - 1 /\ i <= (k - 1) + (n - k)
        BY <1>0, <2>4, <3>3
      <4>2. r[i] = v[i - (k - 1)]
        BY <1>0, <2>5, <2>6, <2>7, <4>1
      <4>3. (i - (k - 1)) + k = i + 1
        BY <1>0, <2>4
      <4> QED BY <2>6, <3>3, <4>1, <4>2, <4>3
    <3> QED BY <3>2, <3>3
  <2> DEFINE At(i) == IF i < k THEN i ELSE i + 1
             Back(i) == IF i < k THEN i ELSE i - 1
  <2>11. \A i \in 1..(n - 1) : At(i) \in 1..n /\ At(i) # k /\ r[i] = s[At(i)]
    BY <1>0, <2>4, <2>10
  <2>12. \A i, j \in 1..(n - 1) : At(i) = At(j) => i = j
    BY <1>0, <2>4
  <2>13. \A i \in 1..n : i # k => Back(i) \in 1..(n - 1) /\ At(Back(i)) = i
    BY <1>0, <2>4
  <2>14. DOMAIN r = 1..(n - 1)
    BY <1>0, <2>4, <2>9
  <2> HIDE DEF At, Back
  <2>15. IsInjective(r)
    BY <1>0, <2>11, <2>12, <2>14 DEF IsInjective
  <2>16. Range(r) = Range(s) \ {x}
    <3>1. ASSUME NEW i \in 1..(n - 1) PROVE r[i] \in Range(s) \ {x}
      BY <1>0, <2>4, <2>11 DEF Range, IsInjective
    <3>2. ASSUME NEW y \in Range(s) \ {x} PROVE y \in Range(r)
      <4>1. PICK i \in 1..n : s[i] = y
        BY <1>0 DEF Range
      <4>2. r[Back(i)] = y
        BY <2>4, <2>11, <2>13, <4>1
      <4> QED BY <2>4, <2>13, <2>14, <4>1, <4>2 DEF Range
    <3> QED BY <2>14, <3>1, <3>2 DEF Range
  <2> QED BY <2>9, <2>15, <2>16 DEF Lists, r
<1> QED BY <1>a, <1>b

(* Selecting keeps the elements that are asked for, each once.              *)
LEMMA ThoseKeeps ==
  ASSUME NEW T, NEW list \in Lists(T), NEW S
  PROVE  Those(list, S) \in Lists(T) /\ Range(Those(list, S)) = Range(list) \cap S
<1> DEFINE n == Len(list)
           R == [k \in 0..n |-> {acc \in Lists(T) : Range(acc) = {list[i] : i \in 1..k} \cap S}]
<1>1. list \in Seq(T) /\ n \in Nat /\ DOMAIN list = 1..n /\ IsInjective(list)
  BY DEF Lists
<1>2. <<>> \in R[0]
  BY <1>1 DEF Lists, Range, IsInjective
<1>3. ASSUME NEW k \in 0..(n - 1), NEW acc \in R[k]
      PROVE  ThoseOp(S, 0, acc, list[k + 1]) \in R[k + 1]
  <2> DEFINE x == list[k + 1]
  <2>1. k + 1 \in 1..n /\ k \in 0..n /\ k + 1 \in 0..n /\ x \in T
    BY <1>1
  <2>2. acc \in Lists(T) /\ Range(acc) = {list[i] : i \in 1..k} \cap S
    BY <2>1
  <2>3. \A i \in 1..k : i \in 1..n /\ i # k + 1
    BY <1>1
  <2>4. x \notin Range(acc)
    BY <1>1, <2>1, <2>2, <2>3 DEF IsInjective
  <2>5. 1..(k + 1) = (1..k) \cup {k + 1}
    BY <2>1, OneMore
  <2>6. {list[i] : i \in 1..(k + 1)} = {list[i] : i \in 1..k} \cup {x}
    BY <2>5
  <2> HIDE DEF x
  <2>7. ThoseOp(S, 0, acc, x) \in Lists(T)
    BY <2>1, <2>2, <2>4, AppendKeeps DEF ThoseOp
  <2>8. Range(ThoseOp(S, 0, acc, x)) = {list[i] : i \in 1..(k + 1)} \cap S
    <3>1. CASE x \in S
      <4>1. Range(Append(acc, x)) = Range(acc) \cup {x}
        BY <2>1, <2>2, AppendKeeps
      <4> QED BY <2>2, <2>6, <3>1, <4>1 DEF ThoseOp
    <3>2. CASE x \notin S
      BY <2>2, <2>6, <3>2 DEF ThoseOp
    <3> QED BY <3>1, <3>2
  <2> QED BY <2>1, <2>7, <2>8 DEF x
<1>4. R[n] = {acc \in Lists(T) : Range(acc) = Range(list) \cap S}
  <2>1. n \in 0..n
    BY <1>1
  <2>2. {list[i] : i \in 1..n} = Range(list)
    BY <1>1 DEF Range
  <2>3. R[n] = {acc \in Lists(T) : Range(acc) = {list[i] : i \in 1..n} \cap S}
    BY <2>1
  <2> QED BY <2>2, <2>3
<1> HIDE DEF R
<1>5. Listing!Fold(S, 0, <<>>, list) \in R[n]
  BY <1>1, <1>2, <1>3, Listing!FoldSteps
<1> QED BY <1>4, <1>5, TheFolds
-----------------------------------------------------------------------------
(* The operations on the arrays.                                            *)

(* The graph of the arrays says what each array names.                      *)
LEMMA EdgesOf ==
  ASSUME NEW deps, ArraysTyped(deps)
  PROVE  /\ \A a, b \in Address : <<a, b>> \in Edges(deps) <=> b \in Range(deps[a])
         /\ \A a \in Address : Range(deps[a]) \subseteq Address /\ deps[a] \in Lists(Address)
         /\ Edges(deps) \subseteq Address \X Address
BY DEF Edges, ArraysTyped, Range, Lists

(* The dependencies of the others.                                          *)
Others(E, a) == {e \in E : e[1] # a}

(* The dependencies of one project on several.                              *)
From(a, S) == {a} \X S
Onto(S, a) == S \X {a}

Rewritten(deps, new, a, S) == Edges(new) = Others(Edges(deps), a) \cup From(a, S)

(* Where one array gets another list.                                       *)
LEMMA OneArray ==
  ASSUME NEW deps, ArraysTyped(deps), NEW a \in Address, NEW list \in Lists(Address),
         NEW new, new = [deps EXCEPT ![a] = list]
  PROVE  /\ ArraysTyped(new)
         /\ Rewritten(deps, new, a, Range(list))
<1>1. new \in [Address -> Seq(Address)] /\ \A b \in Address : new[b] = IF b = a THEN list ELSE deps[b]
  BY DEF ArraysTyped, Lists
<1>2. ArraysTyped(new)
  BY <1>1 DEF ArraysTyped, Lists
<1>3. Range(list) \subseteq Address
  BY DEF Lists, Range
<1> DEFINE F == Others(Edges(deps), a) \cup From(a, Range(list))
<1>4. ASSUME NEW x \in Address, NEW y \in Address
      PROVE  <<x, y>> \in Edges(new) <=> <<x, y>> \in F
  <2>1. CASE x = a
    BY <1>1, <1>2, <2>1, EdgesOf DEF Others, From
  <2>2. CASE x # a
    BY <1>1, <1>2, <2>2, EdgesOf DEF Others, From
  <2> QED BY <2>1, <2>2
<1>5. Edges(new) \subseteq Address \X Address /\ F \subseteq Address \X Address
  BY <1>2, <1>3, EdgesOf DEF Others, From
<1> HIDE DEF F
<1>6. Edges(new) = F
  <2>1. ASSUME NEW e \in Address \X Address PROVE e \in Edges(new) <=> e \in F
    <3>1. PICK x \in Address, y \in Address : e = <<x, y>>
      OBVIOUS
    <3> QED BY <1>4, <3>1
  <2> QED BY <1>5, <2>1
<1> QED BY <1>2, <1>6 DEF F, Rewritten

(* AddProjectDependency adds the dependency, and nothing else, where it     *)
(* closes no cycle; it never makes one.                                     *)
LEMMA AddKeeps ==
  ASSUME NEW deps, Sound(deps), NEW base \in Address, NEW d \in Address
  PROVE  LET new == AddProjectDependency(deps, base, d)
         IN  /\ Sound(new)
             /\ Edges(new) = IF base \in A!Needed(Edges(deps), d) THEN Edges(deps)
                             ELSE Edges(deps) \cup {<<base, d>>}
<1> DEFINE new == AddProjectDependency(deps, base, d)
           E == Edges(deps)
<1>0. ArraysTyped(deps) /\ A!NoCycle(E)
  BY DEF Sound
<1>1. CASE base \in A!Needed(E, d)
  BY <1>1, CausesIsNeeded DEF AddProjectDependency
<1>2. CASE base \notin A!Needed(E, d)
  <2>1. A!NoCycle(E \cup ({base} \X {d}))
    <3>1. {d} \in SUBSET Address /\ \A t \in {d} : base \notin A!Needed(E, t)
      BY <1>2
    <3> HIDE DEF E
    <3> QED BY <1>0, <3>1, A!DependNoCycle
  <2>2. {base} \X {d} = {<<base, d>>}
    OBVIOUS
  <2>3. deps[base] \in Lists(Address) /\ deps[base] \in Seq(Address)
    BY <1>0, EdgesOf DEF Lists
  <2>4. CASE Contains(deps[base], d)
    <3>1. new = deps
      BY <2>4 DEF AddProjectDependency
    <3>2. <<base, d>> \in E
      BY <1>0, <2>3, <2>4, ContainsRange, EdgesOf
    <3> QED BY <1>2, <3>1, <3>2
  <2>5. CASE ~Contains(deps[base], d)
    <3> DEFINE list == Append(deps[base], d)
    <3>1. list \in Lists(Address) /\ Range(list) = Range(deps[base]) \cup {d}
      BY <2>3, <2>5, ContainsRange, AppendKeeps
    <3>2. new = [deps EXCEPT ![base] = list]
      BY <1>2, <2>5, CausesIsNeeded DEF AddProjectDependency
    <3> HIDE DEF list, new
    <3>3. /\ ArraysTyped(new)
          /\ Edges(new) = Others(E, base) \cup From(base, Range(list))
      <4>1. ArraysTyped(new) /\ Rewritten(deps, new, base, Range(list))
        BY <1>0, <3>1, <3>2, OneArray
      <4> QED BY <4>1 DEF Rewritten
    <3>4. Others(E, base) \cup From(base, Range(deps[base])) = E
      BY <1>0, EdgesOf DEF Others, From
    <3>5. Edges(new) = E \cup {<<base, d>>}
      BY <3>1, <3>3, <3>4 DEF From
    <3> QED BY <1>2, <2>1, <2>2, <3>3, <3>5 DEF Sound, new
  <2> QED BY <2>4, <2>5
<1> QED BY <1>1, <1>2

(* More dependencies were asked for: some of them were entered, all where   *)
(* they close no cycle together.                                            *)
Enriched(deps, new, more) ==
  /\ Sound(new)
  /\ Edges(deps) \subseteq Edges(new) /\ Edges(new) \subseteq Edges(deps) \cup more
  /\ A!NoCycle(Edges(deps) \cup more) => Edges(new) = Edges(deps) \cup more

(* Several dependencies of one project: none is lost where they close no    *)
(* cycle together.                                                          *)
LEMMA AddAllKeeps ==
  ASSUME NEW deps, Sound(deps), NEW base \in Address, NEW wanted \in Seq(Address)
  PROVE  Enriched(deps, AddAll(deps, base, wanted), From(base, Range(wanted)))
<1> DEFINE n == Len(wanted)
           E == Edges(deps)
           all == E \cup From(base, Range(wanted))
           Upto(k) == E \cup From(base, {wanted[i] : i \in 1..k})
           R == [k \in 0..n |-> {acc \in [Address -> Seq(Address)] :
                    /\ Sound(acc)
                    /\ E \subseteq Edges(acc) /\ Edges(acc) \subseteq Upto(k)
                    /\ A!NoCycle(all) => Edges(acc) = Upto(k)}]
<1>1. n \in Nat /\ DOMAIN wanted = 1..n
  OBVIOUS
<1>2. deps \in R[0]
  <2>1. 0 \in 0..n /\ Upto(0) = E
    BY <1>1 DEF From
  <2>2. deps \in [Address -> Seq(Address)]
    BY DEF Sound, ArraysTyped
  <2> QED BY <2>1, <2>2
<1>3. ASSUME NEW k \in 0..(n - 1), NEW acc \in R[k]
      PROVE  AddOp(base, 0, acc, wanted[k + 1]) \in R[k + 1]
  <2> DEFINE d == wanted[k + 1]
             new == AddProjectDependency(acc, base, d)
  <2>1. k + 1 \in 1..n /\ k \in 0..n /\ k + 1 \in 0..n /\ d \in Address /\ k \in Nat
    BY <1>1
  <2>2. /\ Sound(acc) /\ E \subseteq Edges(acc) /\ Edges(acc) \subseteq Upto(k)
        /\ A!NoCycle(all) => Edges(acc) = Upto(k)
    BY <2>1
  <2>3. 1..(k + 1) = (1..k) \cup {k + 1}
    BY <2>1, OneMore
  <2>4. Upto(k + 1) = Upto(k) \cup {<<base, d>>}
    BY <2>3 DEF From
  <2>5. Upto(k + 1) \subseteq all
    <3>1. \A i \in 1..(k + 1) : i \in DOMAIN wanted
      BY <1>1, <2>1
    <3> QED BY <3>1 DEF Range, From
  <2> HIDE DEF d, Upto, all, E
  <2>6. /\ Sound(new)
        /\ Edges(new) = IF base \in A!Needed(Edges(acc), d) THEN Edges(acc)
                        ELSE Edges(acc) \cup {<<base, d>>}
    BY <2>1, <2>2, AddKeeps
  <2>7. ASSUME A!NoCycle(all) PROVE base \notin A!Needed(Edges(acc), d)
    <3>1. <<base, d>> \in all /\ Edges(acc) \subseteq all
      BY <2>2, <2>4, <2>5
    <3>2. base \notin A!Needed(all, d)
      BY <2>1, <2>7, <3>1, A!NoWayBack
    <3> QED BY <2>1, <3>1, <3>2, A!NeededMore
  <2>8. /\ E \subseteq Edges(new) /\ Edges(new) \subseteq Upto(k + 1)
        /\ A!NoCycle(all) => Edges(new) = Upto(k + 1)
    BY <2>2, <2>4, <2>6, <2>7
  <2>9. new \in [Address -> Seq(Address)]
    BY <2>6 DEF Sound, ArraysTyped
  <2>10. AddOp(base, 0, acc, wanted[k + 1]) = new
    BY DEF AddOp, d
  <2> HIDE DEF new
  <2> QED BY <2>1, <2>6, <2>8, <2>9, <2>10
<1>4. R[n] = {acc \in [Address -> Seq(Address)] :
                /\ Sound(acc)
                /\ E \subseteq Edges(acc) /\ Edges(acc) \subseteq all
                /\ A!NoCycle(all) => Edges(acc) = all}
  <2>1. n \in 0..n /\ Upto(n) = all
    BY <1>1 DEF Range, From
  <2> QED BY <2>1
<1> HIDE DEF R
<1>5. Adding!Fold(base, 0, deps, wanted) \in R[n]
  BY <1>1, <1>2, <1>3, Adding!FoldSteps
<1> QED BY <1>4, <1>5, TheFolds DEF Enriched

(* One dependency of several projects.  A project is not made to depend on  *)
(* itself.                                                                  *)
LEMMA DependKeeps ==
  ASSUME NEW deps, Sound(deps), NEW b \in Address, NEW list \in Seq(Address)
  PROVE  Enriched(deps, Depending!Fold(b, 0, deps, list), Onto(Range(list) \ {b}, b))
<1> DEFINE n == Len(list)
           E == Edges(deps)
           all == E \cup Onto(Range(list) \ {b}, b)
           Upto(k) == E \cup Onto({list[i] : i \in 1..k} \ {b}, b)
           R == [k \in 0..n |-> {acc \in [Address -> Seq(Address)] :
                    /\ Sound(acc)
                    /\ E \subseteq Edges(acc) /\ Edges(acc) \subseteq Upto(k)
                    /\ A!NoCycle(all) => Edges(acc) = Upto(k)}]
<1>1. n \in Nat /\ DOMAIN list = 1..n
  OBVIOUS
<1>2. deps \in R[0]
  <2>1. 0 \in 0..n /\ Upto(0) = E
    BY <1>1 DEF Onto
  <2>2. deps \in [Address -> Seq(Address)]
    BY DEF Sound, ArraysTyped
  <2> QED BY <2>1, <2>2
<1>3. ASSUME NEW k \in 0..(n - 1), NEW acc \in R[k]
      PROVE  DependOp(b, 0, acc, list[k + 1]) \in R[k + 1]
  <2> DEFINE d == list[k + 1]
             new == AddProjectDependency(acc, d, b)
  <2>1. k + 1 \in 1..n /\ k \in 0..n /\ k + 1 \in 0..n /\ d \in Address /\ k \in Nat
    BY <1>1
  <2>2. /\ Sound(acc) /\ E \subseteq Edges(acc) /\ Edges(acc) \subseteq Upto(k)
        /\ A!NoCycle(all) => Edges(acc) = Upto(k)
    BY <2>1
  <2>3. 1..(k + 1) = (1..k) \cup {k + 1}
    BY <2>1, OneMore
  <2>4. Upto(k + 1) = IF d = b THEN Upto(k) ELSE Upto(k) \cup {<<d, b>>}
    BY <2>3 DEF Onto
  <2>5. Upto(k + 1) \subseteq all
    <3>1. \A i \in 1..(k + 1) : i \in DOMAIN list
      BY <1>1, <2>1
    <3> QED BY <3>1 DEF Range, Onto
  <2> HIDE DEF d, Upto, all, E
  <2>6. /\ Sound(new)
        /\ Edges(new) = IF d \in A!Needed(Edges(acc), b) THEN Edges(acc)
                        ELSE Edges(acc) \cup {<<d, b>>}
    BY <2>1, <2>2, AddKeeps
  <2>7. ASSUME A!NoCycle(all), d # b PROVE d \notin A!Needed(Edges(acc), b)
    <3>1. <<d, b>> \in all /\ Edges(acc) \subseteq all
      BY <2>2, <2>4, <2>5, <2>7
    <3>2. d \notin A!Needed(all, b)
      BY <2>1, <2>7, <3>1, A!NoWayBack
    <3> QED BY <2>1, <3>1, <3>2, A!NeededMore
  <2>8. /\ E \subseteq Edges(new) /\ Edges(new) \subseteq Upto(k + 1)
        /\ A!NoCycle(all) => Edges(new) = Upto(k + 1)
    <3>1. d = b => d \in A!Needed(Edges(acc), b)
      BY A!NeededClosed
    <3> QED BY <2>2, <2>4, <2>6, <2>7, <3>1
  <2>9. new \in [Address -> Seq(Address)]
    BY <2>6 DEF Sound, ArraysTyped
  <2>10. DependOp(b, 0, acc, list[k + 1]) = new
    BY DEF DependOp, d
  <2> HIDE DEF new
  <2> QED BY <2>1, <2>6, <2>8, <2>9, <2>10
<1>4. R[n] = {acc \in [Address -> Seq(Address)] :
                /\ Sound(acc)
                /\ E \subseteq Edges(acc) /\ Edges(acc) \subseteq all
                /\ A!NoCycle(all) => Edges(acc) = all}
  <2>1. n \in 0..n /\ Upto(n) = all
    BY <1>1 DEF Range, Onto
  <2> QED BY <2>1
<1> HIDE DEF R
<1>5. Depending!Fold(b, 0, deps, list) \in R[n]
  BY <1>1, <1>2, <1>3, Depending!FoldSteps
<1> QED BY <1>4, <1>5 DEF Enriched

(* The dependencies that are left without those on a.                       *)
Without(E, a) == {e \in E : e[1] = a \/ e[2] # a}

(* RemoveProjectFromAllDependencies removes base from the arrays of the     *)
(* others.                                                                  *)
LEMMA RemoveFromAllKeeps ==
  ASSUME NEW deps, Sound(deps), NEW base \in Address
  PROVE  LET new == RemoveProjectFromAllDependencies(deps, base)
         IN  Sound(new) /\ Edges(new) = Without(Edges(deps), base)
<1> DEFINE new == RemoveProjectFromAllDependencies(deps, base)
           E == Edges(deps)
<1>0. ArraysTyped(deps) /\ A!NoCycle(E)
  BY DEF Sound
<1>1. ASSUME NEW a \in Address
      PROVE  /\ new[a] = IF a = base THEN deps[a] ELSE RemoveFirst(deps[a], base)
             /\ new[a] \in Lists(Address)
             /\ Range(new[a]) = IF a = base THEN Range(deps[a]) ELSE Range(deps[a]) \ {base}
  <2>1. deps[a] \in Lists(Address)
    BY <1>0, EdgesOf
  <2>2. new[a] = IF a = base THEN deps[a] ELSE RemoveFirst(deps[a], base)
    BY DEF RemoveProjectFromAllDependencies
  <2>3. CASE a = base
    BY <2>1, <2>2, <2>3
  <2>4. CASE a # base
    <3>1. /\ RemoveFirst(deps[a], base) \in Lists(Address)
          /\ Range(RemoveFirst(deps[a], base)) = Range(deps[a]) \ {base}
      BY <2>1, RemoveKeeps
    <3> QED BY <2>2, <2>4, <3>1
  <2> QED BY <2>3, <2>4
<1>2. DOMAIN new = Address /\ new = [a \in Address |-> new[a]]
  BY DEF RemoveProjectFromAllDependencies
<1> HIDE DEF new, E
<1>3. ArraysTyped(new)
  <2>1. \A a \in Address : new[a] \in Seq(Address) /\ IsInjective(new[a])
    BY <1>1 DEF Lists
  <2> QED BY <1>2, <2>1 DEF ArraysTyped
<1>4. ASSUME NEW x \in Address, NEW y \in Address
      PROVE  <<x, y>> \in Edges(new) <=> <<x, y>> \in Without(E, base)
  BY <1>0, <1>1, <1>3, EdgesOf DEF Without, E
<1>5. Edges(new) = Without(E, base)
  <2>1. Edges(new) \subseteq Address \X Address /\ Without(E, base) \subseteq Address \X Address
    BY <1>0, <1>3, EdgesOf DEF Without, E
  <2>2. ASSUME NEW e \in Address \X Address PROVE e \in Edges(new) <=> e \in Without(E, base)
    <3>1. PICK x \in Address, y \in Address : e = <<x, y>>
      OBVIOUS
    <3> QED BY <1>4, <3>1
  <2> QED BY <2>1, <2>2
<1>6. Without(E, base) \subseteq E
  BY DEF Without
<1>7. A!NoCycle(Edges(new))
  BY <1>0, <1>5, <1>6, A!FewerNoCycle
<1> QED BY <1>3, <1>5, <1>7 DEF Sound, new, E

(* No project depends on itself.                                            *)
LEMMA NotOnItself ==
  ASSUME NEW E, A!NoCycle(E), NEW a \in Address
  PROVE  <<a, a>> \notin E
<1>1. {a} \in SUBSET Address /\ {a} # {}
  OBVIOUS
<1> QED BY <1>1 DEF A!NoCycle

(* Without dependencies every array is empty.                               *)
LEMMA NoEdges ==
  ASSUME NEW deps, ArraysTyped(deps), Edges(deps) = {}
  PROVE  deps = [a \in Address |-> <<>>]
<1>1. ASSUME NEW a \in Address PROVE deps[a] = <<>>
  <2>1. deps[a] \in Seq(Address) /\ Range(deps[a]) = {}
    BY EdgesOf DEF Lists
  <2>2. Len(deps[a]) = 0
    <3>1. SUFFICES ASSUME Len(deps[a]) # 0 PROVE FALSE
      OBVIOUS
    <3>2. 1 \in DOMAIN deps[a]
      BY <2>1, <3>1
    <3> QED BY <2>1, <3>2 DEF Range
  <2> QED BY <2>1, <2>2
<1> QED BY <1>1 DEF ArraysTyped

(* After all the open projects were closed no array is left.                *)
LEMMA AllClosed ==
  ASSUME NEW deps, Sound(deps), NEW list \in Seq(Address),
         \A a \in Address : Range(deps[a]) \subseteq Range(list)
  PROVE  Closing!Fold(0, 0, deps, list) = [a \in Address |-> <<>>]
<1> DEFINE n == Len(list)
           E == Edges(deps)
           Left(k) == {e \in E : \A i \in 1..k : e[1] = list[i] \/ e[2] # list[i]}
           R == [k \in 0..n |-> {acc \in [Address -> Seq(Address)] :
                                    Sound(acc) /\ Edges(acc) \subseteq Left(k)}]
<1>1. n \in Nat /\ DOMAIN list = 1..n
  OBVIOUS
<1>2. deps \in R[0]
  <2>1. 0 \in 0..n /\ E \subseteq Left(0)
    BY <1>1
  <2>2. deps \in [Address -> Seq(Address)]
    BY DEF Sound, ArraysTyped
  <2> QED BY <2>1, <2>2
<1>3. ASSUME NEW k \in 0..(n - 1), NEW acc \in R[k]
      PROVE  ClosedOp(0, 0, acc, list[k + 1]) \in R[k + 1]
  <2> DEFINE d == list[k + 1]
             new == RemoveProjectFromAllDependencies(acc, d)
  <2>1. k + 1 \in 1..n /\ k \in 0..n /\ k + 1 \in 0..n /\ d \in Address /\ k \in Nat
    BY <1>1
  <2>2. Sound(acc) /\ Edges(acc) \subseteq Left(k)
    BY <2>1
  <2>3. 1..(k + 1) = (1..k) \cup {k + 1}
    BY <2>1, OneMore
  <2>4. Without(Left(k), d) \subseteq Left(k + 1)
    BY <2>3 DEF Without
  <2> HIDE DEF d, Left, E
  <2>6. Sound(new) /\ Edges(new) = Without(Edges(acc), d)
    BY <2>1, <2>2, RemoveFromAllKeeps
  <2>7. Edges(new) \subseteq Left(k + 1)
    BY <2>2, <2>4, <2>6 DEF Without
  <2>9. new \in [Address -> Seq(Address)]
    BY <2>6 DEF Sound, ArraysTyped
  <2>10. ClosedOp(0, 0, acc, list[k + 1]) = new
    BY DEF ClosedOp, d
  <2> HIDE DEF new
  <2> QED BY <2>1, <2>6, <2>7, <2>9, <2>10
<1>4. R[n] = {acc \in [Address -> Seq(Address)] : Sound(acc) /\ Edges(acc) \subseteq Left(n)}
  <2>1. n \in 0..n
    BY <1>1
  <2> QED BY <2>1
<1>5. Left(n) = {}
  <2> SUFFICES ASSUME NEW e \in Left(n) PROVE FALSE
    OBVIOUS
  <2>1. e \in E /\ A!NoCycle(E)
    BY DEF Sound
  <2>2. PICK x \in Address, y \in Address : e = <<x, y>> /\ y \in Range(list)
    BY <2>1, EdgesOf DEF Sound
  <2>3. PICK i \in 1..n : y = list[i]
    BY <1>1, <2>2 DEF Range
  <2>4. x = y
    BY <2>2, <2>3
  <2> HIDE DEF E
  <2> QED BY <2>1, <2>2, <2>4, NotOnItself
<1> HIDE DEF R
<1>6. Closing!Fold(0, 0, deps, list) \in R[n]
  BY <1>1, <1>2, <1>3, Closing!FoldSteps
<1> QED BY <1>4, <1>5, <1>6, NoEdges DEF Sound
-----------------------------------------------------------------------------
(* A workspace that is loaded.                                              *)

Entries == [file : File, deps : Lists(File)]

(* What the entry of a project asks for, once the files are objects.        *)
Asked(at, files, e) == From(at[e.file], {at[f] : f \in Range(e.deps) \cap files})

(* The dependencies of one entry are entered, all of them where they close  *)
(* no cycle.                                                                *)
LEMMA EnterKeeps ==
  ASSUME NEW files \in SUBSET File, NEW at \in [files -> Address],
         NEW acc, Sound(acc), NEW e \in Entries, e.file \in files
  PROVE  Enriched(acc, EnterOp(at, files, acc, e), Asked(at, files, e))
<1> DEFINE chosen == Those(e.deps, files)
           wanted == [i \in DOMAIN chosen |-> at[chosen[i]]]
           base == at[e.file]
<1>1. chosen \in Lists(File) /\ Range(chosen) = Range(e.deps) \cap files
  BY ThoseKeeps DEF Entries
<1>2. wanted \in Seq(Address) /\ Range(wanted) = {at[f] : f \in Range(e.deps) \cap files}
  <2> HIDE DEF chosen
  <2>1. chosen \in Seq(File) /\ DOMAIN chosen = 1..Len(chosen) /\ Len(chosen) \in Nat
    BY <1>1 DEF Lists
  <2>2. \A i \in DOMAIN chosen : chosen[i] \in files
    BY <1>1 DEF Range
  <2>3. wanted \in Seq(Address)
    BY <2>1, <2>2
  <2>4. DOMAIN wanted = DOMAIN chosen /\ \A i \in DOMAIN chosen : wanted[i] = at[chosen[i]]
    OBVIOUS
  <2> HIDE DEF wanted
  <2>5. Range(wanted) = {at[f] : f \in Range(chosen)}
    BY <2>4 DEF Range
  <2> QED BY <1>1, <2>3, <2>5
<1>3. base \in Address
  OBVIOUS
<1>4. EnterOp(at, files, acc, e) = AddAll(acc, base, wanted)
  BY DEF EnterOp
<1>5. Asked(at, files, e) = From(base, Range(wanted))
  BY <1>2 DEF Asked
<1> HIDE DEF wanted, base, chosen
<1>6. Enriched(acc, AddAll(acc, base, wanted), From(base, Range(wanted)))
  BY <1>2, <1>3, AddAllKeeps
<1> QED BY <1>4, <1>5, <1>6

AllAsked(at, files, list) == UNION {Asked(at, files, list[i]) : i \in DOMAIN list}

(* The dependencies a workspace asks for are entered, all of them where     *)
(* they close no cycle.                                                     *)
LEMMA EnterAllKeeps ==
  ASSUME NEW files \in SUBSET File, NEW at \in [files -> Address],
         NEW deps, Sound(deps), Edges(deps) = {},
         NEW list \in Seq(Entries), \A i \in DOMAIN list : list[i].file \in files
  PROVE  LET new == Entering!Fold(at, files, deps, list)
             all == AllAsked(at, files, list)
         IN  /\ Sound(new) /\ Edges(new) \subseteq all
             /\ A!NoCycle(all) => Edges(new) = all
<1> DEFINE n == Len(list)
           all == AllAsked(at, files, list)
           Upto(k) == UNION {Asked(at, files, list[i]) : i \in 1..k}
           R == [k \in 0..n |-> {acc \in [Address -> Seq(Address)] :
                    /\ Sound(acc) /\ Edges(acc) \subseteq Upto(k)
                    /\ A!NoCycle(all) => Edges(acc) = Upto(k)}]
<1>1. n \in Nat /\ DOMAIN list = 1..n
  OBVIOUS
<1>2. deps \in R[0]
  <2>1. 0 \in 0..n /\ Upto(0) = {}
    BY <1>1
  <2>2. deps \in [Address -> Seq(Address)]
    BY DEF Sound, ArraysTyped
  <2> QED BY <2>1, <2>2
<1>3. ASSUME NEW k \in 0..(n - 1), NEW acc \in R[k]
      PROVE  EnterOp(at, files, acc, list[k + 1]) \in R[k + 1]
  <2> DEFINE e == list[k + 1]
             new == EnterOp(at, files, acc, e)
  <2>1. k + 1 \in 1..n /\ k \in 0..n /\ k + 1 \in 0..n /\ e \in Entries /\ e.file \in files /\ k \in Nat
    BY <1>1
  <2>2. /\ Sound(acc) /\ Edges(acc) \subseteq Upto(k)
        /\ A!NoCycle(all) => Edges(acc) = Upto(k)
    BY <2>1
  <2>3. 1..(k + 1) = (1..k) \cup {k + 1}
    BY <2>1, OneMore
  <2>4. Upto(k + 1) = Upto(k) \cup Asked(at, files, e)
    BY <2>3
  <2>5. Upto(k + 1) \subseteq all
    <3>1. \A i \in 1..(k + 1) : i \in DOMAIN list
      BY <1>1, <2>1
    <3> QED BY <3>1 DEF AllAsked
  <2> HIDE DEF e, Upto, all
  <2>6. Enriched(acc, new, Asked(at, files, e))
    BY <2>1, <2>2, EnterKeeps
  <2>7. ASSUME A!NoCycle(all) PROVE A!NoCycle(Edges(acc) \cup Asked(at, files, e))
    <3>1. Edges(acc) \cup Asked(at, files, e) \subseteq all
      BY <2>2, <2>4, <2>5
    <3> QED BY <2>7, <3>1, A!FewerNoCycle
  <2>8. /\ Edges(new) \subseteq Upto(k + 1)
        /\ A!NoCycle(all) => Edges(new) = Upto(k + 1)
    BY <2>2, <2>4, <2>6, <2>7 DEF Enriched
  <2>9. new \in [Address -> Seq(Address)]
    BY <2>6 DEF Enriched, Sound, ArraysTyped
  <2>10. EnterOp(at, files, acc, list[k + 1]) = new
    BY DEF e
  <2> HIDE DEF new
  <2> QED BY <2>1, <2>6, <2>8, <2>9, <2>10 DEF Enriched
<1>4. R[n] = {acc \in [Address -> Seq(Address)] :
                /\ Sound(acc) /\ Edges(acc) \subseteq all
                /\ A!NoCycle(all) => Edges(acc) = all}
  <2>1. n \in 0..n /\ Upto(n) = all
    BY <1>1 DEF AllAsked
  <2> QED BY <2>1
<1> HIDE DEF R
<1>5. Entering!Fold(at, files, deps, list) \in R[n]
  BY <1>1, <1>2, <1>3, Entering!FoldSteps
<1> QED BY <1>4, <1>5
-----------------------------------------------------------------------------
(* The inductive invariant.                                                 *)

G == INSTANCE ProjectGraph_proofs WITH
  Projects <- File,
  open  <- {file[a] : a \in Opened},
  edges <- Relation,
  saved <- [open |-> {workspace[i].file : i \in DOMAIN workspace}, edges |-> Written]

ProjectsOK == m_pProjects \in Lists(Address)

FilesOK ==
  /\ file \in [Address -> File \cup {NoFile}]
  /\ \A a \in Address : file[a] \in File <=> a \in Opened
  /\ \A a, b \in Opened : file[a] = file[b] => a = b

ArraysOK ==
  /\ Sound(m_ProjectDeps)
  /\ \A a \in Address : Range(m_ProjectDeps[a]) \subseteq Opened

Saved == {workspace[i].file : i \in DOMAIN workspace}

(* The workspace file was written from such a state: its projects have      *)
(* objects to be loaded into, and their dependencies no cycle.              *)
WorkspaceOK ==
  /\ workspace \in Seq(Entries)
  /\ \A i, j \in DOMAIN workspace : workspace[i].file = workspace[j].file => i = j
  /\ \A i \in DOMAIN workspace : Range(workspace[i].deps) \subseteq Saved
  /\ \E at \in [Saved -> Address] : IsInjective(at)
  /\ G!NoCycle(Written)

DepsInv == ProjectsOK /\ FilesOK /\ ArraysOK /\ WorkspaceOK

(* The invariant says more than the types.                                  *)
LEMMA InvTypeOK == DepsInv => TypeOK
<1> SUFFICES ASSUME DepsInv PROVE TypeOK
  OBVIOUS
<1>1. m_pProjects \in Seq(Address) /\ IsInjective(m_pProjects)
  BY DEF DepsInv, ProjectsOK, Lists
<1>2. \A a \in Address : file[a] \in IF a \in Opened THEN File ELSE {NoFile}
  BY DEF DepsInv, FilesOK
<1>3. \A a \in Address : /\ m_ProjectDeps[a] \in Seq(Address) /\ IsInjective(m_ProjectDeps[a])
                         /\ Range(m_ProjectDeps[a]) \subseteq Opened
  BY DEF DepsInv, ArraysOK, Sound, ArraysTyped
<1>4. workspace \in Seq([file : File, deps : Seq(File)])
  <2>1. Entries \subseteq [file : File, deps : Seq(File)]
    BY DEF Entries, Lists
  <2>2. workspace \in Seq(Entries)
    BY DEF DepsInv, WorkspaceOK
  <2> QED BY <2>1, <2>2, SeqMore
<1> QED BY <1>1, <1>2, <1>3, <1>4 DEF TypeOK

(* The empty list has nothing in it.                                        *)
LEMMA EmptyList ==
  ASSUME NEW S
  PROVE  <<>> \in Lists(S) /\ Range(<<>>) = {}
BY DEF Lists, Range, IsInjective

(* The manager starts without projects, arrays and workspace.               *)
LEMMA InitInv == Init => DepsInv
<1> SUFFICES ASSUME Init PROVE DepsInv
  OBVIOUS
<1>1. ProjectsOK /\ Opened = {}
  BY EmptyList DEF Init, ProjectsOK, Opened
<1>2. FilesOK
  BY <1>1, DepsAssumption DEF Init, FilesOK
<1>3. ArraysOK
  <2>1. m_ProjectDeps \in [Address -> Seq(Address)] /\ \A a \in Address : m_ProjectDeps[a] = <<>>
    BY DEF Init
  <2>2. ArraysTyped(m_ProjectDeps)
    BY <2>1, EmptyList DEF ArraysTyped, Lists
  <2>3. Edges(m_ProjectDeps) = {}
    BY <2>1, EmptyList DEF Edges
  <2> QED BY <2>1, <2>2, <2>3, EmptyList DEF ArraysOK, Sound, A!NoCycle
<1>4. WorkspaceOK
  <2>1. workspace = <<>> /\ DOMAIN workspace = {}
    BY DEF Init
  <2>2. Saved = {} /\ Written = {}
    BY <2>1 DEF Saved, Written
  <2>3. \E at \in [{} -> Address] : IsInjective(at)
    <3> DEFINE at == [f \in {} |-> f]
    <3>1. at \in [{} -> Address] /\ IsInjective(at)
      BY DEF IsInjective
    <3> QED BY <3>1
  <2>4. G!NoCycle({})
    BY DEF G!NoCycle
  <2>5. workspace \in Seq(Entries)
    BY <2>1
  <2> QED BY <2>1, <2>2, <2>3, <2>4, <2>5 DEF WorkspaceOK
<1> QED BY <1>1, <1>2, <1>3, <1>4 DEF DepsInv
-----------------------------------------------------------------------------
(* Each action keeps the invariant.                                         *)

(* A step that leaves the workspace file keeps what is known of it.         *)
LEMMA WorkspaceSame ==
  ASSUME WorkspaceOK, UNCHANGED workspace
  PROVE  WorkspaceOK' /\ Saved' = Saved /\ Written' = Written
<1>1. Saved' = Saved /\ Written' = Written
  BY DEF Saved, Written
<1>2. G!NoCycle(Written)'
  BY <1>1 DEF WorkspaceOK, G!NoCycle
<1> QED BY <1>1, <1>2 DEF WorkspaceOK

(* A new project is appended; no array changes.                             *)
LEMMA LoadProjectInv ==
  ASSUME DepsInv, NEW a \in Address, NEW f \in File, LoadProject(a, f)
  PROVE  DepsInv' /\ Opened' = Opened \cup {a} /\ a \notin Opened
<1> USE DEF DepsInv
<1>1. a \notin Opened /\ m_pProjects' = Append(m_pProjects, a)
  BY DEF LoadProject, Free, Opened
<1>2. ProjectsOK' /\ Opened' = Opened \cup {a}
  BY <1>1, AppendKeeps DEF ProjectsOK, Opened
<1>3. FilesOK'
  <2>1. /\ file' \in [Address -> File \cup {NoFile}]
        /\ \A b \in Address : file'[b] = IF b = a THEN f ELSE file[b]
    BY DEF LoadProject, FilesOK
  <2>2. \A b \in Opened : b \in Address /\ file[b] # f /\ b # a
    BY <1>1 DEF LoadProject, ProjectsOK, Lists, Opened, Range
  <2>3. \A b \in Address : file'[b] \in File <=> b \in Opened'
    BY <1>2, <2>1 DEF FilesOK
  <2>4. \A b, c \in Opened' : file'[b] = file'[c] => b = c
    BY <1>2, <2>1, <2>2 DEF FilesOK
  <2> QED BY <2>1, <2>3, <2>4 DEF FilesOK
<1>4. ArraysOK'
  BY <1>2 DEF LoadProject, ArraysOK, Sound, ArraysTyped, Edges, A!NoCycle
<1>5. WorkspaceOK'
  BY WorkspaceSame DEF LoadProject
<1> QED BY <1>1, <1>2, <1>3, <1>4, <1>5

(* Closing a project removes it from the arrays of the others; its own      *)
(* array is left.                                                           *)
LEMMA CloseProjectInv ==
  ASSUME DepsInv, NEW a \in Address, CloseProject(a)
  PROVE  /\ DepsInv'
         /\ Opened' = Opened \ {a}
         /\ Edges(m_ProjectDeps') = Without(Edges(m_ProjectDeps), a)
<1> USE DEF DepsInv
<1>1. ProjectsOK' /\ Opened' = Opened \ {a}
  BY RemoveKeeps DEF ProjectsOK, Opened, CloseProject
<1>2. FilesOK'
  <2>1. /\ file' \in [Address -> File \cup {NoFile}]
        /\ \A b \in Address : file'[b] = IF b = a THEN NoFile ELSE file[b]
    BY DEF CloseProject, FilesOK
  <2>2. \A b \in Opened : b \in Address
    BY DEF ProjectsOK, Lists, Opened, Range
  <2>3. NoFile \notin File
    BY DepsAssumption
  <2> QED BY <1>1, <2>1, <2>2, <2>3 DEF FilesOK
<1>3. /\ Sound(m_ProjectDeps')
      /\ Edges(m_ProjectDeps') = Without(Edges(m_ProjectDeps), a)
  BY RemoveFromAllKeeps DEF ArraysOK, CloseProject
<1>4. ArraysOK'
  <2>1. ASSUME NEW x \in Address, NEW y \in Range(m_ProjectDeps'[x])
        PROVE  y \in Opened'
    <3>1. y \in Address /\ <<x, y>> \in Edges(m_ProjectDeps')
      BY <1>3, <2>1, EdgesOf DEF Sound
    <3>2. <<x, y>> \in Edges(m_ProjectDeps) /\ (x = a \/ y # a)
      BY <1>3, <3>1 DEF Without
    <3>3. y # a
      BY <3>2, NotOnItself DEF ArraysOK, Sound
    <3>4. y \in Opened
      BY <3>1, <3>2, EdgesOf DEF ArraysOK, Sound
    <3> QED BY <1>1, <3>3, <3>4
  <2> QED BY <1>3, <2>1 DEF ArraysOK
<1>5. WorkspaceOK'
  BY WorkspaceSame DEF CloseProject
<1> QED BY <1>1, <1>2, <1>3, <1>4, <1>5

(* An edit of the arrays that enters open projects only.                    *)
LEMMA EditInv ==
  ASSUME DepsInv, UNCHANGED <<m_pProjects, file, workspace>>, Sound(m_ProjectDeps'),
         \A e \in Edges(m_ProjectDeps') : e \in Edges(m_ProjectDeps) \/ e[2] \in Opened
  PROVE  DepsInv'
<1> USE DEF DepsInv
<1>1. ProjectsOK' /\ FilesOK' /\ Opened' = Opened
  BY DEF ProjectsOK, FilesOK, Opened
<1>2. WorkspaceOK'
  BY WorkspaceSame
<1>3. ASSUME NEW x \in Address, NEW y \in Range(m_ProjectDeps'[x])
      PROVE  y \in Opened
  <2>1. y \in Address /\ <<x, y>> \in Edges(m_ProjectDeps')
    BY <1>3, EdgesOf DEF Sound
  <2>2. <<x, y>> \in Edges(m_ProjectDeps) \/ y \in Opened
    BY <2>1
  <2> QED BY <2>1, <2>2, EdgesOf DEF ArraysOK, Sound
<1> QED BY <1>1, <1>2, <1>3 DEF ArraysOK

(* The check of CausesCircularDependency is what keeps the graph acyclic.   *)
LEMMA AddDependencyInv ==
  ASSUME DepsInv, NEW a \in Address, NEW b \in Address, AddDependency(a, b)
  PROVE  /\ DepsInv'
         /\ Edges(m_ProjectDeps') = IF a \in A!Needed(Edges(m_ProjectDeps), b) THEN Edges(m_ProjectDeps)
                                    ELSE Edges(m_ProjectDeps) \cup {<<a, b>>}
<1>1. /\ Sound(m_ProjectDeps')
      /\ Edges(m_ProjectDeps') = IF a \in A!Needed(Edges(m_ProjectDeps), b) THEN Edges(m_ProjectDeps)
                                 ELSE Edges(m_ProjectDeps) \cup {<<a, b>>}
  BY AddKeeps DEF AddDependency, DepsInv, ArraysOK
<1>2. b \in Opened /\ UNCHANGED <<m_pProjects, file, workspace>>
  BY DEF AddDependency
<1> QED BY <1>1, <1>2, EditInv

(* Removing a dependency removes that edge.                                 *)
LEMMA RemoveDependencyInv ==
  ASSUME DepsInv, NEW a \in Address, NEW b \in Address, RemoveProjectDependency(a, b)
  PROVE  /\ DepsInv'
         /\ Edges(m_ProjectDeps') = Edges(m_ProjectDeps) \ {<<a, b>>}
<1> DEFINE list == RemoveFirst(m_ProjectDeps[a], b)
           E == Edges(m_ProjectDeps)
<1>0. Sound(m_ProjectDeps) /\ ArraysTyped(m_ProjectDeps) /\ A!NoCycle(E)
  BY DEF DepsInv, ArraysOK, Sound
<1>1. m_ProjectDeps[a] \in Lists(Address)
  BY <1>0, EdgesOf
<1>2. list \in Lists(Address) /\ Range(list) = Range(m_ProjectDeps[a]) \ {b}
  BY <1>1, RemoveKeeps
<1>3. m_ProjectDeps' = [m_ProjectDeps EXCEPT ![a] = list]
  BY DEF RemoveProjectDependency
<1> HIDE DEF list
<1>4. ArraysTyped(m_ProjectDeps') /\ Rewritten(m_ProjectDeps, m_ProjectDeps', a, Range(list))
  BY <1>0, <1>2, <1>3, OneArray
<1>5. Edges(m_ProjectDeps') = E \ {<<a, b>>}
  BY <1>0, <1>2, <1>4, EdgesOf DEF Rewritten, Others, From
<1> HIDE DEF E
<1>6. Sound(m_ProjectDeps')
  BY <1>0, <1>4, <1>5, A!FewerNoCycle DEF Sound
<1>7. UNCHANGED <<m_pProjects, file, workspace>>
  BY DEF RemoveProjectDependency
<1> QED BY <1>5, <1>6, <1>7, EditInv DEF E

(* The dialog: what is entered for a does not need a.                       *)
LEMMA SaveListInv ==
  ASSUME DepsInv, NEW a \in Address, NEW checked \in SUBSET Opened, SaveList(a, checked)
  PROVE  /\ DepsInv'
         /\ \E T \in SUBSET Opened :
              /\ Edges(m_ProjectDeps') = Others(Edges(m_ProjectDeps), a) \cup From(a, T)
              /\ \A t \in T : a \notin A!Needed(Others(Edges(m_ProjectDeps), a), t)
<1> DEFINE E == Edges(m_ProjectDeps)
           cleared == [m_ProjectDeps EXCEPT ![a] = <<>>]
           listed  == Those(m_pProjects, checked)
           refused == {i \in DOMAIN listed : CausesCircularDependency(cleared, a, listed[i])}
           first == CHOOSE i \in refused : \A j \in refused : i <= j
           entered == IF refused = {} THEN listed ELSE SubSeq(listed, 1, first - 1)
           T == Range(entered)
<1>0. Sound(m_ProjectDeps) /\ ArraysTyped(m_ProjectDeps) /\ A!NoCycle(E) /\ m_pProjects \in Lists(Address)
  BY DEF DepsInv, ArraysOK, Sound, ProjectsOK
<1>1. m_ProjectDeps' = AddAll(cleared, a, entered) /\ UNCHANGED <<m_pProjects, file, workspace>>
  BY DEF SaveList
<1>2. ArraysTyped(cleared) /\ Rewritten(m_ProjectDeps, cleared, a, {})
  <2> HIDE DEF cleared
  <2>1. cleared = [m_ProjectDeps EXCEPT ![a] = <<>>]
    BY DEF cleared
  <2>2. <<>> \in Lists(Address) /\ Range(<<>>) = {}
    BY EmptyList
  <2>3. ArraysTyped(cleared) /\ Rewritten(m_ProjectDeps, cleared, a, Range(<<>>))
    BY <1>0, <2>1, <2>2, OneArray
  <2> QED BY <2>2, <2>3
<1>3. Edges(cleared) = Others(E, a)
  <2> HIDE DEF cleared
  <2> QED BY <1>2 DEF Rewritten, From
<1>4. Sound(cleared)
  <2>1. Others(E, a) \subseteq E
    BY DEF Others
  <2> HIDE DEF cleared, E
  <2> QED BY <1>0, <1>2, <1>3, <2>1, A!FewerNoCycle DEF Sound
<1>5. listed \in Lists(Address) /\ listed \in Seq(Address) /\ Range(listed) = Opened \cap checked
  BY <1>0, ThoseKeeps DEF Lists, Opened
<1> HIDE DEF cleared, listed
<1>6. /\ entered \in Seq(Address)
      /\ \A i \in DOMAIN entered : i \in DOMAIN listed /\ entered[i] = listed[i] /\ i \notin refused
  <2>1. CASE refused = {}
    BY <1>5, <2>1
  <2>2. CASE refused # {}
    <3>1. refused \in SUBSET (1..Len(listed)) /\ Len(listed) \in Nat
      BY <1>5
    <3>2. first \in refused /\ \A j \in refused : first <= j
      <4>1. refused \in SUBSET Nat
        BY <3>1
      <4> HIDE DEF refused
      <4>2. \E i \in refused : \A j \in refused : i <= j
        BY <2>2, <4>1, Listing!Least
      <4> QED BY <4>2
    <3> HIDE DEF first, refused
    <3>3. first \in 1..Len(listed)
      BY <3>1, <3>2
    <3>4. entered = SubSeq(listed, 1, first - 1)
      BY <2>2
    <3>5. /\ SubSeq(listed, 1, first - 1) \in Seq(Address)
          /\ DOMAIN SubSeq(listed, 1, first - 1) = 1..(first - 1)
          /\ \A i \in 1..(first - 1) : SubSeq(listed, 1, first - 1)[i] = listed[i]
      BY <1>5, <3>3
    <3>6. \A i \in 1..(first - 1) : i \in 1..Len(listed) /\ i \notin refused
      BY <3>1, <3>2, <3>3
    <3>7. DOMAIN listed = 1..Len(listed)
      BY <1>5
    <3> HIDE DEF entered
    <3> QED BY <3>4, <3>5, <3>6, <3>7
  <2> QED BY <2>1, <2>2
<1>7. T \in SUBSET Opened /\ T \in SUBSET Address /\ \A t \in T : ~CausesCircularDependency(cleared, a, t)
  <2>1. ASSUME NEW t \in T PROVE t \in Opened /\ t \in Address /\ ~CausesCircularDependency(cleared, a, t)
    <3> HIDE DEF entered
    <3>1. PICK i \in DOMAIN entered : t = entered[i]
      BY <2>1 DEF Range
    <3>2. i \in DOMAIN listed /\ t = listed[i] /\ i \notin refused
      BY <1>6, <3>1
    <3>3. t \in Range(listed) /\ t \in Address
      BY <1>5, <3>2 DEF Range
    <3> QED BY <1>5, <3>2, <3>3
  <2> QED BY <2>1
<1> HIDE DEF entered, refused
<1>8. \A t \in T : a \notin A!Needed(Others(E, a), t)
  BY <1>3, <1>4, <1>7, CausesIsNeeded
<1>9. A!NoCycle(Edges(cleared) \cup From(a, T))
  <2>1. A!NoCycle(Others(E, a))
    BY <1>3, <1>4 DEF Sound
  <2> HIDE DEF E, T
  <2>2. A!NoCycle(Others(E, a) \cup ({a} \X T))
    BY <1>7, <1>8, <2>1, A!DependNoCycle
  <2> QED BY <1>3, <2>2 DEF From
<1>10. Enriched(cleared, m_ProjectDeps', From(a, T))
  BY <1>1, <1>4, <1>6, AddAllKeeps
<1>11. Sound(m_ProjectDeps') /\ Edges(m_ProjectDeps') = Others(E, a) \cup From(a, T)
  BY <1>3, <1>9, <1>10 DEF Enriched
<1>12. DepsInv'
  <2>1. \A e \in Edges(m_ProjectDeps') : e \in E \/ e[2] \in Opened
    BY <1>7, <1>11 DEF Others, From
  <2> QED BY <1>1, <1>11, <2>1, EditInv
<1> HIDE DEF T
<1> QED BY <1>7, <1>8, <1>11, <1>12

(* A set of addresses can be listed.                                        *)
LEMMA Listed ==
  ASSUME NEW S \in SUBSET Address
  PROVE  SetToSeq(S) \in Seq(Address) /\ Range(SetToSeq(S)) = S
<1>1. IsFiniteSet(S)
  BY DepsAssumption, FS_Subset
<1> DEFINE n == Cardinality(S)
<1>2. n \in Nat /\ ExistsBijection(1..n, S)
  BY <1>1, FS_CardinalityType
<1> HIDE DEF n
<1>3. \E f \in [1..n -> S] : IsInjective(f)
  BY <1>2 DEF ExistsBijection, Bijection, Injection
<1> DEFINE f == SetToSeq(S)
<1>4. f \in [1..n -> S] /\ IsInjective(f)
  BY <1>3 DEF SetToSeq, n
<1> HIDE DEF f
<1>5. f \in Seq(Address)
  BY <1>2, <1>4
<1>6. Range(f) \subseteq S /\ IsFiniteSet(1..n) /\ Cardinality(1..n) = n
  BY <1>2, <1>4, FS_Interval DEF Range
<1>7. Cardinality(Range(f)) = n /\ IsFiniteSet(Range(f))
  <2>1. f \in Bijection(1..n, Range(f))
    BY <1>4 DEF Bijection, Injection, Surjection, Range
  <2>2. ExistsBijection(1..n, Range(f))
    BY <2>1 DEF ExistsBijection
  <2> QED BY <1>2, <2>2, FS_CountingElements, FS_NatBijection
<1>8. Range(f) = S
  BY <1>1, <1>6, <1>7, FS_Subset DEF n
<1> QED BY <1>5, <1>8 DEF f

(* What a reload asks for: for b the dependencies of a, and for those that  *)
(* depended on a one on b.                                                  *)
Moved(E, a, b) ==
  Without(E, a) \cup From(b, {y \in Address : <<a, y>> \in E})
                \cup Onto({x \in Address \ {a, b} : <<x, a>> \in E}, b)

(* What a reload enters is of what it asks for, and all of it where that    *)
(* closes no cycle.                                                         *)
LEMMA ReloadedSound ==
  ASSUME DepsInv, NEW a \in Address, NEW b \in Address
  PROVE  LET new == ReloadedDeps(a, b)
             all == Moved(Edges(m_ProjectDeps), a, b)
         IN  /\ Sound(new) /\ Edges(new) \subseteq all
             /\ A!NoCycle(all) => Edges(new) = all
<1> DEFINE E == Edges(m_ProjectDeps)
           closed == RemoveProjectFromAllDependencies(m_ProjectDeps, a)
           own == AddAll(closed, b, m_ProjectDeps[a])
           list == SetToSeq(Dependents(a))
           new == Depending!Fold(b, 0, own, list)
           all == Moved(E, a, b)
<1>0. Sound(m_ProjectDeps) /\ ArraysTyped(m_ProjectDeps)
  BY DEF DepsInv, ArraysOK, Sound
<1>1. ReloadedDeps(a, b) = new
  BY DEF ReloadedDeps, FoldLeft, MapThenFoldSet, Max, Depending!Fold, Depending!Top, DependOp
<1>2. Sound(closed) /\ Edges(closed) = Without(E, a)
  BY <1>0, RemoveFromAllKeeps
<1>3. m_ProjectDeps[a] \in Seq(Address) /\ Range(m_ProjectDeps[a]) = {y \in Address : <<a, y>> \in E}
  BY <1>0, EdgesOf DEF Lists
<1>4. Dependents(a) = {x \in Address \ {a} : <<x, a>> \in E}
  <2>1. \A x \in Address : Contains(m_ProjectDeps[x], a) <=> <<x, a>> \in E
    BY <1>0, EdgesOf, ContainsRange DEF Lists
  <2> QED BY <2>1 DEF Dependents
<1>5. list \in Seq(Address) /\ Range(list) = Dependents(a)
  BY <1>4, Listed
<1> HIDE DEF closed, list, E
<1>6. Enriched(closed, own, From(b, Range(m_ProjectDeps[a])))
  BY <1>2, <1>3, AddAllKeeps
<1> HIDE DEF own
<1>7. Enriched(own, new, Onto(Range(list) \ {b}, b))
  BY <1>5, <1>6, DependKeeps DEF Enriched
<1> HIDE DEF new
<1>8. all = Edges(closed) \cup From(b, Range(m_ProjectDeps[a])) \cup Onto(Range(list) \ {b}, b)
  BY <1>2, <1>3, <1>4, <1>5 DEF Moved
<1> HIDE DEF all
<1>9. Sound(new) /\ Edges(new) \subseteq all
  BY <1>6, <1>7, <1>8 DEF Enriched
<1>10. ASSUME A!NoCycle(all) PROVE Edges(new) = all
  <2>1. A!NoCycle(Edges(closed) \cup From(b, Range(m_ProjectDeps[a])))
    BY <1>8, <1>10, A!FewerNoCycle
  <2>2. Edges(own) = Edges(closed) \cup From(b, Range(m_ProjectDeps[a]))
    BY <1>6, <2>1 DEF Enriched
  <2>3. all = Edges(own) \cup Onto(Range(list) \ {b}, b)
    BY <1>8, <2>2
  <2> QED BY <1>7, <1>10, <2>3 DEF Enriched
<1> QED BY <1>1, <1>9, <1>10 DEF all, E

(* The new object takes the place of the old one.                           *)
LEMMA ReloadProjectInv ==
  ASSUME DepsInv, NEW a \in Address, NEW b \in Address, ReloadProject(a, b)
  PROVE  /\ DepsInv'
         /\ a \in Opened /\ b \notin Opened \ {a} /\ Opened' = (Opened \ {a}) \cup {b}
         /\ \A c \in Address : file'[c] = IF c = b THEN file[a] ELSE IF c = a THEN NoFile ELSE file[c]
<1> USE DEF DepsInv
<1>1. /\ a \in Opened
      /\ m_pProjects' = [i \in DOMAIN m_pProjects |-> IF m_pProjects[i] = a THEN b ELSE m_pProjects[i]]
      /\ b \notin Range(RemoveFirst(m_pProjects, a))
      /\ m_ProjectDeps' = ReloadedDeps(a, b)
      /\ file' = [file EXCEPT ![a] = NoFile, ![b] = file[a]]
      /\ UNCHANGED workspace
  BY DEF ReloadProject, Free
<1>2. b \notin Opened \ {a}
  BY <1>1, RemoveKeeps DEF ProjectsOK, Opened
<1>3. m_pProjects \in Seq(Address) /\ IsInjective(m_pProjects) /\ \A c \in Opened : c \in Address
  BY DEF ProjectsOK, Lists, Opened, Range
<1>4. ProjectsOK'
  <2>1. m_pProjects' \in Seq(Address) /\ DOMAIN m_pProjects' = DOMAIN m_pProjects
    <3>1. \A i \in DOMAIN m_pProjects : (IF m_pProjects[i] = a THEN b ELSE m_pProjects[i]) \in Address
      BY <1>3
    <3> QED BY <1>1, <1>3, <3>1
  <2>2. ASSUME NEW i \in DOMAIN m_pProjects, NEW j \in DOMAIN m_pProjects, m_pProjects'[i] = m_pProjects'[j]
        PROVE  i = j
    <3>1. m_pProjects[i] \in Opened /\ m_pProjects[j] \in Opened
      BY DEF Opened, Range
    <3>2. m_pProjects[i] = m_pProjects[j]
      BY <1>1, <1>2, <2>2, <3>1
    <3> QED BY <1>3, <3>2 DEF IsInjective
  <2> QED BY <2>1, <2>2 DEF ProjectsOK, Lists, IsInjective
<1>5. Opened' = (Opened \ {a}) \cup {b}
  <2>1. DOMAIN m_pProjects' = DOMAIN m_pProjects
    BY <1>1
  <2>2. \A i \in DOMAIN m_pProjects : m_pProjects'[i] = IF m_pProjects[i] = a THEN b ELSE m_pProjects[i]
    BY <1>1
  <2>3. ASSUME NEW c \in Opened' PROVE c \in (Opened \ {a}) \cup {b}
    <3>1. PICK i \in DOMAIN m_pProjects : c = m_pProjects'[i]
      BY <2>1 DEF Opened, Range
    <3>2. m_pProjects[i] \in Opened
      BY DEF Opened, Range
    <3> QED BY <2>2, <3>1, <3>2
  <2>4. ASSUME NEW c \in (Opened \ {a}) \cup {b} PROVE c \in Opened'
    <3>1. PICK i \in DOMAIN m_pProjects : m_pProjects[i] = IF c = b THEN a ELSE c
      BY <1>1, <2>4 DEF Opened, Range
    <3>2. m_pProjects'[i] = c
      BY <1>2, <2>2, <2>4, <3>1
    <3> QED BY <2>1, <3>2 DEF Opened, Range
  <2> QED BY <2>3, <2>4
<1>6. /\ file' \in [Address -> File \cup {NoFile}]
      /\ \A c \in Address : file'[c] = IF c = b THEN file[a] ELSE IF c = a THEN NoFile ELSE file[c]
  BY <1>1 DEF FilesOK
<1>7. FilesOK'
  <2>1. NoFile \notin File /\ file[a] \in File
    BY <1>1, DepsAssumption DEF FilesOK
  <2>2. \A c \in Address : file'[c] \in File <=> c \in Opened'
    BY <1>2, <1>5, <1>6, <2>1 DEF FilesOK
  <2>3. \A c, d \in Opened' : file'[c] = file'[d] => c = d
    BY <1>1, <1>2, <1>3, <1>5, <1>6, <2>1 DEF FilesOK
  <2> QED BY <1>6, <2>2, <2>3 DEF FilesOK
<1>8. ArraysOK'
  <2> DEFINE E == Edges(m_ProjectDeps)
  <2>0. Sound(m_ProjectDeps) /\ ArraysTyped(m_ProjectDeps) /\ A!NoCycle(E)
    BY DEF ArraysOK, Sound
  <2>1. Sound(m_ProjectDeps') /\ Edges(m_ProjectDeps') \subseteq Moved(E, a, b)
    BY <1>1, ReloadedSound
  <2>2. ASSUME NEW x \in Address, NEW y \in Range(m_ProjectDeps'[x])
        PROVE  y \in Opened'
    <3>1. y \in Address /\ <<x, y>> \in Edges(m_ProjectDeps')
      BY <2>1, <2>2, EdgesOf DEF Sound
    <3>2. <<x, y>> \in Moved(E, a, b)
      BY <2>1, <3>1
    <3>3. y = b \/ <<a, y>> \in E \/ (<<x, y>> \in E /\ (x = a \/ y # a))
      BY <3>2 DEF Moved, Without, From, Onto
    <3>4. \A u, v \in Address : <<u, v>> \in E => v \in Opened
      BY <2>0, EdgesOf DEF ArraysOK
    <3> HIDE DEF E
    <3>5. <<a, a>> \notin E
      BY <2>0, NotOnItself
    <3> QED BY <1>5, <3>1, <3>3, <3>4, <3>5
  <2> QED BY <2>1, <2>2 DEF ArraysOK
<1>9. WorkspaceOK'
  BY <1>1, WorkspaceSame
<1> QED BY <1>1, <1>2, <1>4, <1>5, <1>6, <1>7, <1>8, <1>9
NoCycleOn(N, E) == \A S \in SUBSET N : S # {} => \E a \in S : \A b \in S : <<a, b>> \notin E

(* A graph that is laid over one without a cycle has none.                  *)
LEMMA LaidOver ==
  ASSUME NEW M, NEW N, NEW D \in SUBSET M, NEW E, NEW F, NEW r \in [D -> N],
         NoCycleOn(N, E),
         \A a, b \in M : <<a, b>> \in F => a \in D /\ b \in D /\ <<r[a], r[b]>> \in E
  PROVE  NoCycleOn(M, F)
<1> SUFFICES ASSUME NEW S \in SUBSET M, S # {}, \A a \in S : \E b \in S : <<a, b>> \in F
             PROVE  FALSE
  BY DEF NoCycleOn
<1>1. S \in SUBSET D
  OBVIOUS
<1> DEFINE T == {r[a] : a \in S}
<1>2. T \in SUBSET N /\ T # {}
  BY <1>1
<1>3. PICK t \in T : \A u \in T : <<t, u>> \notin E
  BY <1>2 DEF NoCycleOn
<1>4. PICK a \in S : t = r[a]
  BY <1>3
<1>5. PICK b \in S : <<a, b>> \in F
  OBVIOUS
<1> QED BY <1>3, <1>4, <1>5

(* The dependencies the user sees are those of the arrays.                  *)
LEMMA RelationIs ==
  ASSUME DepsInv
  PROVE  /\ \A a, b \in Opened : <<file[a], file[b]>> \in Relation <=> <<a, b>> \in Edges(m_ProjectDeps)
         /\ \A f, g : <<f, g>> \in Relation => \E a, b \in Opened : f = file[a] /\ g = file[b]
         /\ Relation \subseteq File \X File
         /\ \A a \in Opened : a \in Address /\ file[a] \in File
<1>1. \A a \in Opened : a \in Address /\ file[a] \in File
  BY DEF DepsInv, ProjectsOK, FilesOK, Lists, Opened, Range
<1>2. \A a, b \in Opened : <<a, b>> \in Edges(m_ProjectDeps) <=> b \in Opened \cap Range(m_ProjectDeps[a])
  BY <1>1, EdgesOf DEF DepsInv, ArraysOK, Sound
<1>3. \A a, b \in Opened : file[a] = file[b] => a = b
  BY DEF DepsInv, FilesOK
<1>4. \A f, g : <<f, g>> \in Relation <=>
         \E a, b \in Opened : b \in Range(m_ProjectDeps[a]) /\ f = file[a] /\ g = file[b]
  BY DEF Relation
<1>5. \A e \in Relation : \E a, b \in Opened : e = <<file[a], file[b]>>
  BY DEF Relation
<1> QED BY <1>1, <1>2, <1>3, <1>4, <1>5

(* What the user sees has no cycle: it is laid over the graph of the        *)
(* arrays.                                                                  *)
LEMMA RelationAcyclic ==
  ASSUME DepsInv
  PROVE  G!NoCycle(Relation)
<1> DEFINE D == {file[a] : a \in Opened}
           r == [f \in D |-> CHOOSE a \in Opened : file[a] = f]
           E == Edges(m_ProjectDeps)
<1>0. \A a \in Opened : a \in Address /\ file[a] \in File
  BY RelationIs
<1>1. r \in [D -> Address] /\ D \in SUBSET File
  BY <1>0
<1>2. \A a \in Opened : r[file[a]] = a
  <2>1. \A a, b \in Opened : file[a] = file[b] => a = b
    BY DEF DepsInv, FilesOK
  <2> QED BY <2>1
<1> HIDE DEF r
<1>3. \A f, g \in File : <<f, g>> \in Relation => f \in D /\ g \in D /\ <<r[f], r[g]>> \in E
  <2>1. SUFFICES ASSUME NEW f \in File, NEW g \in File, <<f, g>> \in Relation
                 PROVE  f \in D /\ g \in D /\ <<r[f], r[g]>> \in E
    OBVIOUS
  <2>2. PICK a \in Opened, b \in Opened : f = file[a] /\ g = file[b]
    BY <2>1, RelationIs
  <2>3. <<a, b>> \in E
    BY <2>1, <2>2, RelationIs
  <2> QED BY <1>2, <2>2, <2>3
<1> HIDE DEF D, E
<1>4. NoCycleOn(Address, E)
  BY DEF DepsInv, ArraysOK, Sound, A!NoCycle, NoCycleOn, E
<1>5. NoCycleOn(File, Relation)
  BY <1>1, <1>3, <1>4, LaidOver
<1> QED BY <1>5 DEF G!NoCycle, NoCycleOn

(* The workspace file says what the user sees.                              *)
LEMMA SaveWorkspaceInv ==
  ASSUME DepsInv, SaveWorkspace
  PROVE  /\ DepsInv' /\ Saved' = {file[a] : a \in Opened} /\ Written' = Relation
         /\ UNCHANGED <<m_pProjects, file, m_ProjectDeps>>
<1> USE DEF DepsInv
<1> DEFINE n == Len(m_pProjects)
<1>1. /\ m_pProjects \in Seq(Address) /\ IsInjective(m_pProjects) /\ n \in Nat
      /\ DOMAIN m_pProjects = 1..n
  BY DEF ProjectsOK, Lists
<1>2. \A a \in Opened : a \in Address /\ file[a] \in File
  BY RelationIs
<1>3. \A a, b \in Opened : file[a] = file[b] => a = b
  BY DEF FilesOK
<1>4. UNCHANGED <<m_pProjects, file, m_ProjectDeps>>
  BY DEF SaveWorkspace
<1> DEFINE entry(p) == [file |-> file[p],
                        deps |-> [j \in DOMAIN m_ProjectDeps[p] |-> file[m_ProjectDeps[p][j]]]]
<1>5. workspace' = [i \in 1..n |-> entry(m_pProjects[i])]
  BY <1>1 DEF SaveWorkspace
<1>6. ASSUME NEW p \in Opened
      PROVE  entry(p) \in Entries /\ entry(p).file = file[p]
             /\ Range(entry(p).deps) = {file[b] : b \in Range(m_ProjectDeps[p])}
  <2> DEFINE list == m_ProjectDeps[p]
             deps == [j \in DOMAIN list |-> file[list[j]]]
  <2>1. list \in Lists(Address) /\ Range(list) \subseteq Opened
    BY <1>2, EdgesOf DEF ArraysOK, Sound
  <2> HIDE DEF list
  <2>2. list \in Seq(Address) /\ IsInjective(list) /\ DOMAIN list = 1..Len(list) /\ Len(list) \in Nat
    BY <2>1 DEF Lists
  <2>3. \A j \in DOMAIN list : list[j] \in Opened
    BY <2>1 DEF Range
  <2>4. deps \in Seq(File) /\ DOMAIN deps = DOMAIN list /\ \A j \in DOMAIN list : deps[j] = file[list[j]]
    BY <1>2, <2>2, <2>3
  <2> HIDE DEF deps
  <2>5. IsInjective(deps)
    BY <1>3, <2>2, <2>3, <2>4 DEF IsInjective
  <2>6. Range(deps) = {file[b] : b \in Range(list)}
    BY <2>4 DEF Range
  <2>7. entry(p) = [file |-> file[p], deps |-> deps]
    BY DEF deps, list
  <2> QED BY <1>2, <2>4, <2>5, <2>6, <2>7 DEF Entries, Lists, list
<1> HIDE DEF entry
<1>7. \A i \in 1..n : m_pProjects[i] \in Opened
  BY <1>1 DEF Opened, Range
<1>8. \A p \in Opened : \E i \in 1..n : p = m_pProjects[i]
  BY <1>1 DEF Opened, Range
<1>9. workspace' \in Seq(Entries) /\ DOMAIN workspace' = 1..n /\ \A i \in 1..n : workspace'[i] = entry(m_pProjects[i])
  BY <1>1, <1>5, <1>6, <1>7
<1> HIDE DEF n
<1>10. Saved' = {file[a] : a \in Opened}
  BY <1>6, <1>7, <1>8, <1>9 DEF Saved
<1>11. Written' = Relation
  <2>0. Written' = UNION {{<<workspace'[i].file, f>> : f \in Range(workspace'[i].deps)} : i \in 1..n}
    BY <1>9 DEF Written
  <2>1. ASSUME NEW e \in Written' PROVE e \in Relation
    <3>1. PICK i \in 1..n : e \in {<<workspace'[i].file, f>> : f \in Range(workspace'[i].deps)}
      BY <2>0
    <3> DEFINE p == m_pProjects[i]
    <3>2. p \in Opened /\ workspace'[i] = entry(p)
      BY <1>7, <1>9
    <3>3. PICK b \in Range(m_ProjectDeps[p]) : e = <<file[p], file[b]>>
      BY <1>6, <3>1, <3>2
    <3>4. b \in Opened
      BY <1>2, <3>2, <3>3 DEF ArraysOK
    <3> QED BY <3>2, <3>3, <3>4 DEF Relation
  <2>2. ASSUME NEW e \in Relation PROVE e \in Written'
    <3>1. PICK p \in Opened : \E b \in Opened \cap Range(m_ProjectDeps[p]) : e = <<file[p], file[b]>>
      BY <2>2 DEF Relation
    <3>2. PICK b \in Opened \cap Range(m_ProjectDeps[p]) : e = <<file[p], file[b]>>
      BY <3>1
    <3>3. PICK i \in 1..n : p = m_pProjects[i]
      BY <1>8
    <3>4. workspace'[i] = entry(p)
      BY <1>9, <3>3
    <3>5. file[b] \in Range(workspace'[i].deps) /\ workspace'[i].file = file[p]
      BY <1>6, <3>2, <3>4
    <3> QED BY <2>0, <3>2, <3>5
  <2> QED BY <2>1, <2>2
<1>12. WorkspaceOK'
  <2>1. \A i, j \in 1..n : workspace'[i].file = workspace'[j].file => i = j
    BY <1>1, <1>3, <1>6, <1>7, <1>9 DEF IsInjective
  <2>2. \A i \in 1..n : Range(workspace'[i].deps) \subseteq Saved'
    <3>1. \A p \in Opened : Range(m_ProjectDeps[p]) \subseteq Opened
      BY <1>2 DEF ArraysOK
    <3> QED BY <1>6, <1>7, <1>9, <1>10, <3>1
  <2>3. \E at \in [Saved' -> Address] : IsInjective(at)
    <3> DEFINE at == [f \in Saved' |-> CHOOSE a \in Opened : file[a] = f]
    <3>1. at \in [Saved' -> Address] /\ \A f \in Saved' : file[at[f]] = f
      BY <1>2, <1>10
    <3>2. IsInjective(at)
      BY <3>1 DEF IsInjective
    <3> QED BY <3>1, <3>2
  <2>4. G!NoCycle(Written)'
    BY <1>11, RelationAcyclic DEF G!NoCycle
  <2> QED BY <1>9, <2>1, <2>2, <2>3, <2>4 DEF WorkspaceOK
<1>13. ProjectsOK' /\ FilesOK' /\ ArraysOK'
  BY <1>4 DEF ProjectsOK, FilesOK, ArraysOK, Opened, Sound, ArraysTyped, Edges, A!NoCycle
<1> QED BY <1>4, <1>10, <1>11, <1>12, <1>13

(* The files of a workspace that can be opened are loaded, each into an     *)
(* object of its own, with all the dependencies the workspace file says.    *)
LEMMA LoadWorkspaceInv ==
  ASSUME DepsInv, NEW missing, LoadWorkspace(missing)
  PROVE  /\ DepsInv' /\ UNCHANGED workspace
         /\ LET files == {f \in Saved : f \notin missing}
            IN  \E at \in [files -> Address] :
                  /\ IsInjective(at)
                  /\ Opened' = {at[f] : f \in files}
                  /\ \A f \in files : file'[at[f]] = f
                  /\ \A f, g \in files : <<at[f], at[g]>> \in Edges(m_ProjectDeps') <=> <<f, g>> \in Written
                  /\ \A e \in Edges(m_ProjectDeps') : e[1] \in Opened'
<1> USE DEF DepsInv
<1> DEFINE closed == FoldLeft(RemoveProjectFromAllDependencies, m_ProjectDeps, m_pProjects)
           found  == Those(workspace, {e \in Range(workspace) : e.file \notin missing})
           files  == {found[i].file : i \in DOMAIN found}
           at     == CHOOSE at \in [files -> Address] : IsInjective(at)
           n == Len(found)
<1>1. /\ m_pProjects' = [i \in DOMAIN found |-> at[found[i].file]]
      /\ file' = [a \in Address |-> IF a \in Range(at) THEN AntiFunction(at)[a] ELSE NoFile]
      /\ m_ProjectDeps' = Entering!Fold(at, files, closed, found)
      /\ UNCHANGED workspace
  BY DEF LoadWorkspace, FoldLeft, MapThenFoldSet, Max, Entering!Fold, Entering!Top, EnterOp
<1>2. /\ m_pProjects \in Lists(Address) /\ m_pProjects \in Seq(Address) /\ Sound(m_ProjectDeps)
      /\ \A a \in Address : Range(m_ProjectDeps[a]) \subseteq Range(m_pProjects)
  BY DEF ProjectsOK, ArraysOK, Opened, Lists
<1>3. closed = [a \in Address |-> <<>>]
  BY <1>2, TheFolds, AllClosed
<1> HIDE DEF closed
<1>4. Sound(closed) /\ Edges(closed) = {}
  <2>1. closed \in [Address -> Seq(Address)] /\ \A a \in Address : closed[a] = <<>>
    BY <1>3
  <2>2. ArraysTyped(closed) /\ Edges(closed) = {}
    BY <2>1, EmptyList DEF ArraysTyped, Lists, Edges
  <2> QED BY <2>2 DEF Sound, A!NoCycle
<1>5. /\ workspace \in Lists(Entries)
      /\ \A i, j \in DOMAIN workspace : workspace[i].file = workspace[j].file => i = j
      /\ \A e \in Range(workspace) : e \in Entries
  BY DEF WorkspaceOK, Lists, IsInjective, Range
<1>6. /\ found \in Lists(Entries)
      /\ Range(found) = {e \in Range(workspace) : e.file \notin missing}
  <2>1. Range(workspace) \cap {e \in Range(workspace) : e.file \notin missing}
          = {e \in Range(workspace) : e.file \notin missing}
    OBVIOUS
  <2> QED BY <1>5, <2>1, ThoseKeeps
<1> HIDE DEF found
<1>7. /\ found \in Seq(Entries) /\ DOMAIN found = 1..n /\ n \in Nat
      /\ \A i \in 1..n : found[i] \in Range(workspace) /\ found[i].file \notin missing /\ found[i] \in Entries
  <2>1. found \in Seq(Entries) /\ DOMAIN found = 1..n /\ n \in Nat
    BY <1>6 DEF Lists
  <2>2. \A i \in 1..n : found[i] \in Range(found)
    BY <2>1 DEF Range
  <2>3. \A e \in Range(found) : e \in Range(workspace) /\ e.file \notin missing /\ e \in Entries
    BY <1>5, <1>6
  <2> QED BY <2>1, <2>2, <2>3
<1> HIDE DEF n
<1>8. \A i, j \in 1..n : found[i].file = found[j].file => i = j
  <2>1. ASSUME NEW i \in 1..n, NEW j \in 1..n, found[i].file = found[j].file PROVE i = j
    <3>1. PICK k \in DOMAIN workspace, l \in DOMAIN workspace : found[i] = workspace[k] /\ found[j] = workspace[l]
      BY <1>7 DEF Range
    <3>2. found[i] = found[j]
      BY <1>5, <2>1, <3>1
    <3> QED BY <1>6, <1>7, <3>2 DEF Lists, IsInjective
  <2> QED BY <2>1
<1>9. files = {f \in Saved : f \notin missing} /\ files \in SUBSET File
  <2>1. ASSUME NEW f \in files PROVE f \in Saved /\ f \notin missing /\ f \in File
    <3>1. PICK i \in 1..n : f = found[i].file
      BY <1>7
    <3>2. found[i] \in Range(workspace) /\ f \notin missing /\ f \in File
      BY <1>7, <3>1 DEF Entries
    <3> QED BY <3>1, <3>2 DEF Saved, Range
  <2>2. ASSUME NEW f \in Saved, f \notin missing PROVE f \in files
    <3>1. PICK k \in DOMAIN workspace : f = workspace[k].file
      BY DEF Saved
    <3>2. workspace[k] \in Range(found)
      BY <1>6, <2>2, <3>1 DEF Range
    <3> QED BY <3>1, <3>2 DEF Range
  <2> QED BY <2>1, <2>2
<1>10. at \in [files -> Address] /\ IsInjective(at)
  <2>1. PICK g \in [Saved -> Address] : IsInjective(g)
    BY DEF WorkspaceOK
  <2>2. files \subseteq Saved
    BY <1>9
  <2> HIDE DEF files
  <2> DEFINE h == [f \in files |-> g[f]]
  <2>3. h \in [files -> Address] /\ IsInjective(h)
    BY <2>1, <2>2 DEF IsInjective
  <2> HIDE DEF h
  <2> QED BY <2>3
<1>11. \A i \in 1..n : found[i].file \in files
  BY <1>7
<1>12. \A f \in files : \E i \in 1..n : f = found[i].file
  BY <1>7
<1> HIDE DEF at, files
<1>13. \A f, g \in files : at[f] = at[g] => f = g
  BY <1>10 DEF IsInjective
<1>14. ProjectsOK' /\ Opened' = {at[f] : f \in files}
  <2>1. /\ m_pProjects' \in Seq(Address) /\ DOMAIN m_pProjects' = 1..n
        /\ \A i \in 1..n : m_pProjects'[i] = at[found[i].file]
    BY <1>1, <1>7, <1>10, <1>11
  <2>2. IsInjective(m_pProjects')
    BY <1>8, <1>11, <1>13, <2>1 DEF IsInjective
  <2>3. Opened' = {at[f] : f \in files}
    BY <1>11, <1>12, <2>1 DEF Opened, Range
  <2> QED BY <2>1, <2>2, <2>3 DEF ProjectsOK, Lists
<1>15. Range(at) = Opened' /\ DOMAIN at = files
  BY <1>10, <1>14 DEF Range
<1>16. \A f \in files : file'[at[f]] = f
  <2>1. ASSUME NEW f \in files PROVE file'[at[f]] = f
    <3>1. at[f] \in Range(at) /\ at[f] \in Address
      BY <1>10, <1>15 DEF Range
    <3>2. AntiFunction(at)[at[f]] = CHOOSE g \in files : at[f] \in Range(at) => at[g] = at[f]
      BY <1>15, <3>1 DEF AntiFunction, Inverse
    <3>3. AntiFunction(at)[at[f]] = f
      <4> DEFINE P(g) == at[f] \in Range(at) => at[g] = at[f]
                 c == CHOOSE g \in files : P(g)
      <4>1. c \in files /\ P(c)
        <5>1. \E g \in files : P(g)
          OBVIOUS
        <5> QED BY <5>1
      <4>2. c = f
        BY <1>13, <3>1, <4>1
      <4> QED BY <3>2, <4>2
    <3> QED BY <1>1, <3>1, <3>3
  <2> QED BY <2>1
<1>17. FilesOK'
  <2>1. NoFile \notin File
    BY DepsAssumption
  <2>2. ASSUME NEW a \in Address
        PROVE  IF a \in Opened' THEN file'[a] \in File ELSE file'[a] = NoFile
    BY <1>1, <1>9, <1>14, <1>15, <1>16
  <2>3. file' \in [Address -> File \cup {NoFile}]
    <3>1. DOMAIN file' = Address /\ file' = [a \in Address |-> file'[a]]
      BY <1>1
    <3> QED BY <2>2, <3>1
  <2>4. \A a, b \in Opened' : file'[a] = file'[b] => a = b
    BY <1>14, <1>16
  <2> QED BY <2>1, <2>2, <2>3, <2>4 DEF FilesOK
<1>18. \A e \in AllAsked(at, files, found) : \E f, g \in files : e = <<at[f], at[g]>>
  BY <1>7, <1>11 DEF AllAsked, Asked, From
<1>19. \A f, g \in files : <<at[f], at[g]>> \in AllAsked(at, files, found) <=> <<f, g>> \in Written
  <2>1. ASSUME NEW f \in files, NEW g \in files, <<at[f], at[g]>> \in AllAsked(at, files, found)
        PROVE  <<f, g>> \in Written
    <3>1. PICK i \in 1..n : <<at[f], at[g]>> \in Asked(at, files, found[i])
      BY <1>7, <2>1 DEF AllAsked
    <3>2. PICK h \in Range(found[i].deps) \cap files : at[f] = at[found[i].file] /\ at[g] = at[h]
      BY <3>1 DEF Asked, From
    <3>3. f = found[i].file /\ g \in Range(found[i].deps)
      BY <1>11, <1>13, <3>2
    <3>4. PICK k \in DOMAIN workspace : found[i] = workspace[k]
      BY <1>7 DEF Range
    <3> QED BY <3>3, <3>4 DEF Written
  <2>2. ASSUME NEW f \in files, NEW g \in files, <<f, g>> \in Written
        PROVE  <<at[f], at[g]>> \in AllAsked(at, files, found)
    <3>1. PICK k \in DOMAIN workspace : <<f, g>> \in {<<workspace[k].file, x>> : x \in Range(workspace[k].deps)}
      BY <2>2 DEF Written
    <3>2. f = workspace[k].file /\ g \in Range(workspace[k].deps) /\ f \notin missing
      BY <1>9, <3>1
    <3>3. workspace[k] \in Range(found)
      BY <1>6, <3>2 DEF Range
    <3>4. PICK i \in 1..n : found[i] = workspace[k]
      BY <1>7, <3>3 DEF Range
    <3>5. <<at[f], at[g]>> \in Asked(at, files, found[i])
      BY <3>2, <3>4 DEF Asked, From
    <3> QED BY <1>7, <3>5 DEF AllAsked
  <2> QED BY <2>1, <2>2
<1> DEFINE all == AllAsked(at, files, found)
<1>20. A!NoCycle(all)
  <2> DEFINE D == {at[f] : f \in files}
             r == [a \in D |-> file'[a]]
  <2>1. D \in SUBSET Address /\ r \in [D -> File] /\ \A f \in files : r[at[f]] = f
    BY <1>9, <1>10, <1>16
  <2>2. NoCycleOn(File, Written)
    BY DEF WorkspaceOK, G!NoCycle, NoCycleOn
  <2> HIDE DEF r
  <2>3. \A a, b \in Address : <<a, b>> \in all => a \in D /\ b \in D /\ <<r[a], r[b]>> \in Written
    <3>1. SUFFICES ASSUME NEW a \in Address, NEW b \in Address, <<a, b>> \in all
                   PROVE  a \in D /\ b \in D /\ <<r[a], r[b]>> \in Written
      OBVIOUS
    <3>2. PICK f \in files, g \in files : <<a, b>> = <<at[f], at[g]>>
      BY <1>18, <3>1
    <3>3. <<f, g>> \in Written /\ a = at[f] /\ b = at[g]
      BY <1>19, <3>1, <3>2
    <3> QED BY <2>1, <3>3
  <2> HIDE DEF D, all
  <2>4. NoCycleOn(Address, all)
    BY <2>1, <2>2, <2>3, LaidOver
  <2> QED BY <2>4 DEF A!NoCycle, NoCycleOn
<1>21. Sound(m_ProjectDeps') /\ Edges(m_ProjectDeps') = all
  BY <1>1, <1>4, <1>7, <1>9, <1>10, <1>11, <1>20, EnterAllKeeps
<1>22. ArraysOK'
  <2>1. ASSUME NEW x \in Address, NEW y \in Range(m_ProjectDeps'[x]) PROVE y \in Opened'
    <3>1. y \in Address /\ <<x, y>> \in all
      BY <1>21, <2>1, EdgesOf DEF Sound
    <3>2. PICK f \in files, g \in files : <<x, y>> = <<at[f], at[g]>>
      BY <1>18, <3>1
    <3> QED BY <1>14, <3>2
  <2> QED BY <1>21, <2>1 DEF ArraysOK
<1>23. WorkspaceOK'
  BY <1>1, WorkspaceSame
<1>24. \A f, g \in files : <<at[f], at[g]>> \in Edges(m_ProjectDeps') <=> <<f, g>> \in Written
  BY <1>19, <1>21
<1>25. \A e \in Edges(m_ProjectDeps') : e[1] \in Opened'
  BY <1>14, <1>18, <1>21
<1> HIDE DEF all
<1> QED BY <1>1, <1>9, <1>10, <1>14, <1>16, <1>17, <1>22, <1>23, <1>24, <1>25

(* Every step keeps the invariant.                                          *)
LEMMA StepInv == DepsInv /\ [Next]_vars => DepsInv'
<1> SUFFICES ASSUME DepsInv, [Next]_vars PROVE DepsInv'
  OBVIOUS
<1>1. ASSUME NEW a \in Address, NEW f \in File, LoadProject(a, f) PROVE DepsInv'
  BY <1>1, LoadProjectInv
<1>2. ASSUME NEW a \in Address, CloseProject(a) PROVE DepsInv'
  BY <1>2, CloseProjectInv
<1>3. ASSUME NEW a \in Address, NEW b \in Address, ReloadProject(a, b) PROVE DepsInv'
  BY <1>3, ReloadProjectInv
<1>4. ASSUME NEW a \in Address, NEW b \in Address, AddDependency(a, b) PROVE DepsInv'
  BY <1>4, AddDependencyInv
<1>5. ASSUME NEW a \in Address, NEW b \in Address, RemoveProjectDependency(a, b) PROVE DepsInv'
  BY <1>5, RemoveDependencyInv
<1>6. ASSUME NEW a \in Address, NEW checked \in SUBSET Opened, SaveList(a, checked) PROVE DepsInv'
  BY <1>6, SaveListInv
<1>7. ASSUME SaveWorkspace PROVE DepsInv'
  BY <1>7, SaveWorkspaceInv
<1>8. ASSUME NEW missing, LoadWorkspace(missing) PROVE DepsInv'
  BY <1>8, LoadWorkspaceInv
<1>9. CASE UNCHANGED vars
  <2>1. UNCHANGED <<m_pProjects, file, m_ProjectDeps, workspace>>
    BY <1>9 DEF vars
  <2>2. Sound(m_ProjectDeps') /\ \A e \in Edges(m_ProjectDeps') : e \in Edges(m_ProjectDeps)
    BY <2>1 DEF DepsInv, ArraysOK
  <2> QED BY <2>1, <2>2, EditInv
<1> QED BY <1>1, <1>2, <1>3, <1>4, <1>5, <1>6, <1>7, <1>8, <1>9 DEF Next

(* It holds always.                                                         *)
LEMMA Invariant == Spec => []DepsInv
BY InitInv, StepInv, PTL DEF Spec

(* No open project is listed twice, and an array names open projects only,  *)
(* each once, whatever is opened, closed, reloaded or entered, and whatever *)
(* addresses the objects get.                                               *)
THEOREM TypeCorrect == Spec => []TypeOK
BY Invariant, InvTypeOK, PTL
-----------------------------------------------------------------------------
(* The refinement.                                                          *)

(* Whatever addresses are reused, an array that is entered anew is that of  *)
(* an open project, unless the array of a deleted one names a project that  *)
(* is reloaded.                                                             *)
LEMMA EntersOpen ==
  ASSUME "orphan" \notin Mishaps, DepsInv, [Next]_vars, NEW a \in Address,
         Range(m_ProjectDeps'[a]) \ Range(m_ProjectDeps[a]) # {}
  PROVE  a \in Range(m_pProjects')
<1> DEFINE E == Edges(m_ProjectDeps)
<1>1. DepsInv'
  BY StepInv
<1>2. PICK b \in Address : <<a, b>> \in Edges(m_ProjectDeps') /\ <<a, b>> \notin E
  BY <1>1, EdgesOf DEF DepsInv, ArraysOK, Sound
<1>3. \A x \in Opened : x \in Address
  BY RelationIs
<1> SUFFICES a \in Opened'
  BY DEF Opened
<1>4. ASSUME NEW x \in Address, NEW f \in File, LoadProject(x, f) PROVE FALSE
  BY <1>2, <1>4 DEF LoadProject
<1>5. ASSUME NEW x \in Address, CloseProject(x) PROVE FALSE
  BY <1>2, <1>5, CloseProjectInv DEF Without
<1>6. ASSUME NEW x \in Address, NEW y \in Address, ReloadProject(x, y) PROVE a \in Opened'
  <2>1. <<a, b>> \in Moved(E, x, y)
    BY <1>2, <1>6, ReloadedSound DEF ReloadProject
  <2>2. a = y \/ (<<a, x>> \in E /\ a # x)
    BY <1>2, <2>1 DEF Moved, Without, From, Onto
  <2>3. Opened' = (Opened \ {x}) \cup {y}
    BY <1>6, ReloadProjectInv
  <2>4. ASSUME <<a, x>> \in E, a # x PROVE a \in Opened
    <3>1. Contains(m_ProjectDeps[a], x)
      BY <2>4, EdgesOf, ContainsRange DEF DepsInv, ArraysOK, Sound, Lists
    <3>2. a \in Dependents(x)
      BY <2>4, <3>1 DEF Dependents
    <3> QED BY <1>6, <3>2 DEF ReloadProject
  <2> QED BY <2>2, <2>3, <2>4
<1>7. ASSUME NEW x \in Address, NEW y \in Address, AddDependency(x, y) PROVE a \in Opened'
  <2>1. a = x
    BY <1>2, <1>7, AddDependencyInv
  <2> QED BY <1>7, <2>1 DEF AddDependency, Opened
<1>8. ASSUME NEW x \in Address, NEW y \in Address, RemoveProjectDependency(x, y) PROVE FALSE
  BY <1>2, <1>8, RemoveDependencyInv
<1>9. ASSUME NEW x \in Address, NEW checked \in SUBSET Opened, SaveList(x, checked) PROVE a \in Opened'
  <2>1. a = x
    BY <1>2, <1>9, SaveListInv DEF Others, From
  <2> QED BY <1>9, <2>1 DEF SaveList, Opened
<1>10. ASSUME SaveWorkspace PROVE FALSE
  BY <1>2, <1>10 DEF SaveWorkspace
<1>11. ASSUME NEW missing, LoadWorkspace(missing) PROVE a \in Opened'
  BY <1>2, <1>11, LoadWorkspaceInv
<1>12. CASE UNCHANGED vars
  BY <1>2, <1>12 DEF vars
<1> QED BY <1>4, <1>5, <1>6, <1>7, <1>8, <1>9, <1>10, <1>11, <1>12 DEF Next

(* The orphaned arrays are the only way: without a reload while one names   *)
(* the project, a dependency is entered for open projects only.             *)
THEOREM OpenDepend == "orphan" \notin Mishaps => (Spec => OnlyOpenDepend)
<1> SUFFICES ASSUME "orphan" \notin Mishaps PROVE Spec => OnlyOpenDepend
  OBVIOUS
<1>1. DepsInv /\ [Next]_vars =>
        [\A a \in Address : Range(m_ProjectDeps'[a]) \ Range(m_ProjectDeps[a]) # {} =>
           a \in Range(m_pProjects')]_vars
  BY EntersOpen
<1> QED BY <1>1, Invariant, PTL DEF Spec, OnlyOpenDepend

(* What RelationIs and RelationAcyclic say, before and after a step.        *)
Seen ==
  /\ \A f, g \in File : <<f, g>> \in Relation <=>
       \E a, b \in Opened : f = file[a] /\ g = file[b] /\ <<a, b>> \in Edges(m_ProjectDeps)
  /\ Relation \subseteq File \X File
  /\ \A a \in Opened : a \in Address /\ file[a] \in File
  /\ \A a, b \in Opened : file[a] = file[b] => a = b
  /\ \A a, b \in Address : <<a, b>> \in Edges(m_ProjectDeps) => b \in Opened /\ a # b
  /\ \A p, t \in File : <<p, t>> \in Relation => p \notin Graph!Needed(Relation, t)

(* Both follow from the invariant, before a step ...                        *)
LEMMA InvSeen == DepsInv => Seen
<1> SUFFICES ASSUME DepsInv PROVE Seen
  OBVIOUS
<1>1. \A f, g \in File : <<f, g>> \in Relation <=>
        \E a, b \in Opened : f = file[a] /\ g = file[b] /\ <<a, b>> \in Edges(m_ProjectDeps)
  <2>1. SUFFICES ASSUME NEW f \in File, NEW g \in File
                 PROVE  <<f, g>> \in Relation <=>
                          \E a, b \in Opened : f = file[a] /\ g = file[b] /\ <<a, b>> \in Edges(m_ProjectDeps)
    OBVIOUS
  <2>2. ASSUME <<f, g>> \in Relation
        PROVE  \E a, b \in Opened : f = file[a] /\ g = file[b] /\ <<a, b>> \in Edges(m_ProjectDeps)
    <3>1. PICK a \in Opened, b \in Opened : f = file[a] /\ g = file[b]
      BY <2>2, RelationIs
    <3>2. <<a, b>> \in Edges(m_ProjectDeps)
      BY <2>2, <3>1, RelationIs
    <3> QED BY <3>1, <3>2
  <2> QED BY <2>2, RelationIs
<1>2. Relation \subseteq File \X File /\ \A a \in Opened : a \in Address /\ file[a] \in File
  BY RelationIs
<1>3. \A a, b \in Opened : file[a] = file[b] => a = b
  BY DEF DepsInv, FilesOK
<1>4. \A a, b \in Address : <<a, b>> \in Edges(m_ProjectDeps) => b \in Opened /\ a # b
  BY EdgesOf, NotOnItself DEF DepsInv, ArraysOK, Sound
<1>5. \A p, t \in File : <<p, t>> \in Relation => p \notin Graph!Needed(Relation, t)
  <2>1. \A t : G!Needed(Relation, t) = Graph!Needed(Relation, t)
    BY DEF G!Needed, G!Closed, Graph!Needed, Graph!Closed
  <2>2. SUFFICES ASSUME NEW p \in File, NEW t \in File, <<p, t>> \in Relation
                 PROVE  p \notin G!Needed(Relation, t)
    BY <2>1
  <2> QED BY <2>2, RelationAcyclic, G!NoWayBack
<1> QED BY <1>1, <1>2, <1>3, <1>4, <1>5 DEF Seen

(* Two relations are one if they have the same pairs.                       *)
LEMMA SamePairs ==
  ASSUME NEW S, NEW P, NEW Q, P \subseteq S \X S, Q \subseteq S \X S,
         \A x, y \in S : <<x, y>> \in P <=> <<x, y>> \in Q
  PROVE  P = Q
<1>1. ASSUME NEW e \in S \X S PROVE e \in P <=> e \in Q
  <2>1. PICK x \in S, y \in S : e = <<x, y>>
    OBVIOUS
  <2> QED BY <2>1
<1> QED BY <1>1

(* ... and after it.                                                        *)
LEMMA InvSeenNext == ASSUME DepsInv' PROVE Seen'
<1>1. DepsInv' => Seen'
  BY InvSeen, PTL
<1> QED BY <1>1

(* A step that leaves the workspace file leaves what is saved.              *)
LEMMA SavedSame ==
  ASSUME UNCHANGED workspace
  PROVE  UNCHANGED [open |-> {workspace[i].file : i \in DOMAIN workspace}, edges |-> Written]
BY DEF Written

Same == UNCHANGED <<{file[a] : a \in Opened}, Relation,
                    [open |-> {workspace[i].file : i \in DOMAIN workspace}, edges |-> Written]>>

(* Such a step is none of the graph.                                        *)
LEMMA SameIsStutter == Same => UNCHANGED Graph!vars
BY DEF Same, Graph!vars

(* A loaded project is one that nothing depends on, and its array is empty: *)
(* its address is not that of a deleted project that had one.               *)
LEMMA LoadIsOpen ==
  ASSUME "reuse" \notin Mishaps, DepsInv, DepsInv',
         NEW a \in Address, NEW f \in File, LoadProject(a, f)
  PROVE  Graph!Open(f)
<1>1. Seen /\ Seen'
  BY InvSeen, InvSeenNext
<1>2. Opened' = Opened \cup {a} /\ a \notin Opened
  BY LoadProjectInv
<1>3. /\ m_ProjectDeps[a] = <<>> /\ UNCHANGED <<m_ProjectDeps, workspace>>
      /\ \A b \in Opened : file[b] # f
      /\ \A b \in Address : file'[b] = IF b = a THEN f ELSE file[b]
  BY DEF LoadProject, Free, DepsInv, FilesOK
<1>4. \A b \in Address : <<a, b>> \notin Edges(m_ProjectDeps)
  BY <1>3, EmptyList DEF Edges
<1>5. Edges(m_ProjectDeps') = Edges(m_ProjectDeps)
  BY <1>3
<1> DEFINE E == Edges(m_ProjectDeps)
<1> HIDE DEF E
<1>6. ASSUME NEW g \in File, NEW h \in File
      PROVE  <<g, h>> \in Relation' <=> <<g, h>> \in Relation
  <2>1. \A b, c \in Opened' : <<b, c>> \in E => b \in Opened /\ c \in Opened
    BY <1>1, <1>2, <1>4, <1>5 DEF Seen, E
  <2>2. \A b \in Opened : file'[b] = file[b] /\ b \in Opened'
    BY <1>1, <1>2, <1>3 DEF Seen
  <2>3. <<g, h>> \in Relation <=> \E b, c \in Opened : g = file[b] /\ h = file[c] /\ <<b, c>> \in E
    <3>1. \A x, y \in File : <<x, y>> \in Relation <=>
            \E b, c \in Opened : x = file[b] /\ y = file[c] /\ <<b, c>> \in E
      BY <1>1 DEF Seen, E
    <3> QED BY <3>1
  <2>4. <<g, h>> \in Relation' <=> \E b, c \in Opened' : g = file'[b] /\ h = file'[c] /\ <<b, c>> \in E
    BY <1>1, <1>5 DEF Seen, E
  <2> QED BY <2>1, <2>2, <2>3, <2>4
<1>7. Relation' = Relation
  <2>1. Relation \subseteq File \X File /\ Relation' \subseteq File \X File
    BY <1>1 DEF Seen
  <2> QED BY <1>6, <2>1, SamePairs
<1>8. {file'[b] : b \in Opened'} = {file[b] : b \in Opened} \cup {f}
  BY <1>1, <1>2, <1>3 DEF Seen
<1> QED BY <1>3, <1>7, <1>8, SavedSame DEF Graph!Open

(* Closing takes the project and what concerns it out of the graph.         *)
LEMMA CloseIsClose ==
  ASSUME DepsInv, DepsInv', NEW a \in Address, CloseProject(a), NEW f, f = file[a]
  PROVE  Graph!Close(f)
<1> DEFINE E == Edges(m_ProjectDeps)
           E2 == Edges(m_ProjectDeps')
           O == {file[b] : b \in Opened}
           O2 == {file'[b] : b \in Opened'}
           Left == Graph!Among(Relation, O2)
<1>1. Seen /\ Seen'
  BY InvSeen, InvSeenNext
<1>2. Opened' = Opened \ {a} /\ E2 = Without(E, a) /\ a \in Opened
  BY CloseProjectInv DEF CloseProject
<1>3. /\ UNCHANGED workspace
      /\ \A b \in Address : file'[b] = IF b = a THEN NoFile ELSE file[b]
  BY DEF CloseProject, DepsInv, FilesOK
<1> HIDE DEF E, E2
<1>4. /\ \A b \in Opened' : b \in Opened /\ b \in Address /\ b # a /\ file'[b] = file[b]
      /\ \A b, c \in Opened : file[b] = file[c] => b = c
      /\ \A b \in Opened : b # a => b \in Opened'
  BY <1>1, <1>2, <1>3 DEF Seen
<1>5. O2 = O \ {file[a]}
  <2>1. ASSUME NEW g \in O2 PROVE g \in O \ {file[a]}
    BY <1>2, <1>4
  <2>2. ASSUME NEW g \in O \ {file[a]} PROVE g \in O2
    <3>1. PICK b \in Opened : g = file[b]
      OBVIOUS
    <3> QED BY <1>4, <2>2, <3>1
  <2> QED BY <2>1, <2>2
<1>6. ASSUME NEW g \in File, NEW h \in File
      PROVE  <<g, h>> \in Relation' <=> <<g, h>> \in Left
  <2>1. \A x, y \in File : <<x, y>> \in Relation <=>
          \E b, c \in Opened : x = file[b] /\ y = file[c] /\ <<b, c>> \in E
    BY <1>1 DEF Seen, E
  <2>2. \A x, y \in File : <<x, y>> \in Relation' <=>
          \E b, c \in Opened' : x = file'[b] /\ y = file'[c] /\ <<b, c>> \in E2
    BY <1>1 DEF Seen, E2
  <2>3. ASSUME <<g, h>> \in Relation' PROVE <<g, h>> \in Left
    <3>1. PICK b \in Opened', c \in Opened' : g = file'[b] /\ h = file'[c] /\ <<b, c>> \in E2
      BY <2>2, <2>3
    <3>2. <<g, h>> \in Relation
      BY <1>2, <1>4, <2>1, <3>1 DEF Without
    <3> QED BY <3>1, <3>2 DEF Graph!Among
  <2>4. ASSUME <<g, h>> \in Left PROVE <<g, h>> \in Relation'
    <3>1. <<g, h>> \in Relation /\ g \in O2 /\ h \in O2
      BY <2>4 DEF Graph!Among
    <3>2. PICK b \in Opened, c \in Opened : g = file[b] /\ h = file[c] /\ <<b, c>> \in E
      BY <2>1, <3>1
    <3>3. b # a /\ c # a
      BY <1>5, <3>1, <3>2
    <3>4. <<b, c>> \in E2
      BY <1>2, <3>2, <3>3 DEF Without
    <3> QED BY <1>4, <2>2, <3>2, <3>3, <3>4
  <2> QED BY <2>3, <2>4
<1>7. Relation' = Left
  <2>1. Relation \subseteq File \X File /\ Relation' \subseteq File \X File
    BY <1>1 DEF Seen
  <2>2. Left \subseteq File \X File
    BY <2>1 DEF Graph!Among
  <2> HIDE DEF Left
  <2> QED BY <1>6, <2>1, <2>2, SamePairs
<1> QED BY <1>2, <1>3, <1>5, <1>7, SavedSame DEF Graph!Close

(* An edit of one array, whatever it enters or leaves out.                  *)
LEMMA EditIsDepend ==
  ASSUME DepsInv, DepsInv', NEW a \in Opened, UNCHANGED <<m_pProjects, file, workspace>>,
         Others(Edges(m_ProjectDeps'), a) = Others(Edges(m_ProjectDeps), a)
  PROVE  \E f \in File, T \in SUBSET {file[b] : b \in Opened} : Graph!Depend(f, T)
<1> DEFINE E == Edges(m_ProjectDeps)
           E2 == Edges(m_ProjectDeps')
<1>1. Seen /\ Seen' /\ Opened' = Opened /\ file' = file
  BY InvSeen, InvSeenNext DEF Opened
<1>2. Others(E2, a) = Others(E, a)
  OBVIOUS
<1> HIDE DEF E, E2
<1>a. PICK p \in File : p = file[a]
  BY <1>1 DEF Seen
<1> DEFINE T == {g \in File : <<p, g>> \in Relation'}
           others == {e \in Relation : e[1] # p}
<1>3. \A x, y \in File : <<x, y>> \in Relation <=>
        \E b, c \in Opened : x = file[b] /\ y = file[c] /\ <<b, c>> \in E
  BY <1>1 DEF Seen, E
<1>4. \A x, y \in File : <<x, y>> \in Relation' <=>
        \E b, c \in Opened : x = file[b] /\ y = file[c] /\ <<b, c>> \in E2
  <2>1. \A x, y \in File : <<x, y>> \in Relation' <=>
          \E b, c \in Opened' : x = file'[b] /\ y = file'[c] /\ <<b, c>> \in E2
    BY <1>1 DEF Seen, E2
  <2>2. ASSUME NEW x \in File, NEW y \in File
        PROVE  <<x, y>> \in Relation' <=>
                 \E b, c \in Opened : x = file[b] /\ y = file[c] /\ <<b, c>> \in E2
    <3>1. <<x, y>> \in Relation' <=>
            \E b, c \in Opened' : x = file'[b] /\ y = file'[c] /\ <<b, c>> \in E2
      BY <2>1
    <3>2. Opened' = Opened /\ file' = file
      BY <1>1
    <3> QED BY <3>1, <3>2
  <2> QED BY <2>2
<1>5. /\ p \in File /\ \A b, c \in Opened : file[b] = file[c] => b = c
      /\ Relation \subseteq File \X File /\ Relation' \subseteq File \X File
      /\ \A q, t \in File : <<q, t>> \in Relation' => q \notin Graph!Needed(Relation', t)
  BY <1>1 DEF Seen
<1>6. ASSUME NEW x \in File, NEW y \in File, x # p
      PROVE  <<x, y>> \in Relation' <=> <<x, y>> \in Relation
  <2>1. \A b, c \in Opened : x = file[b] => (<<b, c>> \in E <=> <<b, c>> \in E2)
    BY <1>2, <1>6, <1>a DEF Others
  <2>2. (\E b, c \in Opened : x = file[b] /\ y = file[c] /\ <<b, c>> \in E) <=>
          \E b, c \in Opened : x = file[b] /\ y = file[c] /\ <<b, c>> \in E2
    BY <2>1
  <2>3. <<x, y>> \in Relation <=> \E b, c \in Opened : x = file[b] /\ y = file[c] /\ <<b, c>> \in E
    BY <1>3
  <2>4. <<x, y>> \in Relation' <=> \E b, c \in Opened : x = file[b] /\ y = file[c] /\ <<b, c>> \in E2
    BY <1>4
  <2> QED BY <2>2, <2>3, <2>4
<1>7. Relation' = others \cup ({p} \X T)
  <2>1. ASSUME NEW x \in File, NEW y \in File
        PROVE  <<x, y>> \in Relation' <=> <<x, y>> \in others \cup ({p} \X T)
    BY <1>6
  <2>2. others \cup ({p} \X T) \subseteq File \X File
    BY <1>5
  <2> HIDE DEF others, T
  <2> QED BY <1>5, <2>1, <2>2, SamePairs
<1>8. T \subseteq {file[b] : b \in Opened}
  <2> SUFFICES ASSUME NEW g \in File, <<p, g>> \in Relation' PROVE g \in {file[b] : b \in Opened}
    OBVIOUS
  <2>1. \E b, c \in Opened : p = file[b] /\ g = file[c] /\ <<b, c>> \in E2
    BY <1>4, <1>5
  <2> QED BY <2>1
<1>9. ASSUME NEW t \in T PROVE p \notin Graph!Needed(others, t)
  <2>1. others \subseteq Relation' /\ t \in File /\ <<p, t>> \in Relation'
    BY <1>7
  <2>2. p \notin Graph!Needed(Relation', t)
    BY <1>5, <2>1
  <2> HIDE DEF others
  <2>3. Graph!Needed(others, t) \subseteq Graph!Needed(Relation', t)
    BY <2>1 DEF Graph!Needed, Graph!Closed
  <2> QED BY <2>2, <2>3
<1>10. {file'[b] : b \in Opened'} = {file[b] : b \in Opened} /\ p \in {file[b] : b \in Opened}
  BY <1>1, <1>a
<1>11. Graph!Depend(p, T)
  BY <1>7, <1>8, <1>9, <1>10, SavedSame DEF Graph!Depend
<1> QED BY <1>8, <1>11

(* Nothing is at the address a project is reloaded to: no array names it,   *)
(* and its own, once the project is closed, is empty.                       *)
LEMMA MovedTo ==
  ASSUME "reuse" \notin Mishaps, DepsInv,
         NEW a \in Address, NEW b \in Address, ReloadProject(a, b)
  PROVE  /\ b # a => \A x \in Address : <<x, b>> \notin Edges(m_ProjectDeps)
         /\ \A y \in Address : <<b, y>> \in Edges(m_ProjectDeps) => y = a
         /\ <<a, a>> \notin Edges(m_ProjectDeps)
<1> DEFINE closed == RemoveProjectFromAllDependencies(m_ProjectDeps, a)
           E == Edges(m_ProjectDeps)
<1>1. Seen
  BY InvSeen
<1>2. b \notin Opened \ {a}
  BY ReloadProjectInv
<1>3. closed[b] = <<>>
  BY DEF ReloadProject, Free
<1>4. Sound(closed) /\ Edges(closed) = Without(E, a)
  BY RemoveFromAllKeeps DEF DepsInv, ArraysOK
<1> HIDE DEF closed
<1>5. \A y \in Address : <<b, y>> \notin Edges(closed)
  BY <1>3, EmptyList DEF Edges
<1> HIDE DEF E
<1>6. \A x, y \in Address : <<x, y>> \in E => y \in Opened /\ x # y
  BY <1>1 DEF Seen, E
<1> QED BY <1>2, <1>4, <1>5, <1>6 DEF Without, E

(* The dependencies that are moved are those that were there, with b for a: *)
(* they close no cycle.                                                     *)
LEMMA MovedAcyclic ==
  ASSUME "reuse" \notin Mishaps, DepsInv,
         NEW a \in Address, NEW b \in Address, ReloadProject(a, b)
  PROVE  A!NoCycle(Moved(Edges(m_ProjectDeps), a, b))
<1> DEFINE E == Edges(m_ProjectDeps)
           all == Moved(E, a, b)
           r == [x \in Address |-> IF x = b THEN a ELSE x]
<1>1. /\ b # a => \A x \in Address : <<x, b>> \notin E
      /\ \A y \in Address : <<b, y>> \in E => y = a
      /\ <<a, a>> \notin E
  BY MovedTo
<1>2. NoCycleOn(Address, E)
  BY DEF DepsInv, ArraysOK, Sound, A!NoCycle, NoCycleOn
<1>3. r \in [Address -> Address] /\ \A x \in Address : r[x] = IF x = b THEN a ELSE x
  OBVIOUS
<1> HIDE DEF r, E
<1>4. ASSUME NEW x \in Address, NEW y \in Address, <<x, y>> \in all
      PROVE  <<r[x], r[y]>> \in E
  <2>1. CASE <<x, y>> \in E /\ (x = a \/ y # a)
    BY <1>1, <1>3, <2>1
  <2>2. CASE x = b /\ <<a, y>> \in E
    BY <1>1, <1>3, <2>2
  <2>3. CASE y = b /\ x \notin {a, b} /\ <<x, a>> \in E
    BY <1>1, <1>3, <2>3
  <2> QED BY <1>4, <2>1, <2>2, <2>3 DEF Moved, Without, From, Onto
<1> HIDE DEF all
<1>5. NoCycleOn(Address, all)
  <2> SUFFICES ASSUME NEW S \in SUBSET Address, S # {}, \A x \in S : \E y \in S : <<x, y>> \in all
               PROVE  FALSE
    BY DEF NoCycleOn
  <2>1. {r[x] : x \in S} \in SUBSET Address /\ {r[x] : x \in S} # {}
    BY <1>3
  <2>2. PICK t \in {r[x] : x \in S} : \A u \in {r[x] : x \in S} : <<t, u>> \notin E
    BY <1>2, <2>1 DEF NoCycleOn
  <2>3. PICK x \in S : t = r[x]
    BY <2>2
  <2>4. PICK y \in S : <<x, y>> \in all
    OBVIOUS
  <2> QED BY <1>4, <2>2, <2>3, <2>4
<1> QED BY <1>5 DEF A!NoCycle, NoCycleOn, all, E

(* The user sees nothing of a reload.                                       *)
LEMMA ReloadIsStutter ==
  ASSUME "reuse" \notin Mishaps, DepsInv, DepsInv',
         NEW a \in Address, NEW b \in Address, ReloadProject(a, b)
  PROVE  Same
<1> DEFINE E == Edges(m_ProjectDeps)
           E2 == Edges(m_ProjectDeps')
           h(x) == IF x = b THEN a ELSE x
<1>1. Seen /\ Seen'
  BY InvSeen, InvSeenNext
<1>2. /\ b # a => \A x \in Address : <<x, b>> \notin E
      /\ \A y \in Address : <<b, y>> \in E => y = a
      /\ <<a, a>> \notin E
  BY MovedTo
<1>3. E2 = Moved(E, a, b)
  BY MovedAcyclic, ReloadedSound DEF ReloadProject
<1>4. /\ a \in Opened /\ b \notin Opened \ {a} /\ Opened' = (Opened \ {a}) \cup {b}
      /\ \A c \in Address : file'[c] = IF c = b THEN file[a] ELSE IF c = a THEN NoFile ELSE file[c]
      /\ UNCHANGED workspace
  BY ReloadProjectInv DEF ReloadProject
<1> HIDE DEF E, E2
<1>5. \A x \in Opened' : x \in Address /\ h(x) \in Opened /\ file'[x] = file[h(x)]
  BY <1>1, <1>4 DEF Seen
<1>6. \A x \in Opened : \E y \in Opened' : h(y) = x
  BY <1>4
<1>7. ASSUME NEW x \in Opened', NEW y \in Opened'
      PROVE  <<x, y>> \in E2 <=> <<h(x), h(y)>> \in E
  <2>1. x \in Address /\ y \in Address /\ (b # a => x # a /\ y # a)
    BY <1>4, <1>5
  <2>2. <<x, y>> \in E2 <=> \/ <<x, y>> \in E /\ (x = a \/ y # a)
                            \/ x = b /\ <<a, y>> \in E
                            \/ y = b /\ x \notin {a, b} /\ <<x, a>> \in E
    BY <1>3, <2>1 DEF Moved, Without, From, Onto
  <2> QED BY <1>2, <2>1, <2>2
<1> HIDE DEF h
<1>8. ASSUME NEW f \in File, NEW g \in File
      PROVE  <<f, g>> \in Relation' <=> <<f, g>> \in Relation
  <2>1. \A x, y \in File : <<x, y>> \in Relation <=>
          \E c, d \in Opened : x = file[c] /\ y = file[d] /\ <<c, d>> \in E
    BY <1>1 DEF Seen, E
  <2>2. \A x, y \in File : <<x, y>> \in Relation' <=>
          \E c, d \in Opened' : x = file'[c] /\ y = file'[d] /\ <<c, d>> \in E2
    BY <1>1 DEF Seen, E2
  <2>3. ASSUME <<f, g>> \in Relation' PROVE <<f, g>> \in Relation
    <3>1. PICK c \in Opened', d \in Opened' : f = file'[c] /\ g = file'[d] /\ <<c, d>> \in E2
      BY <2>2, <2>3
    <3>2. <<h(c), h(d)>> \in E /\ h(c) \in Opened /\ h(d) \in Opened /\ f = file[h(c)] /\ g = file[h(d)]
      BY <1>5, <1>7, <3>1
    <3> QED BY <2>1, <3>2
  <2>4. ASSUME <<f, g>> \in Relation PROVE <<f, g>> \in Relation'
    <3>1. PICK c \in Opened, d \in Opened : f = file[c] /\ g = file[d] /\ <<c, d>> \in E
      BY <2>1, <2>4
    <3>2. PICK x \in Opened', y \in Opened' : h(x) = c /\ h(y) = d
      BY <1>6
    <3>3. <<x, y>> \in E2 /\ f = file'[x] /\ g = file'[y]
      BY <1>5, <1>7, <3>1, <3>2
    <3> QED BY <2>2, <3>3
  <2> QED BY <2>3, <2>4
<1>9. Relation' = Relation
  <2>1. Relation \subseteq File \X File /\ Relation' \subseteq File \X File
    BY <1>1 DEF Seen
  <2> QED BY <1>8, <2>1, SamePairs
<1>10. {file'[x] : x \in Opened'} = {file[x] : x \in Opened}
  <2>1. \A x \in Opened' : file'[x] \in {file[y] : y \in Opened}
    BY <1>5
  <2>2. ASSUME NEW x \in Opened PROVE file[x] \in {file'[y] : y \in Opened'}
    <3>1. PICK y \in Opened' : h(y) = x
      BY <1>6
    <3> QED BY <1>5, <3>1
  <2> QED BY <2>1, <2>2
<1> QED BY <1>4, <1>9, <1>10, SavedSame DEF Same

(* The workspace file is given what the user sees.                          *)
LEMMA SaveIsSave ==
  ASSUME DepsInv, SaveWorkspace
  PROVE  Graph!Save
<1>1. /\ Saved' = {file[a] : a \in Opened} /\ Written' = Relation
      /\ UNCHANGED <<m_pProjects, file, m_ProjectDeps>>
  BY SaveWorkspaceInv
<1>2. Relation' = Relation /\ Opened' = Opened
  BY <1>1 DEF Relation, Opened
<1> QED BY <1>1, <1>2 DEF Graph!Save, Saved

(* What is saved are project files.                                         *)
LEMMA SavedFiles ==
  ASSUME DepsInv
  PROVE  Saved \subseteq File /\ Saved = {workspace[i].file : i \in DOMAIN workspace}
<1>1. workspace \in Seq(Entries)
  BY DEF DepsInv, WorkspaceOK
<1>2. \A i \in DOMAIN workspace : workspace[i] \in Entries
  BY <1>1
<1> QED BY <1>2 DEF Entries, Saved

(* The workspace that is loaded is that which was saved, as far as its      *)
(* projects can be opened.                                                  *)
LEMMA LoadIsLoad ==
  ASSUME DepsInv, DepsInv', NEW missing, LoadWorkspace(missing)
  PROVE  Graph!Load(missing)
<1> DEFINE files == {f \in Saved : f \notin missing}
           E2 == Edges(m_ProjectDeps')
           Left == Graph!Among(Written, files)
<1>1. Seen'
  BY InvSeenNext
<1>2. UNCHANGED workspace
  BY LoadWorkspaceInv
<1>3. PICK at \in [files -> Address] :
        /\ Opened' = {at[f] : f \in files}
        /\ \A f \in files : file'[at[f]] = f
        /\ \A f, g \in files : <<at[f], at[g]>> \in E2 <=> <<f, g>> \in Written
  <2>1. LET fs == {f \in Saved : f \notin missing}
        IN  \E at \in [fs -> Address] :
              /\ IsInjective(at)
              /\ Opened' = {at[f] : f \in fs}
              /\ \A f \in fs : file'[at[f]] = f
              /\ \A f, g \in fs : <<at[f], at[g]>> \in Edges(m_ProjectDeps') <=> <<f, g>> \in Written
              /\ \A e \in Edges(m_ProjectDeps') : e[1] \in Opened'
    BY LoadWorkspaceInv
  <2>2. \E at \in [files -> Address] :
              /\ IsInjective(at)
              /\ Opened' = {at[f] : f \in files}
              /\ \A f \in files : file'[at[f]] = f
              /\ \A f, g \in files : <<at[f], at[g]>> \in E2 <=> <<f, g>> \in Written
              /\ \A e \in E2 : e[1] \in Opened'
    BY <2>1
  <2> HIDE DEF files, E2
  <2> QED BY <2>2
<1>4. files \subseteq File
  BY SavedFiles
<1> HIDE DEF files, E2
<1>5. {file'[a] : a \in Opened'} = files
  BY <1>3
<1>6. ASSUME NEW f \in File, NEW g \in File
      PROVE  <<f, g>> \in Relation' <=> <<f, g>> \in Left
  <2>1. \A x, y \in File : <<x, y>> \in Relation' <=>
          \E c, d \in Opened' : x = file'[c] /\ y = file'[d] /\ <<c, d>> \in E2
    BY <1>1 DEF Seen, E2
  <2>2. ASSUME <<f, g>> \in Relation' PROVE f \in files /\ g \in files /\ <<f, g>> \in Written
    <3>1. PICK c \in Opened', d \in Opened' : f = file'[c] /\ g = file'[d] /\ <<c, d>> \in E2
      BY <2>1, <2>2
    <3>2. PICK x \in files, y \in files : c = at[x] /\ d = at[y]
      BY <1>3
    <3> QED BY <1>3, <3>1, <3>2
  <2>3. ASSUME f \in files, g \in files, <<f, g>> \in Written PROVE <<f, g>> \in Relation'
    <3>1. <<at[f], at[g]>> \in E2 /\ at[f] \in Opened' /\ at[g] \in Opened'
          /\ f = file'[at[f]] /\ g = file'[at[g]]
      BY <1>3, <2>3
    <3> QED BY <2>1, <3>1
  <2>4. <<f, g>> \in Left <=> f \in files /\ g \in files /\ <<f, g>> \in Written
    BY DEF Graph!Among
  <2> QED BY <2>2, <2>3, <2>4
<1>7. Relation' = Left
  <2>1. Relation' \subseteq File \X File
    BY <1>1 DEF Seen
  <2>2. Left \subseteq File \X File
    <3>1. \A e \in Written : \E x, y : e = <<x, y>>
      BY DEF Written
    <3>2. \A x, y : <<x, y>> \in Left => x \in File /\ y \in File
      BY <1>4 DEF Graph!Among
    <3>3. Left \subseteq Written
      BY DEF Graph!Among
    <3> HIDE DEF Left
    <3> QED BY <3>1, <3>2, <3>3
  <2> HIDE DEF Left
  <2> QED BY <1>6, <2>1, <2>2, SamePairs
<1>8. files = Saved \ missing
  BY DEF files
<1> QED BY <1>2, <1>5, <1>7, <1>8, SavedSame DEF Graph!Load, Saved

(* Each step of the arrays is one of the graph, or none.                    *)
LEMMA StepIsStep ==
  ASSUME "reuse" \notin Mishaps, DepsInv, [Next]_vars
  PROVE  [Graph!Next]_(Graph!vars)
<1>0. DepsInv'
  BY StepInv
<1>1. \A a \in Opened : a \in Address /\ file[a] \in File
  BY RelationIs
<1>2. ASSUME NEW a \in Address, NEW f \in File, LoadProject(a, f) PROVE Graph!Next
  BY <1>0, <1>2, LoadIsOpen DEF Graph!Next
<1>3. ASSUME NEW a \in Address, CloseProject(a) PROVE Graph!Next
  <2>1. file[a] \in File
    BY <1>1, <1>3 DEF CloseProject
  <2>2. PICK f \in File : f = file[a]
    BY <2>1
  <2>3. Graph!Close(f)
    BY <1>0, <1>3, <2>2, CloseIsClose
  <2> QED BY <2>3 DEF Graph!Next
<1>4. ASSUME NEW a \in Address, NEW b \in Address, ReloadProject(a, b) PROVE UNCHANGED Graph!vars
  BY <1>0, <1>4, ReloadIsStutter, SameIsStutter
<1>5. ASSUME NEW a \in Opened, UNCHANGED <<m_pProjects, file, workspace>>,
             Others(Edges(m_ProjectDeps'), a) = Others(Edges(m_ProjectDeps), a)
      PROVE  Graph!Next
  <2>1. \E f \in File, T \in SUBSET {file[b] : b \in Opened} : Graph!Depend(f, T)
    BY <1>0, <1>5, EditIsDepend
  <2> QED BY <2>1 DEF Graph!Next
<1>6. ASSUME NEW a \in Address, NEW b \in Address, AddDependency(a, b) PROVE Graph!Next
  <2>1. Others(Edges(m_ProjectDeps'), a) = Others(Edges(m_ProjectDeps), a)
    BY <1>6, AddDependencyInv DEF Others
  <2>2. a \in Opened /\ UNCHANGED <<m_pProjects, file, workspace>>
    BY <1>6 DEF AddDependency
  <2> QED BY <1>5, <2>1, <2>2
<1>7. ASSUME NEW a \in Address, NEW b \in Address, RemoveProjectDependency(a, b) PROVE Graph!Next
  <2>1. Others(Edges(m_ProjectDeps'), a) = Others(Edges(m_ProjectDeps), a)
    BY <1>7, RemoveDependencyInv DEF Others
  <2>2. a \in Opened /\ UNCHANGED <<m_pProjects, file, workspace>>
    BY <1>7 DEF RemoveProjectDependency
  <2> QED BY <1>5, <2>1, <2>2
<1>8. ASSUME NEW a \in Address, NEW checked \in SUBSET Opened, SaveList(a, checked) PROVE Graph!Next
  <2>1. Others(Edges(m_ProjectDeps'), a) = Others(Edges(m_ProjectDeps), a)
    BY <1>8, SaveListInv DEF Others, From
  <2>2. a \in Opened /\ UNCHANGED <<m_pProjects, file, workspace>>
    BY <1>8 DEF SaveList
  <2> QED BY <1>5, <2>1, <2>2
<1>9. ASSUME SaveWorkspace PROVE Graph!Next
  BY <1>9, SaveIsSave DEF Graph!Next
<1>10. ASSUME NEW missing \in SUBSET {workspace[i].file : i \in DOMAIN workspace}, LoadWorkspace(missing)
       PROVE  Graph!Next
  <2>1. missing \in SUBSET File
    BY SavedFiles
  <2> QED BY <1>0, <1>10, <2>1, LoadIsLoad DEF Graph!Next
<1>11. CASE UNCHANGED vars
  <2>1. UNCHANGED <<m_pProjects, file, m_ProjectDeps, workspace>>
    BY <1>11 DEF vars
  <2> QED BY <2>1 DEF Graph!vars, Relation, Opened, Written
<1> QED BY <1>2, <1>3, <1>4, <1>6, <1>7, <1>8, <1>9, <1>10, <1>11 DEF Next

(* At the start the graph is empty.                                         *)
LEMMA InitIsInit == Init => Graph!Init
<1> SUFFICES ASSUME Init PROVE Graph!Init
  OBVIOUS
<1>1. Opened = {}
  BY EmptyList DEF Init, Opened
<1>2. workspace = <<>> /\ DOMAIN workspace = {}
  BY DEF Init
<1> QED BY <1>1, <1>2 DEF Graph!Init, Relation, Written

(* The arrays are the graph ProjectGraph describes, where no object gets    *)
(* the address of a deleted one that had dependencies.                      *)
THEOREM Implements == "reuse" \notin Mishaps => (Spec => ImplementsGraph)
<1> SUFFICES ASSUME "reuse" \notin Mishaps PROVE Spec => ImplementsGraph
  OBVIOUS
<1>1. DepsInv /\ [Next]_vars => [Graph!Next]_(Graph!vars)
  BY StepIsStep
<1> QED BY <1>1, Invariant, InitIsInit, PTL DEF Spec, ImplementsGraph, Graph!Spec

(* Whatever the mishaps, the arrays of open and of deleted projects have no *)
(* cycle: the recursion of CausesCircularDependency ends.                   *)
THEOREM NoCircularDependency == Spec => []A!NoCycle(Edges(m_ProjectDeps))
<1>1. DepsInv => A!NoCycle(Edges(m_ProjectDeps))
  BY DEF DepsInv, ArraysOK, Sound
<1> QED BY <1>1, Invariant, PTL
-----------------------------------------------------------------------------
(* The order of a build.  CalculateProjectDependencies calls itself for the *)
(* projects that one depends on.  As the dependencies have no cycle, there  *)
(* is a function that is what the recursion asks, and of every function     *)
(* that is, it holds that it adds what a project needs in the right order.  *)

(* The body of the recursion: what Visit does with a project, if v says     *)
(* what it does with those it depends on.                                   *)
VisitOp(v, p, acc, d) ==
  IF CausesCircularDependency(m_ProjectDeps, p, d) THEN acc
  ELSE IF d \in Opened THEN AddOnce(v[d][acc], d) ELSE v[d][acc]
JobsOp(p, q, jobs, a) == jobs \o JobsOf(a)
ProjectsOp(p, q, acc, a) == CalculateProjectDependencies(a, acc)

Visiting == INSTANCE FoldLemmas WITH op <- VisitOp
Preprocessing == INSTANCE FoldLemmas WITH op <- JobsOp
Building == INSTANCE FoldLemmas WITH op <- ProjectsOp

Body(v, p) ==
  [order \in Seq(Address) |-> AddOnce(Visiting!Fold(v, p, order, m_ProjectDeps[p]), p)]

IsVisit(v) == v = [p \in Address |-> Body(v, p)]

(* v is as the recursion asks on R.                                         *)
VisitOn(v, R) == \A x \in R : v[x] = Body(v, x)

(* The dependencies that are there.                                         *)
Depends == Edges(m_ProjectDeps)

(* Visit is a solution of its equation, if there is one.                    *)
LEMMA TheVisit ==
  ASSUME NEW prj, NEW deps
  PROVE  CalculateProjectDependencies(prj, deps) = (CHOOSE v : IsVisit(v))[prj][deps]
BY DEF CalculateProjectDependencies, FoldLeft, MapThenFoldSet, Max, Visiting!Fold, Visiting!Top,
       VisitOp, IsVisit, Body

(* The loops over the projects are folds.                                   *)
LEMMA TheBuild ==
  /\ CalculateWorkspaceDependencies = Building!Fold(0, 0, <<>>, m_pProjects)
  /\ \A order : PreprocessJob(order) = Preprocessing!Fold(0, 0, <<>>, order)
<1>1. CalculateWorkspaceDependencies = Building!Fold(0, 0, <<>>, m_pProjects)
  BY DEF CalculateWorkspaceDependencies, FoldLeft, MapThenFoldSet, Max, Building!Fold, Building!Top, ProjectsOp
<1>2. \A order : PreprocessJob(order) = Preprocessing!Fold(0, 0, <<>>, order)
  BY DEF PreprocessJob, FoldLeft, MapThenFoldSet, Max, Preprocessing!Fold, Preprocessing!Top, JobsOp
<1> QED BY <1>1, <1>2

(* The body reads v at the dependencies of p only.                          *)
LEMMA BodySame ==
  ASSUME DepsInv, NEW v, NEW w, NEW p \in Address,
         \A d \in Address : <<p, d>> \in Depends => v[d] = w[d]
  PROVE  Body(v, p) = Body(w, p)
<1> DEFINE list == m_ProjectDeps[p]
<1>1. list \in Seq(Address) /\ \A i \in DOMAIN list : list[i] \in Address /\ <<p, list[i]>> \in Depends
  <2>1. ArraysTyped(m_ProjectDeps)
    BY DEF DepsInv, ArraysOK, Sound
  <2>2. list \in Seq(Address) /\ Range(list) \subseteq Address
    BY <2>1, EdgesOf DEF Lists
  <2>3. \A d \in Address : d \in Range(list) => <<p, d>> \in Depends
    BY <2>1, EdgesOf DEF Depends
  <2>4. \A i \in DOMAIN list : list[i] \in Range(list)
    BY DEF Range
  <2> QED BY <2>2, <2>3, <2>4
<1>2. \A i \in DOMAIN list : v[list[i]] = w[list[i]]
  BY <1>1
<1>3. \A i \in DOMAIN list : \A acc : VisitOp(v, p, acc, list[i]) = VisitOp(w, p, acc, list[i])
  BY <1>2 DEF VisitOp
<1> HIDE DEF list
<1>4. ASSUME NEW order
      PROVE  Visiting!Fold(v, p, order, list) = Visiting!Fold(w, p, order, list)
  BY <1>1, <1>3, Visiting!FoldSame
<1> QED BY <1>4 DEF Body, list

(* Where the recursion has solutions, they agree.                           *)
LEMMA VisitsAgree ==
  ASSUME DepsInv, NEW v, NEW w, NEW R \in SUBSET Address, A!Closed(Depends, R), VisitOn(v, R), VisitOn(w, R)
  PROVE  \A x \in R : v[x] = w[x]
<1> DEFINE D == {x \in R : v[x] # w[x]}
<1> SUFFICES ASSUME D # {} PROVE FALSE
  OBVIOUS
<1>1. PICK a \in D : \A b \in D : <<a, b>> \notin Depends
  <2>1. D \in SUBSET Address
    OBVIOUS
  <2> HIDE DEF D
  <2> QED BY <2>1 DEF DepsInv, ArraysOK, Sound, A!NoCycle, Depends
<1>2. \A d \in Address : <<a, d>> \in Depends => v[d] = w[d]
  BY <1>1 DEF A!Closed
<1>3. Body(v, a) = Body(w, a)
  BY <1>2, BodySame
<1> QED BY <1>3 DEF VisitOn

Solved(p) == \E v : VisitOn(v, A!Needed(Depends, p))
Solution(p) == CHOOSE v : VisitOn(v, A!Needed(Depends, p))
Whole == [x \in Address |-> Solution(x)[x]]

(* Put together, the solutions are one at every project that has one.       *)
LEMMA WholeIsVisit ==
  ASSUME DepsInv, NEW p \in Address, Solved(p)
  PROVE  \A x \in A!Needed(Depends, p) : Solution(p)[x] = Whole[x]
<1> SUFFICES ASSUME NEW x \in A!Needed(Depends, p) PROVE Solution(p)[x] = Solution(x)[x]
  BY DEF Whole, A!Needed
<1>1. x \in Address
  BY DEF A!Needed
<1> DEFINE R == A!Needed(Depends, x)
           v == Solution(p)
<1>2. R \subseteq A!Needed(Depends, p) /\ R \in SUBSET Address /\ A!Closed(Depends, R) /\ x \in R
  BY <1>1, A!NeededTransitive, A!NeededClosed DEF A!Needed
<1>3. VisitOn(v, A!Needed(Depends, p))
  BY DEF Solved, Solution
<1> HIDE DEF v
<1>4. VisitOn(v, R)
  BY <1>2, <1>3 DEF VisitOn
<1>5. VisitOn(Solution(x), R)
  BY <1>4 DEF Solution
<1> HIDE DEF R
<1>6. v[x] = Solution(x)[x]
  BY <1>2, <1>4, <1>5, VisitsAgree
<1> QED BY <1>6 DEF v

(* The recursion ends, for every project: there is a least one for which it *)
(* did not, and those it depends on have a solution that extends to it.     *)
LEMMA AllSolved ==
  ASSUME DepsInv
  PROVE  \A p \in Address : Solved(p)
<1> DEFINE D == {p \in Address : ~Solved(p)}
<1> SUFFICES ASSUME D # {} PROVE FALSE
  OBVIOUS
<1>0. A!NoCycle(Depends) /\ Depends \subseteq Address \X Address
  BY EdgesOf DEF DepsInv, ArraysOK, Sound, Depends
<1>1. PICK a \in D : \A b \in D : <<a, b>> \notin Depends
  <2>1. D \in SUBSET Address
    OBVIOUS
  <2> HIDE DEF D
  <2> QED BY <1>0, <2>1 DEF A!NoCycle
<1> DEFINE u == [x \in Address |-> IF x = a THEN Body(Whole, a) ELSE Whole[x]]
<1>2. a \in Address /\ ~Solved(a)
  OBVIOUS
<1>3. ASSUME NEW b \in Address, <<a, b>> \in Depends
      PROVE  Solved(b) /\ a \notin A!Needed(Depends, b)
  BY <1>0, <1>1, <1>2, <1>3, A!NoWayBack
<1>4. u[a] = Body(Whole, a) /\ \A x \in Address : x # a => u[x] = Whole[x]
  BY <1>2
<1> HIDE DEF u, D
<1>5. u[a] = Body(u, a)
  <2>1. \A d \in Address : <<a, d>> \in Depends => u[d] = Whole[d]
    BY <1>0, <1>4, NotOnItself
  <2> QED BY <1>2, <1>4, <2>1, BodySame
<1>6. ASSUME NEW x \in A!Needed(Depends, a), x # a PROVE u[x] = Body(u, x)
  <2>0. x \in Address
    BY DEF A!Needed
  <2>1. PICK b \in Address : <<a, b>> \in Depends /\ x \in A!Needed(Depends, b)
    BY <1>2, <1>6, <2>0, A!NeededStep
  <2>2. Solved(b) /\ a \notin A!Needed(Depends, b)
    BY <1>3, <2>1
  <2> DEFINE v == Solution(b)
  <2>3. \A y \in A!Needed(Depends, b) : v[y] = Whole[y]
    BY <2>2, WholeIsVisit
  <2>4. VisitOn(v, A!Needed(Depends, b))
    BY <2>2 DEF Solved, Solution
  <2> HIDE DEF v
  <2>5. \A y \in A!Needed(Depends, b) : u[y] = v[y]
    BY <1>4, <2>2, <2>3 DEF A!Needed
  <2>6. A!Closed(Depends, A!Needed(Depends, b))
    BY A!NeededClosed
  <2>7. \A d \in Address : <<x, d>> \in Depends => u[d] = v[d]
    BY <2>1, <2>5, <2>6 DEF A!Closed
  <2>8. Body(u, x) = Body(v, x)
    BY <2>0, <2>7, BodySame
  <2> QED BY <2>1, <2>4, <2>5, <2>8 DEF VisitOn
<1>7. VisitOn(u, A!Needed(Depends, a))
  BY <1>5, <1>6 DEF VisitOn
<1> QED BY <1>2, <1>7 DEF Solved

(* There is a solution: the recursion of CalculateProjectDependencies       *)
(* ends.                                                                    *)
LEMMA VisitExists ==
  ASSUME DepsInv
  PROVE  IsVisit(CHOOSE v : IsVisit(v))
<1>1. ASSUME NEW p \in Address PROVE Whole[p] = Body(Whole, p)
  <2> DEFINE v == Solution(p)
  <2>1. Solved(p)
    BY AllSolved
  <2>2. VisitOn(v, A!Needed(Depends, p))
    BY <2>1 DEF Solved, Solution
  <2>3. \A x \in A!Needed(Depends, p) : v[x] = Whole[x]
    BY <2>1, WholeIsVisit
  <2> HIDE DEF v
  <2>4. p \in A!Needed(Depends, p) /\ A!Closed(Depends, A!Needed(Depends, p))
    BY A!NeededClosed
  <2>5. Body(v, p) = Body(Whole, p)
    BY <2>3, <2>4, BodySame DEF A!Closed
  <2> QED BY <2>2, <2>3, <2>4, <2>5 DEF VisitOn
<1>2. Whole = [p \in Address |-> Whole[p]]
  BY DEF Whole
<1> HIDE DEF Whole
<1>3. IsVisit(Whole)
  BY <1>1, <1>2 DEF IsVisit
<1> QED BY <1>3
-----------------------------------------------------------------------------
(* Lists in which each project comes once, after those it depends on.       *)
Orders ==
  {o \in Lists(Address) :
     \A i \in DOMAIN o : \A y \in Address :
       <<o[i], y>> \in Depends => \E j \in DOMAIN o : j < i /\ o[j] = y}

(* A project whose dependencies are in the list may be appended to it.      *)
LEMMA AddOnceKeeps ==
  ASSUME NEW o \in Orders, NEW p \in Address,
         \A y \in Address : <<p, y>> \in Depends => y \in Range(o)
  PROVE  AddOnce(o, p) \in Orders /\ Range(AddOnce(o, p)) = Range(o) \cup {p}
<1>0. o \in Lists(Address) /\ o \in Seq(Address)
  BY DEF Orders, Lists
<1>1. CASE p \in Range(o)
  BY <1>0, <1>1, ContainsRange DEF AddOnce
<1>2. CASE p \notin Range(o)
  <2> DEFINE t == Append(o, p)
             n == Len(o)
  <2>1. AddOnce(o, p) = t
    BY <1>0, <1>2, ContainsRange DEF AddOnce
  <2>2. t \in Lists(Address) /\ Range(t) = Range(o) \cup {p}
    BY <1>0, <1>2, AppendKeeps
  <2>3. /\ n \in Nat /\ DOMAIN o = 1..n /\ DOMAIN t = 1..(n + 1)
        /\ t[n + 1] = p /\ \A i \in 1..n : t[i] = o[i]
    BY <1>0
  <2> HIDE DEF t, n
  <2>4. ASSUME NEW i \in 1..(n + 1), NEW y \in Address, <<t[i], y>> \in Depends
        PROVE  \E j \in 1..(n + 1) : j < i /\ t[j] = y
    <3>1. CASE i \in 1..n
      <4>1. PICK j \in 1..n : j < i /\ o[j] = y
        BY <2>3, <2>4, <3>1 DEF Orders
      <4> QED BY <2>3, <4>1
    <3>2. CASE i = n + 1
      <4>1. y \in Range(o)
        BY <2>3, <2>4, <3>2
      <4>2. PICK j \in 1..n : o[j] = y
        BY <2>3, <4>1 DEF Range
      <4> QED BY <2>3, <3>2, <4>2
    <3> QED BY <2>3, <3>1, <3>2
  <2>5. t \in Orders
    BY <2>2, <2>3, <2>4 DEF Orders
  <2> QED BY <2>1, <2>2, <2>5
<1> QED BY <1>1, <1>2

(* What Visit adds to an order is what the project needs.                   *)
Visits(v, p) ==
  \A o \in Orders : v[p][o] \in Orders /\ Range(v[p][o]) = Range(o) \cup A!Needed(Depends, p)

(* If it does so with what the project depends on, it does with the         *)
(* project.                                                                 *)
LEMMA VisitStep ==
  ASSUME DepsInv, NEW v, IsVisit(v), NEW p \in Address,
         \A d \in Address : <<p, d>> \in Depends => Visits(v, d)
  PROVE  Visits(v, p)
<1> SUFFICES ASSUME NEW o \in Orders
             PROVE  v[p][o] \in Orders /\ Range(v[p][o]) = Range(o) \cup A!Needed(Depends, p)
  BY DEF Visits
<1> DEFINE list == m_ProjectDeps[p]
           n == Len(list)
           Of(k) == UNION {A!Needed(Depends, list[i]) : i \in 1..k}
           R == [k \in 0..n |-> {acc \in Orders : Range(acc) = Range(o) \cup Of(k)}]
           fold == Visiting!Fold(v, p, o, list)
<1>0. /\ Sound(m_ProjectDeps) /\ ArraysTyped(m_ProjectDeps) /\ A!NoCycle(Depends)
      /\ \A x \in Address : Range(m_ProjectDeps[x]) \subseteq Opened
  BY DEF DepsInv, ArraysOK, Sound, Depends
<1>1. o \in Seq(Address)
  BY DEF Orders, Lists
<1>2. v[p][o] = AddOnce(fold, p)
  <2>1. v[p] = Body(v, p)
    BY DEF IsVisit
  <2> QED BY <1>1, <2>1 DEF Body
<1>3. /\ list \in Seq(Address) /\ n \in Nat /\ DOMAIN list = 1..n
      /\ \A i \in 1..n : list[i] \in Address /\ <<p, list[i]>> \in Depends /\ list[i] \in Opened
  <2>1. list \in Seq(Address) /\ Range(list) \subseteq Address /\ Range(list) \subseteq Opened
    BY <1>0, EdgesOf DEF Lists
  <2>2. \A d \in Address : d \in Range(list) => <<p, d>> \in Depends
    BY <1>0, EdgesOf DEF Depends
  <2>3. \A i \in DOMAIN list : list[i] \in Range(list)
    BY DEF Range
  <2> QED BY <2>1, <2>2, <2>3
<1>4. \A y \in Address : <<p, y>> \in Depends => \E i \in 1..n : y = list[i]
  <2>1. \A y \in Address : <<p, y>> \in Depends => y \in Range(list)
    BY <1>0, EdgesOf DEF Depends
  <2> QED BY <1>3, <2>1 DEF Range
<1> HIDE DEF list, n, fold
<1>5. o \in R[0]
  BY <1>3
<1>6. ASSUME NEW k \in 0..(n - 1), NEW acc \in R[k]
      PROVE  VisitOp(v, p, acc, list[k + 1]) \in R[k + 1]
  <2> DEFINE d == list[k + 1]
  <2>1. k \in Nat /\ k + 1 \in 1..n /\ k \in 0..n /\ k + 1 \in 0..n /\ d \in Address /\ <<p, d>> \in Depends /\ d \in Opened
    BY <1>3
  <2>2. acc \in Orders /\ Range(acc) = Range(o) \cup Of(k)
    BY <2>1
  <2>3. 1..(k + 1) = (1..k) \cup {k + 1}
    BY <2>1, OneMore
  <2>4. Of(k + 1) = Of(k) \cup A!Needed(Depends, d)
    BY <2>3
  <2> HIDE DEF d, Of
  <2>5. ~CausesCircularDependency(m_ProjectDeps, p, d)
    <3>1. p \notin A!Needed(Depends, d)
      BY <1>0, <2>1, A!NoWayBack
    <3> QED BY <1>0, <2>1, <3>1, CausesIsNeeded DEF Depends
  <2>6. v[d][acc] \in Orders /\ Range(v[d][acc]) = Range(acc) \cup A!Needed(Depends, d)
    BY <2>1, <2>2 DEF Visits
  <2>7. d \in Range(v[d][acc])
    BY <2>1, <2>6, A!NeededClosed
  <2>8. AddOnce(v[d][acc], d) = v[d][acc]
    BY <2>6, <2>7, ContainsRange DEF AddOnce, Orders, Lists
  <2>9. VisitOp(v, p, acc, d) = v[d][acc]
    BY <2>1, <2>5, <2>8 DEF VisitOp
  <2>10. Range(v[d][acc]) = Range(o) \cup Of(k + 1)
    BY <2>2, <2>4, <2>6
  <2>11. VisitOp(v, p, acc, d) \in R[k + 1]
    BY <2>1, <2>6, <2>9, <2>10
  <2> QED BY <2>11 DEF d
<1>7. fold \in Orders /\ Range(fold) = Range(o) \cup Of(n)
  <2>1. R[n] = {acc \in Orders : Range(acc) = Range(o) \cup Of(n)}
    BY <1>3
  <2> HIDE DEF R, Of
  <2>2. Visiting!Fold(v, p, o, list) \in R[Len(list)]
    BY <1>3, <1>5, <1>6, Visiting!FoldSteps DEF n
  <2> QED BY <2>1, <2>2 DEF fold, n
<1>8. Of(n) \cup {p} = A!Needed(Depends, p)
  <2>1. ASSUME NEW q \in Address PROVE q \in Of(n) \cup {p} <=> q \in A!Needed(Depends, p)
    <3>1. q \in A!Needed(Depends, p) <=> q = p \/ \E r \in Address : <<p, r>> \in Depends /\ q \in A!Needed(Depends, r)
      BY A!NeededStep
    <3> QED BY <1>3, <1>4, <3>1
  <2>2. Of(n) \cup {p} \subseteq Address /\ A!Needed(Depends, p) \subseteq Address
    BY DEF A!Needed
  <2> HIDE DEF Of
  <2> QED BY <2>1, <2>2
<1>9. \A y \in Address : <<p, y>> \in Depends => y \in Range(fold)
  <2>1. ASSUME NEW y \in Address, <<p, y>> \in Depends PROVE y \in Of(n)
    <3>1. PICK i \in 1..n : y = list[i]
      BY <1>4, <2>1
    <3>2. y \in A!Needed(Depends, list[i])
      BY <3>1, A!NeededClosed
    <3> QED BY <3>2
  <2> HIDE DEF Of
  <2> QED BY <1>7, <2>1
<1> HIDE DEF Of
<1> QED BY <1>2, <1>7, <1>8, <1>9, AddOnceKeeps

(* It does with every project: a least one with which it did not would      *)
(* depend on none of those.                                                 *)
LEMMA VisitIsRight ==
  ASSUME DepsInv, NEW p \in Address, NEW o \in Orders
  PROVE  /\ CalculateProjectDependencies(p, o) \in Orders
         /\ Range(CalculateProjectDependencies(p, o)) = Range(o) \cup A!Needed(Depends, p)
<1> DEFINE v == CHOOSE f : IsVisit(f)
           D == {x \in Address : ~Visits(v, x)}
<1>1. IsVisit(v)
  BY VisitExists
<1> HIDE DEF v
<1>2. D = {}
  <2> SUFFICES ASSUME D # {} PROVE FALSE
    OBVIOUS
  <2>1. PICK a \in D : \A b \in D : <<a, b>> \notin Depends
    <3>1. D \in SUBSET Address
      OBVIOUS
    <3> HIDE DEF D
    <3> QED BY <3>1 DEF DepsInv, ArraysOK, Sound, A!NoCycle, Depends
  <2>2. \A d \in Address : <<a, d>> \in Depends => Visits(v, d)
    BY <2>1
  <2>3. Visits(v, a)
    BY <1>1, <2>2, VisitStep
  <2> QED BY <2>3
<1>3. Visits(v, p)
  BY <1>2
<1>4. CalculateProjectDependencies(p, o) = v[p][o]
  BY TheVisit DEF v
<1> QED BY <1>3, <1>4 DEF Visits

(* The empty order.                                                         *)
LEMMA NoOrder == <<>> \in Orders /\ Range(<<>>) = {}
BY EmptyList DEF Orders

(* The order of the workspace has what any open project needs.              *)
LEMMA WorkspaceIsRight ==
  ASSUME DepsInv
  PROVE  /\ CalculateWorkspaceDependencies \in Orders
         /\ Range(CalculateWorkspaceDependencies) = UNION {A!Needed(Depends, p) : p \in Opened}
<1> DEFINE list == m_pProjects
           n == Len(list)
           Of(k) == UNION {A!Needed(Depends, list[i]) : i \in 1..k}
           R == [k \in 0..n |-> {acc \in Orders : Range(acc) = Of(k)}]
<1>1. list \in Seq(Address) /\ n \in Nat /\ DOMAIN list = 1..n
  BY DEF DepsInv, ProjectsOK, Lists
<1>2. <<>> \in R[0]
  BY <1>1, NoOrder
<1>3. ASSUME NEW k \in 0..(n - 1), NEW acc \in R[k]
      PROVE  ProjectsOp(0, 0, acc, list[k + 1]) \in R[k + 1]
  <2> DEFINE d == list[k + 1]
             new == CalculateProjectDependencies(d, acc)
  <2>1. k \in Nat /\ k + 1 \in 1..n /\ k \in 0..n /\ k + 1 \in 0..n /\ d \in Address
    BY <1>1
  <2>2. acc \in Orders /\ Range(acc) = Of(k)
    BY <2>1
  <2>3. 1..(k + 1) = (1..k) \cup {k + 1}
    BY <2>1, OneMore
  <2>4. Of(k + 1) = Of(k) \cup A!Needed(Depends, d)
    BY <2>3
  <2> HIDE DEF d, Of
  <2>5. new \in Orders /\ Range(new) = Of(k + 1)
    BY <2>1, <2>2, <2>4, VisitIsRight
  <2> HIDE DEF new
  <2>6. new \in R[k + 1]
    BY <2>1, <2>5
  <2> QED BY <2>6 DEF ProjectsOp, new, d
<1>4. R[n] = {acc \in Orders : Range(acc) = Of(n)}
  BY <1>1
<1>5. Of(n) = UNION {A!Needed(Depends, p) : p \in Opened}
  <2>1. Opened = {list[i] : i \in 1..n}
    BY <1>1 DEF Opened, Range
  <2> QED BY <2>1
<1> HIDE DEF R, Of
<1>6. Building!Fold(0, 0, <<>>, list) \in R[n]
  BY <1>1, <1>2, <1>3, Building!FoldSteps
<1> QED BY <1>4, <1>5, <1>6, TheBuild

(* What open projects need is open.                                         *)
LEMMA NeededOpened ==
  ASSUME DepsInv, NEW p \in Opened
  PROVE  A!Needed(Depends, p) \subseteq Opened
<1>1. Seen
  BY InvSeen
<1> DEFINE R == Opened \cap Address
<1>2. p \in R /\ R \in SUBSET Address
  BY <1>1 DEF Seen
<1>3. A!Closed(Depends, R)
  BY <1>1 DEF Seen, A!Closed, Depends
<1> HIDE DEF R
<1>4. A!Needed(Depends, p) \subseteq R
  BY <1>2, <1>3 DEF A!Needed
<1> QED BY <1>4 DEF R

(* What a project needs among the files it needs among the addresses.       *)
LEMMA NeededFiles ==
  ASSUME DepsInv, NEW p \in Opened, NEW q \in Opened
  PROVE  file[q] \in Graph!Needed(Relation, file[p]) <=> q \in A!Needed(Depends, p)
<1>1. /\ \A a \in Opened : a \in Address /\ file[a] \in File
      /\ \A a, b \in Opened : file[a] = file[b] => a = b
      /\ \A a, b \in Address : <<a, b>> \in Depends => b \in Opened
  BY InvSeen DEF Seen, Depends
<1>2. \A f, g \in File : <<f, g>> \in Relation <=>
        \E a, b \in Opened : f = file[a] /\ g = file[b] /\ <<a, b>> \in Depends
  BY InvSeen DEF Seen, Depends
<1> HIDE DEF Depends
<1>3. ASSUME q \in A!Needed(Depends, p), NEW R \in SUBSET File, file[p] \in R, Graph!Closed(Relation, R)
      PROVE  file[q] \in R
  <2> DEFINE S == {x \in Address : x \in Opened /\ file[x] \in R}
  <2>1. p \in S /\ S \in SUBSET Address
    BY <1>1, <1>3
  <2>2. ASSUME NEW x \in S, NEW y \in Address, <<x, y>> \in Depends PROVE y \in S
    <3>1. y \in Opened /\ <<file[x], file[y]>> \in Relation /\ file[y] \in File
      BY <1>1, <1>2, <2>2
    <3> QED BY <1>3, <2>2, <3>1 DEF Graph!Closed
  <2> HIDE DEF S
  <2>3. q \in S
    BY <1>3, <2>1, <2>2 DEF A!Needed, A!Closed
  <2> QED BY <2>3 DEF S
<1>4. ASSUME file[q] \in Graph!Needed(Relation, file[p]), NEW S \in SUBSET Address, p \in S, A!Closed(Depends, S)
      PROVE  q \in S
  <2> DEFINE R == {file[x] : x \in S \cap Opened}
  <2>1. file[p] \in R /\ R \in SUBSET File
    BY <1>1, <1>4
  <2>2. ASSUME NEW f \in R, NEW g \in File, <<f, g>> \in Relation PROVE g \in R
    <3>1. PICK x \in S \cap Opened : f = file[x]
      BY <2>2
    <3>2. f \in File
      BY <1>1, <3>1
    <3>3. PICK a \in Opened, b \in Opened : f = file[a] /\ g = file[b] /\ <<a, b>> \in Depends
      BY <1>2, <2>2, <3>2
    <3>4. a = x /\ a \in Address /\ b \in Address
      BY <1>1, <3>1, <3>3
    <3>5. b \in S
      BY <1>4, <3>1, <3>3, <3>4 DEF A!Closed
    <3> QED BY <3>3, <3>5
  <2> HIDE DEF R
  <2>3. Graph!Closed(Relation, R)
    BY <2>2 DEF Graph!Closed
  <2>4. file[q] \in R
    BY <1>4, <2>1, <2>3 DEF Graph!Needed
  <2>5. PICK x \in S \cap Opened : file[q] = file[x]
    BY <2>4 DEF R
  <2> QED BY <1>1, <2>5
<1>5. q \in Address /\ file[q] \in File
  BY <1>1
<1> QED BY <1>3, <1>4, <1>5 DEF A!Needed, Graph!Needed

(* Such lists are orders to build in.                                       *)
LEMMA OrderIsRight ==
  ASSUME DepsInv, NEW order \in Orders, NEW goals \in SUBSET Opened,
         Range(order) = UNION {A!Needed(Depends, p) : p \in goals}
  PROVE  RightOrder(order, goals) /\ Range(order) \subseteq Opened
<1> DEFINE Needs(p) == {q \in Opened : file[q] \in Graph!Needed(Relation, file[p])}
<1>1. \A p \in Opened : Needs(p) = A!Needed(Depends, p)
  <2>1. SUFFICES ASSUME NEW p \in Opened PROVE Needs(p) = A!Needed(Depends, p)
    OBVIOUS
  <2>2. A!Needed(Depends, p) \subseteq Opened
    BY NeededOpened
  <2>3. \A q \in Opened : q \in Needs(p) <=> q \in A!Needed(Depends, p)
    BY NeededFiles
  <2>4. Needs(p) \subseteq Opened
    OBVIOUS
  <2> HIDE DEF Needs
  <2> QED BY <2>2, <2>3, <2>4
<1>2. order \in Seq(Address) /\ IsInjective(order) /\ DOMAIN order = 1..Len(order)
  BY DEF Orders, Lists
<1>3. Range(order) \subseteq Opened
  BY NeededOpened
<1>4. Range(order) = UNION {Needs(p) : p \in goals}
  <2> HIDE DEF Needs
  <2>1. \A p \in goals : Needs(p) = A!Needed(Depends, p)
    BY <1>1
  <2> QED BY <2>1
<1>5. ASSUME NEW i \in DOMAIN order, NEW j \in DOMAIN order, order[j] \in Needs(order[i])
      PROVE  j <= i
  <2>1. order[i] \in Opened /\ order[i] \in Address /\ i \in Nat /\ j \in Nat
    BY <1>2, <1>3 DEF Range
  <2>2. order[j] \in A!Needed(Depends, order[i])
    <3> HIDE DEF Needs
    <3> QED BY <1>1, <1>5, <2>1
  <2> DEFINE S == {order[m] : m \in {l \in DOMAIN order : l <= i}}
  <2>3. order[i] \in S /\ S \in SUBSET Address
    BY <1>2, <2>1
  <2>4. ASSUME NEW x \in S, NEW y \in Address, <<x, y>> \in Depends PROVE y \in S
    <3>1. PICK m \in DOMAIN order : m <= i /\ x = order[m]
      BY <2>4
    <3>2. PICK l \in DOMAIN order : l < m /\ order[l] = y
      BY <2>4, <3>1 DEF Orders
    <3> QED BY <1>2, <2>1, <3>1, <3>2
  <2> HIDE DEF S
  <2>5. order[j] \in S
    BY <2>2, <2>3, <2>4 DEF A!Needed, A!Closed
  <2>6. PICK m \in DOMAIN order : m <= i /\ order[j] = order[m]
    BY <2>5 DEF S
  <2>7. j = m
    BY <1>2, <2>6 DEF IsInjective
  <2> QED BY <2>6, <2>7
<1> HIDE DEF Needs
<1> QED BY <1>2, <1>3, <1>4, <1>5 DEF RightOrder, Needs
-----------------------------------------------------------------------------
(* The jobs.                                                                *)

Job == [project : Address, target : STRING]

(* The jobs of one project are together.                                    *)
Together(jobs) ==
  \A i \in DOMAIN jobs, k \in DOMAIN jobs :
    jobs[i].project = jobs[k].project =>
      \A j \in i..k : jobs[j].project = jobs[i].project

Among(jobs, S) == \A i \in DOMAIN jobs : jobs[i].project \in S

(* A block of jobs of a project that had none.                              *)
LEMMA BlockKeeps ==
  ASSUME NEW u \in Seq(Job), NEW v \in Seq(Job), NEW S, NEW x, x \notin S,
         Together(u), Among(u, S), Among(v, {x})
  PROVE  u \o v \in Seq(Job) /\ Together(u \o v) /\ Among(u \o v, S \cup {x})
<1> DEFINE n == Len(u)
           m == Len(v)
           w == u \o v
<1>1. /\ n \in Nat /\ m \in Nat /\ DOMAIN u = 1..n /\ DOMAIN v = 1..m
      /\ w \in Seq(Job) /\ DOMAIN w = 1..(n + m)
  <2>1. w \in Seq(Job) /\ Len(w) = n + m
    BY ConcatLen
  <2> QED BY <2>1
<1>2. /\ \A i \in 1..n : w[i] = u[i]
      /\ \A i \in (n + 1)..(n + m) : w[i] = v[i - n] /\ i - n \in 1..m
  BY <1>1
<1> HIDE DEF n, m, w
<1>3. ASSUME NEW i \in 1..(n + m)
      PROVE  IF i \in 1..n THEN w[i] = u[i] /\ w[i].project \in S ELSE w[i].project = x
  <2>1. CASE i \in 1..n
    BY <1>1, <1>2, <2>1 DEF Among
  <2>2. CASE i \notin 1..n
    <3>1. i \in (n + 1)..(n + m)
      BY <1>1, <2>2
    <3> QED BY <1>1, <1>2, <2>2, <3>1 DEF Among
  <2> QED BY <2>1, <2>2
<1>4. Among(w, S \cup {x})
  BY <1>1, <1>3 DEF Among
<1>5. ASSUME NEW i \in 1..(n + m), NEW k \in 1..(n + m), w[i].project = w[k].project, NEW j \in i..k
      PROVE  w[j].project = w[i].project
  <2>1. j \in 1..(n + m) /\ i \in Nat /\ k \in Nat /\ j \in Nat /\ i <= j /\ j <= k
    BY <1>1
  <2>2. CASE i \in 1..n
    <3>1. k \in 1..n
      BY <1>3, <1>5, <2>2
    <3>2. j \in 1..n
      BY <1>1, <2>1, <3>1
    <3>3. u[i].project = u[k].project
      BY <1>2, <1>5, <2>2, <3>1
    <3>4. u[j].project = u[i].project
      BY <1>1, <2>1, <2>2, <3>1, <3>3 DEF Together
    <3> QED BY <1>2, <2>2, <3>2, <3>4
  <2>3. CASE i \notin 1..n
    <3>1. j \notin 1..n
      BY <1>1, <2>1, <2>3
    <3> QED BY <1>3, <2>1, <2>3, <3>1
  <2> QED BY <2>2, <2>3
<1>6. Together(w)
  BY <1>1, <1>5 DEF Together
<1> QED BY <1>1, <1>4, <1>6 DEF w

(* The jobs of an order have the targets of a project together.             *)
LEMMA JobsTogether ==
  ASSUME DepsInv, NEW order \in Lists(Address), Range(order) \subseteq Opened
  PROVE  Together(PreprocessJob(order))
<1> DEFINE n == Len(order)
           Done(k) == {order[i] : i \in 1..k}
           R == [k \in 0..n |-> {jobs \in Seq(Job) : Together(jobs) /\ Among(jobs, Done(k))}]
<1>1. order \in Seq(Address) /\ n \in Nat /\ DOMAIN order = 1..n /\ IsInjective(order)
  BY DEF Lists
<1>2. <<>> \in R[0]
  BY <1>1 DEF Together, Among
<1>3. ASSUME NEW k \in 0..(n - 1), NEW jobs \in R[k]
      PROVE  JobsOp(0, 0, jobs, order[k + 1]) \in R[k + 1]
  <2> DEFINE x == order[k + 1]
             new == JobsOf(x)
  <2>1. k \in Nat /\ k + 1 \in 1..n /\ k \in 0..n /\ k + 1 \in 0..n /\ x \in Address /\ x \in Opened
    BY <1>1 DEF Range
  <2>2. jobs \in Seq(Job) /\ Together(jobs) /\ Among(jobs, Done(k))
    BY <2>1
  <2>3. 1..(k + 1) = (1..k) \cup {k + 1}
    BY <2>1, OneMore
  <2>4. Done(k + 1) = Done(k) \cup {x}
    BY <2>3
  <2>5. x \notin Done(k)
    <3>1. \A i \in 1..k : i \in DOMAIN order /\ i # k + 1
      BY <1>1
    <3> QED BY <1>1, <2>1, <3>1 DEF IsInjective
  <2> HIDE DEF x, Done
  <2>6. new \in Seq(Job) /\ Among(new, {x})
    <3> DEFINE list == Targets[file[x]]
    <3>1. file[x] \in File
      BY <2>1, InvSeen DEF Seen
    <3>2. Targets \in [File -> Seq(STRING)]
      BY DepsAssumption
    <3>3. list \in Seq(STRING)
      BY <3>1, <3>2
    <3> HIDE DEF list
    <3>4. DOMAIN list = 1..Len(list) /\ Len(list) \in Nat /\ \A j \in DOMAIN list : list[j] \in STRING
      BY <3>3
    <3>5. new = [j \in DOMAIN list |-> [project |-> x, target |-> list[j]]]
      BY DEF JobsOf, list
    <3>6. \A j \in DOMAIN list : [project |-> x, target |-> list[j]] \in Job
      BY <2>1, <3>4 DEF Job
    <3>7. new \in Seq(Job)
      BY <3>4, <3>5, <3>6
    <3>8. \A j \in DOMAIN new : new[j].project = x
      BY <3>5
    <3> QED BY <3>7, <3>8 DEF Among
  <2> HIDE DEF new
  <2>7. /\ jobs \o new \in Seq(Job) /\ Together(jobs \o new)
        /\ Among(jobs \o new, Done(k) \cup {x})
    BY <2>2, <2>5, <2>6, BlockKeeps
  <2>8. jobs \o new \in R[k + 1]
    BY <2>1, <2>4, <2>7
  <2> QED BY <2>8 DEF JobsOp, new, x
<1>4. R[n] \subseteq {jobs \in Seq(Job) : Together(jobs)}
  BY <1>1
<1> HIDE DEF R
<1>5. Preprocessing!Fold(0, 0, <<>>, order) \in R[n]
  BY <1>1, <1>2, <1>3, Preprocessing!FoldSteps
<1> QED BY <1>4, <1>5, TheBuild

(* All orders the compiler plugin computes are right.                       *)
LEMMA InvBuilds == DepsInv => BuildsInOrder
<1> SUFFICES ASSUME DepsInv PROVE BuildsInOrder
  OBVIOUS
<1>1. ASSUME NEW order \in Orders, NEW goals \in SUBSET Opened,
             Range(order) = UNION {A!Needed(Depends, p) : p \in goals}
      PROVE  RightOrder(order, goals) /\ Together(PreprocessJob(order))
  <2>1. RightOrder(order, goals) /\ Range(order) \subseteq Opened
    BY <1>1, OrderIsRight
  <2>2. order \in Lists(Address)
    BY DEF Orders
  <2> QED BY <2>1, <2>2, JobsTogether
<1>2. /\ RightOrder(CalculateWorkspaceDependencies, Opened)
      /\ Together(PreprocessJob(CalculateWorkspaceDependencies))
  BY <1>1, WorkspaceIsRight
<1>3. ASSUME NEW p \in Opened
      PROVE  /\ RightOrder(CalculateProjectDependencies(p, <<>>), {p})
             /\ Together(PreprocessJob(CalculateProjectDependencies(p, <<>>)))
  <2>1. p \in Address
    BY InvSeen DEF Seen
  <2>2. /\ CalculateProjectDependencies(p, <<>>) \in Orders
        /\ Range(CalculateProjectDependencies(p, <<>>)) = A!Needed(Depends, p)
    BY <2>1, NoOrder, VisitIsRight
  <2>3. {p} \in SUBSET Opened /\ A!Needed(Depends, p) = UNION {A!Needed(Depends, q) : q \in {p}}
    OBVIOUS
  <2> QED BY <1>1, <2>2, <2>3
<1> QED BY <1>2, <1>3 DEF BuildsInOrder, Together

(* A build does all and only the targets that are needed, a project after   *)
(* those it depends on and all targets of one together, whatever the        *)
(* projects and their targets and with every mishap of addresses.           *)
THEOREM BuildOrder == Spec => []BuildsInOrder
BY Invariant, InvBuilds, PTL
=============================================================================
