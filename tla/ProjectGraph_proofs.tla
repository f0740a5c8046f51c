------------------------ MODULE ProjectGraph_proofs ------------------------
(* The abstract dependency graph never has a cycle, whatever the projects.  *)
EXTENDS ProjectGraph, TLAPS

(* Fewer dependencies cannot have a cycle where more have none.             *)
LEMMA FewerNoCycle ==
  ASSUME NEW E, NEW F, F \subseteq E, NoCycle(E)
  PROVE  NoCycle(F)
BY DEF NoCycle

(* What is needed by q is closed under the dependencies, and has q.         *)
LEMMA NeededClosed ==
  ASSUME NEW E, NEW q \in Projects
  PROVE  q \in Needed(E, q) /\ Closed(E, Needed(E, q))
<1>1. q \in Needed(E, q)
  BY DEF Needed
<1>2. ASSUME NEW a \in Needed(E, q), NEW b \in Projects, <<a, b>> \in E
      PROVE  b \in Needed(E, q)
  BY <1>2 DEF Needed, Closed
<1> QED BY <1>1, <1>2 DEF Closed

(* More dependencies need no less.                                          *)
LEMMA NeededMore ==
  ASSUME NEW E, NEW F, E \subseteq F, NEW q \in Projects
  PROVE  Needed(E, q) \subseteq Needed(F, q)
BY DEF Needed, Closed

(* What is needed by what q needs, q needs.                                 *)
LEMMA NeededTransitive ==
  ASSUME NEW E, NEW q \in Projects, NEW r \in Needed(E, q)
  PROVE  Needed(E, r) \subseteq Needed(E, q)
BY DEF Needed

(* A project is needed by itself and by what depends on a project that      *)
(* needs it, and by no other.                                               *)
LEMMA NeededStep ==
  ASSUME NEW E, NEW p \in Projects, NEW q \in Projects
  PROVE  q \in Needed(E, p) <=>
           q = p \/ \E r \in Projects : <<p, r>> \in E /\ q \in Needed(E, r)
<1>1. ASSUME q \in Needed(E, p), q # p,
             \A r \in Projects : <<p, r>> \in E => q \notin Needed(E, r)
      PROVE  FALSE
  <2> DEFINE R == {x \in Projects : x = p \/ \E r \in Projects : <<p, r>> \in E /\ x \in Needed(E, r)}
  <2>1. p \in R /\ q \notin R /\ R \in SUBSET Projects
    BY <1>1
  <2>2. ASSUME NEW a \in R, NEW b \in Projects, <<a, b>> \in E
        PROVE  b \in R
    <3>1. CASE a = p
      <4>1. b \in Needed(E, b)
        BY NeededClosed
      <4> QED BY <2>2, <3>1, <4>1
    <3>2. CASE a # p
      <4>1. PICK r \in Projects : <<p, r>> \in E /\ a \in Needed(E, r)
        BY <3>2
      <4>2. b \in Needed(E, r)
        BY <2>2, <4>1, NeededClosed DEF Closed
      <4> QED BY <4>1, <4>2
    <3> QED BY <3>1, <3>2
  <2> HIDE DEF R
  <2>3. Closed(E, R)
    BY <2>2 DEF Closed
  <2> QED BY <1>1, <2>1, <2>3 DEF Needed
<1>2. q = p => q \in Needed(E, p)
  BY NeededClosed
<1>3. ASSUME NEW r \in Projects, <<p, r>> \in E, q \in Needed(E, r)
      PROVE  q \in Needed(E, p)
  <2>1. r \in Needed(E, p)
    BY <1>3, NeededClosed DEF Closed
  <2> QED BY <1>3, <2>1, NeededTransitive
<1> QED BY <1>1, <1>2, <1>3

(* Where there is no cycle, nothing that p depends on needs p.              *)
LEMMA NoWayBack ==
  ASSUME NEW E, NoCycle(E), NEW p \in Projects, NEW t \in Projects, <<p, t>> \in E
  PROVE  p \notin Needed(E, t)
<1> SUFFICES ASSUME p \in Needed(E, t) PROVE FALSE
  OBVIOUS
<1> DEFINE S == {r \in Needed(E, t) : p \in Needed(E, r)}
<1>1. t \in S /\ S \in SUBSET Projects
  BY NeededClosed DEF Needed
<1>2. ASSUME NEW r \in S PROVE \E s \in S : <<r, s>> \in E
  <2>1. r \in Projects
    BY <1>1
  <2>2. CASE r = p
    BY <1>1, <2>2
  <2>3. CASE r # p
    <3>1. PICK s \in Projects : <<r, s>> \in E /\ p \in Needed(E, s)
      BY <2>1, <2>3, NeededStep
    <3>2. s \in Needed(E, t)
      BY <3>1, NeededClosed DEF Closed
    <3> QED BY <3>1, <3>2
  <2> QED BY <2>2, <2>3
<1> QED BY <1>1, <1>2 DEF NoCycle

(* The heart of AddProjectDependency's check: new dependencies of p on      *)
(* projects that do not need p close no cycle.  A set T in which everyone   *)
(* depends on someone would, cut down to what one of the new dependencies   *)
(* needs, be such a set before.                                             *)
LEMMA DependNoCycle ==
  ASSUME NEW E, NEW p \in Projects, NEW T \in SUBSET Projects, NoCycle(E),
         \A t \in T : p \notin Needed(E, t)
  PROVE  NoCycle(E \cup ({p} \X T))
<1> DEFINE New == E \cup ({p} \X T)
<1> SUFFICES ASSUME NEW S \in SUBSET Projects, S # {},
                    \A a \in S : \E b \in S : <<a, b>> \in New
             PROVE  FALSE
  BY DEF NoCycle
<1>1. CASE \A a \in S : \E b \in S : <<a, b>> \in E
  BY <1>1 DEF NoCycle
<1>2. CASE ~ \A a \in S : \E b \in S : <<a, b>> \in E
  <2>1. PICK a \in S : \A b \in S : <<a, b>> \notin E
    BY <1>2
  <2>2. PICK t \in S : <<a, t>> \in {p} \X T
    BY <2>1
  <2>3. t \in T /\ t \in Projects
    BY <2>2
  <2> DEFINE R == Needed(E, t)
  <2>4. t \in R /\ Closed(E, R) /\ p \notin R
    BY <2>3, NeededClosed
  <2>5. ASSUME NEW x \in S \cap R
        PROVE  \E y \in S \cap R : <<x, y>> \in E
    <3>1. PICK y \in S : <<x, y>> \in New
      OBVIOUS
    <3>2. x # p
      BY <2>4
    <3>3. <<x, y>> \in E
      BY <3>1, <3>2
    <3>4. y \in R
      BY <2>4, <3>3 DEF Closed
    <3> QED BY <3>3, <3>4
  <2>6. S \cap R \in SUBSET Projects /\ S \cap R # {}
    BY <2>2, <2>4
  <2> QED BY <2>5, <2>6 DEF NoCycle
<1> QED BY <1>1, <1>2

(* The workspace file has no cycle either: it was written from a state.     *)
GraphInv == TypeOK /\ Acyclic /\ NoCycle(saved.edges)

LEMMA InitGraph == Init => GraphInv
BY DEF Init, GraphInv, TypeOK, Acyclic, NoCycle

LEMMA StepGraph == GraphInv /\ [Next]_vars => GraphInv'
<1> SUFFICES ASSUME GraphInv, [Next]_vars PROVE GraphInv'
  OBVIOUS
<1> USE DEF GraphInv
<1>1. ASSUME NEW p \in Projects, Open(p) PROVE GraphInv'
  BY <1>1 DEF Open, TypeOK, Acyclic
<1>2. ASSUME NEW p \in Projects, Close(p) PROVE GraphInv'
  <2>1. edges' \subseteq edges /\ edges' \subseteq open' \X open'
    BY <1>2 DEF Close, Among, TypeOK
  <2>2. NoCycle(edges')
    BY <2>1, FewerNoCycle DEF Acyclic
  <2> QED BY <1>2, <2>1, <2>2 DEF Close, TypeOK, Acyclic
<1>3. ASSUME NEW p \in Projects, NEW T \in SUBSET open, Depend(p, T) PROVE GraphInv'
  <2> DEFINE others == {e \in edges : e[1] # p}
  <2>1. NoCycle(others)
    BY FewerNoCycle DEF Acyclic
  <2>2. NoCycle(others \cup ({p} \X T))
    <3>1. T \in SUBSET Projects
      BY DEF TypeOK
    <3> QED BY <1>3, <2>1, <3>1, DependNoCycle DEF Depend
  <2>3. edges' = others \cup ({p} \X T) /\ open' = open /\ saved' = saved /\ p \in open
    BY <1>3 DEF Depend
  <2>4. TypeOK'
    BY <2>3 DEF TypeOK
  <2> QED BY <2>2, <2>3, <2>4 DEF Acyclic
<1>4. ASSUME Save PROVE GraphInv'
  BY <1>4 DEF Save, TypeOK, Acyclic
<1>5. ASSUME NEW missing \in SUBSET Projects, Load(missing) PROVE GraphInv'
  <2>1. edges' \subseteq saved.edges /\ edges' \subseteq open' \X open' /\ open' \in SUBSET Projects
    BY <1>5 DEF Load, Among, TypeOK
  <2>2. NoCycle(edges')
    BY <2>1, FewerNoCycle
  <2> QED BY <1>5, <2>1, <2>2 DEF Load, TypeOK, Acyclic
<1>6. CASE UNCHANGED vars
  BY <1>6 DEF vars, TypeOK, Acyclic
<1> QED BY <1>1, <1>2, <1>3, <1>4, <1>5, <1>6 DEF Next

(* Opening, closing and reloading projects, changing their dependencies,    *)
(* saving and opening workspaces: no sequence of them makes a cycle.        *)
THEOREM GraphIsAcyclic == Spec => []Acyclic
<1>1. GraphInv => Acyclic
  BY DEF GraphInv
<1> QED BY InitGraph, StepGraph, <1>1, PTL DEF Spec
=============================================================================
