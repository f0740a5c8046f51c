---------------------------- MODULE ProjectGraph ----------------------------
(***************************************************************************)
(* What the project manager promises of the dependencies between projects: *)
(* a relation on the open projects that never has a cycle, that only the   *)
(* user's own edits change, that loses what concerns a project when it is  *)
(* closed and nothing when it is reloaded, and that a workspace file keeps.*)
(***************************************************************************)
EXTENDS Integers

CONSTANT Projects

VARIABLES
  open,    \* the open projects
  edges,   \* <<a, b>>: a depends on b
  saved    \* the workspace file: [open, edges]

vars == <<open, edges, saved>>

Init == open = {} /\ edges = {} /\ saved = [open |-> {}, edges |-> {}]

(* Nothing leaves R along a dependency in E.                                *)
Closed(E, R) == \A a \in R, b \in Projects : <<a, b>> \in E => b \in R

(* The projects that p depends on, directly or not, and p itself.           *)
Needed(E, p) == {q \in Projects : \A R \in SUBSET Projects : p \in R /\ Closed(E, R) => q \in R}

Among(E, S) == {e \in E : e[1] \in S /\ e[2] \in S}

Open(p) ==
  /\ p \notin open
  /\ open' = open \cup {p}
  /\ UNCHANGED <<edges, saved>>

Close(p) ==
  /\ p \in open
  /\ open' = open \ {p}
  /\ edges' = Among(edges, open')
  /\ UNCHANGED saved

(* The user decides what p depends on; a dependency that would close a      *)
(* cycle is not accepted.                                                   *)
Depend(p, T) ==
  LET others == {e \in edges : e[1] # p}
  IN /\ p \in open /\ T \subseteq open
     /\ \A t \in T : p \notin Needed(others, t)
     /\ edges' = others \cup ({p} \X T)
     /\ UNCHANGED <<open, saved>>

Save ==
  /\ saved' = [open |-> open, edges |-> edges]
  /\ UNCHANGED <<open, edges>>

(* A workspace is opened in the place of the one that is open; the projects *)
(* of `missing' cannot be.                                                  *)
Load(missing) ==
  /\ open' = saved.open \ missing
  /\ edges' = Among(saved.edges, open')
  /\ UNCHANGED saved

Next ==
  \/ \E p \in Projects : Open(p) \/ Close(p) \/ (\E T \in SUBSET open : Depend(p, T))
  \/ Save
  \/ \E missing \in SUBSET Projects : Load(missing)

Spec == Init /\ [][Next]_vars
-----------------------------------------------------------------------------
TypeOK ==
  /\ open \in SUBSET Projects
  /\ edges \subseteq open \X open
  /\ saved \in [open : SUBSET Projects, edges : SUBSET (Projects \X Projects)]

(* Every set of projects has one that depends on none of the others: there  *)
(* is an order to build them in.                                            *)
NoCycle(E) ==
  \A S \in SUBSET Projects : S # {} => \E a \in S : \A b \in S : <<a, b>> \notin E

(* The dependencies never have a cycle (projectmanager.cpp:1654).           *)
Acyclic == NoCycle(edges)
=============================================================================
