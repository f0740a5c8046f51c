---------------------------- MODULE ProjectDeps ----------------------------
(***************************************************************************)
(* The dependencies between the open projects (sdk/projectmanager.cpp),    *)
(* the workspace file that keeps them (sdk/workspaceloader.cpp) and the    *)
(* build order the compiler plugin computes from them                      *)
(* (plugins/compilergcc/compilergcc.cpp).                                  *)
(*                                                                         *)
(* The code refers to a project by its address, and keeps the dependencies *)
(* in a map from addresses to arrays of addresses.  Closing a project      *)
(* deletes the object but leaves its own array in the map, so an address   *)
(* may outlive its project; a reload closes a project and loads its file   *)
(* into an object at another address.                                      *)
(***************************************************************************)
EXTENDS Integers, FiniteSets, SequencesExt

CONSTANTS
  Address,   \* where cbProject objects may be
  File,      \* project files
  NoFile,    \* the file of no object
  Targets,   \* the targets of each that a build finds: sequences of names
  MaxSaved,  \* bound on the projects of a workspace file
  Mishaps    \* "reuse": an object may get the address of a deleted one that
             \* had dependencies; "orphan": a project is reloaded while the
             \* array of a deleted one names it

ASSUME DepsAssumption == /\ Targets \in [File -> Seq(STRING)] /\ NoFile \notin File /\ MaxSaved \in Nat
                        /\ IsFiniteSet(Address)

VARIABLES
  m_pProjects,     \* addresses of the open projects, in the order of the tree
  file,            \* the project file of the object at an address
  m_ProjectDeps,   \* the arrays; an address without one has <<>>
  workspace        \* the workspace file: [file, deps] of each project

vars == <<m_pProjects, file, m_ProjectDeps, workspace>>

Opened == Range(m_pProjects)

(* The members of a list that are in S, in their order.                     *)
Those(list, S) == FoldLeft(LAMBDA acc, x : IF x \in S THEN Append(acc, x) ELSE acc, <<>>, list)

Init ==
  /\ m_pProjects = <<>>
  /\ file = [a \in Address |-> NoFile]
  /\ m_ProjectDeps = [a \in Address |-> <<>>]
  /\ workspace = <<>>
-----------------------------------------------------------------------------
(* The recursion ends because the dependencies have no cycle.               *)
CausesCircularDependency(deps, base, dependsOn) ==
  LET Reaches[p \in Address] == p = base \/ \E q \in Range(deps[p]) : Reaches[q]
  IN Reaches[dependsOn]

(* Mutant of AddProjectDependency: added again where it is there.           *)
AddProjectDependencyAgain(deps, base, dependsOn) ==
  IF CausesCircularDependency(deps, base, dependsOn) THEN deps
  ELSE [deps EXCEPT ![base] = Append(@, dependsOn)]
AddProjectDependency(deps, base, dependsOn) ==
  IF CausesCircularDependency(deps, base, dependsOn) \/ Contains(deps[base], dependsOn)
  THEN deps ELSE [deps EXCEPT ![base] = Append(@, dependsOn)]

AddAll(deps, base, wanted) ==
  FoldLeft(LAMBDA acc, d : AddProjectDependency(acc, base, d), deps, wanted)

(* Its own array is left alone.                                             *)
RemoveProjectFromAllDependencies(deps, base) ==
  [a \in Address |-> IF a = base THEN deps[a] ELSE RemoveFirst(deps[a], base)]

Dependents(p) == {a \in Address \ {p} : Contains(m_ProjectDeps[a], p)}

(* The address of a new object.                                             *)
Free(a, projects, deps) ==
  a \notin Range(projects) /\ (deps[a] = <<>> \/ "reuse" \in Mishaps)
-----------------------------------------------------------------------------
LoadProject(a, f) ==
  /\ Free(a, m_pProjects, m_ProjectDeps)
  /\ \A b \in Opened : file[b] # f
  /\ m_pProjects' = Append(m_pProjects, a)
  /\ file' = [file EXCEPT ![a] = f]
  /\ UNCHANGED <<m_ProjectDeps, workspace>>

CloseProject(a) ==
  /\ a \in Opened
  /\ m_ProjectDeps' = RemoveProjectFromAllDependencies(m_ProjectDeps, a)
  /\ m_pProjects' = RemoveFirst(m_pProjects, a)
  /\ file' = [file EXCEPT ![a] = NoFile]
  /\ UNCHANGED workspace

(* Mutant of ReloadedDeps: the projects that depend on it are forgotten.    *)
ReloadedDepsOwn(a, b) ==
  AddAll(RemoveProjectFromAllDependencies(m_ProjectDeps, a), b, m_ProjectDeps[a])
ReloadedDeps(a, b) ==
  LET closed == RemoveProjectFromAllDependencies(m_ProjectDeps, a)
      own    == AddAll(closed, b, m_ProjectDeps[a])
  IN FoldLeft(LAMBDA acc, d : AddProjectDependency(acc, d, b), own,
              SetToSeq(Dependents(a)))

(* The project of a is closed and its file loaded again, at b, in its old   *)
(* place.                                                                   *)
ReloadProject(a, b) ==
  /\ a \in Opened
  /\ Dependents(a) \subseteq Opened \/ "orphan" \in Mishaps
  /\ Free(b, RemoveFirst(m_pProjects, a), RemoveProjectFromAllDependencies(m_ProjectDeps, a))
  /\ m_ProjectDeps' = ReloadedDeps(a, b)
  /\ m_pProjects' = [i \in DOMAIN m_pProjects |-> IF m_pProjects[i] = a THEN b ELSE m_pProjects[i]]
  /\ file' = [file EXCEPT ![a] = NoFile, ![b] = file[a]]
  /\ UNCHANGED workspace

(* The dialog clears the list of a project and enters it anew, up to the    *)
(* first dependency that is refused.                                        *)
SaveList(a, checked) ==
  LET cleared == [m_ProjectDeps EXCEPT ![a] = <<>>]
      listed  == Those(m_pProjects, checked)
      refused == {i \in DOMAIN listed : CausesCircularDependency(cleared, a, listed[i])}
      entered == IF refused = {} THEN listed
                 ELSE SubSeq(listed, 1, (CHOOSE i \in refused : \A j \in refused : i <= j) - 1)
  IN /\ a \in Opened /\ checked \subseteq Opened \ {a}
     /\ m_ProjectDeps' = AddAll(cleared, a, entered)
     /\ UNCHANGED <<m_pProjects, file, workspace>>

(* Scripts change one dependency at a time.                                 *)
AddDependency(a, b) ==
  /\ {a, b} \subseteq Opened
  /\ m_ProjectDeps' = AddProjectDependency(m_ProjectDeps, a, b)
  /\ UNCHANGED <<m_pProjects, file, workspace>>

RemoveProjectDependency(a, b) ==
  /\ {a, b} \subseteq Opened
  /\ m_ProjectDeps' = [m_ProjectDeps EXCEPT ![a] = RemoveFirst(@, b)]
  /\ UNCHANGED <<m_pProjects, file, workspace>>

SaveWorkspace ==
  /\ Len(m_pProjects) <= MaxSaved
  /\ workspace' = [i \in DOMAIN m_pProjects |->
                     LET p == m_pProjects[i]
                     IN [file |-> file[p],
                         deps |-> [j \in DOMAIN m_ProjectDeps[p] |-> file[m_ProjectDeps[p][j]]]]]
  /\ UNCHANGED <<m_pProjects, file, m_ProjectDeps>>

(* The open projects are closed, those of the workspace file that can be    *)
(* opened are, and then their dependencies are entered.  By then no array   *)
(* is left in the map, so that which addresses the objects get makes no     *)
(* difference.                                                              *)
LoadWorkspace(missing) ==
  LET closed == FoldLeft(RemoveProjectFromAllDependencies, m_ProjectDeps, m_pProjects)
      found  == Those(workspace, {e \in Range(workspace) : e.file \notin missing})
      files  == {found[i].file : i \in DOMAIN found}
      at     == CHOOSE at \in [files -> Address] : IsInjective(at)
      Objects(fs) == [i \in DOMAIN fs |-> at[fs[i]]]
      Enter(acc, e) ==
        AddAll(acc, at[e.file], Objects(Those(e.deps, files)))
  IN /\ m_pProjects' = [i \in DOMAIN found |-> at[found[i].file]]
     /\ file' = [a \in Address |-> IF a \in Range(at) THEN AntiFunction(at)[a] ELSE NoFile]
     /\ m_ProjectDeps' = FoldLeft(Enter, closed, found)
     /\ UNCHANGED workspace
-----------------------------------------------------------------------------
AddOnce(order, p) == IF Contains(order, p) THEN order ELSE Append(order, p)

(* Mutant of CalculateProjectDependencies: a project before those it needs. *)
CalculateProjectDependenciesFirst(prj, deps) ==
  LET Visit[p \in Address] ==
        [order \in Seq(Address) |->
           FoldLeft(LAMBDA acc, d : Visit[d][acc], AddOnce(order, p), m_ProjectDeps[p])]
  IN Visit[prj][deps]
(* The projects to build for prj, added to those of `deps'.                 *)
CalculateProjectDependencies(prj, deps) ==
  LET Visit[p \in Address] ==
        LET Enter(acc, d) ==
              IF CausesCircularDependency(m_ProjectDeps, p, d) THEN acc
              ELSE IF d \in Opened THEN AddOnce(Visit[d][acc], d) ELSE Visit[d][acc]
        IN [order \in Seq(Address) |-> AddOnce(FoldLeft(Enter, order, m_ProjectDeps[p]), p)]
  IN Visit[prj][deps]

CalculateWorkspaceDependencies ==
  FoldLeft(LAMBDA acc, p : CalculateProjectDependencies(p, acc), <<>>, m_pProjects)

(* The jobs of a build: the targets of the projects, in their order.        *)
JobsOf(p) == [j \in DOMAIN Targets[file[p]] |-> [project |-> p, target |-> Targets[file[p]][j]]]
PreprocessJob(deps) == FoldLeft(LAMBDA jobs, p : jobs \o JobsOf(p), <<>>, deps)
-----------------------------------------------------------------------------
Next ==
  \/ \E a \in Address :
       \/ \E f \in File : LoadProject(a, f)
       \/ CloseProject(a)
       \/ \E b \in Address : \/ ReloadProject(a, b)
                             \/ AddDependency(a, b)
                             \/ RemoveProjectDependency(a, b)
       \/ \E checked \in SUBSET Opened : SaveList(a, checked)
  \/ SaveWorkspace
  \/ \E missing \in SUBSET {workspace[i].file : i \in DOMAIN workspace} : LoadWorkspace(missing)

Spec == Init /\ [][Next]_vars
-----------------------------------------------------------------------------
(* Every variable keeps its type; no open project is listed twice, and an  *)
(* array names open projects only, each once.                              *)
TypeOK ==
  /\ m_pProjects \in Seq(Address) /\ IsInjective(m_pProjects)
  /\ \A a \in Address : file[a] \in IF a \in Opened THEN File ELSE {NoFile}
  /\ \A a \in Address : /\ m_ProjectDeps[a] \in Seq(Address) /\ IsInjective(m_ProjectDeps[a])
                        /\ Range(m_ProjectDeps[a]) \subseteq Opened
  /\ workspace \in Seq([file : File, deps : Seq(File)])

(* The dependencies as a relation on project files, which is what the user  *)
(* sees, closed projects left out.                                          *)
Relation == UNION {{<<file[a], file[b]>> : b \in Opened \cap Range(m_ProjectDeps[a])} : a \in Opened}
Written == UNION {{<<workspace[i].file, f>> : f \in Range(workspace[i].deps)} :
                    i \in DOMAIN workspace}

Graph == INSTANCE ProjectGraph WITH
  Projects <- File,
  open  <- {file[a] : a \in Opened},
  edges <- Relation,
  saved <- [open |-> {workspace[i].file : i \in DOMAIN workspace}, edges |-> Written]

(* Whatever arrays the code keeps, of open and of deleted projects, the     *)
(* user sees the graph ProjectGraph describes: it has no cycle, a closed    *)
(* project leaves nothing behind for the next one, a reload and a workspace *)
(* file lose no dependency (projectmanager.cpp:835-877, 1624-1769).         *)
ImplementsGraph == Graph!Spec

(* The order to build p in is right: it has the projects p needs, each      *)
(* once, each after those it needs itself.                                  *)
RightOrder(order, goals) ==
  LET Needs(p) == {q \in Opened : file[q] \in Graph!Needed(Relation, file[p])}
  IN /\ IsInjective(order)
     /\ Range(order) = UNION {Needs(p) : p \in goals}
     /\ \A i, j \in DOMAIN order : order[j] \in Needs(order[i]) => j <= i

(* A build does all and only the targets that are needed, a project after   *)
(* those it depends on and all targets of one together, as the state        *)
(* machine of the build expects (compilergcc.cpp:2199-2206, 2483-2690).     *)
BuildsInOrder ==
  LET Right(order, goals) ==
        LET jobs == PreprocessJob(order)
        IN /\ RightOrder(order, goals)
           /\ \A i \in DOMAIN jobs, k \in DOMAIN jobs :
                jobs[i].project = jobs[k].project =>
                  \A j \in i..k : jobs[j].project = jobs[i].project
  IN /\ Right(CalculateWorkspaceDependencies, Opened)
     /\ \A p \in Opened : Right(CalculateProjectDependencies(p, <<>>), {p})

(* A dependency is entered for projects that are open only: the pointers    *)
(* passed to AddProjectDependency are to projects, not to deleted ones      *)
(* (projectmanager.cpp:841-875).                                            *)
OnlyOpenDepend ==
  [][\A a \in Address : Range(m_ProjectDeps'[a]) \ Range(m_ProjectDeps[a]) # {} =>
       a \in Range(m_pProjects')]_vars
=============================================================================
