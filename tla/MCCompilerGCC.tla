--------------------------- MODULE MCCompilerGCC ---------------------------
(* Small instances of CompilerGCC for TLC.                                  *)
EXTENDS CompilerGCC

CONSTANTS p1, p2

OneTarget  == <<[project |-> p1, target |-> "a"]>>
TwoTargets == <<[project |-> p1, target |-> "a"], [project |-> p1, target |-> "b"]>>
TwoProjects == <<[project |-> p1, target |-> "a"], [project |-> p2, target |-> "a"]>>

Linked   == {<<>>, <<"cc", "log", "cc2", "cc after", "link">>}
Unlinked == {<<>>, <<"cc", "cc2">>}

MCMenu  == {"build", "build and run", "clean", "rebuild", "build workspace",
            "clean workspace", "rebuild workspace", "run", "compile file", "abort"}
BuildMenu == MCMenu \ {"run", "build and run"}
BuildOnly == {"build"}
BuildAbort == {"build", "abort"}
=============================================================================
