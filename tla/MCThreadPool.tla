---------------------------- MODULE MCThreadPool ----------------------------
(* Model values for ThreadPool.  Tasks are interchangeable: the code only   *)
(* compares and moves them, so they form a symmetry set (safety runs only). *)
EXTENDS ThreadPool, TLC

CONSTANTS t1, t2, t3

MCTask == {t1, t2, t3}
MCTwoTasks == {t1, t2}
MCOneTask == {t1}
TaskSymmetry == Permutations(MCTask) \cup Permutations(MCTwoTasks)
=============================================================================
