--------------------------- MODULE MCProjectDeps ---------------------------
(* Small instances of ProjectDeps for TLC.  Addresses are interchangeable,  *)
(* and files too, all having the same targets.                              *)
EXTENDS ProjectDeps

CONSTANTS a1, a2, a3, a4, f1, f2, f3

FourAddresses == {a1, a2, a3, a4}
TwoFiles   == {f1, f2}
ThreeFiles == {f1, f2, f3}

MCTargets == [f \in File |-> <<"debug", "release">>]
MCSymmetry == Permutations(Address) \cup Permutations(File)
=============================================================================
