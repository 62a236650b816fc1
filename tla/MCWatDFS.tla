-------------------------------- MODULE MCWatDFS --------------------------------
(* Symmetry and the bounds on data for the model checking of WatDFS. *)
EXTENDS WatDFS, TLC

CONSTANT a      \* a byte that applications write

MCWriteData == {<<a>>}

WatDFSSymmetry == Permutations(Clients) \cup Permutations(FD) \cup Permutations(Locks)
================================================================================
