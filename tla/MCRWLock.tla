-------------------------------- MODULE MCRWLock --------------------------------
(* Symmetry for the model checking of RWLock: threads of one kind are alike. *)
EXTENDS RWLock, TLC

ThreadSymmetry == Permutations(Readers) \cup Permutations(Writers)
================================================================================
