------------------------------ MODULE MCWatDFSServer ------------------------------
(* Symmetry, and a view, for the model checking of WatDFSServer. *)
EXTENDS WatDFSServer, TLC

ServerSymmetry == Permutations(Clients) \cup Permutations(FD) \cup Permutations(Locks)

\* Modification times only end up in stat's answer: states that differ in nothing
\* else go on alike.
WithoutTimes ==
    <<[p \in DOMAIN files |-> files[p].data], openFilesStatus_s, lk, waiting, errno, fds, now>>
================================================================================
