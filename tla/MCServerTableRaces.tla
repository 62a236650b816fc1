---------------------------- MODULE MCServerTableRaces ----------------------------
(* Symmetry and a bound for the model checking of ServerTableRaces. *)
EXTENDS ServerTableRaces, TLC

RaceSymmetry ==
    Permutations(Clients) \cup Permutations(FD) \cup Permutations(Locks) \cup Permutations(Paths)

\* Once a call was caught on every path, the properties have nothing to say, and
\* never will again: nothing is looked for behind such a state.
SomeExact == raced # Paths
===================================================================================
