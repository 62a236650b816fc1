------------------------------ MODULE MCWatDFSFresh ------------------------------
(* The model checking of WatDFSFresh, with the bounds of MCWatDFS. *)
EXTENDS WatDFSFresh, MCWatDFS
==================================================================================
