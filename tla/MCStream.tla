------------------------------ MODULE MCStream ------------------------------
(***************************************************************************)
(* Small instances of Stream.                                              *)
(***************************************************************************)
EXTENDS Stream, TLC

CONSTANTS viewer1, viewer2  \* connection ids

\* Viewers are alike.
Symmetry == Permutations(Ids)
=============================================================================
