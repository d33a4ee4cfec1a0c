------------------------------ MODULE MCLists ------------------------------
(* Small instances of Lists for TLC.  The client is one of the users, so   *)
(* only requests are interchangeable.                                      *)
EXTENDS Lists, TLC

Symmetry == Permutations(Request)
=============================================================================
