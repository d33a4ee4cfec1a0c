----------------------------- MODULE MCSessions -----------------------------
(* Small instances of Sessions for TLC. *)
EXTENDS Sessions, TLC

\* Users and request slots are interchangeable.
Symmetry == Permutations(User) \cup Permutations(Request)
=============================================================================
