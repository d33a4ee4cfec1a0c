------------------------------- MODULE MCRbac -------------------------------
(* Small instances of Rbac for TLC. *)
EXTENDS Rbac, TLC

\* Ids are interchangeable; so are the request slots.
Symmetry ==
    Permutations(Role) \cup Permutations(Permission) \cup Permutations(Request)
=============================================================================
