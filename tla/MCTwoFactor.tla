----------------------------- MODULE MCTwoFactor -----------------------------
(* Small instances of TwoFactor for TLC. *)
EXTENDS TwoFactor, TLC

Symmetry ==
    Permutations(Secret) \cup Permutations(EmailCode) \cup Permutations(Request)
=============================================================================
