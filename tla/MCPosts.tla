------------------------------- MODULE MCPosts -----------------------------
(* Small instances of Posts for TLC.  Tenants and addresses are            *)
(* interchangeable, but the run checks a liveness property: no symmetry.   *)
EXTENDS Posts, TLC
=============================================================================
