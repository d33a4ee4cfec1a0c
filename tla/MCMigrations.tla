--------------------------- MODULE MCMigrations ---------------------------
(* The chain on a part of the schema.                                      *)
EXTENDS Migrations
=============================================================================
