----------------------------- MODULE MCPgStore -----------------------------
(* PgStore on small instances.                                             *)
EXTENDS PgStore, TLC

Users == Permutations(Workers) \cup Permutations(Producers)
=============================================================================
