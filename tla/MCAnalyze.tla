----------------------------- MODULE MCAnalyze ------------------------------
(* Analyze on small instances.                                             *)
EXTENDS Analyze, TLC

Symmetry == Permutations(Requests) \cup Permutations(Tenants)
=============================================================================
