-------------------------- MODULE MCPlatlibHarness --------------------------
(* PlatlibHarness on small instances.                                      *)
EXTENDS PlatlibHarness, TLC

Symmetry == Permutations(Slots)
=============================================================================
