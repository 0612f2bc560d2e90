----------------------------- MODULE MCBenchRun -----------------------------
(* BenchRun on small instances.                                            *)
EXTENDS BenchRun, TLC
=============================================================================
