--------------------------- MODULE MCRiverHarness ---------------------------
(* RiverHarness on small instances.                                        *)
EXTENDS RiverHarness, TLC
=============================================================================
