----------------------------- MODULE MCSlaveLink -----------------------------
(* Small instances of SlaveLink for TLC.                                   *)
EXTENDS SlaveLinkRefinement
CONSTANTS s1, s2, c1, c2, f1, f2
==============================================================================
