----------------------------- MODULE MCConsole -----------------------------
(* Small instances of Console for TLC.  The processes are interchangeable,  *)
(* and the properties checked with the symmetry are safety properties.      *)
EXTENDS Console, TLC

MCSymmetry == Permutations(Procs)
=============================================================================
