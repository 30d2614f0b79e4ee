------------------------------- MODULE MCBio -------------------------------
(* Small instances of Bio for TLC. *)
EXTENDS Bio, TLC

CONSTANTS k1, k2, k3

\* A block of the log is taken before its home, here an indirect block, and
\* the indirect block before the bitmap.
MCPairs == {<<k1, k2>>, <<k2, k3>>}

\* Processes and contents are interchangeable.
MCSymmetry == Permutations(Procs) \cup Permutations(Values)
============================================================================
