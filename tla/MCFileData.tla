----------------------------- MODULE MCFileData -----------------------------
(* Small instances of FileData for TLC. *)
EXTENDS FileData, TLC

\* A short write, and one that takes several chunks.
MCSources == {<<1>>, <<1, 2, 2, 1, 2, 1, 2>>}
MCSymmetry == Permutations(Procs) \cup Permutations(Inodes)
=============================================================================
