------------------------------- MODULE MCPipe -------------------------------
(* Small instances of Pipe for TLC.  The processes are interchangeable and  *)
(* so are the bytes; the properties checked with the symmetry are safety    *)
(* properties.                                                              *)
EXTENDS Pipe, TLC

MCSymmetry == Permutations(Procs) \cup Permutations(Bytes)
=============================================================================
