------------------------------ MODULE MCMemory ------------------------------
(***************************************************************************)
(* The two bounded stores of the memory system: the clock queue of one     *)
(* process (ClockVm, with programs that do not fork) and the pages of      *)
(* physical memory that all processes share (PhysMem).  They have no       *)
(* variable in common, so each is explored by itself: part says which one  *)
(* moves, and the other stays in its initial state.                        *)
(***************************************************************************)
EXTENDS MCClockVm, WorkingSet, Memory

all == <<part, vars, memvars>>

\* Eleven pages: the first process and one more fit, or the first process and its next
\* image; three processes do not.  Page tables have three entries, so that a process grows
\* into a second table; the second program leaves no room for its stack below KERNBASE.
MCFrames == 1 .. 11
MCLowest(S) == Min(S)
MCSbrks == {-2, 3, 4}

ASSUME MemoryAssumption == Mem!Configuration

MemoryInit ==
    /\ part \in {"queue", "pages"}
    /\ Init /\ Mem!Init
    /\ part = "pages" => \A i \in Slots : nodes[i] = 0

MemoryNext ==
    \/ part = "queue" /\ Next /\ UNCHANGED <<part, memvars>>
    \/ part = "pages" /\ Mem!Next /\ UNCHANGED <<part, vars>>

MemorySpec == MemoryInit /\ [][MemoryNext]_all
=============================================================================
