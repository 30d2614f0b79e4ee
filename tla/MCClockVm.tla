---------------------------- MODULE MCClockVm ----------------------------
(* Small instances of ClockVm for TLC. *)
EXTENDS ClockVm

\* What the programs of the runs do.
MCAligned == AllOps \ {"kload", "dump_unaligned"}   \* kstore stands for both kernel accesses
MCNoFork == AllOps \ {"fork"}
MCLive == {"load", "kstore", "sbrk", "fork"}
MCForks == {"load", "fork"}
MCGrows == {"load", "sbrk"}
MCStores == {"load", "store"}

\* What they ask of sbrk.
MCShrinkAndGrow == {-PGSIZE, 1, PGSIZE}
MCWholePages == {PGSIZE, 2 * PGSIZE}
MCWholePagesBothWays == {-PGSIZE, PGSIZE}

\* What a slot of ptable holds before its first use, and after some.
MCZeroStale == {0}
MCFreedStale == {0, NoPage}
==========================================================================
