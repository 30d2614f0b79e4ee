----------------------------- MODULE InodeLocks ------------------------------
(***************************************************************************)
(* The inodes and their sleep locks (Inodes), beside the spin locks of     *)
(* SpinLocks and under names of its own, so that one module can speak of   *)
(* both kinds of lock.  A behaviour may be about inodes or about spin      *)
(* locks, in which the inodes stay in their initial state: part says       *)
(* which.                                                                  *)
(***************************************************************************)
EXTENDS SpinLocks, Sequences

CONSTANTS Inums, ROOTINO, Plain, Calls, NINODE, MaxLink

VARIABLES part, dinode, ent, mem, lock, cwd, file, loc, halted, orphans

Icache == INSTANCE Inodes WITH NoProc <- NoCpu, panicked <- halted

inodevars == <<dinode, ent, mem, lock, cwd, file, loc, halted, orphans>>

\* References in memory and links on disk are counted exactly on every path through the
\* calls, error exits included; only orphans have more links than names.
CountsExact == part = "sleep" => Icache!CountsExact

\* What a process has open or as its directory is not freed, and no call panics over it.
InUseKept == part = "sleep" => Icache!InUseKept

\* The directories form a tree under concurrent links and removals.
TreeShape == part = "sleep" => Icache!TreeShape

\* Processes that wait for each other's inodes do so through an iput with another one locked.
CyclesNeedPut == part = "sleep" => Icache!CyclesNeedPut
=============================================================================
