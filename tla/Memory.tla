------------------------------- MODULE Memory -------------------------------
(***************************************************************************)
(* The pages of physical memory (PhysMem), under names of its own for what *)
(* ClockVm and Proc keep too, so that one module can speak of both.  A     *)
(* behaviour may be about the pages or about something else, in which they *)
(* stay in their initial state: part says which.                           *)
(***************************************************************************)
CONSTANTS Frames, Pick(_), Ptable, initproc, PageSize, NPTENTRIES, NPDENTRIES, KTables,
          Images, Sbrks, Nil

VARIABLES free, mstate, mparent, kstack, space, size, cr3, locked, call, part

Mem == INSTANCE PhysMem WITH
    Pages <- Frames, Slots <- Ptable, PGSIZE <- PageSize, SbrkArgs <- Sbrks,
    state <- mstate, parent <- mparent, sz <- size

memvars == <<free, mstate, mparent, kstack, space, size, cr3, locked, call>>

\* Every page is free or in exactly one place, whichever kalloc of fork, exec or sbrk fails,
\* and a process maps exactly the pages below its size, after failed and undone calls too.
MemoryExact == part = "pages" => Mem!MemoryExact

\* A CPU never runs on a directory or a kernel stack that exec or wait gave back.
CpuMemoryHeld == part = "pages" => Mem!CpuMemoryHeld
=============================================================================
