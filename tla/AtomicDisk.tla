----------------------------- MODULE AtomicDisk -----------------------------
(***************************************************************************)
(* What the logging layer promises the file system: a disk whose durable   *)
(* contents change only when no system call is in the middle of its        *)
(* updates, and then to exactly what the system calls have written; a      *)
(* crash forgets the rest.                                                 *)
(***************************************************************************)
CONSTANTS Procs, Blocks, Values

VARIABLES
    durable,  \* contents of each block after a crash
    view,     \* contents of each block as system calls see it
    open      \* processes inside a file system call

dvars == <<durable, view, open>>

Init ==
    /\ durable \in [Blocks -> Values]
    /\ view = durable
    /\ open = {}

Begin(o) ==
    /\ o \notin open
    /\ open' = open \cup {o}
    /\ UNCHANGED <<durable, view>>

Write(o, b, x) ==
    /\ o \in open
    /\ view' = [view EXCEPT ![b] = x]
    /\ UNCHANGED <<durable, open>>

End(o) ==
    /\ o \in open
    /\ open' = open \ {o}
    /\ UNCHANGED <<durable, view>>

Commit ==
    /\ open = {}
    /\ durable' = view
    /\ UNCHANGED <<view, open>>

Crash ==
    /\ view' = durable
    /\ open' = {}
    /\ UNCHANGED durable

Next ==
    \/ \E o \in Procs : Begin(o) \/ End(o)
    \/ \E o \in Procs, b \in Blocks, x \in Values : Write(o, b, x)
    \/ Commit
    \/ Crash

Spec == Init /\ [][Next]_dvars
=============================================================================
