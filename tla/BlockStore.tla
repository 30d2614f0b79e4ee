----------------------------- MODULE BlockStore -----------------------------
(***************************************************************************)
(* What the buffer cache promises its callers (the interface comment of    *)
(* bio.c): a block of the disk is one value, at most one process has it    *)
(* between bread and brelse, and only that process sees and changes it.    *)
(***************************************************************************)
CONSTANTS
    Users,     \* who may have a block: a process with one of its pointers
    Blocks, Values, NoProc

VARIABLES
    store,   \* the contents of each block
    holder   \* the user that has the block, or NoProc

vars == <<store, holder>>

Init ==
    /\ store \in [Blocks -> Values]
    /\ holder = [k \in Blocks |-> NoProc]

Get(p, k) ==
    /\ holder[k] = NoProc
    /\ \A j \in Blocks : holder[j] # p
    /\ holder' = [holder EXCEPT ![k] = p]
    /\ UNCHANGED store

Change(p, k, v) ==
    /\ holder[k] = p
    /\ store' = [store EXCEPT ![k] = v]
    /\ UNCHANGED holder

Put(p, k) ==
    /\ holder[k] = p
    /\ holder' = [holder EXCEPT ![k] = NoProc]
    /\ UNCHANGED store

Next == \E p \in Users, k \in Blocks :
            Get(p, k) \/ Put(p, k) \/ \E v \in Values : Change(p, k, v)

Spec == Init /\ [][Next]_vars
=============================================================================
