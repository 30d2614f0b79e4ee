------------------------------ MODULE MCLocks -------------------------------
(***************************************************************************)
(* The two kinds of lock that processes take several of: spin locks, with  *)
(* interrupts off (SpinLocks), and the sleep locks of inodes, along paths  *)
(* (Inodes).  The models have no variable in common, so each is explored   *)
(* by itself: part says which one moves, and the other stays in its        *)
(* initial state.                                                          *)
(***************************************************************************)
EXTENDS InodeLocks, TLC

\* The processes are interchangeable; the CPUs are not, CPU 0 counts the ticks.
MCSymmetry == Permutations(Procs)

all == <<part, vars, inodevars>>

MCOpen(path, rw) == [op |-> "open", path |-> path, rw |-> rw]
MCCreate(path, type) == [op |-> "create", path |-> path, type |-> type]
MCLink(path, new) == [op |-> "link", path |-> path, new |-> new]
MCUnlink(path) == [op |-> "unlink", path |-> path]
MCChdir(path) == [op |-> "chdir", path |-> path]

\* A directory, a file in it, and another name of the file outside.
MCCalls == {MCCreate(<<"d", "a">>, "file"), MCCreate(<<"d">>, "dir"), MCOpen(<<"d">>, TRUE),
            MCLink(<<"d", "a">>, <<"a">>), MCLink(<<"d">>, <<"a">>),
            MCUnlink(<<"a">>), MCUnlink(<<"/", "d">>), MCUnlink(<<"d", "..">>),
            MCChdir(<<"d">>)}

MCPlain == {"a", "d"}

ASSUME IcacheAssumption == Icache!Configuration /\ Icache!Downward

LocksInit == part \in {"spin", "sleep"} /\ Init /\ Icache!Init

\* Processes may wait for each other's inodes for ever, so that only SpinLocks is checked
\* for deadlock.
LocksNext ==
    \/ part = "spin" /\ Next /\ UNCHANGED <<part, inodevars>>
    \/ part = "sleep" /\ Icache!Next /\ UNCHANGED <<part, vars>>
    \/ part = "sleep" /\ UNCHANGED all

LocksSpec == LocksInit /\ [][LocksNext]_all
=============================================================================
