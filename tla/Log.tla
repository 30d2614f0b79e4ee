-------------------------------- MODULE Log --------------------------------
(***************************************************************************)
(* The redo log of the file system (log.c) over the buffer cache (bio.c).  *)
(* File system calls run between begin_op and end_op, change blocks in the *)
(* cache and record them with log_write; the last end_op commits them all: *)
(* write_log, write_head, install_trans, write_head again.  The machine    *)
(* may crash between any two disk writes, and recover_from_log runs at the *)
(* next boot, where it may crash again.                                    *)
(*                                                                         *)
(* A disk write of one block is atomic and synchronous (iderw sleeps until *)
(* it is done).  log.lock is held across each step below, except during    *)
(* commit, which log.committing protects.                                  *)
(***************************************************************************)
EXTENDS Integers, Sequences, FiniteSets

CONSTANTS
    Procs,        \* processes that make file system calls
    Blocks,       \* home blocks
    Values,       \* contents of a block
    MAXOPBLOCKS,  \* blocks begin_op reserves for a call (param.h)
    LOGSIZE,      \* capacity of the log header (param.h)
    LogBlocks,    \* log.size: blocks of the on-disk log, header included
    OpWrites,     \* most blocks a call really records
    Crashes       \* whether the machine may crash

ASSUME SizeAssumption ==
    /\ MAXOPBLOCKS \in Nat \ {0} /\ LOGSIZE \in Nat /\ MAXOPBLOCKS \leq LOGSIZE
    /\ LogBlocks \in Nat \ {0} /\ OpWrites \in 0 .. MAXOPBLOCKS
ASSUME CrashAssumption == Crashes \in BOOLEAN
ASSUME ProcsAssumption == IsFiniteSet(Procs)

VARIABLES
    home,         \* disk: contents of the home blocks
    logblk,       \* disk: contents of the log's data blocks
    head,         \* disk: block numbers in the log header
    lh,           \* memory: log.lh
    cache,        \* memory: contents of the buffers of the home blocks
    dirty,        \* memory: buffers with B_DIRTY, pinned in the cache
    outstanding,  \* memory: log.outstanding
    committing,   \* memory: log.committing
    op,           \* where each process is in its file system call
    written,      \* blocks each process has recorded in its call
    phase,        \* next disk step of commit or recovery
    tail,         \* its loop counter
    panicked      \* log.c called panic

disk == <<home, logblk, head>>
vars == <<home, logblk, head, lh, cache, dirty, outstanding, committing, op,
          written, phase, tail, panicked>>

OpStates == {"idle", "begin", "asleep", "run", "commit"}
BootPhases == {"boot_read", "boot_install", "boot_clear"}
Phases == BootPhases \cup {"none", "write_log", "write_head", "install", "clear", "finish"}
Slots == 1 .. LOGSIZE
Logged(s) == {s[i] : i \in 1 .. Len(s)}
Up == ~panicked /\ phase \notin BootPhases

(* A machine about to boot from a disk with an empty log, as mkfs makes.   *)
Init ==
    /\ home \in [Blocks -> Values]
    /\ \E x \in Values : logblk = [i \in Slots |-> x]
    /\ head = <<>>
    /\ lh = <<>>
    /\ cache = home
    /\ dirty = {}
    /\ outstanding = 0
    /\ committing = FALSE
    /\ op = [o \in Procs |-> "idle"]
    /\ written = [o \in Procs |-> {}]
    /\ phase = "boot_read"
    /\ tail = 1
    /\ panicked = FALSE
-----------------------------------------------------------------------------
(* wakeup(&log): every sleeper tries begin_op's loop again.                *)
Wake(f) == [o \in Procs |-> IF f[o] = "asleep" THEN "begin" ELSE f[o]]

Call(o) ==
    /\ Up
    /\ op[o] = "idle"
    /\ op' = [op EXCEPT ![o] = "begin"]
    /\ written' = [written EXCEPT ![o] = {}]
    /\ UNCHANGED <<disk, lh, cache, dirty, outstanding, committing, phase, tail, panicked>>

(* One turn of begin_op's loop: enter, or sleep while a commit runs or the *)
(* log might not have room for another MAXOPBLOCKS blocks.                 *)
Room == Len(lh) + (outstanding + 1) * MAXOPBLOCKS \leq LOGSIZE

begin_op(o) ==
    /\ Up
    /\ op[o] = "begin"
    /\ IF ~committing /\ Room
       THEN /\ outstanding' = outstanding + 1
            /\ op' = [op EXCEPT ![o] = "run"]
       ELSE /\ op' = [op EXCEPT ![o] = "asleep"]
            /\ UNCHANGED outstanding
    /\ UNCHANGED <<disk, lh, cache, dirty, committing, written, phase, tail, panicked>>

(* A call changes block b in its locked buffer and records it.  A block    *)
(* already in the log is absorbed.                                         *)
Full == Len(lh) \geq LOGSIZE \/ Len(lh) \geq LogBlocks - 1

Record(b) == IF b \in Logged(lh) THEN lh ELSE Append(lh, b)

log_write(o, b, x) ==
    /\ Up
    /\ op[o] = "run"
    /\ Cardinality(written[o] \cup {b}) \leq OpWrites
    /\ cache' = [cache EXCEPT ![b] = x]
    /\ written' = [written EXCEPT ![o] = @ \cup {b}]
    /\ IF Full \/ outstanding < 1
       THEN /\ panicked' = TRUE
            /\ UNCHANGED <<lh, dirty>>
       ELSE /\ lh' = Record(b)
            /\ dirty' = dirty \cup {b}
            /\ UNCHANGED panicked
    /\ UNCHANGED <<disk, outstanding, committing, op, phase, tail>>

(* bget recycles the buffer of a block that is not dirty; the next bread   *)
(* reads it from the disk.                                                 *)
Evict(b) ==
    /\ Up
    /\ b \notin dirty
    /\ cache' = [cache EXCEPT ![b] = home[b]]
    /\ UNCHANGED <<disk, lh, dirty, outstanding, committing, op, written, phase, tail, panicked>>

(* end_op: the last call out starts a commit, any other one gives back its *)
(* reservation and wakes the sleepers.                                     *)
\* Mutant: no wakeup when other calls are still running.
end_op_silent(o) ==
    /\ Up
    /\ op[o] = "run"
    /\ outstanding' = outstanding - 1
    /\ IF committing
       THEN panicked' = TRUE /\ UNCHANGED <<op, committing, phase, tail>>
       ELSE /\ IF outstanding = 1
               THEN /\ committing' = TRUE
                    /\ op' = [op EXCEPT ![o] = "commit"]
                    /\ phase' = IF lh = <<>> THEN "finish" ELSE "write_log"
                    /\ tail' = 1
               ELSE /\ op' = [op EXCEPT ![o] = "idle"]
                    /\ UNCHANGED <<committing, phase, tail>>
            /\ UNCHANGED panicked
    /\ UNCHANGED <<disk, lh, cache, dirty, written>>

end_op(o) ==
    /\ Up
    /\ op[o] = "run"
    /\ outstanding' = outstanding - 1
    /\ IF committing
       THEN panicked' = TRUE /\ UNCHANGED <<op, committing, phase, tail>>
       ELSE /\ IF outstanding = 1
               THEN /\ committing' = TRUE
                    /\ op' = [op EXCEPT ![o] = "commit"]
                    /\ phase' = IF lh = <<>> THEN "finish" ELSE "write_log"
                    /\ tail' = 1
               ELSE /\ op' = Wake([op EXCEPT ![o] = "idle"])
                    /\ UNCHANGED <<committing, phase, tail>>
            /\ UNCHANGED panicked
    /\ UNCHANGED <<disk, lh, cache, dirty, written>>
-----------------------------------------------------------------------------
(***************************************************************************)
(* commit and recovery, one disk write at a time.                          *)
(***************************************************************************)
Memory == <<cache, dirty, lh, outstanding, committing, op, written, panicked>>

Goto(p) == phase' = p /\ tail' = 1

(* The loop of write_log or install_trans goes on, or ends.                *)
Loop(p, then) ==
    IF tail < Len(lh) THEN tail' = tail + 1 /\ phase' = p ELSE Goto(then)

\* Mutant: the home blocks are installed before the header commits them.
write_log_install ==
    /\ Up /\ phase = "write_log"
    /\ logblk' = [logblk EXCEPT ![tail] = cache[lh[tail]]]
    /\ home' = [home EXCEPT ![lh[tail]] = cache[lh[tail]]]
    /\ Loop("write_log", "write_head")
    /\ UNCHANGED <<head, Memory>>

write_log ==
    /\ Up /\ phase = "write_log"
    /\ logblk' = [logblk EXCEPT ![tail] = cache[lh[tail]]]
    /\ Loop("write_log", "write_head")
    /\ UNCHANGED <<home, head, Memory>>

(* The true point at which the transaction commits.                        *)
write_head ==
    /\ Up /\ phase = "write_head"
    /\ head' = lh
    /\ Goto("install")
    /\ UNCHANGED <<home, logblk, Memory>>

(* install_trans copies log block tail home, through the home block's      *)
(* buffer; the write clears its B_DIRTY.                                   *)
Install(p, then) ==
    /\ ~panicked /\ phase = p
    /\ home' = [home EXCEPT ![lh[tail]] = logblk[tail]]
    /\ cache' = [cache EXCEPT ![lh[tail]] = logblk[tail]]
    /\ dirty' = dirty \ {lh[tail]}
    /\ Loop(p, then)
    /\ UNCHANGED <<logblk, head, lh, outstanding, committing, op, written, panicked>>

(* log.lh.n = 0 and write_head.                                            *)
Clear(p, then) ==
    /\ ~panicked /\ phase = p
    /\ lh' = <<>>
    /\ head' = <<>>
    /\ Goto(then)
    /\ UNCHANGED <<home, logblk, cache, dirty, outstanding, committing, op, written, panicked>>

(* end_op after commit returns.                                            *)
\* Mutant: the sleepers are not woken.
FinishSilent ==
    /\ Up /\ phase = "finish"
    /\ committing' = FALSE
    /\ op' = [o \in Procs |-> IF op[o] = "commit" THEN "idle" ELSE op[o]]
    /\ Goto("none")
    /\ UNCHANGED <<disk, lh, cache, dirty, outstanding, written, panicked>>

Finish ==
    /\ Up /\ phase = "finish"
    /\ committing' = FALSE
    /\ op' = Wake([o \in Procs |-> IF op[o] = "commit" THEN "idle" ELSE op[o]])
    /\ Goto("none")
    /\ UNCHANGED <<disk, lh, cache, dirty, outstanding, written, panicked>>

(* recover_from_log: read_head, then install_trans and clear the header.   *)
read_head ==
    /\ phase = "boot_read"
    /\ lh' = head
    /\ Goto(IF head = <<>> THEN "boot_clear" ELSE "boot_install")
    /\ UNCHANGED <<disk, cache, dirty, outstanding, committing, op, written, panicked>>

Crash ==
    /\ Crashes
    /\ lh' = <<>>
    /\ cache' = home
    /\ dirty' = {}
    /\ outstanding' = 0
    /\ committing' = FALSE
    /\ op' = [o \in Procs |-> "idle"]
    /\ written' = [o \in Procs |-> {}]
    /\ Goto("boot_read")
    /\ panicked' = FALSE
    /\ UNCHANGED disk

CommitStep ==
    \/ write_log
    \/ write_head
    \/ Install("install", "clear")
    \/ Clear("clear", "finish")
    \/ Finish

Recover ==
    \/ read_head
    \/ Install("boot_install", "boot_clear")
    \/ Clear("boot_clear", "none")

Next ==
    \/ \E o \in Procs : Call(o) \/ begin_op(o) \/ end_op(o)
    \/ \E o \in Procs, b \in Blocks, x \in Values : log_write(o, b, x)
    \/ \E b \in Blocks : Evict(b)
    \/ CommitStep
    \/ Recover
    \/ Crash

(* Processes that can run do run, and the disk answers.                    *)
Fairness ==
    /\ \A o \in Procs : WF_vars(begin_op(o)) /\ WF_vars(end_op(o))
    /\ WF_vars(CommitStep)
    /\ WF_vars(Recover)

Spec == Init /\ [][Next]_vars
FairSpec == Spec /\ Fairness
-----------------------------------------------------------------------------
TypeOK ==
    /\ home \in [Blocks -> Values]
    /\ logblk \in [Slots -> Values]
    /\ head \in Seq(Blocks) /\ Len(head) \leq LOGSIZE
    /\ lh \in Seq(Blocks) /\ Len(lh) \leq LOGSIZE
    /\ cache \in [Blocks -> Values]
    /\ dirty \in SUBSET Blocks
    /\ outstanding \in 0 .. Cardinality(Procs)
    /\ committing \in BOOLEAN
    /\ op \in [Procs -> OpStates]
    /\ written \in [Procs -> SUBSET Blocks]
    /\ phase \in Phases
    /\ tail \in 1 .. LOGSIZE
    /\ panicked \in BOOLEAN

(* What the disk holds after recovery: the log's blocks over the home      *)
(* blocks, if the header says they are committed.                          *)
Durable ==
    [b \in Blocks |->
        IF b \in Logged(head)
        THEN logblk[CHOOSE i \in 1 .. Len(head) : head[i] = b] ELSE home[b]]

(* What the calls see, and the calls between begin_op and end_op.          *)
View == IF phase \in BootPhases THEN Durable ELSE cache

Running == {o \in Procs : op[o] = "run"}

Abstract == INSTANCE AtomicDisk WITH
    durable <- Durable, view <- View, open <- Running

(* Crash atomicity: commit, crashes and recovery implement a disk that     *)
(* takes over the writes of finished system calls all at once and never    *)
(* those of an unfinished one (log.c: the header write is "the true point  *)
(* at which the current transaction commits").                             *)
Atomic == Abstract!Spec

(* begin_op's reservation is enough: no call finds the log full, and       *)
(* end_op never meets a running commit.                                    *)
NoPanic == ~panicked

(* Whoever sleeps in begin_op waits for a call or a commit that will wake  *)
(* it.                                                                     *)
SleepersHaveWaker ==
    (\E o \in Procs : op[o] = "asleep") =>
        committing \/ \E q \in Procs : op[q] = "run"

(* Every process asleep in begin_op is woken.                              *)
SleepersWake == \A o \in Procs : op[o] = "asleep" ~> op[o] # "asleep"

(* The safety of the log's bookkeeping: types, no panic, and every sleeper *)
(* of begin_op has somebody to wake it.                                    *)
SpaceKept == TypeOK /\ NoPanic /\ SleepersHaveWaker
=============================================================================
