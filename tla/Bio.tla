-------------------------------- MODULE Bio --------------------------------
(***************************************************************************)
(* The buffer cache (bio.c), the sleep lock of each buffer (sleeplock.c)   *)
(* and the disk driver below it (ide.c): a queue of buffers whose head the *)
(* drive works on, and an interrupt for each finished request.             *)
(*                                                                         *)
(* A step is what runs under one of the spin locks bcache.lock, the spin   *)
(* lock of a sleep lock, or idelock.  With a block a process does this:    *)
(* bread, change it, keep it with B_DIRTY set (log_write) or bwrite it,    *)
(* brelse.  A process changes a buffer only to write it in one of the two  *)
(* ways, as the interface comment of bio.c demands.                        *)
(*                                                                         *)
(* A process has up to two buffers, each through a pointer of its own:     *)
(* install_trans' lbuf and dbuf, write_log's to and from, bmap's bp and    *)
(* the bp of balloc or bzero, itrunc's bp and bfree's.  It asks for the    *)
(* second while it has the first.                                          *)
(***************************************************************************)
EXTENDS Integers, Sequences, FiniteSets

CONSTANTS
    Procs,     \* processes
    Blocks,    \* block numbers in use
    Values,    \* contents of a block
    Pairs,     \* <<first, second>>: blocks a process has at the same time
    NBUF,      \* buffers (param.h)
    MaxDirty,  \* most buffers the log pins with B_DIRTY at a time
    Faults,    \* whether a disk request may fail
    NoProc, NoBlock

Handles == Procs \X {1, 2}   \* the two pointers of each process

ASSUME BioAssumption ==
    /\ NBUF \in Nat \ {0} /\ MaxDirty \in Nat /\ Faults \in BOOLEAN
    /\ IsFiniteSet(Procs)
    /\ Pairs \subseteq Blocks \X Blocks /\ \A k \in Blocks : <<k, k>> \notin Pairs
    /\ NoProc \notin Handles /\ NoBlock \notin Blocks

VARIABLES
    buf,     \* struct buf: blockno, valid, dirty, refcnt, data
    lru,     \* bcache.head's list, most recently used first
    lock,    \* who has each buffer's sleep lock: a process with one of its
             \* pointers (the code keeps the process only), or NoProc
    queue,   \* idequeue
    drive,   \* what idestart gave the drive: nothing, a read, or data to write
    disk,    \* contents of the disk
    pc,      \* how far the process is with the buffer of each of its pointers
    want,    \* the block it asked for
    cur,     \* the buffer it has from bget
    unsaved, \* it changed the buffer and wrote it in neither way yet
    panicked \* "no", or why panic was called: "full" (bget: no buffers), "bug"

vars == <<buf, lru, lock, queue, drive, disk, pc, want, cur, unsaved, panicked>>
proc == <<want, cur, unsaved>>

Bufs == 1 .. NBUF
PCs == {"idle", "acquire", "asleep", "locked", "io_sleep", "io_check", "held", "unref"}
Buffer == [blockno : Blocks \cup {NoBlock}, valid : BOOLEAN, dirty : BOOLEAN,
           refcnt : 0 .. Cardinality(Handles), data : Values]
Idle == [op |-> "idle"]
Commands == {Idle, [op |-> "read"]} \cup [op : {"write"}, data : Values]

(* binit links every buffer at the head of the list, so the last comes     *)
(* first; no buffer has a block.                                           *)
Init ==
    /\ \E x \in Values : buf = [b \in Bufs |-> [blockno |-> NoBlock, valid |-> FALSE,
                                   dirty |-> FALSE, refcnt |-> 0, data |-> x]]
    /\ lru = [i \in Bufs |-> NBUF + 1 - i]
    /\ lock = [b \in Bufs |-> NoProc]
    /\ queue = <<>>
    /\ drive = Idle
    /\ disk \in [Blocks -> Values]
    /\ pc = [u \in Handles |-> "idle"]
    /\ want = [u \in Handles |-> NoBlock]
    /\ cur = [u \in Handles |-> 0]
    /\ unsaved = [u \in Handles |-> FALSE]
    /\ panicked = "no"
-----------------------------------------------------------------------------
(* bget: under bcache.lock, take the buffer that has block k or recycle    *)
(* the least recently used one that is neither in use nor dirty.           *)
\* Mutant: a buffer pinned by the log is recycled too.
FreeOrDirty(b) == buf[b].refcnt = 0

Recyclable(b) == buf[b].refcnt = 0 /\ ~buf[b].dirty

Recycled(b, k) == [blockno |-> k, valid |-> FALSE, dirty |-> FALSE, refcnt |-> 1,
                   data |-> buf[b].data]

Cached(k) == {b \in Bufs : buf[b].blockno = k}
LeastRecent(S) == lru[CHOOSE i \in Bufs : lru[i] \in S /\ \A j \in i + 1 .. NBUF : lru[j] \notin S]

(* A process is one thread: while it waits in bget, bread or bwrite, or is *)
(* inside brelse, with one pointer, it does nothing with the other.        *)
Other(u) == <<u[1], 3 - u[2]>>
Alone(u) == pc[Other(u)] \in {"idle", "held"}

(* It asks for a first block when it has none, and for a second while it   *)
(* has the first.                                                          *)
MayTake(u, k) ==
    IF u[2] = 1 THEN pc[Other(u)] = "idle"
    ELSE pc[Other(u)] = "held" /\ <<want[Other(u)], k>> \in Pairs

bget(u, k) ==
    /\ panicked = "no"
    /\ pc[u] = "idle"
    /\ MayTake(u, k)
    /\ IF Cached(k) # {}
       THEN \E b \in Cached(k) :
            /\ buf' = [buf EXCEPT ![b].refcnt = @ + 1]
            /\ cur' = [cur EXCEPT ![u] = b]
            /\ pc' = [pc EXCEPT ![u] = "acquire"]
            /\ UNCHANGED panicked
       ELSE LET free == {b \in Bufs : Recyclable(b)} IN
            IF free = {}
            THEN panicked' = "full" /\ UNCHANGED <<buf, cur, pc>>
            ELSE LET b == LeastRecent(free) IN
                 /\ buf' = [buf EXCEPT ![b] = Recycled(b, k)]
                 /\ cur' = [cur EXCEPT ![u] = b]
                 /\ pc' = [pc EXCEPT ![u] = "acquire"]
                 /\ UNCHANGED panicked
    /\ want' = [want EXCEPT ![u] = k]
    /\ UNCHANGED <<lru, lock, queue, drive, disk, unsaved>>

(* One turn of acquiresleep's loop.                                        *)
acquiresleep(u) ==
    /\ panicked = "no"
    /\ pc[u] = "acquire"
    /\ IF lock[cur[u]] = NoProc
       THEN /\ lock' = [lock EXCEPT ![cur[u]] = u]
            /\ pc' = [pc EXCEPT ![u] = "locked"]
       ELSE /\ pc' = [pc EXCEPT ![u] = "asleep"]
            /\ UNCHANGED lock
    /\ UNCHANGED <<buf, lru, queue, drive, disk, proc, panicked>>

(* The process has the sleep lock of the buffer.                           *)
holdingsleep(u) == lock[cur[u]] \in {u, Other(u)}

(* idestart: the drive gets a read command, or the data to write.          *)
idestart(b, contents) ==
    drive' = IF contents[b].dirty THEN [op |-> "write", data |-> contents[b].data]
                                  ELSE [op |-> "read"]

(* iderw queues the buffer, starts the drive if it has nothing else to do, *)
(* and sleeps.  contents is buf with the flags the caller set.             *)
iderw(u, contents) ==
    LET b == cur[u] IN
    IF ~holdingsleep(u) \/ (contents[b].valid /\ ~contents[b].dirty)
    THEN panicked' = "bug" /\ UNCHANGED <<queue, drive, pc>>
    ELSE /\ queue' = Append(queue, b)
         /\ IF queue = <<>> THEN idestart(b, contents) ELSE UNCHANGED drive
         /\ pc' = [pc EXCEPT ![u] = "io_sleep"]
         /\ UNCHANGED panicked

(* bread, once bget has returned: read the block unless it is valid.       *)
bread(u) ==
    /\ panicked = "no"
    /\ pc[u] = "locked"
    /\ IF buf[cur[u]].valid
       THEN /\ pc' = [pc EXCEPT ![u] = "held"]
            /\ UNCHANGED <<queue, drive, panicked>>
       ELSE iderw(u, buf)
    /\ UNCHANGED <<buf, lru, lock, disk, proc>>

(* The caller changes the buffer it has locked.                            *)
Change(u, v) ==
    /\ panicked = "no"
    /\ pc[u] = "held" /\ Alone(u)
    /\ v # buf[cur[u]].data
    /\ buf' = [buf EXCEPT ![cur[u]].data = v]
    /\ unsaved' = [unsaved EXCEPT ![u] = TRUE]
    /\ UNCHANGED <<lru, lock, queue, drive, disk, pc, want, cur, panicked>>

Dirty == {b \in Bufs : buf[b].dirty}

(* log_write keeps the change in the cache.                                *)
log_write(u) ==
    /\ panicked = "no"
    /\ pc[u] = "held" /\ Alone(u)
    /\ unsaved[u]
    /\ Cardinality(Dirty \cup {cur[u]}) \leq MaxDirty
    /\ buf' = [buf EXCEPT ![cur[u]].dirty = TRUE]
    /\ unsaved' = [unsaved EXCEPT ![u] = FALSE]
    /\ UNCHANGED <<lru, lock, queue, drive, disk, pc, want, cur, panicked>>

bwrite(u) ==
    LET dirtied == [buf EXCEPT ![cur[u]].dirty = TRUE] IN
    /\ panicked = "no"
    /\ pc[u] = "held" /\ Alone(u)
    /\ unsaved[u] \/ buf[cur[u]].dirty
    /\ buf' = dirtied
    /\ unsaved' = [unsaved EXCEPT ![u] = FALSE]
    /\ iderw(u, dirtied)
    /\ UNCHANGED <<lru, lock, disk, want, cur>>

(* iderw's sleep loop after a wakeup.                                      *)
IoCheck(u) ==
    /\ panicked = "no"
    /\ pc[u] = "io_check"
    /\ pc' = [pc EXCEPT ![u] = IF buf[cur[u]].valid /\ ~buf[cur[u]].dirty
                               THEN "held" ELSE "io_sleep"]
    /\ UNCHANGED <<buf, lru, lock, queue, drive, disk, proc, panicked>>

WakeIo(b) == [u \in Handles |-> IF pc[u] = "io_sleep" /\ cur[u] = b THEN "io_check" ELSE pc[u]]

(* The drive finishes its command, ok or with an error, and ideintr takes  *)
(* the head off the queue, fetches the data of a read, sets B_VALID and    *)
(* clears B_DIRTY whether or not there was an error, wakes the process and *)
(* starts the next request.                                                *)
ideintr ==
    LET b == Head(queue) IN
    /\ panicked = "no"
    /\ drive # Idle
    /\ \E ok \in {TRUE, ~Faults} :
        /\ disk' = IF drive.op = "write" /\ ok
                   THEN [disk EXCEPT ![buf[b].blockno] = drive.data] ELSE disk
        /\ buf' = [buf EXCEPT ![b].valid = TRUE, ![b].dirty = FALSE,
                      ![b].data = IF buf[b].dirty \/ ~ok THEN @ ELSE disk[buf[b].blockno]]
    /\ queue' = Tail(queue)
    /\ pc' = WakeIo(b)
    /\ IF Len(queue) > 1 THEN idestart(queue[2], buf) ELSE drive' = Idle
    /\ UNCHANGED <<lru, lock, proc, panicked>>

(* brelse: releasesleep wakes the processes waiting for the buffer ...     *)
\* Mutant: releasesleep forgets wakeup(lk).
releasesleep_silent(u) ==
    /\ lock' = [lock EXCEPT ![cur[u]] = NoProc]
    /\ pc' = [pc EXCEPT ![u] = "unref"]

releasesleep(u) ==
    /\ lock' = [lock EXCEPT ![cur[u]] = NoProc]
    /\ pc' = [w \in Handles |-> IF w = u THEN "unref"
                                ELSE IF pc[w] = "asleep" /\ cur[w] = cur[u] THEN "acquire"
                                ELSE pc[w]]

brelse(u) ==
    /\ panicked = "no"
    /\ pc[u] = "held" /\ Alone(u)
    /\ ~unsaved[u]
    /\ IF ~holdingsleep(u)
       THEN panicked' = "bug" /\ UNCHANGED <<lock, pc>>
       ELSE releasesleep(u) /\ UNCHANGED panicked
    /\ UNCHANGED <<buf, lru, queue, drive, disk, proc>>

(* ... and then, under bcache.lock, the count drops and an unused buffer   *)
(* goes to the front of the list.                                          *)
\* Mutant: the count is dropped although others still use the buffer.
ToZero(b) == [buf EXCEPT ![b].refcnt = 0]

\* Mutant: the count is never dropped.
Leaked(b) == buf

Unref(b) == [buf EXCEPT ![b].refcnt = @ - 1]

(* The list with b unlinked and put first.                                 *)
Front(b) == LET old == CHOOSE i \in Bufs : lru[i] = b IN
            [i \in Bufs |-> IF i = 1 THEN b ELSE IF i \leq old THEN lru[i - 1] ELSE lru[i]]

brelse_unref(u) ==
    LET b == cur[u] IN
    /\ panicked = "no"
    /\ pc[u] = "unref"
    /\ buf' = Unref(b)
    /\ lru' = IF buf'[b].refcnt = 0 THEN Front(b) ELSE lru
    /\ pc' = [pc EXCEPT ![u] = "idle"]
    /\ want' = [want EXCEPT ![u] = NoBlock]
    /\ cur' = [cur EXCEPT ![u] = 0]
    /\ UNCHANGED <<lock, queue, drive, disk, unsaved, panicked>>

(* panic stops the CPU, and with it every other one, for good.             *)
Halted == panicked # "no" /\ UNCHANGED vars

Proceeds(u) == acquiresleep(u) \/ bread(u) \/ IoCheck(u) \/ brelse_unref(u)

Next ==
    \/ ideintr
    \/ Halted
    \/ \E u \in Handles :
        \/ \E k \in Blocks : bget(u, k)
        \/ Proceeds(u)
        \/ \E v \in Values : Change(u, v)
        \/ log_write(u)
        \/ bwrite(u)
        \/ brelse(u)

Spec == Init /\ [][Next]_vars
-----------------------------------------------------------------------------
(* Every variable has its type.                                            *)
TypeOK ==
    /\ buf \in [Bufs -> Buffer]
    /\ lru \in [Bufs -> Bufs]
    /\ lock \in [Bufs -> Handles \cup {NoProc}]
    /\ queue \in Seq(Bufs)
    /\ drive \in Commands
    /\ disk \in [Blocks -> Values]
    /\ pc \in [Handles -> PCs]
    /\ want \in [Handles -> Blocks \cup {NoBlock}]
    /\ cur \in [Handles -> Bufs \cup {0}]
    /\ unsaved \in [Handles -> BOOLEAN]
    /\ panicked \in {"no", "full", "bug"}

(* bget's two loops never leave a block in two buffers, and a buffer that  *)
(* a process was given keeps the block it asked for until brelse, however  *)
(* long the process waits for the sleep lock or for the disk.              *)
OneBuffer ==
    /\ \A b, c \in Bufs : b # c /\ buf[b].blockno = buf[c].blockno => buf[b].blockno = NoBlock
    /\ \A u \in Handles : cur[u] # 0 => buf[cur[u]].blockno = want[u]

(* The panics of iderw, bwrite and brelse are never reached, and bget's    *)
(* "no buffers" only when the cache really is used up: no buffer was left  *)
(* with a count, or with B_DIRTY, by a process that is done with it.  The  *)
(* buffers that processes have and the MaxDirty that the log may pin are   *)
(* then all NBUF.                                                          *)
Having == {u \in Handles : cur[u] # 0}
PanicWhenFull ==
    /\ panicked # "bug"
    /\ panicked = "full" =>
        /\ \A b \in Bufs : buf[b].dirty \/ \E u \in Handles : cur[u] = b
        /\ NBUF \leq Cardinality(Having) + MaxDirty

(* No wakeup is lost: a process asleep in acquiresleep waits for a lock    *)
(* that another process has (never for one that it has itself through its  *)
(* other pointer), and one asleep in iderw waits for a buffer that is      *)
(* still in the queue of a drive that is working.                          *)
SleepersHaveWaker ==
    \A u \in Handles :
        /\ pc[u] = "asleep" => lock[cur[u]] \notin {NoProc, u, Other(u)}
        /\ pc[u] = "io_sleep" => /\ \E i \in 1 .. Len(queue) : queue[i] = cur[u]
                                 /\ drive # Idle

(* The cache implements one copy of each block that one process has, with  *)
(* one of its pointers, at a time: what bread returns is what the last     *)
(* holder left, through recycling, pinning, write-back and the driver's    *)
(* queue.                                                                  *)
HolderOf(b) == IF buf[b].valid THEN lock[b] ELSE NoProc
Contents == [k \in Blocks |-> IF \E b \in Cached(k) : buf[b].valid
                              THEN buf[CHOOSE b \in Cached(k) : buf[b].valid].data
                              ELSE disk[k]]
Holders == [k \in Blocks |-> IF Cached(k) = {} THEN NoProc
                             ELSE HolderOf(CHOOSE b \in Cached(k) : TRUE)]
Store == INSTANCE BlockStore WITH Users <- Handles, store <- Contents, holder <- Holders
OneCopy == Store!Spec

(* The buffers: their types, and one for each block.                       *)
CacheInv == TypeOK /\ OneBuffer
=============================================================================
