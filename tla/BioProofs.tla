----------------------------- MODULE BioProofs -----------------------------
(***************************************************************************)
(* What the buffer cache guarantees for every number of processes, blocks  *)
(* and buffers: one buffer per block, no lost wakeup of a sleep lock or of *)
(* the driver, no panic but bget's, and that one only with every buffer in *)
(* use, and, as long as the drive makes no errors, one copy of each block  *)
(* (BlockStore).                                                           *)
(***************************************************************************)
EXTENDS Bio, FiniteSetTheorems, SequenceTheorems, WellFoundedInduction, TLAPS

(* The buffer's sleep lock is held by the process that is in its critical  *)
(* section.                                                                *)
Inside == {"locked", "io_sleep", "io_check", "held"}
Locks == \A u \in Handles, b \in Bufs : lock[b] = u <=> cur[u] = b /\ pc[u] \in Inside

(* A process has a buffer from bget to the end of brelse; it is asleep for *)
(* a lock that somebody else has.                                          *)
Users ==
    \A u \in Handles :
        /\ pc[u] = "idle" <=> cur[u] = 0
        /\ cur[u] # 0 => want[u] \in Blocks /\ buf[cur[u]].blockno = want[u]
        /\ pc[u] = "asleep" => lock[cur[u]] # NoProc
        /\ unsaved[u] => pc[u] = "held"

(* The flags of a buffer, by where the process that has it locked is.      *)
Flags ==
    /\ \A b \in Bufs : /\ buf[b].dirty => buf[b].valid
                       /\ buf[b].valid => buf[b].blockno # NoBlock
    /\ \A u \in Handles :
        /\ pc[u] \in {"held", "io_check"} => buf[cur[u]].valid
        /\ pc[u] = "io_check" => ~buf[cur[u]].dirty
        /\ pc[u] = "io_sleep" => ~buf[cur[u]].valid \/ buf[cur[u]].dirty

(* refcnt counts the processes that have the buffer.                       *)
UsersOf(b) == {u \in Handles : cur[u] = b}
Counts == \A b \in Bufs : buf[b].refcnt = Cardinality(UsersOf(b))

(* No block is in two buffers.                                             *)
Unique == \A b, c \in Bufs : b # c /\ buf[b].blockno = buf[c].blockno => buf[b].blockno = NoBlock

(* The driver's queue: the buffers that processes wait for in iderw, each  *)
(* once; the drive works on the first.                                     *)
Queued(b) == \E i \in 1 .. Len(queue) : queue[i] = b
Command(b) == IF buf[b].dirty THEN [op |-> "write", data |-> buf[b].data] ELSE [op |-> "read"]
Requests ==
    /\ \A u \in Handles : pc[u] = "io_sleep" => Queued(cur[u])
    /\ \A i \in 1 .. Len(queue) : \E u \in Handles : pc[u] = "io_sleep" /\ cur[u] = queue[i]
    /\ \A i, j \in 1 .. Len(queue) : queue[i] = queue[j] => i = j
    /\ drive = IF queue = <<>> THEN Idle ELSE Command(queue[1])

(* lru has every buffer once.                                              *)
Listed ==
    /\ \A i, j \in Bufs : lru[i] = lru[j] => i = j
    /\ \A b \in Bufs : \E i \in Bufs : lru[i] = b

(* The buffers that are dirty and not being written are those the log pins.*)
Pinned == {b \in Bufs : buf[b].dirty /\ ~Queued(b)}
FewPinned == Cardinality(Pinned) \leq MaxDirty

(* A buffer that is neither dirty nor changed agrees with the disk.        *)
Changing(b) == \E u \in Handles : cur[u] = b /\ unsaved[u]
SyncedAt(b) == buf[b].valid /\ ~buf[b].dirty /\ ~Changing(b) =>
                  buf[b].data = disk[buf[b].blockno]
Synced == ~Faults => \A b \in Bufs : SyncedAt(b)

(* The inductive invariant.                                                *)
Inv == /\ TypeOK /\ Locks /\ Users /\ Flags /\ Counts /\ Unique /\ Requests /\ Listed
       /\ FewPinned /\ Synced

(* The buffers are NBUF numbers other than 0.                              *)
LEMMA Basics ==
    /\ Bufs \subseteq Nat /\ 0 \notin Bufs /\ IsFiniteSet(Bufs) /\ Cardinality(Bufs) = NBUF
    /\ IsFiniteSet(Handles) /\ Cardinality(Handles) \in Nat
<1>1. IsFiniteSet(Bufs) /\ Cardinality(Bufs) = NBUF
  BY FS_Interval, BioAssumption DEF Bufs
<1>2. IsFiniteSet(Handles) /\ Cardinality(Handles) \in Nat
  <2>1. IsFiniteSet({1, 2})
    <3>1. IsFiniteSet({1})
      BY FS_Singleton
    <3>2. IsFiniteSet({1} \cup {2}) /\ {1} \cup {2} = {1, 2}
      BY <3>1, FS_AddElement
    <3> QED BY <3>2
  <2> QED BY <2>1, FS_Product, FS_CardinalityType, BioAssumption DEF Handles
<1> QED BY <1>1, <1>2, BioAssumption DEF Bufs

(* A process between acquiresleep and releasesleep has the lock of its     *)
(* buffer, and no other process that uses the buffer is there.             *)
LEMMA Holds ==
    ASSUME Inv, NEW u \in Handles, pc[u] \in Inside
    PROVE  /\ cur[u] \in Bufs /\ lock[cur[u]] = u
           /\ \A w \in Handles : w # u /\ cur[w] = cur[u] => pc[w] \notin Inside
<1>1. cur[u] \in Bufs
  BY DEF Inv, TypeOK, Users, Inside
<1>2. lock[cur[u]] = u
  BY <1>1 DEF Inv, Locks
<1>3. \A w \in Handles : w # u /\ cur[w] = cur[u] => pc[w] \notin Inside
  BY <1>1, <1>2 DEF Inv, Locks
<1> QED BY <1>1, <1>2, <1>3

(* acquiresleep takes the lock, or the process sleeps because another has  *)
(* it.                                                                     *)
LEMMA acquiresleepInv ==
    ASSUME Inv, NEW u \in Handles, acquiresleep(u)
    PROVE  Inv'
<1> USE DEF proc
<1>1. /\ cur[u] \in Bufs /\ pc[u] = "acquire"
      /\ UNCHANGED <<buf, lru, queue, drive, disk, cur, want, unsaved, panicked>>
  BY DEF acquiresleep, Inv, TypeOK, Users
<1>2. \/ /\ lock[cur[u]] = NoProc /\ lock' = [lock EXCEPT ![cur[u]] = u]
         /\ pc' = [pc EXCEPT ![u] = "locked"]
      \/ /\ lock[cur[u]] # NoProc /\ lock' = lock
         /\ pc' = [pc EXCEPT ![u] = "asleep"]
  BY DEF acquiresleep
<1>3. TypeOK'
  BY <1>1, <1>2 DEF Inv, TypeOK, PCs
<1>4. Locks'
  BY <1>1, <1>2, BioAssumption DEF Inv, TypeOK, Locks, Inside
<1>5. Users' /\ Flags'
  BY <1>1, <1>2, BioAssumption DEF Inv, TypeOK, Users, Flags
<1>6. Counts' /\ Unique' /\ Listed' /\ FewPinned' /\ Synced'
  <2>1. Counts' /\ Unique' /\ Listed' /\ Synced'
    BY <1>1 DEF Inv, Counts, UsersOf, Unique, Listed, Synced, SyncedAt, Changing
  <2>2. FewPinned'
    BY <1>1 DEF Inv, FewPinned, Pinned, Queued
  <2> QED BY <2>1, <2>2
<1>7. Requests'
  BY <1>1, <1>2 DEF Inv, TypeOK, Requests, Queued, Command
<1> QED BY <1>3, <1>4, <1>5, <1>6, <1>7 DEF Inv

(* iderw does not panic for a caller that has the lock and something to    *)
(* do: it queues the buffer and starts a drive that was idle.              *)
LEMMA iderwQueues ==
    ASSUME Inv, NEW u \in Handles, pc[u] \in {"locked", "held"}, cur[u] \in Bufs,
           NEW contents, contents[cur[u]].valid => contents[cur[u]].dirty, iderw(u, contents)
    PROVE  /\ queue' = Append(queue, cur[u])
           /\ drive' = IF queue = <<>>
                       THEN IF contents[cur[u]].dirty
                            THEN [op |-> "write", data |-> contents[cur[u]].data]
                            ELSE [op |-> "read"]
                       ELSE drive
           /\ pc' = [pc EXCEPT ![u] = "io_sleep"]
           /\ panicked' = panicked
<1>1. lock[cur[u]] = u
  BY Holds DEF Inside
<1> QED BY <1>1 DEF iderw, idestart, holdingsleep

(* A buffer that iderw appends was not in the queue, and the drive still   *)
(* works on the first.                                                     *)
LEMMA QueueGrows ==
    ASSUME Inv, NEW u \in Handles, pc[u] \in {"locked", "held"},
           queue' = Append(queue, cur[u]), pc' = [pc EXCEPT ![u] = "io_sleep"], cur' = cur,
           drive' = IF queue = <<>> THEN Command(cur[u])' ELSE drive,
           \A b \in Bufs \ {cur[u]} : buf'[b] = buf[b]
    PROVE  /\ Requests' /\ queue' \in Seq(Bufs)
           /\ \A b \in Bufs : Queued(b)' <=> Queued(b) \/ b = cur[u]
<1>1. cur[u] \in Bufs /\ queue \in Seq(Bufs) /\ ~Queued(cur[u])
  <2>1. \A w \in Handles : pc[w] = "io_sleep" => cur[w] # cur[u]
    BY Holds DEF Inside
  <2> QED BY <2>1, Holds DEF Inv, TypeOK, Requests, Queued, Inside
<1>2. /\ queue' \in Seq(Bufs) /\ Len(queue') = Len(queue) + 1
      /\ \A i \in 1 .. Len(queue) : queue'[i] = queue[i]
      /\ queue'[Len(queue) + 1] = cur[u]
  BY <1>1, AppendProperties
<1>3. \A b \in Bufs : Queued(b)' <=> Queued(b) \/ b = cur[u]
  BY <1>1, <1>2 DEF Queued
<1>4. \A w \in Handles : pc'[w] = "io_sleep" <=> pc[w] = "io_sleep" \/ w = u
  BY DEF Inv, TypeOK
<1>5. \A w \in Handles : pc'[w] = "io_sleep" => Queued(cur[w])'
  <2>1. \A w \in Handles : pc[w] = "io_sleep" => Queued(cur[w]) /\ cur[w] \in Bufs
    BY Holds DEF Inv, Requests, Inside
  <2> QED BY <1>1, <1>3, <1>4, <2>1
<1>6. \A i \in 1 .. Len(queue') : \E w \in Handles : pc'[w] = "io_sleep" /\ cur[w] = queue'[i]
  BY <1>1, <1>2, <1>4 DEF Inv, Requests
<1>7. \A i, j \in 1 .. Len(queue') : queue'[i] = queue'[j] => i = j
  BY <1>1, <1>2 DEF Inv, Requests, Queued
<1>8. drive' = IF queue' = <<>> THEN Idle ELSE Command(queue[1])'
  <2>1. CASE queue = <<>>
    BY <1>1, <1>2, <2>1
  <2>2. CASE queue # <<>>
    <3>1. Len(queue) > 0 /\ queue'[1] = queue[1] /\ queue[1] \in Bufs /\ queue[1] # cur[u]
      BY <1>1, <1>2, <2>2 DEF Queued
    <3>2. queue' # <<>>
      BY <1>1, <1>2
    <3> QED BY <2>2, <3>1, <3>2 DEF Inv, Requests, Command
  <2> QED BY <2>1, <2>2
<1> QED BY <1>2, <1>3, <1>5, <1>6, <1>7, <1>8 DEF Requests

(* bread returns a valid buffer or queues the read.                        *)
LEMMA breadInv ==
    ASSUME Inv, NEW u \in Handles, bread(u)
    PROVE  Inv'
<1> USE DEF proc
<1>1. /\ pc[u] = "locked" /\ cur[u] \in Bufs /\ lock[cur[u]] = u
      /\ UNCHANGED <<buf, lru, lock, disk, want, cur, unsaved>>
  BY Holds DEF bread, Inside
<1>2. Counts' /\ Unique' /\ Listed' /\ Synced'
  BY <1>1 DEF Inv, Counts, UsersOf, Unique, Listed, Synced, SyncedAt, Changing
<1>3. CASE buf[cur[u]].valid
  <2>1. pc' = [pc EXCEPT ![u] = "held"] /\ UNCHANGED <<queue, drive, panicked>>
    BY <1>3 DEF bread
  <2>2. TypeOK' /\ Locks' /\ Users' /\ Flags'
    BY <1>1, <1>3, <2>1 DEF Inv, TypeOK, PCs, Locks, Inside, Users, Flags
  <2>3. Requests' /\ FewPinned'
    BY <1>1, <2>1 DEF Inv, TypeOK, Requests, FewPinned, Pinned, Queued, Command
  <2> QED BY <1>2, <2>2, <2>3 DEF Inv
<1>4. CASE ~buf[cur[u]].valid
  <2>1. ~buf[cur[u]].dirty /\ iderw(u, buf)
    BY <1>1, <1>4 DEF bread, Inv, Flags
  <2>2. /\ queue' = Append(queue, cur[u])
        /\ drive' = IF queue = <<>> THEN Command(cur[u])' ELSE drive
        /\ pc' = [pc EXCEPT ![u] = "io_sleep"] /\ panicked' = panicked
    BY <1>1, <1>4, <2>1, iderwQueues DEF Command
  <2>3. /\ Requests' /\ queue' \in Seq(Bufs)
        /\ \A b \in Bufs : Queued(b)' <=> Queued(b) \/ b = cur[u]
    BY <1>1, <2>2, QueueGrows
  <2>4. drive' \in Commands
    BY <1>1, <2>1, <2>2 DEF Inv, TypeOK, Command, Commands
  <2>5. TypeOK'
    BY <1>1, <2>2, <2>3, <2>4 DEF Inv, TypeOK, PCs
  <2>6. Locks' /\ Users' /\ Flags'
    BY <1>1, <1>4, <2>2 DEF Inv, TypeOK, Locks, Inside, Users, Flags
  <2>7. FewPinned'
    <3>1. Pinned' = Pinned
      BY <1>1, <2>1, <2>3 DEF Pinned
    <3> QED BY <3>1 DEF Inv, FewPinned
  <2> QED BY <1>2, <2>3, <2>5, <2>6, <2>7 DEF Inv
<1> QED BY <1>3, <1>4

(* The holder changes the data of its buffer, which is not in the driver's *)
(* queue.                                                                  *)
LEMMA ChangeInv ==
    ASSUME Inv, NEW u \in Handles, NEW v \in Values, Change(u, v)
    PROVE  Inv'
<1>1. /\ pc[u] = "held" /\ cur[u] \in Bufs /\ lock[cur[u]] = u
      /\ \A w \in Handles : w # u /\ cur[w] = cur[u] => pc[w] \notin Inside
      /\ UNCHANGED <<lru, lock, queue, drive, disk, pc, want, cur, panicked>>
  BY Holds DEF Change, Inside
<1>2. /\ buf' = [buf EXCEPT ![cur[u]].data = v]
      /\ unsaved' = [unsaved EXCEPT ![u] = TRUE]
  BY DEF Change
<1>3. /\ \A b \in Bufs : /\ buf'[b].blockno = buf[b].blockno /\ buf'[b].valid = buf[b].valid
                         /\ buf'[b].dirty = buf[b].dirty /\ buf'[b].refcnt = buf[b].refcnt
      /\ \A b \in Bufs \ {cur[u]} : buf'[b] = buf[b]
      /\ buf' \in [Bufs -> Buffer]
  BY <1>1, <1>2 DEF Inv, TypeOK, Buffer
<1>4. TypeOK'
  BY <1>1, <1>2, <1>3 DEF Inv, TypeOK
<1>5. Locks' /\ Users' /\ Flags' /\ Unique' /\ Listed'
  <2>1. \A w \in Handles : cur[w] # 0 => cur[w] \in Bufs
    BY DEF Inv, TypeOK
  <2>2. Users'
    BY <1>1, <1>2, <1>3, <2>1 DEF Inv, TypeOK, Users
  <2>3. Flags'
    <3>1. \A w \in Handles : pc[w] \in {"held", "io_check", "io_sleep"} => cur[w] # 0
      BY DEF Inv, Users
    <3> QED BY <1>1, <1>3, <2>1, <3>1 DEF Inv, Flags
  <2> QED BY <1>1, <1>3, <2>2, <2>3 DEF Inv, Locks, Unique, Listed
<1>6. Counts'
  BY <1>1, <1>3 DEF Inv, Counts, UsersOf
<1>7. Requests' /\ FewPinned'
  <2>1. ~Queued(cur[u])
    BY <1>1 DEF Inv, Requests, Queued, Inside
  <2>2. \A b \in Bufs : Queued(b)' <=> Queued(b)
    BY <1>1 DEF Queued
  <2>3. Pinned' = Pinned
    BY <1>3, <2>2 DEF Pinned
  <2>4. queue # <<>> => queue[1] \in Bufs \ {cur[u]} /\ Command(queue[1])' = Command(queue[1])
    BY <1>1, <1>3, <2>1 DEF Inv, TypeOK, Queued, Command
  <2>5. Requests'
    BY <1>1, <2>4 DEF Inv, Requests, Queued
  <2> QED BY <2>3, <2>5 DEF Inv, FewPinned
<1>8. Synced'
  <2>1. ASSUME NEW b \in Bufs, ~Faults PROVE SyncedAt(b)'
    <3>1. SyncedAt(b)
      BY <2>1 DEF Inv, Synced
    <3>2. Changing(cur[u])'
      BY <1>1, <1>2 DEF Changing, Inv, TypeOK
    <3>3. Changing(b) => Changing(b)'
      BY <1>1, <1>2 DEF Changing, Inv, TypeOK
    <3> QED BY <1>1, <1>3, <3>1, <3>2, <3>3 DEF SyncedAt
  <2> QED BY <2>1 DEF Synced
<1> QED BY <1>4, <1>5, <1>6, <1>7, <1>8 DEF Inv

(* Setting B_DIRTY on a buffer that the process holds, in log_write and in *)
(* bwrite.                                                                 *)
LEMMA Dirtied ==
    ASSUME Inv, NEW u \in Handles, pc[u] = "held", UNCHANGED <<lru, lock, disk, want, cur>>,
           buf' = [buf EXCEPT ![cur[u]].dirty = TRUE],
           unsaved' = [unsaved EXCEPT ![u] = FALSE],
           pc' = pc \/ pc' = [pc EXCEPT ![u] = "io_sleep"]
    PROVE  /\ Locks' /\ Users' /\ Flags' /\ Counts' /\ Unique' /\ Listed' /\ Synced'
           /\ buf' \in [Bufs -> Buffer] /\ pc' \in [Handles -> PCs] /\ unsaved' \in [Handles -> BOOLEAN]
           /\ cur[u] \in Bufs /\ buf'[cur[u]].dirty /\ buf'[cur[u]].data = buf[cur[u]].data
           /\ \A b \in Bufs \ {cur[u]} : buf'[b] = buf[b]
<1>1. /\ cur[u] \in Bufs /\ lock[cur[u]] = u
      /\ \A w \in Handles : w # u /\ cur[w] = cur[u] => pc[w] \notin Inside
  BY Holds DEF Inside
<1>2. /\ \A b \in Bufs : /\ buf'[b].blockno = buf[b].blockno /\ buf'[b].valid = buf[b].valid
                         /\ buf'[b].data = buf[b].data /\ buf'[b].refcnt = buf[b].refcnt
                         /\ buf'[b].dirty <=> buf[b].dirty \/ b = cur[u]
      /\ \A b \in Bufs \ {cur[u]} : buf'[b] = buf[b]
      /\ buf' \in [Bufs -> Buffer]
  <2>0. /\ buf'[cur[u]] = [buf[cur[u]] EXCEPT !.dirty = TRUE] /\ buf[cur[u]] \in Buffer
        /\ \A b \in Bufs \ {cur[u]} : buf'[b] = buf[b]
    BY <1>1 DEF Inv, TypeOK
  <2>1. /\ \A b \in Bufs : /\ buf'[b].blockno = buf[b].blockno /\ buf'[b].valid = buf[b].valid
                           /\ buf'[b].data = buf[b].data /\ buf'[b].refcnt = buf[b].refcnt
        /\ \A b \in Bufs \ {cur[u]} : buf'[b] = buf[b]
        /\ buf' \in [Bufs -> Buffer]
    <3>1. [buf[cur[u]] EXCEPT !.dirty = TRUE] \in Buffer
      BY <2>0 DEF Buffer
    <3>2. buf' \in [Bufs -> Buffer]
      BY <1>1, <3>1 DEF Inv, TypeOK
    <3>3. \A b \in Bufs : /\ buf'[b].blockno = buf[b].blockno /\ buf'[b].valid = buf[b].valid
                           /\ buf'[b].data = buf[b].data /\ buf'[b].refcnt = buf[b].refcnt
      BY <1>1, <2>0 DEF Buffer
    <3> QED BY <2>0, <3>2, <3>3
  <2>2. buf'[cur[u]].dirty
    BY <1>1 DEF Inv, TypeOK, Buffer
  <2>3. \A b \in Bufs : buf'[b].dirty <=> buf[b].dirty \/ b = cur[u]
    BY <2>1, <2>2
  <2> QED BY <2>1, <2>3
<1>3. /\ pc' \in [Handles -> PCs] /\ unsaved' \in [Handles -> BOOLEAN]
      /\ \A w \in Handles \ {u} : pc'[w] = pc[w] /\ unsaved'[w] = unsaved[w]
      /\ pc'[u] \in {"held", "io_sleep"} /\ unsaved'[u] = FALSE
  BY DEF Inv, TypeOK, PCs
<1>4. \A w \in Handles : /\ cur[w] # 0 => cur[w] \in Bufs
                         /\ pc[w] # "idle" => cur[w] # 0
  BY DEF Inv, TypeOK, Users
<1>5. Locks'
  BY <1>1, <1>3 DEF Inv, Locks, Inside
<1>6. Users'
  BY <1>1, <1>2, <1>3, <1>4 DEF Inv, Users
<1>7. Flags'
  <2>1. buf[cur[u]].valid
    BY DEF Inv, Flags
  <2>2. \A w \in Handles \ {u} :
           pc[w] \in {"held", "io_check", "io_sleep"} => cur[w] \in Bufs \ {cur[u]}
    BY <1>1, <1>4 DEF Inside
  <2>3. \A b \in Bufs : /\ buf'[b].dirty => buf'[b].valid
                        /\ buf'[b].valid => buf'[b].blockno # NoBlock
    BY <1>2, <2>1 DEF Inv, Flags
  <2>4. \A w \in Handles :
            /\ pc'[w] \in {"held", "io_check"} => buf'[cur[w]].valid
            /\ pc'[w] = "io_check" => ~buf'[cur[w]].dirty
            /\ pc'[w] = "io_sleep" => ~buf'[cur[w]].valid \/ buf'[cur[w]].dirty
    BY <1>1, <1>2, <1>3, <2>1, <2>2 DEF Inv, Flags
  <2> QED BY <2>3, <2>4 DEF Flags
<1>8. Counts' /\ Unique' /\ Listed'
  BY <1>2 DEF Inv, Counts, UsersOf, Unique, Listed
<1>9. Synced'
  <2>1. ASSUME NEW b \in Bufs, ~Faults PROVE SyncedAt(b)'
    <3>1. SyncedAt(b)
      BY <2>1 DEF Inv, Synced
    <3>2. b # cur[u] => (Changing(b)' <=> Changing(b))
      BY <1>3 DEF Changing
    <3> QED BY <1>2, <3>1, <3>2 DEF SyncedAt
  <2> QED BY <2>1 DEF Synced
<1> QED BY <1>1, <1>2, <1>3, <1>5, <1>6, <1>7, <1>8, <1>9

(* log_write pins the buffer.                                              *)
LEMMA log_writeInv ==
    ASSUME Inv, NEW u \in Handles, log_write(u)
    PROVE  Inv'
<1>1. /\ pc[u] = "held" /\ UNCHANGED <<lru, lock, queue, drive, disk, pc, want, cur, panicked>>
      /\ buf' = [buf EXCEPT ![cur[u]].dirty = TRUE]
      /\ unsaved' = [unsaved EXCEPT ![u] = FALSE]
      /\ Cardinality(Dirty \cup {cur[u]}) \leq MaxDirty
  BY DEF log_write
<1>2. /\ Locks' /\ Users' /\ Flags' /\ Counts' /\ Unique' /\ Listed' /\ Synced'
      /\ buf' \in [Bufs -> Buffer] /\ unsaved' \in [Handles -> BOOLEAN]
      /\ cur[u] \in Bufs /\ \A b \in Bufs \ {cur[u]} : buf'[b] = buf[b]
  BY <1>1, Dirtied
<1>3. TypeOK'
  BY <1>1, <1>2 DEF Inv, TypeOK
<1>4. Requests'
  <2>1. ~Queued(cur[u])
    BY <1>1, Holds DEF Inv, Requests, Queued, Inside
  <2>2. queue # <<>> => queue[1] \in Bufs \ {cur[u]} /\ Command(queue[1])' = Command(queue[1])
    BY <1>1, <1>2, <2>1 DEF Inv, TypeOK, Queued, Command
  <2> QED BY <1>1, <2>2 DEF Inv, Requests, Queued
<1>5. FewPinned'
  <2>1. Pinned' \in SUBSET (Dirty \cup {cur[u]})
    BY <1>2 DEF Pinned, Dirty
  <2>2. IsFiniteSet(Dirty)
    BY Basics, FS_Subset DEF Dirty
  <2>3. IsFiniteSet(Dirty \cup {cur[u]})
    BY <2>2, FS_AddElement
  <2>4. /\ Cardinality(Pinned') \leq Cardinality(Dirty \cup {cur[u]})
        /\ Cardinality(Pinned') \in Nat /\ Cardinality(Dirty \cup {cur[u]}) \in Nat
    BY <2>1, <2>3, FS_Subset, FS_CardinalityType
  <2> QED BY <1>1, <2>4, BioAssumption DEF FewPinned
<1> QED BY <1>2, <1>3, <1>4, <1>5 DEF Inv

(* bwrite queues the write and does not panic.                             *)
LEMMA bwriteInv ==
    ASSUME Inv, NEW u \in Handles, bwrite(u)
    PROVE  Inv' /\ panicked' = panicked
<1> DEFINE dirtied == [buf EXCEPT ![cur[u]].dirty = TRUE]
<1>1. /\ pc[u] = "held" /\ UNCHANGED <<lru, lock, disk, want, cur>>
      /\ buf' = dirtied /\ iderw(u, dirtied)
      /\ unsaved' = [unsaved EXCEPT ![u] = FALSE]
  BY DEF bwrite
<1>2. cur[u] \in Bufs /\ dirtied[cur[u]].dirty
  BY <1>1, Holds DEF Inside, Inv, TypeOK, Buffer
<1>3. /\ queue' = Append(queue, cur[u])
      /\ drive' = IF queue = <<>> THEN Command(cur[u])' ELSE drive
      /\ pc' = [pc EXCEPT ![u] = "io_sleep"] /\ panicked' = panicked
  <2> HIDE DEF dirtied
  <2> QED BY <1>1, <1>2, iderwQueues DEF Command
<1>4. /\ Locks' /\ Users' /\ Flags' /\ Counts' /\ Unique' /\ Listed' /\ Synced'
      /\ buf' \in [Bufs -> Buffer] /\ pc' \in [Handles -> PCs] /\ unsaved' \in [Handles -> BOOLEAN]
      /\ buf'[cur[u]].dirty /\ \A b \in Bufs \ {cur[u]} : buf'[b] = buf[b]
  BY <1>1, <1>3, Dirtied
<1>5. /\ Requests' /\ queue' \in Seq(Bufs)
      /\ \A b \in Bufs : Queued(b)' <=> Queued(b) \/ b = cur[u]
  BY <1>1, <1>3, <1>4, QueueGrows
<1>6. TypeOK'
  <2>1. drive' \in Commands
    BY <1>1, <1>2, <1>3, <1>4 DEF Inv, TypeOK, Command, Commands, Buffer
  <2> QED BY <1>1, <1>3, <1>4, <1>5, <2>1 DEF Inv, TypeOK
<1>7. FewPinned'
  <2>1. Pinned' \in SUBSET Pinned
    BY <1>4, <1>5 DEF Pinned
  <2>2. IsFiniteSet(Pinned)
    BY Basics, FS_Subset DEF Pinned
  <2>3. /\ Cardinality(Pinned') \leq Cardinality(Pinned)
        /\ Cardinality(Pinned') \in Nat /\ Cardinality(Pinned) \in Nat
    BY <2>1, <2>2, FS_Subset, FS_CardinalityType
  <2> QED BY <2>3, BioAssumption DEF Inv, FewPinned
<1> QED BY <1>3, <1>4, <1>5, <1>6, <1>7 DEF Inv

(* A process woken in iderw finds its request done: ideintr sets B_VALID   *)
(* and clears B_DIRTY before wakeup, and nobody else has the buffer.       *)
LEMMA IoCheckInv ==
    ASSUME Inv, NEW u \in Handles, IoCheck(u)
    PROVE  Inv'
<1> USE DEF proc
<1>1. /\ pc[u] = "io_check" /\ pc' = [pc EXCEPT ![u] = "held"]
      /\ UNCHANGED <<buf, lru, lock, queue, drive, disk, want, cur, unsaved, panicked>>
  BY DEF IoCheck, Inv, Flags
<1>2. TypeOK' /\ Locks' /\ Users' /\ Flags'
  BY <1>1 DEF Inv, TypeOK, PCs, Locks, Inside, Users, Flags
<1>3. Counts' /\ Unique' /\ Listed' /\ Synced'
  BY <1>1 DEF Inv, Counts, UsersOf, Unique, Listed, Synced, SyncedAt, Changing
<1>4. Requests' /\ FewPinned'
  BY <1>1 DEF Inv, TypeOK, Requests, FewPinned, Pinned, Queued, Command
<1> QED BY <1>2, <1>3, <1>4 DEF Inv

(* brelse does not panic, and wakes all that sleep for the lock it gives   *)
(* up.                                                                     *)
LEMMA brelseInv ==
    ASSUME Inv, NEW u \in Handles, brelse(u)
    PROVE  Inv' /\ panicked' = panicked
<1> USE DEF proc
<1>1. /\ pc[u] = "held" /\ ~unsaved[u] /\ cur[u] \in Bufs /\ lock[cur[u]] = u
      /\ UNCHANGED <<buf, lru, queue, drive, disk, want, cur, unsaved, panicked>>
  BY Holds DEF brelse, Inside, holdingsleep
<1>2. /\ lock' = [lock EXCEPT ![cur[u]] = NoProc]
      /\ pc' = [w \in Handles |-> IF w = u THEN "unref"
                                ELSE IF pc[w] = "asleep" /\ cur[w] = cur[u] THEN "acquire"
                                ELSE pc[w]]
  BY <1>1 DEF brelse, releasesleep, holdingsleep
<1>3. TypeOK'
  BY <1>1, <1>2 DEF Inv, TypeOK, PCs
<1>4. Locks'
  BY <1>1, <1>2, BioAssumption DEF Inv, TypeOK, Locks, Inside
<1>5. Users'
  BY <1>1, <1>2 DEF Inv, TypeOK, Users
<1>6. Flags'
  BY <1>1, <1>2 DEF Inv, TypeOK, Flags
<1>7. Counts' /\ Unique' /\ Listed' /\ Synced'
  BY <1>1 DEF Inv, Counts, UsersOf, Unique, Listed, Synced, SyncedAt, Changing
<1>8. Requests' /\ FewPinned'
  <2>1. \A w \in Handles : pc'[w] = "io_sleep" <=> pc[w] = "io_sleep"
    BY <1>1, <1>2
  <2>2. Requests'
    BY <1>1, <2>1 DEF Inv, Requests, Queued, Command
  <2>3. FewPinned'
    BY <1>1 DEF Inv, FewPinned, Pinned, Queued
  <2> QED BY <2>2, <2>3
<1> QED BY <1>1, <1>3, <1>4, <1>5, <1>6, <1>7, <1>8 DEF Inv

(* ideintr completes the request at the head of the queue, wakes the one   *)
(* process that waits for it and starts the next.                          *)
LEMMA ideintrInv ==
    ASSUME Inv, ideintr
    PROVE  Inv'
<1> USE DEF proc
<1>1. queue \in Seq(Bufs) /\ queue # <<>>
  BY DEF ideintr, Inv, TypeOK, Requests
<1>2. PICK b \in Bufs : b = Head(queue) /\ b = queue[1]
  BY <1>1
<1>3. PICK ok \in BOOLEAN :
        /\ ~Faults => ok
        /\ disk' = IF drive.op = "write" /\ ok
                   THEN [disk EXCEPT ![buf[b].blockno] = drive.data] ELSE disk
        /\ buf' = [buf EXCEPT ![b].valid = TRUE, ![b].dirty = FALSE,
                      ![b].data = IF buf[b].dirty \/ ~ok THEN @ ELSE disk[buf[b].blockno]]
  BY <1>2, BioAssumption DEF ideintr
<1>4. /\ queue' = Tail(queue) /\ pc' = WakeIo(b)
      /\ drive' = IF Len(queue) > 1 THEN Command(queue[2]) ELSE Idle
      /\ UNCHANGED <<lru, lock, want, cur, unsaved, panicked>>
  BY <1>2 DEF ideintr, idestart, Command
<1>5. PICK u \in Handles : pc[u] = "io_sleep" /\ cur[u] = b
  BY <1>1, <1>2 DEF Inv, Requests
<1>6. /\ pc'[u] = "io_check" /\ \A w \in Handles \ {u} : pc'[w] = pc[w]
      /\ pc' \in [Handles -> PCs]
      /\ \A w \in Handles : w # u /\ cur[w] = b => pc[w] \notin Inside
      /\ buf[b].blockno \in Blocks /\ lock[b] = u
  <2>1. \A w \in Handles : w # u /\ cur[w] = b => pc[w] \notin Inside
    BY <1>5, Holds DEF Inside
  <2>2. \A w \in Handles : pc[w] = "io_sleep" /\ cur[w] = b <=> w = u
    BY <1>5, <2>1 DEF Inside
  <2>3. buf[b].blockno \in Blocks /\ lock[b] = u
    BY <1>5, Basics, Holds DEF Inv, Users, Inside
  <2> QED BY <1>4, <1>5, <2>1, <2>2, <2>3 DEF WakeIo, Inv, TypeOK, PCs
<1>7. /\ \A c \in Bufs \ {b} : buf'[c] = buf[c]
      /\ buf'[b].blockno = buf[b].blockno /\ buf'[b].refcnt = buf[b].refcnt
      /\ buf'[b].valid = TRUE /\ buf'[b].dirty = FALSE
      /\ buf'[b].data = IF buf[b].dirty \/ ~ok THEN buf[b].data ELSE disk[buf[b].blockno]
  BY <1>3 DEF Inv, TypeOK, Buffer
<1>8. /\ buf' \in [Bufs -> Buffer]
      /\ disk' \in [Blocks -> Values]
      /\ \A k \in Blocks \ {buf[b].blockno} : disk'[k] = disk[k]
      /\ buf[b].dirty /\ ok => disk'[buf[b].blockno] = buf[b].data
      /\ ~buf[b].dirty => disk' = disk
  <2>1. drive = IF buf[b].dirty THEN [op |-> "write", data |-> buf[b].data] ELSE [op |-> "read"]
    BY <1>1, <1>2 DEF Inv, Requests, Command
  <2>2. buf[b].data \in Values /\ buf[b].blockno \in Blocks /\ disk[buf[b].blockno] \in Values
    BY <1>6 DEF Inv, TypeOK, Buffer
  <2>3. buf' \in [Bufs -> Buffer]
    <3> DEFINE r == [buf[b] EXCEPT !.valid = TRUE, !.dirty = FALSE,
                        !.data = IF buf[b].dirty \/ ~ok THEN @ ELSE disk[buf[b].blockno]]
    <3>1. /\ buf[b] \in Buffer
          /\ (IF buf[b].dirty \/ ~ok THEN buf[b].data ELSE disk[buf[b].blockno]) \in Values
      BY <2>2 DEF Inv, TypeOK
    <3>2. r \in Buffer
      BY <3>1 DEF Buffer
    <3>3. buf' = [buf EXCEPT ![b] = r]
      BY <1>3 DEF Inv, TypeOK
    <3> HIDE DEF r
    <3> QED BY <3>2, <3>3 DEF Inv, TypeOK
  <2>4. CASE buf[b].dirty
    <3>1. drive.op = "write" /\ drive.data = buf[b].data
      BY <2>1, <2>4
    <3> QED BY <1>3, <2>2, <2>3, <2>4, <3>1 DEF Inv, TypeOK
  <2>5. CASE ~buf[b].dirty
    <3>1. drive.op # "write"
      BY <2>1, <2>5
    <3> QED BY <1>3, <2>3, <2>5, <3>1 DEF Inv, TypeOK
  <2> QED BY <2>4, <2>5
<1>9. /\ queue' \in Seq(Bufs) /\ Len(queue') = Len(queue) - 1 /\ Len(queue) \in Nat \ {0}
      /\ \A i \in 1 .. Len(queue) - 1 : queue'[i] = queue[i + 1]
  BY <1>1, <1>4, HeadTailProperties
<1>10. \A c \in Bufs : Queued(c)' <=> Queued(c) /\ c # b
  <2> SUFFICES ASSUME NEW c \in Bufs PROVE Queued(c)' <=> Queued(c) /\ c # b
    OBVIOUS
  <2>1. Queued(c)' => Queued(c) /\ c # b
    <3> SUFFICES ASSUME NEW i \in 1 .. Len(queue'), queue'[i] = c PROVE Queued(c) /\ c # b
      BY DEF Queued
    <3>1. i + 1 \in 1 .. Len(queue) /\ queue[i + 1] = c /\ 1 \in 1 .. Len(queue) /\ i + 1 # 1
      BY <1>9
    <3> QED BY <1>2, <3>1 DEF Queued, Inv, Requests
  <2>2. Queued(c) /\ c # b => Queued(c)'
    <3> SUFFICES ASSUME NEW i \in 1 .. Len(queue), queue[i] = c, c # b PROVE Queued(c)'
      BY DEF Queued
    <3>1. i - 1 \in 1 .. Len(queue') /\ queue'[i - 1] = c
      BY <1>2, <1>9
    <3> QED BY <3>1 DEF Queued
  <2> QED BY <2>1, <2>2
<1>11. TypeOK'
  <2>1. drive' \in Commands
    <3>1. Len(queue) > 1 => queue[2] \in Bufs
      BY <1>1
    <3>2. Len(queue) > 1 => Command(queue[2]) \in Commands
      BY <3>1 DEF Inv, TypeOK, Command, Commands, Buffer
    <3> QED BY <1>4, <3>2 DEF Commands
  <2> QED BY <1>4, <1>6, <1>8, <1>9, <2>1 DEF Inv, TypeOK
<1>12. Locks'
  BY <1>4, <1>5, <1>6 DEF Inv, Locks, Inside
<1>13. Users'
  BY <1>4, <1>5, <1>6, <1>7 DEF Inv, TypeOK, Users
<1>14. Flags'
  <2>1. \A c \in Bufs : /\ buf'[c].dirty => buf'[c].valid
                        /\ buf'[c].valid => buf'[c].blockno # NoBlock
    BY <1>6, <1>7, BioAssumption DEF Inv, Flags
  <2>2. \A w \in Handles \ {u} : pc[w] \in {"held", "io_check", "io_sleep"} => cur[w] \in Bufs \ {b}
    BY <1>6, Holds DEF Inside
  <2>3. \A w \in Handles :
            /\ pc'[w] \in {"held", "io_check"} => buf'[cur[w]].valid
            /\ pc'[w] = "io_check" => ~buf'[cur[w]].dirty
            /\ pc'[w] = "io_sleep" => ~buf'[cur[w]].valid \/ buf'[cur[w]].dirty
    BY <1>5, <1>6, <1>7, <2>2 DEF Inv, Flags
  <2> QED BY <1>4, <2>1, <2>3 DEF Flags
<1>15. Counts' /\ Unique' /\ Listed'
  <2>1. \A c \in Bufs : buf'[c].blockno = buf[c].blockno /\ buf'[c].refcnt = buf[c].refcnt
    BY <1>7
  <2>2. Counts'
    BY <1>4, <2>1 DEF Inv, Counts, UsersOf
  <2> QED BY <1>4, <2>1, <2>2 DEF Inv, Unique, Listed
<1>16. Requests'
  <2>1. \A w \in Handles : pc'[w] = "io_sleep" <=> pc[w] = "io_sleep" /\ w # u
    BY <1>6
  <2>2. \A w \in Handles : pc'[w] = "io_sleep" => Queued(cur[w])'
    BY <1>4, <1>5, <1>6, <1>10, <2>1, Holds DEF Inv, Requests, Inside
  <2>3. \A i \in 1 .. Len(queue') : \E w \in Handles : pc'[w] = "io_sleep" /\ cur[w] = queue'[i]
    <3> SUFFICES ASSUME NEW i \in 1 .. Len(queue')
                 PROVE  \E w \in Handles : pc'[w] = "io_sleep" /\ cur[w] = queue'[i]
      OBVIOUS
    <3>1. /\ i + 1 \in 1 .. Len(queue) /\ queue'[i] = queue[i + 1]
          /\ 1 \in 1 .. Len(queue) /\ i + 1 # 1
      BY <1>9
    <3>2. PICK w \in Handles : pc[w] = "io_sleep" /\ cur[w] = queue[i + 1]
      BY <3>1 DEF Inv, Requests
    <3>3. cur[w] # b
      BY <1>2, <3>1, <3>2 DEF Inv, Requests
    <3> QED BY <1>5, <2>1, <3>1, <3>2, <3>3
  <2>4. \A i, j \in 1 .. Len(queue') : queue'[i] = queue'[j] => i = j
    BY <1>9 DEF Inv, Requests
  <2>5. drive' = IF queue' = <<>> THEN Idle ELSE Command(queue[1])'
    <3>1. CASE Len(queue) > 1
      <4>1. queue' # <<>> /\ queue'[1] = queue[2] /\ queue[2] \in Bufs /\ queue[2] # b
        BY <1>1, <1>2, <1>9, <3>1 DEF Inv, Requests
      <4>2. Command(queue[2]) = Command(queue[1])'
        BY <1>7, <4>1 DEF Command
      <4> QED BY <1>4, <3>1, <4>1, <4>2
    <3>2. CASE ~(Len(queue) > 1)
      BY <1>4, <1>9, <3>2
    <3> QED BY <3>1, <3>2
  <2> QED BY <1>4, <2>2, <2>3, <2>4, <2>5 DEF Requests
<1>17. FewPinned'
  <2>1. Queued(b)
    BY <1>2, <1>9 DEF Queued
  <2>2. Pinned' = Pinned
    BY <1>7, <1>10, <2>1 DEF Pinned
  <2> QED BY <2>2 DEF Inv, FewPinned
<1>18. Synced'
  <2>1. ASSUME NEW c \in Bufs, ~Faults PROVE SyncedAt(c)'
    <3>1. Changing(c)' <=> Changing(c)
      BY <1>4 DEF Changing
    <3>2. CASE c = b
      <4>1. buf'[b].data = disk'[buf[b].blockno]
        BY <1>3, <1>7, <1>8, <2>1
      <4> QED BY <1>7, <3>2, <4>1 DEF SyncedAt
    <3>3. CASE c # b
      <4>1. SyncedAt(c) /\ buf'[c] = buf[c]
        BY <1>7, <2>1, <3>3 DEF Inv, Synced
      <4>2. buf[c].valid => buf[c].blockno \in Blocks \ {buf[b].blockno}
        BY <1>6, <3>3, BioAssumption DEF Inv, TypeOK, Buffer, Flags, Unique
      <4> QED BY <1>8, <3>1, <4>1, <4>2 DEF SyncedAt
    <3> QED BY <3>2, <3>3
  <2> QED BY <2>1 DEF Synced
<1> QED BY <1>11, <1>12, <1>13, <1>14, <1>15, <1>16, <1>17, <1>18 DEF Inv

(* The processes that have a buffer are finitely many, and fewer than all  *)
(* when one does not have it.                                              *)
LEMMA UsersCount ==
    ASSUME Inv, NEW b \in Bufs
    PROVE  /\ IsFiniteSet(UsersOf(b)) /\ Cardinality(UsersOf(b)) \in Nat
           /\ \A u \in Handles : /\ cur[u] = b => Cardinality(UsersOf(b)) > 0
                                 /\ cur[u] # b => Cardinality(UsersOf(b)) < Cardinality(Handles)
           /\ Cardinality(UsersOf(b)) = 0 <=> \A u \in Handles : cur[u] # b
<1>1. UsersOf(b) \in SUBSET Handles
  BY DEF UsersOf
<1>2. /\ IsFiniteSet(UsersOf(b)) /\ Cardinality(UsersOf(b)) \in Nat
      /\ Cardinality(UsersOf(b)) <= Cardinality(Handles)
      /\ Cardinality(UsersOf(b)) = Cardinality(Handles) => UsersOf(b) = Handles
  BY <1>1, Basics, FS_Subset, FS_CardinalityType
<1>3. Cardinality(UsersOf(b)) = 0 <=> UsersOf(b) = {}
  BY <1>2, FS_EmptySet
<1> QED BY <1>2, <1>3, Basics DEF UsersOf

(* brelse's move to the front of the list keeps every buffer in the list   *)
(* once.                                                                   *)
LEMMA FrontListed ==
    ASSUME Inv, NEW b \in Bufs
    PROVE  /\ Front(b) \in [Bufs -> Bufs]
           /\ \A i, j \in Bufs : Front(b)[i] = Front(b)[j] => i = j
           /\ \A c \in Bufs : \E i \in Bufs : Front(b)[i] = c
<1>1. lru \in [Bufs -> Bufs] /\ Listed
  BY DEF Inv, TypeOK
<1>2. PICK o \in Bufs : o = (CHOOSE i \in Bufs : lru[i] = b) /\ lru[o] = b
  BY <1>1 DEF Listed
<1> DEFINE g == [i \in Bufs |-> IF i = 1 THEN o ELSE IF i \leq o THEN i - 1 ELSE i]
<1>3. Front(b) = [i \in Bufs |-> IF i = 1 THEN b ELSE IF i \leq o THEN lru[i - 1] ELSE lru[i]]
  BY <1>2 DEF Front
<1>4. /\ g \in [Bufs -> Bufs]
      /\ \A i, j \in Bufs : g[i] = g[j] => i = j
      /\ \A j \in Bufs : \E i \in Bufs : g[i] = j
  <2>1. g \in [Bufs -> Bufs] /\ \A i, j \in Bufs : g[i] = g[j] => i = j
    BY BioAssumption DEF Bufs
  <2>2. ASSUME NEW j \in Bufs PROVE \E i \in Bufs : g[i] = j
    <3>1. CASE j = o
      <4>1. 1 \in Bufs /\ g[1] = o
        BY BioAssumption DEF Bufs
      <4> QED BY <3>1, <4>1
    <3>2. CASE j < o
      <4>1. j + 1 \in Bufs /\ g[j + 1] = j
        BY <3>2, BioAssumption DEF Bufs
      <4> QED BY <4>1
    <3>3. CASE j > o
      <4>1. g[j] = j
        BY <3>3, BioAssumption DEF Bufs
      <4> QED BY <4>1
    <3> QED BY <3>1, <3>2, <3>3, BioAssumption DEF Bufs
  <2> QED BY <2>1, <2>2
<1>5. \A i \in Bufs : Front(b)[i] = lru[g[i]]
  BY <1>2, <1>3
<1> HIDE DEF g
<1>6. \A i, j \in Bufs : Front(b)[i] = Front(b)[j] => i = j
  BY <1>1, <1>4, <1>5 DEF Listed
<1>7. \A c \in Bufs : \E i \in Bufs : Front(b)[i] = c
  <2> SUFFICES ASSUME NEW c \in Bufs PROVE \E i \in Bufs : Front(b)[i] = c
    OBVIOUS
  <2>1. PICK j \in Bufs : lru[j] = c
    BY <1>1 DEF Listed
  <2>2. PICK i \in Bufs : g[i] = j
    BY <1>4
  <2> QED BY <1>5, <2>1, <2>2
<1>8. Front(b) \in [Bufs -> Bufs]
  BY <1>1, <1>3, <1>4, <1>5
<1> QED BY <1>6, <1>7, <1>8

(* The last step of brelse gives up one reference.                         *)
LEMMA brelse_unrefInv ==
    ASSUME Inv, NEW u \in Handles, brelse_unref(u)
    PROVE  Inv'
<1>1. PICK b \in Bufs : b = cur[u]
  BY DEF brelse_unref, Inv, TypeOK, Users
<1>2. /\ pc[u] = "unref" /\ buf' = [buf EXCEPT ![b].refcnt = @ - 1]
      /\ pc' = [pc EXCEPT ![u] = "idle"] /\ want' = [want EXCEPT ![u] = NoBlock]
      /\ cur' = [cur EXCEPT ![u] = 0] /\ lru' \in {lru, Front(b)}
      /\ UNCHANGED <<lock, queue, drive, disk, unsaved, panicked>>
  BY <1>1 DEF brelse_unref, Unref
<1>3. /\ buf[b].refcnt = Cardinality(UsersOf(b)) /\ buf[b].refcnt - 1 \in 0 .. Cardinality(Handles)
      /\ UsersOf(b)' = UsersOf(b) \ {u} /\ Cardinality(UsersOf(b)') = buf[b].refcnt - 1
      /\ \A c \in Bufs \ {b} : UsersOf(c)' = UsersOf(c)
  <2>1. buf[b].refcnt = Cardinality(UsersOf(b)) /\ buf[b].refcnt \in 0 .. Cardinality(Handles)
    BY DEF Inv, Counts, TypeOK, Buffer
  <2>2. UsersOf(b)' = UsersOf(b) \ {u} /\ \A c \in Bufs \ {b} : UsersOf(c)' = UsersOf(c)
    BY <1>1, <1>2, Basics DEF UsersOf, Inv, TypeOK
  <2>3. u \in UsersOf(b)
    BY <1>1 DEF UsersOf
  <2>4. IsFiniteSet(UsersOf(b)) /\ Cardinality(UsersOf(b)) > 0
    BY <1>1, UsersCount
  <2>5. Cardinality(UsersOf(b) \ {u}) = Cardinality(UsersOf(b)) - 1
    BY <2>3, <2>4, FS_RemoveElement
  <2> QED BY <2>1, <2>2, <2>4, <2>5, Basics
<1>4. /\ buf' \in [Bufs -> Buffer]
      /\ \A c \in Bufs : /\ buf'[c].blockno = buf[c].blockno /\ buf'[c].valid = buf[c].valid
                         /\ buf'[c].dirty = buf[c].dirty /\ buf'[c].data = buf[c].data
      /\ buf'[b].refcnt = buf[b].refcnt - 1 /\ \A c \in Bufs \ {b} : buf'[c] = buf[c]
  <2>1. /\ buf'[b] = [buf[b] EXCEPT !.refcnt = @ - 1] /\ buf[b] \in Buffer
        /\ \A c \in Bufs \ {b} : buf'[c] = buf[c]
    BY <1>2 DEF Inv, TypeOK
  <2>2. [buf[b] EXCEPT !.refcnt = @ - 1] \in Buffer
    BY <1>3, <2>1 DEF Buffer
  <2>3. buf' \in [Bufs -> Buffer]
    BY <1>2, <2>2 DEF Inv, TypeOK
  <2> QED BY <2>1, <2>3 DEF Buffer
<1>5. /\ TypeOK' /\ Listed'
  <2>1. /\ Front(b) \in [Bufs -> Bufs]
        /\ \A i, j \in Bufs : Front(b)[i] = Front(b)[j] => i = j
        /\ \A c \in Bufs : \E i \in Bufs : Front(b)[i] = c
    BY FrontListed
  <2>2. Listed' /\ lru' \in [Bufs -> Bufs]
    <3>1. CASE lru' = lru
      BY <3>1 DEF Inv, TypeOK, Listed
    <3>2. CASE lru' = Front(b)
      BY <2>1, <3>2 DEF Listed
    <3> QED BY <1>2, <3>1, <3>2
  <2>3. TypeOK'
    BY <1>2, <1>4, <2>2 DEF Inv, TypeOK, PCs
  <2> QED BY <2>2, <2>3
<1>6. Locks'
  BY <1>1, <1>2, Basics DEF Inv, TypeOK, Locks, Inside
<1>7. Users'
  BY <1>1, <1>2, <1>4 DEF Inv, TypeOK, Users
<1>8. Flags' /\ Unique'
  <2>1. \A w \in Handles : pc[w] # "idle" => cur[w] \in Bufs
    BY DEF Inv, TypeOK, Users
  <2>2. \A w \in Handles \ {u} : pc'[w] = pc[w] /\ cur'[w] = cur[w]
    BY <1>2 DEF Inv, TypeOK
  <2>3. pc'[u] = "idle"
    BY <1>2 DEF Inv, TypeOK
  <2> QED BY <1>4, <2>1, <2>2, <2>3 DEF Inv, Flags, Unique
<1>9. Counts'
  <2>1. \A c \in Bufs \ {b} : buf'[c].refcnt = Cardinality(UsersOf(c)')
    BY <1>3, <1>4 DEF Inv, Counts
  <2> QED BY <1>3, <1>4, <2>1 DEF Counts
<1>10. Requests' /\ FewPinned'
  <2>1. \A w \in Handles : /\ pc'[w] = "io_sleep" <=> pc[w] = "io_sleep"
                           /\ pc[w] = "io_sleep" => cur'[w] = cur[w]
    BY <1>2 DEF Inv, TypeOK
  <2>2. queue # <<>> => queue[1] \in Bufs /\ Command(queue[1])' = Command(queue[1])
    BY <1>2, <1>4 DEF Inv, TypeOK, Command
  <2>3. Requests'
    BY <1>2, <2>1, <2>2 DEF Inv, Requests, Queued
  <2>4. Pinned' = Pinned
    BY <1>2, <1>4 DEF Pinned, Queued
  <2> QED BY <2>3, <2>4 DEF Inv, FewPinned
<1>11. Synced'
  <2>1. ~unsaved[u]
    BY <1>2 DEF Inv, Users
  <2>2. \A c \in Bufs : Changing(c)' <=> Changing(c)
    BY <1>2, <2>1, Basics DEF Changing, Inv, TypeOK
  <2>3. ASSUME NEW c \in Bufs, ~Faults PROVE SyncedAt(c)'
    BY <1>2, <1>4, <2>2, <2>3 DEF Inv, Synced, SyncedAt
  <2> QED BY <2>3 DEF Synced
<1> QED BY <1>5, <1>6, <1>7, <1>8, <1>9, <1>10, <1>11 DEF Inv

(* The scan from the end of the list finds a buffer of any non-empty set.  *)
LEMMA LastOf ==
    ASSUME Inv, NEW S \in SUBSET Bufs, S # {}
    PROVE  LeastRecent(S) \in S
<1>1. lru \in [Bufs -> Bufs] /\ Listed
  BY DEF Inv, TypeOK
<1>2. PICK k \in Bufs : lru[k] \in S
  BY <1>1 DEF Listed
<1> DEFINE T == {n \in Nat : NBUF - n \in Bufs /\ lru[NBUF - n] \in S}
<1>3. T \subseteq Nat /\ T # {}
  <2>1. NBUF - k \in T
    BY <1>2, BioAssumption DEF Bufs
  <2> QED BY <2>1
<1>4. PICK n \in T : \A m \in T : ~(<<m, n>> \in OpToRel(<, Nat))
  BY <1>3, WFMin, NatLessThanWellFounded
<1>5. n \in Nat /\ \A m \in T : m \in Nat /\ ~(m < n)
  BY <1>4 DEF OpToRel
<1>6. NBUF - n \in Bufs /\ lru[NBUF - n] \in S
  BY <1>4
<1>7. ASSUME NEW j \in NBUF - n + 1 .. NBUF, lru[j] \in S PROVE FALSE
  <2>1. NBUF - j \in Nat /\ NBUF - (NBUF - j) = j /\ j \in Bufs /\ NBUF - j < n
    BY <1>5, <1>6, BioAssumption DEF Bufs
  <2>2. NBUF - j \in T
    BY <1>7, <2>1
  <2> QED BY <1>5, <2>1, <2>2
<1>8. \E i \in Bufs : lru[i] \in S /\ \A j \in i + 1 .. NBUF : lru[j] \notin S
  BY <1>6, <1>7
<1> QED BY <1>8 DEF LeastRecent

(* bget gives a process a buffer: one that has the block, or one that      *)
(* nobody has and that loses its block, when the block is in no buffer.    *)
LEMMA Taken ==
    ASSUME Inv, NEW u \in Handles, NEW k \in Blocks, NEW b \in Bufs, NEW r,
           pc[u] = "idle", buf' = [buf EXCEPT ![b] = r],
           r = [blockno |-> k, valid |-> r.valid, dirty |-> r.dirty,
                refcnt |-> buf[b].refcnt + 1, data |-> buf[b].data],
           \/ r.valid = buf[b].valid /\ r.dirty = buf[b].dirty /\ buf[b].blockno = k
           \/ /\ r.valid = FALSE /\ r.dirty = FALSE /\ buf[b].refcnt = 0 /\ ~buf[b].dirty
              /\ Cached(k) = {},
           cur' = [cur EXCEPT ![u] = b], want' = [want EXCEPT ![u] = k],
           pc' = [pc EXCEPT ![u] = "acquire"],
           UNCHANGED <<lru, lock, queue, drive, disk, unsaved, panicked>>
    PROVE  Inv'
<1>1. cur[u] = 0 /\ ~unsaved[u]
  BY DEF Inv, Users
<1>2. /\ r.blockno = k /\ r.refcnt = buf[b].refcnt + 1 /\ r.data = buf[b].data
      /\ buf'[b] = r /\ \A c \in Bufs \ {b} : buf'[c] = buf[c]
  BY DEF Inv, TypeOK
<1>3. /\ buf[b].refcnt = Cardinality(UsersOf(b)) /\ Cardinality(UsersOf(b)) \in Nat
      /\ Cardinality(UsersOf(b)) < Cardinality(Handles) /\ IsFiniteSet(UsersOf(b))
  <2>1. cur[u] # b
    BY <1>1, Basics
  <2>2. buf[b].refcnt = Cardinality(UsersOf(b))
    BY DEF Inv, Counts
  <2> QED BY <2>1, <2>2, UsersCount
<1>4. /\ UsersOf(b)' = UsersOf(b) \cup {u} /\ u \notin UsersOf(b)
      /\ \A c \in Bufs \ {b} : UsersOf(c)' = UsersOf(c)
  BY <1>1, Basics DEF UsersOf, Inv, TypeOK
<1>5. Counts'
  <2>1. Cardinality(UsersOf(b)') = buf[b].refcnt + 1
    BY <1>3, <1>4, FS_AddElement
  <2>2. \A c \in Bufs \ {b} : buf'[c].refcnt = Cardinality(UsersOf(c)')
    BY <1>2, <1>4 DEF Inv, Counts
  <2> QED BY <1>2, <2>1, <2>2 DEF Counts
<1>6. ASSUME buf[b].refcnt = 0
      PROVE  (\A w \in Handles : cur[w] # b) /\ ~Queued(b)
  <2>1. \A w \in Handles : cur[w] # b
    BY <1>3, <1>6, UsersCount
  <2> QED BY <2>1 DEF Inv, Requests, Queued
<1>7. /\ buf[b].valid \in BOOLEAN /\ buf[b].dirty \in BOOLEAN /\ buf[b].data \in Values
      /\ r.valid \in BOOLEAN /\ r.dirty \in BOOLEAN
  BY DEF Inv, TypeOK, Buffer
<1>8. /\ r.valid => buf[b].valid
      /\ r.dirty = buf[b].dirty
      /\ \A w \in Handles : cur[w] = b => r.valid = buf[b].valid /\ buf[b].blockno = k
  BY <1>6, <1>7 DEF Inv, Flags
<1>9. TypeOK'
  <2>1. r \in Buffer
    <3>1. buf[b].refcnt + 1 \in 0 .. Cardinality(Handles)
      BY <1>3, Basics
    <3> QED BY <1>7, <3>1 DEF Buffer
  <2> QED BY <2>1 DEF Inv, TypeOK, PCs
<1>10. Locks'
  BY <1>1, Basics DEF Inv, TypeOK, Locks, Inside
<1>11. /\ \A w \in Handles \ {u} : cur'[w] = cur[w] /\ pc'[w] = pc[w] /\ want'[w] = want[w]
       /\ cur'[u] = b /\ pc'[u] = "acquire" /\ want'[u] = k
       /\ \A w \in Handles : cur[w] # 0 => cur[w] \in Bufs
       /\ \A w \in Handles : pc[w] # "idle" => cur[w] # 0
  BY DEF Inv, TypeOK, Users
<1>12. Users'
  BY <1>1, <1>2, <1>8, <1>11, Basics DEF Inv, Users
<1>13. Flags'
  <2>1. \A c \in Bufs : /\ buf'[c].dirty => buf'[c].valid
                        /\ buf'[c].valid => buf'[c].blockno # NoBlock
    BY <1>2, BioAssumption DEF Inv, Flags
  <2>2. \A w \in Handles :
            /\ pc'[w] \in {"held", "io_check"} => buf'[cur'[w]].valid
            /\ pc'[w] = "io_check" => ~buf'[cur'[w]].dirty
            /\ pc'[w] = "io_sleep" => ~buf'[cur'[w]].valid \/ buf'[cur'[w]].dirty
    BY <1>2, <1>8, <1>11 DEF Inv, Flags
  <2> QED BY <2>1, <2>2 DEF Flags
<1>14. Unique'
  BY <1>2 DEF Inv, Unique, Cached
<1>15. Listed'
  BY DEF Inv, Listed
<1>16. Requests' /\ FewPinned'
  <2>1. \A w \in Handles : /\ pc'[w] = "io_sleep" <=> pc[w] = "io_sleep"
                           /\ pc[w] = "io_sleep" => cur'[w] = cur[w]
    BY <1>11
  <2>2. queue # <<>> => queue[1] \in Bufs /\ Command(queue[1])' = Command(queue[1])
    BY <1>2, <1>8 DEF Inv, TypeOK, Command
  <2>3. Requests'
    BY <2>1, <2>2 DEF Inv, Requests, Queued
  <2>4. Pinned' = Pinned
    BY <1>2, <1>8 DEF Pinned, Queued
  <2> QED BY <2>3, <2>4 DEF Inv, FewPinned
<1>17. Synced'
  <2>1. \A c \in Bufs : Changing(c)' <=> Changing(c)
    BY <1>1, <1>11, Basics DEF Changing
  <2>2. ASSUME NEW c \in Bufs, ~Faults PROVE SyncedAt(c)'
    <3>1. SyncedAt(c)
      BY <2>2 DEF Inv, Synced
    <3> QED BY <1>2, <1>8, <2>1, <3>1 DEF SyncedAt
  <2> QED BY <2>2 DEF Synced
<1> QED BY <1>5, <1>9, <1>10, <1>12, <1>13, <1>14, <1>15, <1>16, <1>17 DEF Inv

(* bget, in its three ways out; after the panic nothing has changed but    *)
(* what the process asked for.                                             *)
LEMMA bgetInv ==
    ASSUME Inv, NEW u \in Handles, NEW k \in Blocks, bget(u, k)
    PROVE  Inv'
<1>1. /\ pc[u] = "idle" /\ want' = [want EXCEPT ![u] = k] /\ cur[u] = 0
      /\ UNCHANGED <<lru, lock, queue, drive, disk, unsaved>>
  BY DEF bget, Inv, Users
<1>2. CASE Cached(k) # {}
  <2>1. PICK b \in Cached(k) :
            /\ buf' = [buf EXCEPT ![b].refcnt = @ + 1] /\ cur' = [cur EXCEPT ![u] = b]
            /\ pc' = [pc EXCEPT ![u] = "acquire"] /\ panicked' = panicked
    BY <1>2 DEF bget
  <2> DEFINE r == [buf[b] EXCEPT !.refcnt = @ + 1]
  <2>2. b \in Bufs /\ buf[b].blockno = k /\ buf[b] \in Buffer
    BY <2>1 DEF Cached, Inv, TypeOK
  <2>3. /\ r = [blockno |-> k, valid |-> r.valid, dirty |-> r.dirty,
                refcnt |-> buf[b].refcnt + 1, data |-> buf[b].data]
        /\ r.valid = buf[b].valid /\ r.dirty = buf[b].dirty
    BY <2>2 DEF Buffer
  <2>4. buf' = [buf EXCEPT ![b] = r]
    BY <2>1, <2>2 DEF Inv, TypeOK
  <2> HIDE DEF r
  <2> QED BY <1>1, <2>1, <2>2, <2>3, <2>4, Taken
<1>3. CASE Cached(k) = {} /\ {b \in Bufs : Recyclable(b)} # {}
  <2> DEFINE free == {b \in Bufs : Recyclable(b)}
  <2>1. PICK b \in free : b = LeastRecent(free)
    BY <1>3, LastOf
  <2>2. /\ buf' = [buf EXCEPT ![b] = Recycled(b, k)] /\ cur' = [cur EXCEPT ![u] = b]
        /\ pc' = [pc EXCEPT ![u] = "acquire"] /\ panicked' = panicked
    BY <1>3, <2>1 DEF bget
  <2>3. b \in Bufs /\ buf[b].refcnt = 0 /\ ~buf[b].dirty /\ buf[b] \in Buffer
    BY <2>1 DEF Recyclable, Inv, TypeOK
  <2> DEFINE r == Recycled(b, k)
  <2>4. /\ r = [blockno |-> k, valid |-> r.valid, dirty |-> r.dirty,
                refcnt |-> buf[b].refcnt + 1, data |-> buf[b].data]
        /\ r.valid = FALSE /\ r.dirty = FALSE
    <3>1. r = [blockno |-> k, valid |-> FALSE, dirty |-> FALSE, refcnt |-> 1, data |-> buf[b].data]
      BY <2>3 DEF Recycled, Buffer
    <3> HIDE DEF r
    <3> QED BY <2>3, <3>1
  <2> HIDE DEF r
  <2>5. buf' = [buf EXCEPT ![b] = r]
    BY <2>2 DEF r
  <2> QED BY <1>1, <1>3, <2>2, <2>3, <2>4, <2>5, Taken
<1>4. CASE Cached(k) = {} /\ {b \in Bufs : Recyclable(b)} = {}
  <2>1. panicked' = "full" /\ UNCHANGED <<buf, cur, pc>>
    BY <1>4 DEF bget
  <2>2. TypeOK' /\ Locks' /\ Users' /\ Flags' /\ Unique' /\ Listed'
    BY <1>1, <2>1 DEF Inv, TypeOK, Locks, Users, Flags, Unique, Listed
  <2>3. Counts' /\ Synced'
    BY <1>1, <2>1 DEF Inv, Counts, UsersOf, Synced, SyncedAt, Changing
  <2>4. Requests'
    BY <1>1, <2>1 DEF Inv, Requests, Queued, Command
  <2>5. FewPinned'
    BY <1>1, <2>1 DEF Inv, FewPinned, Pinned, Queued
  <2> QED BY <2>2, <2>3, <2>4, <2>5 DEF Inv
<1> QED BY <1>2, <1>3, <1>4

(* binit's state satisfies the invariant.                                  *)
LEMMA InitInv ==
    ASSUME Init
    PROVE  Inv
<1>1. PICK x \in Values : buf = [b \in Bufs |-> [blockno |-> NoBlock, valid |-> FALSE,
                                     dirty |-> FALSE, refcnt |-> 0, data |-> x]]
  BY DEF Init
<1>2. TypeOK
  <2>1. buf \in [Bufs -> Buffer]
    BY <1>1, Basics DEF Buffer
  <2>2. lru \in [Bufs -> Bufs]
    BY BioAssumption DEF Init, Bufs
  <2>3. queue \in Seq(Bufs) /\ drive \in Commands /\ disk \in [Blocks -> Values]
    BY DEF Init, Commands
  <2>4. /\ lock \in [Bufs -> Handles \cup {NoProc}] /\ pc \in [Handles -> PCs]
        /\ want \in [Handles -> Blocks \cup {NoBlock}] /\ cur \in [Handles -> Bufs \cup {0}]
    BY DEF Init, PCs
  <2>5. unsaved \in [Handles -> BOOLEAN] /\ panicked \in {"no", "full", "bug"}
    BY DEF Init
  <2> QED BY <2>1, <2>2, <2>3, <2>4, <2>5 DEF TypeOK
<1>3. Locks /\ Users /\ Flags /\ Unique
  BY <1>1, Basics, BioAssumption DEF Init, Locks, Users, Flags, Unique, Inside
<1>4. Counts
  <2>1. \A b \in Bufs : UsersOf(b) = {}
    BY Basics DEF Init, UsersOf
  <2> QED BY <1>1, <2>1, FS_EmptySet DEF Counts
<1>5. Requests /\ Listed
  <2>1. Requests
    BY DEF Init, Requests
  <2>2. \A i, j \in Bufs : lru[i] = lru[j] => i = j
    BY BioAssumption DEF Init, Bufs
  <2>3. ASSUME NEW b \in Bufs PROVE \E i \in Bufs : lru[i] = b
    <3>1. NBUF + 1 - b \in Bufs /\ lru[NBUF + 1 - b] = b
      BY BioAssumption DEF Init, Bufs
    <3> QED BY <3>1
  <2> QED BY <2>1, <2>2, <2>3 DEF Listed
<1>6. FewPinned /\ Synced
  <2>1. Pinned = {}
    BY <1>1 DEF Pinned
  <2> QED BY <1>1, <2>1, FS_EmptySet, BioAssumption
             DEF FewPinned, Synced, SyncedAt
<1> QED BY <1>2, <1>3, <1>4, <1>5, <1>6 DEF Inv

(* Every step preserves the invariant.                                     *)
LEMMA StepInv ==
    ASSUME Inv, [Next]_vars
    PROVE  Inv'
<1>1. ASSUME NEW u \in Handles, Proceeds(u) PROVE Inv'
  BY <1>1, acquiresleepInv, breadInv, IoCheckInv, brelse_unrefInv DEF Proceeds
<1>2. ASSUME NEW u \in Handles,
             \/ \E k \in Blocks : bget(u, k)
             \/ \E v \in Values : Change(u, v)
             \/ log_write(u) \/ bwrite(u) \/ brelse(u)
      PROVE  Inv'
  BY <1>2, bgetInv, ChangeInv, log_writeInv, bwriteInv, brelseInv
<1>3. CASE UNCHANGED vars
  <2> USE <1>3 DEF vars
  <2>1. TypeOK' /\ Locks' /\ Users' /\ Flags' /\ Unique' /\ Listed'
    BY DEF Inv, TypeOK, Locks, Users, Flags, Unique, Listed
  <2>2. Counts' /\ Synced'
    BY DEF Inv, Counts, UsersOf, Synced, SyncedAt, Changing
  <2>3. Requests'
    BY DEF Inv, Requests, Queued, Command
  <2>4. FewPinned'
    BY DEF Inv, FewPinned, Pinned, Queued
  <2> QED BY <2>1, <2>2, <2>3, <2>4 DEF Inv
<1> QED BY <1>1, <1>2, <1>3, ideintrInv DEF Next, Halted

(* The invariant holds in every reachable state.                           *)
LEMMA Invariance == Spec => []Inv
BY InitInv, StepInv, PTL DEF Spec

(* For any number of processes, blocks and buffers, and also when disk     *)
(* requests fail: bget (bio.c:61-92) never leaves a block in two buffers,  *)
(* and a buffer that a process was given keeps its block until brelse.     *)
THEOREM Cache == Spec => []CacheInv
<1>1. Inv => CacheInv
  <2> SUFFICES ASSUME Inv PROVE OneBuffer
    BY DEF CacheInv, Inv
  <2> QED BY DEF Inv, Unique, Users, OneBuffer
<1> QED BY <1>1, Invariance, PTL

(* The two pointers of a process are for two blocks.                       *)
Apart == \A u \in Handles : cur[u] # 0 /\ cur[Other(u)] # 0 => want[u] # want[Other(u)]

(* The pointers of a process come in twos.                                 *)
LEMMA OtherPointer ==
    ASSUME NEW u \in Handles
    PROVE  Other(u) \in Handles /\ Other(u) # u /\ Other(Other(u)) = u /\ u[2] \in {1, 2}
<1>1. PICK p \in Procs, n \in {1, 2} : u = <<p, n>>
  BY DEF Handles
<1>2. Other(u) = <<p, 3 - n>> /\ 3 - n \in {1, 2} /\ 3 - n # n /\ 3 - (3 - n) = n
  BY <1>1 DEF Other
<1>3. Other(Other(u)) = <<p, n>>
  BY <1>2 DEF Other
<1>4. Other(u) \in Handles
  BY <1>1, <1>2 DEF Handles
<1> QED BY <1>1, <1>2, <1>3, <1>4

(* bget's second block is not the first one, so a process never asks for a *)
(* block that it has.                                                      *)
LEMMA ApartStep ==
    ASSUME Inv, Apart, [Next]_vars
    PROVE  Apart'
<1>1. ASSUME NEW u \in Handles, NEW k \in Blocks, bget(u, k) PROVE Apart'
  <2>1. /\ want' = [want EXCEPT ![u] = k]
        /\ \A w \in Handles \ {u} : cur'[w] = cur[w]
        /\ MayTake(u, k)
    BY <1>1 DEF bget, Inv, TypeOK
  <2>2. PICK o \in Handles : o = Other(u) /\ o # u /\ Other(o) = u
    BY OtherPointer
  <2>3. cur[o] # 0 => want[o] # k
    <3>1. CASE u[2] = 1
      BY <2>1, <2>2, <3>1 DEF MayTake, Inv, Users
    <3>2. CASE u[2] # 1
      BY <2>1, <2>2, <3>2, BioAssumption DEF MayTake
    <3> QED BY <3>1, <3>2
  <2> SUFFICES ASSUME NEW w \in Handles, cur'[w] # 0, cur'[Other(w)] # 0
               PROVE  want'[w] # want'[Other(w)]
    BY DEF Apart, Other
  <2>4. PICK x \in Handles : x = Other(w) /\ Other(x) = w
    BY OtherPointer
  <2>5. /\ want'[u] = k /\ \A y \in Handles \ {u} : want'[y] = want[y]
    BY <2>1 DEF Inv, TypeOK
  <2>6. CASE w = u
    BY <2>1, <2>2, <2>3, <2>4, <2>5, <2>6
  <2>7. CASE x = u
    BY <2>1, <2>2, <2>3, <2>4, <2>5, <2>7
  <2>8. CASE w # u /\ x # u
    BY <2>1, <2>4, <2>5, <2>8 DEF Apart
  <2> QED BY <2>6, <2>7, <2>8
<1>2. ASSUME NEW u \in Handles, brelse_unref(u) PROVE Apart'
  <2>1. /\ cur'[u] = 0 /\ \A w \in Handles \ {u} : cur'[w] = cur[w] /\ want'[w] = want[w]
    BY <1>2 DEF brelse_unref, Inv, TypeOK
  <2> SUFFICES ASSUME NEW w \in Handles, cur'[w] # 0, cur'[Other(w)] # 0
               PROVE  want'[w] # want'[Other(w)]
    BY DEF Apart, Other
  <2>2. PICK x \in Handles : x = Other(w)
    BY OtherPointer
  <2> QED BY <2>1, <2>2 DEF Apart
<1>3. CASE UNCHANGED <<cur, want>>
  BY <1>3 DEF Apart, Other
<1>4. \/ \E u \in Handles : (\E k \in Blocks : bget(u, k)) \/ brelse_unref(u)
      \/ UNCHANGED <<cur, want>>
  <2>1. ideintr \/ Halted \/ UNCHANGED vars => UNCHANGED <<cur, want>>
    BY DEF ideintr, Halted, vars, proc
  <2>2. ASSUME NEW u \in Handles, acquiresleep(u) \/ bread(u) \/ IoCheck(u)
        PROVE  UNCHANGED <<cur, want>>
    BY <2>2 DEF acquiresleep, bread, IoCheck, proc
  <2>3. ASSUME NEW u \in Handles,
               (\E v \in Values : Change(u, v)) \/ log_write(u) \/ bwrite(u) \/ brelse(u)
        PROVE  UNCHANGED <<cur, want>>
    BY <2>3 DEF Change, log_write, bwrite, brelse, proc
  <2> QED BY <2>1, <2>2, <2>3 DEF Next, Proceeds
<1> QED BY <1>1, <1>2, <1>3, <1>4

(* A process never asks for a block that it has.                           *)
LEMMA AlwaysApart == Spec => []Apart
<1>1. Init => Apart
  <2> SUFFICES ASSUME Init, NEW u \in Handles PROVE cur[u] = 0
    BY DEF Apart
  <2> QED BY DEF Init
<1> QED BY <1>1, ApartStep, Invariance, PTL DEF Spec

(* No wakeup is lost: a process asleep in acquiresleep (sleeplock.c:26-28) *)
(* waits for a lock that another process has, also when it has another     *)
(* buffer itself (log.c:75-76, log.c:183-184, fs.c:389-392), and one       *)
(* asleep in iderw (ide.c:163-165) for a buffer in the queue of a working  *)
(* drive.                                                                  *)
THEOREM Wakers == Spec => []SleepersHaveWaker
<1>1. Inv /\ Apart => SleepersHaveWaker
  <2> SUFFICES ASSUME Inv, Apart, NEW u \in Handles
               PROVE  /\ pc[u] = "asleep" => lock[cur[u]] \notin {NoProc, u, Other(u)}
                      /\ pc[u] = "io_sleep" => /\ \E i \in 1 .. Len(queue) : queue[i] = cur[u]
                                               /\ drive # Idle
    BY DEF SleepersHaveWaker
  <2>1. ASSUME pc[u] = "asleep" PROVE lock[cur[u]] \notin {NoProc, u, Other(u)}
    <3>1. cur[u] \in Bufs /\ lock[cur[u]] \notin {NoProc, u}
      BY <2>1 DEF Inv, TypeOK, Users, Locks, Inside
    <3>2. PICK o \in Handles : o = Other(u)
      BY OtherPointer
    <3>3. cur[o] = cur[u] => want[o] = want[u]
      BY <3>1, Basics DEF Inv, Users
    <3>4. cur[o] # cur[u]
      BY <3>1, <3>2, <3>3, Basics DEF Apart
    <3> QED BY <3>1, <3>2, <3>4 DEF Inv, Locks
  <2>2. ASSUME pc[u] = "io_sleep" PROVE Queued(cur[u]) /\ drive # Idle
    <3>1. Queued(cur[u]) /\ queue # <<>>
      BY <2>2 DEF Inv, TypeOK, Requests, Queued
    <3> QED BY <3>1 DEF Inv, Requests, Command, Idle
  <2> QED BY <2>1, <2>2 DEF Queued
<1> QED BY <1>1, Invariance, AlwaysApart, PTL

(* Every buffer is dirty or some process has it, and the log's MaxDirty    *)
(* and those of the processes are all.                                     *)
Exhausted ==
    /\ \A b \in Bufs : buf[b].dirty \/ \E u \in Handles : cur[u] = b
    /\ NBUF \leq Cardinality(Having) + MaxDirty

(* When bget finds no buffer (bio.c:84-92) the cache is used up: a count   *)
(* that is not 0 is a process's, and a buffer that is dirty and not being  *)
(* written is the log's.                                                   *)
LEMMA NoneFree ==
    ASSUME Inv, \A b \in Bufs : ~Recyclable(b)
    PROVE  Exhausted
<1> DEFINE used == {b \in Bufs : \E u \in Having : cur[u] = b}
           f == [u \in Having |-> cur[u]]
<1>1. \A b \in Bufs : b \in Pinned \/ \E u \in Handles : cur[u] = b
  <2> SUFFICES ASSUME NEW b \in Bufs, b \notin Pinned PROVE \E u \in Handles : cur[u] = b
    OBVIOUS
  <2>1. buf[b].refcnt # 0 \/ Queued(b)
    BY DEF Recyclable, Pinned
  <2>2. CASE buf[b].refcnt # 0
    <3>1. Cardinality(UsersOf(b)) # 0
      BY <2>2 DEF Inv, Counts
    <3> QED BY <3>1, UsersCount
  <2>3. CASE Queued(b)
    BY <2>3 DEF Inv, Requests, Queued
  <2> QED BY <2>1, <2>2, <2>3
<1>2. Bufs \in SUBSET (used \cup Pinned)
  BY <1>1, Basics DEF Having
<1>3. IsFiniteSet(Having) /\ Cardinality(Having) \in Nat
  <2>1. Having \in SUBSET Handles
    BY DEF Having
  <2> QED BY <2>1, Basics, FS_Subset, FS_CardinalityType
<1>4. /\ IsFiniteSet(used) /\ Cardinality(used) \leq Cardinality(Having)
      /\ Cardinality(used) \in Nat
  <2>1. f \in Surjection(Having, used)
    BY DEF Surjection, Having, Inv, TypeOK
  <2> HIDE DEF f, used
  <2> QED BY <1>3, <2>1, FS_Surjection, FS_CardinalityType
<1>5. IsFiniteSet(Pinned) /\ Cardinality(Pinned) \leq MaxDirty /\ Cardinality(Pinned) \in Nat
  <2>1. Pinned \in SUBSET Bufs
    BY DEF Pinned
  <2> QED BY <2>1, Basics, FS_Subset, FS_CardinalityType DEF Inv, FewPinned
<1> HIDE DEF f, used
<1>6. /\ IsFiniteSet(used \cup Pinned)
      /\ Cardinality(used \cup Pinned)
           = Cardinality(used) + Cardinality(Pinned) - Cardinality(used \cap Pinned)
      /\ Cardinality(used \cap Pinned) \in Nat
  <2>1. IsFiniteSet(used \cap Pinned)
    BY <1>4, FS_Intersection
  <2> QED BY <1>4, <1>5, <2>1, FS_Union, FS_CardinalityType
<1>7. NBUF \leq Cardinality(used \cup Pinned)
  BY <1>2, <1>6, Basics, FS_Subset
<1>8. NBUF \leq Cardinality(Having) + MaxDirty
  BY <1>3, <1>4, <1>5, <1>6, <1>7, BioAssumption
<1> QED BY <1>1, <1>8 DEF Exhausted, Pinned

(* For any number of processes, blocks and buffers, with two buffers for a *)
(* process that needs two: the panics of bwrite, brelse and iderw          *)
(* (bio.c:113, bio.c:124, ide.c:143-145) are never reached, and bget's     *)
(* (bio.c:92) only when no buffer is left: each is dirty or a process has  *)
(* it, and NBUF is at most what the processes have and the log may pin.    *)
THEOREM PanicsWhenFull == Spec => []PanicWhenFull
<1>1. Init => PanicWhenFull
  BY DEF Init, PanicWhenFull
<1>2. ASSUME Inv, PanicWhenFull, [Next]_vars PROVE PanicWhenFull'
  <2>0. CASE panicked' = "no"
    BY <2>0 DEF PanicWhenFull
  <2>1. ASSUME NEW u \in Handles, NEW k \in Blocks, bget(u, k), panicked' # "no"
        PROVE  PanicWhenFull'
    <3>1. /\ panicked' = "full" /\ UNCHANGED <<buf, cur>>
          /\ {b \in Bufs : Recyclable(b)} = {}
      BY <2>1 DEF bget
    <3>2. Exhausted
      BY <1>2, <3>1, NoneFree
    <3>3. Having' = Having
      BY <3>1 DEF Having
    <3> QED BY <3>1, <3>2, <3>3 DEF PanicWhenFull, Exhausted
  <2>2. ASSUME NEW u \in Handles, bread(u) PROVE panicked' = "no"
    <3>1. CASE buf[cur[u]].valid
      BY <2>2, <3>1 DEF bread
    <3>2. CASE ~buf[cur[u]].valid
      <4>1. pc[u] = "locked" /\ cur[u] \in Bufs /\ iderw(u, buf) /\ panicked = "no"
        BY <1>2, <2>2, <3>2, Holds DEF bread, Inside
      <4> QED BY <1>2, <3>2, <4>1, iderwQueues
    <3> QED BY <3>1, <3>2
  <2>3. ASSUME NEW u \in Handles, bwrite(u) \/ brelse(u) PROVE panicked' = "no"
    <3>1. panicked = "no"
      BY <2>3 DEF bwrite, brelse
    <3> QED BY <1>2, <2>3, <3>1, bwriteInv, brelseInv
  <2>4. ASSUME NEW u \in Handles, acquiresleep(u) \/ IoCheck(u) \/ brelse_unref(u)
        PROVE  panicked' = "no"
    BY <2>4 DEF acquiresleep, IoCheck, brelse_unref
  <2>5. ASSUME NEW u \in Handles, (\E v \in Values : Change(u, v)) \/ log_write(u)
        PROVE  panicked' = "no"
    BY <2>5 DEF Change, log_write
  <2>6. ASSUME ideintr PROVE panicked' = "no"
    BY <2>6 DEF ideintr
  <2>7. CASE UNCHANGED vars
    BY <1>2, <2>7 DEF PanicWhenFull, Having, vars
  <2> QED BY <1>2, <2>0, <2>1, <2>2, <2>3, <2>4, <2>5, <2>6, <2>7 DEF Next, Proceeds, Halted
<1> QED BY <1>1, <1>2, Invariance, PTL DEF Spec

(* What the refinement mapping gives for a block, when it is in buffer b   *)
(* and when it is in none.                                                 *)
MappedBy(b) ==
    LET k == buf[b].blockno IN
    k \in Blocks => /\ Contents[k] = IF buf[b].valid THEN buf[b].data ELSE disk[k]
                    /\ Holders[k] = HolderOf(b)
Mapped ==
    /\ Contents = [k \in Blocks |-> Contents[k]] /\ Holders = [k \in Blocks |-> Holders[k]]
    /\ \A b \in Bufs : MappedBy(b)
    /\ \A k \in Blocks : Cached(k) = {} => Contents[k] = disk[k] /\ Holders[k] = NoProc

(* The values of the refinement mapping, before and after a step.          *)
LEMMA Mapping ==
    /\ Inv => Mapped
    /\ Inv' => Mapped'
<1>1. ASSUME Unique, NEW b \in Bufs, buf[b].blockno \in Blocks PROVE Cached(buf[b].blockno) = {b}
  BY <1>1, BioAssumption DEF Unique, Cached
<1>2. ASSUME Unique PROVE Mapped
  <2>1. ASSUME NEW b \in Bufs PROVE MappedBy(b)
    BY <1>1, <1>2, <2>1 DEF MappedBy, Contents, Holders
  <2> QED BY <2>1 DEF Mapped, Contents, Holders
<1>3. ASSUME Unique', NEW b \in Bufs, buf'[b].blockno \in Blocks PROVE Cached(buf[b].blockno)' = {b}
  BY <1>3, BioAssumption DEF Unique, Cached
<1>4. ASSUME Unique' PROVE Mapped'
  <2>1. ASSUME NEW b \in Bufs PROVE MappedBy(b)'
    BY <1>3, <1>4, <2>1 DEF MappedBy, Contents, Holders
  <2> QED BY <2>1 DEF Mapped, Contents, Holders
<1> QED BY <1>2, <1>4 DEF Inv

(* A step that changes no block of a buffer, no valid contents and no lock *)
(* of a valid buffer is no step of BlockStore.                             *)
LEMMA Stutter ==
    ASSUME Mapped, Mapped', disk' = disk,
           \A b \in Bufs : /\ buf'[b].blockno = buf[b].blockno /\ buf'[b].valid = buf[b].valid
                           /\ buf[b].valid => buf'[b].data = buf[b].data /\ lock'[b] = lock[b]
    PROVE  UNCHANGED <<Contents, Holders>>
<1>1. ASSUME NEW k \in Blocks PROVE Contents'[k] = Contents[k] /\ Holders'[k] = Holders[k]
  <2>1. Cached(k)' = Cached(k)
    BY DEF Cached
  <2>2. CASE Cached(k) = {}
    BY <2>1, <2>2 DEF Mapped
  <2>3. CASE Cached(k) # {}
    <3>1. PICK b \in Bufs : buf[b].blockno = k
      BY <2>3 DEF Cached
    <3>2. MappedBy(b) /\ MappedBy(b)'
      BY DEF Mapped
    <3>3. HolderOf(b)' = HolderOf(b)
      BY DEF HolderOf
    <3>4. Holders'[k] = Holders[k]
      BY <3>1, <3>2, <3>3 DEF MappedBy
    <3>5. Contents'[k] = Contents[k]
      BY <3>1, <3>2 DEF MappedBy
    <3> QED BY <3>4, <3>5
  <2> QED BY <2>2, <2>3
<1> QED BY <1>1 DEF Mapped

(* A step that gives a valid buffer's lock to h changes the holder of its  *)
(* block and no contents.                                                  *)
LEMMA NewHolder ==
    ASSUME Inv, Inv', disk' = disk, NEW b \in Bufs, buf[b].blockno \in Blocks, NEW h,
           \A c \in Bufs : buf'[c].blockno = buf[c].blockno,
           \A c \in Bufs \ {b} : buf'[c] = buf[c] /\ lock'[c] = lock[c],
           buf'[b].valid, lock'[b] = h,
           buf'[b].data = IF buf[b].valid THEN buf[b].data ELSE disk[buf[b].blockno]
    PROVE  /\ Contents' = Contents
           /\ Holders' = [Holders EXCEPT ![buf[b].blockno] = h]
           /\ Holders[buf[b].blockno] = HolderOf(b)
<1>1. Mapped /\ Mapped'
  BY Mapping
<1>2. PICK k \in Blocks : k = buf[b].blockno
  OBVIOUS
<1>3. Contents'[k] = Contents[k] /\ Holders'[k] = h /\ Holders[k] = HolderOf(b)
  <2>1. MappedBy(b) /\ MappedBy(b)' /\ buf'[b].blockno = k
    BY <1>1, <1>2 DEF Mapped
  <2>2. HolderOf(b)' = h
    BY DEF HolderOf
  <2>3. Holders'[k] = h /\ Holders[k] = HolderOf(b)
    BY <1>2, <2>1, <2>2 DEF MappedBy
  <2>4. Contents'[k] = Contents[k]
    BY <1>2, <2>1 DEF MappedBy
  <2> QED BY <2>3, <2>4
<1>4. ASSUME NEW j \in Blocks, j # k PROVE Contents'[j] = Contents[j] /\ Holders'[j] = Holders[j]
  <2>1. Cached(j)' = Cached(j)
    BY DEF Cached
  <2>2. CASE Cached(j) = {}
    BY <1>1, <2>1, <2>2 DEF Mapped
  <2>3. CASE Cached(j) # {}
    <3>1. PICK c \in Bufs \ {b} : buf[c].blockno = j
      BY <1>2, <1>4, <2>3 DEF Cached
    <3>2. MappedBy(c) /\ MappedBy(c)'
      BY <1>1 DEF Mapped
    <3>3. HolderOf(c)' = HolderOf(c)
      BY DEF HolderOf
    <3> QED BY <3>1, <3>2, <3>3 DEF MappedBy
  <2> QED BY <2>2, <2>3
<1>5. /\ Contents = [j \in Blocks |-> Contents[j]] /\ Contents' = [j \in Blocks |-> Contents'[j]]
      /\ Holders = [j \in Blocks |-> Holders[j]] /\ Holders' = [j \in Blocks |-> Holders'[j]]
  BY <1>1 DEF Mapped
<1>6. Contents' = Contents
  BY <1>3, <1>4, <1>5
<1>7. Holders' = [Holders EXCEPT ![k] = h]
  BY <1>3, <1>4, <1>5
<1> QED BY <1>2, <1>3, <1>6, <1>7

(* The process that BlockStore says has a block has it locked in a valid   *)
(* buffer.                                                                 *)
LEMMA HeldBlock ==
    ASSUME Inv, NEW u \in Handles, NEW j \in Blocks, Holders[j] = u
    PROVE  \E b \in Bufs : buf[b].blockno = j /\ lock[b] = u /\ buf[b].valid /\ cur[u] = b
<1>1. Mapped
  BY Mapping
<1>2. PICK b \in Bufs : buf[b].blockno = j
  BY <1>1, BioAssumption DEF Mapped, Cached
<1>3. HolderOf(b) = u
  BY <1>1, <1>2 DEF Mapped, MappedBy
<1>4. buf[b].valid /\ lock[b] = u
  BY <1>3, BioAssumption DEF HolderOf
<1> QED BY <1>2, <1>4 DEF Inv, Locks

(* bget changes no contents: a recycled buffer that was valid agreed with  *)
(* the disk.                                                               *)
LEMMA bgetMaps ==
    ASSUME ~Faults, Inv, Inv', NEW u \in Handles, NEW k \in Blocks, bget(u, k)
    PROVE  UNCHANGED <<Contents, Holders>>
<1>1. Mapped /\ Mapped' /\ disk' = disk /\ lock' = lock
  BY Mapping DEF bget
<1>2. CASE Cached(k) # {}
  <2>1. PICK b \in Cached(k) : buf' = [buf EXCEPT ![b].refcnt = @ + 1]
    BY <1>2 DEF bget
  <2>2. \A c \in Bufs : /\ buf'[c].blockno = buf[c].blockno /\ buf'[c].valid = buf[c].valid
                        /\ buf'[c].data = buf[c].data
    BY <2>1 DEF Cached, Inv, TypeOK, Buffer
  <2> QED BY <1>1, <2>2, Stutter
<1>3. CASE Cached(k) = {} /\ {b \in Bufs : Recyclable(b)} # {}
  <2> DEFINE free == {b \in Bufs : Recyclable(b)}
  <2>1. PICK b \in free : b = LeastRecent(free)
    BY <1>3, LastOf
  <2>2. buf' = [buf EXCEPT ![b] = Recycled(b, k)]
    BY <1>3, <2>1 DEF bget
  <2>3. b \in Bufs /\ buf[b].refcnt = 0 /\ ~buf[b].dirty
    BY <2>1 DEF Recyclable
  <2>4. \A w \in Handles : cur[w] # b
    BY <2>3, UsersCount DEF Inv, Counts
  <2>5. lock[b] = NoProc /\ ~Changing(b)
    BY <2>3, <2>4 DEF Inv, TypeOK, Locks, Changing
  <2>6. buf[b].valid => buf[b].data = disk[buf[b].blockno]
    BY <2>3, <2>5 DEF Inv, Synced, SyncedAt
  <2>7. /\ buf'[b].blockno = k /\ buf'[b].valid = FALSE
        /\ \A c \in Bufs \ {b} : buf'[c] = buf[c]
    BY <2>2, <2>3 DEF Recycled, Inv, TypeOK
  <2>8. ASSUME NEW j \in Blocks PROVE Contents'[j] = Contents[j] /\ Holders'[j] = Holders[j]
    <3>1. CASE j = k
      <4>1. Contents[k] = disk[k] /\ Holders[k] = NoProc
        BY <1>1, <1>3 DEF Mapped
      <4>2. MappedBy(b)'
        BY <1>1, <2>3 DEF Mapped
      <4>3. HolderOf(b)' = NoProc
        BY <2>7 DEF HolderOf
      <4> QED BY <1>1, <2>7, <3>1, <4>1, <4>2, <4>3 DEF MappedBy
    <3>2. CASE j # k /\ buf[b].blockno = j
      <4>1. Cached(j)' = {}
        BY <2>3, <2>7, <3>2, BioAssumption DEF Inv, Unique, Cached
      <4>2. Contents'[j] = disk[j] /\ Holders'[j] = NoProc
        BY <1>1, <4>1 DEF Mapped
      <4>3. MappedBy(b)
        BY <1>1, <2>3 DEF Mapped
      <4>4. HolderOf(b) = NoProc
        BY <2>5 DEF HolderOf
      <4> QED BY <2>6, <3>2, <4>2, <4>3, <4>4 DEF MappedBy
    <3>3. CASE j # k /\ buf[b].blockno # j
      <4>1. Cached(j)' = Cached(j)
        BY <2>3, <2>7, <3>3 DEF Cached
      <4>2. CASE Cached(j) = {}
        BY <1>1, <4>1, <4>2 DEF Mapped
      <4>3. CASE Cached(j) # {}
        <5>1. PICK c \in Bufs \ {b} : buf[c].blockno = j
          BY <3>3, <4>3 DEF Cached
        <5>2. MappedBy(c) /\ MappedBy(c)'
          BY <1>1 DEF Mapped
        <5>3. HolderOf(c)' = HolderOf(c)
          BY <1>1, <2>7 DEF HolderOf
        <5> QED BY <1>1, <2>7, <5>1, <5>2, <5>3 DEF MappedBy
      <4> QED BY <4>2, <4>3
    <3> QED BY <3>1, <3>2, <3>3
  <2> QED BY <1>1, <2>8 DEF Mapped
<1>4. CASE Cached(k) = {} /\ {b \in Bufs : Recyclable(b)} = {}
  <2>1. buf' = buf
    BY <1>4 DEF bget
  <2> QED BY <1>1, <2>1, Stutter
<1> QED BY <1>2, <1>3, <1>4

(* A process gets a block that nobody had, and has no other.               *)
LEMMA GetMaps ==
    ASSUME Inv, NEW u \in Handles, NEW b \in Bufs, cur[u] = b, HolderOf(b) = NoProc,
           buf[b].blockno \in Blocks, Holders[buf[b].blockno] = HolderOf(b),
           \A c \in Bufs : lock[c] = u => ~buf[c].valid,
           Holders' = [Holders EXCEPT ![buf[b].blockno] = u], Contents' = Contents
    PROVE  Store!Next
<1>1. \A j \in Blocks : Holders[j] # u
  BY HeldBlock
<1>2. Store!Get(u, buf[b].blockno)
  BY <1>1 DEF Store!Get
<1> QED BY <1>2 DEF Store!Next

(* acquiresleep of a valid buffer is Get, any other changes nothing.       *)
LEMMA acquiresleepMaps ==
    ASSUME Inv, Inv', NEW u \in Handles, acquiresleep(u)
    PROVE  Store!Next \/ UNCHANGED <<Contents, Holders>>
<1>1. PICK b \in Bufs : b = cur[u] /\ pc[u] = "acquire"
  BY DEF acquiresleep, Inv, TypeOK, Users
<1>2. Mapped /\ Mapped' /\ buf' = buf /\ disk' = disk
  BY Mapping DEF acquiresleep
<1>3. CASE lock[b] # NoProc
  BY <1>1, <1>2, <1>3, Stutter DEF acquiresleep
<1>4. CASE lock[b] = NoProc
  <2>1. lock' = [lock EXCEPT ![b] = u] /\ lock'[b] = u /\ \A c \in Bufs \ {b} : lock'[c] = lock[c]
    BY <1>1, <1>4 DEF acquiresleep, Inv, TypeOK
  <2>2. CASE ~buf[b].valid
    BY <1>2, <2>1, <2>2, Stutter
  <2>3. CASE buf[b].valid
    <3>1. buf[b].blockno \in Blocks
      BY <1>1, Basics DEF Inv, Users
    <3>2. /\ Contents' = Contents /\ Holders' = [Holders EXCEPT ![buf[b].blockno] = u]
          /\ Holders[buf[b].blockno] = HolderOf(b)
      BY <1>2, <2>1, <2>3, <3>1, NewHolder
    <3>3. HolderOf(b) = NoProc
      BY <1>4 DEF HolderOf
    <3>4. \A c \in Bufs : lock[c] # u
      BY <1>1 DEF Inv, Locks, Inside
    <3> QED BY <1>1, <3>1, <3>2, <3>3, <3>4, GetMaps
  <2> QED BY <2>2, <2>3
<1> QED BY <1>3, <1>4

(* The end of a read is Get by the process that waits for it; the end of a *)
(* write changes nothing, since the drive wrote what is in the buffer.     *)
LEMMA ideintrMaps ==
    ASSUME ~Faults, Inv, Inv', ideintr
    PROVE  Store!Next \/ UNCHANGED <<Contents, Holders>>
<1>1. Mapped /\ Mapped' /\ lock' = lock /\ queue \in Seq(Bufs) /\ queue # <<>>
  BY Mapping DEF ideintr, Inv, TypeOK, Requests, proc
<1>2. PICK b \in Bufs : b = Head(queue) /\ b = queue[1]
  BY <1>1
<1>3. PICK u \in Handles : pc[u] = "io_sleep" /\ cur[u] = b
  BY <1>1, <1>2 DEF Inv, Requests
<1>4. buf[b].blockno \in Blocks /\ lock[b] = u
  BY <1>3, Basics, Holds DEF Inv, Users, Inside
<1>5. /\ disk' = IF drive.op = "write"
                 THEN [disk EXCEPT ![buf[b].blockno] = drive.data] ELSE disk
      /\ buf' = [buf EXCEPT ![b].valid = TRUE, ![b].dirty = FALSE,
                    ![b].data = IF buf[b].dirty THEN @ ELSE disk[buf[b].blockno]]
  BY <1>2 DEF ideintr
<1>6. drive = IF buf[b].dirty THEN [op |-> "write", data |-> buf[b].data] ELSE [op |-> "read"]
  BY <1>1, <1>2 DEF Inv, Requests, Command
<1>7. /\ \A c \in Bufs \ {b} : buf'[c] = buf[c]
      /\ buf'[b].blockno = buf[b].blockno /\ buf'[b].valid = TRUE
      /\ buf'[b].data = IF buf[b].dirty THEN buf[b].data ELSE disk[buf[b].blockno]
  BY <1>5 DEF Inv, TypeOK, Buffer
<1>8. CASE ~buf[b].dirty
  <2>1. disk' = disk /\ ~buf[b].valid
    BY <1>3, <1>5, <1>6, <1>8 DEF Inv, Flags
  <2>2. /\ Contents' = Contents /\ Holders' = [Holders EXCEPT ![buf[b].blockno] = u]
        /\ Holders[buf[b].blockno] = HolderOf(b)
    BY <1>1, <1>4, <1>7, <1>8, <2>1, NewHolder
  <2>3. HolderOf(b) = NoProc
    BY <2>1 DEF HolderOf
  <2>4. \A c \in Bufs : lock[c] = u => ~buf[c].valid
    BY <1>3, <2>1 DEF Inv, Locks
  <2> QED BY <1>3, <1>4, <2>2, <2>3, <2>4, GetMaps
<1>9. CASE buf[b].dirty
  <2>1. PICK k \in Blocks : k = buf[b].blockno
    BY <1>4
  <2>2. buf[b].valid /\ drive.op = "write"
    BY <1>6, <1>9 DEF Inv, Flags
  <2>3. \A j \in Blocks \ {k} : disk'[j] = disk[j]
    BY <1>5, <2>1, <2>2 DEF Inv, TypeOK
  <2>4. ASSUME NEW j \in Blocks PROVE Contents'[j] = Contents[j] /\ Holders'[j] = Holders[j]
    <3>1. Cached(j)' = Cached(j)
      BY <1>7 DEF Cached
    <3>2. CASE Cached(j) = {}
      <4>1. j # k
        BY <2>1, <3>2 DEF Cached
      <4> QED BY <1>1, <2>3, <3>1, <3>2, <4>1 DEF Mapped
    <3>3. CASE Cached(j) # {}
      <4>1. PICK c \in Bufs : buf[c].blockno = j
        BY <3>3 DEF Cached
      <4>2. MappedBy(c) /\ MappedBy(c)'
        BY <1>1 DEF Mapped
      <4>3. HolderOf(c)' = HolderOf(c) /\ buf'[c].blockno = j /\ buf'[c].valid = buf[c].valid
        BY <1>1, <1>7, <2>2, <4>1 DEF HolderOf
      <4>4. ~buf[c].valid => disk'[j] = disk[j]
        BY <2>1, <2>2, <2>3, <4>1, BioAssumption DEF Inv, Unique
      <4>5. buf'[c].data = buf[c].data
        BY <1>7, <1>9
      <4>6. Holders'[j] = Holders[j]
        BY <4>1, <4>2, <4>3 DEF MappedBy
      <4>7. Contents'[j] = Contents[j]
        BY <4>1, <4>2, <4>3, <4>4, <4>5 DEF MappedBy
      <4> QED BY <4>6, <4>7
    <3> QED BY <3>2, <3>3
  <2> QED BY <1>1, <2>4 DEF Mapped
<1> QED BY <1>8, <1>9

(* A change of the buffer is Change.                                       *)
LEMMA ChangeMaps ==
    ASSUME Inv, Inv', NEW u \in Handles, NEW v \in Values, Change(u, v)
    PROVE  Store!Next
<1>1. PICK b \in Bufs : b = cur[u] /\ lock[b] = u /\ buf[b].valid /\ buf[b].blockno \in Blocks
  <2>1. pc[u] = "held"
    BY DEF Change
  <2> QED BY <2>1, Holds, Basics DEF Inside, Inv, Users, Flags
<1>2. Mapped /\ Mapped' /\ disk' = disk /\ lock' = lock
  BY Mapping DEF Change
<1>3. PICK k \in Blocks : k = buf[b].blockno
  BY <1>1
<1>4. /\ buf'[b].blockno = k /\ buf'[b].valid = buf[b].valid /\ buf'[b].data = v
      /\ \A c \in Bufs \ {b} : buf'[c] = buf[c]
  BY <1>1, <1>3 DEF Change, Inv, TypeOK, Buffer
<1>5. Contents'[k] = v /\ Holders'[k] = u /\ Holders[k] = u
  <2>1. MappedBy(b) /\ MappedBy(b)'
    BY <1>2 DEF Mapped
  <2>2. HolderOf(b) = u /\ HolderOf(b)' = u
    BY <1>1, <1>2, <1>4 DEF HolderOf
  <2> QED BY <1>1, <1>3, <1>4, <2>1, <2>2 DEF MappedBy
<1>6. ASSUME NEW j \in Blocks, j # k PROVE Contents'[j] = Contents[j] /\ Holders'[j] = Holders[j]
  <2>1. Cached(j)' = Cached(j)
    BY <1>3, <1>4 DEF Cached
  <2>2. CASE Cached(j) = {}
    BY <1>2, <2>1, <2>2 DEF Mapped
  <2>3. CASE Cached(j) # {}
    <3>1. PICK c \in Bufs \ {b} : buf[c].blockno = j
      BY <1>3, <1>6, <2>3 DEF Cached
    <3>2. MappedBy(c) /\ MappedBy(c)'
      BY <1>2 DEF Mapped
    <3>3. HolderOf(c)' = HolderOf(c)
      BY <1>2, <1>4 DEF HolderOf
    <3> QED BY <1>2, <1>4, <3>1, <3>2, <3>3 DEF MappedBy
  <2> QED BY <2>2, <2>3
<1>7. /\ Contents = [j \in Blocks |-> Contents[j]] /\ Contents' = [j \in Blocks |-> Contents'[j]]
      /\ Holders = [j \in Blocks |-> Holders[j]] /\ Holders' = [j \in Blocks |-> Holders'[j]]
  BY <1>2 DEF Mapped
<1>8. Contents' = [Contents EXCEPT ![k] = v] /\ Holders' = Holders
  BY <1>5, <1>6, <1>7
<1>9. Store!Change(u, k, v)
  BY <1>5, <1>8 DEF Store!Change
<1> QED BY <1>9 DEF Store!Next

(* releasesleep in brelse is Put.                                          *)
LEMMA brelseMaps ==
    ASSUME Inv, Inv', NEW u \in Handles, brelse(u)
    PROVE  Store!Next
<1>1. PICK b \in Bufs : b = cur[u] /\ lock[b] = u /\ buf[b].valid /\ buf[b].blockno \in Blocks
  <2>1. pc[u] = "held"
    BY DEF brelse
  <2> QED BY <2>1, Holds, Basics DEF Inside, Inv, Users, Flags
<1>2. buf' = buf /\ disk' = disk /\ lock' = [lock EXCEPT ![b] = NoProc]
  BY <1>1 DEF brelse, releasesleep, holdingsleep
<1>3. lock'[b] = NoProc /\ \A c \in Bufs \ {b} : lock'[c] = lock[c]
  BY <1>2 DEF Inv, TypeOK
<1>4. /\ Contents' = Contents /\ Holders' = [Holders EXCEPT ![buf[b].blockno] = NoProc]
      /\ Holders[buf[b].blockno] = HolderOf(b)
  BY <1>1, <1>2, <1>3, NewHolder
<1>5. HolderOf(b) = u
  BY <1>1 DEF HolderOf
<1>6. Store!Put(u, buf[b].blockno)
  BY <1>4, <1>5 DEF Store!Put
<1> QED BY <1>1, <1>6 DEF Store!Next

(* As long as the drive makes no errors the cache implements BlockStore: a *)
(* block has one value, at most one process has it between bread and       *)
(* brelse, and it finds what the last holder left, through recycling,      *)
(* pinning, write-back and the driver's queue.                             *)
THEOREM Copies ==
    ASSUME ~Faults
    PROVE  Spec => OneCopy
<1>1. Init => Store!Init
  <2> SUFFICES ASSUME Init PROVE Store!Init
    OBVIOUS
  <2>1. \A b \in Bufs : buf[b].blockno = NoBlock
    BY DEF Init
  <2>2. \A k \in Blocks : Cached(k) = {}
    BY <2>1, BioAssumption DEF Cached
  <2>3. Contents = [k \in Blocks |-> disk[k]] /\ Holders = [k \in Blocks |-> NoProc]
    BY <2>2 DEF Contents, Holders
  <2> QED BY <2>3 DEF Init, Store!Init
<1>2. ASSUME Inv, Inv', [Next]_vars PROVE [Store!Next]_(Store!vars)
  <2> SUFFICES Store!Next \/ UNCHANGED <<Contents, Holders>>
    BY DEF Store!vars
  <2>0. Mapped /\ Mapped'
    BY <1>2, Mapping
  <2>1. ASSUME NEW u \in Handles, NEW k \in Blocks, bget(u, k) PROVE UNCHANGED <<Contents, Holders>>
    BY <1>2, <2>1, bgetMaps
  <2>2. ASSUME NEW u \in Handles, acquiresleep(u) PROVE Store!Next \/ UNCHANGED <<Contents, Holders>>
    BY <1>2, <2>2, acquiresleepMaps
  <2>3. ASSUME NEW u \in Handles, bread(u) \/ IoCheck(u) PROVE UNCHANGED <<Contents, Holders>>
    BY <2>0, <2>3, Stutter DEF bread, IoCheck
  <2>4. ASSUME NEW u \in Handles, brelse_unref(u) PROVE UNCHANGED <<Contents, Holders>>
    <3>1. \A c \in Bufs : /\ buf'[c].blockno = buf[c].blockno /\ buf'[c].valid = buf[c].valid
                          /\ buf'[c].data = buf[c].data
      BY <1>2, <2>4 DEF brelse_unref, Unref, Inv, TypeOK, Buffer
    <3> QED BY <2>0, <2>4, <3>1, Stutter DEF brelse_unref
  <2>5. ASSUME NEW u \in Handles, log_write(u) \/ bwrite(u) PROVE UNCHANGED <<Contents, Holders>>
    <3>1. buf' = [buf EXCEPT ![cur[u]].dirty = TRUE] /\ disk' = disk /\ lock' = lock
      BY <2>5 DEF log_write, bwrite
    <3>2. \A c \in Bufs : /\ buf'[c].blockno = buf[c].blockno /\ buf'[c].valid = buf[c].valid
                          /\ buf'[c].data = buf[c].data
      BY <1>2, <3>1 DEF Inv, TypeOK, Buffer
    <3> QED BY <2>0, <3>1, <3>2, Stutter
  <2>6. ASSUME NEW u \in Handles, NEW v \in Values, Change(u, v) PROVE Store!Next
    BY <1>2, <2>6, ChangeMaps
  <2>7. ASSUME NEW u \in Handles, brelse(u) PROVE Store!Next
    BY <1>2, <2>7, brelseMaps
  <2>8. CASE ideintr
    BY <1>2, <2>8, ideintrMaps
  <2>9. CASE UNCHANGED vars
    BY <2>0, <2>9, Stutter DEF vars
  <2> QED BY <1>2, <2>1, <2>2, <2>3, <2>4, <2>5, <2>6, <2>7, <2>8, <2>9
             DEF Next, Proceeds, Halted
<1> QED BY <1>1, <1>2, Invariance, PTL DEF Spec, OneCopy, Store!Spec
=============================================================================
