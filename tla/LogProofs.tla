----------------------------- MODULE LogProofs -----------------------------
(***************************************************************************)
(* What the redo log guarantees for every number of processes, blocks and  *)
(* crashes: commit, crash and recovery implement AtomicDisk, and as long   *)
(* as calls stay within a reservation that fits, log_write never panics    *)
(* and nobody sleeps in begin_op without somebody to wake it.              *)
(***************************************************************************)
EXTENDS Log, SequenceTheorems, FiniteSetTheorems, TLAPS

CommitPhases == {"write_log", "write_head", "install", "clear", "finish"}

(* log.outstanding counts the running calls.                               *)
Counted == outstanding = Cardinality(Running)

(* committing, outstanding and the phase of commit or recovery agree, and  *)
(* without calls and commit the log in memory is empty.                    *)
Control ==
    /\ committing <=> phase \in CommitPhases
    /\ committing => Running = {}
    /\ phase \in BootPhases => ~panicked /\ \A o \in Procs : op[o] = "idle"
    /\ phase \in {"write_log", "write_head", "install", "boot_install"} =>
          tail <= Len(lh)
    /\ phase = "finish" => lh = <<>>
    /\ phase = "none" /\ Running = {} => lh = <<>>

Inv == TypeOK /\ Counted /\ Control /\ SleepersHaveWaker

(* The log blocks that the header names for one home block are equal.      *)
Consistent ==
    \A i, j \in 1 .. Len(head) : head[i] = head[j] => logblk[i] = logblk[j]

(* The header on the disk is the one in memory from the commit point until *)
(* it is cleared, and otherwise empty.                                     *)
Header ==
    /\ phase \in {"none", "write_log", "write_head", "finish"} => head = <<>>
    /\ phase \in {"install", "clear", "boot_install", "boot_clear"} => head = lh

(* The log blocks from 1 to k hold what the calls have written.            *)
WrittenTo(k) == \A i \in 1 .. k : logblk[i] = cache[lh[i]]

(* ... and have been copied home.                                          *)
InstalledTo(k) == \A i \in 1 .. k : home[lh[i]] = logblk[i]

Progress ==
    /\ phase = "write_log" => WrittenTo(tail - 1)
    /\ phase \in {"write_head", "install"} => WrittenTo(Len(lh))
    /\ phase \in {"install", "boot_install"} => InstalledTo(tail - 1)
    /\ phase \in {"clear", "boot_clear"} => InstalledTo(Len(lh))

(* A buffer that is not dirty is a copy of its home block, and the dirty   *)
(* ones are in the log and not yet installed.                              *)
Clean ==
    /\ phase \in BootPhases => cache = home /\ dirty = {}
    /\ ~panicked => \A b \in Blocks \ dirty : cache[b] = home[b]
    /\ phase \in {"none", "write_log", "write_head"} => dirty \subseteq Logged(lh)
    /\ phase = "install" => dirty \subseteq {lh[i] : i \in tail .. Len(lh)}
    /\ phase \in {"clear", "finish"} => dirty = {}

DiskInv == Consistent /\ Header /\ Progress /\ Clean

(* The space that the running calls may still take is left in the log: a   *)
(* call has MAXOPBLOCKS blocks less the ones it has recorded.              *)
Recorded ==
    {x \in Procs \X Blocks : op[x[1]] = "run" /\ x[2] \in written[x[1]]}

CallsSmall ==
    \A o \in Procs :
        /\ IsFiniteSet(written[o]) /\ Cardinality(written[o]) <= OpWrites
        /\ op[o] \in {"begin", "asleep"} => written[o] = {}
        /\ op[o] = "run" => written[o] \subseteq Logged(lh)

Reserved ==
    /\ IsFiniteSet(Recorded)
    /\ Len(lh) + outstanding * MAXOPBLOCKS - Cardinality(Recorded) <= LOGSIZE

SpaceInv == CallsSmall /\ Reserved /\ NoPanic

(* The calls use less than they reserve, by what the log has less room     *)
(* than LOGSIZE: log_write tests for a full log before it absorbs, and     *)
(* the header takes one of the log's blocks.                               *)
Enough ==
    /\ OpWrites < MAXOPBLOCKS
    /\ LOGSIZE - MAXOPBLOCKS + OpWrites < LogBlocks - 1
-----------------------------------------------------------------------------
(* The running calls are finitely many, at most as many as processes.      *)
LEMMA RunningFinite ==
    /\ IsFiniteSet(Running) /\ Cardinality(Running) \in 0 .. Cardinality(Procs)
    /\ Cardinality(Running) = 0 <=> Running = {}
<1>1. Running \in SUBSET Procs
  BY DEF Running
<1> QED BY <1>1, ProcsAssumption, FS_Subset, FS_CardinalityType, FS_EmptySet

(* The count is kept by a step that changes neither it nor the set of      *)
(* running calls.                                                          *)
LEMMA SameRunning ==
    ASSUME Running' = Running, Counted, outstanding' = outstanding
    PROVE  Counted'
BY DEF Counted

(* wakeup(&log) (log.c:161, 171) leaves no process asleep and starts or    *)
(* ends no call.                                                           *)
LEMMA WakeRunning ==
    ASSUME NEW f \in [Procs -> OpStates]
    PROVE  /\ Wake(f) \in [Procs -> OpStates]
           /\ \A o \in Procs : (Wake(f)[o] = "run" <=> f[o] = "run") /\ Wake(f)[o] # "asleep"
           /\ \A o \in Procs : f[o] = "idle" => Wake(f)[o] = "idle"
BY DEF Wake, OpStates

(* The control invariant holds before the first boot.                      *)
LEMMA InitInv == Init => Inv
<1> SUFFICES ASSUME Init PROVE Inv
  OBVIOUS
<1>1. Running = {} /\ Cardinality({}) = 0
  BY FS_EmptySet DEF Init, Running
<1>2. Cardinality(Procs) \in Nat
  BY ProcsAssumption, FS_CardinalityType
<1>3. lh = <<>> /\ head = <<>> /\ <<>> \in Seq(Blocks) /\ Len(<<>>) = 0 /\ 0 <= LOGSIZE
  BY SizeAssumption DEF Init
<1>4. logblk \in [Slots -> Values]
  BY DEF Init
<1>5. TypeOK
  <2>1. cache \in [Blocks -> Values] /\ dirty \in SUBSET Blocks /\ 1 \in 1 .. LOGSIZE
    BY SizeAssumption DEF Init
  <2>2. op \in [Procs -> OpStates] /\ written \in [Procs -> SUBSET Blocks]
    BY DEF Init, OpStates
  <2>3. home \in [Blocks -> Values] /\ outstanding \in 0 .. Cardinality(Procs)
    BY <1>2 DEF Init
  <2>4. committing \in BOOLEAN /\ panicked \in BOOLEAN /\ phase \in Phases
    BY DEF Init, Phases, BootPhases
  <2>5. head \in Seq(Blocks) /\ Len(head) \leq LOGSIZE
    BY <1>3
  <2>6. lh \in Seq(Blocks) /\ Len(lh) \leq LOGSIZE /\ tail \in 1 .. LOGSIZE
    BY <1>3, <2>1 DEF Init
  <2> QED
    BY <1>4, <2>1, <2>2, <2>3, <2>4, <2>5, <2>6 DEF TypeOK
<1>6. Control /\ SleepersHaveWaker
  BY <1>1, <1>3 DEF Init, Control, SleepersHaveWaker, CommitPhases, BootPhases
<1> QED BY <1>1, <1>5, <1>6 DEF Init, Inv, Counted

(* A process that is about to call begin_op disturbs nothing.              *)
LEMMA CallInv ==
    ASSUME Inv, NEW o \in Procs, Call(o)
    PROVE  Inv'
<1>1. TypeOK'
  BY DEF Inv, TypeOK, Call, disk, OpStates
<1>2. Running' = Running
  BY DEF Running, Call, Inv, TypeOK
<1>3. Control'
  BY <1>2 DEF Inv, Control, Call, disk, Up, TypeOK
<1>4. SleepersHaveWaker'
  BY DEF Inv, TypeOK, SleepersHaveWaker, Call, OpStates
<1> QED BY <1>1, <1>2, <1>3, <1>4, SameRunning DEF Inv, Call

(* begin_op (log.c:124-142) counts the call it lets in; one that it puts   *)
(* to sleep has a call or a commit to wait for, since an empty log always  *)
(* has room for one call.                                                  *)
LEMMA begin_opInv ==
    ASSUME Inv, NEW o \in Procs, begin_op(o)
    PROVE  Inv'
<1>1. /\ op[o] = "begin" /\ Up /\ op \in [Procs -> OpStates]
      /\ lh' = lh /\ committing' = committing /\ phase' = phase /\ tail' = tail
      /\ panicked' = panicked
  BY DEF Inv, TypeOK, begin_op
<1>2. CASE ~committing /\ Room
  <2>1. op' = [op EXCEPT ![o] = "run"] /\ outstanding' = outstanding + 1
    BY <1>2 DEF begin_op
  <2>2. Running' = Running \cup {o} /\ o \notin Running
    BY <1>1, <2>1 DEF Running
  <2>3. Cardinality(Running') = Cardinality(Running) + 1
    BY <2>2, RunningFinite, FS_AddElement
  <2>4. Counted'
    BY <2>1, <2>3 DEF Inv, Counted
  <2>5. Running' \in SUBSET Procs
    BY <2>2 DEF Running
  <2>6. outstanding' \in 0 .. Cardinality(Procs)
    BY <2>4, <2>5, ProcsAssumption, FS_Subset, FS_CardinalityType DEF Counted
  <2>7. TypeOK'
    BY <2>1, <2>6 DEF Inv, TypeOK, begin_op, disk, OpStates
  <2>8. Control' /\ SleepersHaveWaker'
    BY <1>1, <1>2, <2>1, <2>2
       DEF Inv, Control, SleepersHaveWaker, Up, CommitPhases, BootPhases, Phases, TypeOK
  <2> QED BY <2>4, <2>7, <2>8 DEF Inv
<1>3. CASE ~(~committing /\ Room)
  <2>1. op' = [op EXCEPT ![o] = "asleep"] /\ outstanding' = outstanding
    BY <1>3 DEF begin_op
  <2>2. Running' = Running
    BY <1>1, <2>1 DEF Running
  <2>3. TypeOK'
    BY <2>1 DEF Inv, TypeOK, begin_op, disk, OpStates
  <2>4. committing \/ Running # {}
    <3> SUFFICES ASSUME ~committing, Running = {} PROVE FALSE
      OBVIOUS
    <3>1. lh = <<>> /\ outstanding = 0
      BY <1>1, RunningFinite
         DEF Inv, Control, Counted, Up, CommitPhases, Phases, TypeOK
    <3>2. Len(lh) = 0
      BY <3>1
    <3> QED BY <1>3, <3>1, <3>2, SizeAssumption DEF Room
  <2>5. committing' \/ \E q \in Procs : op'[q] = "run"
    BY <1>1, <2>2, <2>4 DEF Running
  <2>6. Control'
    BY <1>1, <2>1, <2>2 DEF Inv, Control, Up
  <2> QED BY <2>1, <2>2, <2>3, <2>5, <2>6, SameRunning
             DEF Inv, SleepersHaveWaker
<1> QED BY <1>2, <1>3

(* What log_write (log.c:224-230) makes of the header: the block is in it, *)
(* it is at most one longer, and it is not empty.                          *)
LEMMA RecordType ==
    ASSUME lh \in Seq(Blocks), NEW b \in Blocks
    PROVE  /\ Record(b) \in Seq(Blocks)
           /\ Len(Record(b)) = IF b \in Logged(lh) THEN Len(lh) ELSE Len(lh) + 1
           /\ Logged(Record(b)) = Logged(lh) \cup {b}
           /\ Record(b) # <<>>
<1>1. CASE b \in Logged(lh)
  <2>1. Record(b) = lh
    BY <1>1 DEF Record
  <2>2. PICK i \in 1 .. Len(lh) : lh[i] = b
    BY <1>1 DEF Logged
  <2>3. lh # <<>>
    BY <2>2
  <2> QED BY <1>1, <2>1, <2>3
<1>2. CASE b \notin Logged(lh)
  <2>1. Record(b) = Append(lh, b)
    BY <1>2 DEF Record
  <2>2. /\ Append(lh, b) \in Seq(Blocks) /\ Len(Append(lh, b)) = Len(lh) + 1
        /\ \A i \in 1 .. Len(lh) : Append(lh, b)[i] = lh[i]
        /\ Append(lh, b)[Len(lh) + 1] = b
        /\ Len(lh) \in Nat
    OBVIOUS
  <2>3. Logged(Append(lh, b)) = Logged(lh) \cup {b}
    <3>1. 1 .. Len(lh) + 1 = (1 .. Len(lh)) \cup {Len(lh) + 1}
      BY <2>2
    <3> QED BY <2>2, <3>1 DEF Logged
  <2>4. Append(lh, b) # <<>>
    BY <2>2
  <2> QED BY <1>2, <2>1, <2>2, <2>3, <2>4
<1> QED BY <1>1, <1>2

(* log_write, panicking or not, keeps the control invariant.               *)
LEMMA log_writeInv ==
    ASSUME Inv, NEW o \in Procs, NEW b \in Blocks, NEW x \in Values, log_write(o, b, x)
    PROVE  Inv'
<1>1. /\ op[o] = "run" /\ op' = op /\ outstanding' = outstanding /\ Up
      /\ committing' = committing /\ phase' = phase /\ tail' = tail
  BY DEF log_write
<1>2. Running' = Running /\ o \in Running
  BY <1>1 DEF Running
<1>3. lh \in Seq(Blocks) /\ lh' \in Seq(Blocks) /\ Len(lh') <= LOGSIZE
  <2>1. CASE Full \/ outstanding < 1
    BY <2>1 DEF log_write, Inv, TypeOK
  <2>2. CASE ~(Full \/ outstanding < 1)
    <3>1. lh' = Record(b) /\ lh \in Seq(Blocks) /\ Len(lh) < LOGSIZE
      BY <2>2, SizeAssumption DEF log_write, Full, Inv, TypeOK
    <3> QED BY <3>1, RecordType, SizeAssumption
  <2> QED BY <2>1, <2>2
<1>4. dirty' \in SUBSET Blocks /\ panicked' \in BOOLEAN
  BY DEF log_write, Inv, TypeOK
<1>5. cache' \in [Blocks -> Values] /\ written' \in [Procs -> SUBSET Blocks]
  BY DEF log_write, Inv, TypeOK
<1>6. TypeOK'
  BY <1>1, <1>3, <1>4, <1>5 DEF log_write, disk, Inv, TypeOK
<1>7. phase = "none" /\ ~committing
  BY <1>1, <1>2 DEF Inv, Control, Up, TypeOK, Phases, CommitPhases
<1>8. Control'
  BY <1>1, <1>2, <1>7 DEF Inv, Control, CommitPhases, BootPhases
<1>9. SleepersHaveWaker'
  BY <1>1 DEF SleepersHaveWaker
<1> QED BY <1>1, <1>2, <1>6, <1>8, <1>9, SameRunning DEF Inv

(* Recycling a clean buffer keeps the control invariant.                   *)
LEMMA EvictInv ==
    ASSUME Inv, NEW b \in Blocks, Evict(b)
    PROVE  Inv'
<1>1. cache' \in [Blocks -> Values]
  BY DEF Evict, Inv, TypeOK
<1>2. TypeOK'
  BY <1>1 DEF Evict, Inv, TypeOK, disk
<1>3. Running' = Running
  BY DEF Evict, Running
<1> QED
  BY <1>2, <1>3, SameRunning DEF Evict, Inv, Control, SleepersHaveWaker, disk

(* end_op (log.c:145-174): the last call out starts the commit, any other  *)
(* one wakes the sleepers; it never finds a commit running, so that its    *)
(* panic is out of reach.                                                  *)
LEMMA end_opInv ==
    ASSUME Inv, NEW o \in Procs, end_op(o)
    PROVE  Inv' /\ panicked' = panicked /\ Running' = Running \ {o}
<1>1. /\ op[o] = "run" /\ Up /\ op \in [Procs -> OpStates] /\ o \in Running
      /\ outstanding' = outstanding - 1 /\ lh' = lh /\ lh \in Seq(Blocks)
  BY DEF Inv, TypeOK, end_op, Running
<1>2. ~committing /\ phase = "none"
  BY <1>1 DEF Inv, Control, Up, TypeOK, Phases, CommitPhases
<1>3. panicked' = panicked
  BY <1>2 DEF end_op
<1>4. Cardinality(Running \ {o}) = Cardinality(Running) - 1
  BY <1>1, RunningFinite, FS_RemoveElement
<1>5. outstanding' \in 0 .. Cardinality(Procs) /\ outstanding \in Nat
  <2>1. outstanding = Cardinality(Running) /\ outstanding # 0
    BY <1>1, RunningFinite DEF Inv, Counted
  <2> QED BY <1>1, <2>1, RunningFinite, ProcsAssumption, FS_CardinalityType
<1>6. CASE outstanding = 1
  <2>1. /\ committing' = TRUE /\ op' = [op EXCEPT ![o] = "commit"] /\ tail' = 1
        /\ phase' = IF lh = <<>> THEN "finish" ELSE "write_log"
    BY <1>2, <1>6 DEF end_op
  <2>2. Running' = Running \ {o}
    BY <1>1, <2>1 DEF Running
  <2>3. Running' = {}
    BY <1>4, <1>6, <2>2, RunningFinite, FS_EmptySet, FS_RemoveElement
       DEF Inv, Counted
  <2>4. TypeOK'
    BY <1>1, <1>3, <1>5, <2>1, SizeAssumption
       DEF Inv, TypeOK, end_op, disk, OpStates, Phases
  <2>5. Counted'
    BY <1>1, <1>6, <2>3, FS_EmptySet DEF Counted
  <2>6. lh # <<>> => 1 <= Len(lh)
    BY <1>1
  <2>7. Control' /\ SleepersHaveWaker'
    BY <1>1, <2>1, <2>3, <2>6
       DEF Control, SleepersHaveWaker, CommitPhases, BootPhases
  <2> QED BY <1>3, <2>2, <2>4, <2>5, <2>7 DEF Inv
<1>7. CASE outstanding # 1
  <2>1. /\ committing' = committing /\ op' = Wake([op EXCEPT ![o] = "idle"])
        /\ tail' = tail /\ phase' = phase
    BY <1>2, <1>7 DEF end_op
  <2>2. [op EXCEPT ![o] = "idle"] \in [Procs -> OpStates]
    BY <1>1 DEF OpStates
  <2>3. op' \in [Procs -> OpStates] /\ \A q \in Procs : op'[q] # "asleep"
    BY <2>1, <2>2, WakeRunning
  <2>4. Running' = Running \ {o}
    <3>1. \A q \in Procs : op'[q] = "run" <=> [op EXCEPT ![o] = "idle"][q] = "run"
      BY <2>1, <2>2, WakeRunning
    <3>2. \A q \in Procs : op'[q] = "run" <=> (op[q] = "run" /\ q # o)
      BY <1>1, <3>1
    <3> QED BY <3>2 DEF Running
  <2>5. Running' # {}
    <3>1. Cardinality(Running') = outstanding - 1 /\ outstanding \in Nat
      BY <1>4, <1>5, <2>4 DEF Inv, Counted
    <3> QED BY <1>7, <3>1, FS_EmptySet
  <2>6. TypeOK'
    BY <1>1, <1>3, <1>5, <2>1, <2>3 DEF Inv, TypeOK, end_op, disk
  <2>7. Counted'
    BY <1>1, <1>4, <2>4 DEF Inv, Counted
  <2>8. Control'
    BY <1>1, <1>2, <1>3, <2>1, <2>5 DEF Inv, Control, CommitPhases, BootPhases
  <2>9. SleepersHaveWaker'
    BY <2>3 DEF SleepersHaveWaker
  <2> QED BY <1>3, <2>4, <2>6, <2>7, <2>8, <2>9 DEF Inv
<1> QED BY <1>6, <1>7

(* One turn of the loops of write_log and install_trans: tail is a slot of *)
(* the log, and either the next one follows or the loop has ended.         *)
LEMMA LoopTail ==
    ASSUME TypeOK, NEW p \in Phases, NEW q \in Phases, Loop(p, q), tail <= Len(lh)
    PROVE  /\ tail' \in 1 .. LOGSIZE /\ phase' \in {p, q}
           /\ phase' = p /\ p # q => tail < Len(lh) /\ tail' = tail + 1
           /\ phase' = q /\ p # q => tail = Len(lh) /\ tail' = 1
           /\ lh[tail] \in Blocks /\ tail \in Slots /\ tail \in 1 .. Len(lh)
<1>1. /\ tail \in 1 .. LOGSIZE /\ Len(lh) \in Nat /\ Len(lh) <= LOGSIZE
      /\ LOGSIZE \in Nat /\ lh \in Seq(Blocks)
  BY SizeAssumption DEF TypeOK
<1>2. CASE tail < Len(lh)
  BY <1>1, <1>2 DEF Loop, Slots
<1>3. CASE ~(tail < Len(lh))
  BY <1>1, <1>3 DEF Loop, Goto, Slots
<1> QED BY <1>2, <1>3

(* write_log (log.c:176-190) keeps the control invariant.                  *)
LEMMA write_logInv ==
    ASSUME Inv, write_log
    PROVE  Inv'
<1>1. /\ phase = "write_log" /\ tail <= Len(lh) /\ TypeOK
      /\ Loop("write_log", "write_head")
  BY DEF Inv, Control, write_log
<1>2. "write_log" \in Phases /\ "write_head" \in Phases
  BY DEF Phases
<1>3. /\ tail' \in 1 .. LOGSIZE /\ phase' \in {"write_log", "write_head"}
      /\ phase' = "write_log" => tail < Len(lh) /\ tail' = tail + 1
      /\ phase' = "write_head" => tail' = 1
      /\ lh[tail] \in Blocks /\ tail \in Slots
  BY <1>1, <1>2, LoopTail
<1>4. logblk' \in [Slots -> Values]
  BY <1>1, <1>3 DEF write_log, TypeOK
<1>5. TypeOK'
  BY <1>1, <1>2, <1>3, <1>4 DEF write_log, Memory, TypeOK
<1>6. Running' = Running
  BY DEF write_log, Memory, Running
<1>7. tail \in 1 .. LOGSIZE /\ Len(lh) \in Nat
  BY <1>1 DEF TypeOK
<1>8. Control'
  BY <1>1, <1>3, <1>6, <1>7
     DEF write_log, Memory, Inv, Control, CommitPhases, BootPhases
<1> QED
  BY <1>5, <1>6, <1>8, SameRunning DEF write_log, Memory, Inv, SleepersHaveWaker

(* The commit point (write_head, log.c:101-113) keeps the control          *)
(* invariant.                                                              *)
LEMMA write_headInv ==
    ASSUME Inv, write_head
    PROVE  Inv'
<1>1. /\ phase = "write_head" /\ phase' = "install" /\ tail' = 1
      /\ head' = lh /\ committing
  BY DEF Inv, Control, CommitPhases, write_head, Goto
<1>2. TypeOK'
  BY <1>1, SizeAssumption DEF Inv, TypeOK, write_head, Memory, Phases
<1>3. Running' = Running
  BY DEF write_head, Memory, Running
<1>4. Len(lh) >= 1
  BY <1>1 DEF Inv, Control, TypeOK
<1>5. Control'
  BY <1>1, <1>3, <1>4
     DEF write_head, Memory, Inv, Control, CommitPhases, BootPhases
<1> QED
  BY <1>2, <1>3, <1>5, SameRunning
     DEF write_head, Memory, Inv, SleepersHaveWaker

(* install_trans (log.c:69-82), in a commit or in recovery, keeps the      *)
(* control invariant.                                                      *)
LEMMA InstallInv ==
    ASSUME Inv,
           NEW p, NEW q, Install(p, q),
           (p = "install" /\ q = "clear") \/ (p = "boot_install" /\ q = "boot_clear")
    PROVE  Inv'
<1>1. phase = p /\ tail <= Len(lh) /\ TypeOK /\ Loop(p, q)
  BY DEF Inv, Control, Install
<1>2. p \in Phases /\ q \in Phases /\ p # q
  BY DEF Phases, BootPhases
<1>3. /\ tail' \in 1 .. LOGSIZE /\ phase' \in {p, q}
      /\ phase' = p => tail < Len(lh) /\ tail' = tail + 1
      /\ lh[tail] \in Blocks /\ tail \in Slots
  BY <1>1, <1>2, LoopTail
<1>4. home' \in [Blocks -> Values] /\ cache' \in [Blocks -> Values] /\ dirty' \in SUBSET Blocks
  BY <1>1, <1>3 DEF Install, TypeOK
<1>5. TypeOK'
  BY <1>1, <1>2, <1>3, <1>4 DEF Install, TypeOK
<1>6. Running' = Running
  BY DEF Install, Running
<1>7. tail \in 1 .. LOGSIZE /\ Len(lh) \in Nat
  BY <1>1 DEF TypeOK
<1>8. CASE p = "install" /\ q = "clear"
  <2>1. Control'
    BY <1>1, <1>3, <1>6, <1>7, <1>8
       DEF Install, Inv, Control, CommitPhases, BootPhases
  <2> QED
    BY <1>5, <1>6, <2>1, SameRunning DEF Install, Inv, SleepersHaveWaker
<1>9. CASE p = "boot_install" /\ q = "boot_clear"
  <2>1. Control'
    BY <1>1, <1>3, <1>6, <1>7, <1>9
       DEF Install, Inv, Control, CommitPhases, BootPhases
  <2> QED
    BY <1>5, <1>6, <2>1, SameRunning DEF Install, Inv, SleepersHaveWaker
<1> QED BY <1>8, <1>9

(* Clearing the header (log.c:120-121, 199-200) keeps the control          *)
(* invariant.                                                              *)
LEMMA ClearInv ==
    ASSUME Inv,
           NEW p, NEW q, Clear(p, q),
           (p = "clear" /\ q = "finish") \/ (p = "boot_clear" /\ q = "none")
    PROVE  Inv'
<1>1. phase = p /\ phase' = q /\ tail' = 1 /\ lh' = <<>> /\ head' = <<>> /\ Len(<<>>) = 0
  BY DEF Clear, Goto
<1>2. q \in Phases /\ <<>> \in Seq(Blocks) /\ 1 \in 1 .. LOGSIZE /\ 0 <= LOGSIZE
  BY SizeAssumption DEF Phases
<1>3. TypeOK'
  BY <1>1, <1>2 DEF Clear, Inv, TypeOK
<1>4. Running' = Running
  BY DEF Clear, Running
<1>5. Control'
  BY <1>1, <1>4 DEF Clear, Inv, Control, CommitPhases, BootPhases
<1> QED
  BY <1>3, <1>4, <1>5, SameRunning DEF Clear, Inv, SleepersHaveWaker

(* The end of end_op (log.c:165-173) wakes every sleeper, and the log is   *)
(* empty.                                                                  *)
LEMMA FinishInv ==
    ASSUME Inv, Finish
    PROVE  Inv' /\ Running' = Running
<1> DEFINE f == [o \in Procs |-> IF op[o] = "commit" THEN "idle" ELSE op[o]]
<1>1. /\ phase = "finish" /\ phase' = "none" /\ tail' = 1 /\ committing' = FALSE
      /\ op' = Wake(f) /\ committing /\ Running = {} /\ lh = <<>> /\ lh' = lh
  BY DEF Finish, Goto, Inv, Control, CommitPhases
<1>2. f \in [Procs -> OpStates]
  BY DEF OpStates, Inv, TypeOK
<1>3. \A o \in Procs : f[o] = "run" <=> op[o] = "run"
  OBVIOUS
<1> HIDE DEF f
<1>4. op' \in [Procs -> OpStates] /\ \A o \in Procs : op'[o] # "asleep"
  BY <1>1, <1>2, WakeRunning
<1>5. Running' = Running
  BY <1>1, <1>2, <1>3, WakeRunning DEF Running
<1>6. "none" \in Phases /\ 1 \in 1 .. LOGSIZE
  BY SizeAssumption DEF Phases
<1>7. TypeOK'
  BY <1>1, <1>4, <1>6 DEF Finish, disk, Inv, TypeOK
<1>8. Control'
  BY <1>1, <1>5 DEF Control, CommitPhases, BootPhases
<1> QED
  BY <1>4, <1>5, <1>7, <1>8, SameRunning DEF Finish, Inv, SleepersHaveWaker

(* read_head (log.c:85-96) keeps the control invariant.                    *)
LEMMA read_headInv ==
    ASSUME Inv, read_head
    PROVE  Inv'
<1>1. /\ phase = "boot_read" /\ tail' = 1 /\ lh' = head
      /\ phase' = IF head = <<>> THEN "boot_clear" ELSE "boot_install"
  BY DEF read_head, Goto
<1>2. phase' \in Phases /\ 1 \in 1 .. LOGSIZE
  BY <1>1, SizeAssumption DEF Phases, BootPhases
<1>3. TypeOK'
  BY <1>1, <1>2 DEF read_head, disk, Inv, TypeOK
<1>4. Running' = Running
  BY DEF read_head, Running
<1>5. head # <<>> => 1 <= Len(head)
  BY DEF Inv, TypeOK
<1>6. Control'
  BY <1>1, <1>4, <1>5 DEF read_head, Inv, Control, CommitPhases, BootPhases
<1> QED
  BY <1>3, <1>4, <1>6, SameRunning DEF read_head, Inv, SleepersHaveWaker

(* After a crash no call runs and nobody sleeps.                           *)
LEMMA CrashInv ==
    ASSUME Inv, Crash
    PROVE  Inv' /\ Running' = {}
<1>1. /\ lh' = <<>> /\ cache' = home /\ dirty' = {} /\ outstanding' = 0 /\ committing' = FALSE
      /\ op' = [o \in Procs |-> "idle"] /\ written' = [o \in Procs |-> {}]
      /\ phase' = "boot_read" /\ tail' = 1 /\ panicked' = FALSE /\ UNCHANGED disk
  BY DEF Crash, Goto
<1>2. Running' = {}
  BY <1>1 DEF Running
<1>3. /\ <<>> \in Seq(Blocks) /\ Len(<<>>) = 0 /\ 0 <= LOGSIZE /\ 1 \in 1 .. LOGSIZE
      /\ "boot_read" \in Phases /\ 0 \in 0 .. Cardinality(Procs)
  BY SizeAssumption, ProcsAssumption, FS_CardinalityType DEF Phases, BootPhases
<1>4. op' \in [Procs -> OpStates] /\ written' \in [Procs -> SUBSET Blocks]
  BY <1>1 DEF OpStates
<1>5. TypeOK'
  BY <1>1, <1>3, <1>4 DEF disk, Inv, TypeOK
<1>6. Control' /\ SleepersHaveWaker'
  BY <1>1, <1>2 DEF Control, SleepersHaveWaker, CommitPhases, BootPhases
<1> QED BY <1>1, <1>2, <1>5, <1>6, FS_EmptySet DEF Inv, Counted

(* Every step keeps the control invariant.                                 *)
LEMMA StepInv == Inv /\ [Next]_vars => Inv'
<1> SUFFICES ASSUME Inv, [Next]_vars PROVE Inv'
  OBVIOUS
<1>1. CASE UNCHANGED vars
  BY <1>1 DEF vars, Inv, TypeOK, Counted, Control, SleepersHaveWaker, Running
<1>2. CASE \E o \in Procs : Call(o) \/ begin_op(o) \/ end_op(o)
  BY <1>2, CallInv, begin_opInv, end_opInv
<1>3. CASE \E o \in Procs, b \in Blocks, x \in Values : log_write(o, b, x)
  BY <1>3, log_writeInv
<1>4. CASE \E b \in Blocks : Evict(b)
  BY <1>4, EvictInv
<1>5. CASE CommitStep
  BY <1>5, write_logInv, write_headInv, InstallInv, ClearInv, FinishInv
     DEF CommitStep
<1>6. CASE Recover
  BY <1>6, read_headInv, InstallInv, ClearInv DEF Recover
<1>7. CASE Crash
  BY <1>7, CrashInv
<1> QED BY <1>1, <1>2, <1>3, <1>4, <1>5, <1>6, <1>7 DEF Next

(* The control invariant holds in every reachable state.                   *)
LEMMA Invariance == Spec => []Inv
BY InitInv, StepInv, PTL DEF Spec
-----------------------------------------------------------------------------
(* The contents that recovery would find, of any disk.                     *)
DurableOf(h, lb, hd) ==
    [b \in Blocks |->
        IF b \in Logged(hd)
        THEN lb[CHOOSE i \in 1 .. Len(hd) : hd[i] = b] ELSE h[b]]

(* What recovery makes of a disk whose log is consistent: the log's copy   *)
(* of every block the header names, the home block of every other.         *)
LEMMA DurableFacts ==
    ASSUME NEW h \in [Blocks -> Values], NEW lb \in [Slots -> Values],
           NEW hd \in Seq(Blocks), Len(hd) <= LOGSIZE,
           \A i, j \in 1 .. Len(hd) : hd[i] = hd[j] => lb[i] = lb[j]
    PROVE  /\ DurableOf(h, lb, hd) \in [Blocks -> Values]
           /\ \A i \in 1 .. Len(hd) : DurableOf(h, lb, hd)[hd[i]] = lb[i]
           /\ \A b \in Blocks \ Logged(hd) : DurableOf(h, lb, hd)[b] = h[b]
<1>1. ASSUME NEW b \in Logged(hd)
      PROVE  /\ (CHOOSE i \in 1 .. Len(hd) : hd[i] = b) \in 1 .. Len(hd)
             /\ hd[CHOOSE i \in 1 .. Len(hd) : hd[i] = b] = b
  BY DEF Logged
<1>2. Len(hd) \in Nat /\ 1 .. Len(hd) \subseteq Slots
  BY SizeAssumption DEF Slots
<1>3. DurableOf(h, lb, hd) \in [Blocks -> Values]
  BY <1>1, <1>2 DEF DurableOf
<1>4. ASSUME NEW i \in 1 .. Len(hd) PROVE DurableOf(h, lb, hd)[hd[i]] = lb[i]
  <2>1. hd[i] \in Logged(hd) /\ hd[i] \in Blocks
    BY DEF Logged
  <2>2. DurableOf(h, lb, hd)[hd[i]] = lb[CHOOSE j \in 1 .. Len(hd) : hd[j] = hd[i]]
    BY <2>1 DEF DurableOf
  <2> QED BY <1>1, <2>1, <2>2
<1>5. \A b \in Blocks \ Logged(hd) : DurableOf(h, lb, hd)[b] = h[b]
  BY DEF DurableOf
<1> QED BY <1>3, <1>4, <1>5

(* With an empty header it is the home blocks.                             *)
LEMMA DurableHome ==
    ASSUME NEW h \in [Blocks -> Values], NEW lb
    PROVE  DurableOf(h, lb, <<>>) = h
<1>1. Logged(<<>>) = {}
  BY DEF Logged
<1> QED BY <1>1 DEF DurableOf

(* The disk invariant holds before the first boot.                         *)
LEMMA InitDisk == Init => DiskInv
<1> SUFFICES ASSUME Init PROVE DiskInv
  OBVIOUS
<1>1. phase = "boot_read" /\ head = <<>> /\ cache = home /\ dirty = {} /\ Len(<<>>) = 0
  BY DEF Init
<1>2. Consistent
  BY <1>1 DEF Consistent
<1> QED BY <1>1, <1>2 DEF DiskInv, Header, Progress, Clean, BootPhases

(* The disk invariant is kept by a step that leaves the disk, the log, the *)
(* buffers and the phase alone.                                            *)
LEMMA SameDisk ==
    ASSUME DiskInv, UNCHANGED <<disk, lh, cache, dirty, phase, tail, panicked>>
    PROVE  DiskInv'
BY DEF DiskInv, Consistent, Header, Progress, WrittenTo, InstalledTo, Clean,
       Logged, disk

(* log_write dirties only blocks that are in the log.                      *)
LEMMA log_writeDisk ==
    ASSUME Inv, DiskInv, NEW o \in Procs, NEW b \in Blocks, NEW x \in Values,
           log_write(o, b, x)
    PROVE  DiskInv'
<1>1. phase = "none" /\ phase' = phase /\ UNCHANGED disk
  BY DEF log_write, Inv, Control, Up, TypeOK, Phases, CommitPhases, Running
<1>2. Consistent' /\ Header' /\ Progress'
  BY <1>1 DEF DiskInv, Consistent, Header, Progress, disk
<1>3. dirty' \subseteq Logged(lh')
  <2>1. CASE Full \/ outstanding < 1
    BY <1>1, <2>1 DEF log_write, DiskInv, Clean
  <2>2. CASE ~(Full \/ outstanding < 1)
    <3>1. lh' = Record(b) /\ dirty' = dirty \cup {b} /\ lh \in Seq(Blocks)
      BY <2>2 DEF log_write, Inv, TypeOK
    <3> QED BY <1>1, <3>1, RecordType DEF DiskInv, Clean
  <2> QED BY <2>1, <2>2
<1>4. ~panicked' => \A c \in Blocks \ dirty' : cache'[c] = home'[c]
  BY <1>1 DEF log_write, DiskInv, Clean, Inv, TypeOK, disk, Up
<1> QED BY <1>1, <1>2, <1>3, <1>4 DEF DiskInv, Clean, BootPhases

(* A buffer that is not dirty holds what its home block does, so that      *)
(* recycling it changes nothing a call can see.                            *)
LEMMA EvictDisk ==
    ASSUME Inv, DiskInv, NEW b \in Blocks, Evict(b)
    PROVE  DiskInv' /\ cache' = cache
<1>1. cache[b] = home[b]
  BY DEF Evict, DiskInv, Clean, Up
<1>2. cache' = cache
  BY <1>1 DEF Evict, Inv, TypeOK
<1> QED BY <1>2, SameDisk DEF Evict, disk

(* A commit starts with an empty header on the disk, and with no dirty     *)
(* buffer if it has nothing to write.                                      *)
LEMMA end_opDisk ==
    ASSUME Inv, DiskInv, NEW o \in Procs, end_op(o)
    PROVE  DiskInv'
<1>1. phase = "none" /\ ~committing /\ UNCHANGED <<disk, lh, cache, dirty>>
  BY DEF end_op, Inv, Control, Up, TypeOK, Phases, CommitPhases, Running
<1>2. panicked' = panicked
  BY <1>1 DEF end_op
<1>3. CASE outstanding = 1
  <2>1. phase' = (IF lh = <<>> THEN "finish" ELSE "write_log") /\ tail' = 1
    BY <1>1, <1>3 DEF end_op
  <2>2. Consistent' /\ Header' /\ Progress'
    BY <1>1, <2>1 DEF DiskInv, Consistent, Header, Progress, WrittenTo, disk
  <2>3. lh = <<>> => dirty = {}
    BY <1>1 DEF DiskInv, Clean, Logged
  <2>4. Clean'
    BY <1>1, <1>2, <2>1, <2>3 DEF DiskInv, Clean, BootPhases, Logged, disk
  <2> QED BY <2>2, <2>4 DEF DiskInv
<1>4. CASE outstanding # 1
  <2>1. phase' = phase /\ tail' = tail
    BY <1>1, <1>4 DEF end_op
  <2> QED BY <1>1, <1>2, <2>1, SameDisk
<1> QED BY <1>3, <1>4

(* write_log has copied the buffers of the first tail blocks into the log. *)
LEMMA write_logDisk ==
    ASSUME Inv, DiskInv, write_log
    PROVE  DiskInv'
<1>1. /\ phase = "write_log" /\ tail <= Len(lh) /\ TypeOK
      /\ Loop("write_log", "write_head") /\ head = <<>>
      /\ UNCHANGED <<home, head, Memory>>
  BY DEF Inv, Control, write_log, DiskInv, Header
<1>2. "write_log" \in Phases /\ "write_head" \in Phases
  BY DEF Phases
<1>3. /\ phase' \in {"write_log", "write_head"}
      /\ phase' = "write_log" => tail' = tail + 1
      /\ phase' = "write_head" => tail = Len(lh)
      /\ lh[tail] \in Blocks /\ tail \in Slots /\ tail \in Nat /\ Len(lh) \in Nat
  BY <1>1, <1>2, LoopTail DEF TypeOK
<1>4. \A i \in 1 .. tail : logblk'[i] = cache'[lh'[i]]
  <2>1. logblk' = [logblk EXCEPT ![tail] = cache[lh[tail]]] /\ logblk \in [Slots -> Values]
    BY <1>1 DEF write_log, TypeOK
  <2>2. \A i \in 1 .. tail - 1 : logblk[i] = cache[lh[i]]
    BY <1>1 DEF DiskInv, Progress, WrittenTo
  <2>3. \A i \in 1 .. tail : i \in Slots /\ (i = tail \/ i \in 1 .. tail - 1)
    BY <1>3, SizeAssumption DEF Slots
  <2> QED BY <1>1, <1>3, <2>1, <2>2, <2>3 DEF Memory
<1>5. Progress'
  BY <1>1, <1>3, <1>4 DEF Progress, WrittenTo, Memory
<1>6. Consistent' /\ Header'
  BY <1>1, <1>3 DEF Consistent, Header
<1>7. Clean'
  BY <1>1, <1>3 DEF DiskInv, Clean, BootPhases, Logged, Memory
<1> QED BY <1>5, <1>6, <1>7 DEF DiskInv

(* When the header is written the log holds the contents of every buffer   *)
(* it names.                                                               *)
LEMMA write_headDisk ==
    ASSUME Inv, DiskInv, write_head
    PROVE  DiskInv'
<1>1. /\ phase = "write_head" /\ phase' = "install" /\ tail' = 1 /\ head' = lh
      /\ UNCHANGED <<home, logblk, Memory>> /\ lh \in Seq(Blocks)
  BY DEF write_head, Goto, Inv, TypeOK
<1>2. \A i \in 1 .. Len(lh) : logblk[i] = cache[lh[i]]
  BY <1>1 DEF DiskInv, Progress, WrittenTo
<1>3. Consistent' /\ Header'
  BY <1>1, <1>2 DEF Consistent, Header, Memory
<1>4. Progress'
  BY <1>1, <1>2 DEF Progress, WrittenTo, InstalledTo, Memory
<1>5. Clean'
  BY <1>1 DEF DiskInv, Clean, BootPhases, Logged, Memory
<1> QED BY <1>3, <1>4, <1>5 DEF DiskInv

(* install_trans has copied the first tail blocks home, in a commit        *)
(* without changing what a buffer holds.                                   *)
LEMMA InstallDisk ==
    ASSUME Inv, DiskInv,
           NEW p, NEW q, Install(p, q),
           (p = "install" /\ q = "clear") \/ (p = "boot_install" /\ q = "boot_clear")
    PROVE  DiskInv'
<1>1. /\ phase = p /\ tail <= Len(lh) /\ TypeOK /\ Loop(p, q) /\ head = lh
      /\ home' = [home EXCEPT ![lh[tail]] = logblk[tail]]
      /\ cache' = [cache EXCEPT ![lh[tail]] = logblk[tail]]
      /\ dirty' = dirty \ {lh[tail]}
      /\ UNCHANGED <<logblk, head, lh, panicked>> /\ ~panicked
  BY DEF Inv, Control, Install, DiskInv, Header
<1>2. p \in Phases /\ q \in Phases /\ p # q
  BY DEF Phases, BootPhases
<1>3. /\ phase' \in {p, q}
      /\ phase' = p => tail' = tail + 1
      /\ phase' = q => tail = Len(lh)
      /\ lh[tail] \in Blocks /\ tail \in Slots /\ tail \in 1 .. Len(lh) /\ Len(lh) \in Nat
      /\ lh \in Seq(Blocks)
  BY <1>1, <1>2, LoopTail DEF TypeOK
<1>4. \A i, j \in 1 .. Len(lh) : lh[i] = lh[j] => logblk[i] = logblk[j]
  BY <1>1 DEF DiskInv, Consistent
<1>5. \A i \in 1 .. tail : home'[lh[i]] = logblk[i]
  <2>1. \A i \in 1 .. tail - 1 : home[lh[i]] = logblk[i]
    BY <1>1 DEF DiskInv, Progress, InstalledTo
  <2>2. \A i \in 1 .. tail : i \in 1 .. Len(lh) /\ lh[i] \in Blocks /\ (i = tail \/ i \in 1 .. tail - 1)
    BY <1>3
  <2> QED BY <1>1, <1>3, <1>4, <2>1, <2>2 DEF TypeOK
<1>6. Consistent' /\ Header'
  BY <1>1, <1>3 DEF DiskInv, Consistent, Header
<1>7. \A b \in Blocks \ dirty' : cache'[b] = home'[b]
  BY <1>1, <1>3 DEF DiskInv, Clean, TypeOK
<1>8. CASE p = "install" /\ q = "clear"
  <2>1. cache' = cache
    BY <1>1, <1>3, <1>8 DEF DiskInv, Progress, WrittenTo, TypeOK
  <2>2. Progress'
    BY <1>1, <1>3, <1>5, <1>8, <2>1
       DEF DiskInv, Progress, WrittenTo, InstalledTo
  <2>3. dirty' \subseteq {lh[i] : i \in tail + 1 .. Len(lh)}
    <3>1. dirty \subseteq {lh[i] : i \in tail .. Len(lh)}
      BY <1>1, <1>8 DEF DiskInv, Clean
    <3>2. \A i \in tail .. Len(lh) : i = tail \/ i \in tail + 1 .. Len(lh)
      BY <1>3
    <3> QED BY <1>1, <3>1, <3>2
  <2>4. tail = Len(lh) => dirty' = {}
    BY <1>3, <2>3
  <2>5. Clean'
    BY <1>1, <1>3, <1>7, <1>8, <2>3, <2>4 DEF Clean, BootPhases
  <2> QED BY <1>6, <2>2, <2>5 DEF DiskInv
<1>9. CASE p = "boot_install" /\ q = "boot_clear"
  <2>1. Progress'
    BY <1>1, <1>3, <1>5, <1>9 DEF Progress, InstalledTo
  <2>2. cache' = home' /\ dirty' = {}
    BY <1>1, <1>9 DEF DiskInv, Clean, BootPhases
  <2>3. Clean'
    BY <1>3, <1>7, <1>9, <2>2 DEF Clean, BootPhases
  <2> QED BY <1>6, <2>1, <2>3 DEF DiskInv
<1> QED BY <1>8, <1>9

(* The header is cleared only when the home blocks hold all that recovery  *)
(* would restore.                                                          *)
LEMMA ClearDisk ==
    ASSUME Inv, DiskInv,
           NEW p, NEW q, Clear(p, q),
           (p = "clear" /\ q = "finish") \/ (p = "boot_clear" /\ q = "none")
    PROVE  DiskInv' /\ Durable = home
<1>1. /\ phase = p /\ phase' = q /\ lh' = <<>> /\ head' = <<>> /\ Len(<<>>) = 0
      /\ UNCHANGED <<home, logblk, cache, dirty, panicked>> /\ head = lh
  BY DEF Clear, Goto, DiskInv, Header
<1>2. Consistent' /\ Header' /\ Progress'
  BY <1>1 DEF Consistent, Header, Progress
<1>3. Clean'
  BY <1>1 DEF DiskInv, Clean, BootPhases, Logged
<1>4. Durable = DurableOf(home, logblk, head)
  BY DEF Durable, DurableOf
<1>5. /\ Durable \in [Blocks -> Values]
      /\ \A i \in 1 .. Len(head) : Durable[head[i]] = logblk[i]
      /\ \A b \in Blocks \ Logged(head) : Durable[b] = home[b]
  <2>1. /\ home \in [Blocks -> Values] /\ logblk \in [Slots -> Values]
        /\ head \in Seq(Blocks) /\ Len(head) <= LOGSIZE
        /\ \A i, j \in 1 .. Len(head) : head[i] = head[j] => logblk[i] = logblk[j]
    BY DEF Inv, TypeOK, DiskInv, Consistent
  <2> QED BY <1>4, <2>1, DurableFacts
<1>6. \A i \in 1 .. Len(head) : home[head[i]] = logblk[i]
  BY <1>1 DEF DiskInv, Progress, InstalledTo
<1>7. \A b \in Blocks : Durable[b] = home[b]
  BY <1>5, <1>6 DEF Logged
<1>8. Durable = home
  BY <1>5, <1>7 DEF Inv, TypeOK
<1> QED BY <1>2, <1>3, <1>8 DEF DiskInv

(* The end of a commit, the start of recovery and a crash keep the disk    *)
(* invariant.                                                              *)
LEMMA OtherDisk ==
    ASSUME Inv, DiskInv, Finish \/ read_head \/ Crash
    PROVE  DiskInv'
<1>1. CASE Finish
  <2>1. /\ phase = "finish" /\ phase' = "none" /\ lh = <<>>
        /\ UNCHANGED <<disk, lh, cache, dirty, panicked>>
    BY <1>1 DEF Finish, Goto, Inv, Control
  <2>2. Consistent' /\ Header' /\ Progress'
    BY <2>1 DEF DiskInv, Consistent, Header, Progress, disk
  <2>3. Clean'
    BY <2>1 DEF DiskInv, Clean, BootPhases, disk
  <2> QED BY <2>2, <2>3 DEF DiskInv
<1>2. CASE read_head
  <2>1. /\ phase = "boot_read" /\ tail' = 1 /\ lh' = head
        /\ phase' = (IF head = <<>> THEN "boot_clear" ELSE "boot_install")
        /\ UNCHANGED <<disk, cache, dirty, panicked>>
    BY <1>2 DEF read_head, Goto
  <2>2. Consistent' /\ Header'
    BY <2>1 DEF DiskInv, Consistent, Header, disk
  <2>3. Progress'
    BY <2>1 DEF Progress, InstalledTo, disk
  <2>4. Clean'
    BY <2>1 DEF DiskInv, Clean, BootPhases, disk
  <2> QED BY <2>2, <2>3, <2>4 DEF DiskInv
<1>3. CASE Crash
  <2>1. /\ phase' = "boot_read" /\ cache' = home /\ dirty' = {} /\ UNCHANGED disk
    BY <1>3 DEF Crash, Goto
  <2>2. Consistent' /\ Header' /\ Progress'
    BY <2>1 DEF DiskInv, Consistent, Header, Progress, disk
  <2>3. Clean'
    BY <2>1 DEF Clean, BootPhases, disk
  <2> QED BY <2>2, <2>3 DEF DiskInv
<1> QED BY <1>1, <1>2, <1>3

(* Every step keeps the disk invariant.                                    *)
LEMMA StepDisk == Inv /\ DiskInv /\ [Next]_vars => DiskInv'
<1> SUFFICES ASSUME Inv, DiskInv, [Next]_vars PROVE DiskInv'
  OBVIOUS
<1>1. CASE UNCHANGED vars
  BY <1>1, SameDisk DEF vars, disk
<1>2. CASE \E o \in Procs : Call(o) \/ begin_op(o) \/ end_op(o)
  BY <1>2, SameDisk, end_opDisk DEF Call, begin_op
<1>3. CASE \E o \in Procs, b \in Blocks, x \in Values : log_write(o, b, x)
  BY <1>3, log_writeDisk
<1>4. CASE \E b \in Blocks : Evict(b)
  BY <1>4, EvictDisk
<1>5. CASE CommitStep
  BY <1>5, write_logDisk, write_headDisk, InstallDisk, ClearDisk, OtherDisk
     DEF CommitStep
<1>6. CASE Recover
  BY <1>6, OtherDisk, InstallDisk, ClearDisk DEF Recover
<1>7. CASE Crash
  BY <1>7, OtherDisk
<1> QED BY <1>1, <1>2, <1>3, <1>4, <1>5, <1>6, <1>7 DEF Next
-----------------------------------------------------------------------------
(* The first boot starts in an initial state of AtomicDisk.                *)
LEMMA InitAbstract == Init => Abstract!Init
<1> SUFFICES ASSUME Init PROVE Abstract!Init
  OBVIOUS
<1>1. phase \in BootPhases /\ head = <<>> /\ home \in [Blocks -> Values] /\ Running = {}
  BY DEF Init, BootPhases, Running
<1>2. Durable = home
  BY <1>1, DurableHome DEF Durable, DurableOf
<1> QED BY <1>1, <1>2 DEF Abstract!Init, View

(* The durable contents depend on the disk only.                           *)
LEMMA DurableSame ==
    ASSUME UNCHANGED <<home, logblk, head>>
    PROVE  Durable' = Durable
BY DEF Durable

(* A step that changes nothing AtomicDisk sees is a stutter of it.         *)
LEMMA AbstractStutter ==
    ASSUME UNCHANGED <<Durable, View, Running>>
    PROVE  [Abstract!Next]_Abstract!dvars
BY DEF Abstract!dvars

(* begin_op and end_op open and close a call of AtomicDisk.                *)
LEMMA CallsAbstract ==
    ASSUME Inv, DiskInv, NEW o \in Procs, Call(o) \/ begin_op(o) \/ end_op(o)
    PROVE  [Abstract!Next]_Abstract!dvars
<1>1. UNCHANGED <<disk, cache>> /\ phase \notin BootPhases
  BY DEF Call, begin_op, end_op, Up
<1>2. Durable' = Durable
  BY <1>1, DurableSame DEF disk
<1>3. phase' \notin BootPhases
  <2>1. CASE Call(o) \/ begin_op(o)
    BY <1>1, <2>1 DEF Call, begin_op
  <2>2. CASE end_op(o)
    BY <1>1, <2>2 DEF end_op, BootPhases
  <2> QED BY <2>1, <2>2
<1>4. View' = View
  BY <1>1, <1>3 DEF View
<1>5. CASE Call(o)
  <2>1. Running' = Running
    BY <1>5 DEF Running, Call, Inv, TypeOK
  <2> QED BY <1>2, <1>4, <2>1, AbstractStutter
<1>6. CASE begin_op(o)
  <2>1. CASE op' = [op EXCEPT ![o] = "run"]
    <3>1. Running' = Running \cup {o} /\ o \notin Running
      BY <1>6, <2>1 DEF Running, begin_op, Inv, TypeOK
    <3>2. Abstract!Begin(o)
      BY <1>2, <1>4, <3>1 DEF Abstract!Begin
    <3> QED BY <3>2 DEF Abstract!Next
  <2>2. CASE op' = [op EXCEPT ![o] = "asleep"]
    <3>1. Running' = Running
      BY <1>6, <2>2 DEF Running, begin_op, Inv, TypeOK
    <3> QED BY <1>2, <1>4, <3>1, AbstractStutter
  <2> QED BY <1>6, <2>1, <2>2 DEF begin_op
<1>7. CASE end_op(o)
  <2>1. Running' = Running \ {o} /\ o \in Running
    BY <1>7, end_opInv DEF end_op, Running
  <2>2. Abstract!End(o)
    BY <1>2, <1>4, <2>1 DEF Abstract!End
  <2> QED BY <2>2 DEF Abstract!Next
<1> QED BY <1>5, <1>6, <1>7

(* log_write is a write of AtomicDisk, which a crash may forget.           *)
LEMMA WritesAbstract ==
    ASSUME Inv, NEW o \in Procs, NEW b \in Blocks, NEW x \in Values, log_write(o, b, x)
    PROVE  Abstract!Next
<1>1. /\ UNCHANGED <<disk, op, phase>> /\ phase \notin BootPhases /\ op[o] = "run"
      /\ cache' = [cache EXCEPT ![b] = x]
  BY DEF log_write, Up
<1>2. Durable' = Durable
  BY <1>1, DurableSame DEF disk
<1>3. o \in Running /\ Running' = Running
  BY <1>1 DEF Running
<1>4. View = cache /\ View' = cache'
  BY <1>1 DEF View
<1>5. Abstract!Write(o, b, x)
  BY <1>1, <1>2, <1>3, <1>4 DEF Abstract!Write
<1> QED BY <1>5 DEF Abstract!Next

(* The header write is the commit of AtomicDisk, with no call open: all    *)
(* the writes become durable in one disk write.                            *)
LEMMA write_headAbstract ==
    ASSUME Inv, DiskInv, write_head
    PROVE  Abstract!Next
<1>1. /\ phase = "write_head" /\ phase' = "install" /\ head' = lh
      /\ UNCHANGED <<home, logblk, Memory>> /\ head = <<>> /\ TypeOK
      /\ committing /\ Running = {}
  BY DEF write_head, Goto, DiskInv, Header, Inv, Control, CommitPhases
<1>2. \A i \in 1 .. Len(lh) : logblk[i] = cache[lh[i]]
  BY <1>1 DEF DiskInv, Progress, WrittenTo
<1>3. Durable' = DurableOf(home, logblk, lh)
  BY <1>1 DEF Durable, DurableOf
<1>4. /\ Durable' \in [Blocks -> Values]
      /\ \A i \in 1 .. Len(lh) : Durable'[lh[i]] = logblk[i]
      /\ \A b \in Blocks \ Logged(lh) : Durable'[b] = home[b]
  <2>1. /\ home \in [Blocks -> Values] /\ logblk \in [Slots -> Values]
        /\ lh \in Seq(Blocks) /\ Len(lh) <= LOGSIZE
        /\ \A i, j \in 1 .. Len(lh) : lh[i] = lh[j] => logblk[i] = logblk[j]
    BY <1>1, <1>2 DEF TypeOK
  <2> QED BY <1>3, <2>1, DurableFacts
<1>5. \A b \in Blocks \ Logged(lh) : cache[b] = home[b]
  BY <1>1 DEF DiskInv, Clean, write_head, Up
<1>6. \A b \in Blocks : Durable'[b] = cache[b]
  BY <1>2, <1>4, <1>5 DEF Logged
<1>7. Durable' = cache
  BY <1>1, <1>4, <1>6 DEF TypeOK
<1>8. View = cache /\ View' = cache
  BY <1>1 DEF View, BootPhases, Memory
<1>9. Running' = Running
  BY <1>1 DEF Running, Memory
<1>10. Abstract!Commit
  BY <1>1, <1>7, <1>8, <1>9 DEF Abstract!Commit
<1> QED BY <1>10 DEF Abstract!Next

(* install_trans changes neither what is durable nor what calls see.       *)
LEMMA InstallAbstract ==
    ASSUME Inv, DiskInv,
           NEW p, NEW q, Install(p, q),
           (p = "install" /\ q = "clear") \/ (p = "boot_install" /\ q = "boot_clear")
    PROVE  UNCHANGED <<Durable, View, Running>>
<1>1. /\ phase = p /\ tail <= Len(lh) /\ TypeOK /\ Loop(p, q) /\ head = lh
      /\ home' = [home EXCEPT ![lh[tail]] = logblk[tail]]
      /\ cache' = [cache EXCEPT ![lh[tail]] = logblk[tail]]
      /\ UNCHANGED <<logblk, head, lh, op>>
  BY DEF Inv, Control, Install, DiskInv, Header
<1>2. p \in Phases /\ q \in Phases /\ p # q
  BY DEF Phases, BootPhases
<1>3. /\ phase' \in {p, q} /\ lh[tail] \in Blocks /\ tail \in Slots /\ tail \in 1 .. Len(lh)
  BY <1>1, <1>2, LoopTail
<1>4. lh[tail] \in Logged(head)
  BY <1>1, <1>3 DEF Logged
<1>5. \A b \in Blocks : b \notin Logged(head) => home'[b] = home[b]
  BY <1>1, <1>4 DEF TypeOK
<1>6. Durable' = Durable
  BY <1>1, <1>5 DEF Durable
<1>7. Running' = Running
  BY <1>1 DEF Running
<1>8. CASE p = "install" /\ q = "clear"
  <2>1. cache' = cache
    BY <1>1, <1>3, <1>8 DEF DiskInv, Progress, WrittenTo, TypeOK
  <2>2. View' = View
    BY <1>1, <1>3, <1>8, <2>1 DEF View, BootPhases
  <2> QED BY <1>6, <1>7, <2>2
<1>9. CASE p = "boot_install" /\ q = "boot_clear"
  <2>1. View' = View
    BY <1>1, <1>3, <1>6, <1>9 DEF View, BootPhases
  <2> QED BY <1>6, <1>7, <2>1
<1> QED BY <1>8, <1>9

(* ... and neither does clearing the header; at the end of recovery the    *)
(* calls see what was durable.                                             *)
LEMMA ClearAbstract ==
    ASSUME Inv, DiskInv,
           NEW p, NEW q, Clear(p, q),
           (p = "clear" /\ q = "finish") \/ (p = "boot_clear" /\ q = "none")
    PROVE  UNCHANGED <<Durable, View, Running>>
<1>1. /\ phase = p /\ phase' = q /\ head' = <<>> /\ home' = home /\ cache' = cache /\ op' = op
      /\ home \in [Blocks -> Values]
  BY DEF Clear, Goto, Inv, TypeOK
<1>2. Durable = home
  BY ClearDisk
<1>3. Durable' = home
  <2>1. Durable' = DurableOf(home, logblk', <<>>)
    BY <1>1 DEF Durable, DurableOf
  <2> QED BY <1>1, <2>1, DurableHome
<1>4. Running' = Running
  BY <1>1 DEF Running
<1>5. p = "boot_clear" => cache = home
  BY <1>1 DEF DiskInv, Clean, BootPhases
<1>6. View' = View
  BY <1>1, <1>2, <1>5 DEF View, BootPhases
<1> QED BY <1>2, <1>3, <1>4, <1>6

(* Writing the log, ending a commit, reading the header and recycling a    *)
(* buffer are invisible.                                                   *)
LEMMA OthersAbstract ==
    ASSUME Inv, DiskInv, write_log \/ Finish \/ read_head \/ \E b \in Blocks : Evict(b)
    PROVE  UNCHANGED <<Durable, View, Running>>
<1>1. CASE write_log
  <2>1. /\ phase = "write_log" /\ head = <<>> /\ head' = <<>> /\ home' = home
        /\ Loop("write_log", "write_head") /\ UNCHANGED Memory /\ home \in [Blocks -> Values]
    BY <1>1 DEF write_log, DiskInv, Header, Inv, TypeOK
  <2>2. Durable = home /\ Durable' = home
    <3>1. Durable = DurableOf(home, logblk, <<>>)
      BY <2>1 DEF Durable, DurableOf
    <3>2. Durable' = DurableOf(home, logblk', <<>>)
      BY <2>1 DEF Durable, DurableOf
    <3> QED BY <2>1, <3>1, <3>2, DurableHome
  <2>3. phase' \in {"write_log", "write_head"}
    BY <2>1 DEF Loop, Goto
  <2> QED BY <2>1, <2>2, <2>3 DEF View, Running, Memory, BootPhases
<1>2. CASE Finish
  <2>1. Running' = Running
    BY <1>2, FinishInv
  <2>2. Durable' = Durable
    BY <1>2, DurableSame DEF Finish, disk
  <2> QED BY <1>2, <2>1, <2>2 DEF View, Finish, Goto, BootPhases
<1>3. CASE read_head
  <2>1. Durable' = Durable
    BY <1>3, DurableSame DEF read_head, disk
  <2>2. phase \in BootPhases /\ phase' \in BootPhases
    BY <1>3 DEF read_head, Goto, BootPhases
  <2> QED BY <1>3, <2>1, <2>2 DEF View, Running, read_head
<1>4. ASSUME NEW b \in Blocks, Evict(b) PROVE UNCHANGED <<Durable, View, Running>>
  <2>1. Durable' = Durable
    BY <1>4, DurableSame DEF Evict, disk
  <2> QED BY <1>4, <2>1, EvictDisk DEF View, Running, Evict
<1> QED BY <1>1, <1>2, <1>3, <1>4

(* A crash, at any point of a commit or of recovery, is the crash of       *)
(* AtomicDisk.                                                             *)
LEMMA CrashAbstract ==
    ASSUME Inv, Crash
    PROVE  Abstract!Next
<1>1. UNCHANGED disk /\ phase' \in BootPhases
  BY DEF Crash, Goto, BootPhases
<1>2. Durable' = Durable
  BY <1>1, DurableSame DEF disk
<1>3. View' = Durable
  BY <1>1, <1>2 DEF View
<1>4. Abstract!Crash
  BY <1>2, <1>3, CrashInv DEF Abstract!Crash
<1> QED BY <1>4 DEF Abstract!Next

(* Every step is a step of AtomicDisk or a stutter.                        *)
LEMMA StepAbstract == Inv /\ DiskInv /\ [Next]_vars => [Abstract!Next]_Abstract!dvars
<1> SUFFICES ASSUME Inv, DiskInv, [Next]_vars PROVE [Abstract!Next]_Abstract!dvars
  OBVIOUS
<1>1. CASE UNCHANGED vars
  <2>1. UNCHANGED <<Durable, View, Running>>
    BY <1>1 DEF vars, Durable, View, Running
  <2> QED BY <2>1, AbstractStutter
<1>2. CASE \E o \in Procs : Call(o) \/ begin_op(o) \/ end_op(o)
  BY <1>2, CallsAbstract
<1>3. CASE \E o \in Procs, b \in Blocks, x \in Values : log_write(o, b, x)
  BY <1>3, WritesAbstract
<1>4. CASE \E b \in Blocks : Evict(b)
  BY <1>4, OthersAbstract, AbstractStutter
<1>5. CASE CommitStep
  BY <1>5, OthersAbstract, write_headAbstract, InstallAbstract, ClearAbstract,
     AbstractStutter
     DEF CommitStep
<1>6. CASE Recover
  BY <1>6, OthersAbstract, InstallAbstract, ClearAbstract, AbstractStutter
     DEF Recover
<1>7. CASE Crash
  BY <1>7, CrashAbstract
<1> QED BY <1>1, <1>2, <1>3, <1>4, <1>5, <1>6, <1>7 DEF Next

(* Crash atomicity (log.c:98-100: the header write is "the true point at   *)
(* which the current transaction commits"): for any number of processes,   *)
(* blocks, calls and crashes, in commits and in recoveries, the disk that  *)
(* recovery restores takes over the writes of finished calls all at once   *)
(* and never those of an unfinished one.                                   *)
THEOREM Atomicity == Spec => Atomic
<1>1. Spec => []DiskInv
  BY Invariance, InitDisk, StepDisk, PTL DEF Spec
<1> QED
  BY <1>1, Invariance, InitAbstract, StepAbstract, PTL
     DEF Spec, Atomic, Abstract!Spec
-----------------------------------------------------------------------------
(* A set of at most K elements can be numbered by 1 .. K.                  *)
LEMMA Numbered ==
    ASSUME NEW S, IsFiniteSet(S), NEW K \in Nat, Cardinality(S) <= K
    PROVE  \E g : g \in Injection(S, 1 .. K)
<1>1. Cardinality(S) \in Nat /\ ExistsBijection(1 .. Cardinality(S), S)
  BY FS_CardinalityType
<1>2. PICK f : f \in Surjection(1 .. Cardinality(S), S)
  BY <1>1 DEF ExistsBijection, Bijection
<1> DEFINE g == [b \in S |-> CHOOSE i \in 1 .. Cardinality(S) : f[i] = b]
<1>3. \A b \in S : g[b] \in 1 .. Cardinality(S) /\ f[g[b]] = b
  BY <1>2 DEF Surjection
<1>4. 1 .. Cardinality(S) \subseteq 1 .. K
  BY <1>1
<1>5. g \in [S -> 1 .. K]
  BY <1>3, <1>4
<1>6. g \in Injection(S, 1 .. K)
  BY <1>3, <1>5 DEF Injection, IsInjective
<1> QED BY <1>6

(* Pairs of an element of R and one of at most K partners of its own are   *)
(* at most Cardinality(R) * K.                                             *)
LEMMA PairsBound ==
    ASSUME NEW R, IsFiniteSet(R), NEW K \in Nat, NEW w, NEW P,
           \A q \in R : IsFiniteSet(w[q]) /\ Cardinality(w[q]) <= K,
           \A x \in P : x = <<x[1], x[2]>> /\ x[1] \in R /\ x[2] \in w[x[1]]
    PROVE  IsFiniteSet(P) /\ Cardinality(P) <= Cardinality(R) * K
<1> DEFINE num == [q \in R |-> CHOOSE g : g \in Injection(w[q], 1 .. K)]
           f == [x \in P |-> <<x[1], num[x[1]][x[2]]>>]
<1>1. \A q \in R : num[q] \in Injection(w[q], 1 .. K)
  BY Numbered
<1> HIDE DEF num
<1>2. ASSUME NEW q \in R
      PROVE  /\ \A b \in w[q] : num[q][b] \in 1 .. K
             /\ \A b, c \in w[q] : num[q][b] = num[q][c] => b = c
  <2>1. num[q] \in [w[q] -> 1 .. K] /\ IsInjective(num[q])
    BY <1>1 DEF Injection
  <2> QED BY <2>1 DEF IsInjective
<1>3. f \in [P -> R \X (1 .. K)]
  BY <1>2
<1>4. \A x, y \in P : f[x] = f[y] => x = y
  <2> SUFFICES ASSUME NEW x \in P, NEW y \in P, f[x] = f[y] PROVE x = y
    OBVIOUS
  <2>1. x[1] = y[1] /\ num[x[1]][x[2]] = num[y[1]][y[2]]
    OBVIOUS
  <2>2. x[2] = y[2]
    BY <1>2, <2>1
  <2> QED BY <2>1, <2>2
<1>5. f \in Injection(P, R \X (1 .. K))
  BY <1>3, <1>4 DEF Injection, IsInjective
<1>6. IsFiniteSet(1 .. K) /\ Cardinality(1 .. K) = K
  BY FS_Interval
<1>7. IsFiniteSet(R \X (1 .. K)) /\ Cardinality(R \X (1 .. K)) = Cardinality(R) * K
  BY <1>6, FS_Product
<1> QED BY <1>5, <1>7, FS_Injection

(* What a running call has recorded and what the others have, who have     *)
(* recorded no more than they reserved.                                    *)
LEMMA RecordedSplit ==
    ASSUME Inv, CallsSmall, NEW o \in Running
    PROVE  LET rest == {x \in Recorded : x[1] # o}
           IN  /\ IsFiniteSet(Recorded) /\ IsFiniteSet(rest)
               /\ Cardinality(Recorded) = Cardinality(rest) + Cardinality(written[o])
               /\ Cardinality(written[o]) \in Nat /\ Cardinality(rest) \in Nat
               /\ Cardinality(rest) <= (outstanding - 1) * MAXOPBLOCKS
<1> DEFINE mine == {x \in Recorded : x[1] = o}
           rest == {x \in Recorded : x[1] # o}
<1>1. /\ o \in Procs /\ op[o] = "run" /\ written[o] \in SUBSET Blocks
      /\ IsFiniteSet(written[o]) /\ Cardinality(written[o]) \in Nat
  BY FS_CardinalityType DEF Running, CallsSmall, Inv, TypeOK
<1>2. IsFiniteSet(mine) /\ Cardinality(mine) = Cardinality(written[o])
  <2> DEFINE f == [b \in written[o] |-> <<o, b>>]
  <2>1. mine = {<<o, b>> : b \in written[o]}
    BY <1>1 DEF Recorded
  <2>2. f \in [written[o] -> mine]
    BY <2>1
  <2>3. f \in Bijection(written[o], mine)
    BY <2>1, <2>2 DEF Bijection, Injection, Surjection, IsInjective
  <2>4. ExistsBijection(written[o], mine)
    BY <2>3 DEF ExistsBijection
  <2> HIDE DEF f, mine
  <2> QED BY <1>1, <2>4, FS_Bijection
<1>3. MAXOPBLOCKS \in Nat /\ OpWrites <= MAXOPBLOCKS /\ OpWrites \in Nat
  BY SizeAssumption
<1>4. /\ IsFiniteSet(Running \ {o})
      /\ Cardinality(Running \ {o}) = outstanding - 1
  BY RunningFinite, FS_RemoveElement DEF Inv, Counted
<1>5. \A q \in Running \ {o} : IsFiniteSet(written[q]) /\ Cardinality(written[q]) <= MAXOPBLOCKS
  BY <1>3, FS_CardinalityType DEF CallsSmall, Running
<1>6. \A x \in rest : x = <<x[1], x[2]>> /\ x[1] \in Running \ {o} /\ x[2] \in written[x[1]]
  BY DEF Recorded, Running
<1> HIDE DEF mine, rest
<1>7. IsFiniteSet(rest) /\ Cardinality(rest) <= (outstanding - 1) * MAXOPBLOCKS
  BY <1>3, <1>4, <1>5, <1>6, PairsBound
<1>8. Recorded = rest \cup mine /\ rest \cap mine = {}
  BY DEF rest, mine
<1>9. /\ IsFiniteSet(Recorded)
      /\ Cardinality(Recorded) = Cardinality(rest) + Cardinality(mine) - 0
  BY <1>2, <1>7, <1>8, FS_Union, FS_EmptySet
<1> QED BY <1>1, <1>2, <1>7, <1>9, FS_CardinalityType DEF rest

(* The space invariant holds before the first boot.                        *)
LEMMA InitSpace == Init => SpaceInv
<1> SUFFICES ASSUME Init PROVE SpaceInv
  OBVIOUS
<1>1. CallsSmall
  BY FS_EmptySet, SizeAssumption DEF Init, CallsSmall
<1>2. Recorded = {} /\ Len(lh) = 0 /\ outstanding = 0
  BY DEF Init, Recorded
<1>3. Reserved
  BY <1>2, FS_EmptySet, SizeAssumption DEF Reserved
<1> QED BY <1>1, <1>3 DEF Init, SpaceInv, NoPanic

(* The space invariant is kept by a step that leaves the calls and the log *)
(* alone.                                                                  *)
LEMMA SameSpace ==
    ASSUME SpaceInv, UNCHANGED <<lh, op, written, outstanding, panicked>>
    PROVE  SpaceInv'
BY DEF SpaceInv, CallsSmall, Reserved, Recorded, NoPanic, Logged

(* A new call has recorded nothing.                                        *)
LEMMA CallSpace ==
    ASSUME Inv, SpaceInv, NEW o \in Procs, Call(o)
    PROVE  SpaceInv'
<1>1. /\ op[o] = "idle" /\ op' = [op EXCEPT ![o] = "begin"]
      /\ written' = [written EXCEPT ![o] = {}] /\ UNCHANGED <<lh, outstanding, panicked>>
      /\ op \in [Procs -> OpStates] /\ written \in [Procs -> SUBSET Blocks]
  BY DEF Call, Inv, TypeOK
<1>2. CallsSmall'
  BY <1>1, FS_EmptySet, SizeAssumption DEF SpaceInv, CallsSmall
<1>3. Recorded' = Recorded
  BY <1>1 DEF Recorded
<1> QED BY <1>1, <1>2, <1>3 DEF SpaceInv, Reserved, NoPanic

(* begin_op's test (log.c:132) leaves room for all that the calls, this    *)
(* one included, may still record.                                         *)
LEMMA begin_opSpace ==
    ASSUME Inv, SpaceInv, NEW o \in Procs, begin_op(o)
    PROVE  SpaceInv'
<1>1. /\ op[o] = "begin" /\ UNCHANGED <<lh, written, panicked>> /\ written[o] = {}
      /\ op \in [Procs -> OpStates]
  BY DEF begin_op, Inv, TypeOK, SpaceInv, CallsSmall
<1>2. CASE op' = [op EXCEPT ![o] = "run"] /\ Room /\ outstanding' = outstanding + 1
  <2>1. CallsSmall'
    BY <1>1, <1>2 DEF SpaceInv, CallsSmall
  <2>2. Recorded' = Recorded
    BY <1>1, <1>2 DEF Recorded
  <2>3. Cardinality(Recorded) \in Nat /\ IsFiniteSet(Recorded)
    BY FS_CardinalityType DEF SpaceInv, Reserved
  <2>4. Len(lh) \in Nat /\ (outstanding + 1) * MAXOPBLOCKS \in Int /\ LOGSIZE \in Nat
    BY SizeAssumption DEF Inv, TypeOK
  <2>5. Reserved'
    BY <1>1, <1>2, <2>2, <2>3, <2>4 DEF Room, Reserved
  <2> QED BY <1>1, <2>1, <2>5 DEF SpaceInv, NoPanic
<1>3. CASE op' = [op EXCEPT ![o] = "asleep"] /\ outstanding' = outstanding
  <2>1. CallsSmall'
    BY <1>1, <1>3 DEF SpaceInv, CallsSmall
  <2>2. Recorded' = Recorded
    BY <1>1, <1>3 DEF Recorded
  <2> QED BY <1>1, <1>3, <2>1, <2>2 DEF SpaceInv, Reserved, NoPanic
<1> QED BY <1>2, <1>3 DEF begin_op

(* A running call finds the log short of full by what is left of its own   *)
(* reservation.                                                            *)
LEMMA RoomLeft ==
    ASSUME Inv, SpaceInv, NEW o \in Running
    PROVE  /\ Len(lh) + MAXOPBLOCKS - Cardinality(written[o]) <= LOGSIZE
           /\ outstanding >= 1 /\ Cardinality(written[o]) \in Nat
<1> DEFINE rest == {x \in Recorded : x[1] # o}
<1>1. /\ Cardinality(Recorded) = Cardinality(rest) + Cardinality(written[o])
      /\ Cardinality(rest) <= (outstanding - 1) * MAXOPBLOCKS
      /\ Cardinality(rest) \in Nat /\ Cardinality(written[o]) \in Nat
  BY RecordedSplit DEF SpaceInv
<1> HIDE DEF rest
<1>2. outstanding \in Nat /\ MAXOPBLOCKS \in Nat /\ Len(lh) \in Nat /\ LOGSIZE \in Nat
  BY SizeAssumption DEF Inv, TypeOK
<1>3. (outstanding - 1) * MAXOPBLOCKS = outstanding * MAXOPBLOCKS - MAXOPBLOCKS
  BY <1>2
<1>4. outstanding * MAXOPBLOCKS \in Nat
  BY <1>2
<1>5. Len(lh) + outstanding * MAXOPBLOCKS - Cardinality(Recorded) <= LOGSIZE
  BY DEF SpaceInv, Reserved
<1>6. outstanding >= 1
  BY <1>2, RunningFinite DEF Inv, Counted
<1> QED BY <1>1, <1>2, <1>3, <1>4, <1>5, <1>6

(* log_write (log.c:218) does not find the log full, and takes at most one *)
(* block of the reservation of its call.                                   *)
LEMMA log_writeSpace ==
    ASSUME Enough, Inv, SpaceInv, NEW o \in Procs, NEW b \in Blocks, NEW x \in Values,
           log_write(o, b, x)
    PROVE  SpaceInv'
<1>1. /\ op[o] = "run" /\ op' = op /\ outstanding' = outstanding
      /\ written' = [written EXCEPT ![o] = written[o] \cup {b}]
      /\ Cardinality(written[o] \cup {b}) <= OpWrites
      /\ written \in [Procs -> SUBSET Blocks] /\ lh \in Seq(Blocks) /\ ~panicked
      /\ written[o] \subseteq Logged(lh) /\ IsFiniteSet(written[o])
  BY DEF log_write, Inv, TypeOK, SpaceInv, CallsSmall, Up
<1>2. o \in Running
  BY <1>1 DEF Running
<1>3. /\ Len(lh) + MAXOPBLOCKS - Cardinality(written[o]) <= LOGSIZE
      /\ outstanding >= 1 /\ Cardinality(written[o]) \in Nat
  BY <1>2, RoomLeft
<1>4. /\ IsFiniteSet(written[o] \cup {b})
      /\ Cardinality(written[o] \cup {b}) =
            IF b \in written[o] THEN Cardinality(written[o]) ELSE Cardinality(written[o]) + 1
  BY <1>1, FS_AddElement
<1>5. ~Full
  <2>1. Cardinality(written[o]) <= OpWrites
    BY <1>1, <1>3, <1>4, SizeAssumption
  <2>2. Len(lh) \in Nat
    BY <1>1
  <2> QED BY <1>3, <2>1, <2>2, SizeAssumption DEF Full, Enough
<1>6. lh' = Record(b) /\ panicked' = panicked
  BY <1>3, <1>5, SizeAssumption DEF log_write, Inv, TypeOK
<1>7. Logged(lh') = Logged(lh) \cup {b}
  BY <1>1, <1>6, RecordType
<1>8. CallsSmall'
  BY <1>1, <1>4, <1>7 DEF SpaceInv, CallsSmall
<1>9. Recorded' = Recorded \cup {<<o, b>>}
  BY <1>1 DEF Recorded
<1>10. <<o, b>> \in Recorded <=> b \in written[o]
  BY <1>1 DEF Recorded
<1>11. IsFiniteSet(Recorded) /\ Cardinality(Recorded) \in Nat
  BY FS_CardinalityType DEF SpaceInv, Reserved
<1>12. Len(lh') - Cardinality(Recorded') <= Len(lh) - Cardinality(Recorded) /\ Len(lh') \in Nat
       /\ IsFiniteSet(Recorded') /\ Cardinality(Recorded') \in Nat
  <2>1. /\ IsFiniteSet(Recorded')
        /\ Cardinality(Recorded') =
              IF b \in written[o] THEN Cardinality(Recorded) ELSE Cardinality(Recorded) + 1
    BY <1>9, <1>10, <1>11, FS_AddElement
  <2>2. Len(lh') = (IF b \in Logged(lh) THEN Len(lh) ELSE Len(lh) + 1) /\ Len(lh) \in Nat
    BY <1>1, <1>6, RecordType
  <2> QED BY <1>1, <1>11, <2>1, <2>2
<1>13. outstanding * MAXOPBLOCKS \in Int /\ LOGSIZE \in Nat /\ Len(lh) \in Nat
  BY <1>1, SizeAssumption DEF Inv, TypeOK
<1>14. Reserved'
  BY <1>1, <1>11, <1>12, <1>13 DEF SpaceInv, Reserved
<1> QED BY <1>6, <1>8, <1>14 DEF SpaceInv, NoPanic

(* A call that ends gives back the rest of its reservation.                *)
LEMMA end_opSpace ==
    ASSUME Inv, SpaceInv, NEW o \in Procs, end_op(o)
    PROVE  SpaceInv'
<1>1. /\ op[o] = "run" /\ outstanding' = outstanding - 1 /\ UNCHANGED <<lh, written>>
      /\ op \in [Procs -> OpStates] /\ o \in Running
  BY DEF end_op, Inv, TypeOK, Running
<1>2. /\ panicked' = panicked /\ Running' = Running \ {o} /\ TypeOK'
  BY end_opInv DEF Inv
<1>3. \A q \in Procs : /\ op'[q] = "run" <=> (op[q] = "run" /\ q # o)
                       /\ op'[q] \in {"begin", "asleep"} => op[q] \in {"begin", "asleep"}
  <2>1. \A q \in Procs : op'[q] = "run" <=> (op[q] = "run" /\ q # o)
    BY <1>2 DEF Running
  <2>2. op' = [op EXCEPT ![o] = "commit"] \/ op' = Wake([op EXCEPT ![o] = "idle"]) \/ op' = op
    BY DEF end_op
  <2>3. \A q \in Procs : op'[q] \in {"begin", "asleep"} => op[q] \in {"begin", "asleep"}
    BY <1>1, <2>2 DEF Wake
  <2> QED BY <2>1, <2>3
<1>4. CallsSmall'
  BY <1>1, <1>3 DEF SpaceInv, CallsSmall
<1> DEFINE rest == {x \in Recorded : x[1] # o}
<1>5. Recorded' = rest
  BY <1>1, <1>3 DEF Recorded
<1>6. /\ IsFiniteSet(rest) /\ Cardinality(rest) \in Nat
      /\ Cardinality(Recorded) = Cardinality(rest) + Cardinality(written[o])
      /\ Cardinality(written[o]) \in Nat
  BY <1>1, RecordedSplit DEF SpaceInv
<1> HIDE DEF rest
<1>7. outstanding \in Nat /\ MAXOPBLOCKS \in Nat /\ Len(lh) \in Nat /\ LOGSIZE \in Nat
  BY SizeAssumption DEF Inv, TypeOK
<1>8. (outstanding - 1) * MAXOPBLOCKS = outstanding * MAXOPBLOCKS - MAXOPBLOCKS
  BY <1>7
<1>9. outstanding * MAXOPBLOCKS \in Nat
  BY <1>7
<1>10. Cardinality(written[o]) <= MAXOPBLOCKS
  BY <1>6, <1>7, SizeAssumption DEF SpaceInv, CallsSmall
<1>11. Len(lh) + outstanding * MAXOPBLOCKS - Cardinality(Recorded) <= LOGSIZE
  BY DEF SpaceInv, Reserved
<1>12. Len(lh) + (outstanding - 1) * MAXOPBLOCKS - Cardinality(rest) <= LOGSIZE
  BY <1>6, <1>7, <1>8, <1>9, <1>10, <1>11
<1>13. Reserved'
  BY <1>1, <1>5, <1>6, <1>12 DEF Reserved
<1> QED BY <1>2, <1>4, <1>13 DEF SpaceInv, NoPanic

(* Without running calls nothing is reserved.                              *)
LEMMA IdleSpace ==
    ASSUME Inv', CallsSmall', Running' = {}, ~panicked'
    PROVE  SpaceInv'
<1>1. Recorded' = {}
  BY DEF Recorded, Running
<1>2. outstanding' = 0 /\ Len(lh') \in Nat /\ Len(lh') <= LOGSIZE
  BY FS_EmptySet DEF Inv, Counted, TypeOK
<1>3. Reserved'
  BY <1>1, <1>2, FS_EmptySet, SizeAssumption DEF Reserved
<1> QED BY <1>3 DEF SpaceInv, NoPanic

(* commit and recovery run while no call does.                             *)
LEMMA CommitSpace ==
    ASSUME Inv, SpaceInv, Inv', CommitStep \/ Recover
    PROVE  SpaceInv'
<1>1. Running = {} /\ ~panicked /\ panicked' = panicked /\ written' = written
  <2>1. phase \in CommitPhases \cup BootPhases /\ panicked' = panicked /\ written' = written
    BY DEF CommitStep, Recover, write_log, write_head, Install, Clear, Finish, read_head,
           Memory, CommitPhases, BootPhases
  <2> QED BY <2>1 DEF Inv, Control, Running, SpaceInv, NoPanic
<1>2. CASE op' = op
  <2>1. Running' = {}
    BY <1>1, <1>2 DEF Running
  <2>2. CallsSmall'
    BY <1>1, <1>2, <2>1 DEF SpaceInv, CallsSmall, Running
  <2> QED BY <1>1, <2>1, <2>2, IdleSpace
<1>3. CASE Finish
  <2>1. Running' = {}
    BY <1>1, <1>3, FinishInv
  <2>2. \A q \in Procs : op'[q] \in {"begin", "asleep"} => op[q] \in {"begin", "asleep"}
    BY <1>3 DEF Finish, Wake
  <2>3. CallsSmall'
    BY <1>1, <2>1, <2>2 DEF SpaceInv, CallsSmall, Running
  <2> QED BY <1>1, <2>1, <2>3, IdleSpace
<1> QED
  BY <1>2, <1>3
     DEF CommitStep, Recover, write_log, write_head, Install, Clear, read_head,
         Memory

(* A crash ends every call.                                                *)
LEMMA CrashSpace ==
    ASSUME Inv, Crash
    PROVE  SpaceInv'
<1>1. op' = [o \in Procs |-> "idle"] /\ written' = [o \in Procs |-> {}] /\ ~panicked'
  BY DEF Crash
<1>2. CallsSmall'
  BY <1>1, FS_EmptySet, SizeAssumption DEF CallsSmall
<1> QED BY <1>1, <1>2, CrashInv, IdleSpace

(* Every step keeps the space invariant, if the calls leave enough.        *)
LEMMA StepSpace ==
    ASSUME Enough
    PROVE  Inv /\ SpaceInv /\ [Next]_vars => SpaceInv'
<1> SUFFICES ASSUME Inv, SpaceInv, [Next]_vars PROVE SpaceInv'
  OBVIOUS
<1>1. CASE UNCHANGED vars
  BY <1>1, SameSpace DEF vars
<1>2. CASE \E o \in Procs : Call(o) \/ begin_op(o) \/ end_op(o)
  BY <1>2, CallSpace, begin_opSpace, end_opSpace
<1>3. CASE \E o \in Procs, b \in Blocks, x \in Values : log_write(o, b, x)
  BY <1>3, log_writeSpace
<1>4. CASE \E b \in Blocks : Evict(b)
  BY <1>4, SameSpace DEF Evict
<1>5. CASE CommitStep \/ Recover
  BY <1>5, StepInv, CommitSpace
<1>6. CASE Crash
  BY <1>6, CrashSpace
<1> QED BY <1>1, <1>2, <1>3, <1>4, <1>5, <1>6 DEF Next

(* If calls record fewer blocks than they reserve, by as much as the log   *)
(* has less room than LOGSIZE (Enough; 8 of 10 with the 30 blocks of       *)
(* param.h and mkfs.c:25), then for any number of processes neither panic  *)
(* of log_write (log.c:218-221) nor the one of end_op (log.c:152-153) is   *)
(* reached, and whoever sleeps in begin_op has a call or a commit to wake  *)
(* it.                                                                     *)
THEOREM SpaceEnough ==
    ASSUME Enough
    PROVE  Spec => []SpaceKept
<1>1. Spec => []SpaceInv
  BY Invariance, InitSpace, StepSpace, PTL DEF Spec
<1>2. Inv /\ SpaceInv => SpaceKept
  BY DEF Inv, SpaceInv, SpaceKept
<1> QED BY <1>1, <1>2, Invariance, PTL
=============================================================================
