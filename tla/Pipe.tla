-------------------------------- MODULE Pipe --------------------------------
(***************************************************************************)
(* A pipe (pipe.c): a ring buffer under a spin lock, whose readers and     *)
(* writers sleep on &p->nread and &p->nwrite.  Several processes may hold  *)
(* each end.  sleep releases the lock and sleeps in one step (it holds     *)
(* ptable.lock meanwhile); a woken process takes the lock again before it  *)
(* goes on.  kill marks a process and wakes it if it is asleep.            *)
(*                                                                         *)
(* nread and nwrite are uint and wrap around at UINT.                      *)
(***************************************************************************)
EXTENDS Integers, Sequences

CONSTANTS
    Procs,     \* processes that hold an end of the pipe
    Bytes,     \* what is written to it
    PIPESIZE,  \* bytes of the ring buffer
    UINT,      \* modulus of nread and nwrite
    MaxN,      \* bound: bytes of one read or write
    Kills      \* whether processes are killed

ASSUME PipeAssumption ==
    /\ PIPESIZE \in Nat \ {0} /\ UINT \in Nat
    /\ UINT > PIPESIZE /\ UINT % PIPESIZE = 0
    /\ MaxN \in Nat

None == "none"
ASSUME ProcAssumption == None \notin Procs

VARIABLES
    data, nread, nwrite, readopen, writeopen,  \* struct pipe
    lock,    \* holder of p->lock
    fds,     \* ends each process has open: "r", "w"
    pc,      \* where each process is
    n, i,    \* arguments and loop counters of piperead and pipewrite
    killed   \* proc->killed

ring == <<data, nread, nwrite>>
ends == <<readopen, writeopen, fds>>
vars == <<data, nread, nwrite, readopen, writeopen, lock, fds, pc, n, i, killed>>

Empty == nread = nwrite

\* Mutant: the counters are compared without wrapping around.
FullUnwrapped == nwrite = nread + PIPESIZE

Full == nwrite = (nread + PIPESIZE) % UINT

Init ==
    /\ \E x \in Bytes : data = [k \in 0 .. PIPESIZE - 1 |-> x]
    /\ nread = 0 /\ nwrite = 0
    /\ readopen = TRUE /\ writeopen = TRUE
    /\ lock = None
    /\ fds \in [Procs -> SUBSET {"r", "w"}]
    /\ \A e \in {"r", "w"} : \E p \in Procs : e \in fds[p]
    /\ pc = [p \in Procs |-> "out"]
    /\ n = [p \in Procs |-> 0]
    /\ i = [p \in Procs |-> 0]
    /\ killed = [p \in Procs |-> FALSE]

At(p, s) == pc[p] = s
Go(p, s) == pc' = [pc EXCEPT ![p] = s]

(* Where a process goes after wakeup on the channel its state sleeps on.   *)
Woken(s) == CASE s = "rsleep" -> "rlock" [] s = "wsleep" -> "wlock" [] OTHER -> s

(* wakeup(chan), by p, which itself moves to s.                            *)
WakeGo(p, s, chan) ==
    pc' = [r \in Procs |-> IF r = p THEN s
                           ELSE IF pc[r] = chan THEN Woken(chan) ELSE pc[r]]

(* A system call on the pipe; killed processes make no more of them.       *)
Call(p, e, s) ==
    /\ At(p, "out") /\ ~killed[p] /\ e \in fds[p]
    /\ \E k \in 1 .. MaxN : n' = [n EXCEPT ![p] = k]
    /\ i' = [i EXCEPT ![p] = 0]
    /\ Go(p, s)
    /\ UNCHANGED <<ring, ends, lock, killed>>

Acquire(p, from, to) ==
    /\ At(p, from) /\ lock = None
    /\ lock' = p
    /\ Go(p, to)
    /\ UNCHANGED <<ring, ends, n, i, killed>>

(* sleep(chan, &p->lock).                                                  *)
Sleep(p, from, chan) ==
    /\ At(p, from)
    /\ lock' = None
    /\ Go(p, chan)
    /\ UNCHANGED <<ring, ends, n, i, killed>>

(* The end of a call: the lock is released and the locals are gone.        *)
Return(p) ==
    /\ lock' = None
    /\ n' = [n EXCEPT ![p] = 0]
    /\ i' = [i EXCEPT ![p] = 0]
-----------------------------------------------------------------------------
(* pipewrite.                                                              *)
WriteByte(p) ==
    /\ At(p, "wloop") /\ i[p] < n[p] /\ ~Full
    /\ \E x \in Bytes : data' = [data EXCEPT ![nwrite % PIPESIZE] = x]
    /\ nwrite' = (nwrite + 1) % UINT
    /\ i' = [i EXCEPT ![p] = @ + 1]
    /\ UNCHANGED <<nread, ends, lock, pc, n, killed>>

WriteFull(p) ==
    /\ At(p, "wloop") /\ i[p] < n[p] /\ Full
    /\ IF ~readopen \/ killed[p]
       THEN Return(p) /\ Go(p, "out")
       ELSE WakeGo(p, "wnap", "rsleep") /\ UNCHANGED <<lock, n, i>>
    /\ UNCHANGED <<ring, ends, killed>>

\* Mutant: the readers are not woken at the end.
WriteDoneSilent(p) ==
    /\ At(p, "wloop") /\ i[p] = n[p]
    /\ Go(p, "out")
    /\ Return(p)
    /\ UNCHANGED <<ring, ends, killed>>

WriteDone(p) ==
    /\ At(p, "wloop") /\ i[p] = n[p]
    /\ WakeGo(p, "out", "rsleep")
    /\ Return(p)
    /\ UNCHANGED <<ring, ends, killed>>

pipewrite(p) ==
    \/ Call(p, "w", "wlock")
    \/ Acquire(p, "wlock", "wloop")
    \/ WriteByte(p) \/ WriteFull(p) \/ WriteDone(p)
    \/ Sleep(p, "wnap", "wsleep")
-----------------------------------------------------------------------------
(* piperead.                                                               *)
ReadTest(p) ==
    /\ At(p, "rtest")
    /\ IF Empty /\ writeopen
       THEN IF killed[p] THEN Return(p) /\ Go(p, "out")
                         ELSE Go(p, "rnap") /\ UNCHANGED <<lock, n, i>>
       ELSE Go(p, "rcopy") /\ UNCHANGED <<lock, n, i>>
    /\ UNCHANGED <<ring, ends, killed>>

(* A byte leaves the buffer.                                               *)
ReadByte(p) ==
    /\ At(p, "rcopy") /\ i[p] < n[p] /\ ~Empty
    /\ nread' = (nread + 1) % UINT
    /\ i' = [i EXCEPT ![p] = @ + 1]
    /\ UNCHANGED <<data, nwrite, ends, lock, pc, n, killed>>

ReadDone(p) ==
    /\ At(p, "rcopy") /\ (i[p] = n[p] \/ Empty)
    /\ WakeGo(p, "out", "wsleep")
    /\ Return(p)
    /\ UNCHANGED <<ring, ends, killed>>

piperead(p) ==
    \/ Call(p, "r", "rlock")
    \/ Acquire(p, "rlock", "rtest")
    \/ ReadTest(p)
    \/ Sleep(p, "rnap", "rsleep")
    \/ ReadByte(p) \/ ReadDone(p)
-----------------------------------------------------------------------------
(* fileclose by a process; for the last holder of the end, pipeclose.      *)
Last(p, e) == \A r \in Procs \ {p} : e \notin fds[r]

pipeclose(p, e) ==
    /\ At(p, "out") /\ e \in fds[p] /\ lock = None
    /\ fds' = [fds EXCEPT ![p] = @ \ {e}]
    /\ readopen' = (readopen /\ ~(e = "r" /\ Last(p, e)))
    /\ writeopen' = (writeopen /\ ~(e = "w" /\ Last(p, e)))
    /\ IF Last(p, e)
       THEN WakeGo(p, "out", IF e = "w" THEN "rsleep" ELSE "wsleep")
       ELSE UNCHANGED pc
    /\ UNCHANGED <<ring, lock, n, i, killed>>

kill(p) ==
    /\ Kills
    /\ killed' = [killed EXCEPT ![p] = TRUE]
    /\ Go(p, Woken(pc[p]))
    /\ UNCHANGED <<ring, ends, lock, n, i>>

Next ==
    \E p \in Procs :
        \/ pipewrite(p) \/ piperead(p)
        \/ \E e \in {"r", "w"} : pipeclose(p, e)
        \/ kill(p)

Spec == Init /\ [][Next]_vars
-----------------------------------------------------------------------------
PcStates == {"out", "wlock", "wloop", "wnap", "wsleep",
             "rlock", "rtest", "rnap", "rsleep", "rcopy"}

TypeOK ==
    /\ data \in [0 .. PIPESIZE - 1 -> Bytes]
    /\ nread \in 0 .. UINT - 1 /\ nwrite \in 0 .. UINT - 1
    /\ readopen \in BOOLEAN /\ writeopen \in BOOLEAN
    /\ lock \in Procs \cup {None}
    /\ fds \in [Procs -> SUBSET {"r", "w"}]
    /\ pc \in [Procs -> PcStates]
    /\ n \in [Procs -> 0 .. MaxN] /\ i \in [Procs -> 0 .. MaxN]
    /\ killed \in [Procs -> BOOLEAN]

(* The bytes between nread and nwrite.                                     *)
Contents ==
    [k \in 1 .. (nwrite - nread) % UINT |-> data[(nread + k - 1) % PIPESIZE]]

Queue == INSTANCE ByteQueue WITH q <- Contents, Capacity <- PIPESIZE

(* The ring buffer, with its wrapping counters and whatever its readers    *)
(* and writers do, is a bounded first-in first-out queue.                  *)
Fifo == Queue!Spec

(* A killed process has left the pipe.  pipewrite tests killed before it   *)
(* wakes the readers, so a writer that has just filled an empty buffer may *)
(* return -1 with its readers still asleep.                                *)
KilledLeft == \E p \in Procs : killed[p] /\ pc[p] = "out"

(* No wakeup is lost but to a killed writer: while nobody is inside the    *)
(* pipe's critical section, a sleeping reader may yet get something, and   *)
(* has nothing to read unless a killed process has left the pipe.          *)
ReadersWait ==
    lock = None =>
        \A p \in Procs :
            pc[p] = "rsleep" => writeopen /\ (Empty \/ KilledLeft)

(* ... and a sleeping writer has no room and may yet get some.             *)
WritersWait ==
    lock = None =>
        \A p \in Procs : pc[p] = "wsleep" => Full /\ readopen

(* A read returns nothing only at the end of the file: the pipe is empty   *)
(* and its writers are gone.                                               *)
EndOfFile ==
    [][\A p \in Procs :
          pc[p] = "rcopy" /\ pc'[p] = "out" /\ i[p] = 0 => Empty /\ ~writeopen]_vars

(* No sleeper of piperead or pipewrite has missed its wakeup, except the   *)
(* readers that a killed writer left asleep.                               *)
NoLostWakeup == TypeOK /\ ReadersWait /\ WritersWait

(* What a pipe promises: a queue, and an end of file only at its end.      *)
Stream == Fifo /\ EndOfFile
=============================================================================
