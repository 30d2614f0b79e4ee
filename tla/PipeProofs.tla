----------------------------- MODULE PipeProofs -----------------------------
(***************************************************************************)
(* What a pipe guarantees for every number of processes, every buffer size *)
(* and every length of a read or a write: no wakeup is lost but to a       *)
(* killed writer, a read that returns nothing is at the end of the file,   *)
(* and the ring buffer implements ByteQueue although its counters wrap.    *)
(***************************************************************************)
EXTENDS Pipe, SequenceTheorems, TLAPS

(* The states between acquire and release of p->lock.                      *)
Inside == {"wloop", "wnap", "rtest", "rnap", "rcopy"}

Reading == {"rlock", "rtest", "rnap", "rsleep", "rcopy"}

(* p->lock is held by exactly the process inside the critical section.     *)
Held == \A p \in Procs : lock = p <=> pc[p] \in Inside

(* A reader holds the read end, which is open while somebody holds it.     *)
EndsHeld ==
    \A p \in Procs :
        /\ pc[p] \in Reading => "r" \in fds[p]
        /\ "r" \in fds[p] => readopen

(* What a reader saw before it slept still holds, or a writer that is      *)
(* about to wake it is inside, or a killed process has left.               *)
ReadersOwed ==
    \A p \in Procs :
        /\ pc[p] = "rnap" => Empty /\ writeopen
        /\ pc[p] = "rsleep" =>
              /\ writeopen
              /\ Empty \/ KilledLeft \/ \E w \in Procs : pc[w] = "wloop"

(* ... and the same for a writer, whose readers wake it even when killed.  *)
WritersOwed ==
    \A p \in Procs :
        /\ pc[p] = "wnap" => Full /\ readopen
        /\ pc[p] = "wsleep" =>
              readopen /\ (Full \/ \E r \in Procs : pc[r] = "rcopy")

(* A reader that copies has found something, or the end of the file, and   *)
(* nobody takes it away.                                                   *)
ReadSome ==
    \A p \in Procs :
        /\ pc[p] # "out" => n[p] > 0
        /\ i[p] <= n[p]
        /\ pc[p] = "rcopy" /\ i[p] = 0 => ~(Empty /\ writeopen)

(* The inductive invariant of the control.                                 *)
Inv == TypeOK /\ Held /\ EndsHeld /\ ReadersOwed /\ WritersOwed /\ ReadSome

(* The bytes in the buffer, of which there are at most PIPESIZE.           *)
Used == (nwrite - nread) % UINT
RingBound == Used <= PIPESIZE
-----------------------------------------------------------------------------
(* Quotient and remainder are unique.                                      *)
LEMMA ModUnique ==
    ASSUME NEW m \in Nat \ {0}, NEW a \in Int, NEW b \in Int,
           NEW r \in 0 .. m - 1, NEW s \in 0 .. m - 1,
           a * m + r = b * m + s
    PROVE  a = b /\ r = s
<1>1. (a - b) * m = s - r
  OBVIOUS
<1>2. CASE a > b
  <2>1. (a - b) * m >= m
    BY <1>2
  <2> QED BY <2>1, <1>1
<1>3. CASE a < b
  <2>1. (b - a) * m >= m
    BY <1>3
  <2>2. (b - a) * m = r - s
    OBVIOUS
  <2> QED BY <2>1, <2>2
<1> QED BY <1>2, <1>3

(* Every integer is a multiple of m and a remainder below m.               *)
LEMMA ModDiv ==
    ASSUME NEW x \in Int, NEW m \in Nat \ {0}
    PROVE  \E d \in Int : x % m \in 0 .. m - 1 /\ x = d * m + (x % m)
<1>1. x = ((x \div m) * m) + (x % m) /\ (x \div m) \in Int /\ x % m \in 0 .. m - 1
  OBVIOUS
<1> QED BY <1>1

(* ... and that remainder is what % returns.                               *)
LEMMA ModIs ==
    ASSUME NEW x \in Int, NEW m \in Nat \ {0}, NEW d \in Int,
           NEW r \in 0 .. m - 1, x = d * m + r
    PROVE  x % m = r
<1>1. PICK e \in Int : x % m \in 0 .. m - 1 /\ x = e * m + (x % m)
  BY ModDiv
<1> DEFINE s == x % m
<1>2. s \in 0 .. m - 1 /\ d * m + r = e * m + s
  BY <1>1
<1> HIDE DEF s
<1>3. r = s
  BY <1>2, ModUnique
<1> QED BY <1>3 DEF s

(* Adding multiples of the modulus leaves the remainder alone.             *)
LEMMA ModAdd ==
    ASSUME NEW x \in Int, NEW d \in Int, NEW m \in Nat \ {0}
    PROVE  (x + (d * m)) % m = x % m
<1>1. PICK e \in Int : x % m \in 0 .. m - 1 /\ x = e * m + (x % m)
  BY ModDiv
<1> DEFINE s == x % m
<1>2. s \in 0 .. m - 1 /\ x + (d * m) = (e + d) * m + s
  BY <1>1
<1> HIDE DEF s
<1> QED BY <1>2, ModIs, e + d \in Int, x + (d*m) \in Int DEF s

(* A remainder modulo a multiple of m has the same remainder modulo m.     *)
LEMMA ModMod ==
    ASSUME NEW x \in Int, NEW k \in Nat \ {0}, NEW m \in Nat \ {0}, k % m = 0
    PROVE  (x % k) % m = x % m
<1>1. PICK e \in Int : x % k \in 0 .. k - 1 /\ x = e * k + (x % k)
  BY ModDiv
<1>2. PICK f \in Int : k = f * m
  BY ModDiv
<1> DEFINE s == x % k
<1>3. s \in Int /\ x = s + (e * (f * m))
  BY <1>1, <1>2
<1> HIDE DEF s
<1>4. x = s + (e * f) * m
  BY <1>3
<1>5. x % m = s % m
  <2> DEFINE g == e * f
  <2>1. g \in Int /\ x = s + (g * m)
    BY <1>4
  <2> HIDE DEF g
  <2>2. (s + (g * m)) % m = s % m
    BY <1>3, <2>1, ModAdd, Zenon
  <2> QED BY <2>1, <2>2, Zenon
<1> QED BY <1>5 DEF s

(* A remainder is below its modulus.                                       *)
LEMMA ModRange ==
    ASSUME NEW x \in Int, NEW m \in Nat \ {0}
    PROVE  x % m \in 0 .. m - 1
  OBVIOUS

(* Every step keeps the state well typed.                                  *)
LEMMA TypeStep == TypeOK /\ [Next]_vars => TypeOK'
<1> SUFFICES ASSUME TypeOK, [Next]_vars PROVE TypeOK'
  OBVIOUS
<1> USE DEF TypeOK, ring, ends, At, Go
<1>1. ASSUME NEW p \in Procs, pipewrite(p) PROVE TypeOK'
  <2>1. CASE Call(p, "w", "wlock")
    BY <2>1, PipeAssumption DEF Call, PcStates
  <2>2. CASE Acquire(p, "wlock", "wloop")
    BY <2>2 DEF Acquire, PcStates
  <2>3. CASE WriteByte(p)
    <3>1. nwrite' \in 0 .. UINT - 1
      BY <2>3, PipeAssumption, ModRange DEF WriteByte
    <3> QED BY <2>3, <3>1, PipeAssumption DEF WriteByte
  <2>4. CASE WriteFull(p)
    <3>1. pc' \in [Procs -> PcStates] /\ lock' \in Procs \cup {None}
      BY <2>4 DEF WriteFull, WakeGo, Woken, Return, PcStates
    <3>2. n' \in [Procs -> 0 .. MaxN] /\ i' \in [Procs -> 0 .. MaxN]
      <4>1. CASE Return(p)
        BY <4>1, PipeAssumption DEF Return
      <4>2. CASE n' = n /\ i' = i
        BY <4>2
      <4> QED BY <4>1, <4>2, <2>4 DEF WriteFull
    <3> QED BY <2>4, <3>1, <3>2 DEF WriteFull
  <2>5. CASE WriteDone(p)
    BY <2>5, PipeAssumption DEF WriteDone, WakeGo, Woken, Return, PcStates
  <2>6. CASE Sleep(p, "wnap", "wsleep")
    BY <2>6 DEF Sleep, PcStates
  <2> QED BY <1>1, <2>1, <2>2, <2>3, <2>4, <2>5, <2>6 DEF pipewrite
<1>2. ASSUME NEW p \in Procs, piperead(p) PROVE TypeOK'
  <2>1. CASE Call(p, "r", "rlock")
    BY <2>1, PipeAssumption DEF Call, PcStates
  <2>2. CASE Acquire(p, "rlock", "rtest")
    BY <2>2 DEF Acquire, PcStates
  <2>3. CASE ReadTest(p)
    <3>1. pc' \in [Procs -> PcStates] /\ lock' \in Procs \cup {None}
      BY <2>3 DEF ReadTest, Return, PcStates
    <3>2. n' \in [Procs -> 0 .. MaxN] /\ i' \in [Procs -> 0 .. MaxN]
      <4>1. CASE Return(p)
        BY <4>1, PipeAssumption DEF Return
      <4>2. CASE n' = n /\ i' = i
        BY <4>2
      <4> QED BY <4>1, <4>2, <2>3 DEF ReadTest
    <3> QED BY <2>3, <3>1, <3>2 DEF ReadTest
  <2>4. CASE Sleep(p, "rnap", "rsleep")
    BY <2>4 DEF Sleep, PcStates
  <2>5. CASE ReadByte(p)
    <3>1. nread' \in 0 .. UINT - 1
      BY <2>5, PipeAssumption, ModRange DEF ReadByte
    <3> QED BY <2>5, <3>1, PipeAssumption DEF ReadByte
  <2>6. CASE ReadDone(p)
    BY <2>6, PipeAssumption DEF ReadDone, WakeGo, Woken, Return, PcStates
  <2> QED BY <1>2, <2>1, <2>2, <2>3, <2>4, <2>5, <2>6 DEF piperead
<1>3. ASSUME NEW p \in Procs, NEW e \in {"r", "w"}, pipeclose(p, e) PROVE TypeOK'
  BY <1>3 DEF pipeclose, WakeGo, Woken, PcStates
<1>4. ASSUME NEW p \in Procs, kill(p) PROVE TypeOK'
  BY <1>4 DEF kill, Woken, PcStates
<1>5. CASE UNCHANGED vars
  BY <1>5 DEF vars
<1> QED BY <1>1, <1>2, <1>3, <1>4, <1>5 DEF Next

(* A call of pipewrite takes nothing yet.                                  *)
LEMMA CallWInv ==
    ASSUME Inv, TypeOK', NEW p \in Procs, Call(p, "w", "wlock")
    PROVE  Inv'
<1> USE ProcAssumption DEF Inv, TypeOK, ring, ends, At, Go, PcStates
<1>1. Held'
  BY DEF Held, Inside, Call
<1>2. EndsHeld'
  BY DEF EndsHeld, Reading, Call
<1>3. ReadersOwed'
  BY DEF ReadersOwed, Held, EndsHeld, Reading, Inside, Empty, Full, KilledLeft,
         Call
<1>4. WritersOwed'
  BY DEF WritersOwed, Held, Inside, Empty, Full, Call
<1>5. ReadSome'
  BY DEF ReadSome, Held, Inside, Empty, Call
<1> QED BY <1>1, <1>2, <1>3, <1>4, <1>5

(* A writer enters: nobody else is inside.                                 *)
LEMMA AcquireWInv ==
    ASSUME Inv, TypeOK', NEW p \in Procs, Acquire(p, "wlock", "wloop")
    PROVE  Inv'
<1> USE ProcAssumption DEF Inv, TypeOK, ring, ends, At, Go, PcStates
<1>1. Held'
  BY DEF Held, Inside, Acquire
<1>2. EndsHeld'
  BY DEF EndsHeld, Reading, Acquire
<1>3. ReadersOwed'
  BY DEF ReadersOwed, Held, EndsHeld, Reading, Inside, Empty, Full, KilledLeft,
         Acquire
<1>4. WritersOwed'
  BY DEF WritersOwed, Held, Inside, Empty, Full, Acquire
<1>5. ReadSome'
  BY DEF ReadSome, Held, Inside, Empty, Acquire
<1> QED BY <1>1, <1>2, <1>3, <1>4, <1>5

(* A byte goes into the buffer: the sleeping readers now wait for this     *)
(* writer to leave.                                                        *)
LEMMA WriteByteInv ==
    ASSUME Inv, TypeOK', NEW p \in Procs, WriteByte(p)
    PROVE  Inv'
<1> USE ProcAssumption DEF Inv, TypeOK, ring, ends, At, Go, PcStates
<1>1. Held'
  BY DEF Held, Inside, WriteByte
<1>2. EndsHeld'
  BY DEF EndsHeld, Reading, WriteByte
<1>3. ReadersOwed'
  BY DEF ReadersOwed, Held, EndsHeld, Reading, Inside, Empty, Full, KilledLeft,
         WriteByte
<1>4. WritersOwed'
  BY DEF WritersOwed, Held, Inside, Empty, Full, WriteByte
<1>5. ReadSome'
  BY DEF ReadSome, Held, Inside, Empty, WriteByte
<1> QED BY <1>1, <1>2, <1>3, <1>4, <1>5

(* The buffer is full: the writer wakes the readers, or leaves because no  *)
(* reader is left, or leaves killed.                                       *)
LEMMA WriteFullInv ==
    ASSUME Inv, TypeOK', NEW p \in Procs, WriteFull(p)
    PROVE  Inv'
<1> USE ProcAssumption DEF Inv, TypeOK, ring, ends, At, Go, PcStates
<1>1. Held'
  BY DEF Held, Inside, WriteFull, WakeGo, Woken, Return
<1>2. EndsHeld'
  BY DEF EndsHeld, Reading, WriteFull, WakeGo, Woken, Return
<1>3. ReadersOwed'
  <2>1. CASE readopen /\ ~killed[p]
    <3>1. /\ WakeGo(p, "wnap", "rsleep") /\ pc[p] = "wloop"
          /\ UNCHANGED <<nread, nwrite, writeopen>>
      BY <2>1 DEF WriteFull
    <3> QED BY <3>1 DEF ReadersOwed, Held, Inside, WakeGo, Woken
  <2>2. CASE ~(readopen /\ ~killed[p])
    <3>1. killed'[p] \/ \A q \in Procs : pc[q] # "rsleep"
      BY <2>2 DEF EndsHeld, Reading, WriteFull
    <3>2. /\ pc' = [pc EXCEPT ![p] = "out"] /\ pc[p] = "wloop"
          /\ UNCHANGED <<nread, nwrite, writeopen, killed>>
      BY <2>2 DEF WriteFull
    <3> QED BY <3>1, <3>2 DEF ReadersOwed, Held, Inside, Empty, KilledLeft
  <2> QED BY <2>1, <2>2
<1>4. WritersOwed'
  BY DEF WritersOwed, Held, Inside, Empty, Full, WriteFull, WakeGo, Woken,
         Return
<1>5. ReadSome'
  <2>1. \/ Return(p) /\ pc' = [pc EXCEPT ![p] = "out"]
        \/ n' = n /\ i' = i /\ WakeGo(p, "wnap", "rsleep")
    BY DEF WriteFull
  <2>2. UNCHANGED <<nread, nwrite, writeopen>> /\ pc[p] = "wloop"
    BY DEF WriteFull
  <2> QED BY <2>1, <2>2 DEF ReadSome, Held, Inside, Empty, WakeGo, Woken, Return
<1> QED BY <1>1, <1>2, <1>3, <1>4, <1>5

(* pipewrite returns, after it has woken the readers.                      *)
LEMMA WriteDoneInv ==
    ASSUME Inv, TypeOK', NEW p \in Procs, WriteDone(p)
    PROVE  Inv'
<1> USE ProcAssumption DEF Inv, TypeOK, ring, ends, At, Go, PcStates
<1>1. Held'
  BY DEF Held, Inside, WriteDone, WakeGo, Woken, Return
<1>2. EndsHeld'
  BY DEF EndsHeld, Reading, WriteDone, WakeGo, Woken, Return
<1>3. ReadersOwed'
  BY DEF ReadersOwed, Held, EndsHeld, Reading, Inside, Empty, Full, KilledLeft,
         WriteDone, WakeGo, Woken, Return
<1>4. WritersOwed'
  BY DEF WritersOwed, Held, Inside, Empty, Full, WriteDone, WakeGo, Woken,
         Return
<1>5. ReadSome'
  BY DEF ReadSome, Held, Inside, Empty, WriteDone, WakeGo, Woken, Return
<1> QED BY <1>1, <1>2, <1>3, <1>4, <1>5

(* A writer sleeps, having just seen that the buffer is full.              *)
LEMMA SleepWInv ==
    ASSUME Inv, TypeOK', NEW p \in Procs, Sleep(p, "wnap", "wsleep")
    PROVE  Inv'
<1> USE ProcAssumption DEF Inv, TypeOK, ring, ends, At, Go, PcStates
<1>1. Held'
  BY DEF Held, Inside, Sleep
<1>2. EndsHeld'
  BY DEF EndsHeld, Reading, Sleep
<1>3. ReadersOwed'
  BY DEF ReadersOwed, Held, EndsHeld, Reading, Inside, Empty, Full, KilledLeft,
         Sleep
<1>4. WritersOwed'
  BY DEF WritersOwed, Held, Inside, Empty, Full, Sleep
<1>5. ReadSome'
  BY DEF ReadSome, Held, Inside, Empty, Sleep
<1> QED BY <1>1, <1>2, <1>3, <1>4, <1>5

(* A call of piperead by a process that holds the read end.                *)
LEMMA CallRInv ==
    ASSUME Inv, TypeOK', NEW p \in Procs, Call(p, "r", "rlock")
    PROVE  Inv'
<1> USE ProcAssumption DEF Inv, TypeOK, ring, ends, At, Go, PcStates
<1>1. Held'
  BY DEF Held, Inside, Call
<1>2. EndsHeld'
  BY DEF EndsHeld, Reading, Call
<1>3. ReadersOwed'
  BY DEF ReadersOwed, Held, EndsHeld, Reading, Inside, Empty, Full, KilledLeft,
         Call
<1>4. WritersOwed'
  BY DEF WritersOwed, Held, Inside, Empty, Full, Call
<1>5. ReadSome'
  BY DEF ReadSome, Held, Inside, Empty, Call
<1> QED BY <1>1, <1>2, <1>3, <1>4, <1>5

(* A reader enters: nobody else is inside.                                 *)
LEMMA AcquireRInv ==
    ASSUME Inv, TypeOK', NEW p \in Procs, Acquire(p, "rlock", "rtest")
    PROVE  Inv'
<1> USE ProcAssumption DEF Inv, TypeOK, ring, ends, At, Go, PcStates
<1>1. Held'
  BY DEF Held, Inside, Acquire
<1>2. EndsHeld'
  BY DEF EndsHeld, Reading, Acquire
<1>3. ReadersOwed'
  BY DEF ReadersOwed, Held, EndsHeld, Reading, Inside, Empty, Full, KilledLeft,
         Acquire
<1>4. WritersOwed'
  BY DEF WritersOwed, Held, Inside, Empty, Full, Acquire
<1>5. ReadSome'
  BY DEF ReadSome, Held, Inside, Empty, Acquire
<1> QED BY <1>1, <1>2, <1>3, <1>4, <1>5

(* A reader goes to sleep, copies or, killed, leaves the buffer alone.     *)
LEMMA ReadTestInv ==
    ASSUME Inv, TypeOK', NEW p \in Procs, ReadTest(p)
    PROVE  Inv'
<1> USE ProcAssumption DEF Inv, TypeOK, ring, ends, At, Go, PcStates
<1>1. Held'
  BY DEF Held, Inside, ReadTest, Return
<1>2. EndsHeld'
  BY DEF EndsHeld, Reading, ReadTest, Return
<1>3. ReadersOwed'
  BY DEF ReadersOwed, Held, EndsHeld, Reading, Inside, Empty, Full, KilledLeft,
         ReadTest, Return
<1>4. WritersOwed'
  BY DEF WritersOwed, Held, Inside, Empty, Full, ReadTest, Return
<1>5. ReadSome'
  BY DEF ReadSome, Held, Inside, Empty, ReadTest, Return
<1> QED BY <1>1, <1>2, <1>3, <1>4, <1>5

(* A reader sleeps, having just seen that the buffer is empty.             *)
LEMMA SleepRInv ==
    ASSUME Inv, TypeOK', NEW p \in Procs, Sleep(p, "rnap", "rsleep")
    PROVE  Inv'
<1> USE ProcAssumption DEF Inv, TypeOK, ring, ends, At, Go, PcStates
<1>1. Held'
  BY DEF Held, Inside, Sleep
<1>2. EndsHeld'
  BY DEF EndsHeld, Reading, Sleep
<1>3. ReadersOwed'
  BY DEF ReadersOwed, Held, EndsHeld, Reading, Inside, Empty, Full, KilledLeft,
         Sleep
<1>4. WritersOwed'
  BY DEF WritersOwed, Held, Inside, Empty, Full, Sleep
<1>5. ReadSome'
  BY DEF ReadSome, Held, Inside, Empty, Sleep
<1> QED BY <1>1, <1>2, <1>3, <1>4, <1>5

(* A byte leaves the buffer: the sleeping writers now wait for this reader *)
(* to leave.                                                               *)
LEMMA ReadByteInv ==
    ASSUME Inv, TypeOK', NEW p \in Procs, ReadByte(p)
    PROVE  Inv'
<1> USE ProcAssumption DEF Inv, TypeOK, ring, ends, At, Go, PcStates
<1>1. Held'
  BY DEF Held, Inside, ReadByte
<1>2. EndsHeld'
  BY DEF EndsHeld, Reading, ReadByte
<1>3. ReadersOwed'
  BY DEF ReadersOwed, Held, EndsHeld, Reading, Inside, Empty, Full, KilledLeft,
         ReadByte
<1>4. WritersOwed'
  BY DEF WritersOwed, Held, Inside, Empty, Full, ReadByte
<1>5. ReadSome'
  BY DEF ReadSome, Held, Inside, Empty, ReadByte
<1> QED BY <1>1, <1>2, <1>3, <1>4, <1>5

(* piperead returns, after it has woken the writers.                       *)
LEMMA ReadDoneInv ==
    ASSUME Inv, TypeOK', NEW p \in Procs, ReadDone(p)
    PROVE  Inv'
<1> USE ProcAssumption DEF Inv, TypeOK, ring, ends, At, Go, PcStates
<1>1. Held'
  BY DEF Held, Inside, ReadDone, WakeGo, Woken, Return
<1>2. EndsHeld'
  BY DEF EndsHeld, Reading, ReadDone, WakeGo, Woken, Return
<1>3. ReadersOwed'
  BY DEF ReadersOwed, Held, EndsHeld, Reading, Inside, Empty, Full, KilledLeft,
         ReadDone, WakeGo, Woken, Return
<1>4. WritersOwed'
  BY DEF WritersOwed, Held, Inside, Empty, Full, ReadDone, WakeGo, Woken, Return
<1>5. ReadSome'
  BY DEF ReadSome, Held, Inside, Empty, ReadDone, WakeGo, Woken, Return
<1> QED BY <1>1, <1>2, <1>3, <1>4, <1>5

(* The last close of an end wakes those who wait for the other end.        *)
LEMMA CloseInv ==
    ASSUME Inv, TypeOK', NEW p \in Procs, NEW e \in {"r", "w"}, pipeclose(p, e)
    PROVE  Inv'
<1> USE ProcAssumption DEF Inv, TypeOK, ring, ends, At, Go, PcStates
<1>1. Held'
  BY DEF Held, Inside, pipeclose, WakeGo, Woken, Last
<1>2. EndsHeld'
  BY DEF EndsHeld, Reading, pipeclose, WakeGo, Woken, Last
<1>3. ReadersOwed'
  <2>1. UNCHANGED <<nread, nwrite, killed>> /\ pc'[p] = pc[p] /\ pc[p] = "out"
    BY DEF pipeclose, WakeGo
  <2>2. KilledLeft => KilledLeft'
    BY <2>1 DEF KilledLeft, pipeclose, WakeGo, Woken
  <2>3. CASE e = "w" /\ Last(p, e)
    BY <2>1, <2>3 DEF ReadersOwed, Held, Inside, pipeclose, WakeGo, Woken
  <2>4. CASE ~(e = "w" /\ Last(p, e))
    <3>1. writeopen' = writeopen
      BY <2>4 DEF pipeclose
    <3>2. WakeGo(p, "out", "wsleep") \/ pc' = pc
      BY <2>4 DEF pipeclose
    <3>3. \A q \in Procs : /\ pc'[q] \in {"rnap", "rsleep"} => pc'[q] = pc[q]
                           /\ pc[q] = "wloop" => pc'[q] = "wloop"
      BY <2>1, <3>2 DEF WakeGo, Woken
    <3> QED BY <2>1, <2>2, <3>1, <3>3 DEF ReadersOwed, Empty
  <2> QED BY <2>3, <2>4
<1>4. WritersOwed'
  BY DEF WritersOwed, Held, Inside, Empty, Full, pipeclose, WakeGo, Woken, Last
<1>5. ReadSome'
  BY DEF ReadSome, Held, Inside, Empty, pipeclose, WakeGo, Woken, Last
<1> QED BY <1>1, <1>2, <1>3, <1>4, <1>5

(* kill wakes a sleeper and marks it.                                      *)
LEMMA KillInv ==
    ASSUME Inv, TypeOK', NEW p \in Procs, kill(p)
    PROVE  Inv'
<1> USE ProcAssumption DEF Inv, TypeOK, ring, ends, At, Go, PcStates
<1>1. Held'
  BY DEF Held, Inside, kill, Woken
<1>2. EndsHeld'
  BY DEF EndsHeld, Reading, kill, Woken
<1>3. ReadersOwed'
  BY DEF ReadersOwed, Held, EndsHeld, Reading, Inside, Empty, Full, KilledLeft,
         kill, Woken
<1>4. WritersOwed'
  BY DEF WritersOwed, Held, Inside, Empty, Full, kill, Woken
<1>5. ReadSome'
  BY DEF ReadSome, Held, Inside, Empty, kill, Woken
<1> QED BY <1>1, <1>2, <1>3, <1>4, <1>5

(* Initially the invariant holds.                                          *)
LEMMA InitInv == Init => Inv
  BY PipeAssumption, ProcAssumption
     DEF Init, Inv, TypeOK, PcStates, Held, Inside, EndsHeld, Reading, ReadersOwed,
         WritersOwed, ReadSome

(* Every step keeps the invariant.                                         *)
LEMMA InvStep == Inv /\ [Next]_vars => Inv'
<1> SUFFICES ASSUME Inv, [Next]_vars PROVE Inv'
  OBVIOUS
<1>1. TypeOK'
  BY TypeStep DEF Inv
<1>2. ASSUME NEW p \in Procs, pipewrite(p) PROVE Inv'
  BY <1>1, <1>2, CallWInv, AcquireWInv, WriteByteInv, WriteFullInv,
     WriteDoneInv, SleepWInv, Zenon DEF pipewrite
<1>3. ASSUME NEW p \in Procs, piperead(p) PROVE Inv'
  BY <1>1, <1>3, CallRInv, AcquireRInv, ReadTestInv, SleepRInv, ReadByteInv,
     ReadDoneInv, Zenon DEF piperead
<1>4. CASE UNCHANGED vars
  BY <1>1, <1>4
     DEF vars, Inv, Held, EndsHeld, ReadersOwed, WritersOwed, ReadSome, Empty,
         Full, KilledLeft
<1> QED BY <1>1, <1>2, <1>3, <1>4, CloseInv, KillInv, Zenon DEF Next

(* No wakeup is lost, except by a killed writer (pipe.c 84-92, 105-111).   *)
THEOREM Wakeups == Spec => []NoLostWakeup
<1>1. Inv => NoLostWakeup
  <2> SUFFICES ASSUME Inv PROVE NoLostWakeup
    OBVIOUS
  <2>1. ReadersWait
    BY ProcAssumption DEF Inv, TypeOK, Held, Inside, ReadersOwed, ReadersWait
  <2>2. WritersWait
    BY ProcAssumption DEF Inv, TypeOK, Held, Inside, WritersOwed, WritersWait
  <2> QED BY <2>1, <2>2 DEF Inv, NoLostWakeup
<1> QED BY <1>1, InitInv, InvStep, PTL DEF Spec

(* A step by which piperead returns nothing is at the end of the file.     *)
LEMMA EofStep ==
    Inv /\ [Next]_vars =>
      \A p \in Procs :
         pc[p] = "rcopy" /\ pc'[p] = "out" /\ i[p] = 0 => Empty /\ ~writeopen
<1> SUFFICES ASSUME Inv, [Next]_vars, NEW p \in Procs,
                    pc[p] = "rcopy", pc'[p] = "out", i[p] = 0
             PROVE  Empty /\ ~writeopen
  OBVIOUS
<1> USE DEF Inv, TypeOK
<1>1. PICK q \in Procs : ReadDone(q) /\ q = p
  <2> USE DEF At, Go
  <2>1. PICK q \in Procs : \/ pipewrite(q) \/ piperead(q)
                          \/ \E e \in {"r", "w"} : pipeclose(q, e)
                          \/ kill(q)
    BY DEF Next, vars
  <2>2. CASE pipewrite(q)
    BY <2>2
       DEF pipewrite, Call, Acquire, WriteByte, WriteFull, WriteDone, Sleep,
           WakeGo, Woken, Return
  <2>3. CASE piperead(q)
    BY <2>3
       DEF piperead, Call, Acquire, ReadTest, ReadByte, ReadDone, Sleep,
           WakeGo, Woken, Return
  <2>4. ASSUME NEW e \in {"r", "w"}, pipeclose(q, e) PROVE FALSE
    BY <2>4 DEF pipeclose, WakeGo, Woken
  <2>5. CASE kill(q)
    BY <2>5 DEF kill, Woken
  <2> QED BY <2>1, <2>2, <2>3, <2>4, <2>5
<1>2. n[p] > 0 /\ n[p] \in Nat /\ ~(Empty /\ writeopen)
  BY PipeAssumption DEF ReadSome
<1>3. Empty
  BY <1>1, <1>2 DEF ReadDone
<1> QED BY <1>2, <1>3

(* piperead returns 0 only when the pipe is empty and its writers are gone *)
(* (pipe.c 105-121).                                                       *)
THEOREM EndOfFiles == Spec => EndOfFile
  BY InitInv, InvStep, EofStep, PTL DEF Spec, EndOfFile

-----------------------------------------------------------------------------
(* The u bytes from r on.                                                  *)
Buf(d, r, u) == [k \in 1 .. u |-> d[(r + k - 1) % PIPESIZE]]

(* What the buffer holds is a sequence of bytes.                           *)
LEMMA BufSeq ==
    ASSUME NEW d \in [0 .. PIPESIZE - 1 -> Bytes], NEW r \in Nat, NEW u \in Nat
    PROVE  /\ Buf(d, r, u) \in Seq(Bytes)
           /\ Len(Buf(d, r, u)) = u
           /\ \A k \in 1 .. u : Buf(d, r, u)[k] = d[(r + k - 1) % PIPESIZE]
<1>1. \A k \in 1 .. u : d[(r + k - 1) % PIPESIZE] \in Bytes
  BY PipeAssumption, ModRange
<1> QED BY <1>1 DEF Buf

(* A byte stored behind the last one, in a buffer that is not full, is     *)
(* appended.                                                               *)
LEMMA BufPut ==
    ASSUME NEW d \in [0 .. PIPESIZE - 1 -> Bytes], NEW r \in Nat,
           NEW u \in 0 .. PIPESIZE - 1, NEW x \in Bytes
    PROVE  Buf([d EXCEPT ![(r + u) % PIPESIZE] = x], r, u + 1)
             = Append(Buf(d, r, u), x)
<1> DEFINE z == (r + u) % PIPESIZE
           e == [d EXCEPT ![z] = x]
           s == Buf(e, r, u + 1)
           t == Append(Buf(d, r, u), x)
<1>1. z \in 0 .. PIPESIZE - 1 /\ e \in [0 .. PIPESIZE - 1 -> Bytes] /\ e[z] = x
  BY PipeAssumption, ModRange
<1>2. /\ s \in Seq(Bytes) /\ Len(s) = u + 1
      /\ \A k \in 1 .. u + 1 : s[k] = e[(r + k - 1) % PIPESIZE]
  BY <1>1, BufSeq, u + 1 \in Nat
<1>3. /\ t \in Seq(Bytes) /\ Len(t) = u + 1 /\ t[u + 1] = x
      /\ \A k \in 1 .. u : t[k] = d[(r + k - 1) % PIPESIZE]
  <2>1. /\ Buf(d, r, u) \in Seq(Bytes) /\ Len(Buf(d, r, u)) = u
        /\ \A k \in 1 .. u : Buf(d, r, u)[k] = d[(r + k - 1) % PIPESIZE]
    BY BufSeq, u \in Nat
  <2> QED BY <2>1, AppendProperties
<1>4. ASSUME NEW k \in 1 .. u PROVE (r + k - 1) % PIPESIZE # z
  <2> DEFINE y == (r + k - 1) % PIPESIZE
  <2>1. PICK f \in Int : z \in 0 .. PIPESIZE - 1 /\ r + u = f * PIPESIZE + z
    BY ModDiv, PipeAssumption, r + u \in Int
  <2>2. PICK g \in Int : y \in 0 .. PIPESIZE - 1 /\ r + k - 1 = g * PIPESIZE + y
    BY ModDiv, PipeAssumption, r + k - 1 \in Int
  <2> HIDE DEF z, y
  <2>3. SUFFICES ASSUME y = z PROVE FALSE
    BY DEF y
  <2>4. u - k + 1 = (f - g) * PIPESIZE /\ u - k + 1 \in 1 .. PIPESIZE - 1
    BY <2>1, <2>2, <2>3, PipeAssumption
  <2>5. f - g \in Int /\ PIPESIZE \in Nat
    BY PipeAssumption
  <2>6. CASE f - g >= 1
    BY <2>4, <2>5, <2>6, (f - g) * PIPESIZE >= PIPESIZE
  <2>7. CASE f - g <= 0
    BY <2>4, <2>5, <2>7, (f - g) * PIPESIZE <= 0
  <2> QED BY <2>5, <2>6, <2>7
<1> HIDE DEF s, t, e, z
<1>5. ASSUME NEW k \in 1 .. u + 1 PROVE s[k] = t[k]
  <2>1. CASE k = u + 1
    <3>1. (r + k - 1) % PIPESIZE = z
      BY <2>1 DEF z
    <3> QED BY <1>1, <1>2, <1>3, <2>1, <3>1
  <2>2. CASE k \in 1 .. u
    <3>1. (r + k - 1) % PIPESIZE \in 0 .. PIPESIZE - 1
      BY PipeAssumption, ModRange
    <3> QED BY <1>1, <1>2, <1>3, <1>4, <2>2, <3>1 DEF e
  <2> QED BY <2>1, <2>2, u \in Nat
<1>6. s = t
  BY <1>2, <1>3, <1>5, SeqEqual
<1> QED BY <1>6 DEF s, t, e, z

(* Without its first byte the buffer holds the tail.                       *)
LEMMA BufGet ==
    ASSUME NEW d \in [0 .. PIPESIZE - 1 -> Bytes], NEW r \in Nat, NEW u \in Nat \ {0}
    PROVE  Buf(d, r + 1, u - 1) = Tail(Buf(d, r, u)) /\ Buf(d, r, u) # <<>>
<1> DEFINE s == Buf(d, r + 1, u - 1)
           t == Buf(d, r, u)
<1>1. /\ s \in Seq(Bytes) /\ Len(s) = u - 1
      /\ \A k \in 1 .. u - 1 : s[k] = d[(r + 1 + k - 1) % PIPESIZE]
  BY BufSeq, u - 1 \in Nat, r + 1 \in Nat
<1>2. t \in Seq(Bytes) /\ Len(t) = u /\ \A k \in 1 .. u : t[k] = d[(r + k - 1) % PIPESIZE]
  BY BufSeq
<1>3. t # <<>>
  BY <1>2, EmptySeq
<1>4. /\ Tail(t) \in Seq(Bytes) /\ Len(Tail(t)) = u - 1
      /\ \A k \in 1 .. u - 1 : Tail(t)[k] = t[k + 1]
  BY <1>2, <1>3, HeadTailProperties
<1>5. ASSUME NEW k \in 1 .. u - 1 PROVE s[k] = Tail(t)[k]
  <2>1. /\ s[k] = d[(r + 1 + k - 1) % PIPESIZE]
        /\ Tail(t)[k] = d[(r + (k + 1) - 1) % PIPESIZE]
    BY <1>1, <1>2, <1>4, k + 1 \in 1 .. u
  <2>2. r + 1 + k - 1 = r + (k + 1) - 1
    OBVIOUS
  <2> QED BY <2>1, <2>2
<1> QED BY <1>1, <1>3, <1>4, <1>5, SeqEqual

(* The remainder of a number that is off by one modulus at most.           *)
LEMMA ModWrap ==
    ASSUME NEW m \in Nat \ {0}, NEW x \in Int, -m <= x, x < 2 * m
    PROVE  x % m = IF x < 0 THEN x + m ELSE IF x < m THEN x ELSE x - m
<1>1. CASE x < 0
  BY <1>1, ModIs, x = (-1) * m + (x + m), x + m \in 0 .. m - 1, -1 \in Int
<1>2. CASE x >= 0 /\ x < m
  BY <1>2
<1>3. CASE x >= m
  BY <1>3, ModIs, x = 1 * m + (x - m), x - m \in 0 .. m - 1
<1> QED BY <1>1, <1>2, <1>3

(* The difference of two counters.                                         *)
LEMMA SubWrap ==
    ASSUME NEW m \in Nat \ {0}, NEW a \in 0 .. m - 1, NEW b \in 0 .. m - 1
    PROVE  (a - b) % m = IF a < b THEN a - b + m ELSE a - b
<1> DEFINE x == a - b
<1>1. x \in Int /\ -m <= x /\ x < 2 * m /\ x < m /\ (x < 0 <=> a < b)
  OBVIOUS
<1> HIDE DEF x
<1>2. x % m = IF x < 0 THEN x + m ELSE x
  BY <1>1, ModWrap
<1> QED BY <1>1, <1>2 DEF x

(* The sum of a counter and a small number.                                *)
LEMMA AddWrap ==
    ASSUME NEW m \in Nat \ {0}, NEW a \in 0 .. m - 1, NEW b \in 0 .. m
    PROVE  (a + b) % m = IF a + b < m THEN a + b ELSE a + b - m
<1> DEFINE x == a + b
<1>1. x \in Int /\ -m <= x /\ x < 2 * m /\ x >= 0
  OBVIOUS
<1> HIDE DEF x
<1>2. x % m = IF x < 0 THEN x + m ELSE IF x < m THEN x ELSE x - m
  BY <1>1, ModWrap, Zenon
<1>3. x % m = IF x < m THEN x ELSE x - m
  BY <1>1, <1>2
<1> QED BY <1>3 DEF x

(* Empty and Full, which compare wrapped counters, tell how much of the    *)
(* buffer is used.                                                         *)
LEMMA UsedCases ==
    ASSUME TypeOK
    PROVE  /\ Used = IF nwrite < nread THEN nwrite - nread + UINT ELSE nwrite - nread
           /\ Used \in Nat
           /\ Empty <=> Used = 0
           /\ Full <=> Used = PIPESIZE
<1>1. nread \in 0 .. UINT - 1 /\ nwrite \in 0 .. UINT - 1 /\ UINT \in Nat \ {0}
  BY PipeAssumption DEF TypeOK
<1>2. Used = IF nwrite < nread THEN nwrite - nread + UINT ELSE nwrite - nread
  BY <1>1, SubWrap, Zenon DEF Used
<1>3. (nread + PIPESIZE) % UINT =
         IF nread + PIPESIZE < UINT THEN nread + PIPESIZE ELSE nread + PIPESIZE - UINT
  <2>1. PIPESIZE \in 0 .. UINT
    BY PipeAssumption
  <2> QED BY <1>1, <2>1, AddWrap, Zenon
<1> QED BY <1>1, <1>2, <1>3, PipeAssumption DEF Empty, Full

(* nwrite % PIPESIZE is the first free place, also after nwrite has        *)
(* wrapped.                                                                *)
LEMMA WriteIndex ==
    ASSUME TypeOK
    PROVE  nwrite % PIPESIZE = (nread + Used) % PIPESIZE
<1>1. nread \in 0 .. UINT - 1 /\ nwrite \in 0 .. UINT - 1 /\ UINT \in Nat \ {0}
  BY PipeAssumption DEF TypeOK
<1>2. (nread + Used) % UINT = nwrite /\ nread + Used \in Int
  BY <1>1, UsedCases, ModWrap
<1> QED BY <1>2, <1>1, ModMod, PipeAssumption

(* At first the buffer is the empty queue.                                 *)
LEMMA InitQueue == Init => Queue!Init /\ RingBound
<1> SUFFICES ASSUME Init PROVE Queue!Init /\ RingBound
  OBVIOUS
<1>1. TypeOK
  BY InitInv DEF Inv
<1>2. Used = 0
  BY <1>1, UsedCases DEF Init, Empty
<1> QED BY <1>2, PipeAssumption DEF Contents, Used, RingBound, Queue!Init

(* WriteByte is a Put of ByteQueue.                                        *)
LEMMA PutStep ==
    ASSUME TypeOK, RingBound, TypeOK', NEW p \in Procs, WriteByte(p)
    PROVE  RingBound' /\ \E x \in Bytes : Queue!Put(x)
<1>1. nread \in 0 .. UINT - 1 /\ nwrite \in 0 .. UINT - 1 /\ UINT \in Nat \ {0}
  BY PipeAssumption DEF TypeOK
<1>2. PICK x \in Bytes : data' = [data EXCEPT ![nwrite % PIPESIZE] = x]
  BY DEF WriteByte
<1>3. /\ nread' = nread
      /\ nwrite' = IF nwrite + 1 < UINT THEN nwrite + 1 ELSE 0
  <2>1. 1 \in 0 .. UINT
    BY <1>1
  <2>2. (nwrite + 1) % UINT = IF nwrite + 1 < UINT THEN nwrite + 1 ELSE nwrite + 1 - UINT
    BY <1>1, <2>1, AddWrap, Zenon
  <2> QED BY <1>1, <2>2 DEF WriteByte
<1>4. Used \in 0 .. PIPESIZE - 1
  BY UsedCases, PipeAssumption DEF RingBound, WriteByte
<1>5. Used' = Used + 1
  <2>1. Used' = IF nwrite' < nread' THEN nwrite' - nread' + UINT ELSE nwrite' - nread'
    <3>1. nread' \in 0 .. UINT - 1 /\ nwrite' \in 0 .. UINT - 1
      BY DEF TypeOK
    <3> QED BY <1>1, <3>1, SubWrap, Zenon DEF Used
  <2> QED BY <2>1, <1>1, <1>3, <1>4, UsedCases, PipeAssumption
<1>6. Contents = Buf(data, nread, Used) /\ Contents' = Buf(data', nread, Used + 1)
  BY <1>3, <1>5 DEF Contents, Buf, Used
<1>7. data' = [data EXCEPT ![(nread + Used) % PIPESIZE] = x]
  BY <1>2, WriteIndex
<1>8. data \in [0 .. PIPESIZE - 1 -> Bytes] /\ nread \in Nat /\ Used \in Nat
  BY <1>1, <1>4 DEF TypeOK
<1>9. Contents' = Append(Contents, x)
  BY <1>4, <1>6, <1>7, <1>8, BufPut
<1>10. Len(Contents) < PIPESIZE
  <2>1. Len(Contents) = Used
    BY <1>6, <1>8, BufSeq
  <2> QED BY <1>4, <2>1, PipeAssumption
<1> QED BY <1>4, <1>5, <1>9, <1>10, PipeAssumption DEF RingBound, Queue!Put

(* ReadByte is a Get of ByteQueue.                                         *)
LEMMA GetStep ==
    ASSUME TypeOK, RingBound, TypeOK', NEW p \in Procs, ReadByte(p)
    PROVE  RingBound' /\ Queue!Get
<1>1. nread \in 0 .. UINT - 1 /\ nwrite \in 0 .. UINT - 1 /\ UINT \in Nat \ {0}
  BY PipeAssumption DEF TypeOK
<1>3. /\ nwrite' = nwrite /\ data' = data
      /\ nread' = IF nread + 1 < UINT THEN nread + 1 ELSE 0
  <2>1. 1 \in 0 .. UINT
    BY <1>1
  <2>2. (nread + 1) % UINT = IF nread + 1 < UINT THEN nread + 1 ELSE nread + 1 - UINT
    BY <1>1, <2>1, AddWrap, Zenon
  <2> QED BY <1>1, <2>2 DEF ReadByte
<1>4. Used \in 1 .. PIPESIZE
  BY UsedCases, PipeAssumption DEF RingBound, ReadByte
<1>5. Used' = Used - 1
  <2>1. Used' = IF nwrite' < nread' THEN nwrite' - nread' + UINT ELSE nwrite' - nread'
    <3>1. nread' \in 0 .. UINT - 1 /\ nwrite' \in 0 .. UINT - 1
      BY DEF TypeOK
    <3> QED BY <1>1, <3>1, SubWrap, Zenon DEF Used
  <2> QED BY <2>1, <1>1, <1>3, <1>4, UsedCases, PipeAssumption
<1>6. Contents = Buf(data, nread, Used) /\ Contents' = Buf(data, nread', Used - 1)
  BY <1>3, <1>5 DEF Contents, Buf, Used
<1>7. Buf(data, nread', Used - 1) = Buf(data, nread + 1, Used - 1)
  <2>1. ASSUME NEW k \in 1 .. Used - 1
        PROVE  (nread' + k - 1) % PIPESIZE = (nread + 1 + k - 1) % PIPESIZE
    <3>1. CASE nread + 1 < UINT
      BY <1>3, <3>1
    <3>2. CASE ~(nread + 1 < UINT)
      <4> DEFINE y == nread' + k - 1
      <4>0. UINT \in Int /\ PIPESIZE \in Nat \ {0} /\ UINT % PIPESIZE = 0
        BY PipeAssumption
      <4>1. PICK f \in Int : UINT = f * PIPESIZE
        <5>1. \E f \in Int : UINT = f * PIPESIZE + (UINT % PIPESIZE)
          BY <4>0, ModDiv, Zenon
        <5> QED BY <4>0, <5>1
      <4>2. y \in Int /\ nread + 1 + k - 1 = y + (f * PIPESIZE)
        BY <1>1, <1>3, <3>2, <4>1
      <4> HIDE DEF y
      <4>3. (y + (f * PIPESIZE)) % PIPESIZE = y % PIPESIZE
        BY <4>2, ModAdd, PipeAssumption, Zenon
      <4> QED BY <4>2, <4>3 DEF y
    <3> QED BY <3>1, <3>2
  <2> QED BY <2>1 DEF Buf
<1>8. /\ data \in [0 .. PIPESIZE - 1 -> Bytes]
      /\ nread \in Nat /\ Used \in Nat \ {0}
  BY <1>1, <1>4, PipeAssumption DEF TypeOK
<1>9. Contents' = Tail(Contents) /\ Contents # <<>>
  BY <1>6, <1>7, <1>8, BufGet
<1> QED BY <1>4, <1>5, <1>9, PipeAssumption DEF RingBound, Queue!Get

(* Every other step leaves the queue alone.                                *)
LEMMA QueueStep ==
    Inv /\ RingBound /\ [Next]_vars => RingBound' /\ [Queue!Next]_Contents
<1> SUFFICES ASSUME Inv, RingBound, [Next]_vars
             PROVE  RingBound' /\ [Queue!Next]_Contents
  OBVIOUS
<1>1. TypeOK /\ TypeOK'
  BY TypeStep DEF Inv
<1>2. CASE UNCHANGED ring
  BY <1>2 DEF ring, Contents, RingBound, Used
<1>3. ASSUME NEW p \in Procs, WriteByte(p) PROVE RingBound' /\ Queue!Next
  BY <1>1, <1>3, PutStep DEF Queue!Next
<1>4. ASSUME NEW p \in Procs, ReadByte(p) PROVE RingBound' /\ Queue!Next
  BY <1>1, <1>4, GetStep DEF Queue!Next
<1>5. \/ UNCHANGED ring
      \/ \E p \in Procs : WriteByte(p) \/ ReadByte(p)
  BY Zenon
     DEF Next, pipewrite, piperead, pipeclose, kill, Call, Acquire, WriteFull,
         WriteDone, Sleep, ReadTest, ReadDone, vars, ring
<1> QED BY <1>2, <1>3, <1>4, <1>5

(* The pipe implements ByteQueue: no byte is lost, repeated or reordered   *)
(* (pipe.c 80-121).                                                        *)
THEOREM Streams == Spec => Stream
<1>1. Spec => Fifo
  BY InitInv, InvStep, InitQueue, QueueStep, PTL DEF Spec, Fifo, Queue!Spec
<1> QED BY <1>1, EndOfFiles DEF Stream
=============================================================================
