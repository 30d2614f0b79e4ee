--------------------------- MODULE ConsoleProofs ---------------------------
(***************************************************************************)
(* What the console guarantees for any number of processes, any size of    *)
(* the input buffer and any modulus of its indices: no reader misses its   *)
(* wakeup, cons.lock is paired unless a page fault drops it, and typed     *)
(* lines are delivered in order, with their ends seen.                     *)
(***************************************************************************)
EXTENDS Console, SequenceTheorems, WellFoundedInduction, TLAPS

(* Where cprintf is between its acquire and its release.                   *)
Printing == {"print", "rprint", "lprint", "wprint"}

(* The keyboard handler holds cons.lock exactly where it should; a process *)
(* holds it only inside, and always while it prints.                       *)
Held ==
    /\ pc[Kbd] \in {"out", "keys", "dump", "print"}
    /\ lock = Kbd <=> pc[Kbd] \in {"keys", "print"}
    /\ \A p \in Procs : /\ pc[p] \notin {"keys", "dump"}
                        /\ lock = p => pc[p] \in Critical \cup {"print"}
                        /\ pc[p] \in Printing => lock = p

(* What a reader saw before it slept still holds, and one that has taken a *)
(* character has room for it.                                              *)
Taking == {"rstore", "rprint", "rlast", "lprint"}
Readers ==
    \A p \in Procs :
        /\ pc[p] = "rsleep" \/ (pc[p] = "rnap" /\ lock = p) => r = w
        /\ pc[p] \in Taking => n[p] > 0

(* A call has at most the bytes left that it was asked for.                *)
Within == \A p \in Procs : n[p] <= target[p]

Inv == TypeOK /\ Within /\ (panicked \/ (Held /\ Readers))

(* The finished input is a part of the input, which fits the buffer.       *)
Ring == Minus(w, r) <= Minus(e, r) /\ Minus(e, r) <= INPUT_BUF
-----------------------------------------------------------------------------
(* Quotient and remainder are unique.                                      *)
LEMMA ModUnique ==
    ASSUME NEW m \in Nat \ {0}, NEW a \in Int, NEW b \in Int,
           NEW u \in 0 .. m - 1, NEW v \in 0 .. m - 1,
           a * m + u = b * m + v
    PROVE  a = b /\ u = v
<1>1. (a - b) * m = v - u
  OBVIOUS
<1>2. CASE a > b
  <2>1. (a - b) * m >= m
    BY <1>2
  <2> QED BY <2>1, <1>1
<1>3. CASE a < b
  <2>1. (b - a) * m >= m
    BY <1>3
  <2>2. (b - a) * m = u - v
    OBVIOUS
  <2> QED BY <2>1, <2>2
<1>4. a = b
  BY <1>2, <1>3
<1>5. a * m = b * m /\ a * m \in Int
  BY <1>4
<1> QED BY <1>4, <1>5

(* Every integer is a multiple of m and a remainder below m.               *)
LEMMA ModDiv ==
    ASSUME NEW x \in Int, NEW m \in Nat \ {0}
    PROVE  \E d \in Int : x % m \in 0 .. m - 1 /\ x = d * m + (x % m)
<1>1. x = ((x \div m) * m) + (x % m) /\ (x \div m) \in Int /\ x % m \in 0 .. m - 1
  OBVIOUS
<1> QED BY <1>1

(* ... and that remainder is what % returns.                               *)
LEMMA ModIs ==
    ASSUME NEW x \in Int, NEW m \in Nat \ {0}, NEW d \in Int,
           NEW u \in 0 .. m - 1, x = d * m + u
    PROVE  x % m = u
<1>1. PICK h \in Int : x % m \in 0 .. m - 1 /\ x = h * m + (x % m)
  BY ModDiv
<1> DEFINE v == x % m
<1>2. v \in 0 .. m - 1 /\ d * m + u = h * m + v
  BY <1>1
<1> HIDE DEF v
<1>3. \A a \in Int, b \in Int : a * m + u = b * m + v => u = v
  BY <1>2, ModUnique
<1>4. u = v
  BY <1>2, <1>3
<1> QED BY <1>4 DEF v

(* Adding multiples of the modulus leaves the remainder alone.             *)
LEMMA ModAdd ==
    ASSUME NEW x \in Int, NEW d \in Int, NEW m \in Nat \ {0}
    PROVE  (x + (d * m)) % m = x % m
<1>1. PICK h \in Int : x % m \in 0 .. m - 1 /\ x = h * m + (x % m)
  BY ModDiv
<1> DEFINE v == x % m
<1>2. v \in 0 .. m - 1 /\ x + (d * m) = (h + d) * m + v
  BY <1>1
<1> HIDE DEF v
<1> QED BY <1>2, ModIs, h + d \in Int, x + (d*m) \in Int DEF v

(* A remainder modulo a multiple of m has the same remainder modulo m: why *)
(* a cell can be found from an index that has wrapped.                     *)
LEMMA ModMod ==
    ASSUME NEW x \in Int, NEW k \in Nat \ {0}, NEW m \in Nat \ {0}, k % m = 0
    PROVE  (x % k) % m = x % m
<1>1. PICK h \in Int : x % k \in 0 .. k - 1 /\ x = h * k + (x % k)
  BY ModDiv
<1>2. PICK f \in Int : k = f * m
  <2>1. k = ((k \div m) * m) + (k % m) /\ (k \div m) \in Int
    OBVIOUS
  <2> QED BY <2>1
<1> DEFINE v == x % k
<1>3. v \in Int /\ x = v + (h * (f * m))
  BY <1>1, <1>2
<1> HIDE DEF v
<1>4. x = v + (h * f) * m
  BY <1>3
<1>5. x % m = v % m
  <2> DEFINE g == h * f
  <2>1. g \in Int /\ x = v + (g * m)
    BY <1>4
  <2> HIDE DEF g
  <2>2. (v + (g * m)) % m = v % m
    BY <1>3, <2>1, ModAdd, Zenon
  <2> QED BY <2>1, <2>2, Zenon
<1> QED BY <1>5 DEF v

(* The remainder of a number that is off by one modulus at most.           *)
LEMMA ModWrap ==
    ASSUME NEW m \in Nat \ {0}, NEW x \in Int, -m <= x, x < 2 * m
    PROVE  x % m = IF x < 0 THEN x + m ELSE IF x < m THEN x ELSE x - m
<1>1. CASE x < 0
  BY <1>1, ModIs, x = (-1) * m + (x + m), x + m \in 0 .. m - 1, -1 \in Int
<1>2. CASE x >= 0 /\ x < m
  BY <1>2
<1>3. CASE x >= m
  BY <1>3, ModIs, x = 1 * m + (x - m), x - m \in 0 .. m - 1
<1> QED BY <1>1, <1>2, <1>3

(* The difference of two counters.                                         *)
LEMMA SubWrap ==
    ASSUME NEW m \in Nat \ {0}, NEW a \in 0 .. m - 1, NEW b \in 0 .. m - 1
    PROVE  (a - b) % m = IF a < b THEN a - b + m ELSE a - b
<1> DEFINE x == a - b
<1>1. x \in Int /\ -m <= x /\ x < 2 * m /\ x < m /\ (x < 0 <=> a < b)
  OBVIOUS
<1> HIDE DEF x
<1>2. x % m = IF x < 0 THEN x + m ELSE x
  BY <1>1, ModWrap
<1> QED BY <1>1, <1>2 DEF x

(* The sum of a counter and a small number.                                *)
LEMMA AddWrap ==
    ASSUME NEW m \in Nat \ {0}, NEW a \in 0 .. m - 1, NEW b \in 0 .. m
    PROVE  (a + b) % m = IF a + b < m THEN a + b ELSE a + b - m
<1> DEFINE x == a + b
<1>1. x \in Int /\ -m <= x /\ x < 2 * m /\ x >= 0
  OBVIOUS
<1> HIDE DEF x
<1>2. x % m = IF x < 0 THEN x + m ELSE IF x < m THEN x ELSE x - m
  BY <1>1, ModWrap, Zenon
<1>3. x % m = IF x < m THEN x ELSE x - m
  BY <1>1, <1>2
<1> QED BY <1>3 DEF x

(* A remainder is below its modulus.                                       *)
LEMMA ModRange ==
    ASSUME NEW x \in Int, NEW m \in Nat \ {0}
    PROVE  x % m \in 0 .. m - 1
OBVIOUS

(* Arithmetic on the uint fields of input stays in the range of a uint.    *)
LEMMA IndexType ==
    ASSUME NEW x \in Int, NEW y \in Int
    PROVE  Minus(x, y) \in 0 .. UINT - 1 /\ Plus(x, y) \in 0 .. UINT - 1
<1>1. UINT \in Nat \ {0} /\ x - y \in Int /\ x + y \in Int
  BY SizeAssumption
<1>2. (x - y) % UINT \in 0 .. UINT - 1
  BY <1>1, ModRange
<1>3. (x + y) % UINT \in 0 .. UINT - 1
  BY <1>1, ModRange
<1> QED BY <1>2, <1>3 DEF Minus, Plus

(* input.buf is never indexed out of bounds.                               *)
LEMMA CellType ==
    ASSUME NEW x \in Int
    PROVE  Cell(x) \in 0 .. INPUT_BUF - 1
<1>1. x % INPUT_BUF \in 0 .. INPUT_BUF - 1
  BY ModRange, SizeAssumption
<1> QED BY <1>1 DEF Cell

(* The console starts with the lock free, nobody in it and nothing typed.  *)
LEMMA InitInv == Init => Inv
<1> SUFFICES ASSUME Init PROVE Inv
  OBVIOUS
<1>1. TypeOK
  <2>1. buf \in [0 .. INPUT_BUF - 1 -> Chars]
    BY DEF Init, Chars
  <2>2. r \in 0 .. UINT - 1 /\ w \in 0 .. UINT - 1 /\ e \in 0 .. UINT - 1
    BY SizeAssumption DEF Init
  <2>3. pc \in [Actors -> PcStates] /\ lock \in Actors \cup {None}
    BY DEF Init, PcStates
  <2>4. n \in [Procs -> 0 .. MaxN] /\ target \in [Procs -> 0 .. MaxN]
    BY SizeAssumption DEF Init
  <2>5. dump \in BOOLEAN /\ killed \in [Procs -> BOOLEAN] /\ panicked \in BOOLEAN
    BY DEF Init
  <2> QED BY <2>1, <2>2, <2>3, <2>4, <2>5 DEF TypeOK
<1>2. Within
  <2>1. \A p \in Procs : n[p] = 0 /\ target[p] = 0
    BY DEF Init
  <2>2. ASSUME NEW p \in Procs PROVE n[p] <= target[p]
    BY <2>1
  <2> QED BY <2>2 DEF Within
<1>3. Held /\ Readers
  BY ActorAssumption
     DEF Init, Held, Readers, Taking, Printing, Actors, None, Kbd
<1> QED BY <1>1, <1>2, <1>3 DEF Inv

(* A step that leaves n and target alone keeps the one below the other.    *)
LEMMA SameCalls ==
    ASSUME Within, UNCHANGED calls
    PROVE  Within'
BY DEF Within, calls

(* cprintf takes the lock, or finds that this CPU holds it, and prints: it *)
(* never panics (console.c 61-64).                                         *)
LEMMA PrintBeginInv ==
    ASSUME Inv, NEW p \in Procs, NEW from, NEW to, PrintBegin(p, from, to),
           \/ from = "out" /\ to = "print"
           \/ from = "rstore" /\ to = "rprint"
           \/ from = "rlast" /\ to = "lprint"
           \/ from = "write" /\ to = "wprint"
    PROVE  Inv' /\ panicked' = panicked /\ UNCHANGED input
<1>1. /\ ~panicked /\ pc[p] = from /\ pc' = [pc EXCEPT ![p] = to]
      /\ UNCHANGED <<input, calls, dump, killed>> /\ TypeOK /\ Held /\ Readers
      /\ p \in Actors /\ to \in PcStates /\ p # Kbd /\ p # None
  BY ActorAssumption DEF PrintBegin, At, Go, Inv, Actors, PcStates
<1>2. lock' = p /\ panicked' = panicked /\ lock \in {p, None}
  BY <1>1 DEF PrintBegin, Acquire, Holding
<1>3. TypeOK'
  BY <1>1, <1>2 DEF TypeOK, input, calls
<1>4. Held'
  BY <1>1, <1>2, ActorAssumption
     DEF Held, Printing, Critical, TypeOK, Actors, Kbd, None
<1>5. Readers'
  BY <1>1, <1>2, ActorAssumption
     DEF Readers, Taking, TypeOK, Actors, input, calls
<1> QED BY <1>1, <1>2, <1>3, <1>4, <1>5, SameCalls DEF Inv

(* cprintf releases the lock, which it always holds at that point          *)
(* (console.c 107-108).                                                    *)
LEMMA PrintEndInv ==
    ASSUME Inv, NEW p \in Procs, NEW from, NEW to, PrintEnd(p, from, to),
           \/ from = "print" /\ to = "out"
           \/ from = "rprint" /\ to = "rstore"
           \/ from = "lprint" /\ to = "rlast"
           \/ from = "wprint" /\ to = "write"
    PROVE  Inv' /\ panicked' = panicked /\ UNCHANGED input
<1>1. /\ ~panicked /\ pc[p] = from /\ pc' = [pc EXCEPT ![p] = to]
      /\ UNCHANGED <<input, calls, dump, killed>> /\ TypeOK /\ Held /\ Readers
      /\ p \in Actors /\ to \in PcStates /\ p # Kbd /\ p # None
  BY ActorAssumption DEF PrintEnd, At, Go, Inv, Actors, PcStates
<1>2. lock = p
  BY <1>1 DEF Held, Printing
<1>3. lock' = None /\ panicked' = panicked
  BY <1>2 DEF PrintEnd, Release, Holding
<1>4. TypeOK'
  BY <1>1, <1>3 DEF TypeOK, input, calls
<1>5. Held'
  BY <1>1, <1>2, <1>3, ActorAssumption
     DEF Held, Printing, Critical, TypeOK, Actors, Kbd, None
<1>6. Readers'
  BY <1>1, <1>3, ActorAssumption
     DEF Readers, Taking, TypeOK, Actors, input, calls
<1> QED BY <1>1, <1>3, <1>4, <1>5, <1>6, SameCalls DEF Inv

(* A system call acquires the lock; it does not hold it yet (console.c 248 *)
(* and 284), nor when sleep returns (256).                                 *)
LEMMA LockInv ==
    ASSUME Inv, NEW p \in Procs, NEW from, NEW to, Lock(p, from, to),
           \/ from \in {"rlock", "rwake"} /\ to = "read"
           \/ from = "wlock" /\ to = "write"
    PROVE  Inv' /\ panicked' = panicked /\ UNCHANGED input
<1>1. /\ ~panicked /\ pc[p] = from /\ pc' = [pc EXCEPT ![p] = to]
      /\ UNCHANGED <<input, calls, dump, killed>> /\ TypeOK /\ Held /\ Readers
      /\ p \in Actors /\ to \in PcStates /\ p # Kbd /\ p # None
  BY ActorAssumption DEF Lock, At, Go, Inv, Actors, PcStates
<1>2. lock # p
  BY <1>1 DEF Held, Critical
<1>3. lock' = p /\ panicked' = panicked /\ lock = None
  BY <1>2 DEF Lock, Acquire, Holding
<1>4. TypeOK'
  BY <1>1, <1>3 DEF TypeOK, input, calls
<1>5. Held'
  BY <1>1, <1>3, ActorAssumption
     DEF Held, Printing, Critical, TypeOK, Actors, Kbd, None
<1>6. Readers'
  BY <1>1, <1>3, ActorAssumption
     DEF Readers, Taking, TypeOK, Actors, input, calls
<1> QED BY <1>1, <1>3, <1>4, <1>5, <1>6, SameCalls DEF Inv
-----------------------------------------------------------------------------
(* The keyboard handler acquires the lock, or procdump prints (console.c   *)
(* 201 and 236).                                                           *)
LEMMA KbdLockInv ==
    ASSUME Inv, Lock(Kbd, "out", "keys") \/ PrintBegin(Kbd, "dump", "print")
    PROVE  Inv' /\ panicked' = panicked /\ UNCHANGED input
<1> DEFINE to == IF pc[Kbd] = "out" THEN "keys" ELSE "print"
<1>1. /\ ~panicked /\ pc[Kbd] \in {"out", "dump"} /\ pc' = [pc EXCEPT ![Kbd] = to]
      /\ UNCHANGED <<input, calls, dump, killed>> /\ TypeOK /\ Held /\ Readers
      /\ Kbd \in Actors /\ to \in PcStates
  BY DEF Lock, PrintBegin, At, Go, Inv, Actors, PcStates
<1> HIDE DEF to
<1>2. lock # Kbd
  BY <1>1 DEF Held
<1>3. lock' = Kbd /\ panicked' = panicked /\ lock = None
  BY <1>2 DEF Lock, PrintBegin, Acquire, Holding
<1>4. TypeOK'
  BY <1>1, <1>3 DEF TypeOK, input, calls
<1>5. Held'
  BY <1>1, <1>3, ActorAssumption
     DEF Held, Printing, Critical, TypeOK, Actors, None, to
<1>6. Readers'
  BY <1>1, <1>3, ActorAssumption
     DEF Readers, Taking, TypeOK, Actors, input, calls
<1> QED BY <1>1, <1>3, <1>4, <1>5, <1>6, SameCalls DEF Inv

(* The keyboard handler releases the lock, and procdump runs without it    *)
(* (console.c 234-237).                                                    *)
LEMMA EndIntrInv ==
    ASSUME Inv, EndIntr
    PROVE  Inv' /\ panicked' = panicked /\ UNCHANGED input
<1>1. CASE PrintBegin(Kbd, "dump", "print")
  BY <1>1, KbdLockInv
<1>2. CASE ~PrintBegin(Kbd, "dump", "print")
  <2>1. PICK to \in {"out", "dump"} :
           /\ ~panicked /\ pc[Kbd] \in {"keys", "print"} /\ pc' = [pc EXCEPT ![Kbd] = to]
           /\ UNCHANGED <<input, calls, killed>> /\ TypeOK /\ Held /\ Readers
           /\ dump' \in BOOLEAN
    BY <1>2 DEF EndIntr, PrintEnd, At, Go, Inv, TypeOK
  <2>2. lock = Kbd
    BY <2>1 DEF Held
  <2>3. lock' = None /\ panicked' = panicked
    BY <1>2, <2>2 DEF EndIntr, PrintEnd, Release, Holding
  <2>4. TypeOK'
    BY <2>1, <2>3 DEF TypeOK, input, calls, Actors, PcStates
  <2>5. Held'
    BY <2>1, <2>2, <2>3, ActorAssumption
       DEF Held, Printing, Critical, TypeOK, Actors, None, Kbd
  <2>6. Readers'
    BY <2>1, <2>3, ActorAssumption
       DEF Readers, Taking, TypeOK, Actors, input, calls
  <2> QED BY <2>1, <2>3, <2>4, <2>5, <2>6, SameCalls DEF Inv
<1> QED BY <1>1, <1>2

(* A typed character: when it makes input.w move, no reader is left asleep *)
(* (console.c 222-229).                                                    *)
LEMMA TypeInv ==
    ASSUME Inv, NEW c \in Chars, Type(c), At(Kbd, "keys"),
           UNCHANGED <<dump, lock, calls, killed, panicked>>
    PROVE  Inv'
<1>1. /\ ~panicked /\ pc[Kbd] = "keys" /\ TypeOK /\ Held /\ Readers
      /\ lock = Kbd /\ UINT \in Nat
  BY SizeAssumption DEF At, Inv, Held
<1>2. buf' \in [0 .. INPUT_BUF - 1 -> Chars] /\ e' \in 0 .. UINT - 1
  BY <1>1, CellType, IndexType DEF Type, TypeOK
<1>3. CASE w' = e' /\ pc' = Wake(pc)
  <2>1. pc' \in [Actors -> PcStates]
    BY <1>1, <1>3 DEF Wake, TypeOK, PcStates
  <2>2. /\ \A p \in Actors : pc'[p] # "rsleep"
        /\ \A p \in Actors : pc[p] # "rsleep" => pc'[p] = pc[p]
        /\ \A p \in Actors : pc[p] = "rsleep" => pc'[p] = "rwake"
        /\ Kbd \in Actors /\ Procs \subseteq Actors
    BY <1>1, <1>3 DEF Wake, TypeOK, Actors
  <2>3. TypeOK'
    BY <1>1, <1>2, <1>3, <2>1 DEF Type, TypeOK, calls
  <2>4. Held'
    <3>1. pc'[Kbd] = pc[Kbd] /\ lock' = lock
      BY <1>1, <2>2
    <3>2. ASSUME NEW p \in Procs
          PROVE  /\ pc'[p] \notin {"keys", "dump"}
                 /\ lock' = p => pc'[p] \in Critical \cup {"print"}
                 /\ pc'[p] \in Printing => lock' = p
      BY <1>1, <2>2 DEF Held, Printing, Critical
    <3> QED BY <1>1, <3>1, <3>2 DEF Held
  <2>5. Readers'
    BY <1>1, <2>2, ActorAssumption DEF Readers, Taking, calls
  <2> QED BY <2>3, <2>4, <2>5, SameCalls DEF Inv
<1>4. CASE UNCHANGED <<w, pc>>
  <2>1. TypeOK'
    BY <1>1, <1>2, <1>4 DEF Type, TypeOK, calls
  <2>2. Held'
    BY <1>1, <1>4 DEF Held
  <2>3. Readers'
    BY <1>1, <1>4 DEF Readers, Type, calls
  <2> QED BY <2>1, <2>2, <2>3, SameCalls DEF Inv
<1> QED BY <1>3, <1>4 DEF Type

(* A non-empty set of naturals has a least element.                        *)
LEMMA Least ==
    ASSUME NEW T \in SUBSET Nat, T # {}
    PROVE  \E k \in T : \A j \in T : ~(j < k)
<1>1. PICK k \in T : \A j \in T : ~(<<j, k>> \in OpToRel(<, Nat))
  BY NatLessThanWellFounded, WFMin
<1> QED BY <1>1 DEF OpToRel

(* ^U stops at input.w at the latest: the CHOOSE of KillLine is satisfied, *)
(* by a number of characters that lie between w and e (console.c 208-214). *)
LEMMA KillLineType ==
    ASSUME TypeOK
    PROVE  KillLine \in 0 .. Minus(e, w)
<1> DEFINE Stops(k) == Minus(e, k) = w \/ buf[Cell(Minus(e, k + 1))] = "newline"
           m == Minus(e, w)
           T == {k \in 0 .. m : Stops(k)}
<1>1. /\ e \in 0 .. UINT - 1 /\ w \in 0 .. UINT - 1 /\ UINT \in Nat \ {0}
      /\ m \in 0 .. UINT - 1
  <2>1. e \in 0 .. UINT - 1 /\ w \in 0 .. UINT - 1 /\ UINT \in Nat \ {0}
    BY SizeAssumption DEF TypeOK
  <2> QED BY <2>1, IndexType
<1>2. m = IF e < w THEN e - w + UINT ELSE e - w
  BY <1>1, SubWrap, Zenon DEF Minus
<1> HIDE DEF m
<1>3. Minus(e, m) = w
  <2>1. Minus(e, m) = IF e < m THEN e - m + UINT ELSE e - m
    BY <1>1, SubWrap, Zenon DEF Minus
  <2> QED BY <1>1, <1>2, <2>1
<1>4. T \in SUBSET Nat /\ m \in T
  BY <1>1, <1>3
<1>5. PICK k \in T : \A j \in T : ~(j < k)
  BY <1>4, Least
<1>6. k \in 0 .. m /\ Stops(k) /\ \A j \in 0 .. k - 1 : ~Stops(j)
  BY <1>1, <1>5
<1>7. KillLine = CHOOSE i \in 0 .. m : Stops(i) /\ \A j \in 0 .. i - 1 : ~Stops(j)
  BY DEF KillLine, m
<1> HIDE DEF Stops
<1> QED BY <1>6, <1>7 DEF m

(* No key takes anything from a reader or panics (console.c 202-233).      *)
LEMMA KeyInv ==
    ASSUME Inv, NEW c \in Keys, Key(c)
    PROVE  Inv' /\ panicked' = panicked
<1>1. At(Kbd, "keys") /\ UNCHANGED <<lock, calls, killed, panicked>>
  BY DEF Key
<1>2. CASE c = "ctrl_P" /\ dump' = TRUE /\ UNCHANGED <<input, pc>>
  BY <1>1, <1>2, SameCalls DEF Inv, TypeOK, Held, Readers, Taking, input, calls
<1>3. ASSUME NEW k \in Int, Erase(k), UNCHANGED dump PROVE Inv'
  <2>1. e' \in 0 .. UINT - 1 /\ UNCHANGED <<buf, r, w, pc>>
    BY <1>3, IndexType, SizeAssumption DEF Erase, Inv, TypeOK
  <2> QED BY <1>1, <1>3, <2>1, SameCalls
             DEF Inv, TypeOK, Held, Readers, Taking, calls
<1>4. CASE c = "ctrl_U" /\ Erase(KillLine) /\ UNCHANGED dump
  <2>1. KillLine \in Int
    <3>1. TypeOK
      BY DEF Inv
    <3>2. e \in Int /\ w \in Int
      BY <3>1, SizeAssumption DEF TypeOK
    <3>3. Minus(e, w) \in 0 .. UINT - 1
      BY <3>2, IndexType
    <3> QED BY <3>1, <3>3, KillLineType
  <2> QED BY <1>1, <1>3, <1>4, <2>1
<1>5. CASE c = "ctrl_H" /\ e # w /\ Erase(1) /\ UNCHANGED dump
  BY <1>1, <1>3, <1>5
<1>6. CASE /\ c \in Chars \cup {"return"} /\ Type(IF c = "return" THEN "newline" ELSE c)
           /\ UNCHANGED dump
  <2>1. (IF c = "return" THEN "newline" ELSE c) \in Chars
    BY <1>6 DEF Chars
  <2> QED BY <1>1, <1>6, <2>1, TypeInv
<1> QED BY <1>1, <1>2, <1>4, <1>5, <1>6 DEF Key
-----------------------------------------------------------------------------
(* A system call starts, and holds nothing yet (console.c 241-247).        *)
LEMMA CallInv ==
    ASSUME Inv, NEW p \in Procs, NEW s \in {"rlock", "wlock"}, Call(p, s)
    PROVE  Inv' /\ panicked' = panicked /\ UNCHANGED input
<1>1. /\ ~panicked /\ pc[p] = "out" /\ pc' = [pc EXCEPT ![p] = s] /\ p \in Actors
      /\ UNCHANGED <<input, lock, dump, killed, panicked>> /\ TypeOK /\ Held /\ Readers
  BY DEF Call, At, Go, Inv, Actors
<1>2. PICK k \in 1 .. MaxN : n' = [n EXCEPT ![p] = k] /\ target' = [target EXCEPT ![p] = k]
  BY DEF Call
<1>3. n' \in [Procs -> 0 .. MaxN] /\ target' \in [Procs -> 0 .. MaxN] /\ Within'
  BY <1>1, <1>2, SizeAssumption DEF TypeOK, Within, Inv
<1>4. TypeOK'
  BY <1>1, <1>3 DEF TypeOK, input, PcStates
<1>5. Held'
  BY <1>1, ActorAssumption DEF Held, Printing, Critical, TypeOK, Actors
<1>6. Readers'
  <2>1. ASSUME NEW q \in Procs, q # p PROVE pc'[q] = pc[q] /\ n'[q] = n[q]
    BY <1>1, <1>2, <2>1 DEF TypeOK
  <2>2. pc'[p] = s
    BY <1>1 DEF TypeOK
  <2> QED BY <1>1, <2>1, <2>2 DEF Readers, Taking, input
<1> QED BY <1>1, <1>3, <1>4, <1>5, <1>6 DEF Inv

(* A system call ends: its release panics only if the lock was dropped     *)
(* before (console.c 252, 272 and 287).                                    *)
LEMMA ReturnInv ==
    ASSUME Inv, NEW p \in Procs, ~panicked, pc[p] \in Critical \ Printing, Return(p),
           UNCHANGED <<input, dump, killed>>
    PROVE  Inv' /\ (panicked' => lock # p)
<1>1. /\ pc' = [pc EXCEPT ![p] = "out"] /\ p \in Actors /\ TypeOK /\ Held /\ Readers
      /\ n' = [n EXCEPT ![p] = 0] /\ target' = [target EXCEPT ![p] = 0] /\ p # Kbd /\ p # None
  BY ActorAssumption DEF Return, Go, Inv, Actors
<1>2. n' \in [Procs -> 0 .. MaxN] /\ target' \in [Procs -> 0 .. MaxN] /\ Within'
  BY <1>1, SizeAssumption DEF TypeOK, Within, Inv
<1>3. CASE lock = p
  <2>1. lock' = None /\ panicked' = panicked
    BY <1>3 DEF Return, Release, Holding
  <2>2. TypeOK'
    BY <1>1, <1>2, <2>1 DEF TypeOK, input, PcStates
  <2>3. Held'
    BY <1>1, <1>3, <2>1, ActorAssumption
       DEF Held, Printing, Critical, TypeOK, Actors, None, Kbd
  <2>4. Readers'
    BY <1>1, <2>1, ActorAssumption
       DEF Readers, Taking, TypeOK, Actors, input, calls
  <2> QED BY <1>2, <2>1, <2>2, <2>3, <2>4 DEF Inv
<1>4. CASE lock # p
  <2>1. lock' = lock /\ panicked' = TRUE
    BY <1>4 DEF Return, Release, Holding
  <2>2. TypeOK'
    BY <1>1, <1>2, <2>1 DEF TypeOK, input, PcStates
  <2> QED BY <1>2, <1>4, <2>1, <2>2 DEF Inv
<1> QED BY <1>3, <1>4

(* A reader that finds nothing leaves if it was killed and otherwise is    *)
(* about to sleep (console.c 250-255).                                     *)
LEMMA ReadEmptyInv ==
    ASSUME Inv, NEW p \in Procs, ReadEmpty(p)
    PROVE  Inv' /\ (panicked' => lock # p) /\ UNCHANGED input
<1>1. /\ ~panicked /\ pc[p] = "read" /\ r = w /\ UNCHANGED <<input, dump, killed>>
      /\ p \in Actors /\ TypeOK /\ Held /\ Readers
  BY DEF ReadEmpty, At, Inv, Actors
<1>2. CASE killed[p]
  <2>1. Return(p) /\ pc[p] \in Critical \ Printing
    BY <1>1, <1>2 DEF ReadEmpty, Critical, Printing
  <2> QED BY <1>1, <2>1, ReturnInv
<1>3. CASE ~killed[p]
  <2>1. pc' = [pc EXCEPT ![p] = "rnap"] /\ UNCHANGED <<lock, calls, panicked>>
    BY <1>3 DEF ReadEmpty, Go
  <2>2. TypeOK'
    BY <1>1, <2>1 DEF TypeOK, input, calls, PcStates
  <2>3. Held'
    BY <1>1, <2>1, ActorAssumption DEF Held, Printing, Critical, TypeOK, Actors
  <2>4. Readers'
    BY <1>1, <2>1 DEF Readers, Taking, TypeOK, Actors, input, calls
  <2> QED BY <1>1, <2>1, <2>2, <2>3, <2>4, SameCalls DEF Inv
<1> QED BY <1>2, <1>3

(* A reader sleeps: under the lock, what it saw still holds (console.c     *)
(* 256).                                                                   *)
LEMMA SleepInv ==
    ASSUME Inv, NEW p \in Procs, Sleep(p)
    PROVE  Inv' /\ (panicked' => lock # p) /\ UNCHANGED input
<1>1. /\ ~panicked /\ pc[p] = "rnap" /\ UNCHANGED <<input, calls, dump, killed>>
      /\ p \in Actors /\ TypeOK /\ Held /\ Readers /\ pc' = [pc EXCEPT ![p] = "rsleep"]
      /\ p # Kbd /\ p # None
  BY ActorAssumption DEF Sleep, At, Go, Inv, Actors
<1>2. CASE lock = p
  <2>1. lock' = None /\ panicked' = panicked
    BY <1>2 DEF Sleep, Release, Holding
  <2>2. TypeOK'
    BY <1>1, <2>1 DEF TypeOK, input, calls, PcStates
  <2>3. Held'
    BY <1>1, <1>2, <2>1, ActorAssumption
       DEF Held, Printing, Critical, TypeOK, Actors, None, Kbd
  <2>4. r = w
    BY <1>1, <1>2 DEF Readers, Taking, calls
  <2>5. Readers'
    BY <1>1, <2>4 DEF Readers, Taking, input, calls
  <2> QED BY <1>1, <2>1, <2>2, <2>3, <2>5, SameCalls DEF Inv
<1>3. CASE lock # p
  <2>1. lock' = lock /\ panicked' = TRUE
    BY <1>3 DEF Sleep, Release, Holding
  <2>2. TypeOK'
    BY <1>1, <2>1 DEF TypeOK, input, calls, PcStates
  <2> QED BY <1>1, <1>3, <2>1, <2>2, SameCalls DEF Inv
<1> QED BY <1>2, <1>3

(* A reader takes a character (console.c 258-266).                         *)
LEMMA ReadCharInv ==
    ASSUME Inv, NEW p \in Procs, ReadChar(p)
    PROVE  Inv' /\ panicked' = panicked
<1>1. /\ ~panicked /\ pc[p] = "read" /\ r # w /\ p \in Actors /\ TypeOK /\ Held /\ Readers
      /\ UNCHANGED <<buf, w, e, lock, calls, dump, killed, panicked>>
  BY DEF ReadChar, At, Inv, Actors
<1>2. PICK s \in {"rdone", "rlast", "rstore"} : pc' = [pc EXCEPT ![p] = s]
  BY DEF ReadChar, Go
<1>3. r' \in 0 .. UINT - 1
  <2>1. Plus(r, 1) \in 0 .. UINT - 1
    BY <1>1, IndexType DEF TypeOK
  <2> QED BY <1>1, <2>1 DEF ReadChar, TypeOK
<1>4. TypeOK'
  BY <1>1, <1>2, <1>3 DEF TypeOK, calls, PcStates
<1>5. Held'
  BY <1>1, <1>2, ActorAssumption DEF Held, Printing, Critical, TypeOK, Actors
<1>6. Readers'
  BY <1>1, <1>2
     DEF Readers, Taking, Critical, Held, TypeOK, Actors, calls, ReadChar
<1> QED BY <1>1, <1>4, <1>5, <1>6, SameCalls DEF Inv

(* A reader stores the character it has taken (console.c 267-270).         *)
LEMMA StoreInv ==
    ASSUME Inv, NEW p \in Procs, NEW from, NEW to, Store(p, from, to),
           \/ from = "rstore" /\ to = "read"
           \/ from = "rlast" /\ to = "rdone"
    PROVE  Inv' /\ panicked' = panicked /\ UNCHANGED input
<1>1. /\ ~panicked /\ pc[p] = from /\ p \in Actors /\ TypeOK /\ Held /\ Readers /\ Within
      /\ UNCHANGED <<input, lock, target, dump, killed, panicked>>
      /\ pc' = [pc EXCEPT ![p] = to] /\ n' = [n EXCEPT ![p] = @ - 1]
  BY DEF Store, At, Go, Inv, Actors
<1>2. n[p] > 0 /\ n \in [Procs -> 0 .. MaxN] /\ target \in [Procs -> 0 .. MaxN]
  BY <1>1 DEF Readers, Taking, TypeOK
<1>3. n' \in [Procs -> 0 .. MaxN] /\ Within'
  BY <1>1, <1>2, SizeAssumption DEF Within
<1>4. TypeOK'
  BY <1>1, <1>3 DEF TypeOK, input, PcStates
<1>5. Held'
  BY <1>1, ActorAssumption DEF Held, Printing, Critical, TypeOK, Actors
<1>6. Readers'
  <2>1. ASSUME NEW q \in Procs, q # p PROVE pc'[q] = pc[q] /\ n'[q] = n[q]
    BY <1>1, <1>2, <2>1 DEF TypeOK
  <2>2. pc'[p] = to
    BY <1>1 DEF TypeOK
  <2> QED BY <1>1, <2>1, <2>2 DEF Readers, Taking, input
<1> QED BY <1>1, <1>3, <1>4, <1>5, <1>6 DEF Inv

(* A writer prints a character (console.c 285-286).                        *)
LEMMA WriteCharInv ==
    ASSUME Inv, NEW p \in Procs, WriteChar(p)
    PROVE  Inv' /\ panicked' = panicked /\ UNCHANGED input
<1>1. /\ ~panicked /\ pc[p] = "write" /\ TypeOK /\ Held /\ Readers /\ Within /\ n[p] > 0
      /\ UNCHANGED <<input, lock, pc, target, dump, killed, panicked>>
      /\ n' = [n EXCEPT ![p] = @ - 1]
  BY DEF WriteChar, At, Inv
<1>2. n \in [Procs -> 0 .. MaxN] /\ target \in [Procs -> 0 .. MaxN]
  BY <1>1 DEF TypeOK
<1>3. n' \in [Procs -> 0 .. MaxN] /\ Within'
  BY <1>1, <1>2, SizeAssumption DEF Within
<1>4. TypeOK'
  BY <1>1, <1>3 DEF TypeOK, input
<1>5. Held'
  BY <1>1 DEF Held
<1>6. Readers'
  <2>1. ASSUME NEW q \in Procs, q # p PROVE n'[q] = n[q]
    BY <1>1, <1>2, <2>1
  <2> QED BY <1>1, <2>1 DEF Readers, Taking, input
<1> QED BY <1>1, <1>3, <1>4, <1>5, <1>6 DEF Inv

(* kill wakes its victim and changes nothing else of the console (proc.c,  *)
(* kill).                                                                  *)
LEMMA KillInv ==
    ASSUME Inv, NEW p \in Procs, kill(p)
    PROVE  Inv' /\ panicked' = panicked /\ UNCHANGED input
<1>1. /\ ~panicked /\ p \in Actors /\ TypeOK /\ Held /\ Readers /\ Within
      /\ UNCHANGED <<input, lock, calls, dump, panicked>>
      /\ killed' = [killed EXCEPT ![p] = TRUE]
  BY DEF kill, Inv, Actors
<1>2. PICK s \in PcStates : /\ s = pc[p] \/ (s = "rwake" /\ pc[p] = "rsleep")
                            /\ s # "rsleep"
                            /\ pc' = [pc EXCEPT ![p] = s]
  <2>1. CASE pc[p] = "rsleep"
    BY <1>1, <2>1 DEF kill, TypeOK, PcStates
  <2>2. CASE pc[p] # "rsleep"
    BY <1>1, <2>2 DEF kill, TypeOK
  <2> QED BY <2>1, <2>2
<1>3. TypeOK'
  BY <1>1, <1>2 DEF TypeOK, input, calls
<1>4. Held'
  BY <1>1, <1>2, ActorAssumption DEF Held, Printing, Critical, TypeOK, Actors
<1>5. Readers'
  BY <1>1, <1>2, ActorAssumption
     DEF Readers, Taking, TypeOK, Actors, input, calls
<1> QED BY <1>1, <1>3, <1>4, <1>5, SameCalls DEF Inv

(* consoleread and consolewrite return.                                    *)
LEMMA DoneInv ==
    ASSUME Inv, NEW p \in Procs, ReadDone(p) \/ WriteDone(p)
    PROVE  Inv' /\ (panicked' => pc[p] \in Critical /\ lock # p) /\ UNCHANGED input
<1>1. /\ ~panicked /\ pc[p] \in Critical \ Printing /\ Return(p)
      /\ UNCHANGED <<input, dump, killed>>
  BY DEF ReadDone, WriteDone, At, Critical, Printing
<1> QED BY <1>1, ReturnInv

(* Every step of a process keeps the invariant, panics only when a process *)
(* had lost the lock, and changes the input only by taking a character.    *)
LEMMA ProcInv ==
    ASSUME Inv, NEW p \in Procs, consoleread(p) \/ consolewrite(p) \/ cprintf(p) \/ kill(p)
    PROVE  Inv' /\ (panicked' => Unlocked) /\ (UNCHANGED input \/ ReadChar(p))
<1>0. UNCHANGED panicked => (panicked' => Unlocked)
  BY DEF Unlocked
<1>1. ASSUME consoleread(p)
      PROVE  Inv' /\ (panicked' => Unlocked) /\ (UNCHANGED input \/ ReadChar(p))
  <2>1. CASE Call(p, "rlock")
    BY <1>0, <2>1, CallInv
  <2>2. CASE Lock(p, "rlock", "read")
    BY <1>0, <2>2, LockInv
  <2>8. CASE Lock(p, "rwake", "read")
    BY <1>0, <2>8, LockInv
  <2>3. CASE ReadEmpty(p) \/ Sleep(p)
    <3>1. pc[p] \in Critical
      BY <2>3 DEF ReadEmpty, Sleep, At, Critical
    <3> QED BY <2>3, <3>1, ReadEmptyInv, SleepInv DEF Unlocked
  <2>4. CASE ReadChar(p)
    BY <1>0, <2>4, ReadCharInv
  <2>5. CASE Store(p, "rstore", "read")
    BY <1>0, <2>5, StoreInv
  <2>9. CASE Store(p, "rlast", "rdone")
    BY <1>0, <2>9, StoreInv
  <2>6. CASE Trap(p, "rstore", "rprint") \/ Trap(p, "rlast", "lprint")
    BY <1>0, <2>6, PrintBeginInv, PrintEndInv DEF Trap
  <2>7. CASE ReadDone(p)
    BY <2>7, DoneInv DEF Unlocked
  <2> QED BY <1>1, <2>1, <2>2, <2>3, <2>4, <2>5, <2>6, <2>7, <2>8, <2>9
             DEF consoleread
<1>2. ASSUME consolewrite(p) PROVE Inv' /\ (panicked' => Unlocked) /\ UNCHANGED input
  <2>1. CASE Call(p, "wlock")
    BY <1>0, <2>1, CallInv
  <2>2. CASE Lock(p, "wlock", "write")
    BY <1>0, <2>2, LockInv
  <2>3. CASE WriteChar(p)
    BY <1>0, <2>3, WriteCharInv
  <2>4. CASE Trap(p, "write", "wprint")
    BY <1>0, <2>4, PrintBeginInv, PrintEndInv DEF Trap
  <2>5. CASE WriteDone(p)
    BY <2>5, DoneInv DEF Unlocked
  <2> QED BY <1>2, <2>1, <2>2, <2>3, <2>4, <2>5 DEF consolewrite
<1>3. CASE cprintf(p)
  BY <1>0, <1>3, PrintBeginInv, PrintEndInv DEF cprintf
<1>4. CASE kill(p)
  BY <1>0, <1>4, KillInv
<1> QED BY <1>1, <1>2, <1>3, <1>4

(* Every step keeps the invariant, and panics only when a process had lost *)
(* the lock.                                                               *)
LEMMA StepInv ==
    ASSUME Inv, [Next]_vars
    PROVE  Inv' /\ (panicked' # panicked => Unlocked)
<1>1. CASE consoleintr
  BY <1>1, KbdLockInv, KeyInv, EndIntrInv DEF consoleintr
<1>2. CASE \E p \in Procs : consoleread(p) \/ consolewrite(p) \/ cprintf(p) \/ kill(p)
  <2>1. Inv' /\ (panicked' => Unlocked)
    BY <1>2, ProcInv
  <2>2. panicked \in BOOLEAN /\ panicked' \in BOOLEAN
    BY <2>1 DEF Inv, TypeOK
  <2> QED BY <2>1, <2>2 DEF Unlocked
<1>3. CASE UNCHANGED vars
  BY <1>3 DEF vars, input, calls, Inv, TypeOK, Within, Held, Readers
<1> QED BY <1>1, <1>2, <1>3 DEF Next

(* The inductive invariant holds in every reachable state.                 *)
LEMMA Invariance == Spec => []Inv
<1> QED BY InitInv, StepInv, PTL DEF Spec

(* For any number of processes and any size of the buffer, a reader sleeps *)
(* only while there is no finished line (console.c 226-229 against         *)
(* 250-256), as long as no page fault has dropped cons.lock.               *)
THEOREM Wakeups == Spec => []NoLostWakeup
<1>1. Inv => NoLostWakeup
  BY DEF Inv, NoLostWakeup, ReadersWait, Readers, Unlocked
<1> QED BY <1>1, Invariance, PTL

(* The machine panics in the console only after a page fault on a user     *)
(* buffer has dropped cons.lock: keyboard interrupts, kernel messages,     *)
(* kills and sleeping readers never unbalance it (console.c 61-64,         *)
(* 107-108, 201-237, 248-273, 284-287).                                    *)
THEOREM Panics == Spec => PanicsUnlocked
<1>1. Inv /\ [Next]_vars => [panicked' => Unlocked]_vars
  <2> SUFFICES ASSUME Inv, [Next]_vars, panicked' PROVE Unlocked
    BY DEF Unlocked
  <2>1. CASE panicked
    BY <2>1 DEF Unlocked
  <2>2. CASE ~panicked
    BY <2>2, StepInv
  <2> QED BY <2>1, <2>2
<1> QED BY <1>1, Invariance, PTL DEF Spec, PanicsUnlocked
-----------------------------------------------------------------------------
(* The m characters of the buffer b from index f.                          *)
Line(b, f, m) == [k \in 1 .. m |-> b[Cell(Plus(f, k - 1))]]

(* Subtraction of indices, with its wrap spelled out.                      *)
LEMMA MinusIs ==
    ASSUME NEW a \in 0 .. UINT - 1, NEW b \in 0 .. UINT - 1
    PROVE  Minus(a, b) = IF a < b THEN a - b + UINT ELSE a - b
<1>1. UINT \in Nat \ {0}
  BY SizeAssumption
<1> QED BY <1>1, SubWrap, Zenon DEF Minus

(* Addition to an index, with its wrap spelled out.                        *)
LEMMA PlusIs ==
    ASSUME NEW a \in 0 .. UINT - 1, NEW k \in 0 .. UINT
    PROVE  Plus(a, k) = IF a + k < UINT THEN a + k ELSE a + k - UINT
<1>1. UINT \in Nat \ {0}
  BY SizeAssumption
<1> QED BY <1>1, AddWrap, Zenon DEF Plus

(* Different indices have a positive distance.                             *)
LEMMA MinusPositive ==
    ASSUME NEW a \in 0 .. UINT - 1, NEW b \in 0 .. UINT - 1, a # b
    PROVE  Minus(a, b) > 0
<1>1. Minus(a, b) = IF a < b THEN a - b + UINT ELSE a - b
  BY MinusIs
<1> QED BY <1>1, SizeAssumption

(* One more typed character is one more between the indices.               *)
LEMMA MinusPlus ==
    ASSUME NEW a \in 0 .. UINT - 1, NEW b \in 0 .. UINT - 1, Minus(a, b) + 1 < UINT
    PROVE  Minus(Plus(a, 1), b) = Minus(a, b) + 1
<1>1. UINT \in Nat \ {0} /\ 1 \in 0 .. UINT
  BY SizeAssumption
<1>2. Minus(a, b) = IF a < b THEN a - b + UINT ELSE a - b
  BY MinusIs
<1>3. Plus(a, 1) = IF a + 1 < UINT THEN a + 1 ELSE a + 1 - UINT
  BY <1>1, PlusIs
<1>4. PICK c \in 0 .. UINT - 1 : c = Plus(a, 1)
  BY <1>1, <1>3
<1>5. Minus(c, b) = IF c < b THEN c - b + UINT ELSE c - b
  BY MinusIs
<1> QED BY <1>1, <1>2, <1>3, <1>4, <1>5

(* One character taken is one less between the indices.                    *)
LEMMA PlusMinus ==
    ASSUME NEW a \in 0 .. UINT - 1, NEW b \in 0 .. UINT - 1, Minus(a, b) > 0
    PROVE  Minus(a, Plus(b, 1)) = Minus(a, b) - 1
<1>1. UINT \in Nat \ {0} /\ 1 \in 0 .. UINT
  BY SizeAssumption
<1>2. Minus(a, b) = IF a < b THEN a - b + UINT ELSE a - b
  BY MinusIs
<1>3. Plus(b, 1) = IF b + 1 < UINT THEN b + 1 ELSE b + 1 - UINT
  BY <1>1, PlusIs
<1>4. PICK c \in 0 .. UINT - 1 : c = Plus(b, 1)
  BY <1>1, <1>3
<1>5. Minus(a, c) = IF a < c THEN a - c + UINT ELSE a - c
  BY MinusIs
<1> QED BY <1>1, <1>2, <1>3, <1>4, <1>5

(* Distances add up: the edited line is what is typed without what is      *)
(* finished.                                                               *)
LEMMA MinusSplit ==
    ASSUME NEW a \in 0 .. UINT - 1, NEW b \in 0 .. UINT - 1, NEW c \in 0 .. UINT - 1,
           Minus(b, c) <= Minus(a, c)
    PROVE  Minus(a, b) = Minus(a, c) - Minus(b, c)
<1>1. UINT \in Nat \ {0}
  BY SizeAssumption
<1>2. Minus(a, b) = IF a < b THEN a - b + UINT ELSE a - b
  BY MinusIs
<1>3. Minus(a, c) = IF a < c THEN a - c + UINT ELSE a - c
  BY MinusIs
<1>4. Minus(b, c) = IF b < c THEN b - c + UINT ELSE b - c
  BY MinusIs
<1> QED BY <1>1, <1>2, <1>3, <1>4

(* Erasing k characters makes the distance k smaller.                      *)
LEMMA MinusBack ==
    ASSUME NEW a \in 0 .. UINT - 1, NEW b \in 0 .. UINT - 1, NEW k \in 0 .. Minus(a, b)
    PROVE  Minus(Minus(a, k), b) = Minus(a, b) - k
<1>1. UINT \in Nat \ {0}
  BY SizeAssumption
<1>2. Minus(a, b) = IF a < b THEN a - b + UINT ELSE a - b
  BY MinusIs
<1>3. k \in 0 .. UINT - 1
  BY <1>1, <1>2
<1>4. Minus(a, k) = IF a < k THEN a - k + UINT ELSE a - k
  BY <1>3, MinusIs
<1>5. PICK c \in 0 .. UINT - 1 : c = Minus(a, k)
  BY <1>1, <1>3, <1>4
<1>6. Minus(c, b) = IF c < b THEN c - b + UINT ELSE c - b
  BY MinusIs
<1> QED BY <1>1, <1>2, <1>3, <1>4, <1>5, <1>6

(* An index is its distance away.                                          *)
LEMMA PlusBack ==
    ASSUME NEW a \in 0 .. UINT - 1, NEW b \in 0 .. UINT - 1
    PROVE  Plus(b, Minus(a, b)) = a
<1>1. UINT \in Nat \ {0}
  BY SizeAssumption
<1>2. Minus(a, b) = IF a < b THEN a - b + UINT ELSE a - b
  BY MinusIs
<1>3. PICK k \in 0 .. UINT : k = Minus(a, b)
  BY <1>1, <1>2
<1>4. Plus(b, k) = IF b + k < UINT THEN b + k ELSE b + k - UINT
  BY PlusIs
<1> QED BY <1>1, <1>2, <1>3, <1>4

(* One step and k - 1 more are k steps, also across the wrap.              *)
LEMMA PlusPlus ==
    ASSUME NEW a \in 0 .. UINT - 1, NEW k \in 1 .. UINT
    PROVE  Plus(Plus(a, 1), k - 1) = Plus(a, k)
<1>1. UINT \in Nat \ {0} /\ 1 \in 0 .. UINT /\ k - 1 \in 0 .. UINT /\ k \in 0 .. UINT
  BY SizeAssumption
<1>2. Plus(a, 1) = IF a + 1 < UINT THEN a + 1 ELSE a + 1 - UINT
  BY <1>1, PlusIs
<1>3. PICK c \in 0 .. UINT - 1 : c = Plus(a, 1)
  BY <1>1, <1>2
<1>4. Plus(c, k - 1) = IF c + (k - 1) < UINT THEN c + (k - 1) ELSE c + (k - 1) - UINT
  BY <1>1, PlusIs
<1>5. Plus(a, k) = IF a + k < UINT THEN a + k ELSE a + k - UINT
  BY <1>1, PlusIs
<1> QED BY <1>1, <1>2, <1>3, <1>4, <1>5

(* Two places less than INPUT_BUF apart are different cells, also when the *)
(* uint index wraps between them: INPUT_BUF divides 2^32.                  *)
LEMMA CellsDiffer ==
    ASSUME NEW a \in 0 .. UINT - 1, NEW j \in Nat, NEW k \in Nat, j < k, k < INPUT_BUF
    PROVE  Cell(Plus(a, j)) # Cell(Plus(a, k))
<1>1. /\ UINT \in Nat \ {0} /\ INPUT_BUF \in Nat \ {0} /\ UINT % INPUT_BUF = 0
      /\ a + j \in Int /\ a + k \in Int
  BY SizeAssumption
<1>2. Cell(Plus(a, j)) = (a + j) % INPUT_BUF
  BY <1>1, ModMod, Zenon DEF Cell, Plus
<1>3. Cell(Plus(a, k)) = (a + k) % INPUT_BUF
  BY <1>1, ModMod, Zenon DEF Cell, Plus
<1>4. PICK x \in Int : /\ (a + j) % INPUT_BUF \in 0 .. INPUT_BUF - 1
                       /\ a + j = x * INPUT_BUF + ((a + j) % INPUT_BUF)
  BY <1>1, ModDiv, Zenon
<1>5. PICK y \in Int : /\ (a + k) % INPUT_BUF \in 0 .. INPUT_BUF - 1
                       /\ a + k = y * INPUT_BUF + ((a + k) % INPUT_BUF)
  BY <1>1, ModDiv, Zenon
<1>6. SUFFICES ASSUME (a + j) % INPUT_BUF = (a + k) % INPUT_BUF PROVE FALSE
  BY <1>2, <1>3
<1> DEFINE v == (a + j) % INPUT_BUF
<1>7. v \in Int /\ a + j = x * INPUT_BUF + v /\ a + k = y * INPUT_BUF + v
  BY <1>4, <1>5, <1>6
<1> HIDE DEF v
<1>8. (y - x) * INPUT_BUF = k - j
  BY <1>1, <1>7
<1>9. CASE y > x
  <2>1. (y - x) * INPUT_BUF >= INPUT_BUF
    BY <1>1, <1>9
  <2> QED BY <1>1, <1>8, <2>1
<1>10. CASE y <= x
  <2>1. (x - y) * INPUT_BUF >= 0
    BY <1>1, <1>10
  <2>2. (x - y) * INPUT_BUF = j - k
    BY <1>1, <1>7
  <2> QED BY <1>1, <2>1, <2>2
<1> QED BY <1>9, <1>10

(* At first nothing is typed.                                              *)
LEMMA RingInit == Init => Ring
<1> SUFFICES ASSUME Init PROVE Ring
  OBVIOUS
<1>1. UINT \in Nat \ {0} /\ r = 0 /\ w = 0 /\ e = 0 /\ 0 \in 0 .. UINT - 1
  BY SizeAssumption DEF Init
<1>2. Minus(0, 0) = 0
  BY <1>1, MinusIs
<1> QED BY <1>1, <1>2, SizeAssumption DEF Ring

(* What the line discipline may do to the input in one step.               *)
Delivers ==
    LET old == Committed new == Committed'
    IN  \/ Len(old) > 0 /\ new = Tail(old)
        \/ Len(new) >= Len(old) /\ SubSeq(new, 1, Len(old)) = old

(* The ranges of the indices and of their distances.                       *)
LEMMA Sizes ==
    ASSUME TypeOK
    PROVE  /\ UINT \in Nat \ {0} /\ INPUT_BUF \in Nat \ {0} /\ INPUT_BUF < UINT
           /\ r \in 0 .. UINT - 1 /\ w \in 0 .. UINT - 1 /\ e \in 0 .. UINT - 1
           /\ Minus(w, r) \in 0 .. UINT - 1 /\ Minus(e, r) \in 0 .. UINT - 1
           /\ Minus(e, w) \in 0 .. UINT - 1
           /\ buf \in [0 .. INPUT_BUF - 1 -> Chars]
<1>1. /\ UINT \in Nat \ {0} /\ INPUT_BUF \in Nat \ {0} /\ INPUT_BUF < UINT
      /\ r \in 0 .. UINT - 1 /\ w \in 0 .. UINT - 1 /\ e \in 0 .. UINT - 1
  BY SizeAssumption DEF TypeOK
<1>2. r \in Int /\ w \in Int /\ e \in Int
  BY <1>1
<1>3. /\ Minus(w, r) \in 0 .. UINT - 1 /\ Minus(e, r) \in 0 .. UINT - 1
      /\ Minus(e, w) \in 0 .. UINT - 1
  BY <1>2, IndexType
<1> QED BY <1>1, <1>3 DEF TypeOK

(* A stretch of the buffer is a sequence of its length.                    *)
LEMMA LineSeq ==
    ASSUME NEW b \in [0 .. INPUT_BUF - 1 -> Chars], NEW f \in 0 .. UINT - 1, NEW m \in Nat
    PROVE  Line(b, f, m) \in Seq(Chars) /\ Len(Line(b, f, m)) = m
<1>1. ASSUME NEW k \in 1 .. m PROVE b[Cell(Plus(f, k - 1))] \in Chars
  <2>1. Plus(f, k - 1) \in Int
    BY IndexType, SizeAssumption
  <2> QED BY <2>1, CellType
<1>2. Line(b, f, m) \in [1 .. m -> Chars]
  BY <1>1 DEF Line
<1> QED BY <1>2, LenProperties, SeqDef

(* The finished input is the stretch from r to w.                          *)
LEMMA CommittedIs ==
    ASSUME TypeOK
    PROVE  /\ Committed = Line(buf, r, Minus(w, r))
           /\ Committed \in Seq(Chars) /\ Len(Committed) = Minus(w, r)
<1>1. Committed = Line(buf, r, Minus(w, r))
  BY DEF Committed, Between, Line
<1> QED BY <1>1, Sizes, LineSeq

(* A line that is unchanged, or has grown at its end, is delivered.        *)
LEMMA Grown ==
    ASSUME TypeOK, TypeOK', r' = r, Minus(w, r) <= Minus(w', r'),
           \A k \in 1 .. Minus(w, r) : buf'[Cell(Plus(r, k - 1))] = buf[Cell(Plus(r, k - 1))]
    PROVE  Delivers
<1>1. PICK old \in Seq(Chars) : /\ old = Committed /\ Len(old) = Minus(w, r)
                                /\ old = Line(buf, r, Minus(w, r))
  BY CommittedIs
<1>2. PICK new \in Seq(Chars) : /\ new = Committed' /\ Len(new) = Minus(w', r')
                                /\ new = Line(buf', r', Minus(w', r'))
  <2>1. Committed' = Line(buf', r', Minus(w', r'))
    BY DEF Committed, Between, Line
  <2>2. buf' \in [0 .. INPUT_BUF - 1 -> Chars] /\ r' \in 0 .. UINT - 1 /\ w' \in 0 .. UINT - 1
    BY DEF TypeOK
  <2>3. Minus(w', r') \in 0 .. UINT - 1
    BY <2>2, IndexType, SizeAssumption
  <2>4. Minus(w', r') \in Nat
    BY <2>3, SizeAssumption
  <2> QED BY <2>1, <2>2, <2>4, LineSeq
<1>3. PICK a \in Nat, b \in Nat : a = Minus(w, r) /\ b = Minus(w', r') /\ a <= b
  BY <1>1, <1>2, LenProperties
<1>4. \A k \in 1 .. a : new[k] = old[k]
  BY <1>1, <1>2, <1>3 DEF Line
<1>5. SubSeq(new, 1, Len(old)) = old
  BY <1>1, <1>2, <1>3, <1>4
<1> QED BY <1>1, <1>2, <1>3, <1>5 DEF Delivers

(* A typed character goes to a cell outside the finished input, because it *)
(* is stored only if there is room (console.c 222-229).                    *)
LEMMA TypeDelivers ==
    ASSUME TypeOK, TypeOK', Ring, NEW c \in Chars, Type(c)
    PROVE  Ring' /\ Delivers
<1>1. PICK a \in Nat, b \in Nat : /\ a = Minus(w, r) /\ b = Minus(e, r)
                                  /\ a <= b /\ b < INPUT_BUF /\ b + 1 < UINT
  BY Sizes DEF Ring, Type, HasRoom
<1>2. e' = Plus(e, 1) /\ r' = r /\ buf' = [buf EXCEPT ![Cell(e)] = c] /\ w' \in {w, e'}
  BY DEF Type
<1>3. Minus(e', r') = b + 1
  BY <1>1, <1>2, Sizes, MinusPlus
<1>4. Minus(w', r') \in {a, b + 1}
  BY <1>1, <1>2, <1>3
<1>5. Ring'
  <2>1. Minus(w', r') <= Minus(e', r') /\ Minus(e', r') <= INPUT_BUF
    BY <1>1, <1>3, <1>4, Sizes
  <2> QED BY <2>1 DEF Ring
<1>6. e = Plus(r, b)
  BY <1>1, Sizes, PlusBack
<1>7. ASSUME NEW k \in 1 .. a
      PROVE  buf'[Cell(Plus(r, k - 1))] = buf[Cell(Plus(r, k - 1))]
  <2>1. k - 1 \in Nat /\ k - 1 < b /\ r \in 0 .. UINT - 1
    BY <1>1, Sizes
  <2>2. Cell(Plus(r, k - 1)) # Cell(e)
    BY <1>1, <1>6, <2>1, CellsDiffer
  <2> QED BY <1>2, <2>2, Sizes
<1>8. Minus(w, r) <= Minus(w', r')
  BY <1>1, <1>4
<1>9. Delivers
  BY <1>1, <1>2, <1>7, <1>8, Grown
<1> QED BY <1>5, <1>9

(* Editing stops at input.w and leaves the finished input alone (console.c *)
(* 208-220).                                                               *)
LEMMA EraseDelivers ==
    ASSUME TypeOK, TypeOK', Ring, NEW k \in 0 .. Minus(e, w), Erase(k)
    PROVE  Ring' /\ Delivers
<1>1. PICK a \in Nat, b \in Nat : a = Minus(w, r) /\ b = Minus(e, r) /\ a <= b /\ b <= INPUT_BUF
  BY Sizes DEF Ring
<1>2. e' = Minus(e, k) /\ UNCHANGED <<buf, r, w>>
  BY DEF Erase
<1>3. Minus(e, w) = b - a
  BY <1>1, Sizes, MinusSplit
<1>4. k \in 0 .. Minus(e, r) /\ k <= b - a
  BY <1>1, <1>3
<1>5. Minus(e', r') = b - k
  BY <1>1, <1>2, <1>4, Sizes, MinusBack
<1>6. Ring'
  <2>1. Minus(w', r') <= Minus(e', r') /\ Minus(e', r') <= INPUT_BUF
    BY <1>1, <1>2, <1>4, <1>5, Sizes
  <2> QED BY <2>1 DEF Ring
<1>7. Delivers
  BY <1>1, <1>2, Grown
<1> QED BY <1>6, <1>7

(* A step that leaves the input alone delivers nothing and loses nothing.  *)
LEMMA SameDelivers ==
    ASSUME TypeOK, TypeOK', Ring, UNCHANGED input
    PROVE  Ring' /\ Delivers
<1>1. UNCHANGED <<buf, r, w, e>>
  BY DEF input
<1>2. Ring'
  BY <1>1 DEF Ring
<1>3. Minus(w, r) <= Minus(w', r')
  BY <1>1, Sizes
<1>4. Delivers
  BY <1>1, <1>3, Grown
<1> QED BY <1>2, <1>4

(* A reader takes the first character of the finished input, or puts ^D    *)
(* back (console.c 258-266).                                               *)
LEMMA ReadDelivers ==
    ASSUME TypeOK, TypeOK', Ring, NEW p \in Procs, ReadChar(p)
    PROVE  Ring' /\ Delivers
<1>1. r # w /\ UNCHANGED <<buf, w, e>> /\ r' \in {r, Plus(r, 1)}
  BY DEF ReadChar
<1>2. CASE r' = r
  BY <1>1, <1>2, SameDelivers DEF input
<1>3. CASE r' = Plus(r, 1)
  <2>1. Minus(w, r) > 0
    BY <1>1, Sizes, MinusPositive
  <2>2. PICK a \in Nat \ {0}, b \in Nat : /\ a = Minus(w, r) /\ b = Minus(e, r) /\ a <= b
                                          /\ b <= INPUT_BUF /\ a < UINT
    BY <2>1, Sizes DEF Ring
  <2>3. Minus(w', r') = a - 1 /\ Minus(e', r') = b - 1
    BY <1>1, <1>3, <2>2, Sizes, PlusMinus
  <2>4. Ring'
    <3>1. Minus(w', r') <= Minus(e', r') /\ Minus(e', r') <= INPUT_BUF
      BY <2>2, <2>3, Sizes
    <3> QED BY <3>1 DEF Ring
  <2>5. PICK old \in Seq(Chars) : /\ old = Committed /\ Len(old) = a
                                  /\ old = Line(buf, r, a)
    BY <2>2, CommittedIs
  <2>6. Committed' = Line(buf, r', a - 1)
    BY <1>1, <2>3 DEF Committed, Between, Line
  <2>7. ASSUME NEW k \in 1 .. a - 1 PROVE Line(buf, r', a - 1)[k] = old[k + 1]
    <3>1. k \in 1 .. UINT /\ r \in 0 .. UINT - 1
      BY <2>2, Sizes
    <3>2. Plus(r', k - 1) = Plus(r, k)
      BY <1>3, <3>1, PlusPlus
    <3>3. k + 1 \in 1 .. a /\ (k + 1) - 1 = k
      BY <2>2
    <3>4. old[k + 1] = buf[Cell(Plus(r, (k + 1) - 1))]
      BY <2>5, <3>3 DEF Line
    <3> QED BY <3>2, <3>3, <3>4 DEF Line
  <2>8. Line(buf, r', a - 1) = Tail(old)
    <3>1. r' \in 0 .. UINT - 1 /\ a - 1 \in Nat /\ buf \in [0 .. INPUT_BUF - 1 -> Chars]
      BY <2>2 DEF TypeOK
    <3>2. PICK new \in Seq(Chars) : new = Line(buf, r', a - 1) /\ Len(new) = a - 1
      BY <3>1, LineSeq
    <3>3. Tail(old) \in Seq(Chars) /\ Len(Tail(old)) = a - 1
      BY <2>2, <2>5
    <3>4. \A k \in 1 .. a - 1 : Tail(old)[k] = old[k + 1]
      BY <2>2, <2>5
    <3>5. \A k \in 1 .. Len(new) : new[k] = Tail(old)[k]
      BY <2>7, <3>2, <3>4
    <3>6. new = Tail(old)
      BY <3>2, <3>3, <3>5, SeqEqual
    <3> QED BY <3>2, <3>6
  <2>9. Delivers
    BY <2>2, <2>5, <2>6, <2>8 DEF Delivers
  <2> QED BY <2>4, <2>9
<1> QED BY <1>1, <1>2, <1>3

(* Every step keeps the indices in order and delivers the input in order;  *)
(* only readers move input.r.                                              *)
LEMMA InputStep ==
    ASSUME Inv, Ring, [Next]_vars
    PROVE  /\ Ring' /\ Delivers
           /\ r' = r \/ \E p \in Procs : ReadChar(p)
<1>1. TypeOK /\ TypeOK'
  BY StepInv DEF Inv
<1>2. CASE UNCHANGED input
  BY <1>1, <1>2, SameDelivers DEF input
<1>3. ASSUME NEW p \in Procs, ReadChar(p) PROVE Ring' /\ Delivers
  BY <1>1, <1>3, ReadDelivers
<1>4. ASSUME NEW c \in Keys, Key(c) PROVE Ring' /\ Delivers /\ r' = r
  <2>1. CASE UNCHANGED input
    BY <1>2, <2>1 DEF input
  <2>2. CASE Erase(KillLine)
    BY <1>1, <2>2, KillLineType, EraseDelivers DEF Erase
  <2>3. CASE e # w /\ Erase(1)
    <3>1. Minus(e, w) > 0
      BY <1>1, <2>3, Sizes, MinusPositive
    <3>2. 1 \in 0 .. Minus(e, w)
      BY <1>1, <3>1, Sizes
    <3> QED BY <1>1, <2>3, <3>2, EraseDelivers DEF Erase
  <2>4. CASE /\ c \in Chars \cup {"return"}
             /\ Type(IF c = "return" THEN "newline" ELSE c)
    <3>1. (IF c = "return" THEN "newline" ELSE c) \in Chars
      BY <2>4 DEF Chars
    <3> QED BY <1>1, <2>4, <3>1, TypeDelivers DEF Type
  <2> QED BY <1>4, <2>1, <2>2, <2>3, <2>4 DEF Key
<1>5. \/ UNCHANGED input
      \/ \E p \in Procs : ReadChar(p)
      \/ \E c \in Keys : Key(c)
  BY ProcInv, KbdLockInv, EndIntrInv DEF Next, consoleintr, vars, input
<1> QED BY <1>2, <1>3, <1>4, <1>5 DEF input

(* The indices are in order, and the input fits the buffer, in every       *)
(* reachable state.                                                        *)
LEMMA RingHolds == Spec => []Ring
<1> QED BY Invariance, RingInit, InputStep, PTL DEF Spec

(* A reader that takes ^D has read nothing (console.c 259-265).            *)
LEMMA EofStep ==
    ASSUME Inv, Ring, [Next]_vars, NEW p \in Procs, pc[p] = "read", pc'[p] = "rdone", r' # r
    PROVE  n[p] = target[p]
<1>1. PICK q \in Procs : ReadChar(q)
  BY InputStep
<1>2. TypeOK /\ Within /\ p \in Actors /\ q \in Actors
  BY DEF Inv, Actors
<1>3. PICK s \in PcStates : /\ pc' = [pc EXCEPT ![q] = s]
                            /\ s = "rdone" => buf[Cell(r)] = "ctrl_D"
  BY <1>1 DEF ReadChar, Go, PcStates
<1>4. q = p /\ s = "rdone"
  BY <1>2, <1>3 DEF TypeOK
<1>5. ~(n[p] < target[p])
  BY <1>1, <1>3, <1>4 DEF ReadChar
<1> QED BY <1>2, <1>5 DEF Within, TypeOK

(* For any size of the buffer and any modulus of the indices that it       *)
(* divides, finished input is only taken from its front and extended at    *)
(* its end, and ^D is taken only by a read that returns nothing (console.c *)
(* 202-231, 249-271).                                                      *)
THEOREM Lines == Spec => LinesDelivered
<1>1. Inv /\ Ring /\ [Next]_vars =>
         [~Unlocked =>
            LET old == Committed new == Committed'
            IN  \/ Len(old) > 0 /\ new = Tail(old)
                \/ Len(new) \geq Len(old) /\ SubSeq(new, 1, Len(old)) = old]_vars
  BY InputStep DEF Delivers
<1>2. Inv /\ Ring /\ [Next]_vars =>
         [\A p \in Procs :
             pc[p] = "read" /\ pc'[p] = "rdone" /\ r' # r => n[p] = target[p]]_vars
  BY EofStep
<1>3. Spec => InOrder
  BY <1>1, Invariance, RingHolds, PTL DEF Spec, InOrder
<1>4. Spec => EofReported
  BY <1>2, Invariance, RingHolds, PTL DEF Spec, EofReported
<1> QED BY <1>3, <1>4 DEF LinesDelivered
=============================================================================
