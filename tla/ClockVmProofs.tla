--------------------------- MODULE ClockVmProofs ---------------------------
(***************************************************************************)
(* What ClockVm guarantees for every size of the clock queue, every number *)
(* of pages and every program, and what getpgtable reports of it.          *)
(***************************************************************************)
EXTENDS WorkingSet, FiniteSetTheorems, SequenceTheorems, WellFoundedInduction, TLAPS

Access == [op : UserOps \cup KernelOps, page : Pages, byte : Byte]

(* The remainder by CLOCKSIZE is a slot of proc->nodes.                    *)
LEMMA ModSlot == ASSUME NEW x \in Nat PROVE x % CLOCKSIZE \in Slots
  BY ClockAssumption DEF Slots

(* Flip is XOR 0xFF on bytes and undoes itself.                            *)
LEMMA FlipByte ==
    ASSUME NEW b \in Byte
    PROVE  Flip(b) \in Byte /\ Flip(Flip(b)) = b
  BY ByteAssumption DEF Byte, Flip

(* mencrypt keeps entries and frames well typed.                           *)
LEMMA EncType ==
    ASSUME NEW t \in [Pages -> SUBSET Flags], NEW m \in [Pages -> Byte], NEW S
    PROVE  /\ EncPte(t, S) \in [Pages -> SUBSET Flags]
           /\ EncMem(t, m, S) \in [Pages -> Byte]
<1>1. EncPte(t, S) \in [Pages -> SUBSET Flags]
  BY DEF EncPte, Flags
<1>2. EncMem(t, m, S) \in [Pages -> Byte]
  BY FlipByte DEF EncMem
<1> QED BY <1>1, <1>2

(* A program image is well typed and fits the address space.               *)
LEMMA ImageType ==
    ASSUME NEW t \in TextPages, NEW b \in Bytes, NEW s, NEW e, NEW m, NEW g,
           Image(t, b, s, e, m, g)
    PROVE  /\ s \in 0 .. MaxPages * PGSIZE
           /\ e \in [Pages -> SUBSET Flags]
           /\ m \in [Pages -> Byte]
           /\ g \in [Pages -> Byte]
<1>1. t \in Nat /\ t + 2 \leq MaxPages
  BY ProgramAssumption
<1>2. s \in 0 .. MaxPages * PGSIZE
  <2>1. (t + 2) * PGSIZE \leq MaxPages * PGSIZE
    BY <1>1, PageAssumption
  <2> QED BY <1>1, <2>1, PageAssumption DEF Image, ImageSize
<1>3. ImagePte(t) \in [Pages -> SUBSET Flags]
  BY DEF ImagePte, Flags
<1>4. ImageMem(t, b) \in [Pages -> Byte]
  BY ByteAssumption DEF ImageMem, Byte
<1> QED BY <1>2, <1>3, <1>4, EncType DEF Image

(* The entries growproc keeps when it shrinks are some of the old ones.    *)
LEMMA KeptBound ==
    ASSUME inClock \in 0 .. CLOCKSIZE, NEW a
    PROVE  /\ Cardinality(Kept(a)) \in 0 .. inClock
           /\ Gone(a) # {} => Cardinality(Gone(a)) \in 0 .. inClock - 1
<1>1. inClock \in Nat
  BY ClockAssumption
<1>2. Kept(a) \in SUBSET (0 .. inClock - 1)
  BY DEF Kept
<1>3. IsFiniteSet(0 .. inClock - 1) /\ Cardinality(0 .. inClock - 1) = inClock
  BY <1>1, FS_Interval, 0 \in Int, inClock - 1 \in Int
<1>4. Cardinality(Kept(a)) \in 0 .. inClock
  BY <1>1, <1>2, <1>3, FS_Subset, FS_CardinalityType
<1>5. ASSUME Gone(a) # {} PROVE Cardinality(Gone(a)) \in 0 .. inClock - 1
  <2>1. Gone(a) \in SUBSET (0 .. inClock - 2) /\ inClock - 2 \geq 0
    BY <1>1, <1>5 DEF Gone
  <2>2. IsFiniteSet(0 .. inClock - 2) /\ Cardinality(0 .. inClock - 2) = inClock - 1
    BY <1>1, <2>1, FS_Interval, 0 \in Int, inClock - 2 \in Int
  <2> QED BY <1>1, <2>1, <2>2, FS_Subset, FS_CardinalityType
<1> QED BY <1>4, <1>5

(* Every step keeps the state well typed.                                  *)
LEMMA TypeStep == TypeOK /\ [Next]_vars => TypeOK'
<1> SUFFICES ASSUME TypeOK, [Next]_vars PROVE TypeOK'
  OBVIOUS
<1> USE DEF TypeOK
<1>0. acc # Idle => acc \in Access
  BY DEF Access
<1>1. ASSUME NEW op \in Ops \cap (UserOps \cup KernelOps), NEW v \in Pages,
             NEW b \in Bytes, Issue(op, v, b)
      PROVE  TypeOK'
  <2>1. acc' \in Access
    BY <1>1, ByteAssumption DEF Issue, Access, Byte
  <2> QED BY <1>1, <2>1 DEF Issue, Access
<1>2. CASE Complete
  <2>1. acc \in Access /\ pte' = Touch(pte, acc.page)
    BY <1>0, <1>2 DEF Complete
  <2>2. pte' \in [Pages -> SUBSET Flags]
    BY <2>1 DEF Touch, Flags
  <2>3. mem' \in [Pages -> Byte] /\ prog' \in [Pages -> Byte]
    BY <1>2, <2>1 DEF Complete, Load, Store, Dump, Access
  <2> QED BY <1>2, <2>2, <2>3 DEF Complete
<1>3. ASSUME Faulting
      PROVE  /\ acc \in Access
             /\ acc.page \in Pages
             /\ DecPte(acc.page) \in [Pages -> SUBSET Flags]
             /\ DecMem(acc.page) \in [Pages -> Byte]
  <2>1. acc \in Access /\ acc.page \in Pages
    BY <1>0, <1>3 DEF Faulting, Access
  <2> QED BY <2>1, FlipByte DEF DecPte, DecMem, Flags
<1>4. CASE FaultRefused
  BY <1>4 DEF FaultRefused, FaultStatus
<1>5. CASE FaultZeroByte
  <2>1. pte' \in [Pages -> SUBSET Flags]
    BY <1>5, <1>3 DEF FaultZeroByte, Flags
  <2> QED BY <1>5, <2>1 DEF FaultZeroByte, FaultStatus
<1>6. CASE FaultFirst
  BY <1>6, <1>3, ClockAssumption, BoundAssumption DEF FaultFirst, Decrypting, Slots
<1>7. CASE FaultAppend
  BY <1>7, <1>3, ClockAssumption, BoundAssumption DEF FaultAppend, Decrypting, Slots
<1>8. CASE FaultOverrun
  BY <1>8 DEF FaultOverrun
<1>9. CASE FaultEvict
  <2>1. PICK k \in 0 .. CLOCKSIZE : Evict(k)
    BY <1>9 DEF FaultEvict
  <2> DEFINE c == ClearA(DecPte(acc.page), {nodes[Pos(j)] : j \in 0 .. k - 1})
  <2>2. c \in [Pages -> SUBSET Flags]
    BY <1>9, <1>3 DEF FaultEvict, Decrypting, ClearA
  <2>3. pte' \in [Pages -> SUBSET Flags] /\ mem' \in [Pages -> Byte]
    BY <1>9, <1>3, <2>1, <2>2, EncType DEF FaultEvict, Decrypting, Evict
  <2>4. Pos(k) \in Slots
    BY ModSlot, ClockAssumption, BoundAssumption DEF Pos
  <2>5. nodes' \in [Slots -> Pages \cup {NoPage}]
    BY <1>9, <1>3, <2>1 DEF FaultEvict, Decrypting, Evict
  <2>6. currInd' \in Slots
    <3>1. Pos(k) + 1 \in Nat
      BY <2>4, ClockAssumption DEF Slots
    <3> QED BY <2>1, <3>1, ModSlot DEF Evict
  <2>7. currInd' \in 0 .. MaxInd
    BY <2>6, ClockAssumption, BoundAssumption DEF Slots
  <2> QED BY <1>9, <2>3, <2>5, <2>7 DEF FaultEvict
<1>10. ASSUME NEW v \in Pages, NEW len \in 1 .. MaxLen, sys_mencrypt(v, len)
       PROVE  TypeOK'
  BY <1>10, EncType DEF sys_mencrypt
<1>11. ASSUME NEW n \in SbrkArgs, n > 0, Grow(n), UNCHANGED <<acc, status>>
       PROVE  TypeOK'
  <2>1. n \in Int /\ sz + n \leq MaxPages * PGSIZE /\ sz' = sz + n
    BY <1>11, ProgramAssumption DEF Grow
  <2>2. sz' \in 0 .. MaxPages * PGSIZE
    BY <1>11, <2>1, PageAssumption
  <2> DEFINE N == PgUp(sz) .. PgUp(sz + n) - 1
             t == [p \in Pages |-> IF p \in N THEN {"P", "U"} ELSE pte[p]]
             m == [p \in Pages |-> IF p \in N THEN 0 ELSE mem[p]]
  <2>3. t \in [Pages -> SUBSET Flags]
    BY DEF Flags
  <2>4. 0 \in Byte
    BY ByteAssumption DEF Byte
  <2>5. m \in [Pages -> Byte]
    BY <2>4
  <2>6. pte' \in [Pages -> SUBSET Flags] /\ mem' \in [Pages -> Byte]
    BY <1>11, <2>3, <2>5, EncType DEF Grow
  <2>7. prog' \in [Pages -> Byte]
    BY <1>11, <2>4 DEF Grow
  <2> QED BY <1>11, <2>2, <2>6, <2>7 DEF Grow
<1>12. ASSUME NEW n \in SbrkArgs, n < 0, Shrink(n), UNCHANGED <<acc, status>>
       PROVE  TypeOK'
  <2> DEFINE a == (sz + n) % UINT
  <2>1. a \in Nat
    BY ProgramAssumption, UintAssumption, PageAssumption
  <2>2. sz' \in 0 .. MaxPages * PGSIZE
    BY <1>12, <2>1, PageAssumption DEF Shrink
  <2>3. pte' \in [Pages -> SUBSET Flags]
    BY <1>12 DEF Shrink
  <2>4. 0 \in Byte
    BY ByteAssumption DEF Byte
  <2>5. mem' \in [Pages -> Byte] /\ prog' \in [Pages -> Byte]
    BY <1>12, <2>4 DEF Shrink
  <2>6. Compacted(a) \in [Slots -> Pages \cup {NoPage}]
    <3>1. \A i \in Kept(a) : i \in Slots
      BY ClockAssumption DEF Kept, Slots
    <3>2. \A i \in Slots : (\E j \in Kept(a) : Rank(a, j) = i)
             => (CHOOSE j \in Kept(a) : Rank(a, j) = i) \in Kept(a)
      OBVIOUS
    <3>3. \A i \in Slots : (\E j \in Kept(a) : Rank(a, j) = i)
             => nodes[CHOOSE j \in Kept(a) : Rank(a, j) = i] \in Pages \cup {NoPage}
      BY <3>1, <3>2
    <3> QED BY <3>3 DEF Compacted
  <2>7. inClock' \in 0 .. CLOCKSIZE /\ currInd' \in 0 .. MaxInd
    BY <1>12, KeptBound, ClockAssumption, BoundAssumption DEF Shrink
  <2> QED BY <1>12, <2>2, <2>3, <2>5, <2>6, <2>7 DEF Shrink
<1>13. CASE fork
  BY <1>13, BoundAssumption DEF fork
<1>14. CASE ForkPanic
  BY <1>14 DEF ForkPanic
<1>15. ASSUME NEW t \in TextPages, NEW b \in Bytes, exec(t, b)
       PROVE  TypeOK'
  BY <1>15, ImageType, ClockAssumption, BoundAssumption DEF exec
<1>16. CASE UNCHANGED vars
  BY <1>16 DEF vars
<1> QED
  BY <1>1, <1>2, <1>4, <1>5, <1>6, <1>7, <1>8, <1>9, <1>10, <1>11, <1>12, <1>13,
     <1>14, <1>15, <1>16 DEF Next, PageFault, growproc

(* Type correctness of the address space and the clock queue.              *)
THEOREM TypeCorrect == Spec => []TypeOK
<1>1. Init => TypeOK
  BY ImageType, ClockAssumption, BoundAssumption DEF Init, TypeOK, Idle
<1>2. TypeOK /\ [Next]_vars => TypeOK'
  BY TypeStep
<1> QED BY <1>1, <1>2, PTL DEF Spec
-----------------------------------------------------------------------------
(***************************************************************************)
(* Coherence.  The inductive invariant adds that a user page is present or *)
(* encrypted (so that mencrypt finds plaintext wherever PTE_E is clear)    *)
(* and that the access in progress is one the program makes.               *)
(***************************************************************************)
UserMapped(t) == \A p \in Pages : User(t[p]) => Mapped(t[p])

Sound(t, m, g) == CoherentMem(t, m, g) /\ UserMapped(t)

CoherentInv ==
    /\ acc = Idle \/ acc.op \in Ops
    /\ status = "run" => Sound(pte, mem, prog)

(* mencrypt preserves soundness, whatever pages it is given.               *)
LEMMA EncSound ==
    ASSUME NEW t \in [Pages -> SUBSET Flags], NEW m \in [Pages -> Byte],
           NEW g \in [Pages -> Byte], NEW S, Sound(t, m, g)
    PROVE  Sound(EncPte(t, S), EncMem(t, m, S), g)
<1> SUFFICES ASSUME NEW p \in Pages
             PROVE  /\ "E" \in EncPte(t, S)[p] =>
                          /\ EncMem(t, m, S)[p] = Flip(g[p])
                          /\ "P" \notin EncPte(t, S)[p]
                    /\ "P" \in EncPte(t, S)[p] => EncMem(t, m, S)[p] = g[p]
                    /\ User(EncPte(t, S)[p]) => Mapped(EncPte(t, S)[p])
  BY DEF Sound, CoherentMem, UserMapped
<1>1. CASE p \in ToEncrypt(t, S)
  <2>1. "P" \in t[p]
    BY <1>1 DEF Sound, UserMapped, ToEncrypt, Mapped
  <2>2. m[p] = g[p]
    BY <2>1 DEF Sound, CoherentMem
  <2>3. /\ EncPte(t, S)[p] = (t[p] \ {"A", "P"}) \cup {"E"}
        /\ EncMem(t, m, S)[p] = Flip(m[p])
    BY <1>1 DEF EncPte, EncMem
  <2> QED BY <2>2, <2>3 DEF Mapped
<1>2. CASE p \notin ToEncrypt(t, S)
  <2>1. EncPte(t, S)[p] = t[p] /\ EncMem(t, m, S)[p] = m[p]
    BY <1>2 DEF EncPte, EncMem
  <2> QED BY <2>1 DEF Sound, CoherentMem, UserMapped
<1> QED BY <1>1, <1>2

(* A program image is sound.                                               *)
LEMMA ImageSound ==
    ASSUME NEW t \in TextPages, NEW b \in Bytes, NEW s, NEW e, NEW m, NEW g,
           Image(t, b, s, e, m, g)
    PROVE  Sound(e, m, g)
<1>1. ImagePte(t) \in [Pages -> SUBSET Flags]
  BY DEF ImagePte, Flags
<1>2. ImageMem(t, b) \in [Pages -> Byte]
  BY ByteAssumption DEF ImageMem, Byte
<1>3. \A p \in Pages : ImagePte(t)[p] \in {{}, {"P"}, {"P", "U"}}
  BY DEF ImagePte
<1>4. Sound(ImagePte(t), ImageMem(t, b), ImageMem(t, b))
  BY <1>3 DEF Sound, CoherentMem, UserMapped, User, Mapped
<1> QED BY <1>1, <1>2, <1>4, EncSound DEF Image

(* Decrypting one encrypted page, as mdecrypt does, preserves soundness.   *)
LEMMA DecSound ==
    ASSUME TypeOK, Sound(pte, mem, prog), NEW v \in Pages, Request(pte[v])
    PROVE  Sound(DecPte(v), DecMem(v), prog)
<1> SUFFICES ASSUME NEW p \in Pages
             PROVE  /\ "E" \in DecPte(v)[p] =>
                          /\ DecMem(v)[p] = Flip(prog[p])
                          /\ "P" \notin DecPte(v)[p]
                    /\ "P" \in DecPte(v)[p] => DecMem(v)[p] = prog[p]
                    /\ User(DecPte(v)[p]) => Mapped(DecPte(v)[p])
  BY DEF Sound, CoherentMem, UserMapped
<1>1. CASE p = v
  <2>1. mem[p] = Flip(prog[p])
    BY <1>1 DEF Sound, CoherentMem, Request
  <2>2. prog[p] \in Byte
    BY DEF TypeOK
  <2>3. Flip(mem[p]) = prog[p]
    BY <2>1, <2>2, FlipByte
  <2>4. DecPte(v)[p] = (pte[p] \ {"E"}) \cup {"P", "A"} /\ DecMem(v)[p] = Flip(mem[p])
    BY <1>1 DEF DecPte, DecMem, TypeOK
  <2> QED BY <2>3, <2>4 DEF Mapped
<1>2. CASE p # v
  <2>1. DecPte(v)[p] = pte[p] /\ DecMem(v)[p] = mem[p]
    BY <1>2 DEF DecPte, DecMem, TypeOK
  <2> QED BY <2>1 DEF Sound, CoherentMem, UserMapped
<1> QED BY <1>1, <1>2

(* Soundness does not depend on PTE_A.                                     *)
LEMMA ASound ==
    ASSUME NEW t, NEW u, NEW m, NEW g, Sound(t, m, g),
           \A p \in Pages : u[p] \ {"A"} = t[p] \ {"A"}
    PROVE  Sound(u, m, g)
<1>1. \A p \in Pages : \A f \in {"P", "E", "U"} : f \in u[p] <=> f \in t[p]
  <2> SUFFICES ASSUME NEW p \in Pages, NEW f \in {"P", "E", "U"}
               PROVE  f \in u[p] <=> f \in t[p]
    OBVIOUS
  <2>1. f # "A"
    OBVIOUS
  <2> QED BY <2>1
<1> QED BY <1>1 DEF Sound, CoherentMem, UserMapped, User, Mapped

(* Every step of a program that makes no unaligned dump preserves          *)
(* coherence.                                                              *)
LEMMA CoherentStep ==
    ASSUME "dump_unaligned" \notin Ops, TypeOK, CoherentInv, [Next]_vars
    PROVE  CoherentInv'
<1> USE DEF CoherentInv
<1>0. /\ status = "run" => /\ pte \in [Pages -> SUBSET Flags]
                           /\ mem \in [Pages -> Byte]
                           /\ prog \in [Pages -> Byte]
      /\ acc # Idle => acc \in Access
      /\ Idle.op = "idle"
  BY DEF TypeOK, Access, Idle
<1>1. ASSUME NEW op \in Ops \cap (UserOps \cup KernelOps), NEW v \in Pages,
             NEW b \in Bytes, Issue(op, v, b)
      PROVE  CoherentInv'
  BY <1>1 DEF Issue
<1>2. CASE Complete
  <2>1. /\ status = "run" /\ acc \in Access /\ acc.page \in Pages
        /\ acc.op \in Ops /\ acc.byte \in Byte
        /\ "P" \in pte[acc.page]
        /\ pte' = Touch(pte, acc.page)
        /\ acc' = Idle
    BY <1>0, <1>2 DEF Complete, Access, Hit, Plain
  <2>2. \/ UNCHANGED <<mem, prog>>
        \/ /\ mem' = [mem EXCEPT ![acc.page] = acc.byte]
           /\ prog' = [prog EXCEPT ![acc.page] = acc.byte]
    BY <1>2, <2>1 DEF Complete, Load, Store, Dump
  <2>3. Sound(pte, mem', prog')
    <3>1. "E" \notin pte[acc.page]
      BY <1>0, <2>1 DEF Sound, CoherentMem
    <3> QED BY <1>0, <2>1, <2>2, <3>1 DEF Sound, CoherentMem
  <2>4. \A p \in Pages : pte'[p] \ {"A"} = pte[p] \ {"A"}
    BY <1>0, <2>1 DEF Touch
  <2>5. Sound(pte', mem', prog')
    BY <2>3, <2>4, ASound
  <2> QED BY <2>1, <2>5
<1>3. ASSUME Decrypting
      PROVE  /\ acc.page \in Pages
             /\ DecPte(acc.page) \in [Pages -> SUBSET Flags]
             /\ DecMem(acc.page) \in [Pages -> Byte]
             /\ Sound(DecPte(acc.page), DecMem(acc.page), prog)
  <2>1. acc.page \in Pages /\ status = "run" /\ Request(pte[acc.page])
    BY <1>0, <1>3 DEF Decrypting, Faulting, Access
  <2>2. /\ DecPte(acc.page) \in [Pages -> SUBSET Flags]
        /\ DecMem(acc.page) \in [Pages -> Byte]
    BY <1>0, <2>1, FlipByte DEF DecPte, DecMem, Flags
  <2> QED BY <2>1, <2>2, DecSound
<1>4. CASE FaultRefused \/ FaultZeroByte \/ FaultOverrun
  BY <1>4 DEF FaultRefused, FaultZeroByte, FaultOverrun, FaultStatus
<1>5. CASE FaultFirst \/ FaultAppend
  BY <1>5, <1>3 DEF FaultFirst, FaultAppend
<1>6. CASE FaultEvict
  <2>1. PICK k \in 0 .. CLOCKSIZE : Evict(k)
    BY <1>6 DEF FaultEvict
  <2> DEFINE t == DecPte(acc.page)
             m == DecMem(acc.page)
             c == ClearA(t, {nodes[Pos(j)] : j \in 0 .. k - 1})
  <2>2. Decrypting /\ UNCHANGED <<prog, acc, status>>
    BY <1>6 DEF FaultEvict
  <2>3. c \in [Pages -> SUBSET Flags] /\ \A p \in Pages : c[p] \ {"A"} = t[p] \ {"A"}
    BY <1>3, <2>2 DEF ClearA
  <2>4. Sound(c, m, prog)
    BY <1>3, <2>2, <2>3, ASound
  <2>5. pte' = EncPte(c, {nodes[Pos(k)]}) /\ mem' = EncMem(c, m, {nodes[Pos(k)]})
    BY <2>1 DEF Evict
  <2>6. Sound(pte', mem', prog)
    BY <1>0, <1>3, <2>2, <2>3, <2>4, <2>5, EncSound DEF Decrypting, Faulting
  <2> QED BY <2>2, <2>6
<1>7. ASSUME NEW v \in Pages, NEW len \in 1 .. MaxLen, sys_mencrypt(v, len)
      PROVE  CoherentInv'
  BY <1>0, <1>7, EncSound DEF sys_mencrypt
<1>8. ASSUME NEW n \in SbrkArgs, Running, Grow(n), UNCHANGED <<acc, status>>
      PROVE  CoherentInv'
  <2> DEFINE N == PgUp(sz) .. PgUp(sz + n) - 1
             t == [p \in Pages |-> IF p \in N THEN {"P", "U"} ELSE pte[p]]
             m == [p \in Pages |-> IF p \in N THEN 0 ELSE mem[p]]
             g == [p \in Pages |-> IF p \in N THEN 0 ELSE prog[p]]
  <2>1. status = "run"
    BY <1>8 DEF Running
  <2>2. 0 \in Byte
    BY ByteAssumption DEF Byte
  <2>3. t \in [Pages -> SUBSET Flags] /\ m \in [Pages -> Byte] /\ g \in [Pages -> Byte]
    BY <1>0, <2>1, <2>2 DEF Flags
  <2>4. Sound(t, m, g)
    BY <1>0, <2>1 DEF Sound, CoherentMem, UserMapped, User, Mapped
  <2>5. prog' = g /\ \E S : pte' = EncPte(t, S) /\ mem' = EncMem(t, m, S)
    BY <1>8 DEF Grow
  <2>6. Sound(pte', mem', prog')
    BY <2>3, <2>4, <2>5, EncSound
  <2> QED BY <1>8, <2>6
<1>9. ASSUME NEW n \in SbrkArgs, Running, Shrink(n), UNCHANGED <<acc, status>>
      PROVE  CoherentInv'
  <2>1. status = "run"
    BY <1>9 DEF Running
  <2>2. PICK F : /\ pte' = [p \in Pages |-> IF p \in F THEN {} ELSE pte[p]]
                 /\ mem' = [p \in Pages |-> IF p \in F THEN 0 ELSE mem[p]]
                 /\ prog' = [p \in Pages |-> IF p \in F THEN 0 ELSE prog[p]]
    BY <1>9 DEF Shrink
  <2>3. Sound(pte', mem', prog')
    BY <1>0, <2>1, <2>2 DEF Sound, CoherentMem, UserMapped, User, Mapped
  <2> QED BY <1>9, <2>3
<1>10. CASE fork \/ ForkPanic
  BY <1>10 DEF fork, ForkPanic
<1>11. ASSUME NEW t \in TextPages, NEW b \in Bytes, exec(t, b)
       PROVE  CoherentInv'
  BY <1>11, ImageSound DEF exec
<1>12. CASE UNCHANGED vars
  BY <1>12 DEF vars
<1> QED
  BY <1>1, <1>2, <1>4, <1>5, <1>6, <1>7, <1>8, <1>9, <1>10, <1>11, <1>12
  DEF Next, PageFault, growproc

(* Memory is coherent for every program that makes no unaligned dump:      *)
(* whatever it does, it reads back what it wrote.                          *)
THEOREM Coherence ==
    ASSUME "dump_unaligned" \notin Ops
    PROVE  Spec => []Coherent
<1>1. Init => CoherentInv
  BY ImageSound DEF Init, CoherentInv
<1>2. TypeOK /\ CoherentInv /\ [Next]_vars => CoherentInv'
  BY CoherentStep
<1>3. CoherentInv => Coherent
  BY DEF CoherentInv, Coherent, Sound
<1> QED BY <1>1, <1>2, <1>3, TypeCorrect, PTL DEF Spec
-----------------------------------------------------------------------------
(***************************************************************************)
(* Tracking.  While the queue is filling, currInd is the first free slot;  *)
(* sz stays a whole number of pages, so that the n / PGSIZE pages growproc *)
(* encrypts are all the pages it adds; no entry has both PTE_P and PTE_E,  *)
(* so that the victim of an eviction really is encrypted.                  *)
(***************************************************************************)
Whole(s) == \E a \in Nat : s = a * PGSIZE

TrackInv ==
    /\ NoOverrun
    /\ status = "run" =>
          /\ \A p \in Pages : Plain(pte[p]) => \E i \in 0 .. inClock - 1 : nodes[i] = p
          /\ \A p \in Pages : ~({"P", "E"} \subseteq pte[p])
          /\ 0 < inClock /\ inClock < CLOCKSIZE => currInd = inClock
          /\ Whole(sz)

(* Pages and sizes: PGROUNDUP of a whole number of pages is that number.   *)
LEMMA PgUpWhole == ASSUME NEW a \in Nat PROVE PgUp(a * PGSIZE) = a
  BY PageAssumption DEF PgUp

(* A whole number of pages is its quotient by PGSIZE times PGSIZE.         *)
LEMMA WholeDiv ==
    ASSUME NEW n \in Nat, n % PGSIZE = 0
    PROVE  n \div PGSIZE \in Nat /\ n = (n \div PGSIZE) * PGSIZE
  BY PageAssumption

(* Growing a whole number of pages by whole pages gives whole pages.       *)
LEMMA WholeSum ==
    ASSUME NEW a \in Nat, NEW b \in Nat
    PROVE  a * PGSIZE + b * PGSIZE = (a + b) * PGSIZE
  BY PageAssumption

(* After mencrypt no page of the range is decrypted, and no page has       *)
(* become so.                                                              *)
LEMMA EncPlain ==
    ASSUME NEW t \in [Pages -> SUBSET Flags], NEW S,
           \A p \in Pages : ~({"P", "E"} \subseteq t[p])
    PROVE  \A p \in Pages : /\ ~({"P", "E"} \subseteq EncPte(t, S)[p])
                            /\ Plain(EncPte(t, S)[p]) => Plain(t[p]) /\ p \notin S
  BY DEF EncPte, ToEncrypt, Plain, User

(* exec leaves no page decrypted.                                          *)
LEMMA ImageEncrypted ==
    ASSUME NEW t \in TextPages, NEW b \in Bytes, NEW s, NEW e, NEW m, NEW g,
           Image(t, b, s, e, m, g)
    PROVE  /\ Whole(s)
           /\ \A p \in Pages : ~({"P", "E"} \subseteq e[p]) /\ ~Plain(e[p])
<1>1. t \in Nat /\ t + 2 \in Nat
  BY ProgramAssumption
<1>2. ImagePte(t) \in [Pages -> SUBSET Flags]
  BY DEF ImagePte, Flags
<1>3. ASSUME NEW p \in Pages
      PROVE  /\ ~({"P", "E"} \subseteq ImagePte(t)[p])
             /\ Plain(ImagePte(t)[p]) => p \in 0 .. t + 1
  <2>1. p \in Nat
    BY PageAssumption DEF Pages
  <2>2. \/ p < t /\ ImagePte(t)[p] = {"P", "U"}
        \/ p = t /\ ImagePte(t)[p] = {"P"}
        \/ p = t + 1 /\ ImagePte(t)[p] = {"P", "U"}
        \/ ImagePte(t)[p] = {}
    BY <1>1, <2>1, Zenon DEF ImagePte
  <2> QED BY <1>1, <2>1, <2>2 DEF Plain
<1>4. \A p \in Pages : ~({"P", "E"} \subseteq e[p]) /\ ~Plain(e[p])
  <2>1. e = EncPte(ImagePte(t), 0 .. t + 1)
    BY DEF Image
  <2>2. \A p \in Pages :
            /\ ~({"P", "E"} \subseteq EncPte(ImagePte(t), 0 .. t + 1)[p])
            /\ Plain(EncPte(ImagePte(t), 0 .. t + 1)[p])
                  => Plain(ImagePte(t)[p]) /\ p \notin 0 .. t + 1
    <3> DEFINE I == ImagePte(t)
               R == 0 .. t + 1
    <3>1. I \in [Pages -> SUBSET Flags] /\ \A p \in Pages : ~({"P", "E"} \subseteq I[p])
      BY <1>2, <1>3
    <3> HIDE DEF I, R
    <3>2. \A p \in Pages : /\ ~({"P", "E"} \subseteq EncPte(I, R)[p])
                           /\ Plain(EncPte(I, R)[p]) => Plain(I[p]) /\ p \notin R
      BY <3>1, EncPlain
    <3> QED BY <3>2 DEF I, R
  <2> QED BY <1>3, <2>1, <2>2
<1>5. Whole(s)
  BY <1>1 DEF Image, ImageSize, Whole
<1> QED BY <1>4, <1>5

(* Every step of a program that grows by whole pages keeps the queue       *)
(* complete.                                                               *)
LEMMA TrackStep ==
    ASSUME WholePages, TypeOK, TrackInv, [Next]_vars
    PROVE  TrackInv'
<1> USE DEF TrackInv, NoOverrun
<1>0. /\ pte \in [Pages -> SUBSET Flags]
      /\ nodes \in [Slots -> Pages \cup {NoPage}]
      /\ inClock \in Nat /\ inClock \leq CLOCKSIZE /\ currInd \in Nat
      /\ acc # Idle => acc.page \in Pages
  BY ClockAssumption, BoundAssumption DEF TypeOK
<1>1. ASSUME NEW op \in Ops \cap (UserOps \cup KernelOps), NEW v \in Pages,
             NEW b \in Bytes, Issue(op, v, b)
      PROVE  TrackInv'
  BY <1>1 DEF Issue
<1>2. CASE Complete
  <2>1. /\ status = "run" /\ acc.page \in Pages
        /\ pte' = [pte EXCEPT ![acc.page] = @ \cup {"A"}]
        /\ UNCHANGED <<sz, nodes, inClock, currInd, status>>
    BY <1>0, <1>2 DEF Complete, Touch
  <2>2. \A p \in Pages : /\ Plain(pte'[p]) => Plain(pte[p])
                         /\ {"P", "E"} \subseteq pte'[p] => {"P", "E"} \subseteq pte[p]
    BY <1>0, <2>1 DEF Plain
  <2> QED BY <2>1, <2>2
<1>3. ASSUME Decrypting
      PROVE  /\ status = "run" /\ acc.page \in Pages
             /\ DecPte(acc.page) \in [Pages -> SUBSET Flags]
             /\ \A p \in Pages :
                   /\ ~({"P", "E"} \subseteq DecPte(acc.page)[p])
                   /\ p # acc.page => DecPte(acc.page)[p] = pte[p]
  BY <1>0, <1>3 DEF Decrypting, Faulting, DecPte, Flags
<1>4. CASE FaultRefused \/ FaultZeroByte
  BY <1>4 DEF FaultRefused, FaultZeroByte, FaultStatus
<1>5. CASE FaultFirst
  <2>1. /\ pte' = DecPte(acc.page) /\ nodes' = [nodes EXCEPT ![0] = acc.page]
        /\ inClock = 0 /\ inClock' = 1 /\ currInd' = 1 /\ UNCHANGED <<sz, status>>
        /\ Decrypting
    BY <1>5 DEF FaultFirst
  <2>2. \A p \in Pages : Plain(pte'[p]) => p = acc.page
    BY <1>0, <1>3, <2>1
  <2>3. nodes'[0] = acc.page /\ 0 \in 0 .. inClock' - 1
    BY <1>0, <2>1, ClockAssumption DEF Slots
  <2> QED BY <1>3, <2>1, <2>2, <2>3
<1>6. CASE FaultAppend
  <2>1. /\ pte' = DecPte(acc.page) /\ nodes' = [nodes EXCEPT ![currInd] = acc.page]
        /\ currInd = inClock /\ inClock' = inClock + 1 /\ currInd' = currInd + 1
        /\ inClock < CLOCKSIZE
        /\ UNCHANGED <<sz, status>>
        /\ Decrypting
    BY <1>0, <1>3, <1>6 DEF FaultAppend
  <2>2. ASSUME NEW p \in Pages, Plain(pte'[p])
        PROVE  \E i \in 0 .. inClock' - 1 : nodes'[i] = p
    <3>1. CASE p = acc.page
      <4>1. nodes'[inClock] = p
        BY <1>0, <2>1, <3>1, ClockAssumption DEF Slots
      <4> QED BY <1>0, <2>1, <4>1
    <3>2. CASE p # acc.page
      <4>1. PICK i \in 0 .. inClock - 1 : nodes[i] = p
        BY <1>3, <2>1, <2>2, <3>2
      <4>2. nodes'[i] = p
        BY <1>0, <2>1, <4>1, ClockAssumption DEF Slots
      <4> QED BY <1>0, <2>1, <4>2
    <3> QED BY <3>1, <3>2
  <2> QED BY <1>0, <1>3, <2>1, <2>2
<1>7. CASE FaultOverrun
  <2>1. currInd = inClock /\ inClock < CLOCKSIZE /\ currInd \notin Slots
    BY <1>0, <1>3, <1>7 DEF FaultOverrun
  <2> QED BY <1>0, <2>1, ClockAssumption DEF Slots
<1>8. CASE FaultEvict
  <2>1. PICK k \in 0 .. CLOCKSIZE : Evict(k)
    BY <1>8 DEF FaultEvict
  <2> DEFINE c == ClearA(DecPte(acc.page), {nodes[Pos(j)] : j \in 0 .. k - 1})
  <2>2. /\ pte' = EncPte(c, {nodes[Pos(k)]})
        /\ nodes' = [nodes EXCEPT ![Pos(k)] = acc.page]
        /\ inClock = CLOCKSIZE /\ inClock' = inClock
        /\ UNCHANGED <<sz, status>>
        /\ Decrypting
    <3>1. Decrypting /\ inClock \geq CLOCKSIZE /\ inClock' = inClock /\ UNCHANGED <<sz, status>>
      BY <1>8 DEF FaultEvict
    <3>2. inClock = CLOCKSIZE
      BY <1>0, <3>1, ClockAssumption
    <3>3. /\ pte' = EncPte(c, {nodes[Pos(k)]})
          /\ nodes' = [nodes EXCEPT ![Pos(k)] = acc.page]
      BY <2>1 DEF Evict
    <3> QED BY <3>1, <3>2, <3>3
  <2>3. c \in [Pages -> SUBSET Flags] /\ \A p \in Pages : c[p] \subseteq DecPte(acc.page)[p]
    BY <1>3, <2>2 DEF ClearA
  <2>4. \A p \in Pages : /\ ~({"P", "E"} \subseteq pte'[p])
                         /\ Plain(pte'[p]) => Plain(c[p]) /\ p # nodes[Pos(k)]
    BY <1>3, <2>2, <2>3, EncPlain
  <2>5. Pos(k) \in Slots
    BY <1>0, ModSlot, ClockAssumption DEF Pos
  <2>6. ASSUME NEW p \in Pages, Plain(pte'[p])
        PROVE  \E i \in 0 .. inClock' - 1 : nodes'[i] = p
    <3>1. CASE p = acc.page
      BY <1>0, <2>2, <2>5, <3>1 DEF Slots
    <3>2. CASE p # acc.page
      <4>1. Plain(pte[p])
        BY <1>3, <2>2, <2>3, <2>4, <2>6, <3>2 DEF Plain
      <4>2. PICK i \in 0 .. inClock - 1 : nodes[i] = p
        BY <1>3, <2>2, <4>1
      <4>3. i \in Slots /\ i # Pos(k)
        BY <2>2, <2>4, <2>6, <4>2 DEF Slots
      <4> QED BY <1>0, <2>2, <4>2, <4>3
    <3> QED BY <3>1, <3>2
  <2>7. ~(inClock' < CLOCKSIZE)
    BY <1>0, <2>2, ClockAssumption
  <2>8. status = "run" /\ status' = "run" /\ Whole(sz')
    BY <1>3, <2>2
  <2> QED BY <2>4, <2>6, <2>7, <2>8
<1>9. ASSUME NEW v \in Pages, NEW len \in 1 .. MaxLen, sys_mencrypt(v, len)
      PROVE  TrackInv'
  <2>1. \A p \in Pages : /\ ~({"P", "E"} \subseteq pte'[p])
                         /\ Plain(pte'[p]) => Plain(pte[p])
    BY <1>0, <1>9, EncPlain DEF sys_mencrypt, Running
  <2> QED BY <1>9, <2>1 DEF sys_mencrypt, Running
<1>10. ASSUME NEW n \in SbrkArgs, "sbrk" \in Ops, Running, Grow(n),
              UNCHANGED <<acc, status>>
       PROVE  TrackInv'
  <2>1. status = "run" /\ n \in Nat /\ n % PGSIZE = 0
    BY <1>10, ProgramAssumption DEF Running, WholePages
  <2>2. PICK a \in Nat : sz = a * PGSIZE
    BY <2>1 DEF Whole
  <2>3. PICK b \in Nat : n = b * PGSIZE /\ n \div PGSIZE = b
    BY <2>1, WholeDiv
  <2>4. sz + n = (a + b) * PGSIZE
    BY <2>2, <2>3, WholeSum
  <2>5. PgUp(sz) = a /\ PgUp(sz + n) = a + b
    BY <2>2, <2>4, PgUpWhole, a + b \in Nat
  <2> DEFINE N == a .. a + b - 1
             t == [p \in Pages |-> IF p \in N THEN {"P", "U"} ELSE pte[p]]
  <2>6. pte' = EncPte(t, N) /\ sz' = sz + n /\ UNCHANGED <<nodes, inClock, currInd>>
    <3> DEFINE M == PgUp(sz) .. PgUp(sz + n) - 1
    <3>1. /\ pte' = EncPte([p \in Pages |-> IF p \in M THEN {"P", "U"} ELSE pte[p]],
                          PgUp(sz) .. PgUp(sz) + n \div PGSIZE - 1)
          /\ sz' = sz + n /\ UNCHANGED <<nodes, inClock, currInd>>
      BY <1>10 DEF Grow
    <3>2. M = N /\ PgUp(sz) .. PgUp(sz) + n \div PGSIZE - 1 = N
      BY <2>3, <2>5
    <3> QED BY <3>1, <3>2
  <2>7. t \in [Pages -> SUBSET Flags] /\ \A p \in Pages : ~({"P", "E"} \subseteq t[p])
    BY <1>0, <2>1 DEF Flags
  <2>8. \A p \in Pages : /\ ~({"P", "E"} \subseteq pte'[p])
                         /\ Plain(pte'[p]) => Plain(t[p]) /\ p \notin N
    BY <2>6, <2>7, EncPlain
  <2>9. Whole(sz')
    BY <2>4, <2>6, a + b \in Nat DEF Whole
  <2> QED BY <1>10, <2>1, <2>6, <2>8, <2>9
<1>11. ASSUME NEW n \in SbrkArgs, "sbrk" \in Ops, n < 0
       PROVE  FALSE
  BY <1>11, ProgramAssumption DEF WholePages
<1>12. CASE "fork" \in Ops
  BY <1>12 DEF WholePages
<1>13. ASSUME NEW t \in TextPages, NEW b \in Bytes, exec(t, b)
       PROVE  TrackInv'
  BY <1>13, ImageEncrypted DEF exec, Running
<1>14. CASE UNCHANGED vars
  BY <1>14 DEF vars
<1> QED
  BY <1>1, <1>2, <1>4, <1>5, <1>6, <1>7, <1>8, <1>9, <1>10, <1>11, <1>12, <1>13,
     <1>14 DEF Next, PageFault, growproc

(* The strengthened tracking invariant holds in every reachable state.     *)
LEMMA TrackAlways ==
    ASSUME WholePages
    PROVE  Spec => [](TypeOK /\ TrackInv)
<1>1. Init => TrackInv
  BY ImageEncrypted DEF Init, TrackInv, NoOverrun
<1>2. TypeOK /\ TrackInv /\ [Next]_vars => TrackInv'
  BY TrackStep
<1> QED BY <1>1, <1>2, TypeCorrect, PTL DEF Spec

(* For programs that grow by whole pages, every decrypted page is in the   *)
(* clock queue.                                                            *)
THEOREM Tracking ==
    ASSUME WholePages
    PROVE  Spec => []Tracked
<1>1. TypeOK /\ TrackInv => Tracked
  BY DEF TrackInv, Tracked, Decrypted
<1> QED BY <1>1, TrackAlways, PTL

(* For the same programs mdecrypt never writes past proc->nodes.           *)
THEOREM Bounded ==
    ASSUME WholePages
    PROVE  Spec => []NoOverrun
<1>1. TypeOK /\ TrackInv => NoOverrun
  BY DEF TrackInv
<1> QED BY <1>1, TrackAlways, PTL

(* For the same programs at most CLOCKSIZE pages are in the clear: the     *)
(* decrypted pages are images of slots of the queue.                       *)
THEOREM FewInTheClear ==
    ASSUME WholePages
    PROVE  Spec => []FewDecrypted
<1>1. ASSUME TypeOK, TrackInv PROVE FewDecrypted
  <2> SUFFICES ASSUME status = "run" PROVE Cardinality(Decrypted) \leq CLOCKSIZE
    BY DEF FewDecrypted
  <2> DEFINE T == {nodes[i] : i \in Slots}
  <2>1. IsFiniteSet(Slots) /\ Cardinality(Slots) = CLOCKSIZE
    BY FS_Interval, ClockAssumption, 0 \in Int, CLOCKSIZE - 1 \in Int DEF Slots
  <2>2. nodes \in Surjection(Slots, T)
    BY <1>1 DEF TypeOK, Surjection
  <2>3. IsFiniteSet(T) /\ Cardinality(T) \leq CLOCKSIZE
    BY <2>1, <2>2, FS_Surjection
  <2>4. Decrypted \in SUBSET T
    <3> SUFFICES ASSUME NEW p \in Pages, Plain(pte[p]) PROVE p \in T
      BY DEF Decrypted
    <3>1. PICK i \in 0 .. inClock - 1 : nodes[i] = p
      BY <1>1 DEF TrackInv
    <3>2. i \in Slots
      BY <1>1, ClockAssumption DEF TypeOK, Slots
    <3> QED BY <3>1, <3>2
  <2>5. Cardinality(Decrypted) \leq Cardinality(T) /\ IsFiniteSet(Decrypted)
    BY <2>3, <2>4, FS_Subset
  <2> QED BY <2>3, <2>5, FS_CardinalityType, ClockAssumption
<1> QED BY <1>1, TrackAlways, PTL
-----------------------------------------------------------------------------
(***************************************************************************)
(* The clock queue of a program that never calls mencrypt: its entries are *)
(* decrypted pages, each there once.  With mencrypt a page can be in the   *)
(* queue encrypted, and be added again by its next fault.                  *)
(***************************************************************************)
Exact(t, d, c) ==
    /\ \A i \in 0 .. c - 1 : d[i] \in Pages /\ Plain(t[d[i]])
    /\ \A i, j \in 0 .. c - 1 : d[i] = d[j] => i = j

(* The user pages are below sz.                                            *)
Below(t, s) == \E a \in Nat : s = a * PGSIZE /\ \A p \in Pages : User(t[p]) => p < a

QueueInv == status = "run" => Exact(pte, nodes, inClock) /\ Below(pte, sz)

(* exec makes no page above the stack a user page.                         *)
LEMMA ImageBelow ==
    ASSUME NEW t \in TextPages, NEW b \in Bytes, NEW s, NEW e, NEW m, NEW g,
           Image(t, b, s, e, m, g)
    PROVE  Below(e, s)
<1>1. t \in Nat /\ t + 2 \in Nat /\ s = (t + 2) * PGSIZE
  BY ProgramAssumption DEF Image, ImageSize
<1>2. ASSUME NEW p \in Pages, User(e[p]) PROVE p < t + 2
  <2>1. p \in Nat
    BY PageAssumption DEF Pages
  <2>2. User(ImagePte(t)[p])
    BY <1>2 DEF Image, EncPte, User
  <2>3. \/ p < t \/ p = t + 1
        \/ ~User(ImagePte(t)[p])
    BY <1>1, <2>1, Zenon DEF ImagePte, User
  <2> QED BY <1>1, <2>1, <2>2, <2>3
<1> QED BY <1>1, <1>2 DEF Below

(* A page that joins the queue was not in it.                              *)
LEMMA NotQueued ==
    ASSUME TypeOK, TrackInv, QueueInv, Decrypting
    PROVE  /\ status = "run" /\ acc.page \in Pages
           /\ "P" \notin pte[acc.page] /\ {"E", "U"} \subseteq pte[acc.page]
           /\ \A i \in 0 .. inClock - 1 : nodes[i] # acc.page
           /\ \A p \in Pages : p # acc.page => DecPte(acc.page)[p] = pte[p]
           /\ Plain(DecPte(acc.page)[acc.page]) /\ "A" \in DecPte(acc.page)[acc.page]
           /\ DecPte(acc.page) \in [Pages -> SUBSET Flags]
<1>1. status = "run" /\ acc.page \in Pages /\ {"E", "U"} \subseteq pte[acc.page]
  BY DEF Decrypting, Faulting, Request, TypeOK
<1>2. "P" \notin pte[acc.page]
  BY <1>1 DEF TrackInv
<1>3. \A i \in 0 .. inClock - 1 : nodes[i] # acc.page
  BY <1>1, <1>2 DEF QueueInv, Exact, Plain
<1> QED BY <1>1, <1>2, <1>3 DEF DecPte, TypeOK, Plain, Flags

(* Every number is a multiple of m and a remainder below m, ...            *)
LEMMA ModDiv ==
    ASSUME NEW x \in Int, NEW m \in Nat \ {0}
    PROVE  \E d \in Int, v \in 0 .. m - 1 : v = x % m /\ x = d * m + v
<1>1. x = ((x \div m) * m) + (x % m) /\ (x \div m) \in Int /\ x % m \in 0 .. m - 1
  OBVIOUS
<1> QED BY <1>1

(* ... which is unique.                                                    *)
LEMMA ModIs ==
    ASSUME NEW x \in Int, NEW m \in Nat \ {0}, NEW d \in Int, NEW u \in 0 .. m - 1,
           x = d * m + u
    PROVE  x % m = u
<1>1. PICK h \in Int, v \in 0 .. m - 1 : v = x % m /\ x = h * m + v
  BY ModDiv
<1>2. h * m + v = d * m + u
  BY <1>1
<1>3. CASE h > d
  <2>1. (h - d) * m = u - v
    BY <1>2
  <2>2. (h - d) * m >= m
    BY <1>3
  <2> QED BY <2>1, <2>2
<1>4. CASE h < d
  <2>1. (d - h) * m = v - u
    BY <1>2
  <2>2. (d - h) * m >= m
    BY <1>4
  <2> QED BY <2>1, <2>2
<1>5. CASE h = d
  <2>1. h * m = d * m /\ h * m \in Int
    BY <1>5
  <2>2. v = u
    BY <1>2, <2>1
  <2> QED BY <1>1, <2>2
<1> QED BY <1>3, <1>4, <1>5

(* The hand goes round the queue: CLOCKSIZE steps visit every slot once    *)
(* and end where they began.                                               *)
LEMMA PosIs ==
    ASSUME currInd \in Nat
    PROVE  \E s \in Slots : \A m \in 0 .. CLOCKSIZE :
               Pos(m) = IF s + m < CLOCKSIZE THEN s + m ELSE s + m - CLOCKSIZE
<1>0. CLOCKSIZE \in Nat \ {0}
  BY ClockAssumption
<1>2. PICK d \in Int, s \in 0 .. CLOCKSIZE - 1 : currInd = d * CLOCKSIZE + s
  <2>1. currInd \in Int
    OBVIOUS
  <2> QED BY <1>0, <2>1, ModDiv, Zenon
<1>3. s \in Slots
  BY DEF Slots
<1>4. ASSUME NEW m \in 0 .. CLOCKSIZE
      PROVE  Pos(m) = IF s + m < CLOCKSIZE THEN s + m ELSE s + m - CLOCKSIZE
  <2>1. CASE s + m < CLOCKSIZE
    <3>1. /\ s + m \in 0 .. CLOCKSIZE - 1 /\ currInd + m \in Int
          /\ currInd + m = d * CLOCKSIZE + (s + m)
      BY <1>0, <1>2, <2>1
    <3>2. (currInd + m) % CLOCKSIZE = s + m
      BY <1>0, <3>1, ModIs, Zenon
    <3> QED BY <2>1, <3>2 DEF Pos
  <2>2. CASE s + m >= CLOCKSIZE
    <3>1. /\ s + m - CLOCKSIZE \in 0 .. CLOCKSIZE - 1 /\ currInd + m \in Int
          /\ d + 1 \in Int
          /\ currInd + m = (d + 1) * CLOCKSIZE + (s + m - CLOCKSIZE)
      BY <1>0, <1>2, <2>2
    <3>2. (currInd + m) % CLOCKSIZE = s + m - CLOCKSIZE
      BY <1>0, <3>1, ModIs, Zenon
    <3> QED BY <1>0, <2>2, <3>2 DEF Pos
  <2> QED BY <1>0, <2>1, <2>2
<1> QED BY <1>3, <1>4

(* When the queue is full the hand stops at the first page that was not    *)
(* accessed, or, if all were, where it started.                            *)
LEMMA HandStops ==
    ASSUME TypeOK, TrackInv, QueueInv, Decrypting, inClock = CLOCKSIZE,
           NEW k \in 0 .. CLOCKSIZE, Evict(k)
    PROVE  /\ Pos(k) \in Slots /\ nodes[Pos(k)] \in Pages /\ nodes[Pos(k)] # acc.page
           /\ \/ "A" \notin pte[nodes[Pos(k)]]
              \/ \A i \in Slots : "A" \in pte[nodes[i]]
<1> DEFINE t == DecPte(acc.page)
<1>1. CLOCKSIZE \in Nat \ {0} /\ currInd \in Nat /\ Slots = 0 .. inClock - 1
  BY ClockAssumption, BoundAssumption DEF TypeOK, Slots
<1>6. PICK s \in Slots : \A m \in 0 .. CLOCKSIZE :
         Pos(m) = IF s + m < CLOCKSIZE THEN s + m ELSE s + m - CLOCKSIZE
  BY <1>1, PosIs
<1>7. s \in 0 .. CLOCKSIZE - 1
  BY DEF Slots
<1>2. \A i \in 0 .. CLOCKSIZE : Pos(i) \in Slots
  BY <1>1, <1>6, <1>7 DEF Slots
<1>3. \A i \in Slots : /\ nodes[i] \in Pages /\ nodes[i] # acc.page /\ nodes[i] # NoPage
                       /\ t[nodes[i]] = pte[nodes[i]]
  <2>1. \A p \in Pages : p # NoPage
    BY PageAssumption DEF Pages, NoPage
  <2> QED BY <1>1, <2>1, NotQueued DEF QueueInv, Exact
<1>4. Stops(t, k) /\ \A j \in 0 .. k - 1 : ~Stops(t, j)
  BY DEF Evict
<1>5. ASSUME "A" \in pte[nodes[Pos(k)]] PROVE \A i \in Slots : "A" \in pte[nodes[i]]
  <2>1. PICK j \in 0 .. k - 1 : nodes[Pos(j)] = nodes[Pos(k)]
    BY <1>2, <1>3, <1>4, <1>5 DEF Stops
  <2>2. Pos(j) = Pos(k)
    <3>1. Pos(j) \in Slots /\ Pos(k) \in Slots
      BY <1>1, <1>2
    <3> QED BY <1>1, <2>1, <3>1, NotQueued DEF QueueInv, Exact
  <2>3. k = CLOCKSIZE
    BY <1>1, <1>6, <1>7, <2>2
  <2>4. ASSUME NEW m \in 0 .. CLOCKSIZE - 1 PROVE "A" \in pte[nodes[Pos(m)]]
    <3>1. ~Stops(t, m) /\ Pos(m) \in Slots
      BY <1>1, <1>2, <1>4, <2>3
    <3>2. "A" \in t[nodes[Pos(m)]]
      BY <3>1 DEF Stops
    <3> QED BY <1>3, <3>1, <3>2
  <2>5. ASSUME NEW i \in Slots PROVE \E m \in 0 .. CLOCKSIZE - 1 : Pos(m) = i
    <3>1. i \in 0 .. CLOCKSIZE - 1
      BY DEF Slots
    <3>2. CASE i >= s
      <4>1. i - s \in 0 .. CLOCKSIZE - 1 /\ Pos(i - s) = i
        BY <1>1, <1>6, <1>7, <3>1, <3>2
      <4> QED BY <4>1
    <3>3. CASE i < s
      <4>1. i - s + CLOCKSIZE \in 0 .. CLOCKSIZE - 1 /\ Pos(i - s + CLOCKSIZE) = i
        BY <1>1, <1>6, <1>7, <3>1, <3>3
      <4> QED BY <4>1
    <3> QED BY <1>7, <3>1, <3>2, <3>3
  <2> QED BY <2>4, <2>5
<1> QED BY <1>1, <1>2, <1>3, <1>5

(* A page is not a user page before growproc or exec makes it one.         *)
LEMMA BelowStep ==
    ASSUME WholePages, TypeOK, status = "run", Below(pte, sz), [Next]_vars
    PROVE  status' = "run" => Below(pte', sz')
<1>0. pte \in [Pages -> SUBSET Flags] /\ (acc # Idle => acc.page \in Pages)
  BY DEF TypeOK
<1>1. PICK a \in Nat : sz = a * PGSIZE /\ \A p \in Pages : User(pte[p]) => p < a
  BY DEF Below
<1>2. CASE sz' = sz /\ \A p \in Pages : User(pte'[p]) => User(pte[p])
  BY <1>1, <1>2 DEF Below
<1>3. ASSUME NEW t \in [Pages -> SUBSET Flags], NEW S, NEW p \in Pages
      PROVE  User(EncPte(t, S)[p]) => User(t[p])
  BY DEF EncPte, User
<1>4. CASE Complete
  <2>1. sz' = sz /\ acc.page \in Pages /\ pte' = [pte EXCEPT ![acc.page] = @ \cup {"A"}]
    BY <1>0, <1>4 DEF Complete, Touch
  <2> QED BY <1>0, <1>2, <2>1 DEF User
<1>5. ASSUME Faulting
      PROVE  /\ acc.page \in Pages /\ DecPte(acc.page) \in [Pages -> SUBSET Flags]
             /\ \A p \in Pages : User(DecPte(acc.page)[p]) => User(pte[p])
  BY <1>0, <1>5 DEF Faulting, DecPte, User, Flags
<1>6. CASE FaultFirst \/ FaultAppend
  BY <1>2, <1>5, <1>6 DEF FaultFirst, FaultAppend, Decrypting
<1>7. CASE FaultEvict
  <2>1. PICK k \in 0 .. CLOCKSIZE : Evict(k)
    BY <1>7 DEF FaultEvict
  <2> DEFINE c == ClearA(DecPte(acc.page), {nodes[Pos(j)] : j \in 0 .. k - 1})
  <2>2. c \in [Pages -> SUBSET Flags] /\ \A p \in Pages : User(c[p]) => User(pte[p])
    BY <1>5, <1>7 DEF FaultEvict, Decrypting, ClearA, User
  <2>3. sz' = sz /\ pte' = EncPte(c, {nodes[Pos(k)]})
    BY <1>7, <2>1 DEF FaultEvict, Evict
  <2> HIDE DEF c
  <2> QED BY <1>2, <1>3, <2>2, <2>3
<1>8. ASSUME NEW v \in Pages, NEW len \in 1 .. MaxLen, sys_mencrypt(v, len)
      PROVE  status' = "run" => Below(pte', sz')
  BY <1>0, <1>2, <1>3, <1>8 DEF sys_mencrypt
<1>9. ASSUME NEW n \in SbrkArgs, "sbrk" \in Ops, growproc(n)
      PROVE  Below(pte', sz')
  <2>1. n \in Nat /\ n % PGSIZE = 0 /\ n > 0
    BY <1>9, ProgramAssumption DEF WholePages
  <2>2. PICK b \in Nat : n = b * PGSIZE /\ n \div PGSIZE = b
    BY <2>1, WholeDiv
  <2>3. sz + n = (a + b) * PGSIZE
    BY <1>1, <2>2, WholeSum
  <2>4. PgUp(sz) = a /\ PgUp(sz + n) = a + b
    BY <1>1, <2>3, PgUpWhole, a + b \in Nat
  <2> DEFINE N == PgUp(sz) .. PgUp(sz + n) - 1
             t == [p \in Pages |-> IF p \in N THEN {"P", "U"} ELSE pte[p]]
  <2>5. t \in [Pages -> SUBSET Flags]
    BY <1>0 DEF Flags
  <2>6. sz' = (a + b) * PGSIZE /\ \E S : pte' = EncPte(t, S)
    <3>1. Grow(n)
      BY <1>9, <2>1 DEF growproc
    <3> QED BY <2>3, <3>1 DEF Grow
  <2>7. ASSUME NEW p \in Pages, User(t[p]) PROVE p < a + b
    <3>1. p \in Nat
      BY PageAssumption DEF Pages
    <3>2. CASE p \in N
      BY <2>4, <3>1, <3>2
    <3>3. CASE p \notin N
      BY <1>1, <2>7, <3>1, <3>3
    <3> QED BY <3>2, <3>3
  <2> HIDE DEF t
  <2>8. \A p \in Pages : User(pte'[p]) => p < a + b
    BY <1>3, <2>5, <2>6, <2>7
  <2> QED BY <2>6, <2>8, a + b \in Nat DEF Below
<1>10. ASSUME NEW t \in TextPages, NEW b \in Bytes, exec(t, b) PROVE Below(pte', sz')
  BY <1>10, ImageBelow DEF exec
<1>11. CASE status' # "run"
  BY <1>11
<1>12. CASE sz' = sz /\ pte' = pte
  BY <1>2, <1>12
<1> QED
  BY <1>4, <1>6, <1>7, <1>8, <1>9, <1>10, <1>11, <1>12
  DEF Next, PageFault, Issue, FaultRefused, FaultZeroByte, FaultOverrun, FaultStatus, vars,
      WholePages

(* Every step of a program that does not call mencrypt keeps the queue     *)
(* exact.                                                                  *)
LEMMA QueueStep ==
    ASSUME WholePages, "mencrypt" \notin Ops, TypeOK, TrackInv, QueueInv, [Next]_vars
    PROVE  status' = "run" => Exact(pte', nodes', inClock')
<1>0. /\ pte \in [Pages -> SUBSET Flags] /\ nodes \in [Slots -> Pages \cup {NoPage}]
      /\ inClock \in Nat /\ inClock <= CLOCKSIZE /\ CLOCKSIZE \in Nat \ {0}
      /\ acc # Idle => acc.page \in Pages
  BY ClockAssumption, BoundAssumption DEF TypeOK
<1>1. ASSUME NEW op \in Ops \cap (UserOps \cup KernelOps), NEW v \in Pages,
             NEW b \in Bytes, Issue(op, v, b)
      PROVE  status' = "run" => Exact(pte', nodes', inClock')
  BY <1>1 DEF Issue, QueueInv
<1>2. CASE Complete
  <2>1. /\ status = "run" /\ acc.page \in Pages
        /\ pte' = [pte EXCEPT ![acc.page] = @ \cup {"A"}]
        /\ UNCHANGED <<nodes, inClock, status>>
    BY <1>0, <1>2 DEF Complete, Touch
  <2>2. \A p \in Pages : Plain(pte[p]) => Plain(pte'[p])
    BY <1>0, <2>1 DEF Plain
  <2> QED BY <2>1, <2>2 DEF QueueInv, Exact
<1>3. CASE FaultRefused \/ FaultZeroByte \/ FaultOverrun
  BY <1>3 DEF FaultRefused, FaultZeroByte, FaultOverrun, FaultStatus, QueueInv
<1>4. CASE FaultFirst \/ FaultAppend
  <2>1. /\ Decrypting /\ pte' = DecPte(acc.page) /\ inClock' = inClock + 1 /\ status' = status
        /\ inClock < CLOCKSIZE /\ nodes' = [nodes EXCEPT ![inClock] = acc.page]
    <3>1. Decrypting /\ status = "run"
      BY <1>4 DEF FaultFirst, FaultAppend, Decrypting, Faulting
    <3>2. CASE FaultFirst
      BY <1>0, <3>1, <3>2 DEF FaultFirst
    <3>3. CASE FaultAppend
      <4>1. currInd = inClock
        BY <1>0, <3>1, <3>3 DEF FaultAppend, TrackInv
      <4> QED BY <1>0, <3>1, <3>3, <4>1 DEF FaultAppend
    <3> QED BY <1>4, <3>2, <3>3
  <2>2. inClock \in Slots /\ \A i \in 0 .. inClock - 1 : i \in Slots
    BY <1>0, <2>1 DEF Slots
  <2>3. \A i \in 0 .. inClock - 1 : nodes'[i] = nodes[i]
    BY <1>0, <2>1, <2>2
  <2>4. nodes'[inClock] = acc.page
    BY <1>0, <2>1, <2>2
  <2>5. \A i \in 0 .. inClock' - 1 : i = inClock \/ i \in 0 .. inClock - 1
    BY <1>0, <2>1
  <2>6. \A i \in 0 .. inClock - 1 : /\ nodes[i] \in Pages /\ nodes[i] # acc.page
                                    /\ Plain(pte'[nodes[i]])
    BY <2>1, NotQueued DEF QueueInv, Exact
  <2>7. acc.page \in Pages /\ Plain(pte'[acc.page]) /\ status = "run"
    BY <2>1, NotQueued
  <2>8. \A i, j \in 0 .. inClock - 1 : nodes[i] = nodes[j] => i = j
    BY <2>7 DEF QueueInv, Exact
  <2>9. \A i \in 0 .. inClock' - 1 : nodes'[i] \in Pages /\ Plain(pte'[nodes'[i]])
    BY <2>3, <2>4, <2>5, <2>6, <2>7
  <2>10. \A i, j \in 0 .. inClock' - 1 : nodes'[i] = nodes'[j] => i = j
    BY <2>3, <2>4, <2>5, <2>6, <2>8
  <2> QED BY <2>9, <2>10 DEF QueueInv, Exact
<1>5. CASE FaultEvict
  <2>1. /\ Decrypting /\ inClock = CLOCKSIZE /\ inClock' = inClock /\ status' = status
        /\ status = "run"
    BY <1>0, <1>5 DEF FaultEvict, Decrypting, Faulting
  <2>2. PICK k \in 0 .. CLOCKSIZE : Evict(k)
    BY <1>5 DEF FaultEvict
  <2> DEFINE c == ClearA(DecPte(acc.page), {nodes[Pos(j)] : j \in 0 .. k - 1})
             w == nodes[Pos(k)]
  <2>3. /\ pte' = EncPte(c, {w}) /\ nodes' = [nodes EXCEPT ![Pos(k)] = acc.page]
    BY <2>2 DEF Evict
  <2>4. Pos(k) \in Slots /\ w \in Pages /\ w # acc.page /\ acc.page \in Pages
    BY <2>1, <2>2, HandStops, NotQueued
  <2>5. \A p \in Pages : Plain(DecPte(acc.page)[p]) => Plain(c[p])
    BY DEF ClearA, Plain
  <2>6. \A p \in Pages : Plain(c[p]) /\ p # w => Plain(pte'[p])
    BY <2>3 DEF EncPte, ToEncrypt
  <2>7. \A p \in Pages : (Plain(pte[p]) \/ p = acc.page) /\ p # w => Plain(pte'[p])
    BY <2>1, <2>5, <2>6, NotQueued
  <2>8. Slots = 0 .. inClock - 1
    BY <2>1 DEF Slots
  <2>9. \A i \in Slots : /\ i # Pos(k) => nodes'[i] = nodes[i] /\ nodes[i] # w
                         /\ i = Pos(k) => nodes'[i] = acc.page
                         /\ nodes[i] \in Pages /\ nodes[i] # acc.page /\ Plain(pte[nodes[i]])
    <3>1. \A i \in Slots : /\ nodes[i] \in Pages /\ nodes[i] # acc.page
                           /\ Plain(pte[nodes[i]])
      BY <2>1, <2>8, NotQueued DEF QueueInv, Exact
    <3>2. \A i \in Slots : i # Pos(k) => nodes[i] # w
      BY <2>1, <2>4, <2>8 DEF QueueInv, Exact
    <3> QED BY <1>0, <2>3, <2>4, <3>1, <3>2
  <2>10. \A i \in Slots : nodes'[i] \in Pages /\ Plain(pte'[nodes'[i]])
    BY <2>4, <2>7, <2>9
  <2>11. \A i, j \in Slots : nodes[i] = nodes[j] => i = j
    BY <2>1, <2>8 DEF QueueInv, Exact
  <2>12. \A i, j \in Slots : nodes'[i] = nodes'[j] => i = j
    BY <2>9, <2>11
  <2> QED BY <2>1, <2>8, <2>10, <2>12 DEF QueueInv, Exact
<1>6. ASSUME NEW n \in SbrkArgs, "sbrk" \in Ops, growproc(n) PROVE status' = "run" => Exact(pte', nodes', inClock')
  <2>1. n > 0 /\ n \in Int
    BY <1>6, ProgramAssumption DEF WholePages
  <2>2. Grow(n) /\ status = "run" /\ UNCHANGED <<nodes, inClock, status>>
    BY <1>6, <2>1 DEF growproc, Grow, Running
  <2>3. PICK a \in Nat : sz = a * PGSIZE /\ \A p \in Pages : User(pte[p]) => p < a
    BY <2>2 DEF QueueInv, Below
  <2>4. PgUp(sz) = a
    BY <2>3, PgUpWhole
  <2> DEFINE N == PgUp(sz) .. PgUp(sz + n) - 1
             S == PgUp(sz) .. PgUp(sz) + n \div PGSIZE - 1
             t == [p \in Pages |-> IF p \in N THEN {"P", "U"} ELSE pte[p]]
  <2>5. pte' = EncPte(t, S)
    BY <2>2 DEF Grow
  <2>6. ASSUME NEW p \in Pages, Plain(pte[p]) PROVE Plain(pte'[p])
    <3>1. p \in Nat /\ p < a
      BY <2>3, <2>6, PageAssumption DEF Pages, Plain, User
    <3>2. p \notin N /\ p \notin S
      BY <2>4, <3>1
    <3>3. t[p] = pte[p]
      BY <3>2
    <3> HIDE DEF t, S
    <3> QED BY <2>5, <2>6, <3>2, <3>3 DEF EncPte, ToEncrypt
  <2> QED BY <2>2, <2>6 DEF QueueInv, Exact
<1>7. CASE "fork" \in Ops
  BY <1>7 DEF WholePages
<1>8. ASSUME NEW t \in TextPages, NEW b \in Bytes, exec(t, b) PROVE status' = "run" => Exact(pte', nodes', inClock')
  BY <1>8 DEF exec, QueueInv, Exact
<1>9. CASE UNCHANGED vars
  BY <1>9 DEF vars, QueueInv
<1> QED
  BY <1>1, <1>2, <1>3, <1>4, <1>5, <1>6, <1>7, <1>8, <1>9 DEF Next, PageFault

(* The queue of such a program is exact in every reachable state.          *)
LEMMA QueueAlways ==
    ASSUME WholePages, "mencrypt" \notin Ops
    PROVE  Spec => [](TypeOK /\ TrackInv /\ QueueInv)
<1>1. Init => QueueInv
  BY ImageBelow DEF Init, QueueInv, Exact
<1>2. ASSUME TypeOK, TrackInv, QueueInv, [Next]_vars PROVE QueueInv'
  <2>1. status' = "run" => status = "run"
    BY <1>2
    DEF Next, vars, Issue, Complete, PageFault, FaultRefused, FaultZeroByte, FaultFirst,
        FaultAppend, FaultOverrun, FaultEvict, Decrypting, Faulting, sys_mencrypt,
        growproc, Running, fork, ForkPanic, exec
  <2>2. status' = "run" => Exact(pte', nodes', inClock') /\ Below(pte', sz')
    BY <1>2, <2>1, QueueStep, BelowStep DEF QueueInv
  <2> QED BY <2>2 DEF QueueInv
<1> QED BY <1>1, <1>2, TrackAlways, PTL DEF Spec

(* For programs that grow by whole pages and do not call mencrypt, the     *)
(* page that mdecrypt evicts was not accessed since the hand last passed   *)
(* it, unless every page of the queue was (vm.c, mdecrypt).                *)
THEOREM SecondChance ==
    ASSUME WholePages, "mencrypt" \notin Ops
    PROVE  Spec => EvictsUnused
<1>1. ASSUME TypeOK, TrackInv, QueueInv, [Next]_vars, FaultEvict,
             NEW p \in Pages, "P" \in pte[p], "E" \in pte'[p], "A" \in pte[p]
      PROVE  \A i \in Slots : "A" \in pte[nodes[i]]
  <2>1. Decrypting /\ inClock = CLOCKSIZE /\ status = "run"
    BY <1>1, ClockAssumption DEF FaultEvict, Decrypting, Faulting, TypeOK
  <2>2. PICK k \in 0 .. CLOCKSIZE : Evict(k)
    BY <1>1 DEF FaultEvict
  <2> DEFINE c == ClearA(DecPte(acc.page), {nodes[Pos(j)] : j \in 0 .. k - 1})
  <2>3. pte' = EncPte(c, {nodes[Pos(k)]})
    BY <2>2 DEF Evict
  <2>4. p # acc.page /\ "E" \notin pte[p] /\ DecPte(acc.page)[p] = pte[p]
    BY <1>1, <2>1, NotQueued DEF TrackInv
  <2>5. "E" \notin c[p]
    BY <2>4 DEF ClearA
  <2> HIDE DEF c
  <2>6. p = nodes[Pos(k)]
    BY <1>1, <2>3, <2>5 DEF EncPte, ToEncrypt
  <2> QED BY <1>1, <2>1, <2>2, <2>6, HandStops
<1>2. TypeOK /\ TrackInv /\ QueueInv /\ [Next]_vars =>
         [\A p \in Pages :
             FaultEvict /\ "P" \in pte[p] /\ "E" \in pte'[p] /\ "A" \in pte[p]
             => \A i \in Slots : nodes[i] \in Decrypted => "A" \in pte[nodes[i]]]_vars
  BY <1>1
<1> QED BY <1>2, QueueAlways, PTL DEF Spec, EvictsUnused

(* For the same programs a page fault that does not end the process leaves *)
(* the page decrypted: mdecrypt never evicts the page it was called for.   *)
THEOREM Served ==
    ASSUME WholePages, "mencrypt" \notin Ops
    PROVE  Spec => FaultServes
<1>1. ASSUME TypeOK, TrackInv, QueueInv, PageFault, status' = "run"
      PROVE  Plain(pte'[acc.page])
  <2>1. CASE FaultFirst \/ FaultAppend
    BY <1>1, <2>1, NotQueued DEF FaultFirst, FaultAppend
  <2>2. CASE FaultEvict
    <3>1. Decrypting /\ inClock = CLOCKSIZE
      BY <1>1, <2>2, ClockAssumption DEF FaultEvict, TypeOK
    <3>2. PICK k \in 0 .. CLOCKSIZE : Evict(k)
      BY <2>2 DEF FaultEvict
    <3> DEFINE c == ClearA(DecPte(acc.page), {nodes[Pos(j)] : j \in 0 .. k - 1})
    <3>3. pte' = EncPte(c, {nodes[Pos(k)]})
      BY <3>2 DEF Evict
    <3>4. acc.page \in Pages /\ acc.page # nodes[Pos(k)] /\ Plain(DecPte(acc.page)[acc.page])
      BY <1>1, <3>1, <3>2, NotQueued, HandStops
    <3>5. Plain(c[acc.page])
      BY <3>4 DEF ClearA, Plain
    <3> HIDE DEF c
    <3> QED BY <3>3, <3>4, <3>5 DEF EncPte, ToEncrypt
  <2>3. CASE FaultRefused \/ FaultZeroByte \/ FaultOverrun
    BY <1>1, <2>3 DEF FaultRefused, FaultZeroByte, FaultOverrun, FaultStatus
  <2> QED BY <1>1, <2>1, <2>2, <2>3 DEF PageFault
<1>2. TypeOK /\ TrackInv /\ QueueInv /\ [Next]_vars =>
         [PageFault /\ status' = "run" => Plain(pte'[acc.page])]_vars
  BY <1>1
<1> QED BY <1>2, QueueAlways, PTL DEF Spec, FaultServes
-----------------------------------------------------------------------------
(***************************************************************************)
(* getpgtable.  Its walk is a recursive function, which has the properties *)
(* below because it solves the equation of one turn; that there is a       *)
(* solution is shown first, page by page.                                  *)
(***************************************************************************)

(* Induction over the numbers up to N, as a fact about sets.               *)
LEMMA Upward ==
    ASSUME NEW S, NEW N \in Nat, 0 \in S, \A d \in Nat : d < N /\ d \in S => d + 1 \in S
    PROVE  \A d \in 0 .. N : d \in S
<1>1. PICK D : D = {d \in Nat : d <= N /\ d \notin S}
  OBVIOUS
<1>2. SUFFICES D = {}
  <2>1. ASSUME D = {}, NEW d \in 0 .. N PROVE d \in S
    BY <1>1, <2>1
  <2> QED BY <2>1
<1>3. SUFFICES ASSUME D # {} PROVE FALSE
  OBVIOUS
<1>4. D \subseteq Nat
  BY <1>1
<1>5. PICK d \in D : \A e \in D : ~(<<e, d>> \in OpToRel(<, Nat))
  BY <1>3, <1>4, WFMin, NatLessThanWellFounded
<1>6. d \in Nat /\ \A e \in D : ~(e < d)
  BY <1>4, <1>5 DEF OpToRel
<1>7. d <= N /\ d \notin S /\ d # 0
  BY <1>1, <1>5
<1>8. PICK e \in Nat : d = e + 1 /\ e < d /\ e < N
  <2>1. d - 1 \in Nat /\ d = (d - 1) + 1 /\ d - 1 < d /\ d - 1 < N
    BY <1>6, <1>7
  <2> QED BY <2>1
<1>9. e \notin D
  BY <1>6, <1>8
<1>10. e \in S
  BY <1>1, <1>8, <1>9
<1> QED BY <1>7, <1>8, <1>10

(* One turn of the walk, at page v with i entries, when f has the rest.    *)
Places == (-1 .. MaxPages - 1) \X Nat
Turn(num, ws, f, v, i) ==
    IF v = -1 THEN <<OffTheEnd>>
    ELSE IF ~User(pte[v]) \/ ~Mapped(pte[v]) THEN f[<<v - 1, i>>]
    ELSE IF Ends(v, i + Len(Listed(v, ws)), num) THEN Listed(v, ws)
    ELSE Listed(v, ws) \o f[<<v - 1, i + Len(Listed(v, ws))>>]
Turns(num, ws, f) == [at \in Places |-> Turn(num, ws, f, at[1], at[2])]
Walk(num, ws) == CHOOSE f : f = Turns(num, ws, f)

(* A page and a number of entries.                                         *)
LEMMA PlaceAt ==
    ASSUME NEW v \in -1 .. MaxPages - 1, NEW i \in Nat
    PROVE  \E at \in Places : at = <<v, i>> /\ at[1] = v /\ at[2] = i
<1>1. <<v, i>> \in Places
  BY DEF Places
<1> QED BY <1>1

(* getpgtable returns what its walk collects.                              *)
LEMMA WalkIs ==
    ASSUME NEW num, NEW ws
    PROVE  getpgtable(num, ws) = Walk(num, ws)[<<Top, 0>>]
  BY DEF getpgtable, Walk, Turns, Turn, Places

(* A page adds at most one entry.                                          *)
LEMMA ListedLen ==
    ASSUME NEW v, NEW ws
    PROVE  Len(Listed(v, ws)) \in 0 .. 1 /\ Len(Listed(v, ws)) \in Nat
  BY DEF Listed

(* A turn depends on the turns at the page below only.                     *)
LEMMA TurnSame ==
    ASSUME NEW num, NEW ws, NEW f, NEW g, NEW v \in Nat, NEW i \in Nat,
           \A n \in Nat : f[<<v - 1, n>>] = g[<<v - 1, n>>]
    PROVE  Turn(num, ws, f, v, i) = Turn(num, ws, g, v, i)
<1>1. PICK n \in Nat : n = i + Len(Listed(v, ws))
  BY ListedLen
<1> QED BY <1>1 DEF Turn

(* f is a solution up to page v.                                           *)
Solves(num, ws, v, f) ==
    \A u \in -1 .. v : \A i \in Nat : f[<<u, i>>] = Turn(num, ws, f, u, i)

(* A solution up to a page extends to the next.                            *)
LEMMA SolveNext ==
    ASSUME NEW num, NEW ws, NEW v \in -1 .. MaxPages - 2, NEW f, Solves(num, ws, v, f)
    PROVE  \E g : Solves(num, ws, v + 1, g)
<1>0. MaxPages \in Nat /\ v \in Int /\ v + 1 \in Nat /\ v + 1 <= MaxPages - 1
  BY PageAssumption
<1>1. PICK g : g = [at \in Places |-> IF at[1] = v + 1 THEN Turn(num, ws, f, v + 1, at[2]) ELSE f[at]]
  OBVIOUS
<1>2. ASSUME NEW u \in -1 .. v, NEW i \in Nat PROVE g[<<u, i>>] = f[<<u, i>>]
  <2>1. PICK at \in Places : at = <<u, i>> /\ at[1] = u /\ at[2] = i
    <3>1. u \in -1 .. MaxPages - 1
      BY <1>0
    <3> QED BY <3>1, PlaceAt
  <2>2. u # v + 1
    BY <1>0
  <2>3. g[at] = f[at]
    BY <1>1, <2>1, <2>2
  <2> QED BY <2>1, <2>3
<1>3. ASSUME NEW i \in Nat PROVE g[<<v + 1, i>>] = Turn(num, ws, f, v + 1, i)
  <2>1. PICK at \in Places : at = <<v + 1, i>> /\ at[1] = v + 1 /\ at[2] = i
    <3>1. v + 1 \in -1 .. MaxPages - 1
      BY <1>0
    <3> QED BY <3>1, PlaceAt
  <2>2. g[at] = Turn(num, ws, f, v + 1, i)
    BY <1>1, <2>1
  <2> QED BY <2>1, <2>2
<1>4. ASSUME NEW u \in 0 .. v + 1, NEW i \in Nat
      PROVE  Turn(num, ws, f, u, i) = Turn(num, ws, g, u, i)
  <2>1. u - 1 \in -1 .. v /\ u \in Nat
    BY <1>0
  <2>2. PICK w \in -1 .. v : w = u - 1
    BY <2>1
  <2>3. \A n \in Nat : f[<<w, n>>] = g[<<w, n>>]
    BY <1>2
  <2>4. \A n \in Nat : f[<<u - 1, n>>] = g[<<u - 1, n>>]
    BY <2>2, <2>3
  <2> QED BY <2>1, <2>4, TurnSame
<1>5. ASSUME NEW u \in -1 .. v + 1, NEW i \in Nat PROVE g[<<u, i>>] = Turn(num, ws, g, u, i)
  <2>1. CASE u = v + 1
    <3>1. u \in 0 .. v + 1
      BY <1>0, <2>1
    <3> QED BY <1>3, <1>4, <2>1, <3>1
  <2>2. CASE u # v + 1
    <3>1. u \in -1 .. v
      BY <1>0, <2>2
    <3>2. g[<<u, i>>] = Turn(num, ws, f, u, i)
      BY <1>2, <3>1 DEF Solves
    <3>3. CASE u = -1
      BY <3>2, <3>3 DEF Turn
    <3>4. CASE u # -1
      <4>1. u \in 0 .. v + 1
        BY <1>0, <3>4
      <4> QED BY <1>4, <3>2, <4>1
    <3> QED BY <3>3, <3>4
  <2> QED BY <2>1, <2>2
<1> QED BY <1>5 DEF Solves

(* There is a solution, and the walk is one.                               *)
LEMMA WalkTurns ==
    ASSUME NEW num, NEW ws, NEW v \in -1 .. MaxPages - 1, NEW i \in Nat
    PROVE  Walk(num, ws)[<<v, i>>] = Turn(num, ws, Walk(num, ws), v, i)
<1>0. MaxPages \in Nat /\ MaxPages > 0
  BY PageAssumption
<1>1. PICK S : S = {d \in Nat : \E f : Solves(num, ws, d - 1, f)}
  OBVIOUS
<1>2. 0 \in S
  <2>1. PICK f : f = [at \in Places |-> <<OffTheEnd>>]
    OBVIOUS
  <2>2. ASSUME NEW j \in Nat PROVE f[<<-1, j>>] = <<OffTheEnd>>
    <3>1. PICK at \in Places : at = <<-1, j>>
      <4>1. -1 \in -1 .. MaxPages - 1
        BY <1>0
      <4> QED BY <4>1, PlaceAt
    <3> QED BY <2>1, <3>1
  <2>3. Solves(num, ws, 0 - 1, f)
    <3>1. SUFFICES ASSUME NEW u \in -1 .. 0 - 1, NEW j \in Nat PROVE f[<<u, j>>] = Turn(num, ws, f, u, j)
      BY DEF Solves
    <3>2. u = -1
      OBVIOUS
    <3> QED BY <2>2, <3>2 DEF Turn
  <2> QED BY <1>1, <2>3
<1>3. ASSUME NEW d \in Nat, d < MaxPages, d \in S PROVE d + 1 \in S
  <2>1. PICK w \in -1 .. MaxPages - 2 : w = d - 1
    BY <1>0, <1>3
  <2>2. PICK f : Solves(num, ws, w, f)
    BY <1>1, <1>3, <2>1
  <2>3. \E g : Solves(num, ws, w + 1, g)
    BY <2>2, SolveNext
  <2>4. w + 1 = (d + 1) - 1 /\ d + 1 \in Nat
    BY <2>1
  <2> QED BY <1>1, <2>3, <2>4
<1>4. MaxPages \in S
  <2>1. \A d \in 0 .. MaxPages : d \in S
    BY <1>0, <1>2, <1>3, Upward
  <2> QED BY <1>0, <2>1
<1>5. PICK f : Solves(num, ws, MaxPages - 1, f)
  BY <1>1, <1>4
<1>6. PICK g : g = [at \in Places |-> f[at]]
  OBVIOUS
<1>7. ASSUME NEW u \in -1 .. MaxPages - 1, NEW j \in Nat PROVE g[<<u, j>>] = f[<<u, j>>]
  <2>1. PICK at \in Places : at = <<u, j>>
    BY DEF Places
  <2> QED BY <1>6, <2>1
<1>8. ASSUME NEW u \in -1 .. MaxPages - 1, NEW j \in Nat PROVE g[<<u, j>>] = Turn(num, ws, g, u, j)
  <2>1. g[<<u, j>>] = Turn(num, ws, f, u, j)
    BY <1>5, <1>7 DEF Solves
  <2>2. CASE u = -1
    BY <2>1, <2>2 DEF Turn
  <2>3. CASE u # -1
    <3>1. u \in Nat /\ u - 1 \in -1 .. MaxPages - 1
      BY <1>0, <2>3
    <3>2. PICK w \in -1 .. MaxPages - 1 : w = u - 1
      BY <3>1
    <3>3. \A n \in Nat : f[<<w, n>>] = g[<<w, n>>]
      BY <1>7
    <3>4. \A n \in Nat : f[<<u - 1, n>>] = g[<<u - 1, n>>]
      BY <3>2, <3>3
    <3> QED BY <2>1, <3>1, <3>4, TurnSame
  <2> QED BY <2>2, <2>3
<1>9. g = Turns(num, ws, g)
  <2>1. ASSUME NEW at \in Places PROVE g[at] = Turn(num, ws, g, at[1], at[2])
    <3>1. PICK u \in -1 .. MaxPages - 1, j \in Nat : at = <<u, j>> /\ at[1] = u /\ at[2] = j
      BY DEF Places
    <3> QED BY <1>8, <3>1
  <2>2. g = [at \in Places |-> g[at]]
    BY <1>6
  <2> QED BY <2>1, <2>2 DEF Turns
<1>10. PICK w : w = Walk(num, ws)
  OBVIOUS
<1>11. w = Turns(num, ws, w)
  BY <1>9, <1>10 DEF Walk
<1>12. PICK at \in Places : at = <<v, i>> /\ at[1] = v /\ at[2] = i
  BY PlaceAt
<1>13. Turns(num, ws, w)[at] = Turn(num, ws, w, v, i)
  BY <1>12 DEF Turns
<1> QED BY <1>10, <1>11, <1>12, <1>13

(* The pages that the walk does not skip.                                  *)
There(v) == User(pte[v]) /\ Mapped(pte[v])

(* The walk ends at page 0.                                                *)
LEMMA WalkLast ==
    ASSUME NEW num, NEW ws, NEW i \in Nat, There(0)
    PROVE  Walk(num, ws)[<<0, i>>] = Listed(0, ws)
<1>1. 0 \in -1 .. MaxPages - 1
  BY PageAssumption
<1>2. Walk(num, ws)[<<0, i>>] = Turn(num, ws, Walk(num, ws), 0, i)
  BY <1>1, WalkTurns
<1> QED BY <1>2 DEF Turn, There, Ends

(* A turn above page 0: it skips the page, ends the walk or goes on.       *)
LEMMA WalkNext ==
    ASSUME NEW num, NEW ws, NEW v \in Nat, v + 1 <= MaxPages - 1, NEW i \in Nat, NEW n \in Nat,
           n = i + Len(Listed(v + 1, ws))
    PROVE  Walk(num, ws)[<<v + 1, i>>] =
               IF ~There(v + 1) THEN Walk(num, ws)[<<v, i>>]
               ELSE IF n = num THEN Listed(v + 1, ws)
               ELSE Listed(v + 1, ws) \o Walk(num, ws)[<<v, n>>]
<1>1. PICK u \in -1 .. MaxPages - 1 : u = v + 1 /\ u # -1 /\ u # 0 /\ u - 1 = v
  BY PageAssumption
<1>2. Walk(num, ws)[<<u, i>>] = Turn(num, ws, Walk(num, ws), u, i)
  BY WalkTurns
<1>3. n = i + Len(Listed(u, ws))
  BY <1>1
<1>4. Turn(num, ws, Walk(num, ws), u, i) =
          IF ~There(u) THEN Walk(num, ws)[<<v, i>>]
          ELSE IF n = num THEN Listed(u, ws)
          ELSE Listed(u, ws) \o Walk(num, ws)[<<v, n>>]
  BY <1>1, <1>3 DEF Turn, There, Ends
<1> QED BY <1>1, <1>2, <1>4

(* What a caller gets whose num no number of entries is equal to.          *)
List(ws, v) == Walk(-1, ws)[<<v, 0>>]

(* Without a limit the entries filled so far make no difference.           *)
LEMMA NoLimit ==
    ASSUME NEW ws, There(0), NEW v \in Pages, NEW i \in Nat
    PROVE  Walk(-1, ws)[<<v, i>>] = List(ws, v)
<1>0. MaxPages \in Nat /\ MaxPages - 1 \in Nat /\ Pages = 0 .. MaxPages - 1
  BY PageAssumption DEF Pages
<1>1. PICK w : w = Walk(-1, ws)
  OBVIOUS
<1>2. PICK S : S = {d \in Nat : \A j, k \in Nat : w[<<d, j>>] = w[<<d, k>>]}
  OBVIOUS
<1>3. 0 \in S
  BY <1>1, <1>2, WalkLast
<1>4. ASSUME NEW d \in Nat, d < MaxPages - 1, d \in S PROVE d + 1 \in S
  <2>1. d + 1 <= MaxPages - 1 /\ d + 1 \in Nat
    BY <1>0, <1>4
  <2>2. PICK m \in Nat : m = Len(Listed(d + 1, ws))
    BY ListedLen
  <2>3. ASSUME NEW j \in Nat
        PROVE  w[<<d + 1, j>>] = IF ~There(d + 1) THEN w[<<d, 0>>] ELSE Listed(d + 1, ws) \o w[<<d, 0>>]
    <3>1. PICK n \in Nat : n = j + m
      OBVIOUS
    <3>2. n = j + Len(Listed(d + 1, ws)) /\ n # -1
      BY <2>2, <3>1
    <3>3. w[<<d, j>>] = w[<<d, 0>>] /\ w[<<d, n>>] = w[<<d, 0>>]
      BY <1>2, <1>4
    <3>4. w[<<d + 1, j>>] =
              IF ~There(d + 1) THEN w[<<d, j>>]
              ELSE IF n = -1 THEN Listed(d + 1, ws)
              ELSE Listed(d + 1, ws) \o w[<<d, n>>]
      BY <1>1, <2>1, <3>2, WalkNext
    <3> QED BY <3>2, <3>3, <3>4
  <2>4. \A j, k \in Nat : w[<<d + 1, j>>] = w[<<d + 1, k>>]
    BY <2>3
  <2> QED BY <1>2, <2>1, <2>4
<1>5. \A d \in 0 .. MaxPages - 1 : d \in S
  BY <1>0, <1>3, <1>4, Upward
<1>6. v \in S
  BY <1>0, <1>5
<1>7. w[<<v, i>>] = w[<<v, 0>>]
  BY <1>2, <1>6
<1> QED BY <1>1, <1>7 DEF List

(* The list without a limit: it ends with page 0.                          *)
LEMMA ListLast ==
    ASSUME NEW ws, There(0)
    PROVE  List(ws, 0) = Listed(0, ws)
  BY WalkLast DEF List

(* A page above 0 comes before the pages below it, unless it is skipped.   *)
LEMMA ListNext ==
    ASSUME NEW ws, There(0), NEW v \in Nat, v + 1 <= MaxPages - 1
    PROVE  List(ws, v + 1) = IF ~There(v + 1) THEN List(ws, v)
                             ELSE Listed(v + 1, ws) \o List(ws, v)
<1>1. PICK n \in Nat : n = 0 + Len(Listed(v + 1, ws)) /\ n # -1
  BY ListedLen
<1>2. v \in Pages
  BY PageAssumption DEF Pages
<1>3. Walk(-1, ws)[<<v, n>>] = List(ws, v)
  BY <1>2, NoLimit
<1>4. Walk(-1, ws)[<<v + 1, 0>>] =
          IF ~There(v + 1) THEN Walk(-1, ws)[<<v, 0>>]
          ELSE IF n = -1 THEN Listed(v + 1, ws)
          ELSE Listed(v + 1, ws) \o Walk(-1, ws)[<<v, n>>]
  BY <1>1, WalkNext
<1> QED BY <1>1, <1>3, <1>4 DEF List

(* y is s with e before it.                                                *)
Adds(y, e, s, T) ==
    /\ y \in Seq(T) /\ Len(y) = Len(s) + 1 /\ y[1] = e
    /\ \A j \in 1 .. Len(s) : y[j + 1] = s[j]

(* Concatenation with one entry.                                           *)
LEMMA AddOne ==
    ASSUME NEW T, NEW e \in T, NEW s \in Seq(T)
    PROVE  Adds(<<e>> \o s, e, s, T)
<1>1. PICK x \in Seq(T) : x = <<e>> /\ Len(x) = 1 /\ x[1] = e
  <2>1. <<e>> \in Seq(T) /\ Len(<<e>>) = 1 /\ <<e>>[1] = e
    OBVIOUS
  <2> QED BY <2>1
<1>2. PICK y : y = x \o s
  OBVIOUS
<1>3. PICK l \in Nat : l = Len(s)
  OBVIOUS
<1>4. y \in Seq(T) /\ Len(y) = 1 + l /\ \A i \in 1 .. 1 + l : y[i] = IF i <= 1 THEN x[i] ELSE s[i - 1]
  <2>1. /\ y \in Seq(T) /\ Len(y) = Len(x) + Len(s)
        /\ \A i \in 1 .. Len(x) + Len(s) : y[i] = IF i <= Len(x) THEN x[i] ELSE s[i - Len(x)]
    BY <1>2, ConcatProperties
  <2>2. Len(x) = 1
    BY <1>1
  <2> QED BY <1>3, <2>1, <2>2, Zenon
<1>5. y[1] = e
  BY <1>1, <1>4
<1>6. ASSUME NEW j \in 1 .. l PROVE y[j + 1] = s[j]
  <2>1. PICK i \in 1 .. 1 + l : i = j + 1 /\ ~(i <= 1) /\ i - 1 = j
    OBVIOUS
  <2>2. y[i] = s[i - 1]
    BY <1>4, <2>1
  <2> QED BY <2>1, <2>2
<1>7. Len(y) = l + 1
  BY <1>4
<1>8. Adds(y, e, s, T)
  BY <1>3, <1>4, <1>5, <1>6, <1>7 DEF Adds
<1> QED BY <1>1, <1>2, <1>8

(* The entries of pt_entries for the pages in S, each of them once.        *)
Entries == {PtEntry(u) : u \in Pages}
Lists(s, S) ==
    /\ s \in Seq(Entries) /\ PagesIn(s) = S
    /\ \A j, k \in 1 .. Len(s) : s[j].page = s[k].page => j = k

(* One more page.                                                          *)
LEMMA ListsMore ==
    ASSUME NEW s, NEW S, Lists(s, S), NEW v \in Pages, v \notin S
    PROVE  Lists(<<PtEntry(v)>> \o s, S \cup {v})
<1>1. PICK e \in Entries : e = PtEntry(v) /\ e.page = v
  <2>1. PtEntry(v) \in Entries
    BY DEF Entries
  <2>2. PtEntry(v).page = v
    BY DEF PtEntry
  <2> QED BY <2>1, <2>2
<1>2. s \in Seq(Entries) /\ PagesIn(s) = S
  BY DEF Lists
<1>3. PICK y : y = <<PtEntry(v)>> \o s
  OBVIOUS
<1>4. Adds(y, e, s, Entries)
  BY <1>1, <1>2, <1>3, AddOne
<1>5. PICK l \in Nat : l = Len(s)
  BY <1>2
<1>6. /\ y \in Seq(Entries) /\ Len(y) = l + 1 /\ y[1].page = v
      /\ \A j \in 1 .. l : y[j + 1] = s[j]
  BY <1>1, <1>4, <1>5 DEF Adds
<1>7. ASSUME NEW k \in 2 .. l + 1
      PROVE  /\ y[k].page = s[k - 1].page /\ k - 1 \in 1 .. l
             /\ y[k].page \in S
  <2>1. PICK j \in 1 .. l : j = k - 1 /\ k = j + 1
    BY <1>5
  <2>2. y[k] = s[j]
    BY <1>6, <2>1
  <2>3. s[j].page \in S
    BY <1>2, <1>5 DEF PagesIn
  <2> QED BY <2>1, <2>2, <2>3
<1>8. ASSUME NEW j \in 1 .. l + 1, NEW k \in 1 .. l + 1, y[j].page = y[k].page PROVE j = k
  <2>1. CASE j = 1 /\ k # 1
    <3>1. k \in 2 .. l + 1
      BY <2>1
    <3>2. y[k].page \in S
      BY <1>7, <3>1
    <3> QED BY <1>6, <1>8, <2>1, <3>2
  <2>2. CASE j # 1 /\ k = 1
    <3>1. j \in 2 .. l + 1
      BY <2>2
    <3>2. y[j].page \in S
      BY <1>7, <3>1
    <3> QED BY <1>6, <1>8, <2>2, <3>2
  <2>3. CASE j # 1 /\ k # 1
    <3>1. j \in 2 .. l + 1 /\ k \in 2 .. l + 1
      BY <2>3
    <3>2. PICK a \in 1 .. l, b \in 1 .. l : a = j - 1 /\ b = k - 1
      BY <3>1
    <3>3. s[a].page = s[b].page
      BY <1>7, <1>8, <3>1, <3>2
    <3>4. a = b
      BY <1>5, <3>3 DEF Lists
    <3> QED BY <3>1, <3>2, <3>4
  <2> QED BY <2>1, <2>2, <2>3
<1>9. PagesIn(y) = S \cup {v}
  <2>1. ASSUME NEW x \in PagesIn(y) PROVE x \in S \cup {v}
    <3>1. PICK k \in 1 .. l + 1 : x = y[k].page
      BY <1>6 DEF PagesIn
    <3>2. CASE k = 1
      BY <1>6, <3>1, <3>2
    <3>3. CASE k # 1
      <4>1. k \in 2 .. l + 1
        BY <3>3
      <4> QED BY <1>7, <3>1, <4>1
    <3> QED BY <3>2, <3>3
  <2>2. v \in PagesIn(y)
    <3>1. 1 \in 1 .. Len(y)
      BY <1>5, <1>6
    <3> QED BY <1>6, <3>1 DEF PagesIn
  <2>3. ASSUME NEW x \in S PROVE x \in PagesIn(y)
    <3>1. PICK j \in 1 .. l : x = s[j].page
      BY <1>2, <1>5 DEF PagesIn
    <3>2. PICK k \in 1 .. l + 1 : k = j + 1
      BY <1>5
    <3>3. y[k] = s[j] /\ k \in 1 .. Len(y)
      BY <1>6, <3>2
    <3> QED BY <3>1, <3>3 DEF PagesIn
  <2> QED BY <2>1, <2>2, <2>3
<1>10. Lists(y, S \cup {v})
  BY <1>6, <1>8, <1>9 DEF Lists
<1> QED BY <1>3, <1>10

(* No page.                                                                *)
LEMMA ListsNone == Lists(<<>>, {})
<1>1. <<>> \in Seq(Entries) /\ Len(<<>>) = 0
  OBVIOUS
<1>2. PagesIn(<<>>) = {}
  BY <1>1 DEF PagesIn
<1> QED BY <1>1, <1>2 DEF Lists

(* The pages up to v that a call lists.                                    *)
Wanted(ws, v) == {u \in 0 .. v : There(u) /\ Shown(u, ws)}

(* Page v before those below it.                                           *)
LEMMA ListedFirst ==
    ASSUME NEW ws, NEW v \in Pages, There(v), NEW s, NEW S, Lists(s, S), v \notin S
    PROVE  Lists(Listed(v, ws) \o s, IF Shown(v, ws) THEN S \cup {v} ELSE S)
<1>1. CASE Shown(v, ws)
  <2>1. Listed(v, ws) = <<PtEntry(v)>>
    BY <1>1 DEF Listed
  <2>2. Lists(<<PtEntry(v)>> \o s, S \cup {v})
    BY ListsMore
  <2> QED BY <1>1, <2>1, <2>2
<1>2. CASE ~Shown(v, ws)
  <2>1. Listed(v, ws) = <<>>
    BY <1>2 DEF Listed
  <2>2. s \in Seq(Entries)
    BY DEF Lists
  <2>3. <<>> \o s = s
    BY <2>2, ConcatEmptySeq
  <2> QED BY <1>2, <2>1, <2>3
<1> QED BY <1>1, <1>2

(* The list without a limit has these pages.                               *)
LEMMA ListPages ==
    ASSUME NEW ws, There(0), NEW v \in Pages
    PROVE  Lists(List(ws, v), Wanted(ws, v))
<1>0. MaxPages \in Nat /\ MaxPages - 1 \in Nat /\ Pages = 0 .. MaxPages - 1
  BY PageAssumption DEF Pages
<1>1. PICK S : S = {d \in Nat : Lists(List(ws, d), Wanted(ws, d))}
  OBVIOUS
<1>2. 0 \in S
  <2>1. Lists(Listed(0, ws) \o <<>>, IF Shown(0, ws) THEN {} \cup {0} ELSE {})
    <3>1. PICK u \in Pages : u = 0
      BY <1>0
    <3>2. PICK s, R : s = <<>> /\ R = {}
      OBVIOUS
    <3>3. There(u) /\ Lists(s, R) /\ u \notin R
      BY <3>1, <3>2, ListsNone
    <3>4. Lists(Listed(u, ws) \o s, IF Shown(u, ws) THEN R \cup {u} ELSE R)
      BY <3>3, ListedFirst
    <3> QED BY <3>1, <3>2, <3>4
  <2>2. Listed(0, ws) \o <<>> = Listed(0, ws)
    <3>1. Listed(0, ws) \in Seq({PtEntry(0)})
      <4>1. PICK e : e = PtEntry(0)
        OBVIOUS
      <4>2. <<e>> \in Seq({e}) /\ <<>> \in Seq({e})
        OBVIOUS
      <4> QED BY <4>1, <4>2 DEF Listed
    <3> QED BY <3>1, ConcatEmptySeq
  <2>3. Wanted(ws, 0) = IF Shown(0, ws) THEN {} \cup {0} ELSE {}
    BY DEF Wanted
  <2> QED BY <1>1, <2>1, <2>2, <2>3, ListLast
<1>3. ASSUME NEW d \in Nat, d < MaxPages - 1, d \in S PROVE d + 1 \in S
  <2>1. PICK u \in Pages : u = d + 1 /\ u \in Nat /\ u <= MaxPages - 1 /\ u \notin 0 .. d
    BY <1>0, <1>3
  <2>2. Lists(List(ws, d), Wanted(ws, d)) /\ u \notin Wanted(ws, d)
    BY <1>1, <1>3, <2>1 DEF Wanted
  <2>3. List(ws, u) = IF ~There(u) THEN List(ws, d) ELSE Listed(u, ws) \o List(ws, d)
    BY <2>1, ListNext
  <2>4. Wanted(ws, u) = IF There(u) /\ Shown(u, ws) THEN Wanted(ws, d) \cup {u} ELSE Wanted(ws, d)
    <3>1. 0 .. u = (0 .. d) \cup {u}
      BY <2>1
    <3> QED BY <3>1 DEF Wanted
  <2>5. CASE There(u)
    <3>1. Lists(Listed(u, ws) \o List(ws, d), IF Shown(u, ws) THEN Wanted(ws, d) \cup {u} ELSE Wanted(ws, d))
      BY <2>2, <2>5, ListedFirst
    <3>2. Lists(List(ws, u), Wanted(ws, u))
      BY <2>3, <2>4, <2>5, <3>1
    <3> QED BY <1>1, <2>1, <3>2
  <2>6. CASE ~There(u)
    <3>1. Lists(List(ws, u), Wanted(ws, u))
      BY <2>2, <2>3, <2>4, <2>6
    <3> QED BY <1>1, <2>1, <3>1
  <2> QED BY <2>5, <2>6
<1>4. \A d \in 0 .. MaxPages - 1 : d \in S
  BY <1>0, <1>2, <1>3, Upward
<1> QED BY <1>0, <1>1, <1>4

(* The first n entries.                                                    *)
Cut(s, n) == SubSeq(s, 1, Min({n, Len(s)}))

(* The smaller of two numbers.                                             *)
LEMMA MinPair ==
    ASSUME NEW a \in Nat, NEW b \in Nat
    PROVE  Min({a, b}) = IF a <= b THEN a ELSE b
<1>1. PICK m : m = IF a <= b THEN a ELSE b
  OBVIOUS
<1>2. m \in {a, b} /\ \A y \in {a, b} : m <= y
  BY <1>1
<1>3. \A x \in {a, b} : (\A y \in {a, b} : x <= y) => x = m
  BY <1>1
<1> QED BY <1>1, <1>2, <1>3 DEF Min

(* c is the first n entries of s.                                          *)
First(c, s, n, T) ==
    /\ c \in Seq(T) /\ Len(c) = IF n <= Len(s) THEN n ELSE Len(s)
    /\ \A j \in 1 .. Len(c) : c[j] = s[j]

(* What SubSeq leaves.                                                     *)
LEMMA CutIs ==
    ASSUME NEW T, NEW s \in Seq(T), NEW n \in Nat
    PROVE  First(Cut(s, n), s, n, T)
<1>1. PICK l \in Nat : l = Len(s)
  OBVIOUS
<1>2. PICK m \in Nat : m = (IF n <= l THEN n ELSE l) /\ m <= l
  BY <1>1
<1>3. Cut(s, n) = SubSeq(s, 1, m)
  BY <1>1, <1>2, MinPair DEF Cut
<1>4. \A i \in 1 .. m : s[i] \in T
  BY <1>1, <1>2
<1>5. PICK c : c = SubSeq(s, 1, m)
  OBVIOUS
<1>6. /\ c \in Seq(T) /\ Len(c) = IF 1 <= m THEN m - 1 + 1 ELSE 0
      /\ \A i \in 1 .. m - 1 + 1 : c[i] = s[1 + i - 1]
  BY <1>4, <1>5, SubSeqProperties
<1>7. Len(c) = m
  BY <1>2, <1>6
<1>8. ASSUME NEW j \in 1 .. m PROVE c[j] = s[j]
  <2>1. j \in 1 .. m - 1 + 1 /\ 1 + j - 1 = j
    BY <1>2
  <2> QED BY <1>6, <2>1
<1>9. First(c, s, n, T)
  BY <1>1, <1>2, <1>6, <1>7, <1>8 DEF First
<1> QED BY <1>3, <1>5, <1>9

(* Two sequences that are the first n entries of a third are equal.        *)
LEMMA FirstOnce ==
    ASSUME NEW T, NEW s \in Seq(T), NEW n \in Nat, NEW c, NEW d, First(c, s, n, T), First(d, s, n, T)
    PROVE  c = d
<1>1. c \in Seq(T) /\ d \in Seq(T) /\ Len(c) = Len(d)
  BY DEF First
<1>2. \A i \in 1 .. Len(c) : c[i] = d[i]
  BY <1>1 DEF First
<1> QED BY <1>1, <1>2, SeqEqual

(* Room for all.                                                           *)
LEMMA CutAll ==
    ASSUME NEW T, NEW s \in Seq(T), NEW n \in Nat, Len(s) <= n
    PROVE  Cut(s, n) = s
<1>1. First(s, s, n, T)
  BY DEF First
<1> QED BY <1>1, CutIs, FirstOnce

(* Room for none.                                                          *)
LEMMA CutNone ==
    ASSUME NEW T, NEW s \in Seq(T)
    PROVE  Cut(s, 0) = <<>>
<1>1. First(<<>>, s, 0, T)
  <2>1. <<>> \in Seq(T) /\ Len(<<>>) = 0 /\ Len(s) \in Nat
    OBVIOUS
  <2> QED BY <2>1 DEF First
<1> QED BY <1>1, CutIs, FirstOnce

(* Room for one entry more.                                                *)
LEMMA CutMore ==
    ASSUME NEW T, NEW e \in T, NEW s \in Seq(T), NEW n \in Nat
    PROVE  Cut(<<e>> \o s, n + 1) = <<e>> \o Cut(s, n)
<1>1. PICK y : y = <<e>> \o s
  OBVIOUS
<1>2. Adds(y, e, s, T)
  BY <1>1, AddOne
<1>3. PICK c : c = Cut(s, n)
  OBVIOUS
<1>4. First(c, s, n, T)
  BY <1>3, CutIs
<1>5. PICK d : d = <<e>> \o c
  OBVIOUS
<1>6. Adds(d, e, c, T)
  BY <1>4, <1>5, AddOne DEF First
<1>7. PICK l \in Nat, m \in Nat : l = Len(s) /\ m = Len(c) /\ m = (IF n <= l THEN n ELSE l) /\ m <= l
  BY <1>4 DEF First
<1>8. /\ y \in Seq(T) /\ Len(y) = l + 1 /\ y[1] = e /\ \A j \in 1 .. l : y[j + 1] = s[j]
  BY <1>2, <1>7 DEF Adds
<1>9. /\ d \in Seq(T) /\ Len(d) = m + 1 /\ d[1] = e /\ \A j \in 1 .. m : d[j + 1] = c[j]
  BY <1>6, <1>7 DEF Adds
<1>10. \A j \in 1 .. m : c[j] = s[j]
  BY <1>4, <1>7 DEF First
<1>11. ASSUME NEW k \in 1 .. m + 1 PROVE d[k] = y[k]
  <2>1. CASE k = 1
    BY <1>8, <1>9, <2>1
  <2>2. CASE k # 1
    <3>1. PICK j \in 1 .. m : k = j + 1 /\ j \in 1 .. l
      <4>1. k - 1 \in 1 .. m /\ k = (k - 1) + 1 /\ k - 1 \in 1 .. l
        BY <1>7, <2>2
      <4> QED BY <4>1
    <3> QED BY <1>8, <1>9, <1>10, <3>1
  <2> QED BY <2>1, <2>2
<1>12. First(d, y, n + 1, T)
  <2>1. m + 1 = IF n + 1 <= l + 1 THEN n + 1 ELSE l + 1
    BY <1>7
  <2> QED BY <1>8, <1>9, <1>11, <2>1 DEF First
<1>13. First(Cut(y, n + 1), y, n + 1, T)
  <2>1. n + 1 \in Nat
    OBVIOUS
  <2> QED BY <1>8, <2>1, CutIs
<1>14. Cut(y, n + 1) = d
  <2>1. PICK k \in Nat : k = n + 1
    OBVIOUS
  <2>2. First(d, y, k, T) /\ First(Cut(y, k), y, k, T)
    BY <1>12, <1>13, <2>1
  <2>3. Cut(y, k) = d
    BY <1>8, <2>2, FirstOnce
  <2> QED BY <2>1, <2>3
<1> QED BY <1>1, <1>3, <1>5, <1>14

(* The walk of a caller with room for num entries, i of them filled.       *)
LEMMA WalkCut ==
    ASSUME NEW ws, There(0), NEW num \in Nat, NEW v \in Pages, NEW i \in 0 .. num - 1
    PROVE  Walk(num, ws)[<<v, i>>] = Cut(List(ws, v), num - i)
<1>0. MaxPages \in Nat /\ MaxPages - 1 \in Nat /\ Pages = 0 .. MaxPages - 1
  BY PageAssumption DEF Pages
<1>1. PICK w : w = Walk(num, ws)
  OBVIOUS
<1>2. PICK S : S = {d \in Nat : \A j \in 0 .. num - 1 : w[<<d, j>>] = Cut(List(ws, d), num - j)}
  OBVIOUS
<1>3. 0 \in S
  <2>1. ASSUME NEW j \in 0 .. num - 1 PROVE w[<<0, j>>] = Cut(List(ws, 0), num - j)
    <3>1. w[<<0, j>>] = Listed(0, ws)
      BY <1>1, WalkLast
    <3>2. PICK s : s = Listed(0, ws) /\ s = List(ws, 0)
      BY ListLast
    <3>3. s \in Seq(Entries)
      BY <1>0, <3>2, ListPages DEF Lists
    <3>4. PICK n \in Nat : n = num - j /\ n >= 1
      OBVIOUS
    <3>5. Len(s) <= n
      <4>1. PICK k \in 0 .. 1 : k = Len(Listed(0, ws))
        BY ListedLen
      <4>2. k <= n
        <5>1. 1 <= n
          BY <3>4
        <5>2. k = 0 \/ k = 1
          OBVIOUS
        <5> QED BY <5>1, <5>2
      <4>3. Len(s) = k
        BY <3>2, <4>1, Zenon
      <4> QED BY <4>2, <4>3
    <3>6. Cut(s, n) = s
      BY <3>3, <3>5, CutAll
    <3> QED BY <3>1, <3>2, <3>4, <3>6
  <2> QED BY <1>2, <2>1
<1>4. ASSUME NEW d \in Nat, d < MaxPages - 1, d \in S PROVE d + 1 \in S
  <2>1. PICK u \in Pages : u = d + 1 /\ u \in Nat /\ d + 1 <= MaxPages - 1 /\ d \in Pages
    BY <1>0, <1>4
  <2>2. PICK s \in Seq(Entries) : s = List(ws, d)
    BY <2>1, ListPages DEF Lists
  <2>3. List(ws, u) = IF ~There(u) THEN s ELSE Listed(u, ws) \o s
    BY <2>1, <2>2, ListNext
  <2>4. \A j \in 0 .. num - 1 : w[<<d, j>>] = Cut(s, num - j)
    BY <1>2, <1>4, <2>2
  <2>5. ASSUME NEW j \in 0 .. num - 1 PROVE w[<<u, j>>] = Cut(List(ws, u), num - j)
    <3>1. PICK n \in Nat : n = j + Len(Listed(u, ws))
      BY ListedLen
    <3>2. w[<<u, j>>] = IF ~There(u) THEN w[<<d, j>>]
                        ELSE IF n = num THEN Listed(u, ws)
                        ELSE Listed(u, ws) \o w[<<d, n>>]
      <4>1. j \in Nat /\ n = j + Len(Listed(d + 1, ws))
        BY <2>1, <3>1
      <4>2. Walk(num, ws)[<<d + 1, j>>] =
                IF ~There(d + 1) THEN Walk(num, ws)[<<d, j>>]
                ELSE IF n = num THEN Listed(d + 1, ws)
                ELSE Listed(d + 1, ws) \o Walk(num, ws)[<<d, n>>]
        BY <2>1, <4>1, WalkNext
      <4> QED BY <1>1, <2>1, <4>2
    <3>3. CASE ~There(u)
      BY <2>3, <2>4, <3>2, <3>3
    <3>4. CASE There(u) /\ ~Shown(u, ws)
      <4>1. Listed(u, ws) = <<>>
        BY <3>4 DEF Listed
      <4>2. n = j /\ n # num
        BY <3>1, <4>1
      <4>3. PICK c : c = Cut(s, num - j)
        OBVIOUS
      <4>4. c \in Seq(Entries)
        BY <4>3, CutIs DEF First
      <4>5. <<>> \o c = c /\ <<>> \o s = s
        BY <4>4, ConcatEmptySeq
      <4> QED BY <2>3, <2>4, <3>2, <3>4, <4>1, <4>2, <4>3, <4>5
    <3>5. CASE There(u) /\ Shown(u, ws)
      <4>1. PICK e \in Entries : Listed(u, ws) = <<e>>
        BY <3>5 DEF Listed, Entries
      <4>2. n = j + 1
        BY <3>1, <4>1
      <4>3. PICK m \in Nat : m = num - n /\ num - j = m + 1
        BY <4>2
      <4>4. Cut(<<e>> \o s, m + 1) = <<e>> \o Cut(s, m)
        BY CutMore
      <4>5. List(ws, u) = <<e>> \o s
        BY <2>3, <3>5, <4>1
      <4>6. CASE n = num
        <5>1. m = 0 /\ w[<<u, j>>] = <<e>>
          BY <3>2, <3>5, <4>1, <4>3, <4>6
        <5>2. Cut(s, m) = <<>>
          BY <5>1, CutNone
        <5>3. <<e>> \in Seq(Entries)
          OBVIOUS
        <5>4. <<e>> \o <<>> = <<e>>
          BY <5>3, ConcatEmptySeq
        <5> QED BY <4>3, <4>4, <4>5, <5>1, <5>2, <5>4
      <4>7. CASE n # num
        <5>1. n \in 0 .. num - 1
          BY <4>2, <4>7
        <5>2. w[<<d, n>>] = Cut(s, m)
          BY <2>4, <4>3, <5>1
        <5>3. w[<<u, j>>] = <<e>> \o Cut(s, m)
          BY <3>2, <3>5, <4>1, <4>7, <5>2
        <5> QED BY <4>3, <4>4, <4>5, <5>3
      <4> QED BY <4>6, <4>7
    <3> QED BY <3>3, <3>4, <3>5
  <2> QED BY <1>2, <2>1, <2>5
<1>5. \A d \in 0 .. MaxPages - 1 : d \in S
  BY <1>0, <1>3, <1>4, Upward
<1> QED BY <1>0, <1>1, <1>2, <1>5
-----------------------------------------------------------------------------
(* A user page has a frame, encrypted or present.                          *)
Backed(t) == \A p \in Pages : User(t[p]) => Mapped(t[p])

(* mencrypt, mdecrypt and the clearing of PTE_A keep that.                 *)
LEMMA BackedKept ==
    ASSUME NEW t \in [Pages -> SUBSET Flags], Backed(t), NEW S
    PROVE  /\ Backed(EncPte(t, S)) /\ Backed(ClearA(t, S))
<1>1. ASSUME NEW p \in Pages, User(EncPte(t, S)[p]) PROVE Mapped(EncPte(t, S)[p])
  <2>1. CASE p \in ToEncrypt(t, S)
    <3>1. "E" \in EncPte(t, S)[p]
      BY <2>1 DEF EncPte
    <3> QED BY <3>1 DEF Mapped
  <2>2. CASE p \notin ToEncrypt(t, S)
    <3>1. EncPte(t, S)[p] = t[p]
      BY <2>2 DEF EncPte
    <3> QED BY <1>1, <3>1 DEF Backed
  <2> QED BY <2>1, <2>2
<1>2. ASSUME NEW p \in Pages, User(ClearA(t, S)[p]) PROVE Mapped(ClearA(t, S)[p])
  <2>1. ClearA(t, S)[p] = t[p] \/ ClearA(t, S)[p] = t[p] \ {"A"}
    BY DEF ClearA
  <2>2. User(t[p])
    BY <1>2, <2>1 DEF User
  <2>3. Mapped(t[p])
    BY <2>2 DEF Backed
  <2> QED BY <2>1, <2>3 DEF Mapped
<1> QED BY <1>1, <1>2 DEF Backed

(* exec gives a user page a frame.                                         *)
LEMMA ImageBacked ==
    ASSUME NEW t \in TextPages, NEW b \in Bytes, NEW s, NEW e, NEW m, NEW g,
           Image(t, b, s, e, m, g)
    PROVE  Backed(e)
<1>1. t \in Nat
  BY ProgramAssumption
<1>2. ImagePte(t) \in [Pages -> SUBSET Flags]
  BY DEF ImagePte, Flags
<1>3. Backed(ImagePte(t))
  <2>1. SUFFICES ASSUME NEW p \in Pages, User(ImagePte(t)[p]) PROVE Mapped(ImagePte(t)[p])
    BY DEF Backed
  <2>2. p \in Nat
    BY PageAssumption DEF Pages
  <2>3. ImagePte(t)[p] = {"P", "U"} \/ ImagePte(t)[p] = {"P"} \/ ImagePte(t)[p] = {}
    BY <1>1, <2>2, Zenon DEF ImagePte
  <2> QED BY <2>1, <2>3 DEF User, Mapped
<1> QED BY <1>2, <1>3, BackedKept DEF Image

(* Every step keeps that.                                                  *)
LEMMA BackedStep ==
    ASSUME WholePages, TypeOK, Backed(pte), [Next]_vars
    PROVE  Backed(pte')
<1>0. pte \in [Pages -> SUBSET Flags] /\ (acc # Idle => acc.page \in Pages)
  BY DEF TypeOK
<1>1. ASSUME NEW v \in Pages, NEW f, pte' = [pte EXCEPT ![v] = f], User(f) => Mapped(f) PROVE Backed(pte')
  BY <1>0, <1>1 DEF Backed
<1>2. CASE Complete
  <2>1. PICK v \in Pages : v = acc.page /\ pte' = [pte EXCEPT ![v] = pte[v] \cup {"A"}]
    BY <1>0, <1>2 DEF Complete, Touch
  <2>2. User(pte[v] \cup {"A"}) => Mapped(pte[v] \cup {"A"})
    BY DEF Backed, User, Mapped
  <2> QED BY <1>1, <2>1, <2>2
<1>3. CASE FaultZeroByte
  <2>1. PICK v \in Pages : v = acc.page /\ pte' = [pte EXCEPT ![v] = (pte[v] \ {"E"}) \cup {"P"}]
    BY <1>0, <1>3 DEF FaultZeroByte, Faulting
  <2>2. Mapped((pte[v] \ {"E"}) \cup {"P"})
    BY DEF Mapped
  <2> QED BY <1>1, <2>1, <2>2
<1>4. ASSUME Faulting
      PROVE  DecPte(acc.page) \in [Pages -> SUBSET Flags] /\ Backed(DecPte(acc.page))
  <2>1. PICK v \in Pages : v = acc.page
    BY <1>0, <1>4 DEF Faulting
  <2>2. DecPte(v) = [pte EXCEPT ![v] = (pte[v] \ {"E"}) \cup {"P", "A"}]
    BY <1>0 DEF DecPte
  <2>3. Mapped((pte[v] \ {"E"}) \cup {"P", "A"})
    BY DEF Mapped
  <2>4. DecPte(v) \in [Pages -> SUBSET Flags]
    BY <1>0, <2>2 DEF Flags
  <2>5. ASSUME NEW p \in Pages, User(DecPte(v)[p]) PROVE Mapped(DecPte(v)[p])
    BY <1>0, <2>2, <2>3, <2>5 DEF Backed
  <2>6. Backed(DecPte(v))
    BY <2>5 DEF Backed
  <2> QED BY <2>1, <2>4, <2>6
<1>5. CASE FaultFirst \/ FaultAppend
  BY <1>4, <1>5 DEF FaultFirst, FaultAppend, Decrypting
<1>6. CASE FaultEvict
  <2>1. PICK k \in 0 .. CLOCKSIZE : Evict(k)
    BY <1>6 DEF FaultEvict
  <2>2. PICK d : d = DecPte(acc.page)
    OBVIOUS
  <2>3. d \in [Pages -> SUBSET Flags] /\ Backed(d)
    BY <1>4, <1>6, <2>2 DEF FaultEvict, Decrypting
  <2>4. PICK S : S = {nodes[Pos(j)] : j \in 0 .. k - 1}
    OBVIOUS
  <2>5. PICK c : c = ClearA(d, S)
    OBVIOUS
  <2>6. c \in [Pages -> SUBSET Flags]
    BY <2>3, <2>5 DEF ClearA
  <2>7. Backed(c)
    BY <2>3, <2>5, BackedKept
  <2>8. pte' = EncPte(c, {nodes[Pos(k)]})
    BY <2>1, <2>2, <2>4, <2>5 DEF Evict
  <2> QED BY <2>6, <2>7, <2>8, BackedKept
<1>7. ASSUME NEW v \in Pages, NEW len \in 1 .. MaxLen, sys_mencrypt(v, len) PROVE Backed(pte')
  BY <1>0, <1>7, BackedKept DEF sys_mencrypt
<1>8. ASSUME NEW n \in SbrkArgs, "sbrk" \in Ops, growproc(n) PROVE Backed(pte')
  <2>1. n > 0 /\ n \in Int
    BY <1>8, ProgramAssumption DEF WholePages
  <2>2. Grow(n)
    BY <1>8, <2>1 DEF growproc
  <2>3. PICK N, t, S : /\ t = [p \in Pages |-> IF p \in N THEN {"P", "U"} ELSE pte[p]]
                       /\ pte' = EncPte(t, S)
    BY <2>2 DEF Grow
  <2>4. t \in [Pages -> SUBSET Flags]
    BY <1>0, <2>3 DEF Flags
  <2>5. Backed(t)
    BY <1>0, <2>3 DEF Backed, Mapped
  <2> QED BY <2>3, <2>4, <2>5, BackedKept
<1>9. ASSUME NEW t \in TextPages, NEW b \in Bytes, exec(t, b) PROVE Backed(pte')
  BY <1>9, ImageBacked DEF exec
<1>10. CASE pte' = pte
  BY <1>10
<1> QED
  BY <1>2, <1>3, <1>5, <1>6, <1>7, <1>8, <1>9, <1>10
  DEF Next, PageFault, Issue, FaultRefused, FaultOverrun, vars, WholePages

(* User pages are below sz and have frames.                                *)
PlaceInv == (status = "run" => Below(pte, sz)) /\ Backed(pte)

(* That holds in every reachable state of such a program.                  *)
LEMMA PlaceAlways ==
    ASSUME WholePages
    PROVE  Spec => [](TypeOK /\ TrackInv /\ PlaceInv)
<1>1. Init => PlaceInv
  BY ImageBelow, ImageBacked DEF Init, PlaceInv
<1>2. ASSUME TypeOK, TrackInv, PlaceInv, [Next]_vars PROVE PlaceInv'
  <2>1. status' = "run" => status = "run"
    BY <1>2
    DEF Next, vars, Issue, Complete, PageFault, FaultRefused, FaultZeroByte, FaultFirst,
        FaultAppend, FaultOverrun, FaultEvict, Decrypting, Faulting, sys_mencrypt,
        growproc, Running, fork, ForkPanic, exec
  <2>2. status' = "run" => Below(pte', sz')
    BY <1>2, <2>1, BelowStep DEF PlaceInv
  <2>3. Backed(pte')
    BY <1>2, BackedStep DEF PlaceInv
  <2> QED BY <2>2, <2>3 DEF PlaceInv, Backed, Below
<1> QED BY <1>1, <1>2, TrackAlways, PTL DEF Spec

(* As many entries as pages.                                               *)
LEMMA ListsLen ==
    ASSUME NEW s, NEW S, Lists(s, S)
    PROVE  IsFiniteSet(S) /\ Cardinality(S) = Len(s)
<1>1. PICK l \in Nat : l = Len(s)
  BY DEF Lists
<1>2. IsFiniteSet(1 .. l) /\ Cardinality(1 .. l) = l
  <2>1. 1 \in Int /\ l \in Int
    OBVIOUS
  <2>2. IsFiniteSet(1 .. l) /\ Cardinality(1 .. l) = IF 1 > l THEN 0 ELSE l - 1 + 1
    BY <2>1, FS_Interval
  <2> QED BY <2>2
<1>3. PICK f : f = [j \in 1 .. l |-> s[j].page]
  OBVIOUS
<1>4. S = {s[j].page : j \in 1 .. l}
  BY <1>1 DEF Lists, PagesIn
<1>5. f \in Surjection(1 .. l, S)
  BY <1>3, <1>4 DEF Surjection
<1>6. f \in Injection(1 .. l, S)
  <2>1. f \in [1 .. l -> S] /\ \A j \in 1 .. l : f[j] = s[j].page
    BY <1>3, <1>4
  <2>2. \A j, k \in 1 .. l : s[j].page = s[k].page => j = k
    BY <1>1 DEF Lists
  <2>3. \A j, k \in 1 .. l : f[j] = f[k] => j = k
    BY <2>1, <2>2
  <2> QED BY <2>1, <2>3 DEF Injection, IsInjective
<1> QED BY <1>1, <1>2, <1>5, <1>6, FS_Surjection

(* getpgtable lists every page that is in the clear, once, in an answer    *)
(* cut off at num, for every program that grows by whole pages and every   *)
(* size of its memory.                                                     *)
THEOREM Reported ==
    ASSUME WholePages
    PROVE  Spec => []WorkingSetReported
<1>1. ASSUME TypeOK, TrackInv, PlaceInv PROVE WorkingSetReported
  <2> SUFFICES ASSUME CanAsk PROVE
        LET set == getpgtable(MaxPages, 1)
            table == getpgtable(MaxPages, 0)
        IN  /\ Decrypted \subseteq PagesIn(set)
            /\ Len(set) = Cardinality(PagesIn(set)) /\ Len(set) \leq CLOCKSIZE
            /\ PagesIn(set) \subseteq PagesIn(table)
            /\ PagesIn(table) = {v \in Pages : v * PGSIZE < sz /\ User(pte[v])}
            /\ \A num \in 1 .. MaxPages :
                  getpgtable(num, 1) = SubSeq(set, 1, Min({num, Len(set)}))
    BY DEF WorkingSetReported
  <2>0. MaxPages \in Nat /\ MaxPages > 0 /\ PGSIZE \in Nat /\ PGSIZE > 0 /\ Pages = 0 .. MaxPages - 1
    BY PageAssumption DEF Pages
  <2>1. There(0) /\ status = "run"
    BY DEF CanAsk, There, Running
  <2>2. PICK a \in Nat : sz = a * PGSIZE /\ \A p \in Pages : User(pte[p]) => p < a
    BY <1>1, <2>1 DEF PlaceInv, Below
  <2>3. a > 0 /\ a <= MaxPages
    <3>1. 0 < a
      BY <2>0, <2>1, <2>2 DEF There
    <3>2. a * PGSIZE <= MaxPages * PGSIZE
      BY <1>1, <2>2 DEF TypeOK
    <3>3. a <= MaxPages
      BY <2>0, <3>2
    <3> QED BY <3>1, <3>3
  <2>4. PICK v \in Pages : v = Top /\ v = a - 1
    <3>1. Top = a - 1
      BY <2>2, PgUpWhole DEF Top
    <3> QED BY <2>0, <2>3, <3>1
  <2>5. PICK set : set = List(1, v)
    OBVIOUS
  <2>6. PICK table : table = List(0, v)
    OBVIOUS
  <2>7. Lists(set, Wanted(1, v)) /\ Lists(table, Wanted(0, v))
    BY <2>1, <2>5, <2>6, ListPages
  <2>8. IsFiniteSet(Pages) /\ Cardinality(Pages) = MaxPages
    BY <2>0, FS_Interval, 0 \in Int, MaxPages - 1 \in Int
  <2>9. ASSUME NEW ws, NEW s, Lists(s, Wanted(ws, v)) PROVE Len(s) <= MaxPages /\ s \in Seq(Entries)
    <3>1. Wanted(ws, v) \in SUBSET Pages
      BY <2>0, <2>4 DEF Wanted
    <3>2. IsFiniteSet(Wanted(ws, v)) /\ Cardinality(Wanted(ws, v)) = Len(s)
      BY <2>9, ListsLen
    <3>3. Cardinality(Wanted(ws, v)) <= MaxPages
      BY <2>8, <3>1, FS_Subset
    <3> QED BY <2>9, <3>2, <3>3 DEF Lists
  <2>10. ASSUME NEW ws, NEW num \in 1 .. MaxPages PROVE getpgtable(num, ws) = Cut(List(ws, v), num)
    <3>1. num \in Nat /\ 0 \in 0 .. num - 1 /\ num - 0 = num
      BY <2>0
    <3>2. Walk(num, ws)[<<v, 0>>] = Cut(List(ws, v), num - 0)
      BY <2>1, <3>1, WalkCut
    <3> QED BY <2>4, <3>1, <3>2, WalkIs
  <2>11. getpgtable(MaxPages, 1) = set /\ getpgtable(MaxPages, 0) = table
    <3>1. MaxPages \in 1 .. MaxPages
      BY <2>0
    <3>2. Cut(set, MaxPages) = set /\ Cut(table, MaxPages) = table
      BY <2>0, <2>7, <2>9, CutAll
    <3> QED BY <2>5, <2>6, <2>10, <3>1, <3>2
  <2>12. PagesIn(set) = Wanted(1, v) /\ PagesIn(table) = Wanted(0, v)
    BY <2>7 DEF Lists
  <2>13. Decrypted \subseteq Wanted(1, v)
    <3>1. SUFFICES ASSUME NEW p \in Pages, Plain(pte[p]) PROVE p \in Wanted(1, v)
      BY DEF Decrypted
    <3>2. There(p)
      BY <3>1 DEF Plain, There, User, Mapped
    <3>3. InQueue(p)
      BY <1>1, <2>1, <3>1 DEF TrackInv, InQueue
    <3>4. p \in 0 .. v
      BY <2>0, <2>2, <2>4, <3>2 DEF There
    <3> QED BY <3>2, <3>3, <3>4 DEF Wanted, Shown
  <2>14. Len(set) = Cardinality(Wanted(1, v)) /\ Len(set) <= CLOCKSIZE
    <3>1. IsFiniteSet(Slots) /\ Cardinality(Slots) = CLOCKSIZE
      BY FS_Interval, ClockAssumption, 0 \in Int, CLOCKSIZE - 1 \in Int DEF Slots
    <3>2. PICK T : T = {nodes[i] : i \in Slots}
      OBVIOUS
    <3>3. nodes \in Surjection(Slots, T)
      BY <1>1, <3>2 DEF TypeOK, Surjection
    <3>4. IsFiniteSet(T) /\ Cardinality(T) \leq CLOCKSIZE
      BY <3>1, <3>3, FS_Surjection
    <3>5. Wanted(1, v) \in SUBSET T
      <4>1. SUFFICES ASSUME NEW p \in Wanted(1, v) PROVE p \in T
        OBVIOUS
      <4>2. PICK i \in 0 .. inClock - 1 : nodes[i] = p
        BY DEF Wanted, Shown, InQueue
      <4>3. i \in Slots
        BY <1>1, <4>2, ClockAssumption DEF TypeOK, Slots
      <4> QED BY <3>2, <4>2, <4>3
    <3>6. Cardinality(Wanted(1, v)) <= Cardinality(T)
      BY <3>4, <3>5, FS_Subset
    <3>7. Cardinality(Wanted(1, v)) = Len(set)
      BY <2>7, ListsLen
    <3>8. Len(set) \in Nat /\ Cardinality(T) \in Nat /\ CLOCKSIZE \in Nat
      BY <2>7, <3>4, FS_CardinalityType, ClockAssumption DEF Lists
    <3> QED BY <3>4, <3>6, <3>7, <3>8
  <2>15. Wanted(1, v) \subseteq Wanted(0, v)
    BY DEF Wanted, Shown
  <2>16. Wanted(0, v) = {p \in Pages : p * PGSIZE < sz /\ User(pte[p])}
    <3>1. ASSUME NEW p \in Pages, User(pte[p])
          PROVE  p \in 0 .. v /\ p * PGSIZE < sz /\ Mapped(pte[p])
      <4>1. p \in Nat /\ p < a
        BY <2>0, <2>2, <3>1
      <4>2. p * PGSIZE < a * PGSIZE
        BY <2>0, <4>1
      <4>3. p \in 0 .. v
        BY <2>4, <4>1
      <4> QED BY <1>1, <2>2, <3>1, <4>2, <4>3 DEF PlaceInv, Backed
    <3>2. 0 .. v \subseteq Pages
      BY <2>0, <2>4
    <3> QED BY <3>1, <3>2 DEF Wanted, There, Shown
  <2>17. \A num \in 1 .. MaxPages : getpgtable(num, 1) = SubSeq(set, 1, Min({num, Len(set)}))
    BY <2>5, <2>10 DEF Cut
  <2> QED BY <2>11, <2>12, <2>13, <2>14, <2>15, <2>16, <2>17
<1>2. TypeOK /\ TrackInv /\ PlaceInv => WorkingSetReported
  BY <1>1
<1> QED BY <1>2, PlaceAlways, PTL
=============================================================================
