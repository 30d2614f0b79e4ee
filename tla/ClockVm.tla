------------------------------ MODULE ClockVm ------------------------------
(***************************************************************************)
(* The encrypted user memory of one xv6 process: its page table entries,   *)
(* the raw contents of its frames, and the clock queue of decrypted pages  *)
(* (struct proc: nodes, inClock, currInd).  Pages are encrypted by exec,   *)
(* growproc and the mencrypt system call, and decrypted by the page fault  *)
(* handler (trap -> mdecrypt), which evicts with the clock algorithm once  *)
(* CLOCKSIZE pages are decrypted.                                          *)
(*                                                                         *)
(* A process is single threaded and mdecrypt runs with interrupts off, so  *)
(* a fault is one step; between the access that faults and the retry that  *)
(* completes, the access is in progress (acc).  fork is followed into the  *)
(* child: the two address spaces share nothing afterwards.                 *)
(*                                                                         *)
(* A page is represented by its first byte: every byte of a page goes      *)
(* through the same XOR, and the first one is the only one the code tests  *)
(* (vm.c:467).  All user pages lie under one page table, so walkpgdir      *)
(* never returns 0 for them.                                               *)
(***************************************************************************)
EXTENDS Integers, FiniteSets

CONSTANTS
    CLOCKSIZE,  \* slots of the clock queue (param.h)
    PGSIZE,     \* bytes of a page
    MaxPages,   \* bound: pages of the address space
    MAXBYTE,    \* a byte is 0 .. MAXBYTE; XOR 0xFF is MAXBYTE - b
    UINT,       \* modulus of uint arithmetic on sizes
    Ops,        \* what the program does: a subset of AllOps
    SbrkArgs,   \* arguments it gives sbrk
    Bytes,      \* bytes that programs and files contain
    TextPages,  \* sizes, in pages, of the images it execs
    MaxLen,     \* bound: length argument of mencrypt
    MaxInd,     \* bound: currInd of a forked child
    Stale       \* leftovers of the slot's previous owner in unused nodes

NoPage == -1                            \* (char *)-1 in a node
Pages == 0 .. MaxPages - 1
Slots == 0 .. CLOCKSIZE - 1
Byte == 0 .. MAXBYTE
Flags == {"P", "E", "U", "A"}           \* PTE_P, PTE_E, PTE_U, PTE_A
Loads == {"load", "kload"}
UserOps == {"load", "store"}
KernelOps == {"kload", "kstore", "dump", "dump_unaligned"}
AllOps == UserOps \cup KernelOps \cup {"sbrk", "fork", "exec", "mencrypt"}

ASSUME ClockAssumption == CLOCKSIZE \in Nat \ {0}
ASSUME PageAssumption == PGSIZE \in Nat \ {0} /\ MaxPages \in Nat \ {0}
ASSUME ByteAssumption ==
    MAXBYTE \in Nat \ {0} /\ MAXBYTE % 2 = 1 /\ Bytes \subseteq Byte
ASSUME UintAssumption == UINT \in Nat /\ UINT > 2 * MaxPages * PGSIZE
ASSUME ProgramAssumption ==
    /\ Ops \subseteq AllOps
    /\ SbrkArgs \subseteq Int
    /\ \A n \in SbrkArgs : -UINT < n /\ n < UINT
    /\ TextPages \subseteq Nat \ {0}
    /\ \A t \in TextPages : t + 2 \leq MaxPages
ASSUME BoundAssumption ==
    /\ MaxLen \in Nat
    /\ MaxInd \in Nat /\ MaxInd \geq CLOCKSIZE
    /\ Stale \subseteq Pages \cup {NoPage}

VARIABLES
    sz,       \* proc->sz, in bytes
    pte,      \* flags of each page's entry; {} is an unmapped page
    mem,      \* first byte of each page's frame, as it is in RAM (0 if unmapped)
    prog,     \* history: the byte the program believes is there
    nodes,    \* proc->nodes[i].pageAddr, as a page number
    inClock,  \* proc->inClock
    currInd,  \* proc->currInd
    acc,      \* the memory access in progress, or Idle
    status    \* "run", or how the process or the kernel ended

vars == <<sz, pte, mem, prog, nodes, inClock, currInd, acc, status>>

Idle == [op |-> "idle", page |-> 0, byte |-> 0]
Running == status = "run" /\ acc = Idle
InKernel == acc.op \in KernelOps

Flip(b) == MAXBYTE - b
PgUp(a) == (a + PGSIZE - 1) \div PGSIZE
Addr(p) == IF p = NoPage THEN UINT - 1 ELSE p * PGSIZE
User(f) == "U" \in f
Mapped(f) == f \cap {"P", "E"} # {}
Plain(f) == {"P", "U"} \subseteq f
Decrypted == {p \in Pages : Plain(pte[p])}
-----------------------------------------------------------------------------
(***************************************************************************)
(* mencrypt on the pages S: those that are not user pages, and those       *)
(* already encrypted, are skipped.  t and m are the entries and the frames *)
(* it starts from.                                                         *)
(***************************************************************************)
\* Mutant: pages that are already encrypted are not skipped.
ToEncryptAgain(t, S) == {p \in S \cap Pages : User(t[p])}

ToEncrypt(t, S) == {p \in S \cap Pages : User(t[p]) /\ "E" \notin t[p]}

EncPte(t, S) ==
    [p \in Pages |-> IF p \in ToEncrypt(t, S)
                     THEN (t[p] \ {"A", "P"}) \cup {"E"} ELSE t[p]]

EncMem(t, m, S) ==
    [p \in Pages |-> IF p \in ToEncrypt(t, S) THEN Flip(m[p]) ELSE m[p]]

(***************************************************************************)
(* What exec builds: t text pages with the file's bytes, an inaccessible   *)
(* guard page, a stack page; everything a user may touch is encrypted.     *)
(***************************************************************************)
ImageSize(t) == (t + 2) * PGSIZE

ImagePte(t) ==
    [p \in Pages |-> CASE p < t     -> {"P", "U"}
                       [] p = t     -> {"P"}
                       [] p = t + 1 -> {"P", "U"}
                       [] OTHER     -> {}]

ImageMem(t, b) == [p \in Pages |-> IF p < t THEN b ELSE 0]

\* Mutant: the last page of the image is left in the clear.
ImageShort(t, b, s, e, m, g) ==
    /\ s = ImageSize(t)
    /\ e = EncPte(ImagePte(t), 0 .. t)
    /\ m = EncMem(ImagePte(t), ImageMem(t, b), 0 .. t)
    /\ g = ImageMem(t, b)

Image(t, b, s, e, m, g) ==
    /\ s = ImageSize(t)
    /\ e = EncPte(ImagePte(t), 0 .. t + 1)
    /\ m = EncMem(ImagePte(t), ImageMem(t, b), 0 .. t + 1)
    /\ g = ImageMem(t, b)

(* A process that has just exec'd its first image, in a slot of ptable     *)
(* that may have been used before.                                         *)
Init ==
    /\ \E t \in TextPages, b \in Bytes : Image(t, b, sz, pte, mem, prog)
    /\ nodes \in [Slots -> Stale]
    /\ inClock = 0
    /\ currInd = 0
    /\ acc = Idle
    /\ status = "run"
-----------------------------------------------------------------------------
(***************************************************************************)
(* Memory accesses.  A user access may name any page.  A system call has   *)
(* its pointer checked against sz (argptr, argstr, fetchint) before the    *)
(* kernel follows it.  dump_rawphymem touches the first byte of its buffer *)
(* and then copies a whole page into it through the kernel's own mapping.  *)
(***************************************************************************)
Allowed(op, v) ==
    /\ op \in KernelOps => v * PGSIZE < sz
    /\ op = "dump" => (v + 1) * PGSIZE \leq sz
    /\ op = "dump_unaligned" => (v + 1) * PGSIZE + 1 \leq sz

Issue(op, v, b) ==
    /\ Running
    /\ Allowed(op, v)
    /\ acc' = [op |-> op, page |-> v, byte |-> IF op \in Loads THEN 0 ELSE b]
    /\ UNCHANGED <<sz, pte, mem, prog, nodes, inClock, currInd, status>>

(* The MMU lets the access through.                                        *)
Hit == IF InKernel THEN "P" \in pte[acc.page] ELSE Plain(pte[acc.page])

Touch(t, v) == [t EXCEPT ![v] = @ \cup {"A"}]

Load ==
    /\ acc.op \in Loads
    /\ UNCHANGED <<mem, prog>>

Store ==
    /\ acc.op \in {"store", "kstore"}
    /\ mem' = [mem EXCEPT ![acc.page] = acc.byte]
    /\ prog' = [prog EXCEPT ![acc.page] = acc.byte]

(* copyout writes the frame of the page whose first byte the buffer        *)
(* covers: the touched page, or the one after it.                          *)
Dump ==
    /\ acc.op \in {"dump", "dump_unaligned"}
    /\ LET w == IF acc.op = "dump" THEN acc.page ELSE acc.page + 1
       IN IF User(pte[acc.page]) /\ User(pte[w]) /\ Mapped(pte[w])
          THEN /\ mem' = [mem EXCEPT ![w] = acc.byte]
               /\ prog' = [prog EXCEPT ![w] = acc.byte]
          ELSE UNCHANGED <<mem, prog>>

Complete ==
    /\ status = "run" /\ acc # Idle
    /\ Hit
    /\ Load \/ Store \/ Dump
    /\ pte' = Touch(pte, acc.page)
    /\ acc' = Idle
    /\ UNCHANGED <<sz, nodes, inClock, currInd, status>>
-----------------------------------------------------------------------------
(***************************************************************************)
(* The page fault: trap calls mdecrypt on the faulting page v; a failure   *)
(* panics the kernel if the fault was taken in kernel mode and otherwise   *)
(* kills the process.                                                      *)
(***************************************************************************)
Faulting == status = "run" /\ acc # Idle /\ ~Hit
Request(f) == {"E", "U"} \subseteq f
FaultStatus == IF InKernel THEN "panic" ELSE "killed"

(* Entry and frame of v once mdecrypt has cleared PTE_E, set PTE_P and run *)
(* over the page, which sets PTE_A.                                        *)
\* Mutant: the entry is not made present again.
DecPteAbsent(v) == [pte EXCEPT ![v] = (@ \ {"E"}) \cup {"A"}]

DecPte(v) == [pte EXCEPT ![v] = (@ \ {"E"}) \cup {"P", "A"}]
DecMem(v) == [mem EXCEPT ![v] = Flip(@)]

(* Not a decryption request: mdecrypt returns -1 at once.                  *)
FaultRefused ==
    /\ Faulting
    /\ ~Request(pte[acc.page])
    /\ status' = FaultStatus
    /\ UNCHANGED <<sz, pte, mem, prog, nodes, inClock, currInd, acc>>

(* The frame's first byte is 0: mdecrypt gives up after it has changed the *)
(* entry's flags.                                                          *)
FaultZeroByte ==
    /\ Faulting
    /\ Request(pte[acc.page])
    /\ mem[acc.page] = 0
    /\ pte' = [pte EXCEPT ![acc.page] = (@ \ {"E"}) \cup {"P"}]
    /\ status' = FaultStatus
    /\ UNCHANGED <<sz, mem, prog, nodes, inClock, currInd, acc>>

Decrypting == Faulting /\ Request(pte[acc.page]) /\ mem[acc.page] # 0

(* The clock queue is empty.                                               *)
FaultFirst ==
    /\ Decrypting
    /\ inClock = 0
    /\ pte' = DecPte(acc.page)
    /\ mem' = DecMem(acc.page)
    /\ nodes' = [nodes EXCEPT ![0] = acc.page]
    /\ inClock' = 1
    /\ currInd' = 1
    /\ UNCHANGED <<sz, prog, acc, status>>

\* Mutant: the test for a full queue is off by one.
FaultAppendFull ==
    /\ Decrypting
    /\ inClock > 0 /\ inClock \leq CLOCKSIZE
    /\ currInd \in Slots
    /\ pte' = DecPte(acc.page)
    /\ mem' = DecMem(acc.page)
    /\ nodes' = [nodes EXCEPT ![currInd] = acc.page]
    /\ inClock' = inClock + 1
    /\ currInd' = currInd + 1
    /\ UNCHANGED <<sz, prog, acc, status>>

\* Mutant: the new entry is not counted.
FaultAppendUncounted ==
    /\ Decrypting
    /\ inClock > 0 /\ inClock < CLOCKSIZE
    /\ currInd \in Slots
    /\ pte' = DecPte(acc.page)
    /\ mem' = DecMem(acc.page)
    /\ nodes' = [nodes EXCEPT ![currInd] = acc.page]
    /\ currInd' = currInd + 1
    /\ UNCHANGED <<sz, prog, inClock, acc, status>>

(* The queue has room: the page goes where currInd points.  The code does  *)
(* not check that this is inside the array.                                *)
FaultAppend ==
    /\ Decrypting
    /\ inClock > 0 /\ inClock < CLOCKSIZE
    /\ currInd \in Slots
    /\ pte' = DecPte(acc.page)
    /\ mem' = DecMem(acc.page)
    /\ nodes' = [nodes EXCEPT ![currInd] = acc.page]
    /\ inClock' = inClock + 1
    /\ currInd' = currInd + 1
    /\ UNCHANGED <<sz, prog, acc, status>>

(* ... and when it is not, the node is written over inClock, currInd and   *)
(* the next process's sz: nothing is known of the state any more.          *)
FaultOverrun ==
    /\ Decrypting
    /\ inClock > 0 /\ inClock < CLOCKSIZE
    /\ currInd \notin Slots
    /\ status' = "overrun"
    /\ UNCHANGED <<sz, pte, mem, prog, nodes, inClock, currInd, acc>>

(* The clock scan.  Position k is k steps after currInd; positions up to   *)
(* CLOCKSIZE cover the first pass and the start of the second.  The scan   *)
(* clears PTE_A as it goes, so it stops at the first entry whose page was  *)
(* not accessed, or was already seen.                                      *)
Pos(k) == (currInd + k) % CLOCKSIZE

Stops(t, k) ==
    LET p == nodes[Pos(k)]
    IN p # NoPage /\ "A" \in t[p] => \E j \in 0 .. k - 1 : nodes[Pos(j)] = p

ClearA(t, S) == [p \in Pages |-> IF p \in S THEN t[p] \ {"A"} ELSE t[p]]

\* Mutant: the victim is dropped from the queue but stays decrypted.
EvictUnencrypted(k) ==
    LET t == DecPte(acc.page)
    IN /\ Stops(t, k)
       /\ \A j \in 0 .. k - 1 : ~Stops(t, j)
       /\ pte' = ClearA(t, {nodes[Pos(j)] : j \in 0 .. k - 1})
       /\ mem' = DecMem(acc.page)
       /\ nodes' = [nodes EXCEPT ![Pos(k)] = acc.page]
       /\ currInd' = (Pos(k) + 1) % CLOCKSIZE

\* Mutant: the slot is reused before its page is encrypted.
EvictSwapped(k) ==
    LET t == DecPte(acc.page)
        c == ClearA(t, {nodes[Pos(j)] : j \in 0 .. k - 1})
    IN /\ Stops(t, k)
       /\ \A j \in 0 .. k - 1 : ~Stops(t, j)
       /\ nodes' = [nodes EXCEPT ![Pos(k)] = acc.page]
       /\ pte' = EncPte(c, {acc.page})
       /\ mem' = EncMem(c, DecMem(acc.page), {acc.page})
       /\ currInd' = (Pos(k) + 1) % CLOCKSIZE

\* Mutant: the entry after the one the hand stopped at is evicted.
EvictNext(k) ==
    LET t == DecPte(acc.page)
        c == ClearA(t, {nodes[Pos(j)] : j \in 0 .. k - 1})
        w == nodes[Pos(k + 1)]
    IN /\ Stops(t, k)
       /\ \A j \in 0 .. k - 1 : ~Stops(t, j)
       /\ pte' = EncPte(c, {w})
       /\ mem' = EncMem(c, DecMem(acc.page), {w})
       /\ nodes' = [nodes EXCEPT ![Pos(k + 1)] = acc.page]
       /\ currInd' = Pos(k + 2)

Evict(k) ==
    LET t == DecPte(acc.page)
        c == ClearA(t, {nodes[Pos(j)] : j \in 0 .. k - 1})
        m == DecMem(acc.page)
        w == nodes[Pos(k)]
    IN /\ Stops(t, k)
       /\ \A j \in 0 .. k - 1 : ~Stops(t, j)
       /\ pte' = EncPte(c, {w})
       /\ mem' = EncMem(c, m, {w})
       /\ nodes' = [nodes EXCEPT ![Pos(k)] = acc.page]
       /\ currInd' = (Pos(k) + 1) % CLOCKSIZE

FaultEvict ==
    /\ Decrypting
    /\ inClock \geq CLOCKSIZE
    /\ \E k \in 0 .. CLOCKSIZE : Evict(k)
    /\ UNCHANGED <<sz, prog, inClock, acc, status>>

PageFault ==
    \/ FaultRefused \/ FaultZeroByte
    \/ FaultFirst \/ FaultAppend \/ FaultOverrun \/ FaultEvict
-----------------------------------------------------------------------------
(***************************************************************************)
(* System calls that change the address space.  A call that fails for lack *)
(* of memory, or whose arguments are refused, changes nothing.             *)
(***************************************************************************)
sys_mencrypt(v, len) ==
    /\ Running
    /\ len > 0 /\ v * PGSIZE < sz
    /\ pte' = EncPte(pte, v .. v + len - 1)
    /\ mem' = EncMem(pte, mem, v .. v + len - 1)
    /\ UNCHANGED <<sz, prog, nodes, inClock, currInd, acc, status>>

(* growproc with n > 0: new pages are zeroed, and n / PGSIZE of them       *)
(* encrypted.                                                              *)
Grow(n) ==
    LET first == PgUp(sz)
        last == PgUp(sz + n) - 1
        t == [p \in Pages |-> IF p \in first .. last THEN {"P", "U"} ELSE pte[p]]
        m == [p \in Pages |-> IF p \in first .. last THEN 0 ELSE mem[p]]
        S == first .. first + n \div PGSIZE - 1
    IN /\ sz + n \leq MaxPages * PGSIZE
       /\ pte' = EncPte(t, S)
       /\ mem' = EncMem(t, m, S)
       /\ prog' = [p \in Pages |-> IF p \in first .. last THEN 0 ELSE prog[p]]
       /\ sz' = sz + n
       /\ UNCHANGED <<nodes, inClock, currInd>>

(* growproc's removal of the entries at or above address a, which shifts   *)
(* the others down and refills with -1.  currInd follows only if an entry  *)
(* other than the last one is removed.                                     *)
Kept(a) == {i \in 0 .. inClock - 1 : Addr(nodes[i]) < a}
Rank(a, i) == Cardinality({j \in Kept(a) : j < i})

Compacted(a) ==
    [i \in Slots |->
        IF i \geq inClock THEN nodes[i]
        ELSE IF \E j \in Kept(a) : Rank(a, j) = i
             THEN nodes[CHOOSE j \in Kept(a) : Rank(a, j) = i]
             ELSE NoPage]

Gone(a) == (0 .. inClock - 2) \ Kept(a)

(* growproc with n < 0.  sz + n is unsigned.  When it is 0 the pages are   *)
(* freed but sz stays, because deallocuvm's result 0 is read as failure.   *)
Shrink(n) ==
    LET newsz == (sz + n) % UINT
        freed == IF newsz < sz THEN PgUp(newsz) .. PgUp(sz) - 1 ELSE {}
    IN /\ nodes' = Compacted(newsz)
       /\ inClock' = Cardinality(Kept(newsz))
       /\ currInd' = IF Gone(newsz) = {} THEN currInd
                     ELSE inClock - Cardinality(Gone(newsz))
       /\ pte' = [p \in Pages |-> IF p \in freed THEN {} ELSE pte[p]]
       /\ mem' = [p \in Pages |-> IF p \in freed THEN 0 ELSE mem[p]]
       /\ prog' = [p \in Pages |-> IF p \in freed THEN 0 ELSE prog[p]]
       /\ sz' = IF newsz = 0 \/ newsz \geq sz THEN sz ELSE newsz

growproc(n) ==
    /\ Running
    /\ \/ n > 0 /\ Grow(n)
       \/ n < 0 /\ Shrink(n)
    /\ UNCHANGED <<acc, status>>

(* The child of fork; the parent's own state does not change.  Nodes from  *)
(* inClock on keep what the previous owner of the slot left there.         *)
fork ==
    /\ Running
    /\ \A p \in 0 .. PgUp(sz) - 1 : Mapped(pte[p])
    /\ currInd + 3 \leq MaxInd
    /\ currInd' = currInd + 3
    /\ \E s \in [Slots -> Stale] :
          nodes' = [i \in Slots |-> IF i < inClock THEN nodes[i] ELSE s[i]]
    /\ UNCHANGED <<sz, pte, mem, prog, inClock, acc, status>>

(* copyuvm's panic.  Only sbrk(-sz) leads here; the process is then still  *)
(* running on the TLB entries that growproc did not flush.                 *)
ForkPanic ==
    /\ Running
    /\ \E p \in 0 .. PgUp(sz) - 1 : ~Mapped(pte[p])
    /\ status' = "panic"
    /\ UNCHANGED <<sz, pte, mem, prog, nodes, inClock, currInd, acc>>

exec(t, b) ==
    /\ Running
    /\ Image(t, b, sz', pte', mem', prog')
    /\ inClock' = 0
    /\ currInd' = 0
    /\ UNCHANGED <<nodes, acc, status>>
-----------------------------------------------------------------------------
Next ==
    \/ \E op \in Ops \cap (UserOps \cup KernelOps), v \in Pages, b \in Bytes :
          Issue(op, v, b)
    \/ Complete
    \/ PageFault
    \/ "mencrypt" \in Ops /\ \E v \in Pages, len \in 1 .. MaxLen : sys_mencrypt(v, len)
    \/ "sbrk" \in Ops /\ \E n \in SbrkArgs : growproc(n)
    \/ "fork" \in Ops /\ (fork \/ ForkPanic)
    \/ "exec" \in Ops /\ \E t \in TextPages, b \in Bytes : exec(t, b)

(* The processor retries an access, and takes its fault, without waiting   *)
(* for anything.                                                           *)
Fairness == WF_vars(Complete \/ PageFault)

Spec == Init /\ [][Next]_vars
FairSpec == Spec /\ Fairness
-----------------------------------------------------------------------------
TypeOK ==
    /\ sz \in 0 .. MaxPages * PGSIZE
    /\ pte \in [Pages -> SUBSET Flags]
    /\ mem \in [Pages -> Byte]
    /\ prog \in [Pages -> Byte]
    /\ nodes \in [Slots -> Pages \cup {NoPage}]
    /\ inClock \in 0 .. CLOCKSIZE
    /\ currInd \in 0 .. MaxInd
    /\ acc \in {Idle} \cup [op : UserOps \cup KernelOps, page : Pages, byte : Byte]
    /\ status \in {"run", "killed", "panic", "overrun"}

(* What the program reads is what it last wrote: in RAM an encrypted page  *)
(* holds the complement of the program's byte and is not present, and a    *)
(* present page holds the byte itself (mencrypt and mdecrypt undo each     *)
(* other whatever the order of faults, evictions and calls).               *)
CoherentMem(t, m, g) ==
    \A p \in Pages :
        /\ "E" \in t[p] => m[p] = Flip(g[p]) /\ "P" \notin t[p]
        /\ "P" \in t[p] => m[p] = g[p]

Coherent == status = "run" => CoherentMem(pte, mem, prog)

(* Programs without a fork that grow by whole pages only.  Forking, and    *)
(* growing or shrinking by other amounts, break the two properties below.  *)
WholePages ==
    /\ "fork" \notin Ops
    /\ "sbrk" \in Ops => \A n \in SbrkArgs : n > 0 /\ n % PGSIZE = 0

(* The clock queue knows every decrypted user page (proc.h: "track the     *)
(* decrypted pages for the process"), so each of them can be evicted.      *)
Tracked ==
    status = "run" =>
        \A p \in Decrypted : \E i \in 0 .. inClock - 1 : nodes[i] = p

(* No more than CLOCKSIZE user pages are in RAM in the clear.              *)
FewDecrypted == status = "run" => Cardinality(Decrypted) \leq CLOCKSIZE

(* mdecrypt never writes past the end of proc->nodes.                      *)
NoOverrun == status # "overrun"

(* A page fault that evicts an accessed page has found every decrypted     *)
(* page of the queue accessed since the hand last passed: the clock        *)
(* algorithm prefers pages that were not used recently.                    *)
EvictsUnused ==
    [][\A p \in Pages :
          FaultEvict /\ "P" \in pte[p] /\ "E" \in pte'[p] /\ "A" \in pte[p]
              => \A i \in Slots : nodes[i] \in Decrypted => "A" \in pte[nodes[i]]]_vars

(* A page fault that succeeds leaves the page decrypted, and the access    *)
(* can be retried.                                                         *)
FaultServes ==
    [][PageFault /\ status' = "run" => Plain(pte'[acc.page])]_vars

(* Every access is eventually performed, or ends the process.              *)
AccessCompletes == (acc # Idle) ~> (acc = Idle \/ status # "run")

(* A fault on an encrypted user page is a decryption request, never an     *)
(* error (trap.c:81).                                                      *)
RequestServed ==
    [][PageFault /\ Request(pte[acc.page]) => status' = "run"]_vars
=============================================================================
