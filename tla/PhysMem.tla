------------------------------- MODULE PhysMem -------------------------------
(***************************************************************************)
(* Physical pages and who holds them: kalloc.c, and the calls that take    *)
(* and return pages several at a time (vm.c, proc.c, exec.c).              *)
(*                                                                         *)
(* kalloc and kfree each hold kmem.lock, so every kalloc is a step of its  *)
(* own and may find no page; the call then gives back what it has taken.   *)
(* A run of kfrees is one step: pages in the middle of being given back    *)
(* are read by nobody.  kmem.freelist is a set; which of its pages kalloc  *)
(* returns is the parameter Pick.  A process stays on its CPU until it     *)
(* exits: preemption is in Proc.                                           *)
(***************************************************************************)
EXTENDS Integers, FiniteSets, Functions

CONSTANTS
    Pages,      \* what kinit1 and kinit2 put on kmem.freelist
    Pick(_),    \* the page kalloc takes of a set of free pages, a member of it
    Slots,      \* ptable.proc
    initproc,   \* the slot userinit fills
    PGSIZE,
    NPTENTRIES, \* PTEs in a page table
    NPDENTRIES, \* page tables below KERNBASE
    KTables,    \* page tables that the mappings of kmap take
    Images,     \* sizes of the programs exec loads
    SbrkArgs,   \* what programs ask of sbrk
    Nil         \* a null pointer

KERNBASE == NPDENTRIES * NPTENTRIES * PGSIZE
VPages == 0 .. NPDENTRIES * NPTENTRIES - 1   \* user virtual pages, by number
PDX(v) == v \div NPTENTRIES

(* The constants are sensible: userinit finds the pages it needs, and no   *)
(* program is larger than the user part of an address space.               *)
Configuration ==
    /\ IsFiniteSet(Pages) /\ Nil \notin Pages /\ KTables + 4 <= Cardinality(Pages)
    /\ \A S \in SUBSET Pages : S # {} => Pick(S) \in S
    /\ initproc \in Slots /\ Nil \notin Slots
    /\ PGSIZE \in Nat \ {0} /\ NPTENTRIES \in Nat \ {0} /\ NPDENTRIES \in Nat \ {0}
    /\ KTables \in Nat /\ PGSIZE < KERNBASE
    /\ Images \subseteq 0 .. KERNBASE - 1 /\ SbrkArgs \subseteq Int

VARIABLES
    free,    \* kmem.freelist
    state,   \* proc.state of each slot
    parent,  \* proc.parent
    kstack,  \* proc.kstack
    space,   \* proc.pgdir and what it points to
    sz,      \* proc.sz
    cr3,     \* the directory loaded while the slot's process is on a CPU
    locked,  \* who holds ptable.lock from exit to the scheduler's release
    call     \* the system call a process is in, with its locals

vars == <<free, state, parent, kstack, space, sz, cr3, locked, call>>

(***************************************************************************)
(* An address space is the page at each of its places: the directory, the  *)
(* kernel's tables, the tables below KERNBASE and their PTEs.              *)
(***************************************************************************)
Dir == <<"dir", 0>>
Kern(i) == <<"kern", i>>
Tab(d) == <<"tab", d>>
Pte(v) == <<"pte", v>>
Places == {Dir} \cup {Kern(i) : i \in 1 .. KTables}
                \cup {Tab(d) : d \in 0 .. NPDENTRIES - 1} \cup {Pte(v) : v \in VPages}

NoSpace == [l \in Places |-> Nil]
Real(S) == S \ {Nil}
Mapped(sp) == {v \in VPages : sp[Pte(v)] # Nil}

PGROUNDUP(n) == ((n + PGSIZE - 1) \div PGSIZE) * PGSIZE

\* The virtual pages a loop visits that starts at PGROUNDUP(from) and runs below to.
Between(from, to) == {v \in VPages : PGROUNDUP(from) <= v * PGSIZE /\ v * PGSIZE < to}

(***************************************************************************)
(* deallocuvm and freevm, as the address space that is left and the pages  *)
(* handed to kfree.  Page tables stay until freevm.                        *)
(***************************************************************************)
Unmapped(sp, old, new) ==
    [l \in Places |-> IF \E v \in Between(new, old) : l = Pte(v) THEN Nil ELSE sp[l]]
deallocuvm(sp, old, new) == Real({sp[Pte(v)] : v \in Between(new, old)})
freevm(sp) == Real({sp[l] : l \in Places})

----------------------------------------------------------------------------
(* Calls.  The locals: child is fork's np, new the directory that fork and  *)
(* exec build, mem the page between kalloc and mappages, at and to the loop *)
(* of allocuvm or copyuvm, more whether exec has its stack still to come.   *)

Building(op, pc, child, at, to) ==
    [op |-> op, pc |-> pc, child |-> child, new |-> NoSpace, mem |-> Nil, at |-> at, to |-> to,
     more |-> op = "exec"]
Idle == Building("none", "user", Nil, 0, 0)

kfree(S) == free' = free \cup S

\* The process is in user code: it runs, and its text is there.
InUser(p) == state[p] = "run" /\ cr3[p] # Nil /\ call[p] = Idle /\ 0 \in Mapped(space[p])

Grown(p) == call[p].op = "sbrk"
Target(p) == IF Grown(p) THEN space[p] ELSE call[p].new

\* The call goes on at pc with address space sp in place of its target.
GoOn(p, sp, c) ==
    /\ space' = IF Grown(p) THEN [space EXCEPT ![p] = sp] ELSE space
    /\ call' = [call EXCEPT ![p] = IF Grown(p) THEN c ELSE [c EXCEPT !.new = sp]]

\* allocproc's part under ptable.lock, on behalf of fork.
fork(p) ==
    /\ InUser(p) /\ locked = Nil
    /\ \E s \in Slots :
         /\ state[s] = "unused"
         /\ state' = [state EXCEPT ![s] = "embryo"]
         /\ call' = [call EXCEPT ![p] = Building("fork", "kstack", s, 0, sz[p])]
    /\ UNCHANGED <<free, parent, kstack, space, sz, cr3, locked>>

exec(p) ==
    /\ InUser(p)
    /\ \E n \in Images :
         call' = [call EXCEPT ![p] = Building("exec", "dir", p, 0, n)]
    /\ UNCHANGED <<free, state, parent, kstack, space, sz, cr3, locked>>

\* allocuvm's test of the new size.
Fits(n) == n < KERNBASE

\* sbrk(n), n > 0, unless allocuvm refuses the new size.
grow(p) ==
    /\ InUser(p)
    /\ \E n \in SbrkArgs :
         /\ n > 0 /\ Fits(sz[p] + n)
         /\ call' = [call EXCEPT ![p] =
                       Building("sbrk", "page", p, PGROUNDUP(sz[p]), sz[p] + n)]
    /\ UNCHANGED <<free, state, parent, kstack, space, sz, cr3, locked>>

\* What growproc keeps as sz: deallocuvm returning 0 is taken for a failure.
Kept(old, new) == IF new = 0 THEN old ELSE new

\* sbrk(n), n < 0.  Below zero sz + n wraps round and nothing is freed.
shrink(p) ==
    /\ InUser(p)
    /\ \E n \in SbrkArgs :
         /\ n < 0 /\ sz[p] + n >= 0
         /\ kfree(deallocuvm(space[p], sz[p], sz[p] + n))
         /\ space' = [space EXCEPT ![p] = Unmapped(@, sz[p], sz[p] + n)]
         /\ sz' = [sz EXCEPT ![p] = Kept(@, @ + n)]
    /\ UNCHANGED <<state, parent, kstack, cr3, locked, call>>

----------------------------------------------------------------------------
(* Failure.  GivenBack is the pages the error path of the call kfrees.      *)

AllocuvmUndo(p) == deallocuvm(space[p], call[p].to, sz[p]) \cup Real({call[p].mem})

\* Mutant: copyuvm's goto bad without kfree(mem).
DropMem(p) == freevm(call[p].new) \cup Real({kstack[call[p].child]})

ForkUndo(p) == freevm(call[p].new) \cup Real({call[p].mem, kstack[call[p].child]})
ExecUndo(p) == freevm(call[p].new) \cup Real({call[p].mem})

GivenBack(p) == CASE call[p].op = "sbrk" -> AllocuvmUndo(p)
                  [] call[p].op = "fork" -> ForkUndo(p)
                  [] call[p].op = "exec" -> ExecUndo(p)

\* The call returns -1.
Fail(p) ==
    /\ kfree(GivenBack(p))
    /\ call' = [call EXCEPT ![p] = Idle]
    /\ space' = IF Grown(p) THEN [space EXCEPT ![p] = Unmapped(@, call[p].to, sz[p])] ELSE space
    /\ IF call[p].op = "fork"
         THEN /\ state' = [state EXCEPT ![call[p].child] = "unused"]
              /\ kstack' = [kstack EXCEPT ![call[p].child] = Nil]
         ELSE UNCHANGED <<state, kstack>>
    /\ UNCHANGED <<parent, sz, cr3, locked>>

\* exec finds a bad header, a segment it cannot read or too many arguments.
bad(p) ==
    /\ call[p].op = "exec" /\ call[p].pc = "page" /\ call[p].mem = Nil
    /\ Fail(p)

----------------------------------------------------------------------------
(* The steps of a call, each with one kalloc.                               *)

\* What kalloc returns: a page of the free list, or 0.
kalloc == IF free = {} THEN Nil ELSE Pick(free)

\* The call goes on with the page it got, or fails.
With(p, Use(_)) ==
    IF kalloc = Nil THEN Fail(p)
    ELSE free' = free \ {kalloc} /\ Use(kalloc)

\* allocproc's kernel stack.
allocproc(p) ==
    /\ call[p].op = "fork" /\ call[p].pc = "kstack"
    /\ With(p, LAMBDA x :
         /\ kstack' = [kstack EXCEPT ![call[p].child] = x]
         /\ call' = [call EXCEPT ![p].pc = "dir"]
         /\ UNCHANGED <<state, parent, space, sz, cr3, locked>>)

\* setupkvm: the directory, then the tables of the kernel's mappings.
setupkvm(p) ==
    /\ call[p].pc = "dir"
    /\ With(p, LAMBDA x :
         /\ LET at == call[p].at   \* the next kernel table, 0 for the directory
                l == IF at = 0 THEN Dir ELSE Kern(at)
                c == IF at = KTables THEN [call[p] EXCEPT !.pc = "page", !.at = 0]
                                     ELSE [call[p] EXCEPT !.at = at + 1]
            IN  GoOn(p, [call[p].new EXCEPT ![l] = x], c)
         /\ UNCHANGED <<state, parent, kstack, sz, cr3, locked>>)

Looping(p) == call[p].pc = "page"

\* allocuvm and copyuvm: the page itself.
page(p) ==
    /\ Looping(p) /\ call[p].mem = Nil /\ call[p].at < call[p].to
    /\ With(p, LAMBDA x :
         /\ call' = [call EXCEPT ![p].mem = x]
         /\ UNCHANGED <<state, parent, kstack, space, sz, cr3, locked>>)

Installed(sp, v, x) == [sp EXCEPT ![Pte(v)] = x]

\* mappages of one page, whose walkpgdir may need a page table.
mappages(p) ==
    /\ Looping(p) /\ call[p].mem # Nil
    /\ LET v == call[p].at \div PGSIZE
           next == [call[p] EXCEPT !.mem = Nil, !.at = @ + PGSIZE]
       IN  IF Target(p)[Tab(PDX(v))] # Nil
             THEN /\ GoOn(p, Installed(Target(p), v, call[p].mem), next)
                  /\ UNCHANGED <<free, state, parent, kstack, sz, cr3, locked>>
             ELSE With(p, LAMBDA x :
                    /\ GoOn(p, Installed([Target(p) EXCEPT ![Tab(PDX(v))] = x], v, call[p].mem), next)
                    /\ UNCHANGED <<state, parent, kstack, sz, cr3, locked>>)

Done(p) == Looping(p) /\ call[p].mem = Nil /\ call[p].at >= call[p].to

\* growproc takes the new size.
growproc(p) ==
    /\ Done(p) /\ call[p].op = "sbrk"
    /\ sz' = [sz EXCEPT ![p] = call[p].to]
    /\ cr3' = [cr3 EXCEPT ![p] = space[p][Dir]]
    /\ call' = [call EXCEPT ![p] = Idle]
    /\ UNCHANGED <<free, state, parent, kstack, space, locked>>

\* fork sets the child going.
forked(p) ==
    /\ Done(p) /\ call[p].op = "fork" /\ locked = Nil
    /\ LET np == call[p].child
       IN  /\ space' = [space EXCEPT ![np] = call[p].new]
           /\ sz' = [sz EXCEPT ![np] = sz[p]]
           /\ parent' = [parent EXCEPT ![np] = p]
           /\ state' = [state EXCEPT ![np] = "run"]
    /\ call' = [call EXCEPT ![p] = Idle]
    /\ UNCHANGED <<free, kstack, cr3, locked>>

\* exec has room for the program and goes on to the guard page and the stack.
ustack(p) ==
    /\ Done(p) /\ call[p].op = "exec" /\ call[p].more
    /\ LET top == PGROUNDUP(call[p].to)
       IN  IF ~Fits(top + 2 * PGSIZE) THEN Fail(p)
           ELSE /\ call' = [call EXCEPT ![p].at = top, ![p].to = top + 2 * PGSIZE,
                                        ![p].more = FALSE]
                /\ UNCHANGED <<free, state, parent, kstack, space, sz, cr3, locked>>

\* Mutant: exec without its switchuvm.
Stays(p) == cr3[p]

\* exec's commit: switchuvm loads the new directory.
Loads(p) == call[p].new[Dir]

commit(p) ==
    /\ Done(p) /\ call[p].op = "exec" /\ ~call[p].more
    /\ space' = [space EXCEPT ![p] = call[p].new]
    /\ sz' = [sz EXCEPT ![p] = call[p].to]
    /\ cr3' = [cr3 EXCEPT ![p] = Loads(p)]
    /\ call' = [call EXCEPT ![p].pc = "old", ![p].new = space[p]]
    /\ UNCHANGED <<free, state, parent, kstack, locked>>

\* freevm(oldpgdir).
freeold(p) ==
    /\ call[p].op = "exec" /\ call[p].pc = "old"
    /\ kfree(freevm(call[p].new))
    /\ call' = [call EXCEPT ![p] = Idle]
    /\ UNCHANGED <<state, parent, kstack, space, sz, cr3, locked>>

----------------------------------------------------------------------------
(* The scheduler, exit and wait.                                            *)

scheduler(p) ==
    /\ state[p] = "run" /\ cr3[p] = Nil /\ locked = Nil
    /\ cr3' = [cr3 EXCEPT ![p] = space[p][Dir]]
    /\ UNCHANGED <<free, state, parent, kstack, space, sz, locked, call>>

\* exit, up to sched: a ZOMBIE still on its stack and its directory.  A fault
\* is an exit too, so a process with no page left can take it.
exit(p) ==
    /\ state[p] = "run" /\ cr3[p] # Nil /\ call[p] = Idle /\ p # initproc /\ locked = Nil
    /\ parent' = [s \in Slots |-> IF parent[s] = p THEN initproc ELSE parent[s]]
    /\ state' = [state EXCEPT ![p] = "zombie"]
    /\ locked' = p
    /\ UNCHANGED <<free, kstack, space, sz, cr3, call>>

\* Back in the scheduler: switchkvm, then release.
sched(p) ==
    /\ locked = p
    /\ cr3' = [cr3 EXCEPT ![p] = Nil]
    /\ locked' = Nil
    /\ UNCHANGED <<free, state, parent, kstack, space, sz, call>>

\* A ZOMBIE that wait, with ptable.lock in hand, finds.
Reapable(s) == state[s] = "zombie" /\ locked = Nil

wait(p) ==
    /\ InUser(p)
    /\ \E s \in Slots :
         /\ parent[s] = p /\ Reapable(s)
         /\ kfree({kstack[s]} \cup freevm(space[s]))
         /\ kstack' = [kstack EXCEPT ![s] = Nil]
         /\ space' = [space EXCEPT ![s] = NoSpace]
         /\ parent' = [parent EXCEPT ![s] = Nil]
         /\ state' = [state EXCEPT ![s] = "unused"]
    /\ UNCHANGED <<sz, cr3, locked, call>>

----------------------------------------------------------------------------
\* userinit's stack, directory, kernel tables, table and page.
Init ==
    LET k == Pick(Pages)
        d == Pick(Pages \ {k})
        t == Pick(Pages \ {k, d})
        x == Pick(Pages \ {k, d, t})
        kern == CHOOSE f \in [1 .. KTables -> Pages \ {k, d, t, x}] : IsInjective(f)
        Only(v, none) == [s \in Slots |-> IF s = initproc THEN v ELSE none]
    IN  /\ free = Pages \ ({k, d, t, x} \cup Range(kern))
        /\ state = Only("run", "unused")
        /\ parent = [s \in Slots |-> Nil]
        /\ kstack = Only(k, Nil)
        /\ space = Only([l \in Places |-> CASE l = Dir -> d [] l = Tab(0) -> t [] l = Pte(0) -> x
                                            [] l[1] = "kern" -> kern[l[2]] [] OTHER -> Nil], NoSpace)
        /\ sz = Only(PGSIZE, 0)
        /\ cr3 = Only(d, Nil)
        /\ locked = Nil
        /\ call = [s \in Slots |-> Idle]

Next == \E p \in Slots :
    \/ fork(p) \/ exec(p) \/ grow(p) \/ shrink(p)
    \/ allocproc(p) \/ setupkvm(p) \/ page(p) \/ mappages(p) \/ bad(p)
    \/ growproc(p) \/ forked(p) \/ ustack(p) \/ commit(p) \/ freeold(p)
    \/ scheduler(p) \/ exit(p) \/ sched(p) \/ wait(p)

Spec == Init /\ [][Next]_vars

----------------------------------------------------------------------------
(* Properties.                                                              *)

\* Types.
TypeOK ==
    /\ free \subseteq Pages
    /\ state \in [Slots -> {"unused", "embryo", "run", "zombie"}]
    /\ parent \in [Slots -> Slots \cup {Nil}]
    /\ kstack \in [Slots -> Pages \cup {Nil}]
    /\ sz \in [Slots -> 0 .. KERNBASE - 1]
    /\ cr3 \in [Slots -> Pages \cup {Nil}]
    /\ locked \in Slots \cup {Nil}
    /\ space \in [Slots -> [Places -> Pages \cup {Nil}]]
    /\ \A p \in Slots : call[p].new \in [Places -> Pages \cup {Nil}]

\* How often a page is held: in address spaces, as a stack, and in the locals of calls.
Holds(x) ==
    Cardinality({l \in Slots \X Places : space[l[1]][l[2]] = x})
    + Cardinality({l \in Slots \X Places : call[l[1]].new[l[2]] = x})
    + Cardinality({p \in Slots : call[p].mem = x})
    + Cardinality({p \in Slots : kstack[p] = x})

\* No page is ever lost or held twice: whatever kalloc fails, and whatever fork, exec and
\* sbrk then undo, every page is on the free list or in exactly one other place.
PagesOwnedOnce == \A x \in Pages : Holds(x) = IF x \in free THEN 0 ELSE 1

\* A process that returns from a system call maps exactly the pages below its size, so that
\* copyuvm finds each of them.  The exception is sbrk to 0, which growproc takes for a failure
\* of deallocuvm: the size stays and every page is gone.
MapsItsSize == \A p \in Slots :
    state[p] = "run" /\ call[p] = Idle =>
        \/ Mapped(space[p]) = Between(0, sz[p])
        \/ Mapped(space[p]) = {}

\* A CPU never runs on a directory or on a kernel stack that was given back: exec loads the
\* new directory before it frees the old, and wait does not find a ZOMBIE before the
\* scheduler has left its stack.
CpuMemoryHeld == \A p \in Slots :
    cr3[p] # Nil => {cr3[p], kstack[p]} \cap (free \cup {Nil}) = {}

\* Memory is accounted for: every page in one place, and every process with its own size.
MemoryExact == TypeOK /\ PagesOwnedOnce /\ MapsItsSize
=============================================================================
