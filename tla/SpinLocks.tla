------------------------------ MODULE SpinLocks ------------------------------
(***************************************************************************)
(* Spin locks and interrupts (spinlock.c), with the code where they matter *)
(* most: the timer interrupt (trap.c), sleep, wakeup, sched and the        *)
(* scheduler (proc.c), and sys_sleep (sysproc.c) over the tick count.      *)
(*                                                                         *)
(* A context is a kernel thread, of a process or of a CPU's scheduler.  It *)
(* is at label pc, or at label ipc of an interrupt handler that runs on    *)
(* top of it.  A CPU runs one context; ncli, intena and the interrupt flag *)
(* belong to the CPU, not to the context, and a context may continue on    *)
(* another CPU than the one it left.  The only channel is &ticks.          *)
(*                                                                         *)
(* The scheduler may pick any RUNNABLE process, in any order of the slots. *)
(* exit is here only how it leaves the CPU; Proc has what it does to the   *)
(* table.  Page faults and device interrupts are in the other modules.     *)
(***************************************************************************)
EXTENDS Integers, FiniteSets

CONSTANTS
    Cpus,     \* CPUs, by cpuid; CPU 0 counts the ticks
    Procs,    \* processes
    Naps,     \* arguments of sleep
    UINT,     \* ticks wrap at UINT
    MaxKilled, \* bound on the processes that are killed
    NoCpu

ASSUME CpuAssumption ==
    /\ Procs \cap Cpus = {} /\ NoCpu \notin Cpus
    /\ Naps \subseteq Nat /\ UINT \in Nat \ {0}

VARIABLES
    locked,   \* the CPU that has tickslock and ptable.lock
    ncli, intena, flag,   \* struct cpu, and FL_IF of eflags
    cur,      \* the context of each CPU
    spin,     \* the CPU is in the loop of acquire
    pc, ipc,  \* labels of each context
    saved,    \* the local intena of sched
    state,    \* proc->state
    killed,
    ticks,
    nap,      \* ticks0 and n of sys_sleep
    slept,    \* history: the ticks since sys_sleep read ticks0, up to n
    panicked

vars == <<locked, ncli, intena, flag, cur, spin, pc, ipc, saved, state, killed, ticks, nap,
          slept, panicked>>
cpuvars == <<locked, ncli, intena, flag, spin>>
sleepvars == <<killed, ticks, nap, slept>>

Contexts == Procs \cup Cpus   \* CPU c as a context is its scheduler
None == "none"

(* Where the code calls acquire and release, and of which lock.            *)
Acquires == [s_acq |-> "tickslock", s_lock |-> "ptable", s_again |-> "tickslock",
             t_acq |-> "tickslock", w_acq |-> "ptable", y_acq |-> "ptable",
             e_acq |-> "ptable", c_acq |-> "ptable"]
Releases == [s_drop |-> "tickslock", s_woken |-> "ptable", s_rel |-> "tickslock",
             w_rel |-> "ptable", t_rel |-> "tickslock", y_rel |-> "ptable",
             c_rel |-> "ptable", forkret |-> "ptable"]
After == [s_acq |-> "s_read", s_lock |-> "s_drop", s_again |-> "s_test",
          t_acq |-> "t_tick", w_acq |-> "w_mark", y_acq |-> "y_sched",
          e_acq |-> "e_sched", c_acq |-> "c_pick",
          s_drop |-> "s_sched", s_woken |-> "s_again", s_rel |-> "sysret",
          w_rel |-> "t_rel", t_rel |-> "t_end", y_rel |-> "iret",
          c_rel |-> "c_sti", forkret |-> "sysret"]
Labels == DOMAIN After \cup {"user", "sysret", "s_read", "s_test", "s_sched",
                             "e_sched", "t_tick", "w_mark", "t_end", "y_sched", "iret",
                             "c_sti", "c_pick"}

Init ==
    /\ locked = [l \in {"tickslock", "ptable"} |-> NoCpu]
    /\ ncli = [c \in Cpus |-> 0]
    /\ intena = [c \in Cpus |-> FALSE]
    /\ flag = [c \in Cpus |-> FALSE]
    /\ cur = [c \in Cpus |-> c]
    /\ spin = [c \in Cpus |-> FALSE]
    /\ pc = [x \in Contexts |-> IF x \in Cpus THEN "c_sti" ELSE "forkret"]
    /\ ipc = [x \in Contexts |-> None]
    /\ saved = [p \in Procs |-> FALSE]
    /\ state = [p \in Procs |-> "RUNNABLE"]
    /\ killed = [p \in Procs |-> FALSE]
    /\ ticks = 0
    /\ nap = [p \in Procs |-> [ticks0 |-> 0, n |-> 0]]
    /\ slept = [p \in Procs |-> 0]
    /\ panicked = FALSE
-----------------------------------------------------------------------------
Label(x) == IF ipc[x] = None THEN pc[x] ELSE ipc[x]
At(c, l) == ~panicked /\ ~spin[c] /\ Label(cur[c]) = l
Goto(x, l) == IF ipc[x] = None THEN pc' = [pc EXCEPT ![x] = l] /\ UNCHANGED ipc
              ELSE ipc' = [ipc EXCEPT ![x] = l] /\ UNCHANGED pc
Panic == panicked' = TRUE /\ UNCHANGED <<cpuvars, cur, pc, ipc, saved, state, sleepvars>>

holding(c, lk) == locked[lk] = c

(* pushcli and popcli, as the ncli of the CPU afterwards.                  *)
\* Mutant: the depth is forgotten.
SetOne(n) == 1

Deeper(n) == n + 1

Shallower(n) == n - 1

(* acquire: pushcli, then the xchg if the lock is free.                    *)
acquire(c) ==
    LET l == Label(cur[c])
        lk == Acquires[l] IN
    /\ ~panicked /\ ~spin[c] /\ l \in DOMAIN Acquires
    /\ IF holding(c, lk) THEN Panic
       ELSE /\ flag' = [flag EXCEPT ![c] = FALSE]
            /\ intena' = IF ncli[c] = 0 THEN [intena EXCEPT ![c] = flag[c]] ELSE intena
            /\ ncli' = [ncli EXCEPT ![c] = Deeper(@)]
            /\ IF locked[lk] = NoCpu
               THEN locked' = [locked EXCEPT ![lk] = c] /\ Goto(cur[c], After[l]) /\ UNCHANGED spin
               ELSE spin' = [spin EXCEPT ![c] = TRUE] /\ UNCHANGED <<locked, pc, ipc>>
            /\ UNCHANGED <<cur, saved, state, sleepvars, panicked>>

(* The xchg that ends the loop of a CPU that had to wait.                  *)
xchg(c) ==
    LET l == Label(cur[c]) IN
    /\ ~panicked /\ spin[c]
    /\ locked[Acquires[l]] = NoCpu
    /\ locked' = [locked EXCEPT ![Acquires[l]] = c]
    /\ spin' = [spin EXCEPT ![c] = FALSE]
    /\ Goto(cur[c], After[l])
    /\ UNCHANGED <<ncli, intena, flag, cur, saved, state, sleepvars, panicked>>

(* release, with popcli.                                                   *)
release(c) ==
    LET l == Label(cur[c])
        n == Shallower(ncli[c]) IN
    /\ ~panicked /\ ~spin[c] /\ l \in DOMAIN Releases
    /\ IF ~holding(c, Releases[l]) \/ flag[c] \/ n < 0 THEN Panic
       ELSE /\ locked' = [locked EXCEPT ![Releases[l]] = NoCpu]
            /\ ncli' = [ncli EXCEPT ![c] = n]
            /\ flag' = [flag EXCEPT ![c] = n = 0 /\ intena[c]]
            /\ Goto(cur[c], After[l])
            /\ UNCHANGED <<intena, cur, spin, saved, state, sleepvars, panicked>>

(* sched: back to the scheduler of the CPU.  s is the state that the       *)
(* caller has given the process, l the label at which it will go on.       *)
sched(c, s, l) ==
    LET p == cur[c] IN
    IF ~holding(c, "ptable") \/ ncli[c] # 1 \/ flag[c] THEN Panic
    ELSE /\ saved' = [saved EXCEPT ![p] = intena[c]]
         /\ state' = [state EXCEPT ![p] = s]
         /\ cur' = [cur EXCEPT ![c] = c]
         /\ Goto(p, l)
         /\ UNCHANGED <<cpuvars, sleepvars, panicked>>

(* The scheduler: enable interrupts, take ptable.lock, run processes until *)
(* the end of the table.                                                   *)
sti(c) ==
    /\ At(c, "c_sti")
    /\ flag' = [flag EXCEPT ![c] = TRUE]
    /\ Goto(c, "c_acq")
    /\ UNCHANGED <<locked, ncli, intena, cur, spin, saved, state, sleepvars, panicked>>

\* Mutant: sched does not restore intena.
LeftBy(c, p) == intena[c]

\* What intena is once p has returned from sched; a new process starts in forkret instead.
Restored(c, p) == IF Label(p) = "forkret" THEN intena[c] ELSE saved[p]

swtch(c, p) ==
    /\ At(c, "c_pick") /\ cur[c] = c
    /\ state[p] = "RUNNABLE"
    /\ state' = [state EXCEPT ![p] = "RUNNING"]
    /\ cur' = [cur EXCEPT ![c] = p]
    /\ intena' = [intena EXCEPT ![c] = Restored(c, p)]
    /\ saved' = [saved EXCEPT ![p] = FALSE]
    /\ UNCHANGED <<locked, ncli, flag, spin, pc, ipc, sleepvars, panicked>>

EndOfTable(c) ==
    /\ At(c, "c_pick") /\ cur[c] = c
    /\ Goto(c, "c_rel")
    /\ UNCHANGED <<cpuvars, cur, saved, state, sleepvars, panicked>>
-----------------------------------------------------------------------------
(* The timer interrupt: an interrupt gate clears FL_IF.                    *)
Interrupt(c) ==
    LET x == cur[c] IN
    /\ ~panicked /\ flag[c]
    /\ flag' = [flag EXCEPT ![c] = FALSE]
    /\ ipc' = [ipc EXCEPT ![x] = IF c = 0 THEN "t_acq" ELSE "t_end"]
    /\ UNCHANGED <<locked, ncli, intena, cur, spin, pc, saved, state, sleepvars, panicked>>

WakesNext == "w_acq"

tick(c) ==
    /\ At(c, "t_tick")
    /\ ticks' = (ticks + 1) % UINT
    /\ slept' = [p \in Procs |-> IF slept[p] < nap[p].n THEN slept[p] + 1 ELSE slept[p]]
    /\ Goto(cur[c], WakesNext)
    /\ UNCHANGED <<cpuvars, cur, saved, state, killed, nap, panicked>>

wakeup(c) ==
    /\ At(c, "w_mark")
    /\ state' = [p \in Procs |-> IF state[p] = "SLEEPING" THEN "RUNNABLE" ELSE state[p]]
    /\ Goto(cur[c], "w_rel")
    /\ UNCHANGED <<cpuvars, cur, saved, sleepvars, panicked>>

(* The end of trap: a killed process that was in user code exits, any      *)
(* other gives up the CPU; the scheduler just goes on.                     *)
Doomed(x) == x \in Procs /\ killed[x] /\ pc[x] = "user"

Exit(x) == ipc' = [ipc EXCEPT ![x] = None] /\ pc' = [pc EXCEPT ![x] = "e_acq"]

EndOfTrap(c) ==
    LET x == cur[c] IN
    /\ At(c, "t_end")
    /\ IF Doomed(x) THEN Exit(x)
       ELSE Goto(x, IF x \in Procs /\ state[x] = "RUNNING" THEN "y_acq" ELSE "iret")
    /\ UNCHANGED <<cpuvars, cur, saved, state, sleepvars, panicked>>

yield(c) == At(c, "y_sched") /\ sched(c, "RUNNABLE", "y_rel")

iret(c) ==
    LET x == cur[c] IN
    /\ At(c, "iret")
    /\ IF Doomed(x) THEN Exit(x) /\ UNCHANGED flag
       ELSE /\ ipc' = [ipc EXCEPT ![x] = None]
            /\ flag' = [flag EXCEPT ![c] = TRUE]
            /\ UNCHANGED pc
    /\ UNCHANGED <<locked, ncli, intena, cur, spin, saved, state, sleepvars, panicked>>
-----------------------------------------------------------------------------
(* System calls come through a trap gate, which leaves FL_IF alone.        *)
syscall(c, n) ==
    LET p == cur[c] IN
    /\ At(c, "user")
    /\ Goto(p, IF killed[p] THEN "e_acq" ELSE "s_acq")
    /\ nap' = [nap EXCEPT ![p].n = IF killed[p] THEN 0 ELSE n]
    /\ UNCHANGED <<cpuvars, cur, saved, state, killed, ticks, slept, panicked>>

\* Back to user code, whose flags have FL_IF.
sysret(c) ==
    LET p == cur[c] IN
    /\ At(c, "sysret")
    /\ Goto(p, IF killed[p] THEN "e_acq" ELSE "user")
    /\ flag' = [flag EXCEPT ![c] = killed[p] => @]
    /\ nap' = [nap EXCEPT ![p] = [ticks0 |-> 0, n |-> 0]]
    /\ slept' = [slept EXCEPT ![p] = 0]
    /\ UNCHANGED <<locked, ncli, intena, cur, spin, saved, state, killed, ticks, panicked>>

(* sys_sleep: n is an int, ticks - ticks0 a uint.                          *)
s_read(c) ==
    /\ At(c, "s_read")
    /\ nap' = [nap EXCEPT ![cur[c]].ticks0 = ticks]
    /\ slept' = [slept EXCEPT ![cur[c]] = 0]
    /\ Goto(cur[c], "s_test")
    /\ UNCHANGED <<cpuvars, cur, saved, state, killed, ticks, panicked>>

\* Mutant: the end of the sleep is computed and compared.
BeforeDeadline(p) == ticks < (nap[p].ticks0 + nap[p].n) % UINT

TooEarly(p) == (ticks - nap[p].ticks0) % UINT < nap[p].n

s_test(c) ==
    LET p == cur[c] IN
    /\ At(c, "s_test")
    /\ Goto(p, IF TooEarly(p) /\ ~killed[p] THEN "s_lock" ELSE "s_rel")
    /\ UNCHANGED <<cpuvars, cur, saved, state, sleepvars, panicked>>

\* Mutant: sleep takes its lock back before it gives up ptable.lock.
TickslockFirst == "s_again"

PtableFirst == "s_woken"

sleep(c) == At(c, "s_sched") /\ sched(c, "SLEEPING", PtableFirst)

(* kill, by a process on a CPU of its own: all of it runs under ptable.lock.*)
kill(p) ==
    /\ ~panicked /\ locked["ptable"] = NoCpu
    /\ ~killed[p] /\ Cardinality({q \in Procs : killed[q]}) < MaxKilled
    /\ killed' = [killed EXCEPT ![p] = TRUE]
    /\ state' = [state EXCEPT ![p] = IF @ = "SLEEPING" THEN "RUNNABLE" ELSE @]
    /\ UNCHANGED <<cpuvars, cur, pc, ipc, saved, ticks, nap, slept, panicked>>

exit(c) == At(c, "e_sched") /\ sched(c, "ZOMBIE", "user")

Step(c) ==
    \/ acquire(c) \/ xchg(c) \/ release(c)
    \/ sti(c) \/ EndOfTable(c) \/ (\E p \in Procs : swtch(c, p))
    \/ Interrupt(c) \/ tick(c) \/ wakeup(c) \/ EndOfTrap(c) \/ yield(c) \/ iret(c)
    \/ (\E n \in Naps : syscall(c, n)) \/ sysret(c)
    \/ s_read(c) \/ s_test(c) \/ sleep(c) \/ exit(c)

Next == (\E c \in Cpus : Step(c)) \/ \E p \in Procs : kill(p)

Spec == Init /\ [][Next]_vars
-----------------------------------------------------------------------------
(* Every variable has its type; no CPU is ever inside more than two locks. *)
TypeOK ==
    /\ locked \in [{"tickslock", "ptable"} -> Cpus \cup {NoCpu}]
    /\ ncli \in [Cpus -> 0 .. 2]
    /\ intena \in [Cpus -> BOOLEAN] /\ flag \in [Cpus -> BOOLEAN] /\ spin \in [Cpus -> BOOLEAN]
    /\ cur \in [Cpus -> Contexts]
    /\ pc \in [Contexts -> Labels] /\ ipc \in [Contexts -> Labels \cup {None}]
    /\ saved \in [Procs -> BOOLEAN] /\ killed \in [Procs -> BOOLEAN]
    /\ state \in [Procs -> {"RUNNABLE", "RUNNING", "SLEEPING", "ZOMBIE"}]
    /\ ticks \in 0 .. UINT - 1
    /\ nap \in [Procs -> [ticks0 : 0 .. UINT - 1, n : Naps \cup {0}]]
    /\ slept \in [Procs -> Nat]
    /\ panicked \in BOOLEAN

(* None of the panics of acquire, release, popcli and sched is reached,    *)
(* wherever an interrupt arrives.                                          *)
NoPanic == ~panicked

(* The interrupt depth of a CPU is the number of locks it has or waits     *)
(* for, also after a context has moved to another CPU, and interrupts are  *)
(* off at any depth: no handler runs above a critical section.             *)
CliCounts == \A c \in Cpus :
    /\ ncli[c] = Cardinality({l \in DOMAIN locked : locked[l] = c}) + (IF spin[c] THEN 1 ELSE 0)
    /\ ncli[c] > 0 => ~flag[c]

(* No two CPUs spin, each on a lock that the other has: sleep, wakeup and  *)
(* the timer interrupt take tickslock before ptable.lock.                  *)
Awaited(c) == locked[Acquires[Label(cur[c])]]
NoSpinCycle == \A c, d \in Cpus : spin[c] /\ spin[d] => ~(Awaited(c) = d /\ Awaited(d) = c)

(* A system call that is in no critical section runs with interrupts on,   *)
(* whatever the other contexts of its CPUs did while it slept: sched gives *)
(* back the intena that it saved.                                          *)
InterruptsRestored == \A c \in Cpus :
    LET x == cur[c] IN
    x \in Procs /\ ipc[x] = None /\ ncli[c] = 0 /\ pc[x] \notin {"sysret", "e_acq"} => flag[c]

(* No tick is missed: a process that sleeps has time left, or the handler  *)
(* that counted the tick is about to wake it.                              *)
Waking == \E c \in Cpus : Label(cur[c]) \in {"w_acq", "w_mark"}
SleepersWait == \A p \in Procs : state[p] = "SLEEPING" => TooEarly(p) \/ Waking

(* sys_sleep(n) never returns before n ticks have passed, across the       *)
(* wraparound of ticks, unless the process was killed.                     *)
NeverEarly == \A p \in Procs : pc[p] = "s_rel" /\ ~killed[p] => slept[p] \geq nap[p].n

(* The state of each CPU: types, no panic of spinlock.c or sched, and a    *)
(* depth that counts its locks, wherever an interrupt arrives.             *)
CpuInv == TypeOK /\ NoPanic /\ CliCounts

(* sys_sleep(n) lasts its n ticks: it neither returns before them nor      *)
(* sleeps on after them.                                                   *)
SleepsWhole == SleepersWait /\ NeverEarly
=============================================================================
