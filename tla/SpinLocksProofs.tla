--------------------------- MODULE SpinLocksProofs ---------------------------
(***************************************************************************)
(* What spin locks, interrupts and sys_sleep guarantee for every number of *)
(* CPUs and processes, every length of a sleep and every width of ticks.   *)
(* The invariant says at each label of a context which locks its CPU has;  *)
(* all the rest follows a context through its code.                        *)
(*                                                                         *)
(* Its second part is about the locks that processes sleep on: those of    *)
(* inodes, and what they protect, for every number of processes, inodes    *)
(* and names and every set of calls whose paths do not go through "..".    *)
(* The invariant gives the local variables of a call at each of its        *)
(* stages, counts references and links as the contents of cells, and says  *)
(* which inodes a process has to itself.                                   *)
(***************************************************************************)
EXTENDS InodeLocks, FiniteSetTheorems, WellFoundedInduction, TLAPS

(* The labels at which tickslock and ptable.lock are held.                 *)
TickLabels == {"s_read", "s_test", "s_lock", "s_drop", "s_rel",
               "t_tick", "w_acq", "w_mark", "w_rel", "t_rel"}
TableLabels == {"s_drop", "s_sched", "s_woken", "w_mark", "w_rel",
                "y_sched", "y_rel", "e_sched", "c_pick", "c_rel", "forkret"}

(* The labels of a process, of a scheduler and of the interrupt handler.   *)
ProcLabels == {"user", "sysret", "s_acq", "s_read", "s_test", "s_lock", "s_drop",
               "s_sched", "s_woken", "s_again", "s_rel", "e_acq", "e_sched", "forkret"}
CpuLabels == {"c_sti", "c_acq", "c_pick", "c_rel"}
TimerLabels == {"t_acq", "t_tick", "w_acq", "w_mark", "w_rel", "t_rel", "t_end", "iret"}
YieldLabels == {"y_acq", "y_sched", "y_rel"}

(* Where a context holds no lock, so that an interrupt may come.           *)
Open == {"user", "sysret", "s_acq", "s_again", "e_acq", "c_sti", "c_acq"}

(* The labels of sys_sleep.                                                *)
SleepLabels == {"s_acq", "s_read", "s_test", "s_lock", "s_drop", "s_sched", "s_woken",
                "s_again", "s_rel"}

(* Each context is where its code can be, and an interrupt handler runs    *)
(* only on top of code that holds no lock.                                 *)
ShapeOf(x) ==
    /\ x \in Procs => pc[x] \in ProcLabels /\ ipc[x] \in TimerLabels \cup YieldLabels \cup {None}
    /\ x \in Cpus => pc[x] \in CpuLabels /\ ipc[x] \in TimerLabels \cup {None}
    /\ ipc[x] # None => pc[x] \in Open
Shape == \A x \in Contexts : ShapeOf(x)

(* A CPU runs its scheduler, which has otherwise just picked a process, or *)
(* a process that is RUNNING, and no other CPU runs that.                  *)
OnCpu ==
    /\ \A c \in Cpus : cur[c] \in Procs \cup {c}
    /\ \A c \in Cpus : cur[c] # c => pc[c] = "c_pick" /\ ipc[c] = None
    /\ \A c, d \in Cpus : cur[c] = cur[d] => c = d
    /\ \A p \in Procs : state[p] = "RUNNING" <=> \E c \in Cpus : cur[c] = p

(* A process that can run again is about to release ptable.lock, and has   *)
(* saved the intena that its critical section began with.                  *)
ParkedOf(p) ==
    /\ state[p] \in {"RUNNABLE", "SLEEPING"} =>
          /\ Label(p) \in {"s_woken", "y_rel", "forkret"}
          /\ state[p] = "SLEEPING" => Label(p) = "s_woken"
          /\ Label(p) = "s_woken" => saved[p]
          /\ Label(p) = "y_rel" => ~saved[p]
    /\ state[p] = "ZOMBIE" => Label(p) = "user"
Parked == \A p \in Procs : ParkedOf(p)

(* The CPU has exactly the locks that its context is inside.               *)
LocksOf(c) ==
    /\ locked["tickslock"] = c <=> Label(cur[c]) \in TickLabels
    /\ locked["ptable"] = c <=> Label(cur[c]) \in TableLabels

(* ncli counts those locks, and the one that the CPU spins on.             *)
One(b) == IF b THEN 1 ELSE 0
DepthOf(c) ==
    /\ ncli[c] = One(Label(cur[c]) \in TickLabels) + One(Label(cur[c]) \in TableLabels)
                 + One(spin[c])
    /\ spin[c] => Label(cur[c]) \in DOMAIN Acquires

(* Interrupts are off in a critical section and in a handler; release      *)
(* turns them on again in the code of sys_sleep only.                      *)
FlagsOf(c) ==
    /\ ncli[c] > 0 => ~flag[c]
    /\ ipc[cur[c]] # None => ~flag[c] /\ (ncli[c] > 0 => ~intena[c])
    /\ cur[c] \in Procs /\ ipc[cur[c]] = None =>
          /\ ncli[c] > 0 /\ pc[cur[c]] \in SleepLabels => intena[c]
          /\ ncli[c] = 0 /\ pc[cur[c]] \notin {"sysret", "e_acq"} => flag[c]
CpuOf(c) == LocksOf(c) /\ DepthOf(c) /\ FlagsOf(c)
CpusOK == \A c \in Cpus : CpuOf(c)

(* The ticks since ticks0 was read, as sys_sleep counts them.              *)
Elapsed(p) == (ticks - nap[p].ticks0) % UINT

(* From the test of the condition on, a process on its way to sleep has    *)
(* time left, or the tick that ended it is about to wake it.               *)
DozeOf(p) ==
    /\ pc[p] \in {"s_lock", "s_drop"} => TooEarly(p)
    /\ pc[p] = "s_sched" \/ state[p] = "SLEEPING" => TooEarly(p) \/ Waking

(* What sys_sleep takes for the ticks that have passed have passed.        *)
CountOf(p) ==
    /\ pc[p] \in SleepLabels \ {"s_acq", "s_read", "s_rel"} =>
          slept[p] \geq nap[p].n \/ slept[p] \geq Elapsed(p)
    /\ pc[p] = "s_rel" /\ ~killed[p] => slept[p] \geq nap[p].n
NapOf(p) == DozeOf(p) /\ CountOf(p)
Naptime == \A p \in Procs : NapOf(p)

(* The inductive invariant.                                                *)
Inv == TypeOK /\ NoPanic /\ Shape /\ OnCpu /\ Parked /\ CpusOK /\ Naptime

(* What the tables say of a call of acquire: the label after it is in the  *)
(* same code, and is inside the lock that was taken and inside the locks   *)
(* that were held before.                                                  *)
LEMMA AcquireTable ==
    ASSUME NEW l \in DOMAIN Acquires
    PROVE  /\ l \in Labels /\ l # None /\ After[l] \in Labels /\ After[l] # None
           /\ Acquires[l] \in {"tickslock", "ptable"}
           /\ l \in ProcLabels <=> After[l] \in ProcLabels
           /\ l \in CpuLabels <=> After[l] \in CpuLabels
           /\ l \in TimerLabels <=> After[l] \in TimerLabels
           /\ l \in YieldLabels <=> After[l] \in YieldLabels
           /\ Acquires[l] = "tickslock" =>
                 /\ l \notin TickLabels /\ After[l] \in TickLabels
                 /\ l \in TableLabels <=> After[l] \in TableLabels
           /\ Acquires[l] = "ptable" =>
                 /\ l \notin TableLabels /\ After[l] \in TableLabels
                 /\ l \in TickLabels <=> After[l] \in TickLabels
  BY DEF Acquires, Releases, After, Labels, TickLabels, TableLabels, ProcLabels,
         CpuLabels, TimerLabels, YieldLabels, None

(* The same for release; the last release of yield continues in trap.      *)
LEMMA ReleaseTable ==
    ASSUME NEW l \in DOMAIN Releases
    PROVE  /\ l \in Labels /\ l # None /\ After[l] \in Labels /\ After[l] # None
           /\ Releases[l] \in {"tickslock", "ptable"}
           /\ l \in ProcLabels <=> After[l] \in ProcLabels
           /\ l \in CpuLabels <=> After[l] \in CpuLabels
           /\ l \in TimerLabels \cup YieldLabels <=> After[l] \in TimerLabels
           /\ Releases[l] = "tickslock" =>
                 /\ l \in TickLabels /\ After[l] \notin TickLabels
                 /\ l \in TableLabels <=> After[l] \in TableLabels
           /\ Releases[l] = "ptable" =>
                 /\ l \in TableLabels /\ After[l] \notin TableLabels
                 /\ l \in TickLabels <=> After[l] \in TickLabels
  BY DEF Acquires, Releases, After, Labels, TickLabels, TableLabels, ProcLabels,
         CpuLabels, TimerLabels, YieldLabels, None

(* Goto moves one context, in its handler if one runs on top of it, and    *)
(* starts or ends no handler.                                              *)
LEMMA GotoLabel ==
    ASSUME TypeOK, NEW x \in Contexts, NEW l \in Labels, l # None, Goto(x, l)
    PROVE  /\ Label(x)' = l
           /\ \A y \in Contexts \ {x} : Label(y)' = Label(y)
           /\ \A y \in Contexts : ipc'[y] = None <=> ipc[y] = None
           /\ \A y \in Contexts \ {x} : pc'[y] = pc[y] /\ ipc'[y] = ipc[y]
           /\ ipc[x] = None => pc'[x] = l /\ ipc'[x] = None
           /\ ipc[x] # None => pc'[x] = pc[x] /\ ipc'[x] = l
           /\ pc' \in [Contexts -> Labels] /\ ipc' \in [Contexts -> Labels \cup {None}]
  BY DEF Goto, Label, TypeOK

(* A process inside a critical section of sys_sleep is on some CPU, and at *)
(* that label there: no handler runs on top of it.                         *)
LEMMA Holder ==
    ASSUME Inv, NEW p \in Procs,
           pc[p] \in {"s_read", "s_test", "s_lock", "s_drop", "s_sched", "s_rel"}
    PROVE  \E d \in Cpus : cur[d] = p /\ Label(cur[d]) = pc[p]
<1>1. ipc[p] = None /\ Label(p) = pc[p]
  BY DEF Inv, Shape, ShapeOf, Open, Label, Contexts
<1>2. state[p] = "RUNNING"
  BY <1>1 DEF Inv, TypeOK, Parked, ParkedOf
<1> QED BY <1>1, <1>2 DEF Inv, OnCpu

(* The types of what sys_sleep counts with.                                *)
LEMMA NapType ==
    ASSUME Inv, NEW p \in Procs
    PROVE  /\ slept[p] \in Nat /\ nap[p].n \in Nat
           /\ nap[p].ticks0 \in 0 .. UINT - 1 /\ Elapsed(p) \in Nat
<1>1. nap[p] \in [ticks0 : 0 .. UINT - 1, n : Naps \cup {0}]
  BY DEF Inv, TypeOK
<1>2. nap[p].n \in Nat
  <2>1. nap[p].n \in Naps \cup {0}
    BY <1>1
  <2>2. Naps \cup {0} \subseteq Nat
    BY CpuAssumption
  <2> QED BY <2>1, <2>2
<1>3. nap[p].ticks0 \in 0 .. UINT - 1 /\ ticks \in 0 .. UINT - 1 /\ UINT \in Nat \ {0}
  BY <1>1, CpuAssumption DEF Inv, TypeOK
<1>4. Elapsed(p) \in Nat
  BY <1>3 DEF Elapsed
<1> QED BY <1>2, <1>3, <1>4 DEF Inv, TypeOK

(* One tick, across the wraparound: the time that sys_sleep sees elapsed   *)
(* grows by one or falls back to zero.                                     *)
LEMMA TickElapsed ==
    ASSUME NEW m \in Nat \ {0}, NEW t \in 0 .. m - 1, NEW r \in 0 .. m - 1
    PROVE  /\ (t - r) % m \in Nat
           /\ (((t + 1) % m) - r) % m \in Nat
           /\ (((t + 1) % m) - r) % m <= ((t - r) % m) + 1
<1>1. (t + 1) % m = IF t + 1 = m THEN 0 ELSE t + 1
  OBVIOUS
<1> QED BY <1>1

(* A step of one CPU that leaves the other CPUs' counters, flags and locks *)
(* alone keeps what the invariant says of them.                            *)
LEMMA KeepCpus ==
    ASSUME Inv, NEW c \in Cpus, NEW x \in Contexts, x = cur[c],
           \A d \in Cpus \ {c} : cur'[d] = cur[d],
           \A y \in Contexts \ {x} : pc'[y] = pc[y] /\ ipc'[y] = ipc[y],
           \A d \in Cpus \ {c} : /\ ncli'[d] = ncli[d] /\ flag'[d] = flag[d]
                                 /\ intena'[d] = intena[d] /\ spin'[d] = spin[d],
           \A d \in Cpus \ {c} : \A l \in {"tickslock", "ptable"} :
              locked'[l] = d <=> locked[l] = d,
           CpuOf(c)'
    PROVE  CpusOK'
<1> SUFFICES ASSUME NEW d \in Cpus \ {c} PROVE CpuOf(d)'
  BY DEF CpusOK
<1>1. cur[d] \in Contexts \ {x} /\ cur'[d] = cur[d] /\ CpuOf(d)
  BY DEF Inv, TypeOK, OnCpu, CpusOK
<1>2. Label(cur[d])' = Label(cur[d])
  BY <1>1 DEF Label
<1> QED BY <1>1, <1>2 DEF CpuOf, LocksOf, DepthOf, FlagsOf

(* A step that moves one context within its own code, and changes no       *)
(* process state and no CPU's context, keeps Shape, OnCpu and Parked.      *)
LEMMA KeepProcs ==
    ASSUME Inv, NEW c \in Cpus, NEW x \in Contexts, x = cur[c], cur' = cur,
           \A y \in Contexts \ {x} : pc'[y] = pc[y] /\ ipc'[y] = ipc[y],
           ShapeOf(x)',
           \A p \in Procs : \/ state'[p] = state[p]
                            \/ state[p] = "SLEEPING" /\ state'[p] = "RUNNABLE",
           saved' = saved
    PROVE  Shape' /\ OnCpu' /\ Parked'
<1>1. Shape'
  BY DEF Inv, Shape, ShapeOf
<1>2. OnCpu'
  BY CpuAssumption DEF Inv, OnCpu, Contexts
<1>3. Parked'
  <2> SUFFICES ASSUME NEW p \in Procs PROVE ParkedOf(p)'
    BY DEF Parked
  <2>1. CASE p = x
    BY <2>1 DEF Inv, OnCpu, ParkedOf
  <2>2. CASE p # x
    <3>1. Label(p)' = Label(p)
      BY <2>2 DEF Label, Contexts
    <3> QED BY <3>1 DEF Inv, Parked, ParkedOf
  <2> QED BY <2>1, <2>2
<1> QED BY <1>1, <1>2, <1>3

(* A step of one context that changes no state, no tick and no nap of the  *)
(* other processes keeps what the invariant says of their sleep, unless it *)
(* ends a wakeup.                                                          *)
LEMMA KeepNaps ==
    ASSUME Inv, NEW c \in Cpus, NEW x \in Contexts, x = cur[c],
           \A d \in Cpus \ {c} : cur'[d] = cur[d],
           \A y \in Contexts \ {x} : pc'[y] = pc[y] /\ ipc'[y] = ipc[y],
           ticks' = ticks, killed' = killed,
           \A p \in Procs \ {x} : nap'[p] = nap[p] /\ slept'[p] = slept[p]
                                  /\ (state'[p] = "SLEEPING" => state[p] = "SLEEPING"),
           Label(x) \in {"w_acq", "w_mark"} => cur'[c] = x /\ Label(x)' \in {"w_acq", "w_mark"},
           x \in Procs => NapOf(x)'
    PROVE  Naptime'
<1>1. Waking => Waking'
  <2> SUFFICES ASSUME NEW d \in Cpus, Label(cur[d]) \in {"w_acq", "w_mark"} PROVE Waking'
    BY DEF Waking
  <2>1. CASE cur[d] = x
    BY <2>1 DEF Waking
  <2>2. CASE cur[d] # x
    <3>1. Label(cur[d])' = Label(cur[d])
      BY <2>2 DEF Label, Inv, TypeOK
    <3> QED BY <3>1 DEF Waking
  <2> QED BY <2>1, <2>2
<1> SUFFICES ASSUME NEW p \in Procs, p # x PROVE NapOf(p)'
  BY DEF Naptime
<1>2. pc'[p] = pc[p]
  BY DEF Contexts
<1>3. DozeOf(p)'
  BY <1>1, <1>2 DEF Inv, Naptime, NapOf, DozeOf, TooEarly
<1>4. CountOf(p)'
  BY <1>2 DEF Inv, Naptime, NapOf, CountOf, Elapsed
<1> QED BY <1>3, <1>4 DEF NapOf

(* scheduler enables interrupts.                                           *)
LEMMA stiInv ==
    ASSUME Inv, NEW c \in Cpus, sti(c)
    PROVE  Inv'
<1> USE DEF cpuvars, sleepvars
<1>1. PICK x \in Contexts : x = cur[c]
  BY DEF Inv, TypeOK
<1>2. Label(x) = "c_sti" /\ ~spin[c]
  BY <1>1 DEF sti, At
<1>3. PICK l \in Labels : l = ("c_acq") /\ l # None /\ Goto(x, l)
  BY <1>1, <1>2
     DEF sti, Labels, After, None, Inv, OnCpu, Shape, ShapeOf, Label,
         CpuLabels, TimerLabels, YieldLabels, ProcLabels
<1>4. /\ Label(x)' = l
      /\ \A y \in Contexts \ {x} : pc'[y] = pc[y] /\ ipc'[y] = ipc[y]
      /\ ipc[x] = None => pc'[x] = l /\ ipc'[x] = None
      /\ ipc[x] # None => pc'[x] = pc[x] /\ ipc'[x] = l
      /\ pc' \in [Contexts -> Labels] /\ ipc' \in [Contexts -> Labels \cup {None}]
  BY <1>3, GotoLabel DEF Inv
<1>5. x \in Cpus \ Procs /\ ipc[x] = None /\ pc[x] = "c_sti"
  BY <1>2, CpuAssumption
     DEF Inv, Shape, ShapeOf, Label, Contexts, ProcLabels,
         CpuLabels, TimerLabels, YieldLabels, Open, None
<1>6. TypeOK' /\ NoPanic'
  BY <1>1, <1>4, <1>5, CpuAssumption DEF sti, Inv, TypeOK, NoPanic
<1>7. Shape' /\ OnCpu' /\ Parked'
  <2>1. ShapeOf(x)'
    BY <1>3, <1>4, <1>5
       DEF Inv, Shape, ShapeOf, ProcLabels, CpuLabels, TimerLabels,
           YieldLabels, Open, None
  <2> QED BY <1>1, <1>4, <2>1, KeepProcs DEF sti, Inv, TypeOK
<1>8. CpusOK'
  <2>1. LocksOf(c)' /\ DepthOf(c)'
    BY <1>1, <1>2, <1>3, <1>4
       DEF sti, Inv, CpusOK, CpuOf, LocksOf, DepthOf, TickLabels, TableLabels
  <2>2. FlagsOf(c)'
    BY <1>1, <1>2, <1>3, <1>4, <1>5
       DEF sti, Inv, TypeOK, CpusOK, CpuOf, DepthOf, One, FlagsOf, SleepLabels,
           TickLabels, TableLabels
  <2> QED BY <1>1, <1>4, <2>1, <2>2, KeepCpus DEF sti, CpuOf, Inv, TypeOK
<1>9. Naptime'
  <2>1. ASSUME x \in Procs PROVE NapOf(x)'
    <3>1. state'[x] # "SLEEPING"
      BY <1>1, <2>1 DEF sti, Inv, OnCpu
    <3>2. DozeOf(x)'
      BY <1>1, <1>3, <1>4, <1>5, <2>1, <3>1
         DEF sti, Inv, Naptime, NapOf, DozeOf, TooEarly
    <3>3. CountOf(x)'
      BY <1>1, <1>3, <1>4, <1>5, <2>1
         DEF sti, Inv, TypeOK, Naptime, NapOf, CountOf, TooEarly, Elapsed,
             SleepLabels
    <3> QED BY <3>2, <3>3 DEF NapOf
  <2>2. \A p \in Procs \ {x} : nap'[p] = nap[p] /\ slept'[p] = slept[p]
    BY <1>1 DEF sti, Inv, TypeOK, Naptime
  <2> QED BY <1>1, <1>2, <1>3, <1>4, <2>1, <2>2, KeepNaps DEF sti
<1> QED BY <1>6, <1>7, <1>8, <1>9 DEF Inv

(* scheduler reaches the end of the table.                                 *)
LEMMA EndOfTableInv ==
    ASSUME Inv, NEW c \in Cpus, EndOfTable(c)
    PROVE  Inv'
<1> USE DEF cpuvars, sleepvars
<1>1. PICK x \in Contexts : x = cur[c]
  BY DEF Inv, TypeOK
<1>2. Label(x) = "c_pick" /\ ~spin[c]
  BY <1>1 DEF EndOfTable, At
<1>3. PICK l \in Labels : l = ("c_rel") /\ l # None /\ Goto(x, l)
  BY <1>1, <1>2
     DEF EndOfTable, Labels, After, None, Inv, OnCpu, Shape, ShapeOf, Label,
         CpuLabels, TimerLabels, YieldLabels, ProcLabels
<1>4. /\ Label(x)' = l
      /\ \A y \in Contexts \ {x} : pc'[y] = pc[y] /\ ipc'[y] = ipc[y]
      /\ ipc[x] = None => pc'[x] = l /\ ipc'[x] = None
      /\ ipc[x] # None => pc'[x] = pc[x] /\ ipc'[x] = l
      /\ pc' \in [Contexts -> Labels] /\ ipc' \in [Contexts -> Labels \cup {None}]
  BY <1>3, GotoLabel DEF Inv
<1>5. x \in Cpus \ Procs /\ ipc[x] = None /\ pc[x] = "c_pick"
  BY <1>2, CpuAssumption
     DEF Inv, Shape, ShapeOf, Label, Contexts, ProcLabels,
         CpuLabels, TimerLabels, YieldLabels, Open, None
<1>6. TypeOK' /\ NoPanic'
  BY <1>1, <1>4, <1>5, CpuAssumption DEF EndOfTable, Inv, TypeOK, NoPanic
<1>7. Shape' /\ OnCpu' /\ Parked'
  <2>1. ShapeOf(x)'
    BY <1>3, <1>4, <1>5
       DEF Inv, Shape, ShapeOf, ProcLabels, CpuLabels, TimerLabels,
           YieldLabels, Open, None
  <2> QED BY <1>1, <1>4, <2>1, KeepProcs DEF EndOfTable, Inv, TypeOK
<1>8. CpusOK'
  <2>1. LocksOf(c)' /\ DepthOf(c)'
    BY <1>1, <1>2, <1>3, <1>4
       DEF EndOfTable, Inv, CpusOK, CpuOf, LocksOf, DepthOf, TickLabels,
           TableLabels
  <2>2. FlagsOf(c)'
    BY <1>1, <1>2, <1>3, <1>4, <1>5
       DEF EndOfTable, Inv, TypeOK, CpusOK, CpuOf, DepthOf, One, FlagsOf,
           SleepLabels, TickLabels, TableLabels
  <2> QED BY <1>1, <1>4, <2>1, <2>2, KeepCpus DEF EndOfTable, CpuOf, Inv, TypeOK
<1>9. Naptime'
  <2>1. ASSUME x \in Procs PROVE NapOf(x)'
    <3>1. state'[x] # "SLEEPING"
      BY <1>1, <2>1 DEF EndOfTable, Inv, OnCpu
    <3>2. DozeOf(x)'
      BY <1>1, <1>3, <1>4, <1>5, <2>1, <3>1
         DEF EndOfTable, Inv, Naptime, NapOf, DozeOf, TooEarly
    <3>3. CountOf(x)'
      BY <1>1, <1>3, <1>4, <1>5, <2>1
         DEF EndOfTable, Inv, TypeOK, Naptime, NapOf, CountOf, TooEarly,
             Elapsed, SleepLabels
    <3> QED BY <3>2, <3>3 DEF NapOf
  <2>2. \A p \in Procs \ {x} : nap'[p] = nap[p] /\ slept'[p] = slept[p]
    BY <1>1 DEF EndOfTable, Inv, TypeOK, Naptime
  <2> QED BY <1>1, <1>2, <1>3, <1>4, <2>1, <2>2, KeepNaps DEF EndOfTable
<1> QED BY <1>6, <1>7, <1>8, <1>9 DEF Inv

(* The timer handler counts a tick. A process on its way to sleep after    *)
(* its test holds tickslock or sleeps; the first cannot be, and the second *)
(* is about to be woken.                                                   *)
LEMMA tickInv ==
    ASSUME Inv, NEW c \in Cpus, tick(c)
    PROVE  Inv'
<1> USE DEF cpuvars, sleepvars
<1>1. PICK x \in Contexts : x = cur[c]
  BY DEF Inv, TypeOK
<1>2. Label(x) = "t_tick" /\ ~spin[c]
  BY <1>1 DEF tick, WakesNext, At
<1>3. PICK l \in Labels : l = ("w_acq") /\ l # None /\ Goto(x, l)
  BY <1>1, <1>2 DEF tick, WakesNext, Labels, After, None
<1>4. /\ Label(x)' = l
      /\ \A y \in Contexts \ {x} : pc'[y] = pc[y] /\ ipc'[y] = ipc[y]
      /\ ipc[x] = None => pc'[x] = l /\ ipc'[x] = None
      /\ ipc[x] # None => pc'[x] = pc[x] /\ ipc'[x] = l
      /\ pc' \in [Contexts -> Labels] /\ ipc' \in [Contexts -> Labels \cup {None}]
  BY <1>3, GotoLabel DEF Inv
<1>5. ipc[x] = "t_tick" /\ ipc[x] # None
  BY <1>2
     DEF Inv, Shape, ShapeOf, Label, Contexts, ProcLabels, CpuLabels,
         TimerLabels, YieldLabels, Open, None
<1>6. TypeOK' /\ NoPanic'
  <2>1. ticks' \in 0 .. UINT - 1
    BY CpuAssumption DEF tick, Inv, TypeOK
  <2>2. slept' \in [Procs -> Nat]
    BY DEF tick, Inv, TypeOK
  <2> QED BY <1>1, <1>4, <1>5, <2>1, <2>2
             DEF tick, WakesNext, Inv, TypeOK, NoPanic
<1>7. Shape' /\ OnCpu' /\ Parked'
  <2>1. ShapeOf(x)'
    BY <1>3, <1>4, <1>5
       DEF Inv, Shape, ShapeOf, ProcLabels, CpuLabels, TimerLabels,
           YieldLabels, Open, None
  <2> QED BY <1>1, <1>4, <2>1, KeepProcs DEF tick, WakesNext, Inv, TypeOK
<1>8. CpusOK'
  <2>1. LocksOf(c)' /\ DepthOf(c)'
    BY <1>1, <1>2, <1>3, <1>4
       DEF tick, WakesNext, Inv, CpusOK, CpuOf, LocksOf, DepthOf, TickLabels,
           TableLabels
  <2>2. FlagsOf(c)'
    BY <1>1, <1>2, <1>3, <1>4, <1>5
       DEF tick, WakesNext, Inv, TypeOK, CpusOK, CpuOf, DepthOf, One, FlagsOf,
           SleepLabels, TickLabels, TableLabels
  <2> QED BY <1>1, <1>4, <2>1, <2>2, KeepCpus
             DEF tick, WakesNext, CpuOf, Inv, TypeOK
<1>9. Naptime'
  <2> SUFFICES ASSUME NEW p \in Procs PROVE NapOf(p)'
    BY DEF Naptime
  <2>1. Waking'
    BY <1>1, <1>3, <1>4 DEF tick, Waking
  <2>2. pc[p] \notin {"s_lock", "s_drop"} /\ pc'[p] = pc[p]
    BY <1>1, <1>2, <1>4, <1>5, Holder
       DEF Inv, CpusOK, CpuOf, LocksOf, TickLabels, Contexts
  <2>3. DozeOf(p)'
    BY <2>1, <2>2 DEF DozeOf
  <2>4. CountOf(p)'
    <3>1. /\ slept[p] \in Nat /\ nap[p].n \in Nat /\ nap'[p] = nap[p] /\ killed'[p] = killed[p]
          /\ slept'[p] = IF slept[p] < nap[p].n THEN slept[p] + 1 ELSE slept[p]
      BY NapType DEF tick
    <3>2. Elapsed(p)' \in Nat /\ Elapsed(p) \in Nat /\ Elapsed(p)' <= Elapsed(p) + 1
      <4>1. ticks \in 0 .. UINT - 1 /\ nap[p].ticks0 \in 0 .. UINT - 1 /\ UINT \in Nat \ {0}
        BY CpuAssumption DEF Inv, TypeOK
      <4>2. ticks' = (ticks + 1) % UINT
        BY DEF tick
      <4> QED BY <3>1, <4>1, <4>2, TickElapsed DEF Elapsed
    <3> QED BY <2>2, <3>1, <3>2 DEF CountOf, Inv, Naptime, NapOf
  <2> QED BY <2>3, <2>4 DEF NapOf
<1> QED BY <1>6, <1>7, <1>8, <1>9 DEF Inv

(* wakeup makes every sleeper RUNNABLE, so that no claim about sleepers is *)
(* left to keep.                                                           *)
LEMMA wakeupInv ==
    ASSUME Inv, NEW c \in Cpus, wakeup(c)
    PROVE  Inv'
<1> USE DEF cpuvars, sleepvars
<1>1. PICK x \in Contexts : x = cur[c]
  BY DEF Inv, TypeOK
<1>2. Label(x) = "w_mark" /\ ~spin[c]
  BY <1>1 DEF wakeup, At
<1>3. PICK l \in Labels : l = ("w_rel") /\ l # None /\ Goto(x, l)
  BY <1>1, <1>2 DEF wakeup, Labels, After, None
<1>4. /\ Label(x)' = l
      /\ \A y \in Contexts \ {x} : pc'[y] = pc[y] /\ ipc'[y] = ipc[y]
      /\ ipc[x] = None => pc'[x] = l /\ ipc'[x] = None
      /\ ipc[x] # None => pc'[x] = pc[x] /\ ipc'[x] = l
      /\ pc' \in [Contexts -> Labels] /\ ipc' \in [Contexts -> Labels \cup {None}]
  BY <1>3, GotoLabel DEF Inv
<1>5. ipc[x] = "w_mark" /\ ipc[x] # None
  BY <1>2
     DEF Inv, Shape, ShapeOf, Label, Contexts, ProcLabels, CpuLabels,
         TimerLabels, YieldLabels, Open, None
<1>6. TypeOK' /\ NoPanic'
  BY <1>1, <1>4, <1>5, CpuAssumption DEF wakeup, Inv, TypeOK, NoPanic
<1>7. Shape' /\ OnCpu' /\ Parked'
  <2>1. ShapeOf(x)'
    BY <1>3, <1>4, <1>5
       DEF Inv, Shape, ShapeOf, ProcLabels, CpuLabels, TimerLabels,
           YieldLabels, Open, None
  <2> QED BY <1>1, <1>4, <2>1, KeepProcs DEF wakeup, Inv, TypeOK
<1>8. CpusOK'
  <2>1. LocksOf(c)' /\ DepthOf(c)'
    BY <1>1, <1>2, <1>3, <1>4
       DEF wakeup, Inv, CpusOK, CpuOf, LocksOf, DepthOf, TickLabels,
           TableLabels
  <2>2. FlagsOf(c)'
    BY <1>1, <1>2, <1>3, <1>4, <1>5
       DEF wakeup, Inv, TypeOK, CpusOK, CpuOf, DepthOf, One, FlagsOf,
           SleepLabels, TickLabels, TableLabels
  <2> QED BY <1>1, <1>4, <2>1, <2>2, KeepCpus DEF wakeup, CpuOf, Inv, TypeOK
<1>9. Naptime'
  <2> SUFFICES ASSUME NEW p \in Procs PROVE NapOf(p)'
    BY DEF Naptime
  <2>1. pc[p] # "s_sched" /\ pc'[p] = pc[p]
    BY <1>1, <1>2, <1>4, <1>5, Holder
       DEF Inv, CpusOK, CpuOf, LocksOf, TableLabels, Contexts
  <2>2. state'[p] # "SLEEPING"
    BY DEF wakeup
  <2>3. DozeOf(p)'
    BY <2>1, <2>2 DEF wakeup, Inv, Naptime, NapOf, DozeOf, TooEarly
  <2>4. CountOf(p)'
    BY <2>1 DEF wakeup, Inv, Naptime, NapOf, CountOf, Elapsed
  <2> QED BY <2>3, <2>4 DEF NapOf
<1> QED BY <1>6, <1>7, <1>8, <1>9 DEF Inv

(* A system call, or the exit of a killed process instead of it.           *)
LEMMA syscallInv ==
    ASSUME Inv, NEW c \in Cpus, NEW k \in Naps, syscall(c, k)
    PROVE  Inv'
<1> USE DEF cpuvars, sleepvars
<1>1. PICK x \in Contexts : x = cur[c]
  BY DEF Inv, TypeOK
<1>2. Label(x) = "user" /\ ~spin[c]
  BY <1>1 DEF syscall, At
<1>3. PICK l \in Labels : l = (IF killed[x] THEN "e_acq" ELSE "s_acq") /\ l # None /\ Goto(x, l)
  BY <1>1, <1>2 DEF syscall, Labels, After, None
<1>4. /\ Label(x)' = l
      /\ \A y \in Contexts \ {x} : pc'[y] = pc[y] /\ ipc'[y] = ipc[y]
      /\ ipc[x] = None => pc'[x] = l /\ ipc'[x] = None
      /\ ipc[x] # None => pc'[x] = pc[x] /\ ipc'[x] = l
      /\ pc' \in [Contexts -> Labels] /\ ipc' \in [Contexts -> Labels \cup {None}]
  BY <1>3, GotoLabel DEF Inv
<1>5. x \in Procs \ Cpus /\ ipc[x] = None /\ pc[x] = "user"
  BY <1>2, CpuAssumption
     DEF Inv, Shape, ShapeOf, Label, Contexts, ProcLabels,
         CpuLabels, TimerLabels, YieldLabels, Open, None
<1>6. TypeOK' /\ NoPanic'
  BY <1>1, <1>4, <1>5, CpuAssumption DEF syscall, Inv, TypeOK, NoPanic
<1>7. Shape' /\ OnCpu' /\ Parked'
  <2>1. ShapeOf(x)'
    BY <1>3, <1>4, <1>5
       DEF Inv, Shape, ShapeOf, ProcLabels, CpuLabels, TimerLabels,
           YieldLabels, Open, None
  <2> QED BY <1>1, <1>4, <2>1, KeepProcs DEF syscall, Inv, TypeOK
<1>8. CpusOK'
  <2>1. LocksOf(c)' /\ DepthOf(c)'
    BY <1>1, <1>2, <1>3, <1>4
       DEF syscall, Inv, CpusOK, CpuOf, LocksOf, DepthOf, TickLabels,
           TableLabels
  <2>2. FlagsOf(c)'
    BY <1>1, <1>2, <1>3, <1>4, <1>5
       DEF syscall, Inv, TypeOK, CpusOK, CpuOf, DepthOf, One, FlagsOf,
           SleepLabels, TickLabels, TableLabels
  <2> QED BY <1>1, <1>4, <2>1, <2>2, KeepCpus DEF syscall, CpuOf, Inv, TypeOK
<1>9. Naptime'
  <2>1. ASSUME x \in Procs PROVE NapOf(x)'
    <3>1. state'[x] # "SLEEPING"
      BY <1>1, <2>1 DEF syscall, Inv, OnCpu
    <3>2. DozeOf(x)'
      BY <1>1, <1>3, <1>4, <1>5, <2>1, <3>1
         DEF syscall, Inv, Naptime, NapOf, DozeOf, TooEarly
    <3>3. CountOf(x)'
      BY <1>1, <1>3, <1>4, <1>5, <2>1
         DEF syscall, Inv, TypeOK, Naptime, NapOf, CountOf, TooEarly, Elapsed,
             SleepLabels
    <3> QED BY <3>2, <3>3 DEF NapOf
  <2>2. \A p \in Procs \ {x} : nap'[p] = nap[p] /\ slept'[p] = slept[p]
    BY <1>1 DEF syscall, Inv, TypeOK, Naptime
  <2> QED BY <1>1, <1>2, <1>3, <1>4, <2>1, <2>2, KeepNaps DEF syscall
<1> QED BY <1>6, <1>7, <1>8, <1>9 DEF Inv

(* The return to user code, or exit on the way.                            *)
LEMMA sysretInv ==
    ASSUME Inv, NEW c \in Cpus, sysret(c)
    PROVE  Inv'
<1> USE DEF cpuvars, sleepvars
<1>1. PICK x \in Contexts : x = cur[c]
  BY DEF Inv, TypeOK
<1>2. Label(x) = "sysret" /\ ~spin[c]
  BY <1>1 DEF sysret, At
<1>3. PICK l \in Labels : l = (IF killed[x] THEN "e_acq" ELSE "user") /\ l # None /\ Goto(x, l)
  BY <1>1, <1>2 DEF sysret, Labels, After, None
<1>4. /\ Label(x)' = l
      /\ \A y \in Contexts \ {x} : pc'[y] = pc[y] /\ ipc'[y] = ipc[y]
      /\ ipc[x] = None => pc'[x] = l /\ ipc'[x] = None
      /\ ipc[x] # None => pc'[x] = pc[x] /\ ipc'[x] = l
      /\ pc' \in [Contexts -> Labels] /\ ipc' \in [Contexts -> Labels \cup {None}]
  BY <1>3, GotoLabel DEF Inv
<1>5. x \in Procs \ Cpus /\ ipc[x] = None /\ pc[x] = "sysret"
  BY <1>2, CpuAssumption
     DEF Inv, Shape, ShapeOf, Label, Contexts, ProcLabels,
         CpuLabels, TimerLabels, YieldLabels, Open, None
<1>6. TypeOK' /\ NoPanic'
  BY <1>1, <1>4, <1>5, CpuAssumption DEF sysret, Inv, TypeOK, NoPanic
<1>7. Shape' /\ OnCpu' /\ Parked'
  <2>1. ShapeOf(x)'
    BY <1>3, <1>4, <1>5
       DEF Inv, Shape, ShapeOf, ProcLabels, CpuLabels, TimerLabels,
           YieldLabels, Open, None
  <2> QED BY <1>1, <1>4, <2>1, KeepProcs DEF sysret, Inv, TypeOK
<1>8. CpusOK'
  <2>1. LocksOf(c)' /\ DepthOf(c)'
    BY <1>1, <1>2, <1>3, <1>4
       DEF sysret, Inv, CpusOK, CpuOf, LocksOf, DepthOf, TickLabels,
           TableLabels
  <2>2. FlagsOf(c)'
    <3>1. /\ ncli'[c] = 0 /\ cur' = cur /\ ipc'[x] = None
          /\ pc'[x] = "e_acq" \/ (pc'[x] = "user" /\ ~killed[x])
      BY <1>1, <1>2, <1>3, <1>4, <1>5
         DEF sysret, Inv, CpusOK, CpuOf, DepthOf, One, TickLabels, TableLabels
    <3>2. ~killed[x] => flag'[c]
      BY <1>1 DEF sysret, Inv, TypeOK
    <3> QED BY <1>1, <3>1, <3>2 DEF FlagsOf
  <2> QED BY <1>1, <1>4, <2>1, <2>2, KeepCpus DEF sysret, CpuOf, Inv, TypeOK
<1>9. Naptime'
  <2>1. ASSUME x \in Procs PROVE NapOf(x)'
    <3>1. state'[x] # "SLEEPING"
      BY <1>1, <2>1 DEF sysret, Inv, OnCpu
    <3>2. DozeOf(x)'
      BY <1>1, <1>3, <1>4, <1>5, <2>1, <3>1
         DEF sysret, Inv, Naptime, NapOf, DozeOf, TooEarly
    <3>3. CountOf(x)'
      BY <1>1, <1>3, <1>4, <1>5, <2>1
         DEF sysret, Inv, TypeOK, Naptime, NapOf, CountOf, TooEarly, Elapsed,
             SleepLabels
    <3> QED BY <3>2, <3>3 DEF NapOf
  <2>2. \A p \in Procs \ {x} : nap'[p] = nap[p] /\ slept'[p] = slept[p]
    BY <1>1 DEF sysret, Inv, TypeOK, Naptime
  <2> QED BY <1>1, <1>2, <1>3, <1>4, <2>1, <2>2, KeepNaps DEF sysret
<1> QED BY <1>6, <1>7, <1>8, <1>9 DEF Inv

(* sys_sleep reads ticks0 under tickslock.                                 *)
LEMMA s_readInv ==
    ASSUME Inv, NEW c \in Cpus, s_read(c)
    PROVE  Inv'
<1> USE DEF cpuvars, sleepvars
<1>1. PICK x \in Contexts : x = cur[c]
  BY DEF Inv, TypeOK
<1>2. Label(x) = "s_read" /\ ~spin[c]
  BY <1>1 DEF s_read, At
<1>3. PICK l \in Labels : l = ("s_test") /\ l # None /\ Goto(x, l)
  BY <1>1, <1>2 DEF s_read, Labels, After, None
<1>4. /\ Label(x)' = l
      /\ \A y \in Contexts \ {x} : pc'[y] = pc[y] /\ ipc'[y] = ipc[y]
      /\ ipc[x] = None => pc'[x] = l /\ ipc'[x] = None
      /\ ipc[x] # None => pc'[x] = pc[x] /\ ipc'[x] = l
      /\ pc' \in [Contexts -> Labels] /\ ipc' \in [Contexts -> Labels \cup {None}]
  BY <1>3, GotoLabel DEF Inv
<1>5. x \in Procs \ Cpus /\ ipc[x] = None /\ pc[x] = "s_read"
  BY <1>2, CpuAssumption
     DEF Inv, Shape, ShapeOf, Label, Contexts, ProcLabels,
         CpuLabels, TimerLabels, YieldLabels, Open, None
<1>6. TypeOK' /\ NoPanic'
  BY <1>1, <1>4, <1>5, CpuAssumption DEF s_read, Inv, TypeOK, NoPanic
<1>7. Shape' /\ OnCpu' /\ Parked'
  <2>1. ShapeOf(x)'
    BY <1>3, <1>4, <1>5
       DEF Inv, Shape, ShapeOf, ProcLabels, CpuLabels, TimerLabels,
           YieldLabels, Open, None
  <2> QED BY <1>1, <1>4, <2>1, KeepProcs DEF s_read, Inv, TypeOK
<1>8. CpusOK'
  <2>1. LocksOf(c)' /\ DepthOf(c)'
    BY <1>1, <1>2, <1>3, <1>4
       DEF s_read, Inv, CpusOK, CpuOf, LocksOf, DepthOf, TickLabels,
           TableLabels
  <2>2. FlagsOf(c)'
    BY <1>1, <1>2, <1>3, <1>4, <1>5
       DEF s_read, Inv, TypeOK, CpusOK, CpuOf, DepthOf, One, FlagsOf,
           SleepLabels, TickLabels, TableLabels
  <2> QED BY <1>1, <1>4, <2>1, <2>2, KeepCpus DEF s_read, CpuOf, Inv, TypeOK
<1>9. Naptime'
  <2>1. ASSUME x \in Procs PROVE NapOf(x)'
    <3>1. state'[x] # "SLEEPING"
      BY <1>1, <2>1 DEF s_read, Inv, OnCpu
    <3>2. DozeOf(x)'
      BY <1>1, <1>3, <1>4, <1>5, <2>1, <3>1
         DEF s_read, Inv, Naptime, NapOf, DozeOf, TooEarly
    <3>3. CountOf(x)'
      <4>1. slept'[x] = 0 /\ nap'[x].ticks0 = ticks /\ ticks' = ticks /\ ticks \in Nat
        BY <1>1, <2>1 DEF s_read, Inv, TypeOK
      <4>2. Elapsed(x)' = 0
        BY <4>1, CpuAssumption DEF Elapsed
      <4> QED BY <1>3, <1>4, <1>5, <4>1, <4>2 DEF CountOf
    <3> QED BY <3>2, <3>3 DEF NapOf
  <2>2. \A p \in Procs \ {x} : nap'[p] = nap[p] /\ slept'[p] = slept[p]
    BY <1>1 DEF s_read, Inv, TypeOK, Naptime
  <2> QED BY <1>1, <1>2, <1>3, <1>4, <2>1, <2>2, KeepNaps DEF s_read
<1> QED BY <1>6, <1>7, <1>8, <1>9 DEF Inv

(* The loop condition of sys_sleep: past it there is time left, or n ticks *)
(* have passed, or the process was killed.                                 *)
LEMMA s_testInv ==
    ASSUME Inv, NEW c \in Cpus, s_test(c)
    PROVE  Inv'
<1> USE DEF cpuvars, sleepvars
<1>1. PICK x \in Contexts : x = cur[c]
  BY DEF Inv, TypeOK
<1>2. Label(x) = "s_test" /\ ~spin[c]
  BY <1>1 DEF s_test, At
<1>3. PICK l \in Labels : /\ l = (IF TooEarly(x) /\ ~killed[x] THEN "s_lock" ELSE "s_rel")
                          /\ l # None /\ Goto(x, l)
  BY <1>1, <1>2 DEF s_test, Labels, After, None
<1>4. /\ Label(x)' = l
      /\ \A y \in Contexts \ {x} : pc'[y] = pc[y] /\ ipc'[y] = ipc[y]
      /\ ipc[x] = None => pc'[x] = l /\ ipc'[x] = None
      /\ ipc[x] # None => pc'[x] = pc[x] /\ ipc'[x] = l
      /\ pc' \in [Contexts -> Labels] /\ ipc' \in [Contexts -> Labels \cup {None}]
  BY <1>3, GotoLabel DEF Inv
<1>5. x \in Procs \ Cpus /\ ipc[x] = None /\ pc[x] = "s_test"
  BY <1>2, CpuAssumption
     DEF Inv, Shape, ShapeOf, Label, Contexts, ProcLabels,
         CpuLabels, TimerLabels, YieldLabels, Open, None
<1>6. TypeOK' /\ NoPanic'
  BY <1>1, <1>4, <1>5, CpuAssumption DEF s_test, Inv, TypeOK, NoPanic
<1>7. Shape' /\ OnCpu' /\ Parked'
  <2>1. ShapeOf(x)'
    BY <1>3, <1>4, <1>5
       DEF Inv, Shape, ShapeOf, ProcLabels, CpuLabels, TimerLabels,
           YieldLabels, Open, None
  <2> QED BY <1>1, <1>4, <2>1, KeepProcs DEF s_test, Inv, TypeOK
<1>8. CpusOK'
  <2>1. LocksOf(c)' /\ DepthOf(c)'
    BY <1>1, <1>2, <1>3, <1>4
       DEF s_test, Inv, CpusOK, CpuOf, LocksOf, DepthOf, TickLabels,
           TableLabels
  <2>2. FlagsOf(c)'
    BY <1>1, <1>2, <1>3, <1>4, <1>5
       DEF s_test, Inv, TypeOK, CpusOK, CpuOf, DepthOf, One, FlagsOf,
           SleepLabels, TickLabels, TableLabels
  <2> QED BY <1>1, <1>4, <2>1, <2>2, KeepCpus DEF s_test, CpuOf, Inv, TypeOK
<1>9. Naptime'
  <2>1. ASSUME x \in Procs PROVE NapOf(x)'
    <3>1. state'[x] # "SLEEPING"
      BY <1>1, <2>1 DEF s_test, Inv, OnCpu
    <3>2. DozeOf(x)'
      BY <1>1, <1>3, <1>4, <1>5, <2>1, <3>1
         DEF s_test, Inv, Naptime, NapOf, DozeOf, TooEarly
    <3>3. CountOf(x)'
      <4>1. slept[x] \in Nat /\ nap[x].n \in Nat /\ Elapsed(x) \in Nat
        BY <2>1, NapType
      <4>2. slept[x] \geq nap[x].n \/ slept[x] \geq Elapsed(x)
        BY <1>5, <2>1 DEF Inv, Naptime, NapOf, CountOf, SleepLabels
      <4>3. ~killed[x] /\ l = "s_rel" => ~(Elapsed(x) < nap[x].n)
        BY <1>3 DEF TooEarly, Elapsed
      <4>4. /\ slept' = slept /\ nap' = nap /\ Elapsed(x)' = Elapsed(x)
            /\ killed' = killed /\ pc'[x] = l
        BY <1>4, <1>5 DEF s_test, Elapsed
      <4> QED BY <1>3, <4>1, <4>2, <4>3, <4>4 DEF CountOf, SleepLabels
    <3> QED BY <3>2, <3>3 DEF NapOf
  <2>2. \A p \in Procs \ {x} : nap'[p] = nap[p] /\ slept'[p] = slept[p]
    BY <1>1 DEF s_test, Inv, TypeOK, Naptime
  <2> QED BY <1>1, <1>2, <1>3, <1>4, <2>1, <2>2, KeepNaps DEF s_test
<1> QED BY <1>6, <1>7, <1>8, <1>9 DEF Inv

(* The xchg of acquire that gets the lock, for a caller that did not have  *)
(* to wait and for one that did.                                           *)
LEMMA TakeLock ==
    ASSUME Inv, NEW c \in Cpus, NEW x \in Contexts, x = cur[c],
           NEW l \in DOMAIN Acquires, l = Label(x),
           locked[Acquires[l]] = NoCpu,
           locked' = [locked EXCEPT ![Acquires[l]] = c],
           spin' = [spin EXCEPT ![c] = FALSE],
           \A d \in Cpus \ {c} : /\ ncli'[d] = ncli[d] /\ flag'[d] = flag[d]
                                 /\ intena'[d] = intena[d],
           ncli'[c] = ncli[c] + 1 - One(spin[c]),
           FlagsOf(c)', Goto(x, After[l]),
           UNCHANGED <<cur, saved, state, sleepvars, panicked>>,
           ncli' \in [Cpus -> Int], flag' \in [Cpus -> BOOLEAN], intena' \in [Cpus -> BOOLEAN]
    PROVE  Inv'
<1> USE DEF sleepvars
<1> DEFINE m == After[l]
<1>1. m \in Labels /\ m # None
  BY AcquireTable
<1>2. /\ Label(x)' = m
      /\ \A y \in Contexts \ {x} : pc'[y] = pc[y] /\ ipc'[y] = ipc[y]
      /\ ipc[x] = None => pc'[x] = m /\ ipc'[x] = None
      /\ ipc[x] # None => pc'[x] = pc[x] /\ ipc'[x] = m
      /\ pc' \in [Contexts -> Labels] /\ ipc' \in [Contexts -> Labels \cup {None}]
  BY <1>1, GotoLabel DEF Inv
<1>3. Shape' /\ OnCpu' /\ Parked'
  <2>1. ShapeOf(x)'
    BY <1>2, AcquireTable DEF Inv, Shape, ShapeOf, Label
  <2> QED BY <1>2, <2>1, KeepProcs
<1>4. LocksOf(c)' /\ DepthOf(c)'
  <2>1. LocksOf(c)'
    BY <1>2, AcquireTable DEF Inv, TypeOK, CpusOK, CpuOf, LocksOf
  <2>2. ncli'[c] = One(m \in TickLabels) + One(m \in TableLabels)
    BY AcquireTable DEF Inv, CpusOK, CpuOf, DepthOf, One
  <2> QED BY <1>2, <2>1, <2>2 DEF DepthOf, Inv, TypeOK, One
<1>5. CpusOK'
  <2>1. \A d \in Cpus \ {c} : \A k \in {"tickslock", "ptable"} :
           locked'[k] = d <=> locked[k] = d
    BY AcquireTable, CpuAssumption DEF Inv, TypeOK
  <2>2. \A d \in Cpus \ {c} : spin'[d] = spin[d]
    BY DEF Inv, TypeOK
  <2> QED BY <1>2, <1>4, <2>1, <2>2, KeepCpus DEF CpuOf
<1>6. TypeOK' /\ NoPanic'
  <2>1. ncli' \in [Cpus -> 0 .. 2]
    BY <1>5 DEF CpusOK, CpuOf, DepthOf, One, Acquires, TickLabels, TableLabels
  <2> QED BY <1>2, <2>1, AcquireTable DEF Inv, TypeOK, NoPanic
<1>7. Naptime'
  <2>1. ASSUME x \in Procs PROVE NapOf(x)'
    <3>1. state'[x] # "SLEEPING"
      BY <2>1 DEF Inv, OnCpu
    <3>2. DozeOf(x)'
      BY <1>2, <2>1, <3>1
         DEF Inv, Naptime, NapOf, DozeOf, TooEarly, Acquires, After, Label,
             Shape, ShapeOf, Open
    <3>3. CountOf(x)'
      BY <1>2, <2>1
         DEF Inv, Naptime, NapOf, CountOf, Elapsed, SleepLabels, Acquires,
             After, Label
    <3> QED BY <3>2, <3>3 DEF NapOf
  <2>2. l \in {"w_acq", "w_mark"} => m \in {"w_acq", "w_mark"}
    BY DEF Acquires, After
  <2> QED BY <1>2, <2>1, <2>2, KeepNaps
<1> QED BY <1>3, <1>5, <1>6, <1>7 DEF Inv

(* acquire: the lock is not held by this CPU, so there is no panic; it is  *)
(* taken, or the CPU spins.                                                *)
LEMMA acquireInv ==
    ASSUME Inv, NEW c \in Cpus, acquire(c)
    PROVE  Inv'
<1> USE DEF sleepvars
<1>1. PICK x \in Contexts : x = cur[c]
  BY DEF Inv, TypeOK
<1>2. PICK l \in DOMAIN Acquires : l = Label(x)
  BY <1>1 DEF acquire
<1>3. ~holding(c, Acquires[l])
  BY <1>1, <1>2, AcquireTable DEF Inv, CpusOK, CpuOf, LocksOf, holding
<1>4. /\ ~spin[c]
      /\ flag' = [flag EXCEPT ![c] = FALSE]
      /\ intena' = IF ncli[c] = 0 THEN [intena EXCEPT ![c] = flag[c]] ELSE intena
      /\ ncli' = [ncli EXCEPT ![c] = ncli[c] + 1]
      /\ UNCHANGED <<cur, saved, state, sleepvars, panicked>>
  BY <1>1, <1>2, <1>3 DEF acquire, Deeper
<1>5. /\ flag'[c] = FALSE /\ ncli'[c] = ncli[c] + 1 /\ ncli[c] \in Nat /\ ncli'[c] > 0
      /\ intena'[c] = IF ncli[c] = 0 THEN flag[c] ELSE intena[c]
      /\ \A d \in Cpus \ {c} : ncli'[d] = ncli[d] /\ flag'[d] = flag[d] /\ intena'[d] = intena[d]
      /\ ncli' \in [Cpus -> Int] /\ flag' \in [Cpus -> BOOLEAN] /\ intena' \in [Cpus -> BOOLEAN]
  BY <1>4 DEF Inv, TypeOK
<1>6. ASSUME NEW u, x \in Procs, ipc[x] = None, u = pc[x] \/ u = After[l], u \in SleepLabels
      PROVE  intena'[c]
  <2>1. l = pc[x] /\ l \in SleepLabels \ {"s_read", "s_test"}
    BY <1>2, <1>6 DEF Label, SleepLabels, Acquires, After
  <2> QED BY <1>1, <1>5, <1>6, <2>1
             DEF Inv, TypeOK, CpusOK, CpuOf, FlagsOf, SleepLabels
<1>7. CASE locked[Acquires[l]] = NoCpu
  <2>1. /\ locked' = [locked EXCEPT ![Acquires[l]] = c]
        /\ Goto(x, After[l]) /\ spin' = spin
    BY <1>1, <1>2, <1>3, <1>7 DEF acquire
  <2>2. FlagsOf(c)'
    BY <1>1, <1>2, <1>4, <1>5, <1>6, <2>1, GotoLabel, AcquireTable
       DEF Inv, TypeOK, CpusOK, CpuOf, FlagsOf
  <2>3. spin' = [spin EXCEPT ![c] = FALSE] /\ ncli'[c] = ncli[c] + 1 - One(spin[c])
    BY <1>4, <1>5, <2>1 DEF Inv, TypeOK, One
  <2> QED BY <1>1, <1>2, <1>4, <1>5, <1>7, <2>1, <2>2, <2>3, TakeLock
<1>8. CASE locked[Acquires[l]] # NoCpu
  <2>1. spin' = [spin EXCEPT ![c] = TRUE] /\ UNCHANGED <<locked, pc, ipc>>
    BY <1>1, <1>2, <1>3, <1>8 DEF acquire
  <2>2. Label(x)' = Label(x)
    BY <2>1 DEF Label
  <2>3. Shape' /\ OnCpu' /\ Parked'
    <3>1. ShapeOf(x)'
      BY <2>1 DEF Inv, Shape, ShapeOf
    <3> QED BY <1>1, <1>4, <2>1, <3>1, KeepProcs
  <2>4. FlagsOf(c)'
    BY <1>1, <1>4, <1>5, <1>6, <2>1 DEF Inv, CpusOK, CpuOf, FlagsOf
  <2>5. LocksOf(c)' /\ DepthOf(c)'
    <3>1. LocksOf(c)'
      BY <1>1, <1>4, <2>1, <2>2 DEF Inv, CpusOK, CpuOf, LocksOf
    <3>2. ~spin[c] /\ spin'[c] /\ cur'[c] = x
      BY <1>1, <1>4, <2>1 DEF Inv, TypeOK
    <3>3. ncli[c] = One(l \in TickLabels) + One(l \in TableLabels)
      BY <1>1, <1>2, <3>2 DEF Inv, CpusOK, CpuOf, DepthOf, One
    <3> QED BY <1>2, <1>5, <2>2, <3>1, <3>2, <3>3 DEF DepthOf, One
  <2>6. CpusOK'
    <3>1. \A d \in Cpus \ {c} : spin'[d] = spin[d]
      BY <2>1 DEF Inv, TypeOK
    <3> QED BY <1>1, <1>4, <1>5, <2>1, <2>4, <2>5, <3>1, KeepCpus DEF CpuOf
  <2>7. TypeOK' /\ NoPanic'
    <3>1. ncli' \in [Cpus -> 0 .. 2]
      BY <1>5, <2>6
         DEF CpusOK, CpuOf, DepthOf, One, Acquires, TickLabels, TableLabels
    <3> QED BY <1>4, <1>5, <2>1, <3>1 DEF Inv, TypeOK, NoPanic
  <2>8. Naptime'
    <3>1. x \in Procs => NapOf(x)'
      <4>1. Waking' <=> Waking
        BY <1>4, <2>1 DEF Waking, Label
      <4> QED BY <1>4, <2>1, <4>1
                 DEF Inv, Naptime, NapOf, DozeOf, CountOf, Elapsed, TooEarly
    <3> QED BY <1>1, <1>4, <2>1, <2>2, <3>1, KeepNaps
  <2> QED BY <2>3, <2>6, <2>7, <2>8 DEF Inv
<1> QED BY <1>7, <1>8

(* A spinning CPU gets the lock.                                           *)
LEMMA xchgInv ==
    ASSUME Inv, NEW c \in Cpus, xchg(c)
    PROVE  Inv'
<1> USE DEF sleepvars
<1>1. PICK x \in Contexts : x = cur[c]
  BY DEF Inv, TypeOK
<1>2. spin[c] /\ UNCHANGED <<ncli, intena, flag, cur, saved, state, sleepvars, panicked>>
  BY DEF xchg
<1>3. PICK l \in DOMAIN Acquires : l = Label(x)
  BY <1>1, <1>2 DEF Inv, CpusOK, CpuOf, DepthOf
<1>4. /\ locked[Acquires[l]] = NoCpu
      /\ locked' = [locked EXCEPT ![Acquires[l]] = c]
      /\ spin' = [spin EXCEPT ![c] = FALSE]
      /\ Goto(x, After[l])
  BY <1>1, <1>3 DEF xchg
<1>5. ncli[c] \in Nat /\ ncli[c] > 0 /\ ncli'[c] = ncli[c] + 1 - One(spin[c])
  BY <1>2 DEF Inv, TypeOK, CpusOK, CpuOf, DepthOf, One
<1>6. FlagsOf(c)'
  <2>1. /\ ipc'[x] = None <=> ipc[x] = None
        /\ ipc[x] = None => pc[x] = l /\ pc'[x] = After[l]
    BY <1>3, <1>4, GotoLabel, AcquireTable DEF Inv, Label
  <2>2. After[l] \in SleepLabels => l \in SleepLabels
    BY DEF Acquires, After, SleepLabels
  <2>3. /\ ~flag[c]
        /\ ipc[x] # None => ~intena[c]
        /\ x \in Procs /\ ipc[x] = None /\ pc[x] \in SleepLabels => intena[c]
    BY <1>1, <1>5 DEF Inv, CpusOK, CpuOf, FlagsOf
  <2>4. cur'[c] = x /\ flag' = flag /\ intena' = intena
    BY <1>1, <1>2
  <2>5. ncli'[c] > 0 /\ ncli'[c] # 0
    <3>1. ncli' = ncli
      BY <1>2
    <3> QED BY <1>5, <3>1
  <2>6. ipc'[x] # None => ~flag'[c] /\ ~intena'[c]
    BY <2>1, <2>3, <2>4
  <2>7. x \in Procs /\ ipc'[x] = None /\ pc'[x] \in SleepLabels => intena'[c]
    BY <2>1, <2>2, <2>3, <2>4
  <2> QED BY <2>3, <2>4, <2>5, <2>6, <2>7 DEF FlagsOf
<1>7. /\ ncli' \in [Cpus -> Int]
      /\ flag' \in [Cpus -> BOOLEAN] /\ intena' \in [Cpus -> BOOLEAN]
  BY <1>2 DEF Inv, TypeOK
<1> QED BY <1>1, <1>2, <1>3, <1>4, <1>5, <1>6, <1>7, TakeLock

(* release: the lock is held, interrupts are off and the depth is          *)
(* positive, so that neither release nor popcli panics.                    *)
LEMMA releaseInv ==
    ASSUME Inv, NEW c \in Cpus, release(c)
    PROVE  Inv'
<1> USE DEF sleepvars
<1>1. PICK x \in Contexts : x = cur[c]
  BY DEF Inv, TypeOK
<1>2. PICK l \in DOMAIN Releases : l = Label(x)
  BY <1>1 DEF release
<1>3. /\ ~spin[c] /\ holding(c, Releases[l]) /\ ~flag[c]
      /\ ncli[c] - 1 \in Nat /\ ncli[c] \in Nat
  BY <1>1, <1>2, ReleaseTable
     DEF release, Inv, TypeOK, CpusOK, CpuOf, LocksOf, DepthOf, FlagsOf, One, holding
<1>4. /\ locked' = [locked EXCEPT ![Releases[l]] = NoCpu]
      /\ ncli' = [ncli EXCEPT ![c] = ncli[c] - 1]
      /\ flag' = [flag EXCEPT ![c] = ncli[c] - 1 = 0 /\ intena[c]]
      /\ Goto(x, After[l])
      /\ UNCHANGED <<intena, cur, spin, saved, state, sleepvars, panicked>>
  BY <1>1, <1>2, <1>3 DEF release, Shallower
<1> DEFINE m == After[l]
<1>5. m \in Labels /\ m # None
  BY ReleaseTable
<1>6. /\ Label(x)' = m
      /\ \A y \in Contexts \ {x} : pc'[y] = pc[y] /\ ipc'[y] = ipc[y]
      /\ ipc[x] = None => pc'[x] = m /\ ipc'[x] = None
      /\ ipc[x] # None => pc'[x] = pc[x] /\ ipc'[x] = m
      /\ pc' \in [Contexts -> Labels] /\ ipc' \in [Contexts -> Labels \cup {None}]
  BY <1>4, <1>5, GotoLabel DEF Inv
<1>7. Shape' /\ OnCpu' /\ Parked'
  <2>1. ShapeOf(x)'
    BY <1>2, <1>6, ReleaseTable DEF Inv, Shape, ShapeOf, Label
  <2> QED BY <1>1, <1>4, <1>6, <2>1, KeepProcs
<1>8. LocksOf(c)' /\ DepthOf(c)'
  <2>1. LocksOf(c)'
    BY <1>1, <1>2, <1>4, <1>6, ReleaseTable, CpuAssumption
       DEF Inv, TypeOK, CpusOK, CpuOf, LocksOf
  <2>2. ncli[c] - 1 = One(m \in TickLabels) + One(m \in TableLabels)
    BY <1>1, <1>2, <1>3, ReleaseTable DEF Inv, CpusOK, CpuOf, DepthOf, One
  <2>3. ncli'[c] = ncli[c] - 1 /\ cur'[c] = x /\ ~spin'[c]
    BY <1>1, <1>3, <1>4 DEF Inv, TypeOK
  <2> QED BY <1>6, <2>1, <2>2, <2>3 DEF DepthOf, One
<1>9. FlagsOf(c)'
  <2>1. /\ ncli'[c] = ncli[c] - 1 /\ cur'[c] = x /\ intena' = intena
        /\ flag'[c] <=> (ncli[c] = 1 /\ intena[c])
    BY <1>1, <1>3, <1>4 DEF Inv, TypeOK
  <2>2. m \notin {"sysret", "e_acq"} /\ x \in Procs /\ ipc[x] = None =>
           l \in SleepLabels /\ pc[x] = l
    BY <1>2
       DEF Releases, After, SleepLabels, Label, Inv, Shape, ShapeOf, ProcLabels
  <2>3. l \in SleepLabels /\ x \in Procs /\ ipc[x] = None => intena[c]
    BY <1>1, <1>2, <1>3 DEF Inv, CpusOK, CpuOf, FlagsOf, Label
  <2>4. ipc[x] # None => ~intena[c]
    BY <1>1, <1>3 DEF Inv, CpusOK, CpuOf, FlagsOf
  <2>5. m \in SleepLabels => m \notin {"sysret", "e_acq"}
    BY DEF SleepLabels
  <2>6. ipc'[x] = None <=> ipc[x] = None
    BY <1>5, <1>6
  <2>7. ncli'[c] > 0 => ~flag'[c]
    BY <1>3, <2>1
  <2>8. ipc[x] # None => ~flag'[c] /\ ~intena'[c]
    BY <2>1, <2>4
  <2>9. ASSUME x \in Procs, ipc[x] = None, m \notin {"sysret", "e_acq"}
        PROVE  intena'[c] /\ (ncli'[c] = 0 => flag'[c])
    BY <1>3, <2>1, <2>2, <2>3, <2>9
  <2> QED BY <1>6, <2>1, <2>5, <2>6, <2>7, <2>8, <2>9 DEF FlagsOf
<1>10. CpusOK'
  <2>1. \A d \in Cpus \ {c} : \A k \in {"tickslock", "ptable"} :
           locked'[k] = d <=> locked[k] = d
    BY <1>3, <1>4, ReleaseTable, CpuAssumption DEF Inv, TypeOK, holding
  <2>2. \A d \in Cpus \ {c} : /\ ncli'[d] = ncli[d] /\ flag'[d] = flag[d]
                              /\ intena'[d] = intena[d] /\ spin'[d] = spin[d]
    BY <1>4 DEF Inv, TypeOK
  <2> QED BY <1>1, <1>4, <1>6, <1>8, <1>9, <2>1, <2>2, KeepCpus DEF CpuOf
<1>11. TypeOK' /\ NoPanic'
  <2>1. ncli' \in [Cpus -> 0 .. 2] /\ flag' \in [Cpus -> BOOLEAN]
    BY <1>3, <1>4 DEF Inv, TypeOK
  <2>2. locked' \in [{"tickslock", "ptable"} -> Cpus \cup {NoCpu}]
    BY <1>4, ReleaseTable DEF Inv, TypeOK
  <2> QED BY <1>4, <1>6, <2>1, <2>2 DEF Inv, TypeOK, NoPanic
<1>12. Naptime'
  <2>1. ASSUME x \in Procs PROVE NapOf(x)'
    <3>1. state'[x] # "SLEEPING"
      BY <1>1, <1>4, <2>1 DEF Inv, OnCpu
    <3>2. DozeOf(x)'
      BY <1>2, <1>4, <1>6, <2>1, <3>1
         DEF Inv, Naptime, NapOf, DozeOf, TooEarly, Releases, After, Label, Shape, ShapeOf, Open
    <3>3. CountOf(x)'
      BY <1>2, <1>4, <1>6, <2>1
         DEF Inv, Naptime, NapOf, CountOf, Elapsed, SleepLabels, Releases, After, Label
    <3> QED BY <3>2, <3>3 DEF NapOf
  <2>2. l \notin {"w_acq", "w_mark"}
    BY DEF Releases
  <2> QED BY <1>1, <1>2, <1>4, <1>6, <2>1, <2>2, KeepNaps
<1> QED BY <1>7, <1>10, <1>11, <1>12 DEF Inv

(* The timer interrupt arrives only in code that holds no lock.            *)
LEMMA InterruptInv ==
    ASSUME Inv, NEW c \in Cpus, Interrupt(c)
    PROVE  Inv'
<1> USE DEF sleepvars
<1>1. PICK x \in Contexts : x = cur[c]
  BY DEF Inv, TypeOK
<1>2. PICK l \in {"t_acq", "t_end"} : ipc' = [ipc EXCEPT ![x] = l]
  BY <1>1 DEF Interrupt
<1>3. /\ flag[c] /\ flag' = [flag EXCEPT ![c] = FALSE]
      /\ UNCHANGED <<locked, ncli, intena, cur, spin, pc, saved, state, sleepvars, panicked>>
  BY DEF Interrupt
<1>4. ncli[c] = 0 /\ ipc[x] = None /\ Label(x) = pc[x]
  BY <1>1, <1>3 DEF Inv, TypeOK, CpusOK, CpuOf, FlagsOf, Label
<1>5. ~spin[c] /\ pc[x] \notin TickLabels /\ pc[x] \notin TableLabels
  BY <1>1, <1>4 DEF Inv, TypeOK, CpusOK, CpuOf, DepthOf, One
<1>6. pc[x] \in Open
  BY <1>5
     DEF Inv, Shape, ShapeOf, Contexts, ProcLabels, CpuLabels, TickLabels,
         TableLabels, Open
<1>7. /\ ipc'[x] = l /\ l # None /\ l \in TimerLabels /\ l \in Labels /\ Label(x)' = l
      /\ \A y \in Contexts \ {x} : pc'[y] = pc[y] /\ ipc'[y] = ipc[y]
  BY <1>2, <1>3 DEF None, Label, Inv, TypeOK, TimerLabels, Labels, After
<1>8. TypeOK' /\ NoPanic'
  BY <1>2, <1>3, <1>7 DEF Inv, TypeOK, NoPanic
<1>9. Shape' /\ OnCpu' /\ Parked'
  <2>1. ShapeOf(x)'
    BY <1>3, <1>6, <1>7 DEF Inv, Shape, ShapeOf
  <2> QED BY <1>1, <1>3, <1>7, <2>1, KeepProcs
<1>10. CpusOK'
  <2>1. LocksOf(c)' /\ DepthOf(c)'
    BY <1>1, <1>3, <1>4, <1>5, <1>7
       DEF Inv, TypeOK, CpusOK, CpuOf, LocksOf, DepthOf, One, TickLabels, TableLabels
  <2>2. FlagsOf(c)'
    BY <1>1, <1>3, <1>4, <1>7 DEF Inv, TypeOK, FlagsOf
  <2>3. \A d \in Cpus \ {c} : flag'[d] = flag[d]
    BY <1>3 DEF Inv, TypeOK
  <2> QED BY <1>1, <1>3, <1>7, <2>1, <2>2, <2>3, KeepCpus DEF CpuOf
<1>11. Naptime'
  <2>1. ASSUME x \in Procs PROVE NapOf(x)'
    <3>1. state'[x] # "SLEEPING"
      BY <1>1, <1>3, <2>1 DEF Inv, OnCpu
    <3>2. DozeOf(x)'
      BY <1>3, <1>6, <3>1 DEF DozeOf, Open
    <3>3. CountOf(x)'
      BY <1>3, <2>1 DEF Inv, Naptime, NapOf, CountOf, Elapsed
    <3> QED BY <3>2, <3>3 DEF NapOf
  <2>2. Label(x) \notin {"w_acq", "w_mark"}
    BY <1>4, <1>6 DEF Open
  <2> QED BY <1>1, <1>3, <1>7, <2>1, <2>2, KeepNaps
<1> QED BY <1>8, <1>9, <1>10, <1>11 DEF Inv

(* A killed process goes from the handler to exit.                         *)
LEMMA ExitStep ==
    ASSUME Inv, NEW c \in Cpus, NEW x \in Contexts, x = cur[c],
           Label(x) \in {"t_end", "iret"}, ~spin[c], x \in Procs, Exit(x),
           UNCHANGED <<cpuvars, cur, saved, state, sleepvars, panicked>>
    PROVE  Inv'
<1> USE DEF sleepvars, cpuvars
<1>1. /\ pc'[x] = "e_acq" /\ ipc'[x] = None /\ Label(x)' = "e_acq"
      /\ \A y \in Contexts \ {x} : pc'[y] = pc[y] /\ ipc'[y] = ipc[y]
      /\ pc' \in [Contexts -> Labels] /\ ipc' \in [Contexts -> Labels \cup {None}]
  BY DEF Exit, Inv, TypeOK, Label, Labels, After, None
<1>2. TypeOK' /\ NoPanic'
  BY <1>1 DEF Inv, TypeOK, NoPanic
<1>3. Shape' /\ OnCpu' /\ Parked'
  <2>1. ShapeOf(x)'
    BY <1>1, CpuAssumption DEF ShapeOf, ProcLabels, None
  <2> QED BY <1>1, <2>1, KeepProcs
<1>4. CpusOK'
  <2>1. LocksOf(c)' /\ DepthOf(c)'
    BY <1>1
       DEF Inv, CpusOK, CpuOf, LocksOf, DepthOf, One, TickLabels, TableLabels
  <2>2. ncli[c] = 0
    BY DEF Inv, CpusOK, CpuOf, DepthOf, One, TickLabels, TableLabels
  <2>3. FlagsOf(c)'
    BY <1>1, <2>2 DEF FlagsOf
  <2> QED BY <1>1, <2>1, <2>3, KeepCpus DEF CpuOf
<1>5. Naptime'
  <2>1. state'[x] # "SLEEPING"
    BY DEF Inv, OnCpu
  <2>2. NapOf(x)'
    BY <1>1, <2>1 DEF NapOf, DozeOf, CountOf, SleepLabels
  <2> QED BY <1>1, <2>2, KeepNaps
<1> QED BY <1>2, <1>3, <1>4, <1>5 DEF Inv

(* The end of trap: exit, yield or return.                                 *)
LEMMA EndOfTrapInv ==
    ASSUME Inv, NEW c \in Cpus, EndOfTrap(c)
    PROVE  Inv'
<1> USE DEF sleepvars, cpuvars
<1>1. PICK x \in Contexts : x = cur[c]
  BY DEF Inv, TypeOK
<1>2. /\ Label(x) = "t_end" /\ ~spin[c]
      /\ UNCHANGED <<cpuvars, cur, saved, state, sleepvars, panicked>>
  BY <1>1 DEF EndOfTrap, At
<1>3. CASE Doomed(x)
  BY <1>1, <1>2, <1>3, ExitStep DEF EndOfTrap, Doomed
<1>4. CASE ~Doomed(x)
  <2>1. PICK l \in Labels : /\ l = (IF x \in Procs /\ state[x] = "RUNNING" THEN "y_acq" ELSE "iret")
                            /\ l # None /\ Goto(x, l)
    BY <1>1, <1>4 DEF EndOfTrap, Labels, After, None
  <2>2. /\ Label(x)' = l
        /\ \A y \in Contexts \ {x} : pc'[y] = pc[y] /\ ipc'[y] = ipc[y]
        /\ ipc[x] = None => pc'[x] = l /\ ipc'[x] = None
        /\ ipc[x] # None => pc'[x] = pc[x] /\ ipc'[x] = l
        /\ pc' \in [Contexts -> Labels] /\ ipc' \in [Contexts -> Labels \cup {None}]
    BY <2>1, GotoLabel DEF Inv
  <2>3. ipc[x] = "t_end" /\ ipc[x] # None
    BY <1>2
       DEF Inv, Shape, ShapeOf, Label, Contexts, ProcLabels, CpuLabels, None
  <2>4. TypeOK' /\ NoPanic'
    BY <1>2, <2>2 DEF Inv, TypeOK, NoPanic
  <2>5. Shape' /\ OnCpu' /\ Parked'
    <3>1. ShapeOf(x)'
      BY <2>1, <2>2, <2>3, CpuAssumption
         DEF Inv, Shape, ShapeOf, TimerLabels, YieldLabels
    <3> QED BY <1>1, <1>2, <2>2, <3>1, KeepProcs
  <2>6. CpusOK'
    <3>1. LocksOf(c)' /\ DepthOf(c)'
      BY <1>1, <1>2, <2>1, <2>2
         DEF Inv, CpusOK, CpuOf, LocksOf, DepthOf, TickLabels, TableLabels
    <3>2. FlagsOf(c)'
      BY <1>1, <1>2, <2>1, <2>2, <2>3 DEF Inv, CpusOK, CpuOf, FlagsOf
    <3> QED BY <1>1, <1>2, <2>2, <3>1, <3>2, KeepCpus DEF CpuOf
  <2>7. Naptime'
    <3>1. ASSUME x \in Procs PROVE NapOf(x)'
      <4>1. state'[x] # "SLEEPING" /\ pc[x] \in Open
        BY <1>1, <1>2, <2>3, <3>1 DEF Inv, OnCpu, Shape, ShapeOf
      <4>2. DozeOf(x)'
        BY <2>2, <2>3, <4>1 DEF DozeOf, Open
      <4>3. CountOf(x)'
        BY <1>2, <2>2, <2>3, <3>1 DEF Inv, Naptime, NapOf, CountOf, Elapsed
      <4> QED BY <4>2, <4>3 DEF NapOf
    <3> QED BY <1>1, <1>2, <2>2, <3>1, KeepNaps
  <2> QED BY <2>4, <2>5, <2>6, <2>7 DEF Inv
<1> QED BY <1>3, <1>4

(* The return from the handler, or exit of a process that was killed       *)
(* meanwhile.                                                              *)
LEMMA iretInv ==
    ASSUME Inv, NEW c \in Cpus, iret(c)
    PROVE  Inv'
<1> USE DEF sleepvars, cpuvars
<1>1. PICK x \in Contexts : x = cur[c]
  BY DEF Inv, TypeOK
<1>2. /\ Label(x) = "iret" /\ ~spin[c]
      /\ UNCHANGED <<locked, ncli, intena, cur, spin, saved, state, sleepvars, panicked>>
  BY <1>1 DEF iret, At
<1>3. CASE Doomed(x)
  BY <1>1, <1>2, <1>3, ExitStep DEF iret, Doomed
<1>4. CASE ~Doomed(x)
  <2>1. /\ ipc' = [ipc EXCEPT ![x] = None] /\ flag' = [flag EXCEPT ![c] = TRUE] /\ pc' = pc
    BY <1>1, <1>4 DEF iret
  <2>2. ipc[x] = "iret" /\ ipc[x] # None /\ pc[x] \in Open
    BY <1>2
       DEF Inv, Shape, ShapeOf, Label, Contexts, ProcLabels, CpuLabels, None
  <2>3. /\ ipc'[x] = None /\ Label(x)' = pc[x]
        /\ \A y \in Contexts \ {x} : pc'[y] = pc[y] /\ ipc'[y] = ipc[y]
    BY <2>1 DEF Inv, TypeOK, Label
  <2>4. TypeOK' /\ NoPanic'
    BY <1>2, <2>1 DEF Inv, TypeOK, NoPanic
  <2>5. Shape' /\ OnCpu' /\ Parked'
    <3>1. ShapeOf(x)'
      BY <2>1, <2>3 DEF Inv, Shape, ShapeOf
    <3> QED BY <1>1, <1>2, <2>3, <3>1, KeepProcs
  <2>6. CpusOK'
    <3>1. ncli[c] = 0
      BY <1>1, <1>2
         DEF Inv, CpusOK, CpuOf, DepthOf, One, TickLabels, TableLabels
    <3>2. LocksOf(c)' /\ DepthOf(c)'
      BY <1>1, <1>2, <2>2, <2>3, <3>1
         DEF Inv, CpusOK, CpuOf, LocksOf, DepthOf, One, TickLabels,
             TableLabels, Open
    <3>3. FlagsOf(c)'
      BY <1>1, <1>2, <2>1, <2>3, <3>1 DEF Inv, TypeOK, FlagsOf
    <3>4. \A d \in Cpus \ {c} : flag'[d] = flag[d]
      BY <2>1 DEF Inv, TypeOK
    <3> QED BY <1>1, <1>2, <2>3, <3>2, <3>3, <3>4, KeepCpus DEF CpuOf
  <2>7. Naptime'
    <3>1. ASSUME x \in Procs PROVE NapOf(x)'
      <4>1. state'[x] # "SLEEPING"
        BY <1>1, <1>2, <3>1 DEF Inv, OnCpu
      <4>2. DozeOf(x)'
        BY <2>1, <2>2, <4>1 DEF DozeOf, Open
      <4>3. CountOf(x)'
        BY <1>2, <2>1, <3>1 DEF Inv, Naptime, NapOf, CountOf, Elapsed
      <4> QED BY <4>2, <4>3 DEF NapOf
    <3> QED BY <1>1, <1>2, <2>3, <3>1, KeepNaps
  <2> QED BY <2>4, <2>5, <2>6, <2>7 DEF Inv
<1> QED BY <1>3, <1>4

(* sched, as sleep, yield and exit call it: ptable.lock is the only lock,  *)
(* so that it does not panic, and the intena that it saves is the one the  *)
(* process must find again.                                                *)
LEMMA schedInv ==
    ASSUME Inv, NEW c \in Cpus, NEW s, NEW l \in Labels, l # None,
           sched(c, s, l), ~spin[c],
           \/ Label(cur[c]) = "s_sched" /\ s = "SLEEPING" /\ l = "s_woken"
           \/ Label(cur[c]) = "y_sched" /\ s = "RUNNABLE" /\ l = "y_rel"
           \/ Label(cur[c]) = "e_sched" /\ s = "ZOMBIE" /\ l = "user"
    PROVE  Inv'
<1> USE DEF sleepvars, cpuvars
<1>1. PICK x \in Contexts : x = cur[c]
  BY DEF Inv, TypeOK
<1>2. /\ x \in Procs \ Cpus
      /\ ipc[x] = None <=> Label(x) # "y_sched"
      /\ ipc[x] = None => pc[x] = Label(x)
  BY <1>1, CpuAssumption DEF Inv, Shape, ShapeOf, Label, Contexts, ProcLabels, CpuLabels,
              TimerLabels, YieldLabels, None
<1>3. ncli[c] = 1 /\ ~flag[c] /\ holding(c, "ptable")
  BY <1>1
     DEF Inv, CpusOK, CpuOf, LocksOf, DepthOf, FlagsOf, One, TickLabels,
         TableLabels, holding
<1>4. /\ saved' = [saved EXCEPT ![x] = intena[c]]
      /\ state' = [state EXCEPT ![x] = s]
      /\ cur' = [cur EXCEPT ![c] = c]
      /\ Goto(x, l)
      /\ UNCHANGED <<cpuvars, sleepvars, panicked>>
  BY <1>1, <1>3 DEF sched
<1>5. /\ Label(x)' = l
      /\ \A y \in Contexts \ {x} : pc'[y] = pc[y] /\ ipc'[y] = ipc[y]
      /\ ipc[x] = None => pc'[x] = l /\ ipc'[x] = None
      /\ ipc[x] # None => pc'[x] = pc[x] /\ ipc'[x] = l
      /\ pc' \in [Contexts -> Labels] /\ ipc' \in [Contexts -> Labels \cup {None}]
  BY <1>4, GotoLabel DEF Inv
<1>6. /\ cur'[c] = c /\ \A d \in Cpus \ {c} : cur'[d] = cur[d]
      /\ state'[x] = s /\ \A p \in Procs \ {x} : state'[p] = state[p] /\ saved'[p] = saved[p]
      /\ saved'[x] = intena[c]
  BY <1>2, <1>4 DEF Inv, TypeOK
<1>7. c \in Contexts \ {x} /\ pc[c] = "c_pick" /\ ipc[c] = None
  BY <1>1, <1>2 DEF Inv, OnCpu, Contexts
<1>8. TypeOK' /\ NoPanic'
  BY <1>2, <1>4, <1>5, <1>7 DEF Inv, TypeOK, NoPanic
<1>9. Shape'
  BY <1>1, <1>2, <1>5 DEF Inv, Shape, ShapeOf, ProcLabels, YieldLabels
<1>10. OnCpu'
  BY <1>1, <1>2, <1>5, <1>6, <1>7, CpuAssumption DEF Inv, OnCpu, Contexts
<1>11. Parked'
  <2> SUFFICES ASSUME NEW p \in Procs PROVE ParkedOf(p)'
    BY DEF Parked
  <2>1. CASE p = x
    <3>1. Label(x) = "s_sched" => intena[c]
      BY <1>1, <1>2, <1>3 DEF Inv, CpusOK, CpuOf, FlagsOf, SleepLabels
    <3>2. Label(x) = "y_sched" => ~intena[c]
      BY <1>1, <1>2, <1>3 DEF Inv, CpusOK, CpuOf, FlagsOf
    <3> QED BY <1>1, <1>5, <1>6, <2>1, <3>1, <3>2 DEF ParkedOf
  <2>2. CASE p # x
    <3>1. Label(p)' = Label(p)
      BY <1>5, <2>2 DEF Label, Contexts
    <3> QED BY <1>6, <2>2, <3>1 DEF Inv, Parked, ParkedOf
  <2> QED BY <2>1, <2>2
<1>12. CpusOK'
  <2>1. Label(c)' = "c_pick"
    BY <1>5, <1>7 DEF Label
  <2>2. LocksOf(c)' /\ DepthOf(c)'
    BY <1>1, <1>3, <1>4, <1>6, <2>1
       DEF Inv, CpusOK, CpuOf, LocksOf, DepthOf, One, TickLabels, TableLabels, holding
  <2>3. FlagsOf(c)'
    BY <1>2, <1>3, <1>4, <1>5, <1>6, <1>7, CpuAssumption DEF FlagsOf
  <2> QED BY <1>1, <1>4, <1>5, <1>6, <2>2, <2>3, KeepCpus DEF CpuOf
<1>13. Naptime'
  <2>0. Label(x) \notin {"w_acq", "w_mark"}
    BY <1>1
  <2>1. NapOf(x)'
    <3>1. Waking => Waking'
      BY <1>1, <1>5, <1>6, <2>0 DEF Waking, Label, Inv, TypeOK, OnCpu
    <3>2. DozeOf(x)'
      BY <1>1, <1>2, <1>4, <1>5, <1>6, <3>1
         DEF Inv, Naptime, NapOf, DozeOf, TooEarly, Shape, ShapeOf, Open
    <3>3. CountOf(x)'
      BY <1>1, <1>2, <1>4, <1>5
         DEF Inv, Naptime, NapOf, CountOf, Elapsed, SleepLabels
    <3> QED BY <3>2, <3>3 DEF NapOf
  <2> QED BY <1>1, <1>4, <1>5, <1>6, <2>0, <2>1, KeepNaps
<1> QED BY <1>8, <1>9, <1>10, <1>11, <1>12, <1>13 DEF Inv

(* scheduler runs a process on this CPU, which gets the process's intena.  *)
LEMMA swtchInv ==
    ASSUME Inv, NEW c \in Cpus, NEW p \in Procs, swtch(c, p)
    PROVE  Inv'
<1> USE DEF sleepvars
<1>1. /\ ~spin[c] /\ Label(c) = "c_pick" /\ cur[c] = c /\ state[p] = "RUNNABLE"
      /\ UNCHANGED <<locked, ncli, flag, spin, pc, ipc, sleepvars, panicked>>
  BY DEF swtch, At
<1>2. /\ cur'[c] = p /\ \A d \in Cpus \ {c} : cur'[d] = cur[d]
      /\ state'[p] = "RUNNING"
      /\ \A q \in Procs \ {p} : state'[q] = state[q] /\ saved'[q] = saved[q]
      /\ intena'[c] = Restored(c, p) /\ \A d \in Cpus \ {c} : intena'[d] = intena[d]
  BY DEF swtch, Inv, TypeOK
<1>3. \A x \in Contexts : Label(x)' = Label(x)
  BY <1>1 DEF Label
<1>4. /\ p \in Contexts /\ p \notin Cpus /\ \A d \in Cpus : cur[d] # p
      /\ Label(p) \in {"s_woken", "y_rel", "forkret"}
      /\ Label(p) = "s_woken" => saved[p]
      /\ Label(p) = "y_rel" => ~saved[p]
      /\ ipc[p] # None <=> Label(p) = "y_rel"
      /\ ipc[p] = None => Label(p) = pc[p]
  BY <1>1, CpuAssumption DEF Inv, OnCpu, Parked, ParkedOf, Contexts, Label, Shape, ShapeOf,
              ProcLabels, TimerLabels, YieldLabels, None
<1>5. TypeOK' /\ NoPanic'
  BY <1>1, <1>4 DEF swtch, Restored, Inv, TypeOK, NoPanic
<1>6. Shape'
  BY <1>1 DEF Inv, Shape, ShapeOf
<1>7. OnCpu'
  <2>1. pc[c] = "c_pick" /\ ipc[c] = None
    BY <1>1 DEF Inv, Shape, ShapeOf, Label, TimerLabels, Contexts
  <2> QED BY <1>1, <1>2, <1>4, <2>1, CpuAssumption DEF Inv, OnCpu
<1>8. Parked'
  BY <1>2, <1>3 DEF Inv, Parked, ParkedOf, Contexts
<1>9. CpusOK'
  <2>1. ncli[c] = 1 /\ ~flag[c] /\ locked["ptable"] = c /\ locked["tickslock"] # c
    BY <1>1
       DEF Inv, CpusOK, CpuOf, LocksOf, DepthOf, FlagsOf, One, TickLabels,
           TableLabels
  <2>2. LocksOf(c)' /\ DepthOf(c)'
    BY <1>1, <1>2, <1>3, <1>4, <2>1
       DEF LocksOf, DepthOf, One, TickLabels, TableLabels
  <2>3. Label(p) # "forkret" => (intena'[c] <=> saved[p])
    BY <1>2 DEF Restored
  <2>4. FlagsOf(c)'
    BY <1>1, <1>2, <1>4, <2>1, <2>3 DEF FlagsOf, SleepLabels
  <2>5. ASSUME NEW d \in Cpus, d # c PROVE CpuOf(d)'
    <3>1. cur'[d] = cur[d] /\ cur[d] \in Contexts /\ Label(cur[d])' = Label(cur[d])
      BY <1>2, <1>3, <2>5 DEF Inv, TypeOK
    <3>2. CpuOf(d)
      BY DEF Inv, CpusOK
    <3> QED BY <1>1, <1>2, <2>5, <3>1, <3>2 DEF CpuOf, LocksOf, DepthOf, FlagsOf
  <2> QED BY <2>2, <2>4, <2>5 DEF CpusOK, CpuOf
<1>10. Naptime'
  <2>1. Waking => Waking'
    <3> SUFFICES ASSUME NEW d \in Cpus, Label(cur[d]) \in {"w_acq", "w_mark"} PROVE Waking'
      BY DEF Waking
    <3>1. d # c
      BY <1>1
    <3> QED BY <1>2, <1>3, <3>1 DEF Waking, Inv, TypeOK
  <2>2. ASSUME NEW q \in Procs PROVE NapOf(q)'
    <3>1. state'[q] = "SLEEPING" => state[q] = "SLEEPING"
      BY <1>2
    <3>2. DozeOf(q)'
      BY <1>1, <2>1, <3>1 DEF Inv, Naptime, NapOf, DozeOf, TooEarly
    <3>3. CountOf(q)'
      BY <1>1 DEF Inv, Naptime, NapOf, CountOf, Elapsed
    <3> QED BY <3>2, <3>3 DEF NapOf
  <2> QED BY <2>2 DEF Naptime
<1> QED BY <1>5, <1>6, <1>7, <1>8, <1>9, <1>10 DEF Inv

(* kill marks a process and wakes it.                                      *)
LEMMA killInv ==
    ASSUME Inv, NEW p \in Procs, kill(p)
    PROVE  Inv'
<1> USE DEF cpuvars
<1>1. /\ UNCHANGED <<cpuvars, cur, pc, ipc, saved, ticks, nap, slept, panicked>>
      /\ \A q \in Procs : \/ state'[q] = state[q]
                          \/ state[q] = "SLEEPING" /\ state'[q] = "RUNNABLE"
      /\ \A q \in Procs : killed[q] => killed'[q]
  BY DEF kill, Inv, TypeOK
<1>2. TypeOK' /\ NoPanic'
  BY <1>1 DEF kill, Inv, TypeOK, NoPanic
<1>3. Shape' /\ OnCpu' /\ Parked'
  BY <1>1 DEF Inv, Shape, ShapeOf, OnCpu, Parked, ParkedOf, Label
<1>4. CpusOK'
  BY <1>1 DEF Inv, CpusOK, CpuOf, LocksOf, DepthOf, FlagsOf, Label
<1>5. Naptime'
  <2>1. Waking' <=> Waking
    BY <1>1 DEF Waking, Label
  <2>2. ASSUME NEW q \in Procs PROVE NapOf(q)'
    <3>1. DozeOf(q)'
      BY <1>1, <2>1 DEF Inv, Naptime, NapOf, DozeOf, TooEarly
    <3>2. CountOf(q)'
      BY <1>1 DEF Inv, Naptime, NapOf, CountOf, Elapsed
    <3> QED BY <3>1, <3>2 DEF NapOf
  <2> QED BY <2>2 DEF Naptime
<1> QED BY <1>2, <1>3, <1>4, <1>5 DEF Inv

(* The initial states satisfy the invariant.                               *)
LEMMA InitInv ==
    ASSUME Init
    PROVE  Inv
<1>1. \A x \in Contexts : Label(x) = IF x \in Cpus THEN "c_sti" ELSE "forkret"
  BY DEF Init, Label, None
<1>2. TypeOK /\ NoPanic
  <2>1. "c_sti" \in Labels /\ "forkret" \in Labels
    BY DEF Labels, After
  <2>2. pc \in [Contexts -> Labels] /\ ipc \in [Contexts -> Labels \cup {None}]
    BY <2>1 DEF Init
  <2>3. nap \in [Procs -> [ticks0 : 0 .. UINT - 1, n : Naps \cup {0}]] /\ slept \in [Procs -> Nat]
    BY CpuAssumption DEF Init
  <2>4. locked \in [{"tickslock", "ptable"} -> Cpus \cup {NoCpu}] /\ ncli \in [Cpus -> 0 .. 2]
    BY DEF Init
  <2>5. /\ intena \in [Cpus -> BOOLEAN] /\ flag \in [Cpus -> BOOLEAN] /\ spin \in [Cpus -> BOOLEAN]
        /\ saved \in [Procs -> BOOLEAN] /\ killed \in [Procs -> BOOLEAN]
    BY DEF Init
  <2>6. /\ cur \in [Cpus -> Contexts] /\ ~panicked /\ panicked \in BOOLEAN
        /\ state \in [Procs -> {"RUNNABLE", "RUNNING", "SLEEPING", "ZOMBIE"}]
    BY DEF Init, Contexts
  <2>7. ticks \in 0 .. UINT - 1
    BY CpuAssumption DEF Init
  <2> QED BY <2>2, <2>3, <2>4, <2>5, <2>6, <2>7 DEF TypeOK, NoPanic
<1>3. Shape
  BY CpuAssumption DEF Init, Shape, ShapeOf, Contexts, ProcLabels, CpuLabels,
         None
<1>4. OnCpu /\ Parked
  BY <1>1, CpuAssumption DEF Init, OnCpu, Parked, ParkedOf, Contexts
<1>5. CpusOK
  <2> SUFFICES ASSUME NEW c \in Cpus PROVE CpuOf(c)
    BY DEF CpusOK
  <2>1. cur[c] = c /\ Label(c) = "c_sti" /\ ~spin[c] /\ ncli[c] = 0 /\ c \notin Procs
        /\ ipc[c] = None /\ locked["tickslock"] # c /\ locked["ptable"] # c
    BY <1>1, CpuAssumption DEF Init, Contexts
  <2> QED BY <2>1
             DEF CpuOf, LocksOf, DepthOf, FlagsOf, One, TickLabels, TableLabels
<1>6. Naptime
  BY CpuAssumption DEF Init, Naptime, NapOf, DozeOf, CountOf, SleepLabels,
         Contexts
<1> QED BY <1>2, <1>3, <1>4, <1>5, <1>6 DEF Inv

(* Every step preserves the invariant: one case per action.                *)
LEMMA InvStep ==
    ASSUME Inv, [Next]_vars
    PROVE  Inv'
<1>1. ASSUME NEW c \in Cpus, Step(c) PROVE Inv'
  <2>0. /\ \A l \in {"y_rel", "s_woken", "user"} : l \in Labels /\ l # None
        /\ yield(c) \/ sleep(c) \/ exit(c) => ~spin[c]
    BY DEF Labels, After, None, yield, sleep, exit, At
  <2>1. CASE acquire(c)
    BY <2>1, acquireInv
  <2>2. CASE xchg(c)
    BY <2>2, xchgInv
  <2>3. CASE release(c)
    BY <2>3, releaseInv
  <2>4. CASE sti(c)
    BY <2>4, stiInv
  <2>5. CASE EndOfTable(c)
    BY <2>5, EndOfTableInv
  <2>6. CASE \E p \in Procs : swtch(c, p)
    BY <2>6, swtchInv
  <2>7. CASE Interrupt(c)
    BY <2>7, InterruptInv
  <2>8. CASE tick(c)
    BY <2>8, tickInv
  <2>9. CASE wakeup(c)
    BY <2>9, wakeupInv
  <2>10. CASE EndOfTrap(c)
    BY <2>10, EndOfTrapInv
  <2>11. CASE yield(c)
    <3>1. Label(cur[c]) = "y_sched" /\ sched(c, "RUNNABLE", "y_rel")
      BY <2>11 DEF yield, At
    <3> QED BY <2>0, <2>11, <3>1, schedInv
  <2>12. CASE iret(c)
    BY <2>12, iretInv
  <2>13. CASE \E n \in Naps : syscall(c, n)
    BY <2>13, syscallInv
  <2>14. CASE sysret(c)
    BY <2>14, sysretInv
  <2>15. CASE s_read(c)
    BY <2>15, s_readInv
  <2>16. CASE s_test(c)
    BY <2>16, s_testInv
  <2>17. CASE sleep(c)
    <3>1. Label(cur[c]) = "s_sched" /\ sched(c, "SLEEPING", "s_woken")
      BY <2>17 DEF sleep, PtableFirst, At
    <3> QED BY <2>0, <2>17, <3>1, schedInv
  <2>18. CASE exit(c)
    <3>1. Label(cur[c]) = "e_sched" /\ sched(c, "ZOMBIE", "user")
      BY <2>18 DEF exit, At
    <3> QED BY <2>0, <2>18, <3>1, schedInv
  <2> QED BY <1>1, <2>1, <2>2, <2>3, <2>4, <2>5, <2>6, <2>7, <2>8, <2>9, <2>10, <2>11,
             <2>12, <2>13, <2>14, <2>15, <2>16, <2>17, <2>18 DEF Step
<1>2. CASE UNCHANGED vars
  BY <1>2 DEF vars, Inv, TypeOK, NoPanic, Shape, ShapeOf, OnCpu, Parked, ParkedOf, CpusOK,
     CpuOf, LocksOf, DepthOf, FlagsOf, Naptime, NapOf, DozeOf, CountOf, Elapsed, TooEarly,
     Waking, Label
<1> QED BY <1>1, <1>2, killInv DEF Next

(* The invariant holds in every reachable state.                           *)
LEMMA Invariance == Spec => []Inv
BY InitInv, InvStep, PTL DEF Spec

(* There are two locks: the number of those that a CPU has, as a sum.      *)
LEMMA HeldLocks ==
    ASSUME TypeOK, NEW c \in Cpus
    PROVE  Cardinality({l \in DOMAIN locked : locked[l] = c})
             = One(locked["tickslock"] = c) + One(locked["ptable"] = c)
<1> DEFINE S == {l \in DOMAIN locked : locked[l] = c}
<1>1. /\ Cardinality({}) = 0
      /\ Cardinality({"tickslock"}) = 1 /\ Cardinality({"ptable"}) = 1
      /\ Cardinality({"tickslock", "ptable"}) = 2
  <2>1. /\ IsFiniteSet({"tickslock"}) /\ Cardinality({}) = 0
        /\ Cardinality({"tickslock"}) = 1 /\ Cardinality({"ptable"}) = 1
    BY FS_EmptySet, FS_Singleton
  <2>2. Cardinality({"tickslock"} \cup {"ptable"}) = 2
    BY <2>1, FS_AddElement, "ptable" \notin {"tickslock"}
  <2>3. {"tickslock"} \cup {"ptable"} = {"tickslock", "ptable"}
    OBVIOUS
  <2> QED BY <2>1, <2>2, <2>3
<1>2. /\ locked["tickslock"] = c /\ locked["ptable"] = c => S = {"tickslock", "ptable"}
      /\ locked["tickslock"] = c /\ locked["ptable"] # c => S = {"tickslock"}
      /\ locked["tickslock"] # c /\ locked["ptable"] = c => S = {"ptable"}
      /\ locked["tickslock"] # c /\ locked["ptable"] # c => S = {}
  BY DEF TypeOK
<1> QED BY <1>1, <1>2 DEF One

(* For any number of CPUs and processes, with interrupts arriving wherever *)
(* they are on: no acquire, release, popcli or sched panics, and ncli of   *)
(* each CPU (spinlock.c:104-125) is the number of locks it has or waits    *)
(* for, with interrupts off whenever it is positive.                       *)
THEOREM Cpu == Spec => []CpuInv
<1>1. Inv => CpuInv
  <2> SUFFICES ASSUME Inv, NEW c \in Cpus
               PROVE  /\ ncli[c] = Cardinality({l \in DOMAIN locked : locked[l] = c})
                                    + (IF spin[c] THEN 1 ELSE 0)
                      /\ ncli[c] > 0 => ~flag[c]
    BY DEF CpuInv, CliCounts, Inv
  <2>1. CpuOf(c)
    BY DEF Inv, CpusOK
  <2>2. Cardinality({l \in DOMAIN locked : locked[l] = c})
             = One(locked["tickslock"] = c) + One(locked["ptable"] = c)
    BY HeldLocks DEF Inv
  <2> QED BY <2>1, <2>2 DEF CpuOf, LocksOf, DepthOf, FlagsOf, One
<1> QED BY <1>1, Invariance, PTL

(* No two CPUs wait for each other's locks: a CPU that spins while it has  *)
(* a lock has tickslock and waits for ptable.lock (proc.c:555,             *)
(* proc.c:591).                                                            *)
THEOREM LockOrder == Spec => []NoSpinCycle
<1>1. Inv => NoSpinCycle
  <2> SUFFICES ASSUME Inv, NEW c \in Cpus, NEW d \in Cpus, spin[c], spin[d],
                      Awaited(c) = d, Awaited(d) = c
               PROVE  FALSE
    BY DEF NoSpinCycle
  <2>1. PICK l \in DOMAIN Acquires : l = Label(cur[c])
    BY DEF Inv, CpusOK, CpuOf, DepthOf
  <2>2. PICK m \in DOMAIN Acquires : m = Label(cur[d])
    BY DEF Inv, CpusOK, CpuOf, DepthOf
  <2>3. locked[Acquires[l]] = d /\ locked[Acquires[m]] = c
    BY <2>1, <2>2 DEF Awaited
  <2>4. /\ Acquires[l] = "tickslock" => m \in TickLabels
        /\ Acquires[l] = "ptable" => m \in TableLabels
        /\ Acquires[m] = "tickslock" => l \in TickLabels
        /\ Acquires[m] = "ptable" => l \in TableLabels
    BY <2>1, <2>2, <2>3 DEF Inv, CpusOK, CpuOf, LocksOf
  <2>5. l \notin TableLabels /\ m \notin TableLabels
    BY DEF Acquires, TableLabels
  <2>6. Acquires[l] = "tickslock" /\ l \in TickLabels => FALSE
    BY DEF Acquires, TickLabels
  <2> QED BY <2>4, <2>5, <2>6, AcquireTable
<1> QED BY <1>1, Invariance, PTL

(* Code of a system call that is in no critical section runs with          *)
(* interrupts on, on whichever CPU it continues: sched saves and restores  *)
(* intena (proc.c:500-502).                                                *)
THEOREM Restores == Spec => []InterruptsRestored
<1>1. Inv => InterruptsRestored
  BY DEF Inv, CpusOK, CpuOf, FlagsOf, InterruptsRestored
<1> QED BY <1>1, Invariance, PTL

(* sys_sleep(n) (sysproc.c:60-78) returns neither before n ticks nor       *)
(* sleeps on after them, for any n and across the wraparound of ticks,     *)
(* unless the process is killed.                                           *)
THEOREM Sleeps == Spec => []SleepsWhole
<1>1. Inv => SleepsWhole
  BY DEF Inv, Naptime, NapOf, DozeOf, CountOf, SleepsWhole, SleepersWait,
         NeverEarly
<1> QED BY <1>1, Invariance, PTL

(***************************************************************************)
(* The inodes.                                                             *)
(***************************************************************************)

(* Cardinality is the same in the instance.                                *)
LEMMA SameCardinality ==
    ASSUME NEW S
    PROVE  Icache!Cardinality(S) = Cardinality(S) /\ (Icache!IsFiniteSet(S) <=> IsFiniteSet(S))
<1>1. Icache!Cardinality(S) = Cardinality(S)
  BY DEF Icache!Cardinality, Cardinality
<1>2. Icache!IsFiniteSet(S) <=> IsFiniteSet(S)
  BY DEF Icache!IsFiniteSet, IsFiniteSet
<1> QED BY <1>1, <1>2

(* There are finitely many processes, inodes and names.                    *)
LEMMA FiniteSetsHere ==
    ASSUME Icache!Configuration
    PROVE  IsFiniteSet(Procs) /\ IsFiniteSet(Inums) /\ IsFiniteSet(Plain)
BY SameCardinality DEF Icache!Configuration

(* The stages of a call: the label it is at, or goes on to after iput.     *)
Puts == {"iput", "ifree", "idrop"}
Stage(r) == IF r.pc \in Puts THEN r.k ELSE r.pc
InodeLabels == {"idle", "iput", "ifree", "idrop", "namex", "look", "open", "open_ip", "create",
           "create_dp", "found", "create_hit", "new", "create_new", "create_end", "link",
           "link_ip", "linkdp", "link_dp", "link_dup", "bad", "link_undo", "unlink",
           "unlink_dp", "victim", "unlink_ip", "unlink_bad", "unlink_end", "chdir",
           "chdir_ip", "chdir_end"}
Afters == {"idle", "fail", "put_old", "namex", "found", "create_end", "chdir_end", "link_dup",
           "unlink_bad", "unlink_end"}

(* Which variables are set at each stage, and which inodes are locked.     *)
NoIp == {"idle", "fail", "put_old", "unlink_bad"}
HasDp == {"new", "create_new", "victim", "unlink_ip", "unlink_bad"}
LockedIp == {"look", "open_ip", "create_dp", "create_hit", "create_new", "create_end", "link_ip",
             "link_dp", "link_dup", "link_undo", "unlink_dp", "unlink_ip", "unlink_end",
             "chdir_ip"}
HasOld == {"linkdp", "link_dp", "link_dup", "put_old"}
MayOld == {"linkdp", "link_dp", "link_dup", "put_old", "namex", "look", "fail"}
HasName == {"namex", "look", "create", "create_dp", "new", "create_new", "linkdp", "link_dp",
            "unlink", "unlink_dp", "victim", "unlink_ip"}
DirIp == {"create", "create_dp", "unlink", "unlink_dp", "linkdp", "link_dp", "link_dup"}

Ptrs == Inums \cup {0}
NoCall == [op |-> "none"]
LocType == [pc : InodeLabels, call : Calls \cup {NoCall}, path : Seq(Icache!Names), par : BOOLEAN,
            ip : Ptrs, dp : Ptrs, old : Ptrs, tgt : Ptrs, k : Afters]

(* The record of a call at each stage.                                     *)
LocOk(r) ==
    /\ r.pc \notin Puts => r.k = "idle"
    /\ r.pc = "idle" => r = Icache!IdleLoc
    /\ r.tgt # 0 <=> r.pc \in Puts
    /\ r.ip = 0 <=> Stage(r) \in NoIp
    /\ r.dp # 0 <=> Stage(r) \in HasDp
    /\ Stage(r) \in HasOld => r.old # 0
    /\ r.old # 0 => Stage(r) \in MayOld /\ r.call.op = "link"
    /\ Stage(r) \in {"namex", "look"} =>
          /\ r.par => r.path # <<>> /\ (r.call.op \in {"create", "unlink"} \/ r.old # 0)
          /\ ~r.par => r.call.op \in {"open", "link", "chdir"} /\ r.old = 0
    /\ r.pc \in HasName => r.path # <<>>
    /\ r.pc \in {"create", "create_dp", "new", "create_new"} => r.call.op = "create"
    /\ r.pc \in {"link", "link_ip"} => r.call.op = "link"
    /\ r.pc \in {"new", "create_new", "victim", "unlink_ip"} => r.path[1] \in Plain
    /\ Icache!DownPath(r.call, r.path)

(* The link that a call has counted and not entered yet, or erased and not *)
(* discounted.                                                             *)
Pending(r) == IF Stage(r) \in {"bad", "link_undo", "unlink_end"} THEN r.ip
              ELSE IF Stage(r) = "put_old" THEN 0 ELSE r.old

(* What a call knows of the inodes it has.                                 *)
Fresh(r) == r.pc \in {"new", "create_new"}
CallOk(r, c) ==
    /\ Stage(r) \in DirIp => dinode[r.ip].type = "dir"
    /\ r.dp # 0 => dinode[r.dp].type = "dir"
    /\ r.old # 0 => dinode[r.old].type # "dir"
    /\ Fresh(r) => /\ ent[r.dp][r.path[1]] = 0 /\ ent[r.ip] = Icache!Empty
                   /\ dinode[r.ip].type = r.call.type /\ dinode[r.ip].nlink = 0 /\ r.ip # r.dp
    /\ r.pc \in {"victim", "unlink_ip"} => ent[r.dp][r.path[1]] = r.ip
    /\ r.pc = "ifree" => dinode[r.tgt].nlink = 0
    /\ c = 0 <=> Stage(r) = "chdir_end"

(* The inodes a process has, other than the one it is about to drop.       *)
Others(r, c, f) == {r.ip, r.dp, r.old, c, f} \ {0}
HaveOf(r, c, f) == Others(r, c, f) \cup (IF r.pc \in {"iput", "ifree"} THEN {r.tgt} ELSE {})
Have(p) == HaveOf(loc[p], cwd[p], file[p])

(* An inode that is new, or about to be freed, is its process's alone.     *)
Alone(p) ==
    /\ Fresh(loc[p]) => \A q \in Procs \ {p} : loc[p].ip \notin Have(q)
    /\ loc[p].pc = "ifree" => /\ \A q \in Procs \ {p} : loc[p].tgt \notin Have(q)
                              /\ loc[p].tgt \notin Others(loc[p], cwd[p], file[p])

(* How many of the variables of a process are inode i.                     *)
Is(x, i) == IF x = i THEN 1 ELSE 0
Uses(r, c, f, i) == Is(r.ip, i) + Is(r.dp, i) + Is(r.old, i) + Is(r.tgt, i)
                    + Is(c, i) + Is(f, i)

(* References, as the contents of cells.                                   *)
RefCells == Procs \X Icache!Variables
Refs(l, c, f) == [x \in RefCells |->
    CASE x[2] = "ip" -> l[x[1]].ip [] x[2] = "dp" -> l[x[1]].dp
      [] x[2] = "old" -> l[x[1]].old [] x[2] = "tgt" -> l[x[1]].tgt
      [] x[2] = "cwd" -> c[x[1]] [] x[2] = "file" -> f[x[1]]]
Held(f, T, i) == Cardinality({x \in T : f[x] = i})
Count(f, i) == Held(f, DOMAIN f, i)

(* Links: a name, the ".." of a directory that has a name, what a call has *)
(* counted and not entered, and the root.                                  *)
EntCell(d, n) == <<"ent", d, n>>
SubCell(d, n) == <<"sub", d, n>>
PendCell(p) == <<"pend", p, 0>>
RootCell == <<"root", 0, 0>>
LinkCells == {EntCell(x[1], x[2]) : x \in Inums \X Plain} \cup {SubCell(x[1], x[2]) : x \in Inums \X Plain}
             \cup {PendCell(p) : p \in Procs} \cup {RootCell}
IsDir(d, i) == i # 0 /\ d[i].type = "dir"
Links(d, e, l) == [x \in LinkCells |->
    CASE x[1] = "ent" -> e[x[2]][x[3]]
      [] x[1] = "sub" -> IF IsDir(d, e[x[2]][x[3]]) THEN x[2] ELSE 0
      [] x[1] = "pend" -> Pending(l[x[2]])
      [] x[1] = "root" -> ROOTINO]

Locked(r) == (IF Stage(r) \in LockedIp THEN {r.ip} ELSE {})
              \cup (IF Stage(r) \in HasDp THEN {r.dp} ELSE {})
              \cup (IF r.pc = "ifree" THEN {r.tgt} ELSE {})

Dinodes == [type : Icache!Types \cup {"free"}, nlink : Nat]
Slots == [ref : Nat, valid : BOOLEAN, type : Icache!Types \cup {"free"}, nlink : Nat]
Typed ==
    /\ dinode \in [Inums -> Dinodes] /\ ent \in [Inums -> [Icache!Names -> Ptrs]]
    /\ mem \in [Inums -> Slots] /\ lock \in [Inums -> Procs \cup {NoCpu}]
    /\ cwd \in [Procs -> Ptrs] /\ file \in [Procs -> Ptrs] /\ loc \in [Procs -> LocType]
    /\ halted \in {"no", "full"}

RefsOk == \A i \in Inums : mem[i].ref = Count(Refs(loc, cwd, file), i)
LinksOk == orphans \subseteq Inums /\ \A i \in Inums :
    /\ Count(Links(dinode, ent, loc), i) <= dinode[i].nlink
    /\ Count(Links(dinode, ent, loc), i) = dinode[i].nlink <=> i \notin orphans
LockOk == \A i \in Inums, p \in Procs : lock[i] = p <=> i \in Locked(loc[p])
AliveOk == \A p \in Procs : \A i \in Have(p) : dinode[i].type # "free"
MemOk == \A i \in Inums :
    /\ mem[i].valid => /\ mem[i].type = dinode[i].type /\ mem[i].nlink = dinode[i].nlink
                       /\ mem[i].type # "free"
    /\ lock[i] # NoCpu => mem[i].valid
    /\ dinode[i].type = "free" => dinode[i].nlink = 0
DirsOk == \A i \in Inums :
    /\ dinode[i].type # "dir" => ent[i] = Icache!Empty
    /\ ent[i]["."] \in {0, i}
    /\ dinode[i].type = "dir" => ent[i]["."] = i \/ \E p \in Procs : Fresh(loc[p]) /\ loc[p].ip = i
TreeOk == \A i, d \in Inums, n \in Plain : ent[d][n] = i /\ dinode[i].type = "dir" =>
    /\ ent[i][".."] = d /\ ent[i]["."] = i
    /\ \A e \in Inums, m \in Plain : ent[e][m] = i => e = d /\ m = n
NoPair == \A i, j \in Inums, n, m \in Plain : ~(ent[i][n] = j /\ ent[j][m] = i)
ProcOk(p) == LocOk(loc[p]) /\ CallOk(loc[p], cwd[p]) /\ Alone(p)

InodeInv == /\ Typed /\ RefsOk /\ LinksOk /\ LockOk /\ AliveOk /\ MemOk /\ DirsOk /\ TreeOk /\ NoPair
       /\ \A p \in Procs : ProcOk(p)

(***************************************************************************)
(* Counting cells.                                                         *)
(***************************************************************************)

(* U is the finite set T and one more cell.                                *)
Plus(U, T, c) == IsFiniteSet(T) /\ c \notin T /\ U = T \cup {c}

(* The cells of T with a given content, when one cell is added to T.       *)
LEMMA OneMoreCell ==
    ASSUME NEW f, NEW i, NEW T, NEW U, NEW c, Plus(U, T, c)
    PROVE  /\ IsFiniteSet(U) /\ Held(f, T, i) \in Nat
           /\ Held(f, U, i) = Held(f, T, i) + Is(f[c], i)
<1>1. PICK S : S = {x \in T : f[x] = i}
  OBVIOUS
<1>2. PICK W : W = {x \in U : f[x] = i}
  OBVIOUS
<1>3. IsFiniteSet(T) /\ c \notin T /\ U = T \cup {c}
  BY DEF Plus
<1>4. IsFiniteSet(S) /\ Cardinality(S) \in Nat /\ c \notin S
  BY <1>1, <1>3, FS_Subset, FS_CardinalityType
<1>5. IsFiniteSet(U)
  BY <1>3, FS_AddElement
<1>6. Cardinality(W) = Cardinality(S) + Is(f[c], i)
  <2>1. CASE f[c] = i
    <3>1. W = S \cup {c}
      BY <1>1, <1>2, <1>3, <2>1
    <3>2. Cardinality(W) = Cardinality(S) + 1
      BY <3>1, <1>4, FS_AddElement
    <3> QED BY <2>1, <3>2 DEF Is
  <2>2. CASE f[c] # i
    <3>1. W = S
      BY <1>1, <1>2, <1>3, <2>2
    <3> QED BY <2>2, <3>1, <1>4 DEF Is
  <2> QED BY <2>1, <2>2
<1> QED BY <1>1, <1>2, <1>4, <1>5, <1>6 DEF Held

(* If two contents agree outside T, their counts differ by what T holds.   *)
LEMMA CountOutside ==
    ASSUME NEW f, NEW g, NEW i, IsFiniteSet(DOMAIN f), DOMAIN g = DOMAIN f,
           NEW T \in SUBSET DOMAIN f, \A x \in DOMAIN f \ T : g[x] = f[x]
    PROVE  /\ Count(f, i) \in Nat /\ Count(g, i) \in Nat
           /\ Count(g, i) - Held(g, T, i)
                = Count(f, i) - Held(f, T, i)
<1>1. PICK S : S = {x \in DOMAIN f \ T : f[x] = i}
  OBVIOUS
<1>2. PICK F : F = {x \in T : f[x] = i}
  OBVIOUS
<1>3. PICK G : G = {x \in T : g[x] = i}
  OBVIOUS
<1>4. IsFiniteSet(S) /\ IsFiniteSet(F) /\ IsFiniteSet(G)
  <2>1. S \subseteq DOMAIN f /\ F \subseteq DOMAIN f /\ G \subseteq DOMAIN f
    BY <1>1, <1>2, <1>3
  <2> QED BY <2>1, FS_Subset
<1>5. {x \in DOMAIN f : f[x] = i} = S \cup F /\ {x \in DOMAIN g : g[x] = i} = S \cup G
  BY <1>1, <1>2, <1>3
<1>6. S \cap F = {} /\ S \cap G = {}
  BY <1>1, <1>2, <1>3
<1>7. Cardinality(S) \in Nat /\ Cardinality(F) \in Nat /\ Cardinality(G) \in Nat
  BY <1>4, FS_CardinalityType
<1>8. Cardinality({}) = 0
  BY FS_EmptySet
<1>9. Cardinality(S \cup F) = Cardinality(S) + Cardinality(F)
  <2>1. Cardinality(S \cup F) = Cardinality(S) + Cardinality(F) - Cardinality(S \cap F)
    BY <1>4, FS_Union
  <2>2. Cardinality(S \cap F) = 0
    BY <1>6, <1>8
  <2> QED BY <2>1, <2>2, <1>7
<1>10. Cardinality(S \cup G) = Cardinality(S) + Cardinality(G)
  <2>1. Cardinality(S \cup G) = Cardinality(S) + Cardinality(G) - Cardinality(S \cap G)
    BY <1>4, FS_Union
  <2>2. Cardinality(S \cap G) = 0
    BY <1>6, <1>8
  <2> QED BY <2>1, <2>2, <1>7
<1>11. Count(f, i) = Cardinality(S) + Cardinality(F) /\ Count(g, i) = Cardinality(S) + Cardinality(G)
  BY <1>5, <1>9, <1>10 DEF Count, Held
<1> QED BY <1>2, <1>3, <1>7, <1>11 DEF Held

(* A cell with content i is counted.                                       *)
LEMMA CountPositive ==
    ASSUME NEW f, NEW i, IsFiniteSet(DOMAIN f), NEW x \in DOMAIN f, f[x] = i
    PROVE  Count(f, i) \in Nat /\ Count(f, i) >= 1
<1>1. PICK S : S = {y \in DOMAIN f : f[y] = i}
  OBVIOUS
<1>2. IsFiniteSet(S) /\ x \in S
  BY <1>1, FS_Subset
<1>3. Cardinality(S) \in Nat /\ Cardinality(S) # 0
  BY <1>2, FS_CardinalityType, FS_EmptySet
<1> QED BY <1>1, <1>3 DEF Count, Held

(* If only one cell has content i, no other does.                          *)
LEMMA CountOne ==
    ASSUME NEW f, NEW i, IsFiniteSet(DOMAIN f), Count(f, i) = 1,
           NEW x \in DOMAIN f, f[x] = i, NEW y \in DOMAIN f, f[y] = i
    PROVE  x = y
<1>1. PICK S : S = {z \in DOMAIN f : f[z] = i}
  OBVIOUS
<1>2. IsFiniteSet(S) /\ x \in S /\ y \in S /\ Cardinality(S) = 1
  BY <1>1, FS_Subset DEF Count, Held
<1>3. \E z : S = {z}
  BY <1>2, FS_Singleton
<1> QED BY <1>2, <1>3

(* Cells that become 0 take nothing but their count with them.             *)
LEMMA CountShrinks ==
    ASSUME NEW f, NEW g, NEW i, i # 0, IsFiniteSet(DOMAIN f), DOMAIN g = DOMAIN f,
           \A x \in DOMAIN f : g[x] \in {f[x], 0}
    PROVE  Count(g, i) \in Nat /\ Count(f, i) \in Nat /\ Count(g, i) <= Count(f, i)
<1>1. PICK S : S = {x \in DOMAIN f : f[x] = i}
  OBVIOUS
<1>2. PICK U : U = {x \in DOMAIN g : g[x] = i}
  OBVIOUS
<1>3. IsFiniteSet(S) /\ U \subseteq S
  BY <1>1, <1>2, FS_Subset
<1>4. IsFiniteSet(U) /\ Cardinality(U) <= Cardinality(S)
  BY <1>3, FS_Subset
<1> QED BY <1>1, <1>2, <1>3, <1>4, FS_CardinalityType DEF Count, Held

(* ... and a cell that had content i takes at least one.                   *)
LEMMA CountLess ==
    ASSUME NEW f, NEW g, NEW i, i # 0, IsFiniteSet(DOMAIN f), DOMAIN g = DOMAIN f,
           \A x \in DOMAIN f : g[x] \in {f[x], 0}, NEW y \in DOMAIN f, f[y] = i, g[y] = 0
    PROVE  Count(g, i) < Count(f, i)
<1>1. PICK S : S = {x \in DOMAIN f : f[x] = i}
  OBVIOUS
<1>2. PICK U : U = {x \in DOMAIN g : g[x] = i}
  OBVIOUS
<1>3. IsFiniteSet(S) /\ U \subseteq S /\ U # S
  BY <1>1, <1>2, FS_Subset
<1>4. IsFiniteSet(U) /\ Cardinality(U) <= Cardinality(S) /\ Cardinality(U) # Cardinality(S)
  BY <1>3, FS_Subset
<1>5. Cardinality(U) \in Nat /\ Cardinality(S) \in Nat
  BY <1>3, <1>4, FS_CardinalityType
<1>6. Cardinality(U) < Cardinality(S)
  BY <1>4, <1>5
<1> QED BY <1>1, <1>2, <1>6 DEF Count, Held

(* Functions with the same contents have the same counts.                  *)
LEMMA CountSame ==
    ASSUME NEW f, NEW g, NEW i, DOMAIN g = DOMAIN f, \A x \in DOMAIN f : g[x] = f[x]
    PROVE  Count(g, i) = Count(f, i)
<1>1. {x \in DOMAIN f : f[x] = i} = {x \in DOMAIN g : g[x] = i}
  OBVIOUS
<1> QED BY <1>1 DEF Count, Held

(***************************************************************************)
(* References.                                                             *)
(***************************************************************************)

(* The cells of the references are finitely many.                          *)
LEMMA RefCellsFinite ==
    ASSUME Icache!Configuration
    PROVE  IsFiniteSet(RefCells)
<1>1. IsFiniteSet(Icache!Variables)
  <2>1. IsFiniteSet({"ip"}) /\ IsFiniteSet({"ip"} \cup {"dp"})
    BY FS_Singleton, FS_AddElement
  <2>2. IsFiniteSet(({"ip"} \cup {"dp"}) \cup {"old"})
    BY <2>1, FS_AddElement
  <2>3. IsFiniteSet((({"ip"} \cup {"dp"}) \cup {"old"}) \cup {"tgt"})
    BY <2>2, FS_AddElement
  <2>4. IsFiniteSet(((({"ip"} \cup {"dp"}) \cup {"old"}) \cup {"tgt"}) \cup {"cwd"})
    BY <2>3, FS_AddElement
  <2>5. IsFiniteSet((((({"ip"} \cup {"dp"}) \cup {"old"}) \cup {"tgt"}) \cup {"cwd"}) \cup {"file"})
    BY <2>4, FS_AddElement
  <2>6. Icache!Variables = (((({"ip"} \cup {"dp"}) \cup {"old"}) \cup {"tgt"}) \cup {"cwd"}) \cup {"file"}
    BY DEF Icache!Variables
  <2> QED BY <2>5, <2>6
<1> QED BY <1>1, FiniteSetsHere, FS_Product DEF RefCells

Cell(p, v) == <<p, v>>

(* What each cell holds.                                                   *)
LEMMA RefContents ==
    ASSUME NEW l, NEW c, NEW f, NEW q \in Procs
    PROVE  /\ DOMAIN Refs(l, c, f) = RefCells
           /\ Cell(q, "ip") \in RefCells /\ Refs(l, c, f)[Cell(q, "ip")] = l[q].ip
           /\ Cell(q, "dp") \in RefCells /\ Refs(l, c, f)[Cell(q, "dp")] = l[q].dp
           /\ Cell(q, "old") \in RefCells /\ Refs(l, c, f)[Cell(q, "old")] = l[q].old
           /\ Cell(q, "tgt") \in RefCells /\ Refs(l, c, f)[Cell(q, "tgt")] = l[q].tgt
           /\ Cell(q, "cwd") \in RefCells /\ Refs(l, c, f)[Cell(q, "cwd")] = c[q]
           /\ Cell(q, "file") \in RefCells /\ Refs(l, c, f)[Cell(q, "file")] = f[q]
  BY DEF Refs, RefCells, Icache!Variables, Cell

(* Every cell is one of a process's.                                       *)
LEMMA RefCellOf ==
    ASSUME NEW x \in RefCells
    PROVE  \E q \in Procs : x \in {Cell(q, "ip"), Cell(q, "dp"), Cell(q, "old"), Cell(q, "tgt"),
                                   Cell(q, "cwd"), Cell(q, "file")}
  BY DEF RefCells, Icache!Variables, Cell

CellsOf(p) == {Cell(p, "ip")} \cup {Cell(p, "dp")} \cup {Cell(p, "old")} \cup {Cell(p, "tgt")}
              \cup {Cell(p, "cwd")} \cup {Cell(p, "file")}

(* The cells of a process with content i, counted.                         *)
LEMMA UsesCounted ==
    ASSUME NEW l, NEW c, NEW f, NEW p \in Procs, NEW i
    PROVE  Held(Refs(l, c, f), CellsOf(p), i) = Uses(l[p], c[p], f[p], i)
<1>1. PICK F : F = Refs(l, c, f)
  OBVIOUS
<1>2. /\ F[Cell(p, "ip")] = l[p].ip /\ F[Cell(p, "dp")] = l[p].dp /\ F[Cell(p, "old")] = l[p].old
      /\ F[Cell(p, "tgt")] = l[p].tgt /\ F[Cell(p, "cwd")] = c[p] /\ F[Cell(p, "file")] = f[p]
  BY <1>1, RefContents
<1>3. PICK T0 : T0 = {}
  OBVIOUS
<1>4. PICK T1 : T1 = T0 \cup {Cell(p, "ip")}
  OBVIOUS
<1>5. PICK T2 : T2 = T1 \cup {Cell(p, "dp")}
  OBVIOUS
<1>6. PICK T3 : T3 = T2 \cup {Cell(p, "old")}
  OBVIOUS
<1>7. PICK T4 : T4 = T3 \cup {Cell(p, "tgt")}
  OBVIOUS
<1>8. PICK T5 : T5 = T4 \cup {Cell(p, "cwd")}
  OBVIOUS
<1>9. PICK T6 : T6 = T5 \cup {Cell(p, "file")}
  OBVIOUS
<1>10. IsFiniteSet(T0) /\ Held(F, T0, i) = 0
  <2>1. {x \in T0 : F[x] = i} = {}
    BY <1>3
  <2> QED BY <2>1, <1>3, FS_EmptySet DEF Held
<1>11. IsFiniteSet(T1) /\ Held(F, T1, i) = Held(F, T0, i) + Is(l[p].ip, i)
  <2>1. Cell(p, "ip") \notin T0
    BY <1>3 DEF Cell
  <2>2. Plus(T1, T0, Cell(p, "ip"))
    BY <2>1, <1>10, <1>4 DEF Plus
  <2> QED BY <2>2, <1>2, OneMoreCell
<1>12. IsFiniteSet(T2) /\ Held(F, T2, i) = Held(F, T1, i) + Is(l[p].dp, i)
  <2>1. Cell(p, "dp") \notin T1
    BY <1>3, <1>4 DEF Cell
  <2>2. Plus(T2, T1, Cell(p, "dp"))
    BY <2>1, <1>11, <1>5 DEF Plus
  <2> QED BY <2>2, <1>2, OneMoreCell
<1>13. IsFiniteSet(T3) /\ Held(F, T3, i) = Held(F, T2, i) + Is(l[p].old, i)
  <2>1. Cell(p, "old") \notin T2
    BY <1>3, <1>4, <1>5 DEF Cell
  <2>2. Plus(T3, T2, Cell(p, "old"))
    BY <2>1, <1>12, <1>6 DEF Plus
  <2> QED BY <2>2, <1>2, OneMoreCell
<1>14. IsFiniteSet(T4) /\ Held(F, T4, i) = Held(F, T3, i) + Is(l[p].tgt, i)
  <2>1. Cell(p, "tgt") \notin T3
    BY <1>3, <1>4, <1>5, <1>6 DEF Cell
  <2>2. Plus(T4, T3, Cell(p, "tgt"))
    BY <2>1, <1>13, <1>7 DEF Plus
  <2> QED BY <2>2, <1>2, OneMoreCell
<1>15. IsFiniteSet(T5) /\ Held(F, T5, i) = Held(F, T4, i) + Is(c[p], i)
  <2>1. Cell(p, "cwd") \notin T4
    BY <1>3, <1>4, <1>5, <1>6, <1>7 DEF Cell
  <2>2. Plus(T5, T4, Cell(p, "cwd"))
    BY <2>1, <1>14, <1>8 DEF Plus
  <2> QED BY <2>2, <1>2, OneMoreCell
<1>16. IsFiniteSet(T6) /\ Held(F, T6, i) = Held(F, T5, i) + Is(f[p], i)
  <2>1. Cell(p, "file") \notin T5
    BY <1>3, <1>4, <1>5, <1>6, <1>7, <1>8 DEF Cell
  <2>2. Plus(T6, T5, Cell(p, "file"))
    BY <2>1, <1>15, <1>9 DEF Plus
  <2> QED BY <2>2, <1>2, OneMoreCell
<1>18. T6 = CellsOf(p)
  BY <1>3, <1>4, <1>5, <1>6, <1>7, <1>8, <1>9 DEF CellsOf
<1>19. \A x : Is(x, i) \in Nat
  BY DEF Is
<1>20. Held(F, T6, i) = Uses(l[p], c[p], f[p], i)
  BY <1>10, <1>11, <1>12, <1>13, <1>14, <1>15, <1>16, <1>19 DEF Uses
<1> QED BY <1>1, <1>18, <1>20

(* The variables of all processes but p are the same.                      *)
SameBut(p, l, c, f, m, d, g) == \A q \in Procs \ {p} : m[q] = l[q] /\ d[q] = c[q] /\ g[q] = f[q]

(* A step of process p changes the count of i by what p has of it.         *)
LEMMA RefsChange ==
    ASSUME Icache!Configuration, NEW l, NEW c, NEW f, NEW m, NEW d, NEW g, NEW p \in Procs, NEW i,
           SameBut(p, l, c, f, m, d, g)
    PROVE  /\ Count(Refs(l, c, f), i) \in Nat /\ Count(Refs(m, d, g), i) \in Nat
           /\ Count(Refs(m, d, g), i) - Uses(m[p], d[p], g[p], i)
                = Count(Refs(l, c, f), i) - Uses(l[p], c[p], f[p], i)
<1>1. PICK F : F = Refs(l, c, f)
  OBVIOUS
<1>2. PICK G : G = Refs(m, d, g)
  OBVIOUS
<1>3. DOMAIN F = RefCells /\ DOMAIN G = RefCells /\ CellsOf(p) \subseteq RefCells
  BY <1>1, <1>2, RefContents DEF CellsOf
<1>4. ASSUME NEW x \in RefCells \ CellsOf(p)
      PROVE  G[x] = F[x]
  <2>1. PICK q \in Procs : x \in {Cell(q, "ip"), Cell(q, "dp"), Cell(q, "old"), Cell(q, "tgt"),
                                  Cell(q, "cwd"), Cell(q, "file")}
    BY <1>4, RefCellOf
  <2>2. q # p
    BY <2>1, <1>4 DEF CellsOf, Cell
  <2>3. /\ F[Cell(q, "ip")] = l[q].ip /\ F[Cell(q, "dp")] = l[q].dp /\ F[Cell(q, "old")] = l[q].old
        /\ F[Cell(q, "tgt")] = l[q].tgt /\ F[Cell(q, "cwd")] = c[q] /\ F[Cell(q, "file")] = f[q]
    BY <1>1, RefContents
  <2>4. /\ G[Cell(q, "ip")] = m[q].ip /\ G[Cell(q, "dp")] = m[q].dp /\ G[Cell(q, "old")] = m[q].old
        /\ G[Cell(q, "tgt")] = m[q].tgt /\ G[Cell(q, "cwd")] = d[q] /\ G[Cell(q, "file")] = g[q]
    BY <1>2, RefContents
  <2>5. m[q] = l[q] /\ d[q] = c[q] /\ g[q] = f[q]
    BY <2>2 DEF SameBut
  <2> QED BY <2>1, <2>3, <2>4, <2>5
<1>5. /\ Count(F, i) \in Nat /\ Count(G, i) \in Nat
      /\ Count(G, i) - Held(G, CellsOf(p), i)
           = Count(F, i) - Held(F, CellsOf(p), i)
  BY <1>3, <1>4, RefCellsFinite, CountOutside
<1>6. Held(F, CellsOf(p), i) = Uses(l[p], c[p], f[p], i)
  <2>1. Held(Refs(l, c, f), CellsOf(p), i) = Uses(l[p], c[p], f[p], i)
    BY UsesCounted
  <2> QED BY <1>1, <2>1
<1>7. Held(G, CellsOf(p), i) = Uses(m[p], d[p], g[p], i)
  <2>1. Held(Refs(m, d, g), CellsOf(p), i) = Uses(m[p], d[p], g[p], i)
    BY UsesCounted
  <2> QED BY <1>2, <2>1
<1> QED BY <1>1, <1>2, <1>5, <1>6, <1>7

(***************************************************************************)
(* Links.                                                                  *)
(***************************************************************************)

(* The cells of the links are finitely many.                               *)
LEMMA LinkCellsFinite ==
    ASSUME Icache!Configuration
    PROVE  IsFiniteSet(LinkCells)
<1>1. IsFiniteSet(Inums \X Plain) /\ IsFiniteSet(Procs)
  BY FiniteSetsHere, FS_Product
<1>2. PICK A : A = {EntCell(x[1], x[2]) : x \in Inums \X Plain}
  OBVIOUS
<1>3. PICK B : B = {SubCell(x[1], x[2]) : x \in Inums \X Plain}
  OBVIOUS
<1>4. PICK C : C = {PendCell(p) : p \in Procs}
  OBVIOUS
<1>5. IsFiniteSet(A)
  <2>1. PICK f : f = [x \in Inums \X Plain |-> EntCell(x[1], x[2])]
    OBVIOUS
  <2>2. f \in Surjection(Inums \X Plain, A)
    BY <1>2, <2>1 DEF Surjection
  <2> QED BY <1>1, <2>2, FS_Surjection
<1>6. IsFiniteSet(B)
  <2>1. PICK f : f = [x \in Inums \X Plain |-> SubCell(x[1], x[2])]
    OBVIOUS
  <2>2. f \in Surjection(Inums \X Plain, B)
    BY <1>3, <2>1 DEF Surjection
  <2> QED BY <1>1, <2>2, FS_Surjection
<1>7. IsFiniteSet(C)
  <2>1. PICK f : f = [p \in Procs |-> PendCell(p)]
    OBVIOUS
  <2>2. f \in Surjection(Procs, C)
    BY <1>4, <2>1 DEF Surjection
  <2> QED BY <1>1, <2>2, FS_Surjection
<1>8. IsFiniteSet(A \cup B)
  BY <1>5, <1>6, FS_Union
<1>9. IsFiniteSet((A \cup B) \cup C)
  BY <1>7, <1>8, FS_Union
<1>10. IsFiniteSet(((A \cup B) \cup C) \cup {RootCell})
  BY <1>9, FS_AddElement
<1> QED BY <1>2, <1>3, <1>4, <1>10 DEF LinkCells

(* The link of the ".." of what entry n of directory a leads to.           *)
Up(d, e, a, n) == IF IsDir(d, e[a][n]) THEN a ELSE 0

(* What each cell holds.                                                   *)
LEMMA LinkContents ==
    ASSUME NEW d, NEW e, NEW l
    PROVE  /\ DOMAIN Links(d, e, l) = LinkCells
           /\ \A a \in Inums, n \in Plain :
                 /\ EntCell(a, n) \in LinkCells /\ Links(d, e, l)[EntCell(a, n)] = e[a][n]
                 /\ SubCell(a, n) \in LinkCells /\ Links(d, e, l)[SubCell(a, n)] = Up(d, e, a, n)
           /\ \A p \in Procs :
                 PendCell(p) \in LinkCells /\ Links(d, e, l)[PendCell(p)] = Pending(l[p])
           /\ RootCell \in LinkCells /\ Links(d, e, l)[RootCell] = ROOTINO
<1>1. DOMAIN Links(d, e, l) = LinkCells
  BY DEF Links
<1>2. ASSUME NEW a \in Inums, NEW n \in Plain
      PROVE  /\ EntCell(a, n) \in LinkCells /\ Links(d, e, l)[EntCell(a, n)] = e[a][n]
             /\ SubCell(a, n) \in LinkCells /\ Links(d, e, l)[SubCell(a, n)] = Up(d, e, a, n)
  <2>1. PICK x \in Inums \X Plain : x = <<a, n>>
    OBVIOUS
  <2>2. x[1] = a /\ x[2] = n
    BY <2>1
  <2>3. EntCell(a, n) \in LinkCells /\ SubCell(a, n) \in LinkCells
    BY <2>2 DEF LinkCells
  <2>4. /\ EntCell(a, n)[1] = "ent" /\ EntCell(a, n)[2] = a /\ EntCell(a, n)[3] = n
        /\ SubCell(a, n)[1] = "sub" /\ SubCell(a, n)[2] = a /\ SubCell(a, n)[3] = n
    BY DEF EntCell, SubCell
  <2> QED BY <2>3, <2>4 DEF Links, Up
<1>3. ASSUME NEW p \in Procs
      PROVE  PendCell(p) \in LinkCells /\ Links(d, e, l)[PendCell(p)] = Pending(l[p])
  <2>1. PendCell(p) \in LinkCells
    BY DEF LinkCells
  <2>2. PendCell(p)[1] = "pend" /\ PendCell(p)[2] = p
    BY DEF PendCell
  <2> QED BY <2>1, <2>2 DEF Links
<1>4. RootCell \in LinkCells /\ Links(d, e, l)[RootCell] = ROOTINO
  <2>1. RootCell \in LinkCells /\ RootCell[1] = "root"
    BY DEF LinkCells, RootCell
  <2> QED BY <2>1 DEF Links
<1> QED BY <1>1, <1>2, <1>3, <1>4

(* Every cell is one of these.                                             *)
LEMMA LinkCellOf ==
    ASSUME NEW x \in LinkCells
    PROVE  \/ \E a \in Inums, n \in Plain : x = EntCell(a, n) \/ x = SubCell(a, n)
           \/ \E p \in Procs : x = PendCell(p)
           \/ x = RootCell
  BY DEF LinkCells, EntCell, SubCell, PendCell, RootCell

(* A step that touches one entry of one directory and the pending link of  *)
(* one process changes the count of i by what these three cells hold.      *)
LEMMA LinksChange ==
    ASSUME Icache!Configuration, NEW d, NEW e, NEW l, NEW d2, NEW e2, NEW l2,
           NEW a \in Inums, NEW n \in Plain, NEW p \in Procs, NEW i,
           \A b \in Inums, m \in Plain : ~(b = a /\ m = n) =>
               e2[b][m] = e[b][m] /\ Up(d2, e2, b, m) = Up(d, e, b, m),
           \A q \in Procs \ {p} : Pending(l2[q]) = Pending(l[q])
    PROVE  /\ Count(Links(d, e, l), i) \in Nat /\ Count(Links(d2, e2, l2), i) \in Nat
           /\ Count(Links(d2, e2, l2), i)
                - (Is(e2[a][n], i) + Is(Up(d2, e2, a, n), i) + Is(Pending(l2[p]), i))
              = Count(Links(d, e, l), i)
                - (Is(e[a][n], i) + Is(Up(d, e, a, n), i) + Is(Pending(l[p]), i))
<1>1. PICK F : F = Links(d, e, l)
  OBVIOUS
<1>2. PICK G : G = Links(d2, e2, l2)
  OBVIOUS
<1>3. PICK T0 : T0 = {}
  OBVIOUS
<1>4. PICK T1 : T1 = T0 \cup {EntCell(a, n)}
  OBVIOUS
<1>5. PICK T2 : T2 = T1 \cup {SubCell(a, n)}
  OBVIOUS
<1>6. PICK T3 : T3 = T2 \cup {PendCell(p)}
  OBVIOUS
<1>7. IsFiniteSet(T0) /\ \A f : Held(f, T0, i) = 0
  <2>1. \A f : {x \in T0 : f[x] = i} = {}
    BY <1>3
  <2> QED BY <2>1, <1>3, FS_EmptySet DEF Held
<1>8. IsFiniteSet(T1) /\ \A f : Held(f, T1, i) = Is(f[EntCell(a, n)], i)
  <2>1. Plus(T1, T0, EntCell(a, n))
    BY <1>3, <1>4, <1>7 DEF Plus
  <2>2. IsFiniteSet(T1)
    BY <2>1, OneMoreCell
  <2>3. ASSUME NEW f PROVE Held(f, T1, i) = Is(f[EntCell(a, n)], i)
    BY <2>1, <1>7, OneMoreCell DEF Is
  <2> QED BY <2>2, <2>3
<1>9. /\ IsFiniteSet(T2)
      /\ \A f : Held(f, T2, i) = Is(f[EntCell(a, n)], i) + Is(f[SubCell(a, n)], i)
  <2>1. SubCell(a, n) \notin T1
    BY <1>3, <1>4 DEF SubCell, EntCell
  <2>2. Plus(T2, T1, SubCell(a, n))
    BY <2>1, <1>5, <1>8 DEF Plus
  <2>3. IsFiniteSet(T2)
    BY <2>2, OneMoreCell
  <2>4. ASSUME NEW f PROVE Held(f, T2, i) = Is(f[EntCell(a, n)], i) + Is(f[SubCell(a, n)], i)
    BY <2>2, <1>8, OneMoreCell
  <2> QED BY <2>3, <2>4
<1>10. \A f : Held(f, T3, i) = Is(f[EntCell(a, n)], i) + Is(f[SubCell(a, n)], i) + Is(f[PendCell(p)], i)
  <2>1. PendCell(p) \notin T2
    BY <1>3, <1>4, <1>5 DEF SubCell, EntCell, PendCell
  <2>2. Plus(T3, T2, PendCell(p))
    BY <2>1, <1>6, <1>9 DEF Plus
  <2>3. ASSUME NEW f
        PROVE Held(f, T3, i) = Is(f[EntCell(a, n)], i) + Is(f[SubCell(a, n)], i) + Is(f[PendCell(p)], i)
    BY <2>2, <1>9, OneMoreCell
  <2> QED BY <2>3
<1>11. /\ DOMAIN F = LinkCells
       /\ \A b \in Inums, m \in Plain : /\ EntCell(b, m) \in LinkCells /\ F[EntCell(b, m)] = e[b][m]
                                        /\ SubCell(b, m) \in LinkCells /\ F[SubCell(b, m)] = Up(d, e, b, m)
       /\ \A q \in Procs : PendCell(q) \in LinkCells /\ F[PendCell(q)] = Pending(l[q])
       /\ F[RootCell] = ROOTINO
  BY <1>1, LinkContents
<1>12. /\ DOMAIN G = LinkCells
       /\ \A b \in Inums, m \in Plain : /\ G[EntCell(b, m)] = e2[b][m]
                                        /\ G[SubCell(b, m)] = Up(d2, e2, b, m)
       /\ \A q \in Procs : G[PendCell(q)] = Pending(l2[q])
       /\ G[RootCell] = ROOTINO
  BY <1>2, LinkContents
<1>13. T3 \subseteq LinkCells
  BY <1>3, <1>4, <1>5, <1>6, <1>11
<1>14. ASSUME NEW x \in LinkCells \ T3
       PROVE  G[x] = F[x]
  <2>1. x # EntCell(a, n) /\ x # SubCell(a, n) /\ x # PendCell(p)
    BY <1>3, <1>4, <1>5, <1>6, <1>14
  <2>2. CASE \E b \in Inums, m \in Plain : x = EntCell(b, m) \/ x = SubCell(b, m)
    <3>1. PICK b \in Inums, m \in Plain : x = EntCell(b, m) \/ x = SubCell(b, m)
      BY <2>2
    <3>2. ~(b = a /\ m = n)
      BY <2>1, <3>1
    <3>3. e2[b][m] = e[b][m] /\ Up(d2, e2, b, m) = Up(d, e, b, m)
      BY <3>1, <3>2
    <3> QED BY <3>1, <3>3, <1>11, <1>12
  <2>3. CASE \E q \in Procs : x = PendCell(q)
    BY <2>1, <2>3, <1>11, <1>12
  <2> QED BY <2>2, <2>3, <1>11, <1>12, <1>14, LinkCellOf
<1>15. /\ Count(F, i) \in Nat /\ Count(G, i) \in Nat
       /\ Count(G, i) - Held(G, T3, i) = Count(F, i) - Held(F, T3, i)
  BY <1>11, <1>12, <1>13, <1>14, LinkCellsFinite, CountOutside
<1>16. Held(F, T3, i) = Is(e[a][n], i) + Is(Up(d, e, a, n), i) + Is(Pending(l[p]), i)
  BY <1>10, <1>11
<1>17. Held(G, T3, i) = Is(e2[a][n], i) + Is(Up(d2, e2, a, n), i) + Is(Pending(l2[p]), i)
  BY <1>10, <1>12
<1> QED BY <1>1, <1>2, <1>15, <1>16, <1>17

(* A step of p leaves all names but n in directory a alone, and what the   *)
(* other calls have counted.                                               *)
LinksSameBut(a, n, p, d, e, l, d2, e2, l2) ==
    /\ \A b \in Inums, m \in Plain : ~(b = a /\ m = n) =>
          e2[b][m] = e[b][m] /\ Up(d2, e2, b, m) = Up(d, e, b, m)
    /\ \A q \in Procs \ {p} : Pending(l2[q]) = Pending(l[q])

(* The same, with what the step leaves alone as one fact.                  *)
LEMMA LinksBut ==
    ASSUME Icache!Configuration, NEW d, NEW e, NEW l, NEW d2, NEW e2, NEW l2,
           NEW a \in Inums, NEW n \in Plain, NEW p \in Procs, NEW i,
           LinksSameBut(a, n, p, d, e, l, d2, e2, l2)
    PROVE  /\ Count(Links(d, e, l), i) \in Nat /\ Count(Links(d2, e2, l2), i) \in Nat
           /\ Count(Links(d2, e2, l2), i)
                - (Is(e2[a][n], i) + Is(Up(d2, e2, a, n), i) + Is(Pending(l2[p]), i))
              = Count(Links(d, e, l), i)
                - (Is(e[a][n], i) + Is(Up(d, e, a, n), i) + Is(Pending(l[p]), i))
BY LinksChange DEF LinksSameBut

(* A step that changes no link of i does not change its count.             *)
LEMMA LinksSame ==
    ASSUME Icache!Configuration, NEW d, NEW e, NEW l, NEW d2, NEW e2, NEW l2, NEW i \in Inums,
           \A b \in Inums, m \in Plain : /\ e2[b][m] = i <=> e[b][m] = i
                                         /\ Up(d2, e2, b, m) = Up(d, e, b, m),
           \A q \in Procs : Pending(l2[q]) = Pending(l[q])
    PROVE  /\ Count(Links(d, e, l), i) \in Nat /\ Count(Links(d2, e2, l2), i) \in Nat
           /\ Count(Links(d2, e2, l2), i) = Count(Links(d, e, l), i)
<1>1. PICK F : F = Links(d, e, l)
  OBVIOUS
<1>2. PICK G : G = Links(d2, e2, l2)
  OBVIOUS
<1>3. /\ DOMAIN F = LinkCells
      /\ \A b \in Inums, m \in Plain : /\ F[EntCell(b, m)] = e[b][m]
                                       /\ F[SubCell(b, m)] = Up(d, e, b, m)
      /\ \A q \in Procs : F[PendCell(q)] = Pending(l[q])
      /\ F[RootCell] = ROOTINO
  BY <1>1, LinkContents
<1>4. /\ DOMAIN G = LinkCells
      /\ \A b \in Inums, m \in Plain : /\ G[EntCell(b, m)] = e2[b][m]
                                       /\ G[SubCell(b, m)] = Up(d2, e2, b, m)
      /\ \A q \in Procs : G[PendCell(q)] = Pending(l2[q])
      /\ G[RootCell] = ROOTINO
  BY <1>2, LinkContents
<1>5. ASSUME NEW x \in LinkCells
      PROVE  G[x] = i <=> F[x] = i
  <2>1. CASE \E b \in Inums, m \in Plain : x = EntCell(b, m) \/ x = SubCell(b, m)
    BY <2>1, <1>3, <1>4
  <2>2. CASE \E q \in Procs : x = PendCell(q)
    BY <2>2, <1>3, <1>4
  <2> QED BY <2>1, <2>2, <1>3, <1>4, LinkCellOf
<1>6. PICK S : S = {x \in LinkCells : F[x] = i}
  OBVIOUS
<1>7. S = {x \in LinkCells : G[x] = i}
  BY <1>5, <1>6
<1>8. Cardinality(S) \in Nat
  BY <1>6, LinkCellsFinite, FS_Subset, FS_CardinalityType
<1> QED BY <1>1, <1>2, <1>3, <1>4, <1>6, <1>7, <1>8 DEF Count, Held

(* A step that enters no link and drops a name of i lowers its count.      *)
LEMMA LinksLess ==
    ASSUME Icache!Configuration, NEW d, NEW e, NEW l, NEW d2, NEW e2, NEW l2, NEW i \in Inums,
           \A b \in Inums, m \in Plain :
               e2[b][m] \in {e[b][m], 0} /\ Up(d2, e2, b, m) = Up(d, e, b, m),
           \A q \in Procs : Pending(l2[q]) = Pending(l[q]),
           NEW a \in Inums, NEW n \in Plain, e[a][n] = i, e2[a][n] = 0
    PROVE  /\ Count(Links(d, e, l), i) \in Nat /\ Count(Links(d2, e2, l2), i) \in Nat
           /\ Count(Links(d2, e2, l2), i) < Count(Links(d, e, l), i)
<1>1. PICK F : F = Links(d, e, l)
  OBVIOUS
<1>2. PICK G : G = Links(d2, e2, l2)
  OBVIOUS
<1>3. /\ DOMAIN F = LinkCells
      /\ \A b \in Inums, m \in Plain : /\ EntCell(b, m) \in LinkCells /\ F[EntCell(b, m)] = e[b][m]
                                       /\ F[SubCell(b, m)] = Up(d, e, b, m)
      /\ \A q \in Procs : F[PendCell(q)] = Pending(l[q])
      /\ F[RootCell] = ROOTINO
  BY <1>1, LinkContents
<1>4. /\ DOMAIN G = LinkCells
      /\ \A b \in Inums, m \in Plain : /\ G[EntCell(b, m)] = e2[b][m]
                                       /\ G[SubCell(b, m)] = Up(d2, e2, b, m)
      /\ \A q \in Procs : G[PendCell(q)] = Pending(l2[q])
      /\ G[RootCell] = ROOTINO
  BY <1>2, LinkContents
<1>5. ASSUME NEW x \in LinkCells
      PROVE  G[x] \in {F[x], 0}
  <2>1. CASE \E b \in Inums, m \in Plain : x = EntCell(b, m) \/ x = SubCell(b, m)
    BY <2>1, <1>3, <1>4
  <2>2. CASE \E q \in Procs : x = PendCell(q)
    BY <2>2, <1>3, <1>4
  <2> QED BY <2>1, <2>2, <1>3, <1>4, LinkCellOf
<1>6. i # 0 /\ IsFiniteSet(LinkCells)
  BY LinkCellsFinite DEF Icache!Configuration
<1>7. Count(F, i) \in Nat /\ Count(G, i) \in Nat
  BY <1>3, <1>4, <1>5, <1>6, CountShrinks
<1>8. PICK y \in LinkCells : F[y] = i /\ G[y] = 0
  BY <1>3, <1>4
<1>9. Count(G, i) < Count(F, i)
  BY <1>3, <1>4, <1>5, <1>6, <1>8, CountLess
<1> QED BY <1>1, <1>2, <1>7, <1>9

(* Whatever is linked has a positive link count.                           *)
LEMMA LinkedCounted ==
    ASSUME Icache!Configuration, Typed, LinksOk
    PROVE  /\ \A a \in Inums, n \in Plain : ent[a][n] # 0 => dinode[ent[a][n]].nlink >= 1
           /\ \A a \in Inums, n \in Plain : IsDir(dinode, ent[a][n]) => dinode[a].nlink >= 1
           /\ \A p \in Procs : Pending(loc[p]) \in Inums => dinode[Pending(loc[p])].nlink >= 1
           /\ dinode[ROOTINO].nlink >= 1
<1>1. PICK F : F = Links(dinode, ent, loc)
  OBVIOUS
<1>2. /\ DOMAIN F = LinkCells
      /\ \A a \in Inums, n \in Plain : /\ EntCell(a, n) \in LinkCells /\ F[EntCell(a, n)] = ent[a][n]
                                       /\ SubCell(a, n) \in LinkCells
                                       /\ F[SubCell(a, n)] = Up(dinode, ent, a, n)
      /\ \A q \in Procs : PendCell(q) \in LinkCells /\ F[PendCell(q)] = Pending(loc[q])
      /\ RootCell \in LinkCells /\ F[RootCell] = ROOTINO
  BY <1>1, LinkContents
<1>3. ASSUME NEW i \in Inums, NEW x \in LinkCells, F[x] = i
      PROVE  dinode[i].nlink >= 1
  <2>1. Count(F, i) \in Nat /\ Count(F, i) >= 1
    BY <1>2, <1>3, LinkCellsFinite, CountPositive
  <2>2. Count(F, i) <= dinode[i].nlink /\ dinode[i].nlink \in Nat
    BY <1>1 DEF LinksOk, Typed, Dinodes
  <2> QED BY <2>1, <2>2
<1>4. \A a \in Inums, n \in Plain : ent[a][n] # 0 => ent[a][n] \in Inums
  BY DEF Typed, Ptrs, Icache!Names
<1>5. \A a \in Inums, n \in Plain : ent[a][n] # 0 => dinode[ent[a][n]].nlink >= 1
  BY <1>2, <1>3, <1>4
<1>6. \A a \in Inums, n \in Plain : IsDir(dinode, ent[a][n]) => dinode[a].nlink >= 1
  BY <1>2, <1>3 DEF Up
<1>7. \A p \in Procs : Pending(loc[p]) \in Inums => dinode[Pending(loc[p])].nlink >= 1
  BY <1>2, <1>3
<1>8. dinode[ROOTINO].nlink >= 1
  BY <1>2, <1>3 DEF Icache!Configuration
<1> QED BY <1>5, <1>6, <1>7, <1>8

(***************************************************************************)
(* Steps.                                                                  *)
(***************************************************************************)

(* Only p moves.                                                           *)
Solo(p) == \A q \in Procs \ {p} : loc'[q] = loc[q] /\ cwd'[q] = cwd[q] /\ file'[q] = file[q]

(* The inodes that process p may get to: alive, and nobody else's alone.   *)
Reach(p) == {j \in Inums : /\ dinode[j].type # "free"
                           /\ \A q \in Procs \ {p} : /\ Fresh(loc[q]) => loc[q].ip # j
                                                     /\ loc[q].pc = "ifree" => loc[q].tgt # j}

(* What a step of p may do to inodes and directories: change the inodes p  *)
(* has, or free ones, free the one p frees, and write to directories p has *)
(* locked.                                                                 *)
Confined(p) == \A i \in Inums :
    /\ dinode'[i] = dinode[i] \/ i \in Have(p) \/ dinode[i].type = "free"
    /\ \/ dinode'[i].type = dinode[i].type
       \/ dinode[i].type = "free"
       \/ loc[p].pc = "ifree" /\ i = loc[p].tgt
    /\ ent'[i] = ent[i] \/ lock[i] = p

(* What a step of p gives it: inodes within reach, or new ones.            *)
Gains(p) == \A i \in Have(p)' : i \in Reach(p) \/ dinode[i].type = "free"

(* The parts of the invariant.                                             *)
LEMMA InvParts ==
    ASSUME InodeInv
    PROVE  /\ Typed /\ RefsOk /\ LinksOk /\ LockOk /\ AliveOk /\ MemOk /\ DirsOk /\ TreeOk /\ NoPair
           /\ \A p \in Procs : LocOk(loc[p]) /\ CallOk(loc[p], cwd[p]) /\ Alone(p)
  BY DEF InodeInv, ProcOk

(* A process has the inodes it has locked.                                 *)
LEMMA LockedHad ==
    ASSUME NEW r, NEW c, NEW f, LocOk(r)
    PROVE  Locked(r) \subseteq HaveOf(r, c, f)
  BY DEF LocOk, Locked, HaveOf, Others, Stage, Puts, LockedIp, NoIp, HasDp

(* What a process has is an inode within its reach.                        *)
LEMMA HaveReach ==
    ASSUME Icache!Configuration, InodeInv, NEW p \in Procs
    PROVE  Have(p) \subseteq Reach(p)
<1>1. SUFFICES ASSUME NEW i \in Have(p) PROVE i \in Reach(p)
  OBVIOUS
<1>2. dinode[i].type # "free"
  BY InvParts DEF AliveOk
<1>3. i \in Inums
  <2>1. loc[p] \in LocType /\ cwd[p] \in Ptrs /\ file[p] \in Ptrs /\ LocOk(loc[p])
    BY InvParts DEF Typed
  <2> QED BY <2>1, <1>1 DEF Have, HaveOf, Others, LocType, Ptrs, LocOk, Puts
<1>4. ASSUME NEW q \in Procs \ {p}
      PROVE  /\ Fresh(loc[q]) => loc[q].ip # i
             /\ loc[q].pc = "ifree" => loc[q].tgt # i
  BY <1>1, InvParts DEF Alone
<1> QED BY <1>2, <1>3, <1>4 DEF Reach

(* References stay exact if p's step changes ref by what p gets or drops.  *)
LEMMA RefsStep ==
    ASSUME Icache!Configuration, InodeInv, Typed', NEW p \in Procs, Solo(p),
           \A i \in Inums : mem'[i].ref - Uses(loc'[p], cwd'[p], file'[p], i)
                              = mem[i].ref - Uses(loc[p], cwd[p], file[p], i)
    PROVE  RefsOk'
<1>1. SUFFICES ASSUME NEW i \in Inums PROVE mem'[i].ref = Count(Refs(loc', cwd', file'), i)
  BY DEF RefsOk
<1>2. mem[i].ref = Count(Refs(loc, cwd, file), i) /\ mem[i].ref \in Nat /\ mem'[i].ref \in Nat
  BY InvParts DEF RefsOk, Typed, Slots
<1>3. /\ Count(Refs(loc, cwd, file), i) \in Nat /\ Count(Refs(loc', cwd', file'), i) \in Nat
      /\ Count(Refs(loc', cwd', file'), i) - Uses(loc'[p], cwd'[p], file'[p], i)
           = Count(Refs(loc, cwd, file), i) - Uses(loc[p], cwd[p], file[p], i)
  <2>1. SameBut(p, loc, cwd, file, loc', cwd', file')
    BY DEF Solo, SameBut
  <2> QED BY <2>1, RefsChange
<1>4. \A r, c, f : Uses(r, c, f, i) \in Nat
  BY DEF Uses, Is
<1> QED BY <1>2, <1>3, <1>4

(* Other processes keep what they know, if p's step is confined.           *)
LEMMA OthersStep ==
    ASSUME Icache!Configuration, InodeInv, NEW p \in Procs, Solo(p), Confined(p), Gains(p)
    PROVE  \A q \in Procs \ {p} : /\ ProcOk(q)'
                                  /\ \A i \in Have(q)' : dinode'[i].type # "free"
<1>1. SUFFICES ASSUME NEW q \in Procs \ {p}
               PROVE  ProcOk(q)' /\ \A i \in Have(q)' : dinode'[i].type # "free"
  OBVIOUS
<1>2. PICK r : r = loc[q]
  OBVIOUS
<1>3. loc'[q] = r /\ cwd'[q] = cwd[q] /\ file'[q] = file[q] /\ Have(q)' = Have(q)
  BY <1>2 DEF Solo, Have
<1>4. /\ r \in LocType /\ cwd[q] \in Ptrs /\ file[q] \in Ptrs
      /\ LocOk(r) /\ CallOk(r, cwd[q]) /\ Alone(q) /\ Alone(p) /\ LocOk(loc[p])
  BY <1>2, InvParts DEF Typed
<1>5. Have(q) \subseteq Inums
  BY HaveReach DEF Reach
<1>6. ASSUME NEW i \in Have(q)
      PROVE  dinode'[i].type = dinode[i].type /\ dinode[i].type # "free"
  <2>1. dinode[i].type # "free"
    BY <1>6, InvParts DEF AliveOk
  <2>2. ~(loc[p].pc = "ifree" /\ i = loc[p].tgt)
    BY <1>4, <1>6 DEF Alone
  <2> QED BY <2>1, <2>2, <1>5 DEF Confined
<1>7. ASSUME NEW i \in Have(q), i \notin Have(p)
      PROVE  dinode'[i] = dinode[i] /\ ent'[i] = ent[i]
  <2>1. i \notin Locked(loc[p])
    BY <1>4, <1>7, LockedHad DEF Have
  <2>2. lock[i] # p
    BY <2>1, <1>5, <1>7, InvParts DEF LockOk
  <2> QED BY <2>2, <1>5, <1>6, <1>7 DEF Confined
<1>8. Locked(r) \subseteq Have(q)
  BY <1>2, <1>4, LockedHad DEF Have
<1>9. ASSUME NEW i \in Locked(r)
      PROVE  ent'[i] = ent[i]
  <2>1. lock[i] = q /\ i \in Inums
    BY <1>2, <1>5, <1>8, <1>9, InvParts DEF LockOk
  <2> QED BY <2>1 DEF Confined
<1>10. CallOk(r, cwd[q])'
  <2>1. r.ip # 0 => r.ip \in Have(q)
    BY <1>2 DEF Have, HaveOf, Others
  <2>2. r.dp # 0 => r.dp \in Have(q)
    BY <1>2 DEF Have, HaveOf, Others
  <2>3. r.old # 0 => r.old \in Have(q)
    BY <1>2 DEF Have, HaveOf, Others
  <2>4. Stage(r) \in DirIp => dinode'[r.ip].type = "dir"
    <3>1. Stage(r) \in DirIp => r.ip # 0
      BY <1>4 DEF LocOk, DirIp, NoIp
    <3> QED BY <3>1, <2>1, <1>4, <1>6 DEF CallOk
  <2>5. r.dp # 0 => dinode'[r.dp].type = "dir"
    BY <2>2, <1>4, <1>6 DEF CallOk
  <2>6. r.old # 0 => dinode'[r.old].type # "dir"
    BY <2>3, <1>4, <1>6 DEF CallOk
  <2>7. ASSUME Fresh(r)
        PROVE  /\ ent'[r.dp][r.path[1]] = 0 /\ ent'[r.ip] = Icache!Empty
               /\ dinode'[r.ip].type = r.call.type /\ dinode'[r.ip].nlink = 0 /\ r.ip # r.dp
    <3>1. r.ip # 0 /\ r.dp # 0 /\ r.dp \in Locked(r)
      BY <2>7, <1>4 DEF Fresh, LocOk, Locked, Stage, Puts, NoIp, HasDp
    <3>2. r.ip \notin Have(p)
      BY <2>7, <1>2, <1>4 DEF Alone
    <3> QED BY <3>1, <3>2, <2>1, <2>7, <1>4, <1>7, <1>9 DEF CallOk
  <2>8. r.pc \in {"victim", "unlink_ip"} => ent'[r.dp][r.path[1]] = r.ip
    <3>1. r.pc \in {"victim", "unlink_ip"} => r.dp \in Locked(r)
      BY <1>4 DEF LocOk, Locked, Stage, Puts, HasDp
    <3> QED BY <3>1, <1>4, <1>9 DEF CallOk
  <2>9. r.pc = "ifree" => dinode'[r.tgt].nlink = 0
    <3>1. r.pc = "ifree" => r.tgt \in Have(q) /\ r.tgt \notin Have(p)
      BY <1>2, <1>4 DEF Alone, Have, HaveOf
    <3> QED BY <3>1, <1>4, <1>7 DEF CallOk
  <2>10. cwd'[q] = 0 <=> Stage(r) = "chdir_end"
    BY <1>3, <1>4 DEF CallOk
  <2> QED BY <2>4, <2>5, <2>6, <2>7, <2>8, <2>9, <2>10 DEF CallOk
<1>11. Alone(q)'
  <2>1. ASSUME NEW t \in Procs \ {q}, NEW i \in Have(q),
               \/ Fresh(r) /\ i = r.ip
               \/ r.pc = "ifree" /\ i = r.tgt
        PROVE  i \notin Have(t)'
    <3>1. CASE t # p
      <4>1. Have(t)' = Have(t)
        BY <3>1 DEF Solo, Have
      <4> QED BY <4>1, <2>1, <1>2, <1>4 DEF Alone
    <3>2. CASE t = p
      <4>1. i \notin Reach(p)
        BY <2>1, <1>2 DEF Reach
      <4>2. dinode[i].type # "free"
        BY <2>1, <1>6
      <4> QED BY <4>1, <4>2, <3>2 DEF Gains
    <3> QED BY <3>1, <3>2
  <2>2. Fresh(r) => r.ip \in Have(q)
    BY <1>2, <1>4 DEF Fresh, LocOk, Have, HaveOf, Others, Stage, Puts, NoIp
  <2>3. r.pc = "ifree" => r.tgt \in Have(q)
    BY <1>2 DEF Have, HaveOf
  <2>4. Fresh(r) => \A t \in Procs \ {q} : r.ip \notin Have(t)'
    BY <2>1, <2>2
  <2>5. r.pc = "ifree" => \A t \in Procs \ {q} : r.tgt \notin Have(t)'
    BY <2>1, <2>3
  <2>6. r.pc = "ifree" => r.tgt \notin Others(r, cwd'[q], file'[q])
    BY <1>2, <1>3, <1>4 DEF Alone
  <2> QED BY <1>3, <2>4, <2>5, <2>6 DEF Alone
<1> QED BY <1>3, <1>4, <1>6, <1>10, <1>11 DEF ProcOk

(* p gives up no lock and takes none.                                      *)
LEMMA LocksSame ==
    ASSUME InodeInv, NEW p \in Procs, Solo(p), lock' = lock, Locked(loc'[p]) = Locked(loc[p])
    PROVE  LockOk'
<1>1. LockOk
  BY InvParts
<1>2. \A q \in Procs : Locked(loc'[q]) = Locked(loc[q])
  BY DEF Solo
<1> QED BY <1>1, <1>2 DEF LockOk

(* p unlocks j.                                                            *)
LEMMA LocksFreed ==
    ASSUME Icache!Configuration, InodeInv, NEW p \in Procs, Solo(p), NEW j, j \in Locked(loc[p]),
           lock' = [lock EXCEPT ![j] = NoCpu],
           Locked(loc'[p]) = Locked(loc[p]) \ {j}
    PROVE  LockOk' /\ \A i \in Inums : lock'[i] # NoCpu => lock[i] # NoCpu
<1>1. LockOk /\ lock \in [Inums -> Procs \cup {NoCpu}] /\ NoCpu \notin Procs
  BY InvParts DEF Typed, Icache!Configuration
<1>2. \A i \in Inums : lock'[i] = IF i = j THEN NoCpu ELSE lock[i]
  BY <1>1
<1>3. ASSUME NEW i \in Inums, NEW q \in Procs
      PROVE  lock'[i] = q <=> i \in Locked(loc'[q])
  <2>1. CASE q = p
    BY <2>1, <1>1, <1>2 DEF LockOk
  <2>2. CASE q # p
    <3>1. loc'[q] = loc[q]
      BY <2>2 DEF Solo
    <3>2. CASE i # j
      BY <3>1, <3>2, <1>1, <1>2 DEF LockOk
    <3>3. CASE i = j
      <4>1. lock[i] = p
        BY <3>3, <1>1 DEF LockOk
      <4>2. i \notin Locked(loc[q])
        BY <4>1, <2>2, <1>1 DEF LockOk
      <4>3. lock'[i] = NoCpu
        BY <3>3, <1>2
      <4> QED BY <4>2, <4>3, <3>1, <1>1
    <3> QED BY <3>2, <3>3
  <2> QED BY <2>1, <2>2
<1> QED BY <1>2, <1>3 DEF LockOk

(* p locks j.                                                              *)
LEMMA LocksTaken ==
    ASSUME Icache!Configuration, InodeInv, NEW p \in Procs, Solo(p), NEW j \in Inums, lock[j] = NoCpu,
           lock' = [lock EXCEPT ![j] = p],
           Locked(loc'[p]) = Locked(loc[p]) \cup {j}
    PROVE  LockOk'
<1>1. LockOk /\ lock \in [Inums -> Procs \cup {NoCpu}] /\ NoCpu \notin Procs
  BY InvParts DEF Typed, Icache!Configuration
<1>2. \A i \in Inums : lock'[i] = IF i = j THEN p ELSE lock[i]
  BY <1>1
<1>3. ASSUME NEW i \in Inums, NEW q \in Procs
      PROVE  lock'[i] = q <=> i \in Locked(loc'[q])
  <2>1. CASE q = p
    BY <2>1, <1>1, <1>2 DEF LockOk
  <2>2. CASE q # p
    <3>1. loc'[q] = loc[q]
      BY <2>2 DEF Solo
    <3>2. i = j => i \notin Locked(loc[q])
      BY <1>1 DEF LockOk
    <3> QED BY <2>2, <3>1, <3>2, <1>1, <1>2 DEF LockOk
  <2> QED BY <2>1, <2>2
<1> QED BY <1>3 DEF LockOk

(* The contents of the cache stay right if they do not change.             *)
LEMMA MemKept ==
    ASSUME InodeInv, UNCHANGED dinode,
           \A i \in Inums : lock'[i] # NoCpu => lock[i] # NoCpu,
           \A i \in Inums : /\ mem'[i].valid = mem[i].valid /\ mem'[i].type = mem[i].type
                            /\ mem'[i].nlink = mem[i].nlink
    PROVE  MemOk'
<1>1. MemOk
  BY InvParts
<1> QED BY <1>1 DEF MemOk

(* The link count of inode j changes as its links do.                      *)
Balance(j) ==
    /\ Count(Links(dinode, ent, loc), j) \in Nat /\ Count(Links(dinode', ent', loc'), j) \in Nat
    /\ dinode'[j].nlink - Count(Links(dinode', ent', loc'), j)
         = dinode[j].nlink - Count(Links(dinode, ent, loc), j)

(* A step that frees no inode makes no orphans.                            *)
LEMMA NoneLost ==
    ASSUME Icache!Configuration, orphans \subseteq Inums, Icache!Forget,
           \A j \in Inums : dinode[j].type = "free" \/ dinode'[j].type # "free"
    PROVE  orphans' = orphans
<1>1. Icache!Freed = {}
  BY DEF Icache!Freed
<1>2. 0 \notin Inums
  BY DEF Icache!Configuration
<1> QED BY <1>1, <1>2 DEF Icache!Forget

(* Links stay counted if no inode is freed and all counts keep up.         *)
LEMMA LinksBalance ==
    ASSUME Icache!Configuration, InodeInv, Icache!Forget, dinode' \in [Inums -> Dinodes],
           \A j \in Inums : dinode[j].type = "free" \/ dinode'[j].type # "free",
           \A j \in Inums : Balance(j)
    PROVE  LinksOk'
<1>1. LinksOk /\ Typed
  BY InvParts
<1>2. orphans' = orphans /\ orphans \subseteq Inums
  BY <1>1, NoneLost DEF LinksOk
<1>3. ASSUME NEW j \in Inums
      PROVE  /\ Count(Links(dinode', ent', loc'), j) <= dinode'[j].nlink
             /\ Count(Links(dinode', ent', loc'), j) = dinode'[j].nlink <=> j \notin orphans
  <2>1. PICK c, c2, n, n2 : /\ c = Count(Links(dinode, ent, loc), j) /\ n = dinode[j].nlink
                            /\ c2 = Count(Links(dinode', ent', loc'), j) /\ n2 = dinode'[j].nlink
    OBVIOUS
  <2>2. n \in Nat /\ n2 \in Nat
    BY <2>1, <1>1 DEF Typed, Dinodes
  <2>3. c \in Nat /\ c2 \in Nat /\ n2 - c2 = n - c
    BY <2>1 DEF Balance
  <2>4. c <= n /\ (c = n <=> j \notin orphans)
    BY <2>1, <1>1 DEF LinksOk
  <2>5. c2 <= n2 /\ (c2 = n2 <=> c = n)
    BY <2>2, <2>3, <2>4
  <2> QED BY <2>1, <2>4, <2>5
<1> QED BY <1>2, <1>3 DEF LinksOk

(* A step that changes no inode and no directory, and goes on with the     *)
(* same pending link.                                                      *)
LEMMA QuietStep ==
    ASSUME Icache!Configuration, InodeInv, Icache!Forget, Typed', NEW p \in Procs, Solo(p),
           UNCHANGED <<dinode, ent>>,
           RefsOk', LockOk', MemOk', ProcOk(p)', Have(p)' \subseteq Reach(p),
           Pending(loc'[p]) = Pending(loc[p]),
           Fresh(loc[p]) => Fresh(loc'[p]) /\ loc'[p].ip = loc[p].ip
    PROVE  InodeInv'
<1>1. \A q \in Procs \ {p} : ProcOk(q)' /\ \A i \in Have(q)' : dinode'[i].type # "free"
  BY OthersStep DEF Confined, Gains
<1>2. AliveOk'
  <2>1. \A i \in Have(p)' : dinode'[i].type # "free"
    BY DEF Reach
  <2> QED BY <1>1, <2>1 DEF AliveOk
<1>3. LinksOk'
  <2>1. \A b \in Inums, m \in Plain : /\ ent'[b][m] = ent[b][m]
                                      /\ Up(dinode', ent', b, m) = Up(dinode, ent, b, m)
    BY DEF Up, IsDir
  <2>2. \A q \in Procs : Pending(loc'[q]) = Pending(loc[q])
    BY DEF Solo
  <2>3. ASSUME NEW i \in Inums
        PROVE  Balance(i)
    <3>1. /\ Count(Links(dinode, ent, loc), i) \in Nat /\ Count(Links(dinode', ent', loc'), i) \in Nat
          /\ Count(Links(dinode', ent', loc'), i) = Count(Links(dinode, ent, loc), i)
      BY <2>1, <2>2, LinksSame
    <3> QED BY <3>1 DEF Balance
  <2>4. /\ dinode' \in [Inums -> Dinodes]
        /\ \A j \in Inums : dinode[j].type = "free" \/ dinode'[j].type # "free"
    BY InvParts DEF Typed
  <2> QED BY <2>3, <2>4, LinksBalance
<1>4. DirsOk'
  <2>1. DirsOk
    BY InvParts
  <2>2. ASSUME NEW q \in Procs, Fresh(loc[q])
        PROVE  Fresh(loc'[q]) /\ loc'[q].ip = loc[q].ip
    BY <2>2 DEF Solo
  <2> QED BY <2>1, <2>2 DEF DirsOk
<1>5. TreeOk' /\ NoPair'
  BY InvParts DEF TreeOk, NoPair
<1> QED BY <1>1, <1>2, <1>3, <1>4, <1>5 DEF InodeInv

(* A panic for want of inodes.                                             *)
LEMMA PanicStep ==
    ASSUME Icache!Configuration, InodeInv, Icache!Forget, Icache!Panic("full")
    PROVE  InodeInv'
<1>1. UNCHANGED <<dinode, ent, mem, lock, cwd, file, loc>> /\ halted' = "full"
  BY DEF Icache!Panic
<1>2. Typed'
  BY <1>1, InvParts DEF Typed
<1>3. RefsOk' /\ LinksOk' /\ LockOk' /\ MemOk' /\ DirsOk' /\ TreeOk' /\ NoPair'
  <2>1. orphans' = orphans
    BY <1>1, InvParts, NoneLost DEF LinksOk
  <2> QED BY <2>1, <1>1, InvParts DEF RefsOk, LinksOk, LockOk, MemOk, DirsOk, TreeOk, NoPair
<1>4. AliveOk'
  BY <1>1, InvParts DEF AliveOk, Have
<1>5. \A p \in Procs : ProcOk(p)'
  BY <1>1, InvParts DEF ProcOk, CallOk, Alone, Have
<1> QED BY <1>2, <1>3, <1>4, <1>5 DEF InodeInv

(* The types of one process's variables.                                   *)
LEMMA LocFacts ==
    ASSUME InodeInv, NEW p \in Procs
    PROVE  /\ loc[p] \in LocType /\ cwd[p] \in Ptrs /\ file[p] \in Ptrs
           /\ loc[p].pc \in InodeLabels /\ loc[p].path \in Seq(Icache!Names) /\ loc[p].par \in BOOLEAN
           /\ loc[p].call \in Calls \cup {NoCall} /\ loc[p].k \in Afters
           /\ loc[p].ip \in Ptrs /\ loc[p].dp \in Ptrs /\ loc[p].old \in Ptrs /\ loc[p].tgt \in Ptrs
<1>1. loc[p] \in LocType /\ cwd[p] \in Ptrs /\ file[p] \in Ptrs
  BY InvParts DEF Typed
<1> QED BY <1>1 DEF LocType

(* p goes on with local variables s.                                       *)
LEMMA Goes ==
    ASSUME InodeInv, NEW p \in Procs, NEW s \in LocType, loc' = [loc EXCEPT ![p] = s]
    PROVE  /\ loc'[p] = s /\ loc' \in [Procs -> LocType]
           /\ \A q \in Procs \ {p} : loc'[q] = loc[q]
<1>1. loc \in [Procs -> LocType]
  BY InvParts DEF Typed
<1> QED BY <1>1

(* PutThen moves the inode in ip to tgt ...                                *)
LEMMA PutIp ==
    ASSUME NEW r \in LocType, NEW k \in Afters, NEW s, s = Icache!PutThen(r, "ip", k)
    PROVE  /\ s \in LocType /\ s.pc = "iput" /\ s.tgt = r.ip /\ s.ip = 0 /\ s.k = k
           /\ s.call = r.call /\ s.path = r.path /\ s.par = r.par /\ s.dp = r.dp /\ s.old = r.old
  BY DEF Icache!PutThen, LocType, InodeLabels, Ptrs

(* ... or the one in dp ...                                                *)
LEMMA PutDp ==
    ASSUME NEW r \in LocType, NEW k \in Afters, NEW s, s = Icache!PutThen(r, "dp", k)
    PROVE  /\ s \in LocType /\ s.pc = "iput" /\ s.tgt = r.dp /\ s.dp = 0 /\ s.k = k
           /\ s.call = r.call /\ s.path = r.path /\ s.par = r.par /\ s.ip = r.ip /\ s.old = r.old
  BY DEF Icache!PutThen, LocType, InodeLabels, Ptrs

(* ... or the one in old.                                                  *)
LEMMA PutOld ==
    ASSUME NEW r \in LocType, NEW k \in Afters, NEW s, s = Icache!PutThen(r, "old", k)
    PROVE  /\ s \in LocType /\ s.pc = "iput" /\ s.tgt = r.old /\ s.old = 0 /\ s.k = k
           /\ s.call = r.call /\ s.path = r.path /\ s.par = r.par /\ s.ip = r.ip /\ s.dp = r.dp
  BY DEF Icache!PutThen, LocType, InodeLabels, Ptrs

(* The local variables of an idle process.                                 *)
LEMMA IdleFacts ==
    /\ Icache!IdleLoc \in LocType /\ Icache!IdleLoc.pc = "idle" /\ Icache!IdleLoc.k = "idle"
    /\ Icache!IdleLoc.call = NoCall
    /\ Icache!IdleLoc.path = <<>> /\ Icache!IdleLoc.par = FALSE
    /\ Icache!IdleLoc.ip = 0 /\ Icache!IdleLoc.dp = 0 /\ Icache!IdleLoc.old = 0 /\ Icache!IdleLoc.tgt = 0
    /\ LocOk(Icache!IdleLoc)
<1>1. Icache!IdleLoc \in LocType
  BY DEF Icache!IdleLoc, LocType, InodeLabels, Afters, Ptrs, NoCall
<1>2. LocOk(Icache!IdleLoc)
  BY DEF Icache!IdleLoc, LocOk, Stage, Puts, NoIp, HasDp, HasOld, MayOld, HasName, Icache!DownPath
<1> QED BY <1>1, <1>2 DEF Icache!IdleLoc, NoCall

(***************************************************************************)
(* ilock, iput and idrop.                                                  *)
(***************************************************************************)

(* Where ilock goes on.                                                    *)
LEMMA LockLabels ==
    ASSUME NEW x \in DOMAIN Icache!Locks, NEW y, y = Icache!Locks[x]
    PROVE  \/ x = "namex" /\ y = "look"
           \/ x = "open" /\ y = "open_ip"
           \/ x = "create" /\ y = "create_dp"
           \/ x = "found" /\ y = "create_hit"
           \/ x = "new" /\ y = "create_new"
           \/ x = "link" /\ y = "link_ip"
           \/ x = "linkdp" /\ y = "link_dp"
           \/ x = "bad" /\ y = "link_undo"
           \/ x = "unlink" /\ y = "unlink_dp"
           \/ x = "victim" /\ y = "unlink_ip"
           \/ x = "chdir" /\ y = "chdir_ip"
  BY DEF Icache!Locks

(* A process has a reference to each inode in its variables.               *)
LEMMA Referenced ==
    ASSUME Icache!Configuration, InodeInv, NEW p \in Procs, NEW i \in Inums,
           i \in {loc[p].ip, loc[p].dp, loc[p].old, loc[p].tgt, cwd[p], file[p]}
    PROVE  mem[i].ref \in Nat /\ mem[i].ref >= 1
<1>1. PICK F : F = Refs(loc, cwd, file)
  OBVIOUS
<1>2. \E x \in RefCells : F[x] = i
  BY <1>1, RefContents
<1>3. DOMAIN F = RefCells
  BY <1>1, RefContents
<1>4. Count(F, i) \in Nat /\ Count(F, i) >= 1
  BY <1>2, <1>3, RefCellsFinite, CountPositive
<1> QED BY <1>1, <1>4, InvParts DEF RefsOk

(* ilock finds an inode that is not free, and locks it.                    *)
LEMMA IlockStep ==
    ASSUME Icache!Configuration, InodeInv, Icache!Forget, NEW p \in Procs, Icache!ilock(p)
    PROVE  InodeInv'
<1>1. PICK r : r = loc[p]
  OBVIOUS
<1>2. PICK i : i = r.ip
  OBVIOUS
<1>3. r.pc \in DOMAIN Icache!Locks /\ lock[i] = NoCpu /\ r \in LocType /\ LocOk(r) /\ CallOk(r, cwd[p])
  BY <1>1, <1>2, InvParts, LocFacts DEF Icache!ilock
<1>4. PICK y : y = Icache!Locks[r.pc]
  OBVIOUS
<1>5. \/ r.pc = "namex" /\ y = "look"
      \/ r.pc = "open" /\ y = "open_ip"
      \/ r.pc = "create" /\ y = "create_dp"
      \/ r.pc = "found" /\ y = "create_hit"
      \/ r.pc = "new" /\ y = "create_new"
      \/ r.pc = "link" /\ y = "link_ip"
      \/ r.pc = "linkdp" /\ y = "link_dp"
      \/ r.pc = "bad" /\ y = "link_undo"
      \/ r.pc = "unlink" /\ y = "unlink_dp"
      \/ r.pc = "victim" /\ y = "unlink_ip"
      \/ r.pc = "chdir" /\ y = "chdir_ip"
  BY <1>3, <1>4, LockLabels
<1>6. i \in Inums /\ i \in Have(p)
  <2>1. r.ip # 0
    BY <1>3, <1>5 DEF LocOk, Stage, Puts, NoIp
  <2> QED BY <2>1, <1>1, <1>2, LocFacts DEF Ptrs, Have, HaveOf, Others
<1>7. mem[i] \in Slots /\ dinode[i] \in Dinodes /\ dinode[i].type # "free"
  BY <1>6, InvParts DEF Typed, AliveOk
<1>8. /\ Icache!Loaded(i) \in Slots /\ Icache!Loaded(i).ref = mem[i].ref /\ Icache!Loaded(i).valid = TRUE
      /\ Icache!Loaded(i).type = dinode[i].type /\ Icache!Loaded(i).nlink = dinode[i].nlink
  BY <1>6, <1>7, InvParts DEF Icache!Loaded, Slots, Dinodes, MemOk
<1>9. mem[i].ref >= 1
  BY <1>1, <1>2, <1>6, Referenced
<1>10. /\ lock' = [lock EXCEPT ![i] = p] /\ mem' = [mem EXCEPT ![i] = Icache!Loaded(i)]
       /\ loc' = [loc EXCEPT ![p].pc = Icache!Locks[@]]
       /\ UNCHANGED <<dinode, ent, cwd, file, halted>>
  <2>1. ~(mem[i].ref < 1 \/ Icache!Loaded(i).type = "free")
    BY <1>7, <1>8, <1>9 DEF Slots
  <2> QED BY <2>1, <1>1, <1>2 DEF Icache!ilock
<1>11. PICK s : s = [r EXCEPT !.pc = y]
  OBVIOUS
<1>12. /\ s \in LocType /\ s.pc = y /\ s.tgt = r.tgt /\ s.ip = r.ip /\ s.k = r.k
       /\ s.call = r.call /\ s.path = r.path /\ s.par = r.par /\ s.dp = r.dp /\ s.old = r.old
  <2>1. y \in InodeLabels
    BY <1>5 DEF InodeLabels
  <2> QED BY <2>1, <1>3, <1>11 DEF LocType
<1>13. loc' = [loc EXCEPT ![p] = s]
  BY <1>1, <1>4, <1>10, <1>11
<1>14. /\ loc'[p] = s /\ loc' \in [Procs -> LocType] /\ Solo(p)
  BY <1>10, <1>12, <1>13, Goes DEF Solo
<1>15. Typed'
  BY <1>8, <1>10, <1>14, InvParts DEF Typed
<1>16. RefsOk'
  <2>1. \A j \in Inums : mem'[j].ref = mem[j].ref
    BY <1>8, <1>10, InvParts DEF Typed
  <2>2. \A j \in Inums : Uses(s, cwd'[p], file'[p], j) = Uses(r, cwd[p], file[p], j)
    BY <1>10, <1>12 DEF Uses
  <2> QED BY <2>1, <2>2, <1>1, <1>14, <1>15, RefsStep
<1>17. LockOk'
  <2>1. Locked(s) = Locked(r) \cup {i}
    BY <1>2, <1>5, <1>12 DEF Locked, Stage, Puts, LockedIp, HasDp
  <2> QED BY <2>1, <1>1, <1>3, <1>6, <1>10, <1>14, LocksTaken
<1>18. MemOk'
  <2>1. MemOk /\ mem \in [Inums -> Slots] /\ lock \in [Inums -> Procs \cup {NoCpu}]
    BY InvParts DEF Typed
  <2>2. \A j \in Inums : mem'[j] = IF j = i THEN Icache!Loaded(i) ELSE mem[j]
    BY <2>1, <1>10
  <2>3. \A j \in Inums : j # i => lock'[j] = lock[j]
    BY <2>1, <1>10
  <2> QED BY <2>1, <2>2, <2>3, <1>7, <1>8, <1>10 DEF MemOk
<1>19. LocOk(s)
  BY <1>3, <1>5, <1>12 DEF LocOk, Stage, Puts, NoIp, HasDp, HasOld, MayOld, HasName
<1>20. CallOk(s, cwd[p])
  BY <1>3, <1>5, <1>12 DEF CallOk, Stage, Puts, Fresh, DirIp
<1>21. Fresh(s) <=> Fresh(r)
  BY <1>5, <1>12 DEF Fresh
<1>22. Have(p)' = Have(p)
  BY <1>1, <1>5, <1>10, <1>12, <1>14 DEF Have, HaveOf, Others
<1>23. Alone(p)'
  <2>1. Alone(p) /\ s.pc # "ifree"
    BY <1>5, <1>12, InvParts
  <2>2. \A q \in Procs \ {p} : Have(q)' = Have(q)
    BY <1>14 DEF Solo, Have
  <2> QED BY <2>1, <2>2, <1>1, <1>12, <1>14, <1>21 DEF Alone
<1>24. ProcOk(p)'
  BY <1>10, <1>14, <1>19, <1>20, <1>23 DEF ProcOk, CallOk
<1>25. Pending(s) = Pending(r)
  BY <1>5, <1>12 DEF Pending, Stage, Puts
<1> QED BY <1>1, <1>10, <1>12, <1>14, <1>15, <1>16, <1>17, <1>18, <1>21, <1>22, <1>24, <1>25,
           HaveReach, QuietStep

(* A quiet step after which p has no inode to itself.                      *)
LEMMA CalmStep ==
    ASSUME Icache!Configuration, InodeInv, Icache!Forget, NEW p \in Procs,
           NEW s \in LocType, loc' = [loc EXCEPT ![p] = s],
           UNCHANGED <<dinode, ent, halted>>,
           cwd' \in [Procs -> Ptrs], file' \in [Procs -> Ptrs],
           \A q \in Procs \ {p} : cwd'[q] = cwd[q] /\ file'[q] = file[q],
           mem' \in [Inums -> Slots], lock' \in [Inums -> Procs \cup {NoCpu}], MemOk', LockOk',
           \A i \in Inums : mem'[i].ref - Uses(s, cwd'[p], file'[p], i)
                              = mem[i].ref - Uses(loc[p], cwd[p], file[p], i),
           LocOk(s), CallOk(s, cwd'[p]), ~Fresh(s), s.pc # "ifree", ~Fresh(loc[p]),
           HaveOf(s, cwd'[p], file'[p]) \subseteq Reach(p), Pending(s) = Pending(loc[p])
    PROVE  InodeInv'
<1>1. loc'[p] = s /\ loc' \in [Procs -> LocType] /\ Solo(p)
  BY Goes DEF Solo
<1>2. Typed'
  BY <1>1, InvParts DEF Typed
<1>3. RefsOk'
  BY <1>1, <1>2, RefsStep
<1>4. ProcOk(p)'
  BY <1>1 DEF ProcOk, CallOk, Alone
<1>5. Have(p)' \subseteq Reach(p)
  BY <1>1 DEF Have
<1> QED BY <1>1, <1>2, <1>3, <1>4, <1>5, QuietStep

(* One more reference to j.                                                *)
LEMMA IgetFacts ==
    ASSUME InodeInv, NEW j \in Inums, mem' = Icache!iget(mem, j)
    PROVE  /\ mem' \in [Inums -> Slots]
           /\ \A i \in Inums : /\ mem'[i].valid = mem[i].valid /\ mem'[i].type = mem[i].type
                               /\ mem'[i].nlink = mem[i].nlink
                               /\ mem'[i].ref = mem[i].ref + Is(j, i)
<1>1. mem \in [Inums -> Slots]
  BY InvParts DEF Typed
<1>2. PICK m \in Slots : m = mem[j]
  BY <1>1
<1>3. PICK n : n = [m EXCEPT !.ref = @ + 1]
  OBVIOUS
<1>4. n \in Slots /\ n.ref = m.ref + 1 /\ n.valid = m.valid /\ n.type = m.type /\ n.nlink = m.nlink
  BY <1>2, <1>3 DEF Slots
<1>5. mem' = [mem EXCEPT ![j] = n]
  BY <1>1, <1>2, <1>3 DEF Icache!iget
<1>6. \A i \in Inums : mem'[i] = IF i = j THEN n ELSE mem[i]
  BY <1>1, <1>5
<1>7. \A i \in Inums : mem[i].ref \in Nat
  BY <1>1 DEF Slots
<1> QED BY <1>1, <1>2, <1>4, <1>5, <1>6, <1>7 DEF Is

(* An inode with one reference is in one variable.                         *)
LEMMA SoleUse ==
    ASSUME Icache!Configuration, InodeInv, NEW p \in Procs, NEW i \in Inums, mem[i].ref = 1, loc[p].tgt = i
    PROVE  /\ i \notin {loc[p].ip, loc[p].dp, loc[p].old, cwd[p], file[p]}
           /\ \A q \in Procs \ {p} :
                 i \notin {loc[q].ip, loc[q].dp, loc[q].old, loc[q].tgt, cwd[q], file[q]}
<1>1. PICK F : F = Refs(loc, cwd, file)
  OBVIOUS
<1>2. Count(F, i) = 1 /\ DOMAIN F = RefCells /\ Cell(p, "tgt") \in RefCells /\ F[Cell(p, "tgt")] = i
  BY <1>1, InvParts, RefContents DEF RefsOk
<1>3. \A x \in RefCells : F[x] = i => x = Cell(p, "tgt")
  BY <1>2, RefCellsFinite, CountOne
<1>4. \A q \in Procs, v \in {"ip", "dp", "old", "tgt", "cwd", "file"} :
          Cell(q, v) = Cell(p, "tgt") => q = p /\ v = "tgt"
  BY DEF Cell
<1>5. \A q \in Procs :
         /\ Cell(q, "ip") \in RefCells /\ F[Cell(q, "ip")] = loc[q].ip
         /\ Cell(q, "dp") \in RefCells /\ F[Cell(q, "dp")] = loc[q].dp
         /\ Cell(q, "old") \in RefCells /\ F[Cell(q, "old")] = loc[q].old
         /\ Cell(q, "tgt") \in RefCells /\ F[Cell(q, "tgt")] = loc[q].tgt
         /\ Cell(q, "cwd") \in RefCells /\ F[Cell(q, "cwd")] = cwd[q]
         /\ Cell(q, "file") \in RefCells /\ F[Cell(q, "file")] = file[q]
  BY <1>1, RefContents
<1> QED BY <1>3, <1>4, <1>5

(* iput locks the inode if it is to be freed, and then nobody else has it. *)
LEMMA IputStep ==
    ASSUME Icache!Configuration, InodeInv, Icache!Forget, NEW p \in Procs, Icache!iput(p)
    PROVE  InodeInv'
<1>1. PICK r : r = loc[p]
  OBVIOUS
<1>2. PICK i : i = r.tgt
  OBVIOUS
<1>3. r.pc = "iput" /\ lock[i] = NoCpu /\ r \in LocType /\ LocOk(r) /\ CallOk(r, cwd[p])
  BY <1>1, <1>2, InvParts, LocFacts DEF Icache!iput, Icache!At
<1>4. i \in Inums /\ i \in Have(p)
  <2>1. r.tgt # 0
    BY <1>3 DEF LocOk, Puts
  <2> QED BY <2>1, <1>1, <1>2, <1>3, LocFacts DEF Ptrs, Have, HaveOf
<1>5. UNCHANGED <<dinode, ent, mem, cwd, file, halted>>
  BY DEF Icache!iput
<1>6. /\ mem \in [Inums -> Slots] /\ lock \in [Inums -> Procs \cup {NoCpu}]
      /\ cwd \in [Procs -> Ptrs] /\ file \in [Procs -> Ptrs]
  BY InvParts DEF Typed
<1>7. PICK s : s = [r EXCEPT !.pc = IF Icache!LastUse(i) THEN "ifree" ELSE "idrop"]
  OBVIOUS
<1>8. /\ s \in LocType /\ s.pc = (IF Icache!LastUse(i) THEN "ifree" ELSE "idrop")
      /\ s.tgt = r.tgt /\ s.ip = r.ip /\ s.k = r.k
      /\ s.call = r.call /\ s.path = r.path /\ s.par = r.par /\ s.dp = r.dp /\ s.old = r.old
  BY <1>3, <1>7 DEF LocType, InodeLabels
<1>9. loc' = [loc EXCEPT ![p] = s]
  BY <1>1, <1>2, <1>7 DEF Icache!iput
<1>10. LocOk(s)
  BY <1>3, <1>8 DEF LocOk, Stage, Puts, NoIp, HasDp, HasOld, MayOld, HasName
<1>11. ~Fresh(s) /\ ~Fresh(r) /\ Stage(s) = Stage(r) /\ Pending(s) = Pending(r)
  BY <1>3, <1>8 DEF Fresh, Stage, Puts, Pending
<1>12. \A j : Uses(s, cwd'[p], file'[p], j) = Uses(r, cwd[p], file[p], j)
  BY <1>5, <1>8 DEF Uses
<1>13. HaveOf(s, cwd[p], file[p]) \subseteq Have(p)
  BY <1>1, <1>3, <1>8 DEF Have, HaveOf, Others
<1>14. CASE ~Icache!LastUse(i)
  <2>1. lock' = lock
    BY <1>1, <1>2, <1>3, <1>6, <1>14 DEF Icache!iput
  <2>2. LockOk' /\ MemOk'
    <3>1. Locked(s) = Locked(r)
      BY <1>3, <1>8, <1>11, <1>14 DEF Locked
    <3>2. loc'[p] = s /\ Solo(p)
      BY <1>5, <1>8, <1>9, Goes DEF Solo
    <3>3. LockOk'
      BY <3>1, <3>2, <2>1, <1>1, LocksSame
    <3>4. MemOk'
      BY <2>1, <1>5, MemKept
    <3> QED BY <3>3, <3>4
  <2>3. CallOk(s, cwd'[p])
    BY <1>3, <1>5, <1>8, <1>11, <1>14 DEF CallOk
  <2> QED BY <1>1, <1>5, <1>6, <1>8, <1>9, <1>10, <1>11, <1>12, <1>13, <1>14, <2>1, <2>2, <2>3,
             HaveReach, CalmStep
<1>15. CASE Icache!LastUse(i)
  <2>1. lock' = [lock EXCEPT ![i] = p]
    BY <1>1, <1>2, <1>15 DEF Icache!iput
  <2>2. loc'[p] = s /\ loc' \in [Procs -> LocType] /\ Solo(p)
    BY <1>5, <1>8, <1>9, Goes DEF Solo
  <2>3. Typed'
    BY <1>4, <1>5, <1>6, <2>1, <2>2, InvParts DEF Typed
  <2>4. LockOk'
    <3>1. Locked(s) = Locked(r) \cup {i}
      BY <1>2, <1>3, <1>8, <1>11, <1>15 DEF Locked
    <3> QED BY <3>1, <2>1, <2>2, <1>1, <1>3, <1>4, LocksTaken
  <2>5. mem[i].valid /\ mem[i].nlink = 0 /\ mem[i].ref = 1
    BY <1>15 DEF Icache!LastUse
  <2>6. MemOk'
    <3>1. \A j \in Inums : lock'[j] = IF j = i THEN p ELSE lock[j]
      BY <1>6, <2>1
    <3> QED BY <3>1, <1>5, <2>5, InvParts DEF MemOk
  <2>7. RefsOk'
    BY <1>1, <1>5, <1>12, <2>2, <2>3, RefsStep
  <2>8. dinode[i].nlink = 0
    BY <1>4, <2>5, InvParts DEF MemOk
  <2>9. CallOk(s, cwd[p])
    BY <1>2, <1>3, <1>8, <1>11, <2>8 DEF CallOk
  <2>10. Alone(p)'
    <3>1. /\ i \notin {r.ip, r.dp, r.old, cwd[p], file[p]}
          /\ \A q \in Procs \ {p} :
               i \notin {loc[q].ip, loc[q].dp, loc[q].old, loc[q].tgt, cwd[q], file[q]}
      BY <1>1, <1>2, <1>4, <2>5, SoleUse
    <3>2. \A q \in Procs \ {p} : i \notin Have(q)
      BY <3>1 DEF Have, HaveOf, Others
    <3>3. \A q \in Procs \ {p} : Have(q)' = Have(q)
      BY <2>2 DEF Solo, Have
    <3>4. i \notin Others(s, cwd'[p], file'[p])
      BY <3>1, <1>5, <1>8 DEF Others
    <3> QED BY <3>2, <3>3, <3>4, <2>2, <1>2, <1>8, <1>11 DEF Alone
  <2>11. ProcOk(p)'
    BY <1>5, <1>10, <2>2, <2>9, <2>10 DEF ProcOk, CallOk
  <2>12. Have(p)' \subseteq Reach(p)
    BY <1>5, <1>13, <2>2, HaveReach DEF Have
  <2> QED BY <1>1, <1>5, <1>11, <2>2, <2>3, <2>4, <2>6, <2>7, <2>11, <2>12, QuietStep
<1> QED BY <1>14, <1>15

(* The reference to i that idrop gives up.                                 *)
LEMMA DropFacts ==
    ASSUME Icache!Configuration, InodeInv, NEW p \in Procs,
           NEW i \in Inums, loc[p].tgt = i, loc[p].pc = "idrop",
           mem' = Icache!Dropped(i), UNCHANGED <<dinode, lock>>
    PROVE  /\ mem' \in [Inums -> Slots] /\ MemOk'
           /\ \A j \in Inums : mem'[j].ref = mem[j].ref - Is(i, j)
<1>1. mem \in [Inums -> Slots] /\ mem[i].ref \in Nat /\ mem[i].ref >= 1 /\ MemOk
  BY InvParts, Referenced DEF Typed
<1>2. PICK m \in Slots : m = mem[i]
  BY <1>1
<1>3. PICK n : n = IF m.ref = 1 THEN Icache!NoEntry ELSE [m EXCEPT !.ref = @ - 1]
  OBVIOUS
<1>4. /\ n \in Slots /\ n.ref = m.ref - 1
      /\ m.ref = 1 => n.valid = FALSE
      /\ m.ref # 1 => n.valid = m.valid /\ n.type = m.type /\ n.nlink = m.nlink
  <2>1. CASE m.ref = 1
    BY <2>1, <1>3 DEF Icache!NoEntry, Slots
  <2>2. CASE m.ref # 1
    BY <2>2, <1>1, <1>2, <1>3 DEF Slots
  <2> QED BY <2>1, <2>2
<1>5. mem' = [mem EXCEPT ![i] = n]
  BY <1>1, <1>2, <1>3 DEF Icache!Dropped
<1>6. \A j \in Inums : mem'[j] = IF j = i THEN n ELSE mem[j]
  BY <1>1, <1>5
<1>7. \A j \in Inums : mem[j].ref \in Nat
  BY <1>1 DEF Slots
<1>8. \A j \in Inums : mem'[j].ref = mem[j].ref - Is(i, j)
  BY <1>2, <1>4, <1>6, <1>7 DEF Is
<1>9. m.ref = 1 => lock[i] = NoCpu
  <2>1. SUFFICES ASSUME m.ref = 1, lock[i] # NoCpu PROVE FALSE
    OBVIOUS
  <2>2. PICK q \in Procs : lock[i] = q
    BY <2>1, InvParts DEF Typed
  <2>3. i \in Locked(loc[q])
    BY <2>2, InvParts DEF LockOk
  <2>4. /\ i \notin {loc[p].ip, loc[p].dp}
        /\ q # p => i \notin {loc[q].ip, loc[q].dp, loc[q].tgt}
    BY <1>2, <2>1, SoleUse
  <2> QED BY <2>3, <2>4 DEF Locked
<1>10. MemOk'
  BY <1>1, <1>2, <1>4, <1>6, <1>9 DEF MemOk
<1> QED BY <1>1, <1>4, <1>5, <1>8, <1>10

(* Where a process is after idrop.                                         *)
LEMMA ResumeFacts ==
    ASSUME NEW r \in LocType, LocOk(r), r.pc = "idrop", NEW s,
           s = (LET t == Icache!Resume([r EXCEPT !.tgt = 0]) IN IF t.pc = "idle" THEN Icache!IdleLoc ELSE t)
    PROVE  /\ s \in LocType
           /\ \/ s = Icache!IdleLoc /\ r.k \in {"idle", "fail"} /\ r.ip = 0 /\ r.dp = 0 /\ r.old = 0
              \/ /\ r.k = "fail" /\ r.ip = 0 /\ r.dp = 0 /\ r.old # 0
                 /\ s.pc = "bad" /\ s.k = "idle" /\ s.ip = r.old /\ s.dp = 0 /\ s.old = 0 /\ s.tgt = 0
                 /\ s.call = r.call /\ s.path = r.path /\ s.par = r.par
              \/ /\ r.k = "put_old" /\ r.ip = 0 /\ r.dp = 0 /\ r.old # 0
                 /\ s.pc = "iput" /\ s.k = "idle" /\ s.ip = 0 /\ s.dp = 0 /\ s.old = 0 /\ s.tgt = r.old
                 /\ s.call = r.call /\ s.path = r.path /\ s.par = r.par
              \/ /\ r.k = "namex" /\ r.path = <<>> /\ ~r.par /\ r.call.op \in {"open", "link", "chdir"}
                 /\ s.pc = r.call.op /\ s.k = "idle" /\ s.ip = r.ip /\ s.dp = r.dp /\ s.old = r.old
                 /\ s.tgt = 0 /\ s.call = r.call /\ s.path = r.path /\ s.par = r.par
              \/ /\ r.k \notin {"idle", "fail", "put_old"} /\ (r.k = "namex" => r.path # <<>>)
                 /\ s.pc = r.k /\ s.k = "idle" /\ s.ip = r.ip /\ s.dp = r.dp /\ s.old = r.old
                 /\ s.tgt = 0 /\ s.call = r.call /\ s.path = r.path /\ s.par = r.par
<1>1. PICK u : u = [r EXCEPT !.tgt = 0]
  OBVIOUS
<1>2. /\ u \in LocType /\ u.pc = r.pc /\ u.k = r.k /\ u.ip = r.ip /\ u.dp = r.dp /\ u.old = r.old
      /\ u.tgt = 0 /\ u.call = r.call /\ u.path = r.path /\ u.par = r.par
  BY <1>1 DEF LocType, Ptrs
<1>3. PICK t : t = Icache!Resume(u)
  OBVIOUS
<1>4. s = IF t.pc = "idle" THEN Icache!IdleLoc ELSE t
  BY <1>1, <1>3
<1>5. r.k \in Afters /\ Stage(r) = r.k /\ r.old \in Ptrs
  BY DEF LocType, Stage, Puts
<1>6. CASE r.k = "fail"
  <2>1. r.ip = 0 /\ r.dp = 0
    BY <1>5, <1>6 DEF LocOk, NoIp, HasDp
  <2>2. t = Icache!Fail(u)
    BY <1>2, <1>3, <1>6 DEF Icache!Resume
  <2>3. CASE r.old = 0
    BY <2>1, <2>2, <2>3, <1>2, <1>4, <1>6, IdleFacts DEF Icache!Fail
  <2>4. CASE r.old # 0
    <3>1. t = [u EXCEPT !.pc = "bad", !.ip = u.old, !.old = 0, !.k = "idle"]
      BY <2>2, <2>4, <1>2 DEF Icache!Fail
    <3>2. /\ t \in LocType /\ t.pc = "bad" /\ t.k = "idle" /\ t.ip = r.old /\ t.dp = r.dp /\ t.old = 0
          /\ t.tgt = 0 /\ t.call = r.call /\ t.path = r.path /\ t.par = r.par
      BY <3>1, <1>2, <1>5 DEF LocType, InodeLabels, Ptrs, Afters
    <3> QED BY <3>2, <2>1, <2>4, <1>4, <1>6
  <2> QED BY <2>3, <2>4
<1>7. CASE r.k = "put_old"
  <2>1. r.ip = 0 /\ r.dp = 0 /\ r.old # 0
    BY <1>5, <1>7 DEF LocOk, NoIp, HasDp, HasOld
  <2>2. t = Icache!PutThen(u, "old", "idle")
    BY <1>2, <1>3, <1>7 DEF Icache!Resume
  <2>3. "idle" \in Afters
    BY DEF Afters
  <2>4. /\ t \in LocType /\ t.pc = "iput" /\ t.tgt = u.old /\ t.old = 0 /\ t.k = "idle"
        /\ t.call = u.call /\ t.path = u.path /\ t.par = u.par /\ t.ip = u.ip /\ t.dp = u.dp
    BY <2>2, <2>3, <1>2, PutOld
  <2> QED BY <2>1, <2>4, <1>2, <1>4, <1>7
<1>8. CASE r.k = "namex" /\ r.path = <<>>
  <2>1. ~r.par /\ r.call.op \in {"open", "link", "chdir"}
    BY <1>5, <1>8 DEF LocOk, LocType
  <2>2. t = [u EXCEPT !.pc = u.call.op, !.k = "idle"]
    BY <1>2, <1>3, <1>8 DEF Icache!Resume
  <2>3. /\ t \in LocType /\ t.pc = r.call.op /\ t.k = "idle" /\ t.ip = r.ip /\ t.dp = r.dp
        /\ t.old = r.old /\ t.tgt = 0 /\ t.call = r.call /\ t.path = r.path /\ t.par = r.par
    BY <2>1, <2>2, <1>2 DEF LocType, InodeLabels, Afters
  <2> QED BY <2>1, <2>3, <1>4, <1>8
<1>9. CASE r.k \notin {"fail", "put_old"} /\ ~(r.k = "namex" /\ r.path = <<>>)
  <2>1. t = [u EXCEPT !.pc = u.k, !.k = "idle"]
    BY <1>2, <1>3, <1>9 DEF Icache!Resume
  <2>2. r.k \in InodeLabels
    BY <1>5, <1>9 DEF Afters, InodeLabels
  <2>3. /\ t \in LocType /\ t.pc = r.k /\ t.k = "idle" /\ t.ip = r.ip /\ t.dp = r.dp
        /\ t.old = r.old /\ t.tgt = 0 /\ t.call = r.call /\ t.path = r.path /\ t.par = r.par
    BY <2>1, <2>2, <1>2 DEF LocType, Afters
  <2>4. CASE r.k = "idle"
    <3>1. r.ip = 0 /\ r.dp = 0 /\ r.old = 0
      BY <1>5, <2>4 DEF LocOk, NoIp, HasDp, MayOld
    <3> QED BY <3>1, <2>3, <2>4, <1>4, IdleFacts
  <2>5. CASE r.k # "idle"
    BY <2>3, <2>5, <1>4, <1>9
  <2> QED BY <2>4, <2>5
<1> QED BY <1>6, <1>7, <1>8, <1>9

(* idrop gives the reference up and goes on with the call.                 *)
LEMMA IdropStep ==
    ASSUME Icache!Configuration, InodeInv, Icache!Forget, NEW p \in Procs, Icache!idrop(p)
    PROVE  InodeInv'
<1>1. PICK r : r = loc[p]
  OBVIOUS
<1>2. PICK i : i = r.tgt
  OBVIOUS
<1>3. r.pc = "idrop" /\ r \in LocType /\ LocOk(r) /\ CallOk(r, cwd[p])
  BY <1>1, InvParts, LocFacts DEF Icache!idrop, Icache!At
<1>4. i \in Inums
  BY <1>1, <1>2, <1>3, LocFacts DEF Ptrs, LocOk, Puts
<1>5. UNCHANGED <<dinode, ent, lock, cwd, file, halted>> /\ mem' = Icache!Dropped(i)
  BY <1>1, <1>2 DEF Icache!idrop
<1>6. /\ lock \in [Inums -> Procs \cup {NoCpu}]
      /\ cwd \in [Procs -> Ptrs] /\ file \in [Procs -> Ptrs]
  BY InvParts DEF Typed
<1>7. /\ mem' \in [Inums -> Slots] /\ MemOk'
      /\ \A j \in Inums : mem'[j].ref = mem[j].ref - Is(i, j)
  BY <1>1, <1>2, <1>3, <1>4, <1>5, DropFacts
<1>8. PICK s : s = (LET t == Icache!Resume([r EXCEPT !.tgt = 0]) IN IF t.pc = "idle" THEN Icache!IdleLoc ELSE t)
  OBVIOUS
<1>9. loc' = [loc EXCEPT ![p] = s]
  BY <1>1, <1>8 DEF Icache!idrop, Icache!Set
<1>10. /\ s \in LocType
       /\ \/ s = Icache!IdleLoc /\ r.k \in {"idle", "fail"} /\ r.ip = 0 /\ r.dp = 0 /\ r.old = 0
          \/ /\ r.k = "fail" /\ r.ip = 0 /\ r.dp = 0 /\ r.old # 0
             /\ s.pc = "bad" /\ s.k = "idle" /\ s.ip = r.old /\ s.dp = 0 /\ s.old = 0 /\ s.tgt = 0
             /\ s.call = r.call /\ s.path = r.path /\ s.par = r.par
          \/ /\ r.k = "put_old" /\ r.ip = 0 /\ r.dp = 0 /\ r.old # 0
             /\ s.pc = "iput" /\ s.k = "idle" /\ s.ip = 0 /\ s.dp = 0 /\ s.old = 0 /\ s.tgt = r.old
             /\ s.call = r.call /\ s.path = r.path /\ s.par = r.par
          \/ /\ r.k = "namex" /\ r.path = <<>> /\ ~r.par /\ r.call.op \in {"open", "link", "chdir"}
             /\ s.pc = r.call.op /\ s.k = "idle" /\ s.ip = r.ip /\ s.dp = r.dp /\ s.old = r.old
             /\ s.tgt = 0 /\ s.call = r.call /\ s.path = r.path /\ s.par = r.par
          \/ /\ r.k \notin {"idle", "fail", "put_old"} /\ (r.k = "namex" => r.path # <<>>)
             /\ s.pc = r.k /\ s.k = "idle" /\ s.ip = r.ip /\ s.dp = r.dp /\ s.old = r.old
             /\ s.tgt = 0 /\ s.call = r.call /\ s.path = r.path /\ s.par = r.par
  BY <1>3, <1>8, ResumeFacts
<1>11. r.k \in Afters /\ Stage(r) = r.k
  BY <1>3 DEF LocType, Stage, Puts
<1>12. LocOk(s)
  BY <1>3, <1>10, <1>11, IdleFacts
     DEF LocOk, Stage, Puts, NoIp, HasDp, HasOld, MayOld, HasName, Afters
<1>13. CallOk(s, cwd[p])
  BY <1>3, <1>10, <1>11, IdleFacts DEF CallOk, Stage, Puts, Fresh, DirIp, Afters
<1>14. ~Fresh(s) /\ ~Fresh(r) /\ s.pc # "ifree" /\ Pending(s) = Pending(r)
  BY <1>3, <1>10, <1>11, IdleFacts DEF Fresh, Stage, Puts, Pending, Afters
<1>15. \A j \in Inums : Uses(s, cwd[p], file[p], j) = Uses(r, cwd[p], file[p], j) - Is(i, j)
  <2>1. \A j \in Inums : j # 0
    BY DEF Icache!Configuration
  <2> QED BY <2>1, <1>2, <1>10, IdleFacts DEF Uses, Is
<1>16. HaveOf(s, cwd[p], file[p]) \subseteq Have(p)
  BY <1>1, <1>3, <1>10, <1>11, IdleFacts DEF Have, HaveOf, Others, Afters
<1>17. LockOk'
  <2>1. Locked(s) = Locked(r)
    BY <1>3, <1>10, <1>11, IdleFacts DEF Locked, Stage, Puts, LockedIp, HasDp, Afters
  <2>2. loc'[p] = s /\ Solo(p)
    BY <1>5, <1>9, <1>10, Goes DEF Solo
  <2> QED BY <2>1, <2>2, <1>1, <1>5, LocksSame
<1>18. \A j \in Inums : mem'[j].ref - Uses(s, cwd'[p], file'[p], j)
                          = mem[j].ref - Uses(loc[p], cwd[p], file[p], j)
  <2>1. \A j \in Inums : mem[j].ref \in Nat /\ Is(i, j) \in Nat /\ Uses(r, cwd[p], file[p], j) \in Nat
    BY InvParts DEF Typed, Slots, Is, Uses
  <2> QED BY <2>1, <1>1, <1>5, <1>7, <1>15
<1> QED BY <1>1, <1>5, <1>6, <1>7, <1>9, <1>10, <1>12, <1>13, <1>14, <1>16, <1>17, <1>18,
           HaveReach, CalmStep

(***************************************************************************)
(* The ends of the calls.                                                  *)
(***************************************************************************)

(* iunlockput of ip, and then whatever comes next.                         *)
LEMMA PutIpStep ==
    ASSUME Icache!Configuration, InodeInv, Icache!Forget, NEW p \in Procs,
           NEW r, r = loc[p], NEW k \in Afters, NEW s,
           s = Icache!PutThen(r, "ip", k), Icache!Set(p, s), Icache!Unlock(r.ip),
           UNCHANGED <<dinode, ent, mem, cwd, file, halted>>,
           r.pc \in LockedIp, ~Fresh(r), LocOk(s), CallOk(s, cwd[p]), Pending(s) = Pending(r),
           Locked(s) = Locked(r) \ {r.ip}
    PROVE  InodeInv'
<1>1. r \in LocType /\ LocOk(r)
  BY InvParts, LocFacts
<1>2. /\ s \in LocType /\ s.pc = "iput" /\ s.tgt = r.ip /\ s.ip = 0 /\ s.k = k
      /\ s.call = r.call /\ s.path = r.path /\ s.par = r.par /\ s.dp = r.dp /\ s.old = r.old
  BY <1>1, PutIp
<1>3. loc' = [loc EXCEPT ![p] = s]
  BY <1>2 DEF Icache!Set
<1>4. loc'[p] = s /\ Solo(p)
  BY <1>2, <1>3, Goes DEF Solo
<1>5. Stage(r) = r.pc /\ r.ip # 0 /\ r.tgt = 0 /\ r.ip \in Locked(r)
  BY <1>1 DEF LocOk, Stage, Puts, LockedIp, NoIp, Locked
<1>6. LockOk' /\ \A i \in Inums : lock'[i] # NoCpu => lock[i] # NoCpu
  BY <1>4, <1>5, LocksFreed DEF Icache!Unlock
<1>7. MemOk'
  BY <1>6, MemKept
<1>8. /\ mem \in [Inums -> Slots] /\ lock' \in [Inums -> Procs \cup {NoCpu}]
      /\ cwd \in [Procs -> Ptrs] /\ file \in [Procs -> Ptrs]
  BY InvParts DEF Typed, Icache!Unlock
<1>9. \A j \in Inums : Uses(s, cwd[p], file[p], j) = Uses(r, cwd[p], file[p], j)
  <2>1. \A j \in Inums : j # 0
    BY DEF Icache!Configuration
  <2> QED BY <2>1, <1>2, <1>5 DEF Uses, Is
<1>10. HaveOf(s, cwd[p], file[p]) \subseteq Have(p)
  BY <1>2, <1>5 DEF Have, HaveOf, Others
<1>11. ~Fresh(s) /\ s.pc # "ifree"
  BY <1>2 DEF Fresh
<1> QED BY <1>2, <1>3, <1>6, <1>7, <1>8, <1>9, <1>10, <1>11, HaveReach, CalmStep

(* iunlockput at the end of a call.                                        *)
LEMMA UnlockPutStep ==
    ASSUME Icache!Configuration, InodeInv, Icache!Forget, NEW p \in Procs,
           Icache!UnlockPut(p), UNCHANGED <<dinode, ent, mem, cwd, halted>>,
           loc[p].pc \in {"open_ip", "create_hit", "create_end", "link_ip", "unlink_dp", "chdir_ip"}
    PROVE  InodeInv'
<1>1. PICK r : r = loc[p]
  OBVIOUS
<1>2. r \in LocType /\ LocOk(r) /\ CallOk(r, cwd[p]) /\ "idle" \in Afters
  BY <1>1, InvParts, LocFacts DEF Afters
<1>3. PICK s : s = Icache!PutThen(r, "ip", "idle")
  OBVIOUS
<1>4. /\ s \in LocType /\ s.pc = "iput" /\ s.tgt = r.ip /\ s.ip = 0 /\ s.k = "idle"
      /\ s.call = r.call /\ s.path = r.path /\ s.par = r.par /\ s.dp = r.dp /\ s.old = r.old
  BY <1>2, <1>3, PutIp
<1>5. /\ r.pc \in {"open_ip", "create_hit", "create_end", "link_ip", "unlink_dp", "chdir_ip"}
      /\ Stage(r) = r.pc /\ r.pc \in LockedIp /\ ~Fresh(r) /\ r.dp = 0 /\ r.old = 0 /\ r.ip # 0
  BY <1>1, <1>2 DEF LocOk, Stage, Puts, LockedIp, Fresh, HasDp, MayOld, NoIp
<1>6. LocOk(s)
  BY <1>2, <1>4, <1>5 DEF LocOk, Stage, Puts, NoIp, HasDp, HasOld, MayOld, HasName
<1>7. CallOk(s, cwd[p])
  BY <1>2, <1>4, <1>5 DEF CallOk, Stage, Puts, Fresh, DirIp
<1>8. Pending(s) = Pending(r)
  BY <1>4, <1>5 DEF Pending, Stage, Puts
<1>9. Locked(s) = Locked(r) \ {r.ip}
  BY <1>4, <1>5 DEF Locked, Stage, Puts, LockedIp, HasDp
<1>10. Icache!Set(p, s) /\ Icache!Unlock(r.ip) /\ UNCHANGED file
  BY <1>1, <1>3 DEF Icache!UnlockPut
<1> QED BY <1>1, <1>2, <1>3, <1>5, <1>6, <1>7, <1>8, <1>9, <1>10, PutIpStep

(* The end of a call that leaves the process idle, its ip moved to a       *)
(* variable that outlives the call.                                        *)
LEMMA ToIdle ==
    ASSUME Icache!Configuration, InodeInv, Icache!Forget, NEW p \in Procs,
           NEW r, r = loc[p], Icache!Set(p, Icache!IdleLoc),
           UNCHANGED <<dinode, ent, mem, halted>>,
           cwd' \in [Procs -> Ptrs], file' \in [Procs -> Ptrs],
           \A q \in Procs \ {p} : cwd'[q] = cwd[q] /\ file'[q] = file[q],
           lock' \in [Inums -> Procs \cup {NoCpu}], LockOk',
           \A i \in Inums : lock'[i] # NoCpu => lock[i] # NoCpu,
           ~Fresh(r), r.dp = 0, r.old = 0, r.tgt = 0, r.ip # 0, Pending(r) = 0, cwd'[p] # 0,
           \/ cwd'[p] = cwd[p] /\ file[p] = 0 /\ file'[p] = r.ip
           \/ file'[p] = file[p] /\ cwd[p] = 0 /\ cwd'[p] = r.ip
    PROVE  InodeInv'
<1>1. Icache!IdleLoc \in LocType /\ LocOk(Icache!IdleLoc) /\ loc' = [loc EXCEPT ![p] = Icache!IdleLoc]
  BY IdleFacts DEF Icache!Set
<1>2. MemOk'
  BY MemKept
<1>3. \A j \in Inums : Uses(Icache!IdleLoc, cwd'[p], file'[p], j) = Uses(r, cwd[p], file[p], j)
  <2>1. \A j \in Inums : j # 0
    BY DEF Icache!Configuration
  <2> QED BY <2>1, IdleFacts DEF Uses, Is
<1>4. HaveOf(Icache!IdleLoc, cwd'[p], file'[p]) \subseteq Have(p)
  BY IdleFacts DEF Have, HaveOf, Others
<1>5. ~Fresh(Icache!IdleLoc) /\ Icache!IdleLoc.pc # "ifree" /\ Pending(Icache!IdleLoc) = 0
  BY IdleFacts DEF Fresh, Pending, Stage, Puts
<1>6. CallOk(Icache!IdleLoc, cwd'[p])
  BY IdleFacts DEF CallOk, Stage, Puts, Fresh, DirIp
<1>7. mem \in [Inums -> Slots]
  BY InvParts DEF Typed
<1> QED BY <1>1, <1>2, <1>3, <1>4, <1>5, <1>6, <1>7, HaveReach, CalmStep

(* A descriptor for ip, or iunlockput.                                     *)
LEMMA OpenedStep ==
    ASSUME Icache!Configuration, InodeInv, Icache!Forget, NEW p \in Procs,
           Icache!Opened(p), UNCHANGED <<dinode, ent, mem, cwd, halted>>,
           loc[p].pc \in {"open_ip", "create_hit", "create_end"}
    PROVE  InodeInv'
<1>1. PICK r : r = loc[p]
  OBVIOUS
<1>2. r \in LocType /\ LocOk(r) /\ CallOk(r, cwd[p])
  BY <1>1, InvParts, LocFacts
<1>3. /\ r.pc \in {"open_ip", "create_hit", "create_end"}
      /\ Stage(r) = r.pc /\ r.pc \in LockedIp /\ ~Fresh(r) /\ r.dp = 0 /\ r.old = 0 /\ r.ip # 0
      /\ r.tgt = 0
  BY <1>1, <1>2 DEF LocOk, Stage, Puts, LockedIp, Fresh, HasDp, MayOld, NoIp
<1>4. CASE file[p] # 0
  <2>1. Icache!UnlockPut(p)
    BY <1>4 DEF Icache!Opened, Icache!UnlockPut
  <2> QED BY <2>1, <1>1, <1>3, UnlockPutStep
<1>5. CASE file[p] = 0
  <2>1. Icache!Set(p, Icache!IdleLoc) /\ Icache!Unlock(r.ip) /\ file' = [file EXCEPT ![p] = r.ip]
    BY <1>1, <1>5 DEF Icache!Opened
  <2>2. /\ cwd \in [Procs -> Ptrs] /\ file' \in [Procs -> Ptrs] /\ r.ip \in Ptrs
        /\ lock' \in [Inums -> Procs \cup {NoCpu}]
        /\ file'[p] = r.ip /\ \A q \in Procs \ {p} : file'[q] = file[q]
    BY <2>1, <1>1, InvParts, LocFacts DEF Typed, Icache!Unlock
  <2>3. loc'[p] = Icache!IdleLoc /\ Solo(p)
    BY <2>1, <2>2, IdleFacts, Goes DEF Icache!Set, Solo
  <2>4. Locked(r) = {r.ip} /\ Locked(Icache!IdleLoc) = {}
    BY <1>3, IdleFacts DEF Locked, Stage, Puts, LockedIp, HasDp
  <2>5. LockOk' /\ \A i \in Inums : lock'[i] # NoCpu => lock[i] # NoCpu
    BY <2>1, <2>3, <2>4, <1>1, LocksFreed DEF Icache!Unlock
  <2>6. Pending(r) = 0 /\ cwd[p] # 0
    BY <1>2, <1>3 DEF Pending, CallOk
  <2> QED BY <1>1, <1>3, <1>5, <2>1, <2>2, <2>5, <2>6, ToIdle
<1> QED BY <1>4, <1>5

(* sys_open, create of an existing name and create of a new one.           *)
LEMMA OpenSteps ==
    ASSUME Icache!Configuration, InodeInv, Icache!Forget, NEW p \in Procs,
           Icache!sys_open(p) \/ Icache!create_hit(p) \/ Icache!create_end(p)
    PROVE  InodeInv'
<1>1. UNCHANGED <<dinode, ent, mem, cwd, halted>>
  BY DEF Icache!sys_open, Icache!create_hit, Icache!create_end
<1>2. loc[p].pc \in {"open_ip", "create_hit", "create_end"} /\ (Icache!UnlockPut(p) \/ Icache!Opened(p))
  BY DEF Icache!sys_open, Icache!create_hit, Icache!create_end, Icache!At
<1> QED BY <1>1, <1>2, UnlockPutStep, OpenedStep

(* sys_chdir, when the new directory is there.                             *)
LEMMA ChdirEndStep ==
    ASSUME Icache!Configuration, InodeInv, Icache!Forget, NEW p \in Procs, Icache!chdir_end(p)
    PROVE  InodeInv'
<1>1. PICK r : r = loc[p]
  OBVIOUS
<1>2. r \in LocType /\ LocOk(r) /\ CallOk(r, cwd[p]) /\ r.pc = "chdir_end"
  BY <1>1, InvParts, LocFacts DEF Icache!chdir_end, Icache!At
<1>3. /\ Stage(r) = r.pc /\ ~Fresh(r) /\ r.dp = 0 /\ r.old = 0 /\ r.ip # 0 /\ r.tgt = 0
      /\ Pending(r) = 0 /\ cwd[p] = 0
  BY <1>2 DEF LocOk, Stage, Puts, Fresh, HasDp, MayOld, NoIp, Pending, CallOk
<1>4. /\ Icache!Set(p, Icache!IdleLoc) /\ cwd' = [cwd EXCEPT ![p] = r.ip]
      /\ UNCHANGED <<dinode, ent, mem, lock, file, halted>>
  BY <1>1 DEF Icache!chdir_end
<1>5. /\ cwd' \in [Procs -> Ptrs] /\ file \in [Procs -> Ptrs] /\ lock \in [Inums -> Procs \cup {NoCpu}]
      /\ cwd'[p] = r.ip /\ \A q \in Procs \ {p} : cwd'[q] = cwd[q]
  BY <1>1, <1>4, InvParts, LocFacts DEF Typed
<1>6. loc'[p] = Icache!IdleLoc /\ Solo(p)
  BY <1>4, <1>5, IdleFacts, Goes DEF Icache!Set, Solo
<1>7. LockOk'
  <2>1. Locked(r) = Locked(Icache!IdleLoc)
    BY <1>2, <1>3, IdleFacts DEF Locked, Stage, Puts, LockedIp, HasDp
  <2> QED BY <2>1, <1>1, <1>4, <1>6, LocksSame
<1> QED BY <1>1, <1>3, <1>4, <1>5, <1>7, ToIdle

(* sys_chdir gives up the old directory.                                   *)
LEMMA ChdirStep ==
    ASSUME Icache!Configuration, InodeInv, Icache!Forget, NEW p \in Procs, Icache!sys_chdir(p)
    PROVE  InodeInv'
<1>1. PICK r : r = loc[p]
  OBVIOUS
<1>2. r \in LocType /\ LocOk(r) /\ CallOk(r, cwd[p]) /\ r.pc = "chdir_ip"
  BY <1>1, InvParts, LocFacts DEF Icache!sys_chdir, Icache!At
<1>3. /\ Stage(r) = r.pc /\ r.pc \in LockedIp /\ ~Fresh(r) /\ r.dp = 0 /\ r.old = 0 /\ r.ip # 0
      /\ r.tgt = 0 /\ Pending(r) = 0 /\ cwd[p] # 0
  BY <1>2 DEF LocOk, Stage, Puts, Fresh, HasDp, MayOld, NoIp, Pending, CallOk, LockedIp
<1>4. UNCHANGED <<dinode, ent, mem, halted>>
  BY DEF Icache!sys_chdir
<1>5. CASE mem[r.ip].type # "dir"
  <2>1. Icache!UnlockPut(p) /\ UNCHANGED cwd
    BY <1>1, <1>5 DEF Icache!sys_chdir
  <2> QED BY <2>1, <1>1, <1>2, <1>4, UnlockPutStep
<1>6. CASE mem[r.ip].type = "dir"
  <2>1. PICK s : s = [r EXCEPT !.pc = "iput", !.tgt = cwd[p], !.k = "chdir_end"]
    OBVIOUS
  <2>2. /\ Icache!Unlock(r.ip) /\ loc' = [loc EXCEPT ![p] = s] /\ cwd' = [cwd EXCEPT ![p] = 0]
        /\ UNCHANGED file
    BY <2>1, <1>1, <1>6 DEF Icache!sys_chdir
  <2>3. /\ s \in LocType /\ s.pc = "iput" /\ s.tgt = cwd[p] /\ s.ip = r.ip /\ s.k = "chdir_end"
        /\ s.call = r.call /\ s.path = r.path /\ s.par = r.par /\ s.dp = r.dp /\ s.old = r.old
    BY <2>1, <1>1, <1>2, LocFacts DEF LocType, InodeLabels, Afters
  <2>4. /\ cwd' \in [Procs -> Ptrs] /\ file \in [Procs -> Ptrs] /\ mem \in [Inums -> Slots]
        /\ lock' \in [Inums -> Procs \cup {NoCpu}]
        /\ cwd'[p] = 0 /\ \A q \in Procs \ {p} : cwd'[q] = cwd[q]
    BY <2>2, InvParts DEF Typed, Icache!Unlock, Ptrs
  <2>5. loc'[p] = s /\ Solo(p)
    BY <2>2, <2>3, <2>4, Goes DEF Solo
  <2>6. Locked(r) = {r.ip} /\ Locked(s) = {}
    BY <1>2, <1>3, <2>3 DEF Locked, Stage, Puts, LockedIp, HasDp
  <2>7. LockOk' /\ \A i \in Inums : lock'[i] # NoCpu => lock[i] # NoCpu
    BY <2>2, <2>5, <2>6, <1>1, LocksFreed DEF Icache!Unlock
  <2>8. MemOk'
    BY <2>7, <1>4, MemKept
  <2>9. LocOk(s)
    BY <1>2, <1>3, <2>3 DEF LocOk, Stage, Puts, NoIp, HasDp, HasOld, MayOld, HasName
  <2>10. CallOk(s, cwd'[p])
    BY <1>3, <2>3, <2>4 DEF CallOk, Stage, Puts, Fresh, DirIp
  <2>11. ~Fresh(s) /\ s.pc # "ifree" /\ Pending(s) = Pending(r)
    BY <1>3, <2>3 DEF Fresh, Pending, Stage, Puts
  <2>12. \A j \in Inums : Uses(s, cwd'[p], file[p], j) = Uses(r, cwd[p], file[p], j)
    <3>1. \A j \in Inums : j # 0
      BY DEF Icache!Configuration
    <3> QED BY <3>1, <1>3, <2>3, <2>4 DEF Uses, Is
  <2>13. HaveOf(s, cwd'[p], file[p]) \subseteq Have(p)
    BY <1>1, <1>3, <2>3, <2>4 DEF Have, HaveOf, Others
  <2> QED BY <1>1, <1>3, <1>4, <2>2, <2>3, <2>4, <2>7, <2>8, <2>9, <2>10, <2>11, <2>12, <2>13,
             HaveReach, CalmStep
<1> QED BY <1>5, <1>6

(* close gives up the file's inode.                                        *)
LEMMA CloseStep ==
    ASSUME Icache!Configuration, InodeInv, Icache!Forget, NEW p \in Procs, Icache!sys_close(p)
    PROVE  InodeInv'
<1>1. PICK r : r = loc[p]
  OBVIOUS
<1>2. r = Icache!IdleLoc /\ CallOk(r, cwd[p]) /\ file[p] # 0
  BY <1>1, InvParts DEF Icache!sys_close, Icache!At, LocOk
<1>3. PICK s : s = [Icache!IdleLoc EXCEPT !.pc = "iput", !.tgt = file[p]]
  OBVIOUS
<1>4. /\ s \in LocType /\ s.pc = "iput" /\ s.tgt = file[p] /\ s.ip = 0 /\ s.k = "idle"
      /\ s.call = NoCall /\ s.path = <<>> /\ s.par = FALSE /\ s.dp = 0 /\ s.old = 0
  BY <1>3, IdleFacts, LocFacts DEF LocType, InodeLabels
<1>5. /\ loc' = [loc EXCEPT ![p] = s] /\ file' = [file EXCEPT ![p] = 0]
      /\ UNCHANGED <<dinode, ent, mem, lock, cwd, halted>>
  BY <1>3, <1>4 DEF Icache!sys_close, Icache!Set
<1>6. /\ cwd \in [Procs -> Ptrs] /\ file' \in [Procs -> Ptrs] /\ mem \in [Inums -> Slots]
      /\ lock \in [Inums -> Procs \cup {NoCpu}]
      /\ file'[p] = 0 /\ \A q \in Procs \ {p} : file'[q] = file[q]
  BY <1>5, InvParts DEF Typed, Ptrs
<1>7. loc'[p] = s /\ Solo(p)
  BY <1>4, <1>5, <1>6, Goes DEF Solo
<1>8. LockOk' /\ MemOk'
  <2>1. Locked(s) = Locked(r)
    BY <1>2, <1>4, IdleFacts DEF Locked, Stage, Puts, LockedIp, HasDp
  <2>2. LockOk'
    BY <2>1, <1>1, <1>5, <1>7, LocksSame
  <2>3. MemOk'
    BY <1>5, MemKept
  <2> QED BY <2>2, <2>3
<1>9. LocOk(s)
  BY <1>2, <1>4 DEF LocOk, Stage, Puts, NoIp, HasDp, HasOld, MayOld, HasName, Icache!DownPath
<1>10. CallOk(s, cwd[p])
  BY <1>2, <1>4, IdleFacts DEF CallOk, Stage, Puts, Fresh, DirIp
<1>11. ~Fresh(s) /\ ~Fresh(r) /\ s.pc # "ifree" /\ Pending(s) = Pending(r)
  BY <1>2, <1>4, IdleFacts DEF Fresh, Pending, Stage, Puts
<1>12. \A j \in Inums : Uses(s, cwd[p], file'[p], j) = Uses(r, cwd[p], file[p], j)
  <2>1. \A j \in Inums : j # 0
    BY DEF Icache!Configuration
  <2> QED BY <2>1, <1>2, <1>4, <1>6, IdleFacts DEF Uses, Is
<1>13. HaveOf(s, cwd[p], file'[p]) \subseteq Have(p)
  BY <1>1, <1>2, <1>4, <1>6, IdleFacts DEF Have, HaveOf, Others
<1> QED BY <1>1, <1>4, <1>5, <1>6, <1>8, <1>9, <1>10, <1>11, <1>12, <1>13, HaveReach, CalmStep

(***************************************************************************)
(* Finding inodes.                                                         *)
(***************************************************************************)

(* Whatever has a link is within reach of everybody.                       *)
LEMMA LinkedReach ==
    ASSUME Icache!Configuration, InodeInv, NEW p \in Procs, NEW i \in Inums, dinode[i].nlink >= 1
    PROVE  i \in Reach(p)
<1>1. dinode[i].nlink # 0
  BY InvParts DEF Typed, Dinodes
<1>2. dinode[i].type # "free"
  BY <1>1, InvParts DEF MemOk
<1>3. ASSUME NEW q \in Procs
      PROVE  /\ Fresh(loc[q]) => loc[q].ip # i
             /\ loc[q].pc = "ifree" => loc[q].tgt # i
  BY <1>1, InvParts DEF CallOk
<1> QED BY <1>2, <1>3 DEF Reach

(* So is what a name leads to, and the root.                               *)
LEMMA NamedReach ==
    ASSUME Icache!Configuration, InodeInv, NEW p \in Procs
    PROVE  /\ \A d \in Inums, n \in Plain : ent[d][n] # 0 => ent[d][n] \in Inums /\ ent[d][n] \in Reach(p)
           /\ ROOTINO \in Inums /\ ROOTINO \in Reach(p)
<1>1. Typed /\ LinksOk
  BY InvParts
<1>2. \A d \in Inums, n \in Plain : ent[d][n] # 0 => ent[d][n] \in Inums
  BY <1>1 DEF Typed, Ptrs, Icache!Names
<1>3. \A d \in Inums, n \in Plain : ent[d][n] # 0 => dinode[ent[d][n]].nlink >= 1
  BY <1>1, LinkedCounted
<1>4. ROOTINO \in Inums /\ dinode[ROOTINO].nlink >= 1
  BY <1>1, LinkedCounted DEF Icache!Configuration
<1> QED BY <1>2, <1>3, <1>4, LinkedReach

(* A step that gets a reference to j, which p may reach, and unlocks ip or *)
(* nothing.                                                                *)
LEMMA GetStep ==
    ASSUME Icache!Configuration, InodeInv, Icache!Forget, NEW p \in Procs,
           NEW r, r = loc[p], NEW s \in LocType,
           loc' = [loc EXCEPT ![p] = s], NEW j \in Reach(p), mem' = Icache!iget(mem, j),
           UNCHANGED <<dinode, ent, cwd, file, halted>>,
           \/ lock' = lock /\ Locked(s) = Locked(r)
           \/ Icache!Unlock(r.ip) /\ r.ip \in Locked(r) /\ Locked(s) = Locked(r) \ {r.ip},
           LocOk(s), CallOk(s, cwd[p]), ~Fresh(s), s.pc # "ifree", ~Fresh(r), Pending(s) = Pending(r),
           \A i \in Inums : Uses(s, cwd[p], file[p], i) = Uses(r, cwd[p], file[p], i) + Is(j, i),
           HaveOf(s, cwd[p], file[p]) \subseteq Have(p) \cup {j}
    PROVE  InodeInv'
<1>1. j \in Inums
  BY DEF Reach
<1>2. /\ mem' \in [Inums -> Slots]
      /\ \A i \in Inums : /\ mem'[i].valid = mem[i].valid /\ mem'[i].type = mem[i].type
                          /\ mem'[i].nlink = mem[i].nlink
                          /\ mem'[i].ref = mem[i].ref + Is(j, i)
  BY <1>1, IgetFacts
<1>3. loc'[p] = s /\ Solo(p)
  BY Goes DEF Solo
<1>4. /\ lock \in [Inums -> Procs \cup {NoCpu}] /\ cwd \in [Procs -> Ptrs] /\ file \in [Procs -> Ptrs]
  BY InvParts DEF Typed
<1>5. LockOk' /\ \A i \in Inums : lock'[i] # NoCpu => lock[i] # NoCpu
  <2>1. CASE lock' = lock /\ Locked(s) = Locked(r)
    BY <2>1, <1>3, LocksSame
  <2>2. CASE Icache!Unlock(r.ip) /\ r.ip \in Locked(r) /\ Locked(s) = Locked(r) \ {r.ip}
    BY <2>2, <1>3, LocksFreed DEF Icache!Unlock
  <2> QED BY <2>1, <2>2
<1>6. lock' \in [Inums -> Procs \cup {NoCpu}]
  BY <1>4 DEF Icache!Unlock
<1>7. MemOk'
  BY <1>2, <1>5, MemKept
<1>8. HaveOf(s, cwd[p], file[p]) \subseteq Reach(p)
  BY HaveReach
<1>9. \A i \in Inums : mem'[i].ref - Uses(s, cwd'[p], file'[p], i)
                         = mem[i].ref - Uses(loc[p], cwd[p], file[p], i)
  <2>1. \A i \in Inums : mem[i].ref \in Nat /\ Is(j, i) \in Nat /\ Uses(r, cwd[p], file[p], i) \in Nat
    BY InvParts DEF Typed, Slots, Is, Uses
  <2> QED BY <2>1, <1>2
<1> QED BY <1>2, <1>4, <1>5, <1>6, <1>7, <1>8, <1>9, CalmStep

(* A step that unlocks i and gets nothing.                                 *)
LEMMA FreeStep ==
    ASSUME Icache!Configuration, InodeInv, Icache!Forget, NEW p \in Procs,
           NEW r, r = loc[p], NEW s \in LocType,
           loc' = [loc EXCEPT ![p] = s], UNCHANGED <<dinode, ent, mem, cwd, file, halted>>,
           NEW i, Icache!Unlock(i), i \in Locked(r), Locked(s) = Locked(r) \ {i},
           LocOk(s), CallOk(s, cwd[p]), ~Fresh(s), s.pc # "ifree", ~Fresh(r), Pending(s) = Pending(r),
           \A j \in Inums : Uses(s, cwd[p], file[p], j) = Uses(r, cwd[p], file[p], j),
           HaveOf(s, cwd[p], file[p]) \subseteq Have(p)
    PROVE  InodeInv'
<1>1. loc'[p] = s /\ Solo(p)
  BY Goes DEF Solo
<1>2. /\ lock \in [Inums -> Procs \cup {NoCpu}] /\ cwd \in [Procs -> Ptrs] /\ file \in [Procs -> Ptrs]
      /\ mem \in [Inums -> Slots]
  BY InvParts DEF Typed
<1>3. LockOk' /\ \A j \in Inums : lock'[j] # NoCpu => lock[j] # NoCpu
  BY <1>1, LocksFreed DEF Icache!Unlock
<1>4. lock' \in [Inums -> Procs \cup {NoCpu}]
  BY <1>2 DEF Icache!Unlock
<1>5. MemOk'
  BY <1>3, MemKept
<1> QED BY <1>2, <1>3, <1>4, <1>5, HaveReach, CalmStep

(* The rest of a downward path is a downward path.                         *)
LEMMA TailDown ==
    ASSUME NEW c, NEW path \in Seq(Icache!Names), path # <<>>, Icache!DownPath(c, path)
    PROVE  /\ Tail(path) \in Seq(Icache!Names) /\ Icache!DownPath(c, Tail(path))
           /\ Tail(path) = <<>> <=> Len(path) = 1
           /\ Head(path) = path[1] /\ path[1] \in Icache!Names
           /\ path[1] = ".." => c.op = "unlink" /\ Len(path) = 1
<1>1. PICK t : t = Tail(path)
  OBVIOUS
<1>2. t \in Seq(Icache!Names) /\ Len(t) = Len(path) - 1 /\ Len(path) \in Nat \ {0}
  BY <1>1
<1>3. \A j \in 1 .. Len(t) : t[j] = path[j + 1] /\ j + 1 \in 1 .. Len(path)
  BY <1>1, <1>2
<1>4. Icache!DownPath(c, t)
  BY <1>2, <1>3 DEF Icache!DownPath
<1>5. t = <<>> <=> Len(path) = 1
  BY <1>2
<1>6. path[1] = ".." => c.op = "unlink" /\ Len(path) = 1
  BY <1>2 DEF Icache!DownPath
<1>7. Head(path) = path[1] /\ path[1] \in Icache!Names
  BY <1>2
<1> QED BY <1>1, <1>2, <1>4, <1>5, <1>6, <1>7

(* A process at a label where ip is locked.                                *)
LEMMA LockedIpFacts ==
    ASSUME Icache!Configuration, InodeInv, NEW p \in Procs, NEW r, r = loc[p], r.pc \in LockedIp
    PROVE  /\ r \in LocType /\ LocOk(r) /\ CallOk(r, cwd[p]) /\ Stage(r) = r.pc /\ r.k = "idle"
           /\ r.tgt = 0 /\ r.ip \in Inums /\ r.ip \in Locked(r) /\ r.ip \in Have(p) /\ lock[r.ip] = p
           /\ mem[r.ip].valid /\ mem[r.ip].type = dinode[r.ip].type /\ mem[r.ip].nlink = dinode[r.ip].nlink
           /\ mem[r.ip].type # "free"
<1>1. r \in LocType /\ LocOk(r) /\ CallOk(r, cwd[p]) /\ r.ip \in Ptrs
  BY InvParts, LocFacts
<1>2. Stage(r) = r.pc /\ r.k = "idle" /\ r.tgt = 0 /\ r.ip # 0 /\ r.ip \in Locked(r)
  BY <1>1 DEF LockedIp, Stage, Puts, LocOk, NoIp, Locked
<1>3. r.ip \in Inums /\ r.ip \in Have(p)
  BY <1>1, <1>2 DEF Ptrs, Have, HaveOf, Others
<1>4. lock[r.ip] = p /\ lock[r.ip] # NoCpu
  <2>1. LockOk /\ NoCpu \notin Procs
    BY InvParts DEF Icache!Configuration
  <2>2. r.ip \in Locked(loc[p])
    BY <1>2
  <2> QED BY <2>1, <2>2, <1>3 DEF LockOk
<1>5. /\ mem[r.ip].valid /\ mem[r.ip].type = dinode[r.ip].type /\ mem[r.ip].nlink = dinode[r.ip].nlink
      /\ mem[r.ip].type # "free"
  BY <1>3, <1>4, InvParts DEF MemOk
<1> QED BY <1>1, <1>2, <1>3, <1>4, <1>5

(* One turn of namex's loop.                                               *)
LEMMA LookStep ==
    ASSUME Icache!Configuration, InodeInv, Icache!Forget, NEW p \in Procs, Icache!look(p)
    PROVE  InodeInv'
<1>1. PICK r : r = loc[p]
  OBVIOUS
<1>2. r.pc = "look" /\ r.pc \in LockedIp
  BY <1>1 DEF Icache!look, Icache!At, LockedIp
<1>3. /\ r \in LocType /\ LocOk(r) /\ CallOk(r, cwd[p]) /\ Stage(r) = r.pc /\ r.k = "idle"
      /\ r.tgt = 0 /\ r.ip \in Inums /\ r.ip \in Locked(r) /\ r.ip \in Have(p) /\ lock[r.ip] = p
      /\ mem[r.ip].type = dinode[r.ip].type
  BY <1>1, <1>2, LockedIpFacts
<1>4. /\ r.path \in Seq(Icache!Names) /\ r.path # <<>> /\ Icache!DownPath(r.call, r.path) /\ r.par \in BOOLEAN
      /\ r.ip # 0 /\ r.dp = 0
  BY <1>1, <1>2, <1>3, LocFacts DEF LocOk, HasName, NoIp, HasDp
<1>5. /\ Tail(r.path) \in Seq(Icache!Names) /\ Icache!DownPath(r.call, Tail(r.path))
      /\ Tail(r.path) = <<>> <=> Len(r.path) = 1
      /\ Head(r.path) = r.path[1] /\ r.path[1] \in Icache!Names
      /\ r.path[1] = ".." => r.call.op = "unlink" /\ Len(r.path) = 1
  BY <1>4, TailDown
<1>6. ~Fresh(r) /\ Locked(r) = {r.ip}
  BY <1>2, <1>3 DEF Fresh, Locked, LockedIp, HasDp
<1>7. \A j \in Inums : j # 0
  BY DEF Icache!Configuration
<1>8. /\ r.par => r.call.op \in {"create", "unlink"} \/ r.old # 0
      /\ ~r.par => r.call.op \in {"open", "link", "chdir"} /\ r.old = 0
  BY <1>2, <1>3 DEF LocOk
<1>9. PICK next : next = ent[r.ip][r.path[1]]
  OBVIOUS
<1>10. next \in Ptrs
  BY <1>3, <1>5, <1>9, InvParts DEF Typed
<1>11. CASE mem[r.ip].type = "dir" /\ ~(r.par /\ Len(r.path) = 1) /\ next # 0
  <2>1. next \in Inums /\ next \in Reach(p)
    <3>1. CASE r.path[1] \in Plain
      BY <3>1, <1>3, <1>9, <1>11, NamedReach
    <3>2. CASE r.path[1] = "."
      <4>1. next = r.ip
        BY <3>2, <1>3, <1>9, <1>11, InvParts DEF DirsOk
      <4> QED BY <4>1, <1>3, HaveReach
    <3>3. r.path[1] # ".."
      BY <1>4, <1>5, <1>8, <1>11
    <3> QED BY <3>1, <3>2, <3>3, <1>5 DEF Icache!Names
  <2>2. CASE Icache!NoSlot(next)
    <3>1. Icache!Panic("full")
      BY <2>2, <1>1, <1>4, <1>5, <1>9, <1>11 DEF Icache!look
    <3> QED BY <3>1, PanicStep
  <2>3. CASE ~Icache!NoSlot(next)
    <3>1. PICK s : s = [Icache!PutThen(r, "ip", "namex") EXCEPT !.ip = next, !.path = Tail(@)]
      OBVIOUS
    <3>2. PICK t : t = Icache!PutThen(r, "ip", "namex")
      OBVIOUS
    <3>3. /\ t \in LocType /\ t.pc = "iput" /\ t.tgt = r.ip /\ t.k = "namex"
          /\ t.call = r.call /\ t.path = r.path /\ t.par = r.par /\ t.dp = r.dp /\ t.old = r.old
      BY <1>3, <3>2, PutIp DEF Afters
    <3>4. /\ s \in LocType /\ s.pc = "iput" /\ s.tgt = r.ip /\ s.k = "namex" /\ s.ip = next
          /\ s.call = r.call /\ s.path = Tail(r.path) /\ s.par = r.par /\ s.dp = r.dp /\ s.old = r.old
      BY <3>1, <3>2, <3>3, <1>5, <1>10 DEF LocType
    <3>5. /\ mem' = Icache!iget(mem, next) /\ Icache!Set(p, s) /\ Icache!Unlock(r.ip)
          /\ UNCHANGED <<dinode, ent, cwd, file, halted>>
      BY <3>1, <2>3, <1>1, <1>4, <1>5, <1>9, <1>11 DEF Icache!look, Icache!Looked
    <3>6. loc' = [loc EXCEPT ![p] = s]
      BY <3>4, <3>5 DEF Icache!Set
    <3>7. Stage(s) = "namex" /\ Locked(s) = {} /\ ~Fresh(s)
      BY <3>4 DEF Stage, Puts, Locked, LockedIp, HasDp, Fresh
    <3>8. LocOk(s)
      BY <3>4, <3>7, <1>2, <1>3, <1>4, <1>5, <1>11 DEF LocOk, Puts, NoIp, HasDp, HasOld, MayOld, HasName
    <3>9. CallOk(s, cwd[p])
      BY <3>4, <3>7, <1>2, <1>3, <1>4 DEF CallOk, DirIp
    <3>10. Pending(s) = Pending(r)
      BY <3>4, <3>7, <1>2, <1>3 DEF Pending
    <3>11. \A i \in Inums : Uses(s, cwd[p], file[p], i) = Uses(r, cwd[p], file[p], i) + Is(next, i)
      BY <3>4, <1>3, <1>7 DEF Uses, Is
    <3>12. HaveOf(s, cwd[p], file[p]) \subseteq Have(p) \cup {next}
      BY <3>4, <1>1, <1>3, <1>4 DEF Have, HaveOf, Others
    <3>13. s.pc # "ifree" /\ Locked(s) = Locked(r) \ {r.ip}
      BY <3>4, <3>7, <1>6
    <3> QED BY <1>1, <1>3, <1>6, <2>1, <3>4, <3>5, <3>6, <3>7, <3>8, <3>9, <3>10, <3>11, <3>12, <3>13, GetStep
  <2> QED BY <2>2, <2>3
<1>12. CASE mem[r.ip].type = "dir" /\ r.par /\ Len(r.path) = 1
  <2>1. PICK y : y = IF r.old # 0 THEN "linkdp" ELSE r.call.op
    OBVIOUS
  <2>2. \/ y = "linkdp" /\ r.old # 0
        \/ y = r.call.op /\ y \in {"create", "unlink"} /\ r.old = 0
    BY <2>1, <1>8, <1>12
  <2>3. PICK s : s = [r EXCEPT !.pc = y]
    OBVIOUS
  <2>4. /\ s \in LocType /\ s.pc = y /\ s.tgt = r.tgt /\ s.ip = r.ip /\ s.k = r.k
        /\ s.call = r.call /\ s.path = r.path /\ s.par = r.par /\ s.dp = r.dp /\ s.old = r.old
    BY <2>2, <2>3, <1>3 DEF LocType, InodeLabels
  <2>5. /\ Icache!Set(p, s) /\ Icache!Unlock(r.ip) /\ UNCHANGED <<dinode, ent, mem, cwd, file, halted>>
    BY <2>1, <2>3, <1>1, <1>12 DEF Icache!look
  <2>6. loc' = [loc EXCEPT ![p] = s]
    BY <2>2, <2>4, <2>5 DEF Icache!Set
  <2>7. Stage(s) = y /\ Locked(s) = {} /\ ~Fresh(s) /\ s.pc # "ifree"
    BY <2>2, <2>4 DEF Stage, Puts, Locked, LockedIp, HasDp, Fresh
  <2>8. LocOk(s)
    BY <2>2, <2>4, <2>7, <1>2, <1>3, <1>4 DEF LocOk, Puts, NoIp, HasDp, HasOld, MayOld, HasName
  <2>9. CallOk(s, cwd[p])
    BY <2>2, <2>4, <2>7, <1>2, <1>3, <1>4, <1>12 DEF CallOk, DirIp
  <2>10. Pending(s) = Pending(r)
    BY <2>2, <2>4, <2>7, <1>2, <1>3 DEF Pending
  <2>11. \A i \in Inums : Uses(s, cwd[p], file[p], i) = Uses(r, cwd[p], file[p], i)
    BY <2>4 DEF Uses
  <2>12. HaveOf(s, cwd[p], file[p]) \subseteq Have(p)
    BY <2>2, <2>4, <1>1, <1>2 DEF Have, HaveOf, Others
  <2>13. Locked(s) = Locked(r) \ {r.ip}
    BY <2>7, <1>6
  <2> QED BY <1>1, <1>3, <1>6, <2>4, <2>5, <2>6, <2>7, <2>8, <2>9, <2>10, <2>11, <2>12, <2>13, FreeStep
<1>13. CASE /\ ~(mem[r.ip].type = "dir" /\ ~(r.par /\ Len(r.path) = 1) /\ next # 0)
            /\ ~(mem[r.ip].type = "dir" /\ r.par /\ Len(r.path) = 1)
  <2>1. PICK s : s = Icache!PutThen(r, "ip", "fail")
    OBVIOUS
  <2>2. "fail" \in Afters
    BY DEF Afters
  <2>3. /\ s \in LocType /\ s.pc = "iput" /\ s.tgt = r.ip /\ s.ip = 0 /\ s.k = "fail"
        /\ s.call = r.call /\ s.path = r.path /\ s.par = r.par /\ s.dp = r.dp /\ s.old = r.old
    BY <2>1, <2>2, <1>3, PutIp
  <2>4. /\ Icache!Set(p, s) /\ Icache!Unlock(r.ip) /\ UNCHANGED <<dinode, ent, mem, cwd, file, halted>>
    BY <2>1, <1>1, <1>4, <1>5, <1>9, <1>13 DEF Icache!look
  <2>5. Stage(s) = "fail" /\ Locked(s) = {} /\ ~Fresh(s)
    BY <2>3 DEF Stage, Puts, Locked, LockedIp, HasDp, Fresh
  <2>6. LocOk(s)
    BY <2>3, <2>5, <1>2, <1>3, <1>4 DEF LocOk, Puts, NoIp, HasDp, HasOld, MayOld, HasName
  <2>7. CallOk(s, cwd[p])
    BY <2>3, <2>5, <1>2, <1>3, <1>4 DEF CallOk, DirIp
  <2>8. Pending(s) = Pending(r)
    BY <2>3, <2>5, <1>2, <1>3 DEF Pending
  <2>9. Locked(s) = Locked(r) \ {r.ip}
    BY <2>5, <1>6
  <2> QED BY <1>1, <1>2, <1>6, <2>1, <2>2, <2>4, <2>6, <2>7, <2>8, <2>9, PutIpStep
<1> QED BY <1>11, <1>12, <1>13

(* dirlink found the name: the directory is unlocked and put.              *)
LEMMA LinkDupStep ==
    ASSUME Icache!Configuration, InodeInv, Icache!Forget, NEW p \in Procs, Icache!link_dup(p)
    PROVE  InodeInv'
<1>1. PICK r : r = loc[p]
  OBVIOUS
<1>2. r.pc = "link_dup" /\ r.pc \in LockedIp
  BY <1>1 DEF Icache!link_dup, Icache!At, LockedIp
<1>3. /\ r \in LocType /\ LocOk(r) /\ CallOk(r, cwd[p]) /\ Stage(r) = r.pc /\ r.ip # 0
  BY <1>1, <1>2, LockedIpFacts DEF Icache!Configuration
<1>4. ~Fresh(r) /\ Locked(r) = {r.ip} /\ r.dp = 0
  BY <1>2, <1>3 DEF Fresh, Locked, LockedIp, HasDp, LocOk
<1>5. PICK s : s = Icache!PutThen(r, "ip", "fail")
  OBVIOUS
<1>6. "fail" \in Afters
  BY DEF Afters
<1>7. /\ s \in LocType /\ s.pc = "iput" /\ s.tgt = r.ip /\ s.ip = 0 /\ s.k = "fail"
      /\ s.call = r.call /\ s.path = r.path /\ s.par = r.par /\ s.dp = r.dp /\ s.old = r.old
  BY <1>3, <1>5, <1>6, PutIp
<1>8. /\ Icache!Set(p, s) /\ Icache!Unlock(r.ip) /\ UNCHANGED <<dinode, ent, mem, cwd, file, halted>>
  BY <1>1, <1>5 DEF Icache!link_dup
<1>9. Stage(s) = "fail" /\ Locked(s) = {}
  BY <1>7 DEF Stage, Puts, Locked, LockedIp, HasDp
<1>10. LocOk(s)
  BY <1>2, <1>3, <1>7, <1>9, <1>4 DEF LocOk, Puts, NoIp, HasDp, HasOld, MayOld, HasName
<1>11. CallOk(s, cwd[p])
  BY <1>2, <1>3, <1>7, <1>9, <1>4 DEF CallOk, DirIp, Fresh
<1>12. Pending(s) = Pending(r)
  BY <1>2, <1>3, <1>7, <1>9 DEF Pending
<1>13. Locked(s) = Locked(r) \ {r.ip}
  BY <1>4, <1>9
<1> QED BY <1>1, <1>2, <1>4, <1>5, <1>6, <1>8, <1>10, <1>11, <1>12, <1>13, PutIpStep

(* sys_unlink of a directory that is not empty: the parent is unlocked and *)
(* put.                                                                    *)
LEMMA UnlinkBadStep ==
    ASSUME Icache!Configuration, InodeInv, Icache!Forget, NEW p \in Procs, Icache!unlink_bad(p)
    PROVE  InodeInv'
<1>1. PICK r : r = loc[p]
  OBVIOUS
<1>2. r \in LocType /\ LocOk(r) /\ CallOk(r, cwd[p]) /\ r.pc = "unlink_bad"
  BY <1>1, InvParts, LocFacts DEF Icache!unlink_bad, Icache!At
<1>3. /\ Stage(r) = r.pc /\ ~Fresh(r) /\ Locked(r) = {r.dp} /\ r.dp # 0 /\ r.ip = 0 /\ r.old = 0
      /\ r.tgt = 0
  BY <1>2 DEF Stage, Puts, Fresh, Locked, LockedIp, HasDp, LocOk, MayOld, NoIp
<1>4. PICK s : s = Icache!PutThen(r, "dp", "idle")
  OBVIOUS
<1>5. /\ s \in LocType /\ s.pc = "iput" /\ s.tgt = r.dp /\ s.dp = 0 /\ s.k = "idle"
      /\ s.call = r.call /\ s.path = r.path /\ s.par = r.par /\ s.ip = r.ip /\ s.old = r.old
  BY <1>2, <1>4, PutDp DEF Afters
<1>6. /\ loc' = [loc EXCEPT ![p] = s] /\ Icache!Unlock(r.dp)
      /\ UNCHANGED <<dinode, ent, mem, cwd, file, halted>>
  BY <1>1, <1>4, <1>5 DEF Icache!unlink_bad, Icache!Set
<1>7. Stage(s) = "idle" /\ Locked(s) = {} /\ ~Fresh(s) /\ s.pc # "ifree"
  BY <1>5 DEF Stage, Puts, Locked, LockedIp, HasDp, Fresh
<1>8. LocOk(s)
  BY <1>2, <1>3, <1>5, <1>7 DEF LocOk, Puts, NoIp, HasDp, HasOld, MayOld, HasName
<1>9. CallOk(s, cwd[p])
  BY <1>2, <1>3, <1>5, <1>7 DEF CallOk, DirIp
<1>10. Pending(s) = Pending(r)
  BY <1>2, <1>3, <1>5, <1>7 DEF Pending
<1>11. \A j \in Inums : Uses(s, cwd[p], file[p], j) = Uses(r, cwd[p], file[p], j)
  <2>1. \A j \in Inums : j # 0
    BY DEF Icache!Configuration
  <2> QED BY <2>1, <1>3, <1>5 DEF Uses, Is
<1>12. HaveOf(s, cwd[p], file[p]) \subseteq Have(p)
  BY <1>1, <1>3, <1>5 DEF Have, HaveOf, Others
<1>13. Locked(s) = Locked(r) \ {r.dp} /\ r.dp \in Locked(r)
  BY <1>3, <1>7
<1> QED BY <1>1, <1>3, <1>5, <1>6, <1>7, <1>8, <1>9, <1>10, <1>11, <1>12, <1>13, FreeStep

(* Where namex starts.                                                     *)
LEMMA FromReach ==
    ASSUME Icache!Configuration, InodeInv, NEW p \in Procs, NEW path, cwd[p] # 0
    PROVE  Icache!From(p, path) \in Inums /\ Icache!From(p, path) \in Reach(p)
<1>1. cwd[p] \in Have(p)
  BY DEF Have, HaveOf, Others
<1> QED BY <1>1, NamedReach, HaveReach DEF Icache!From, Reach

(* The beginning of namex.                                                 *)
LEMMA WalkFacts ==
    ASSUME NEW p, NEW r \in LocType, NEW path, Icache!Rest(path) \in Seq(Icache!Names), NEW par \in BOOLEAN,
           Icache!From(p, path) \in Inums, r.tgt = 0, r.k = "idle",
           ~par => r.call.op \in {"open", "link", "chdir"},
           NEW s, s = Icache!Walk(p, r, path, par)
    PROVE  /\ s \in LocType /\ s.call = r.call /\ s.dp = r.dp /\ s.old = r.old /\ s.par = par
           /\ s.path = Icache!Rest(path)
           /\ \/ s.pc = "namex" /\ s.k = "idle" /\ s.ip = Icache!From(p, path) /\ s.tgt = 0 /\ s.path # <<>>
              \/ s.pc = "iput" /\ s.k = "fail" /\ s.ip = 0 /\ s.tgt = Icache!From(p, path) /\ par
              \/ /\ s.pc = r.call.op /\ s.k = "idle" /\ s.ip = Icache!From(p, path) /\ s.tgt = 0
                 /\ s.path = <<>> /\ ~par
<1>1. PICK t : t = [r EXCEPT !.pc = "namex", !.ip = Icache!From(p, path), !.path = Icache!Rest(path), !.par = par]
  OBVIOUS
<1>2. /\ t \in LocType /\ t.call = r.call /\ t.dp = r.dp /\ t.old = r.old /\ t.par = par
      /\ t.path = Icache!Rest(path) /\ t.pc = "namex" /\ t.k = "idle"
      /\ t.ip = Icache!From(p, path) /\ t.tgt = 0
  BY <1>1 DEF LocType, InodeLabels, Ptrs
<1>3. CASE Icache!Rest(path) # <<>>
  <2>1. s = t
    BY <1>1, <1>3 DEF Icache!Walk
  <2> QED BY <2>1, <1>2, <1>3
<1>4. CASE Icache!Rest(path) = <<>> /\ par
  <2>1. s = Icache!PutThen(t, "ip", "fail")
    BY <1>1, <1>4 DEF Icache!Walk
  <2>2. "fail" \in Afters
    BY DEF Afters
  <2>3. /\ s \in LocType /\ s.pc = "iput" /\ s.tgt = t.ip /\ s.ip = 0 /\ s.k = "fail"
        /\ s.call = t.call /\ s.path = t.path /\ s.par = t.par /\ s.dp = t.dp /\ s.old = t.old
    BY <2>1, <2>2, <1>2, PutIp
  <2> QED BY <2>3, <1>2, <1>4
<1>5. CASE Icache!Rest(path) = <<>> /\ ~par
  <2>1. s = [t EXCEPT !.pc = r.call.op]
    BY <1>1, <1>5 DEF Icache!Walk
  <2>2. r.call.op \in InodeLabels
    BY <1>5 DEF InodeLabels
  <2>3. /\ s \in LocType /\ s.pc = r.call.op /\ s.tgt = t.tgt /\ s.ip = t.ip /\ s.k = t.k
        /\ s.call = t.call /\ s.path = t.path /\ s.par = t.par /\ s.dp = t.dp /\ s.old = t.old
    BY <2>1, <2>2, <1>2 DEF LocType
  <2> QED BY <2>3, <1>2, <1>5
<1> QED BY <1>3, <1>4, <1>5

(* A process makes a call.                                                 *)
LEMMA CallStep ==
    ASSUME Icache!Configuration, Icache!Downward, InodeInv, Icache!Forget, NEW p \in Procs,
           NEW c \in Calls, Icache!Call(p, c)
    PROVE  InodeInv'
<1>1. PICK r : r = loc[p]
  OBVIOUS
<1>2. r = Icache!IdleLoc /\ CallOk(r, cwd[p])
  BY <1>1, InvParts DEF Icache!Call, Icache!At, LocOk
<1>3. cwd[p] # 0
  BY <1>2, IdleFacts DEF CallOk, Stage, Puts
<1>4. PICK f : f = Icache!From(p, c.path)
  OBVIOUS
<1>5. f \in Inums /\ f \in Reach(p) /\ Icache!From(p, c.path) \in Inums
  BY <1>3, <1>4, FromReach
<1>6. Icache!WellFormed(c) /\ Icache!DownPath(c, Icache!Rest(c.path))
  BY DEF Icache!Configuration, Icache!Downward
<1>7. CASE Icache!NoSlot(f)
  <2>1. Icache!Panic("full")
    BY <1>4, <1>7 DEF Icache!Call
  <2> QED BY <2>1, PanicStep
<1>8. CASE ~Icache!NoSlot(f)
  <2>1. PICK par \in BOOLEAN : par = (c.op \in {"create", "unlink"})
    <3>1. (c.op \in {"create", "unlink"}) \in BOOLEAN
      OBVIOUS
    <3> QED BY <3>1
  <2>2. PICK u : u = [Icache!IdleLoc EXCEPT !.call = c]
    OBVIOUS
  <2>3. /\ u \in LocType /\ u.pc = "idle" /\ u.k = "idle" /\ u.call = c /\ u.path = <<>>
        /\ u.par = FALSE /\ u.ip = 0 /\ u.dp = 0 /\ u.old = 0 /\ u.tgt = 0
    BY <2>2, IdleFacts DEF LocType
  <2>4. PICK s : s = Icache!Walk(p, u, c.path, par)
    OBVIOUS
  <2>5. /\ Icache!Set(p, s) /\ mem' = Icache!iget(mem, f) /\ UNCHANGED <<dinode, ent, lock, cwd, file, halted>>
    BY <2>1, <2>2, <2>4, <1>4, <1>8 DEF Icache!Call
  <2>6. ~par => u.call.op \in {"open", "link", "chdir"}
    BY <2>1, <2>3, <1>6 DEF Icache!WellFormed
  <2>7. /\ s \in LocType /\ s.call = c /\ s.dp = 0 /\ s.old = 0 /\ s.par = par
        /\ s.path = Icache!Rest(c.path)
        /\ \/ s.pc = "namex" /\ s.k = "idle" /\ s.ip = f /\ s.tgt = 0 /\ s.path # <<>>
           \/ s.pc = "iput" /\ s.k = "fail" /\ s.ip = 0 /\ s.tgt = f /\ par
           \/ s.pc = c.op /\ s.k = "idle" /\ s.ip = f /\ s.tgt = 0 /\ s.path = <<>> /\ ~par
    <3>1. Icache!Rest(c.path) \in Seq(Icache!Names)
      BY <1>6 DEF Icache!WellFormed
    <3> QED BY <3>1, <2>3, <2>4, <2>6, <1>4, <1>5, WalkFacts
  <2>8. s.pc # "idle" /\ s.pc # "ifree" /\ ~Fresh(s)
    BY <2>3, <2>6, <2>7 DEF Fresh
  <2>9. loc' = [loc EXCEPT ![p] = s]
    BY <2>5, <2>8 DEF Icache!Set
  <2>10. f # 0
    BY <1>5 DEF Icache!Configuration
  <2>11. \/ s.pc = "namex" /\ Stage(s) = "namex"
         \/ s.pc = "iput" /\ Stage(s) = "fail"
         \/ s.pc = c.op /\ s.pc \in {"open", "link", "chdir"} /\ Stage(s) = s.pc
    BY <2>3, <2>6, <2>7 DEF Stage, Puts
  <2>12. LocOk(s)
    <3>1. par => c.op \in {"create", "unlink"}
      BY <2>1
    <3>2. Icache!DownPath(s.call, s.path)
      BY <2>7, <1>6
    <3> QED BY <3>1, <3>2, <2>3, <2>6, <2>7, <2>10, <2>11
        DEF LocOk, Puts, NoIp, HasDp, HasOld, MayOld, HasName
  <2>13. CallOk(s, cwd[p])
    BY <2>7, <2>8, <2>11, <1>3 DEF CallOk, DirIp
  <2>14. Pending(s) = Pending(r) /\ Locked(s) = Locked(r) /\ ~Fresh(r)
    BY <2>7, <2>8, <2>11, <1>2, IdleFacts DEF Pending, Locked, LockedIp, HasDp, Stage, Puts, Fresh
  <2>15. \A i \in Inums : Uses(s, cwd[p], file[p], i) = Uses(r, cwd[p], file[p], i) + Is(f, i)
    <3>1. \A j \in Inums : j # 0
      BY DEF Icache!Configuration
    <3> QED BY <3>1, <2>7, <1>2, IdleFacts DEF Uses, Is
  <2>16. HaveOf(s, cwd[p], file[p]) \subseteq Have(p) \cup {f}
    <3>1. s.dp = 0 /\ s.old = 0 /\ s.ip \in {0, f} /\ (s.pc \in {"iput", "ifree"} => s.tgt = f)
      BY <2>3, <2>6, <2>7
    <3>2. {cwd[p], file[p]} \ {0} \subseteq Have(p)
      BY DEF Have, HaveOf, Others
    <3> QED BY <3>1, <3>2 DEF HaveOf, Others
  <2> QED BY <1>1, <1>5, <2>5, <2>7, <2>8, <2>9, <2>12, <2>13, <2>14, <2>15, <2>16, GetStep
<1> QED BY <1>7, <1>8

(* dirlink finds the name and drops what it leads to.                      *)
LEMMA LinkFoundStep ==
    ASSUME Icache!Configuration, InodeInv, Icache!Forget, NEW p \in Procs,
           Icache!link_dp(p), ent[loc[p].ip][loc[p].path[1]] # 0
    PROVE  InodeInv'
<1>1. PICK r : r = loc[p]
  OBVIOUS
<1>2. r.pc = "link_dp" /\ r.pc \in LockedIp
  BY <1>1 DEF Icache!link_dp, Icache!At, LockedIp
<1>3. /\ r \in LocType /\ LocOk(r) /\ CallOk(r, cwd[p]) /\ Stage(r) = r.pc /\ r.k = "idle"
      /\ r.tgt = 0 /\ r.ip \in Inums /\ r.ip \in Locked(r) /\ r.ip \in Have(p)
  BY <1>1, <1>2, LockedIpFacts
<1>4. r.old # 0 /\ r.dp = 0 /\ r.path # <<>> /\ r.path \in Seq(Icache!Names) /\ r.call.op = "link"
  BY <1>1, <1>2, <1>3, LocFacts DEF LocOk, HasOld, HasDp, HasName
<1>5. /\ r.path[1] \in Icache!Names
      /\ r.path[1] = ".." => r.call.op = "unlink" /\ Len(r.path) = 1
  BY <1>3, <1>4, TailDown DEF LocOk
<1>6. ~Fresh(r) /\ Locked(r) = {r.ip}
  BY <1>2, <1>3 DEF Fresh, Locked, LockedIp, HasDp
<1>7. PICK found : found = ent[r.ip][r.path[1]]
  OBVIOUS
<1>8. found # 0 /\ found \in Ptrs
  BY <1>1, <1>3, <1>5, <1>7, InvParts DEF Typed
<1>9. found \in Inums /\ found \in Reach(p)
  <2>1. CASE r.path[1] \in Plain
    BY <2>1, <1>3, <1>7, <1>8, NamedReach
  <2>2. CASE r.path[1] = "."
    <3>1. found = r.ip
      BY <2>2, <1>3, <1>7, <1>8, InvParts DEF DirsOk
    <3> QED BY <3>1, <1>3, HaveReach
  <2> QED BY <2>1, <2>2, <1>4, <1>5 DEF Icache!Names
<1>10. CASE Icache!NoSlot(found)
  <2>1. Icache!Panic("full")
    BY <1>1, <1>7, <1>8, <1>10 DEF Icache!link_dp
  <2> QED BY <2>1, PanicStep
<1>11. CASE ~Icache!NoSlot(found)
  <2>1. PICK s : s = [r EXCEPT !.pc = "iput", !.tgt = found, !.k = "link_dup"]
    OBVIOUS
  <2>2. /\ s \in LocType /\ s.pc = "iput" /\ s.tgt = found /\ s.ip = r.ip /\ s.k = "link_dup"
        /\ s.call = r.call /\ s.path = r.path /\ s.par = r.par /\ s.dp = r.dp /\ s.old = r.old
    BY <2>1, <1>3, <1>8 DEF LocType, InodeLabels, Afters
  <2>3. mem' = Icache!iget(mem, found) /\ Icache!Set(p, s) /\ UNCHANGED <<dinode, ent, lock, cwd, file, halted>>
    BY <2>1, <1>1, <1>7, <1>8, <1>11 DEF Icache!link_dp, Icache!Looked
  <2>4. loc' = [loc EXCEPT ![p] = s]
    BY <2>2, <2>3 DEF Icache!Set
  <2>5. Stage(s) = "link_dup" /\ Locked(s) = Locked(r) /\ ~Fresh(s) /\ s.pc # "ifree"
    BY <2>2, <1>6 DEF Stage, Puts, Locked, LockedIp, HasDp, Fresh
  <2>6. LocOk(s)
    BY <2>2, <2>5, <1>2, <1>3, <1>4, <1>8 DEF LocOk, Puts, NoIp, HasDp, HasOld, MayOld, HasName
  <2>7. CallOk(s, cwd[p])
    BY <2>2, <2>5, <1>2, <1>3, <1>4 DEF CallOk, DirIp
  <2>8. Pending(s) = Pending(r)
    BY <2>2, <2>5, <1>2, <1>3 DEF Pending
  <2>9. \A i \in Inums : Uses(s, cwd[p], file[p], i) = Uses(r, cwd[p], file[p], i) + Is(found, i)
    <3>1. \A i \in Inums : i # 0
      BY DEF Icache!Configuration
    <3> QED BY <3>1, <2>2, <1>3 DEF Uses, Is
  <2>10. HaveOf(s, cwd[p], file[p]) \subseteq Have(p) \cup {found}
    BY <2>2, <1>1 DEF Have, HaveOf, Others
  <2> QED BY <1>1, <1>6, <1>9, <2>2, <2>3, <2>4, <2>5, <2>6, <2>7, <2>8, <2>9, <2>10, GetStep
<1> QED BY <1>10, <1>11

(* create finds the name: the parent is unlocked and put.                  *)
LEMMA CreateFoundStep ==
    ASSUME Icache!Configuration, InodeInv, Icache!Forget, NEW p \in Procs,
           Icache!create_dp(p), ent[loc[p].ip][loc[p].path[1]] # 0
    PROVE  InodeInv'
<1>1. PICK r : r = loc[p]
  OBVIOUS
<1>2. r.pc = "create_dp" /\ r.pc \in LockedIp
  BY <1>1 DEF Icache!create_dp, Icache!At, LockedIp
<1>3. /\ r \in LocType /\ LocOk(r) /\ CallOk(r, cwd[p]) /\ Stage(r) = r.pc /\ r.k = "idle"
      /\ r.tgt = 0 /\ r.ip \in Inums /\ r.ip \in Locked(r) /\ r.ip \in Have(p)
  BY <1>1, <1>2, LockedIpFacts
<1>4. /\ r.old = 0 /\ r.dp = 0 /\ r.path # <<>> /\ r.path \in Seq(Icache!Names) /\ r.call.op = "create"
      /\ r.ip # 0
  BY <1>1, <1>2, <1>3, LocFacts DEF LocOk, MayOld, HasDp, HasName, NoIp
<1>5. /\ r.path[1] \in Icache!Names
      /\ r.path[1] = ".." => r.call.op = "unlink" /\ Len(r.path) = 1
  BY <1>3, <1>4, TailDown DEF LocOk
<1>6. ~Fresh(r) /\ Locked(r) = {r.ip}
  BY <1>2, <1>3 DEF Fresh, Locked, LockedIp, HasDp
<1>7. PICK found : found = ent[r.ip][r.path[1]]
  OBVIOUS
<1>8. found # 0 /\ found \in Ptrs
  BY <1>1, <1>3, <1>5, <1>7, InvParts DEF Typed
<1>9. found \in Inums /\ found \in Reach(p)
  <2>1. CASE r.path[1] \in Plain
    BY <2>1, <1>3, <1>7, <1>8, NamedReach
  <2>2. CASE r.path[1] = "."
    <3>1. found = r.ip
      BY <2>2, <1>3, <1>7, <1>8, InvParts DEF DirsOk
    <3> QED BY <3>1, <1>3, HaveReach
  <2> QED BY <2>1, <2>2, <1>4, <1>5 DEF Icache!Names
<1>10. CASE Icache!NoSlot(found)
  <2>1. Icache!Panic("full")
    BY <1>1, <1>7, <1>8, <1>10 DEF Icache!create_dp
  <2> QED BY <2>1, PanicStep
<1>11. CASE ~Icache!NoSlot(found)
  <2>1. PICK t : t = Icache!PutThen(r, "ip", "found")
    OBVIOUS
  <2>2. /\ t \in LocType /\ t.pc = "iput" /\ t.tgt = r.ip /\ t.k = "found"
        /\ t.call = r.call /\ t.path = r.path /\ t.par = r.par /\ t.dp = r.dp /\ t.old = r.old
    BY <1>3, <2>1, PutIp DEF Afters
  <2>3. PICK s : s = [t EXCEPT !.ip = found]
    OBVIOUS
  <2>4. /\ s \in LocType /\ s.pc = "iput" /\ s.tgt = r.ip /\ s.ip = found /\ s.k = "found"
        /\ s.call = r.call /\ s.path = r.path /\ s.par = r.par /\ s.dp = r.dp /\ s.old = r.old
    BY <2>2, <2>3, <1>8 DEF LocType
  <2>5. /\ mem' = Icache!iget(mem, found) /\ Icache!Set(p, s) /\ Icache!Unlock(r.ip)
        /\ UNCHANGED <<dinode, ent, cwd, file, halted>>
    BY <2>1, <2>3, <1>1, <1>7, <1>8, <1>11 DEF Icache!create_dp
  <2>6. loc' = [loc EXCEPT ![p] = s]
    BY <2>4, <2>5 DEF Icache!Set
  <2>7. Stage(s) = "found" /\ Locked(s) = {} /\ ~Fresh(s) /\ s.pc # "ifree"
    BY <2>4 DEF Stage, Puts, Locked, LockedIp, HasDp, Fresh
  <2>8. LocOk(s)
    BY <2>4, <2>7, <1>2, <1>3, <1>4, <1>8 DEF LocOk, Puts, NoIp, HasDp, HasOld, MayOld, HasName
  <2>9. CallOk(s, cwd[p])
    BY <2>4, <2>7, <1>2, <1>3, <1>4 DEF CallOk, DirIp
  <2>10. Pending(s) = Pending(r) /\ Locked(s) = Locked(r) \ {r.ip}
    BY <2>4, <2>7, <1>2, <1>3, <1>6 DEF Pending
  <2>11. \A i \in Inums : Uses(s, cwd[p], file[p], i) = Uses(r, cwd[p], file[p], i) + Is(found, i)
    <3>1. \A i \in Inums : i # 0
      BY DEF Icache!Configuration
    <3> QED BY <3>1, <2>4, <1>3 DEF Uses, Is
  <2>12. HaveOf(s, cwd[p], file[p]) \subseteq Have(p) \cup {found}
    BY <2>4, <1>1, <1>3, <1>4 DEF Have, HaveOf, Others
  <2> QED BY <1>1, <1>3, <1>6, <1>9, <2>4, <2>5, <2>6, <2>7, <2>8, <2>9, <2>10, <2>11, <2>12, GetStep
<1> QED BY <1>10, <1>11

(* sys_unlink looks for the name.                                          *)
LEMMA UnlinkDpStep ==
    ASSUME Icache!Configuration, InodeInv, Icache!Forget, NEW p \in Procs, Icache!unlink_dp(p)
    PROVE  InodeInv'
<1>1. PICK r : r = loc[p]
  OBVIOUS
<1>2. r.pc = "unlink_dp" /\ r.pc \in LockedIp
  BY <1>1 DEF Icache!unlink_dp, Icache!At, LockedIp
<1>3. /\ r \in LocType /\ LocOk(r) /\ CallOk(r, cwd[p]) /\ Stage(r) = r.pc /\ r.k = "idle"
      /\ r.tgt = 0 /\ r.ip \in Inums /\ r.ip \in Locked(r) /\ r.ip \in Have(p)
  BY <1>1, <1>2, LockedIpFacts
<1>4. /\ r.old = 0 /\ r.dp = 0 /\ r.path # <<>> /\ r.path \in Seq(Icache!Names) /\ r.ip # 0
  BY <1>1, <1>2, <1>3, LocFacts DEF LocOk, MayOld, HasDp, HasName, NoIp
<1>5. r.path[1] \in Icache!Names
  BY <1>3, <1>4, TailDown DEF LocOk
<1>6. ~Fresh(r) /\ Locked(r) = {r.ip}
  BY <1>2, <1>3 DEF Fresh, Locked, LockedIp, HasDp
<1>7. PICK found : found = ent[r.ip][r.path[1]]
  OBVIOUS
<1>8. found \in Ptrs
  BY <1>1, <1>3, <1>5, <1>7, InvParts DEF Typed
<1>9. CASE ~Icache!Removable(r.path[1]) \/ found = 0
  <2>1. Icache!UnlockPut(p) /\ UNCHANGED <<dinode, ent, mem, cwd, halted>>
    BY <1>1, <1>7, <1>9 DEF Icache!unlink_dp
  <2> QED BY <2>1, <1>1, <1>2, UnlockPutStep
<1>10. CASE Icache!Removable(r.path[1]) /\ found # 0
  <2>1. r.path[1] \in Plain
    BY <1>5, <1>10 DEF Icache!Removable, Icache!Names
  <2>2. found \in Inums /\ found \in Reach(p)
    BY <2>1, <1>3, <1>7, <1>10, NamedReach
  <2>3. CASE Icache!NoSlot(found)
    <3>1. Icache!Panic("full")
      BY <2>3, <1>1, <1>7, <1>10 DEF Icache!unlink_dp
    <3> QED BY <3>1, PanicStep
  <2>4. CASE ~Icache!NoSlot(found)
    <3>1. PICK s : s = [r EXCEPT !.pc = "victim", !.dp = r.ip, !.ip = found]
      OBVIOUS
    <3>2. /\ s \in LocType /\ s.pc = "victim" /\ s.dp = r.ip /\ s.ip = found /\ s.k = r.k
          /\ s.call = r.call /\ s.path = r.path /\ s.par = r.par /\ s.tgt = r.tgt /\ s.old = r.old
      BY <3>1, <1>3, <1>8 DEF LocType, InodeLabels
    <3>3. mem' = Icache!iget(mem, found) /\ Icache!Set(p, s) /\ UNCHANGED <<dinode, ent, lock, cwd, file, halted>>
      BY <3>1, <2>4, <1>1, <1>7, <1>10 DEF Icache!unlink_dp, Icache!Looked
    <3>4. loc' = [loc EXCEPT ![p] = s]
      BY <3>2, <3>3 DEF Icache!Set
    <3>5. Stage(s) = "victim" /\ Locked(s) = Locked(r) /\ ~Fresh(s) /\ s.pc # "ifree"
      BY <3>2, <1>6 DEF Stage, Puts, Locked, LockedIp, HasDp, Fresh
    <3>6. LocOk(s)
      BY <3>2, <3>5, <2>1, <1>2, <1>3, <1>4, <1>10 DEF LocOk, Puts, NoIp, HasDp, HasOld, MayOld, HasName
    <3>7. CallOk(s, cwd[p])
      BY <3>2, <3>5, <1>2, <1>3, <1>4, <1>7 DEF CallOk, DirIp
    <3>8. Pending(s) = Pending(r)
      BY <3>2, <3>5, <1>2, <1>3 DEF Pending
    <3>9. \A i \in Inums : Uses(s, cwd[p], file[p], i) = Uses(r, cwd[p], file[p], i) + Is(found, i)
      <4>1. \A i \in Inums : i # 0
        BY DEF Icache!Configuration
      <4> QED BY <4>1, <3>2, <1>4 DEF Uses, Is
    <3>10. HaveOf(s, cwd[p], file[p]) \subseteq Have(p) \cup {found}
      BY <3>2, <1>1 DEF Have, HaveOf, Others
    <3> QED BY <1>1, <1>6, <2>2, <3>2, <3>3, <3>4, <3>5, <3>6, <3>7, <3>8, <3>9, <3>10, GetStep
  <2> QED BY <2>3, <2>4
<1> QED BY <1>9, <1>10

(***************************************************************************)
(* Counting links.                                                         *)
(***************************************************************************)

(* Links stay counted if nlink changes by the pending link of p.           *)
LEMMA PendChange ==
    ASSUME Icache!Configuration, InodeInv, Icache!Forget, Typed', NEW p \in Procs, Solo(p), UNCHANGED ent,
           \A j \in Inums : dinode'[j].type = dinode[j].type,
           \A j \in Inums : dinode'[j].nlink - Is(Pending(loc'[p]), j)
                              = dinode[j].nlink - Is(Pending(loc[p]), j)
    PROVE  LinksOk'
<1>0. /\ dinode' \in [Inums -> Dinodes]
      /\ \A j \in Inums : dinode[j].type = "free" \/ dinode'[j].type # "free"
  BY DEF Typed
<1>1. SUFFICES ASSUME NEW i \in Inums
               PROVE  Balance(i)
  BY <1>0, LinksBalance
<1>2. PICK F : F = Links(dinode, ent, loc)
  OBVIOUS
<1>3. PICK G : G = Links(dinode', ent', loc')
  OBVIOUS
<1>4. /\ DOMAIN F = LinkCells
      /\ \A b \in Inums, m \in Plain : /\ F[EntCell(b, m)] = ent[b][m]
                                       /\ F[SubCell(b, m)] = Up(dinode, ent, b, m)
      /\ \A q \in Procs : PendCell(q) \in LinkCells /\ F[PendCell(q)] = Pending(loc[q])
      /\ F[RootCell] = ROOTINO
  BY <1>2, LinkContents
<1>5. /\ DOMAIN G = LinkCells
      /\ \A b \in Inums, m \in Plain : /\ G[EntCell(b, m)] = ent'[b][m]
                                       /\ G[SubCell(b, m)] = Up(dinode', ent', b, m)
      /\ \A q \in Procs : G[PendCell(q)] = Pending(loc'[q])
      /\ G[RootCell] = ROOTINO
  BY <1>3, LinkContents
<1>6. PICK T : T = {PendCell(p)}
  OBVIOUS
<1>7. \A f : Held(f, T, i) = Is(f[PendCell(p)], i)
  <2>1. PICK T0 : T0 = {}
    OBVIOUS
  <2>2. \A f : Held(f, T0, i) = 0
    <3>1. \A f : {x \in T0 : f[x] = i} = {}
      BY <2>1
    <3> QED BY <3>1, FS_EmptySet DEF Held
  <2>3. Plus(T, T0, PendCell(p))
    BY <2>1, <1>6, FS_EmptySet DEF Plus
  <2>4. ASSUME NEW f PROVE Held(f, T, i) = Is(f[PendCell(p)], i)
    <3>1. Held(f, T, i) = Held(f, T0, i) + Is(f[PendCell(p)], i)
      BY <2>3, OneMoreCell
    <3>2. Is(f[PendCell(p)], i) \in Nat
      BY DEF Is
    <3> QED BY <3>1, <3>2, <2>2
  <2> QED BY <2>4
<1>8. \A b \in Inums, m \in Plain : Up(dinode', ent', b, m) = Up(dinode, ent, b, m)
  <2>1. \A b \in Inums, m \in Plain : ent[b][m] \in Inums \cup {0}
    BY InvParts DEF Typed, Icache!Names, Ptrs
  <2> QED BY <2>1 DEF Up, IsDir
<1>9. ASSUME NEW x \in LinkCells \ T
      PROVE  G[x] = F[x]
  <2>1. x # PendCell(p)
    BY <1>6
  <2>2. CASE \E b \in Inums, m \in Plain : x = EntCell(b, m) \/ x = SubCell(b, m)
    BY <2>2, <1>4, <1>5, <1>8
  <2>3. CASE \E q \in Procs : x = PendCell(q)
    <3>1. PICK q \in Procs : x = PendCell(q)
      BY <2>3
    <3>2. loc'[q] = loc[q]
      BY <2>1, <3>1 DEF Solo
    <3> QED BY <3>1, <3>2, <1>4, <1>5
  <2> QED BY <2>2, <2>3, <1>4, <1>5, <1>9, LinkCellOf
<1>10. /\ Count(F, i) \in Nat /\ Count(G, i) \in Nat
       /\ Count(G, i) - Held(G, T, i) = Count(F, i) - Held(F, T, i)
  <2>1. T \subseteq LinkCells
    BY <1>4, <1>6
  <2> QED BY <2>1, <1>4, <1>5, <1>9, LinkCellsFinite, CountOutside
<1>11. Held(F, T, i) = Is(Pending(loc[p]), i) /\ Held(G, T, i) = Is(Pending(loc'[p]), i)
  BY <1>4, <1>5, <1>7
<1>12. dinode[i].nlink \in Nat /\ dinode'[i].nlink \in Nat
  BY InvParts DEF Typed, Dinodes
<1>13. \A x : Is(x, i) \in Nat
  BY DEF Is
<1>14. dinode'[i].nlink - Count(G, i) = dinode[i].nlink - Count(F, i)
  <2>1. PICK x, y : x = Is(Pending(loc[p]), i) /\ y = Is(Pending(loc'[p]), i)
    OBVIOUS
  <2>2. x \in Nat /\ y \in Nat /\ dinode'[i].nlink - y = dinode[i].nlink - x
    BY <2>1, <1>1, <1>13
  <2>3. Count(F, i) \in Nat /\ Count(G, i) \in Nat /\ Count(G, i) - y = Count(F, i) - x
    BY <2>1, <1>10, <1>11
  <2> QED BY <2>2, <2>3, <1>12
<1> QED BY <1>2, <1>3, <1>10, <1>14 DEF Balance

(* A step that changes the link count of an inode p has, by its pending    *)
(* link.                                                                   *)
LEMMA NlinkStep ==
    ASSUME Icache!Configuration, InodeInv, Icache!Forget, NEW p \in Procs,
           NEW r, r = loc[p], NEW s \in LocType,
           loc' = [loc EXCEPT ![p] = s], UNCHANGED <<ent, cwd, file>>, halted' \in {"no", "full"},
           NEW i \in Have(p), dinode' \in [Inums -> Dinodes],
           \A j \in Inums : dinode'[j].type = dinode[j].type,
           \A j \in Inums : j # i => dinode'[j] = dinode[j],
           \A j \in Inums : dinode'[j].nlink - Is(Pending(s), j) = dinode[j].nlink - Is(Pending(r), j),
           mem' \in [Inums -> Slots], lock' \in [Inums -> Procs \cup {NoCpu}], MemOk', LockOk',
           \A j \in Inums : mem'[j].ref - Uses(s, cwd[p], file[p], j)
                              = mem[j].ref - Uses(r, cwd[p], file[p], j),
           LocOk(s), CallOk(s, cwd[p])', ~Fresh(s), s.pc # "ifree", ~Fresh(r),
           HaveOf(s, cwd[p], file[p]) \subseteq Reach(p)
    PROVE  InodeInv'
<1>1. loc'[p] = s /\ loc' \in [Procs -> LocType] /\ Solo(p)
  BY Goes DEF Solo
<1>2. Typed'
  BY <1>1, InvParts DEF Typed
<1>3. RefsOk'
  BY <1>1, <1>2, RefsStep
<1>4. LinksOk'
  BY <1>1, <1>2, PendChange
<1>5. ProcOk(p)'
  BY <1>1 DEF ProcOk, CallOk, Alone
<1>6. Have(p)' \subseteq Reach(p)
  BY <1>1 DEF Have
<1>7. \A q \in Procs \ {p} : ProcOk(q)' /\ \A j \in Have(q)' : dinode'[j].type # "free"
  BY <1>1, <1>6, OthersStep DEF Confined, Gains
<1>8. AliveOk'
  <2>1. \A j \in Have(p)' : dinode'[j].type # "free"
    BY <1>6 DEF Reach
  <2> QED BY <1>7, <2>1 DEF AliveOk
<1>9. DirsOk'
  <2>1. DirsOk
    BY InvParts
  <2>2. ASSUME NEW q \in Procs, Fresh(loc[q])
        PROVE  Fresh(loc'[q]) /\ loc'[q].ip = loc[q].ip
    BY <2>2, <1>1 DEF Solo
  <2> QED BY <2>1, <2>2 DEF DirsOk
<1>10. TreeOk' /\ NoPair'
  <2>1. TreeOk /\ NoPair
    BY InvParts
  <2>2. NoPair'
    BY <2>1 DEF NoPair
  <2>3. TreeOk'
    BY <2>1 DEF TreeOk
  <2> QED BY <2>2, <2>3
<1> QED BY <1>2, <1>3, <1>4, <1>5, <1>7, <1>8, <1>9, <1>10 DEF InodeInv

(* sys_link takes its count back, sys_unlink the count of the name it has  *)
(* erased.                                                                 *)
LEMMA UndoStep ==
    ASSUME Icache!Configuration, InodeInv, Icache!Forget, NEW p \in Procs, Icache!link_undo(p) \/ Icache!unlink_end(p)
    PROVE  InodeInv'
<1>1. PICK r : r = loc[p]
  OBVIOUS
<1>2. r.pc \in {"link_undo", "unlink_end"} /\ r.pc \in LockedIp
  BY <1>1 DEF Icache!link_undo, Icache!unlink_end, Icache!At, LockedIp
<1>3. PICK i : i = r.ip
  OBVIOUS
<1>4. /\ r \in LocType /\ LocOk(r) /\ CallOk(r, cwd[p]) /\ Stage(r) = r.pc /\ r.k = "idle"
      /\ r.tgt = 0 /\ i \in Inums /\ i \in Locked(r) /\ i \in Have(p)
      /\ mem[i].valid /\ mem[i].type = dinode[i].type /\ mem[i].nlink = dinode[i].nlink
      /\ mem[i].type # "free"
  BY <1>1, <1>2, <1>3, LockedIpFacts
<1>5. r.old = 0 /\ r.dp = 0 /\ r.ip # 0 /\ Pending(r) = i /\ ~Fresh(r) /\ Locked(r) = {i}
  BY <1>2, <1>3, <1>4 DEF LocOk, MayOld, HasDp, NoIp, Pending, Fresh, Locked, LockedIp
<1>6. /\ mem' = Icache!Discounted(i) /\ dinode' = Icache!iupdate(dinode, mem', i) /\ Icache!UnlockPut(p)
      /\ UNCHANGED <<ent, cwd, halted>>
  BY <1>1, <1>3 DEF Icache!link_undo, Icache!unlink_end, Icache!TakenBack
<1>7. dinode[i].nlink \in Nat /\ dinode[i].nlink >= 1 /\ dinode[i] \in Dinodes /\ mem[i] \in Slots
  <2>1. Typed /\ LinksOk
    BY InvParts
  <2>2. dinode[i] \in Dinodes /\ mem[i] \in Slots
    BY <2>1, <1>4 DEF Typed
  <2>3. dinode[Pending(loc[p])].nlink >= 1
    BY <2>1, <1>1, <1>4, <1>5, LinkedCounted
  <2> QED BY <2>2, <2>3, <1>1, <1>5 DEF Dinodes
<1>8. PICK m : m = [mem[i] EXCEPT !.nlink = @ - 1]
  OBVIOUS
<1>9. /\ m \in Slots /\ m.nlink = dinode[i].nlink - 1 /\ m.ref = mem[i].ref /\ m.valid = mem[i].valid
      /\ m.type = mem[i].type
  <2>1. PICK n \in Slots : n = mem[i]
    BY <1>7
  <2>2. m = [n EXCEPT !.nlink = @ - 1] /\ n.nlink - 1 \in Nat /\ n.nlink = dinode[i].nlink
    BY <2>1, <1>4, <1>7, <1>8
  <2>3. m \in Slots /\ m.nlink = n.nlink - 1 /\ m.ref = n.ref /\ m.valid = n.valid /\ m.type = n.type
    BY <2>1, <2>2 DEF Slots
  <2> QED BY <2>1, <2>2, <2>3
<1>10. mem \in [Inums -> Slots] /\ dinode \in [Inums -> Dinodes]
  BY InvParts DEF Typed
<1>11. mem' = [mem EXCEPT ![i] = m]
  BY <1>6, <1>8, <1>10 DEF Icache!Discounted
<1>12. mem' \in [Inums -> Slots] /\ \A j \in Inums : mem'[j] = IF j = i THEN m ELSE mem[j]
  BY <1>9, <1>10, <1>11
<1>13. PICK d : d = [type |-> m.type, nlink |-> m.nlink]
  OBVIOUS
<1>14. d \in Dinodes /\ d.type = dinode[i].type /\ d.nlink = dinode[i].nlink - 1
  BY <1>4, <1>9, <1>13 DEF Dinodes, Slots
<1>15. dinode' = [dinode EXCEPT ![i] = d]
  BY <1>4, <1>6, <1>12, <1>13 DEF Icache!iupdate
<1>16. dinode' \in [Inums -> Dinodes] /\ \A j \in Inums : dinode'[j] = IF j = i THEN d ELSE dinode[j]
  BY <1>10, <1>14, <1>15
<1>17. PICK s : s = Icache!PutThen(r, "ip", "idle")
  OBVIOUS
<1>18. /\ s \in LocType /\ s.pc = "iput" /\ s.tgt = r.ip /\ s.ip = 0 /\ s.k = "idle"
       /\ s.call = r.call /\ s.path = r.path /\ s.par = r.par /\ s.dp = r.dp /\ s.old = r.old
  BY <1>4, <1>17, PutIp DEF Afters
<1>19. loc' = [loc EXCEPT ![p] = s] /\ Icache!Unlock(i) /\ UNCHANGED file
  BY <1>1, <1>3, <1>6, <1>17, <1>18 DEF Icache!UnlockPut, Icache!Set
<1>20. loc'[p] = s /\ Solo(p)
  BY <1>6, <1>18, <1>19, Goes DEF Solo
<1>21. Stage(s) = "idle" /\ Locked(s) = {} /\ ~Fresh(s) /\ s.pc # "ifree" /\ Pending(s) = 0
  BY <1>5, <1>18 DEF Stage, Puts, Locked, LockedIp, HasDp, Fresh, Pending
<1>22. LockOk' /\ \A j \in Inums : lock'[j] # NoCpu => lock[j] # NoCpu
  <2>1. Locked(s) = Locked(r) \ {i}
    BY <1>5, <1>21
  <2> QED BY <2>1, <1>1, <1>4, <1>19, <1>20, LocksFreed DEF Icache!Unlock
<1>23. lock' \in [Inums -> Procs \cup {NoCpu}]
  BY <1>19, InvParts DEF Typed, Icache!Unlock
<1>24. MemOk'
  <2>1. MemOk
    BY InvParts
  <2> QED BY <2>1, <1>4, <1>9, <1>12, <1>14, <1>16, <1>22 DEF MemOk
<1>25. LocOk(s)
  BY <1>2, <1>4, <1>5, <1>18, <1>21 DEF LocOk, Puts, NoIp, HasDp, HasOld, MayOld, HasName
<1>26. CallOk(s, cwd[p])'
  BY <1>2, <1>4, <1>5, <1>6, <1>18, <1>20, <1>21 DEF CallOk, DirIp
<1>27. \A j \in Inums : j # 0
  BY DEF Icache!Configuration
<1>28. \A j \in Inums : dinode'[j].nlink - Is(Pending(s), j) = dinode[j].nlink - Is(Pending(r), j)
  <2>1. \A j \in Inums : dinode[j].nlink \in Nat
    BY <1>10 DEF Dinodes
  <2> QED BY <2>1, <1>5, <1>14, <1>16, <1>21, <1>27 DEF Is
<1>29. \A j \in Inums : mem'[j].ref - Uses(s, cwd[p], file[p], j) = mem[j].ref - Uses(r, cwd[p], file[p], j)
  <2>1. \A j \in Inums : Uses(s, cwd[p], file[p], j) = Uses(r, cwd[p], file[p], j)
    BY <1>4, <1>5, <1>18, <1>27 DEF Uses, Is
  <2> QED BY <2>1, <1>9, <1>12
<1>30. HaveOf(s, cwd[p], file[p]) \subseteq Reach(p)
  <2>1. HaveOf(s, cwd[p], file[p]) \subseteq Have(p)
    BY <1>1, <1>5, <1>18 DEF Have, HaveOf, Others
  <2> QED BY <2>1, HaveReach
<1>31. halted' \in {"no", "full"}
  BY <1>6, InvParts DEF Typed
<1>32. /\ \A j \in Inums : dinode'[j].type = dinode[j].type
       /\ \A j \in Inums : j # i => dinode'[j] = dinode[j]
  BY <1>14, <1>16
<1>33. UNCHANGED <<ent, cwd, file>>
  BY <1>6, <1>19
<1>34. s \in LocType /\ loc' = [loc EXCEPT ![p] = s] /\ i \in Have(p)
  BY <1>4, <1>18, <1>19
<1>35. dinode' \in [Inums -> Dinodes] /\ mem' \in [Inums -> Slots]
  BY <1>12, <1>16
<1> QED BY <1>1, <1>5, <1>21, <1>22, <1>23, <1>24, <1>25, <1>26,
           <1>28, <1>29, <1>30, <1>31, <1>32, <1>33, <1>34, <1>35, NlinkStep

(* sys_link counts the link and looks for the place of the name.           *)
LEMMA LinkIpStep ==
    ASSUME Icache!Configuration, Icache!Downward, InodeInv, Icache!Forget, NEW p \in Procs, Icache!link_ip(p)
    PROVE  InodeInv'
<1>1. PICK r : r = loc[p]
  OBVIOUS
<1>2. r.pc = "link_ip" /\ r.pc \in LockedIp
  BY <1>1 DEF Icache!link_ip, Icache!At, LockedIp
<1>3. PICK i : i = r.ip
  OBVIOUS
<1>4. /\ r \in LocType /\ LocOk(r) /\ CallOk(r, cwd[p]) /\ Stage(r) = r.pc /\ r.k = "idle"
      /\ r.tgt = 0 /\ i \in Inums /\ i \in Locked(r) /\ i \in Have(p)
      /\ mem[i].valid /\ mem[i].type = dinode[i].type /\ mem[i].nlink = dinode[i].nlink
      /\ mem[i].type # "free"
  BY <1>1, <1>2, <1>3, LockedIpFacts
<1>5. CASE ~Icache!Linkable(i)
  <2>1. Icache!UnlockPut(p) /\ UNCHANGED <<dinode, ent, mem, cwd, halted>>
    BY <1>1, <1>3, <1>5 DEF Icache!link_ip
  <2> QED BY <2>1, <1>1, <1>2, UnlockPutStep
<1>6. CASE Icache!Linkable(i)
  <2>1. /\ r.old = 0 /\ r.dp = 0 /\ i # 0 /\ Pending(r) = 0 /\ ~Fresh(r) /\ Locked(r) = {i}
        /\ r.call.op = "link" /\ cwd[p] # 0
    BY <1>2, <1>3, <1>4 DEF LocOk, MayOld, HasDp, NoIp, Pending, Fresh, Locked, LockedIp, CallOk
  <2>2. PICK c : c = r.call
    OBVIOUS
  <2>3. c \in Calls /\ c.op = "link"
    <3>1. c \in Calls \cup {NoCall} /\ c.op = "link"
      BY <2>1, <2>2, <1>1, LocFacts
    <3>2. NoCall.op = "none"
      BY DEF NoCall
    <3> QED BY <3>1, <3>2
  <2>4. Icache!Rest(c.new) \in Seq(Icache!Names) /\ Icache!DownPath(c, Icache!Rest(c.new))
    BY <2>3 DEF Icache!Configuration, Icache!WellFormed, Icache!Downward
  <2>5. PICK f : f = Icache!From(p, c.new)
    OBVIOUS
  <2>6. f \in Inums /\ f \in Reach(p) /\ Icache!From(p, c.new) \in Inums
    BY <2>1, <2>5, FromReach
  <2>7. PICK u : u = [r EXCEPT !.old = i]
    OBVIOUS
  <2>8. /\ u \in LocType /\ u.k = "idle" /\ u.call = c /\ u.ip = i /\ u.dp = 0 /\ u.old = i /\ u.tgt = 0
    BY <2>1, <2>2, <2>7, <1>3, <1>4 DEF LocType
  <2>9. PICK s : s = Icache!Walk(p, u, c.new, TRUE)
    OBVIOUS
  <2>10. /\ s \in LocType /\ s.call = c /\ s.dp = 0 /\ s.old = i /\ s.par = TRUE
         /\ s.path = Icache!Rest(c.new)
         /\ \/ s.pc = "namex" /\ s.k = "idle" /\ s.ip = f /\ s.tgt = 0 /\ s.path # <<>>
            \/ s.pc = "iput" /\ s.k = "fail" /\ s.ip = 0 /\ s.tgt = f
    <3>1. PICK par \in BOOLEAN : par = TRUE
      OBVIOUS
    <3>2. s = Icache!Walk(p, u, c.new, par)
      BY <3>1, <2>9
    <3>3. ~par => u.call.op \in {"open", "link", "chdir"}
      BY <3>1
    <3>4. /\ s \in LocType /\ s.call = u.call /\ s.dp = u.dp /\ s.old = u.old /\ s.par = par
          /\ s.path = Icache!Rest(c.new)
          /\ \/ s.pc = "namex" /\ s.k = "idle" /\ s.ip = Icache!From(p, c.new) /\ s.tgt = 0 /\ s.path # <<>>
             \/ s.pc = "iput" /\ s.k = "fail" /\ s.ip = 0 /\ s.tgt = Icache!From(p, c.new) /\ par
             \/ /\ s.pc = u.call.op /\ s.k = "idle" /\ s.ip = Icache!From(p, c.new) /\ s.tgt = 0
                /\ s.path = <<>> /\ ~par
      BY <3>2, <3>3, <2>4, <2>6, <2>8, WalkFacts
    <3> QED BY <3>1, <3>4, <2>5, <2>8
  <2>11. /\ dinode' = Icache!iupdate(dinode, Icache!Counted(i), i) /\ mem' = Icache!iget(Icache!Counted(i), f)
         /\ halted' = (IF Icache!NoSlot(f) THEN "full" ELSE halted)
         /\ Icache!Unlock(i) /\ Icache!Set(p, s) /\ UNCHANGED file /\ UNCHANGED <<ent, cwd>>
    BY <2>2, <2>5, <2>7, <2>9, <1>1, <1>3, <1>6 DEF Icache!link_ip
  <2>12. mem \in [Inums -> Slots] /\ dinode \in [Inums -> Dinodes] /\ halted \in {"no", "full"}
    BY InvParts DEF Typed
  <2>13. PICK n \in Slots : n = mem[i]
    BY <2>12, <1>4
  <2>14. PICK m : m = [n EXCEPT !.nlink = @ + 1]
    OBVIOUS
  <2>15. /\ m \in Slots /\ m.nlink = n.nlink + 1 /\ m.ref = n.ref /\ m.valid = n.valid /\ m.type = n.type
         /\ n.nlink \in Nat
    BY <2>13, <2>14 DEF Slots
  <2>16. PICK M : M = Icache!Counted(i)
    OBVIOUS
  <2>17. M = [mem EXCEPT ![i] = m]
    BY <2>12, <2>13, <2>14, <2>16 DEF Icache!Counted
  <2>18. M \in [Inums -> Slots] /\ \A j \in Inums : M[j] = IF j = i THEN m ELSE mem[j]
    BY <2>12, <2>15, <2>17
  <2>19. PICK d : d = [type |-> m.type, nlink |-> m.nlink]
    OBVIOUS
  <2>20. d \in Dinodes /\ d.type = dinode[i].type /\ d.nlink = dinode[i].nlink + 1
    BY <2>13, <2>15, <2>19, <1>4 DEF Dinodes, Slots
  <2>21. dinode' = [dinode EXCEPT ![i] = d]
    BY <2>11, <2>16, <2>18, <2>19, <1>4 DEF Icache!iupdate
  <2>22. dinode' \in [Inums -> Dinodes] /\ \A j \in Inums : dinode'[j] = IF j = i THEN d ELSE dinode[j]
    BY <2>12, <2>20, <2>21
  <2>23. PICK a \in Slots : a = M[f]
    BY <2>6, <2>18
  <2>24. PICK b : b = [a EXCEPT !.ref = @ + 1]
    OBVIOUS
  <2>25. b \in Slots /\ b.ref = a.ref + 1 /\ b.valid = a.valid /\ b.type = a.type /\ b.nlink = a.nlink
    BY <2>23, <2>24 DEF Slots
  <2>26. mem' = [M EXCEPT ![f] = b]
    BY <2>11, <2>16, <2>18, <2>23, <2>24 DEF Icache!iget
  <2>27. mem' \in [Inums -> Slots] /\ \A j \in Inums : mem'[j] = IF j = f THEN b ELSE M[j]
    BY <2>18, <2>25, <2>26
  <2>28. ASSUME NEW j \in Inums
         PROVE  /\ mem'[j].ref = mem[j].ref + Is(f, j) /\ mem'[j].valid = mem[j].valid
                /\ mem'[j].type = mem[j].type
                /\ mem'[j].nlink = mem[j].nlink + Is(i, j)
    <3>1. /\ mem'[j].ref = M[j].ref + Is(f, j) /\ mem'[j].valid = M[j].valid
          /\ mem'[j].type = M[j].type /\ mem'[j].nlink = M[j].nlink
      <4>1. M[j].ref \in Nat
        BY <2>18 DEF Slots
      <4> QED BY <4>1, <2>23, <2>25, <2>27 DEF Is
    <3>2. /\ M[j].ref = mem[j].ref /\ M[j].valid = mem[j].valid /\ M[j].type = mem[j].type
          /\ M[j].nlink = mem[j].nlink + Is(i, j)
      <4>1. mem[j].nlink \in Nat
        BY <2>12 DEF Slots
      <4> QED BY <4>1, <2>13, <2>15, <2>18 DEF Is
    <3> QED BY <3>1, <3>2
  <2>29. loc' = [loc EXCEPT ![p] = s]
    BY <2>10, <2>11 DEF Icache!Set
  <2>30. loc'[p] = s /\ Solo(p)
    BY <2>10, <2>11, <2>29, Goes DEF Solo
  <2>31. /\ \/ s.pc = "namex" /\ Stage(s) = "namex"
            \/ s.pc = "iput" /\ Stage(s) = "fail"
         /\ Locked(s) = {} /\ ~Fresh(s) /\ s.pc # "ifree" /\ Pending(s) = i
    BY <2>10 DEF Stage, Puts, Locked, LockedIp, HasDp, Fresh, Pending
  <2>32. LockOk' /\ \A j \in Inums : lock'[j] # NoCpu => lock[j] # NoCpu
    <3>1. Locked(s) = Locked(r) \ {i}
      BY <2>1, <2>31
    <3> QED BY <3>1, <2>11, <2>30, <1>1, <1>4, LocksFreed DEF Icache!Unlock
  <2>33. lock' \in [Inums -> Procs \cup {NoCpu}]
    BY <2>11, InvParts DEF Typed, Icache!Unlock
  <2>34. MemOk'
    <3>1. MemOk
      BY InvParts
    <3>2. \A j \in Inums : dinode'[j].type = dinode[j].type /\ dinode'[j].nlink = dinode[j].nlink + Is(i, j)
      <4>1. \A j \in Inums : dinode[j].nlink \in Nat
        BY <2>12 DEF Dinodes
      <4> QED BY <4>1, <2>20, <2>22 DEF Is
    <3>3. \A j \in Inums : dinode'[j].type = "free" => dinode'[j].nlink = 0
      <4>1. dinode[i].type # "free"
        BY <1>4
      <4> QED BY <4>1, <3>1, <2>20, <2>22 DEF MemOk
    <3> QED BY <3>1, <3>2, <3>3, <2>28, <2>32 DEF MemOk
  <2>35. LocOk(s)
    <3>1. f # 0
      BY <2>6 DEF Icache!Configuration
    <3> QED BY <3>1, <2>1, <2>3, <2>4, <2>10, <2>31
        DEF LocOk, Puts, NoIp, HasDp, HasOld, MayOld, HasName
  <2>36. CallOk(s, cwd[p])'
    <3>1. dinode'[i].type # "dir"
      BY <2>20, <2>22, <1>4, <1>6 DEF Icache!Linkable
    <3> QED BY <3>1, <2>1, <2>10, <2>11, <2>31 DEF CallOk, DirIp
  <2>37. \A j \in Inums : j # 0
    BY DEF Icache!Configuration
  <2>38. \A j \in Inums : dinode'[j].nlink - Is(Pending(s), j) = dinode[j].nlink - Is(Pending(r), j)
    <3>1. \A j \in Inums : dinode[j].nlink \in Nat
      BY <2>12 DEF Dinodes
    <3> QED BY <3>1, <2>1, <2>20, <2>22, <2>31, <2>37 DEF Is
  <2>39. \A j \in Inums : mem'[j].ref - Uses(s, cwd[p], file[p], j) = mem[j].ref - Uses(r, cwd[p], file[p], j)
    <3>1. \A j \in Inums : Uses(s, cwd[p], file[p], j) = Uses(r, cwd[p], file[p], j) + Is(f, j)
      BY <2>1, <2>10, <2>37, <1>3, <1>4 DEF Uses, Is
    <3>2. \A j \in Inums : mem[j].ref \in Nat /\ Is(f, j) \in Nat /\ Uses(r, cwd[p], file[p], j) \in Nat
      BY <2>12 DEF Slots, Is, Uses
    <3> QED BY <3>1, <3>2, <2>28
  <2>40. HaveOf(s, cwd[p], file[p]) \subseteq Reach(p)
    <3>1. HaveOf(s, cwd[p], file[p]) \subseteq Have(p) \cup {f}
      BY <2>1, <2>10, <1>1, <1>3 DEF Have, HaveOf, Others
    <3> QED BY <3>1, <2>6, HaveReach
  <2>41. halted' \in {"no", "full"} /\ UNCHANGED <<ent, cwd, file>>
    BY <2>11, <2>12
  <2>42. /\ \A j \in Inums : dinode'[j].type = dinode[j].type
         /\ \A j \in Inums : j # i => dinode'[j] = dinode[j]
    BY <2>20, <2>22
  <2>43. /\ s \in LocType /\ loc' = [loc EXCEPT ![p] = s] /\ i \in Have(p)
         /\ dinode' \in [Inums -> Dinodes] /\ mem' \in [Inums -> Slots]
         /\ ~Fresh(s) /\ s.pc # "ifree" /\ ~Fresh(r) /\ LockOk'
    BY <2>1, <2>10, <2>22, <2>27, <2>29, <2>31, <2>32, <1>4
  <2> QED BY <1>1, <2>33, <2>34, <2>35, <2>36, <2>38, <2>39, <2>40, <2>41, <2>42, <2>43, NlinkStep
<1> QED BY <1>5, <1>6

(***************************************************************************)
(* Steps that change directories or the types of inodes.                   *)
(***************************************************************************)

(* What is left to show of such a step.                                    *)
LEMMA BusyStep ==
    ASSUME Icache!Configuration, InodeInv, NEW p \in Procs,
           NEW r, r = loc[p], NEW s \in LocType,
           loc' = [loc EXCEPT ![p] = s], UNCHANGED <<cwd, file, halted>>,
           dinode' \in [Inums -> Dinodes], ent' \in [Inums -> [Icache!Names -> Ptrs]],
           mem' \in [Inums -> Slots], lock' \in [Inums -> Procs \cup {NoCpu}],
           MemOk', LockOk', LinksOk', DirsOk', TreeOk', NoPair',
           \A j \in Inums : mem'[j].ref - Uses(s, cwd[p], file[p], j)
                              = mem[j].ref - Uses(r, cwd[p], file[p], j),
           LocOk(s), CallOk(s, cwd[p])', Alone(p)', Confined(p),
           \A j \in HaveOf(s, cwd[p], file[p]) : /\ j \in Reach(p) \/ dinode[j].type = "free"
                                                 /\ dinode'[j].type # "free"
    PROVE  InodeInv'
<1>1. loc'[p] = s /\ loc' \in [Procs -> LocType] /\ Solo(p)
  BY Goes DEF Solo
<1>2. Typed'
  BY <1>1, InvParts DEF Typed
<1>3. RefsOk'
  BY <1>1, <1>2, RefsStep
<1>4. ProcOk(p)'
  BY <1>1 DEF ProcOk, CallOk
<1>5. Have(p)' = HaveOf(s, cwd[p], file[p])
  BY <1>1 DEF Have
<1>6. \A q \in Procs \ {p} : ProcOk(q)' /\ \A j \in Have(q)' : dinode'[j].type # "free"
  BY <1>1, <1>5, OthersStep DEF Gains
<1>7. AliveOk'
  BY <1>5, <1>6 DEF AliveOk
<1> QED BY <1>2, <1>3, <1>4, <1>6, <1>7 DEF InodeInv

(* iput frees an inode that nobody else has and no name leads to.          *)
LEMMA IfreeStep ==
    ASSUME Icache!Configuration, InodeInv, Icache!Forget, NEW p \in Procs, Icache!ifree(p)
    PROVE  InodeInv'
<1>1. PICK r : r = loc[p]
  OBVIOUS
<1>2. PICK i : i = r.tgt
  OBVIOUS
<1>3. r.pc = "ifree" /\ r \in LocType /\ LocOk(r) /\ CallOk(r, cwd[p]) /\ Alone(p)
  BY <1>1, InvParts, LocFacts DEF Icache!ifree, Icache!At
<1>4. i \in Inums /\ i \in Have(p) /\ i \in Locked(r)
  <2>1. r.tgt # 0
    BY <1>3 DEF LocOk, Puts
  <2> QED BY <2>1, <1>1, <1>2, <1>3, LocFacts DEF Ptrs, Have, HaveOf, Locked
<1>5. lock[i] = p /\ mem[i].valid /\ mem[i].nlink = dinode[i].nlink /\ dinode[i].nlink = 0
  <2>1. LockOk /\ NoCpu \notin Procs /\ MemOk
    BY InvParts DEF Icache!Configuration
  <2>2. lock[i] = p
    BY <2>1, <1>1, <1>4 DEF LockOk
  <2> QED BY <2>1, <2>2, <1>2, <1>3, <1>4 DEF MemOk, CallOk
<1>6. i \notin {r.ip, r.dp, r.old, cwd[p], file[p]} /\ i # 0
  <2>1. i # 0
    BY <1>4 DEF Icache!Configuration
  <2> QED BY <2>1, <1>1, <1>2, <1>3 DEF Alone, Others
<1>7. /\ mem \in [Inums -> Slots] /\ dinode \in [Inums -> Dinodes] /\ ent \in [Inums -> [Icache!Names -> Ptrs]]
      /\ lock \in [Inums -> Procs \cup {NoCpu}] /\ cwd \in [Procs -> Ptrs] /\ file \in [Procs -> Ptrs]
  BY InvParts DEF Typed
<1>8. PICK n \in Slots : n = mem[i]
  BY <1>4, <1>7
<1>9. PICK m : m = [n EXCEPT !.type = "free", !.valid = FALSE]
  OBVIOUS
<1>10. m \in Slots /\ m.type = "free" /\ m.valid = FALSE /\ m.nlink = 0 /\ m.ref = mem[i].ref
  BY <1>5, <1>8, <1>9 DEF Slots
<1>11. PICK M : M = [mem EXCEPT ![i].type = "free", ![i].valid = FALSE]
  OBVIOUS
<1>12. M = [mem EXCEPT ![i] = m]
  BY <1>4, <1>7, <1>8, <1>9, <1>11
<1>13. M \in [Inums -> Slots] /\ \A j \in Inums : M[j] = IF j = i THEN m ELSE mem[j]
  BY <1>7, <1>10, <1>12
<1>14. /\ mem' = M /\ dinode' = Icache!iupdate(dinode, M, i) /\ ent' = [ent EXCEPT ![i] = Icache!Empty]
       /\ Icache!Unlock(i) /\ loc' = [loc EXCEPT ![p].pc = "idrop"] /\ UNCHANGED <<cwd, file, halted>>
  BY <1>1, <1>2, <1>11 DEF Icache!ifree
<1>15. PICK d : d = [type |-> "free", nlink |-> 0]
  OBVIOUS
<1>16. d \in Dinodes /\ d.type = "free" /\ d.nlink = 0
  BY <1>15 DEF Dinodes
<1>17. dinode' = [dinode EXCEPT ![i] = d]
  BY <1>4, <1>10, <1>13, <1>14, <1>15 DEF Icache!iupdate
<1>18. dinode' \in [Inums -> Dinodes] /\ \A j \in Inums : dinode'[j] = IF j = i THEN d ELSE dinode[j]
  BY <1>7, <1>16, <1>17
<1>19. Icache!Empty \in [Icache!Names -> Ptrs] /\ \A a \in Icache!Names : Icache!Empty[a] = 0
  BY DEF Icache!Empty, Ptrs
<1>20. /\ ent' \in [Inums -> [Icache!Names -> Ptrs]] /\ \A j \in Inums : ent'[j] = IF j = i THEN Icache!Empty ELSE ent[j]
  BY <1>7, <1>14, <1>19
<1>21. PICK s : s = [r EXCEPT !.pc = "idrop"]
  OBVIOUS
<1>22. /\ s \in LocType /\ s.pc = "idrop" /\ s.tgt = r.tgt /\ s.ip = r.ip /\ s.k = r.k
       /\ s.call = r.call /\ s.path = r.path /\ s.par = r.par /\ s.dp = r.dp /\ s.old = r.old
  BY <1>3, <1>21 DEF LocType, InodeLabels
<1>23. loc' = [loc EXCEPT ![p] = s]
  BY <1>1, <1>14, <1>21
<1>24. loc'[p] = s /\ Solo(p)
  BY <1>14, <1>22, <1>23, Goes DEF Solo
<1>25. ~Fresh(s) /\ ~Fresh(r) /\ Stage(s) = Stage(r) /\ Pending(s) = Pending(r)
  BY <1>3, <1>22 DEF Fresh, Stage, Puts, Pending
<1>26. LockOk' /\ \A j \in Inums : lock'[j] # NoCpu => lock[j] # NoCpu
  <2>1. Locked(s) = Locked(r) \ {i}
    BY <1>2, <1>3, <1>6, <1>22, <1>25 DEF Locked
  <2> QED BY <2>1, <1>1, <1>4, <1>14, <1>24, LocksFreed DEF Icache!Unlock
<1>27. lock' \in [Inums -> Procs \cup {NoCpu}] /\ lock'[i] = NoCpu
  BY <1>4, <1>7, <1>14 DEF Icache!Unlock
<1>28. MemOk'
  <2>1. MemOk
    BY InvParts
  <2> QED BY <2>1, <1>10, <1>13, <1>14, <1>16, <1>18, <1>26, <1>27 DEF MemOk
<1>29. LinksOk'
  <2>1. Typed /\ LinksOk /\ \A x \in Inums : x # 0
    BY InvParts DEF Icache!Configuration
  <2>2. \A b \in Inums, a \in Plain : ent[b][a] # i /\ ~IsDir(dinode, ent[i][a])
    <3>1. \A b \in Inums, a \in Plain : ent[b][a] = i => dinode[i].nlink >= 1
      BY <2>1, <1>6, LinkedCounted
    <3>2. \A a \in Plain : IsDir(dinode, ent[i][a]) => dinode[i].nlink >= 1
      BY <2>1, <1>4, LinkedCounted
    <3> QED BY <3>1, <3>2, <1>5
  <2>3. ASSUME NEW b \in Inums, NEW a \in Plain
        PROVE  /\ ent'[b][a] = IF b = i THEN 0 ELSE ent[b][a]
               /\ Up(dinode', ent', b, a) = Up(dinode, ent, b, a)
    <3>1. a \in Icache!Names
      BY DEF Icache!Names
    <3>2. ent'[b][a] = IF b = i THEN 0 ELSE ent[b][a]
      BY <3>1, <1>19, <1>20
    <3>3. ent[b][a] \in Ptrs /\ ent[b][a] # i
      BY <3>1, <2>2, <1>7
    <3>4. CASE b = i
      BY <3>2, <3>4, <2>2 DEF Up, IsDir
    <3>5. CASE b # i
      BY <3>2, <3>3, <3>5, <1>18 DEF Up, IsDir, Ptrs
    <3> QED BY <3>2, <3>4, <3>5
  <2>4. \A q \in Procs : Pending(loc'[q]) = Pending(loc[q])
    BY <1>1, <1>24, <1>25 DEF Solo
  <2>5. Icache!Freed = {i}
    <3>1. dinode[i].type # "free"
      BY <1>4, InvParts DEF AliveOk
    <3> QED BY <3>1, <1>4, <1>16, <1>18 DEF Icache!Freed
  <2>6. \A x : x \in orphans' <=> x # 0 /\ (x \in orphans \/ \E a \in Plain : ent[i][a] = x)
    <3>1. PICK L : L = {ent[dn[1]][dn[2]] : dn \in {i} \X Plain}
      OBVIOUS
    <3>2. \A x \in L : \E a \in Plain : ent[i][a] = x
      BY <3>1
    <3>3. ASSUME NEW a \in Plain
          PROVE  ent[i][a] \in L
      <4>1. PICK dn \in {i} \X Plain : dn = <<i, a>>
        OBVIOUS
      <4>2. dn[1] = i /\ dn[2] = a
        BY <4>1
      <4> QED BY <4>2, <3>1
    <3>4. orphans' = (orphans \cup L) \ {0}
      BY <3>1, <2>5 DEF Icache!Forget
    <3> QED BY <3>2, <3>3, <3>4
  <2>7. orphans' \subseteq Inums
    <3>1. \A a \in Plain : ent[i][a] \in Ptrs
      BY <1>4, <1>7 DEF Icache!Names
    <3> QED BY <3>1, <2>1, <2>6 DEF LinksOk, Ptrs
  <2>8. ASSUME NEW j \in Inums
        PROVE  /\ Count(Links(dinode', ent', loc'), j) <= dinode'[j].nlink
               /\ Count(Links(dinode', ent', loc'), j) = dinode'[j].nlink <=> j \notin orphans'
    <3>1. PICK n1, c1, c2 : /\ n1 = dinode[j].nlink /\ c1 = Count(Links(dinode, ent, loc), j)
                            /\ c2 = Count(Links(dinode', ent', loc'), j)
      OBVIOUS
    <3>2. dinode'[j].nlink = n1 /\ n1 \in Nat /\ c1 <= n1 /\ (c1 = n1 <=> j \notin orphans)
      BY <3>1, <2>1, <1>5, <1>16, <1>18 DEF LinksOk, Typed, Dinodes
    <3>3. CASE \E a \in Plain : ent[i][a] = j
      <4>1. PICK a \in Plain : ent[i][a] = j
        BY <3>3
      <4>2. \A b \in Inums, z \in Plain :
               ent'[b][z] \in {ent[b][z], 0} /\ Up(dinode', ent', b, z) = Up(dinode, ent, b, z)
        BY <2>3
      <4>3. ent'[i][a] = 0
        BY <2>3, <1>4
      <4>4. c1 \in Nat /\ c2 \in Nat /\ c2 < c1
        BY <4>1, <4>2, <4>3, <3>1, <2>4, <1>4, LinksLess
      <4>5. j \in orphans'
        BY <4>1, <2>1, <2>6
      <4> QED BY <4>4, <4>5, <3>1, <3>2
    <3>4. CASE ~ \E a \in Plain : ent[i][a] = j
      <4>1. \A b \in Inums, z \in Plain : /\ ent'[b][z] = j <=> ent[b][z] = j
                                          /\ Up(dinode', ent', b, z) = Up(dinode, ent, b, z)
        BY <3>4, <2>1, <2>3
      <4>2. c2 = c1
        BY <4>1, <3>1, <2>4, LinksSame
      <4>3. j \in orphans' <=> j \in orphans
        BY <3>4, <2>1, <2>6
      <4> QED BY <4>2, <4>3, <3>1, <3>2
    <3> QED BY <3>3, <3>4
  <2> QED BY <2>7, <2>8 DEF LinksOk
<1>30. DirsOk'
  <2>1. DirsOk
    BY InvParts
  <2>2. ASSUME NEW q \in Procs, Fresh(loc[q])
        PROVE  Fresh(loc'[q]) /\ loc'[q].ip = loc[q].ip
    BY <2>2, <1>1, <1>24, <1>25 DEF Solo
  <2>3. "." \in Icache!Names
    BY DEF Icache!Names
  <2> QED BY <2>1, <2>2, <2>3, <1>16, <1>18, <1>19, <1>20 DEF DirsOk
<1>31. \A a \in Inums, b \in Plain : ent'[a][b] # 0 => a # i /\ ent'[a] = ent[a]
  BY <1>19, <1>20 DEF Icache!Names
<1>32. \A j \in Inums : j # 0
  BY DEF Icache!Configuration
<1>33. TreeOk'
  <2>1. TreeOk
    BY InvParts
  <2>2. SUFFICES ASSUME NEW j \in Inums, NEW a \in Inums, NEW b \in Plain,
                        ent'[a][b] = j, dinode'[j].type = "dir"
                 PROVE  /\ ent'[j][".."] = a /\ ent'[j]["."] = j
                        /\ \A e \in Inums, c \in Plain : ent'[e][c] = j => e = a /\ c = b
    BY DEF TreeOk
  <2>3. j # i /\ ent'[j] = ent[j] /\ dinode[j].type = "dir" /\ ent[a][b] = j
    BY <2>2, <1>16, <1>18, <1>20, <1>31, <1>32
  <2>4. /\ ent[j][".."] = a /\ ent[j]["."] = j
        /\ \A e \in Inums, c \in Plain : ent[e][c] = j => e = a /\ c = b
    BY <2>1, <2>3 DEF TreeOk
  <2> QED BY <2>3, <2>4, <1>31, <1>32
<1>34. NoPair'
  <2>1. NoPair
    BY InvParts
  <2> QED BY <2>1, <1>31, <1>32 DEF NoPair
<1>35. LocOk(s)
  BY <1>3, <1>22, <1>25 DEF LocOk, Puts, HasName
<1>36. CallOk(s, cwd[p])'
  <2>1. \A x \in {r.ip, r.dp, r.old} : x # 0 => dinode'[x] = dinode[x]
    BY <1>1, <1>6, <1>18, LocFacts DEF Ptrs
  <2>2. Stage(r) \in DirIp => r.ip # 0
    BY <1>3 DEF LocOk, DirIp, NoIp
  <2> QED BY <2>1, <2>2, <1>3, <1>14, <1>22, <1>25 DEF CallOk
<1>37. Alone(p)'
  BY <1>22, <1>24, <1>25 DEF Alone
<1>38. Confined(p)
  BY <1>1, <1>2, <1>3, <1>4, <1>5, <1>18, <1>20 DEF Confined
<1>39. \A j \in HaveOf(s, cwd[p], file[p]) : j \in Reach(p) /\ dinode'[j].type # "free"
  <2>1. \A j \in HaveOf(s, cwd[p], file[p]) : j \in Have(p) /\ j # i
    BY <1>1, <1>6, <1>22 DEF HaveOf, Have, Others
  <2>2. \A j \in Have(p) : j \in Reach(p) /\ j \in Inums /\ dinode[j].type # "free"
    BY HaveReach DEF Reach
  <2> QED BY <2>1, <2>2, <1>18
<1>40. \A j \in Inums : mem'[j].ref - Uses(s, cwd[p], file[p], j) = mem[j].ref - Uses(r, cwd[p], file[p], j)
  BY <1>10, <1>13, <1>14, <1>22 DEF Uses
<1>41. UNCHANGED <<cwd, file, halted>> /\ mem' \in [Inums -> Slots]
  BY <1>13, <1>14
<1> QED BY <1>1, <1>18, <1>20, <1>22, <1>23, <1>26, <1>27, <1>28, <1>29, <1>30, <1>33, <1>34, <1>35,
           <1>36, <1>37, <1>38, <1>39, <1>40, <1>41, BusyStep

(* ialloc finds a free inode if there is one.                              *)
LEMMA FreeFirst ==
    ASSUME Icache!Configuration, Icache!FreeInums # {}, NEW i,
           i = (CHOOSE j \in Icache!FreeInums : \A h \in Icache!FreeInums : j \leq h)
    PROVE  i \in Inums /\ dinode[i].type = "free"
<1>1. PICK S : S = Icache!FreeInums
  OBVIOUS
<1>2. S \subseteq Nat /\ S # {}
  BY <1>1 DEF Icache!FreeInums, Icache!Configuration
<1>3. PICK s \in S : \A t \in S : ~(<<t, s>> \in OpToRel(<, Nat))
  BY <1>2, WFMin, NatLessThanWellFounded
<1>4. s \in Nat /\ \A t \in S : t \in Nat /\ ~(t < s)
  BY <1>2, <1>3 DEF OpToRel
<1>5. \A t \in S : s \leq t
  BY <1>4
<1>6. i \in S
  BY <1>1, <1>3, <1>5
<1> QED BY <1>1, <1>6 DEF Icache!FreeInums

(* A directory that a process has, unless it has just made it, has a ".":  *)
(* a name that is not there is a plain one.                                *)
LEMMA DotThere ==
    ASSUME Icache!Configuration, InodeInv, NEW p \in Procs,
           NEW d \in Have(p), dinode[d].type = "dir", ~Fresh(loc[p])
    PROVE  d \in Inums /\ ent[d]["."] = d
<1>1. d \in Inums
  BY HaveReach DEF Reach
<1>2. \A q \in Procs : ~(Fresh(loc[q]) /\ loc[q].ip = d)
  BY InvParts DEF Alone
<1> QED BY <1>1, <1>2, InvParts DEF DirsOk

(* Nothing leads to an inode without links.                                *)
LEMMA Unnamed ==
    ASSUME Icache!Configuration, InodeInv, NEW i \in Inums, dinode[i].nlink = 0
    PROVE  \A d \in Inums, n \in Plain : ent[d][n] # i
<1>1. Typed /\ LinksOk
  BY InvParts
<1>2. \A d \in Inums, n \in Plain : ent[d][n] # 0 => dinode[ent[d][n]].nlink >= 1
  BY <1>1, LinkedCounted
<1>3. i # 0
  BY DEF Icache!Configuration
<1> QED BY <1>2, <1>3

(* create takes a new inode.                                               *)
LEMMA CreateFreshStep ==
    ASSUME Icache!Configuration, InodeInv, Icache!Forget, NEW p \in Procs,
           Icache!create_dp(p), ent[loc[p].ip][loc[p].path[1]] = 0
    PROVE  InodeInv'
<1>1. PICK r : r = loc[p]
  OBVIOUS
<1>2. r.pc = "create_dp" /\ r.pc \in LockedIp
  BY <1>1 DEF Icache!create_dp, Icache!At, LockedIp
<1>3. /\ r \in LocType /\ LocOk(r) /\ CallOk(r, cwd[p]) /\ Stage(r) = r.pc /\ r.k = "idle"
      /\ r.tgt = 0 /\ r.ip \in Inums /\ r.ip \in Locked(r) /\ r.ip \in Have(p)
  BY <1>1, <1>2, LockedIpFacts
<1>4. /\ r.old = 0 /\ r.dp = 0 /\ r.path # <<>> /\ r.path \in Seq(Icache!Names) /\ r.call.op = "create"
      /\ r.ip # 0 /\ dinode[r.ip].type = "dir" /\ cwd[p] # 0
  BY <1>1, <1>2, <1>3, LocFacts DEF LocOk, MayOld, HasDp, HasName, NoIp, CallOk, DirIp
<1>5. ~Fresh(r) /\ Locked(r) = {r.ip}
  BY <1>2, <1>3 DEF Fresh, Locked, LockedIp, HasDp
<1>6. PICK c : c = r.call
  OBVIOUS
<1>7. c \in Calls /\ c.type \in Icache!Types
  <2>1. c \in Calls \cup {NoCall} /\ c.op = "create"
    BY <1>1, <1>4, <1>6, LocFacts
  <2>2. NoCall.op = "none"
    BY DEF NoCall
  <2>3. c \in Calls
    BY <2>1, <2>2
  <2> QED BY <2>1, <2>3 DEF Icache!Configuration, Icache!WellFormed
<1>8. r.path[1] \in Plain /\ ent[r.ip][r.path[1]] = 0
  <2>1. /\ r.path[1] \in Icache!Names
        /\ r.path[1] = ".." => r.call.op = "unlink" /\ Len(r.path) = 1
    BY <1>3, <1>4, TailDown DEF LocOk
  <2>2. ent[r.ip]["."] = r.ip
    BY <1>1, <1>3, <1>4, <1>5, DotThere
  <2> QED BY <2>1, <2>2, <1>1, <1>4 DEF Icache!Names
<1>9. PICK i : i = (CHOOSE j \in Icache!FreeInums : \A h \in Icache!FreeInums : j \leq h)
  OBVIOUS
<1>10. CASE Icache!FreeInums = {} \/ Icache!NoSlot(i)
  <2>1. Icache!Panic("full")
    BY <1>1, <1>8, <1>9, <1>10 DEF Icache!create_dp
  <2> QED BY <2>1, PanicStep
<1>11. CASE ~(Icache!FreeInums = {} \/ Icache!NoSlot(i))
  <2>1. i \in Inums /\ dinode[i].type = "free"
    BY <1>9, <1>11, FreeFirst
  <2>2. i # r.ip /\ i # 0 /\ dinode[i].nlink = 0 /\ mem[i].valid = FALSE /\ lock[i] = NoCpu
    <3>1. MemOk /\ mem \in [Inums -> Slots]
      BY InvParts DEF Typed
    <3>2. dinode[i].nlink = 0 /\ ~mem[i].valid
      BY <3>1, <2>1 DEF MemOk
    <3>3. lock[i] = NoCpu
      BY <3>1, <3>2, <2>1 DEF MemOk
    <3>4. mem[i].valid \in BOOLEAN
      BY <3>1, <2>1 DEF Slots
    <3> QED BY <3>2, <3>3, <3>4, <2>1, <1>4 DEF Icache!Configuration
  <2>3. PICK v : v = [type |-> c.type, nlink |-> 0]
    OBVIOUS
  <2>4. v \in Dinodes /\ v.type = c.type /\ v.nlink = 0
    BY <2>3, <1>7 DEF Dinodes
  <2>5. PICK s : s = [r EXCEPT !.pc = "new", !.dp = r.ip, !.ip = i]
    OBVIOUS
  <2>6. /\ s \in LocType /\ s.pc = "new" /\ s.dp = r.ip /\ s.ip = i /\ s.k = r.k
        /\ s.call = r.call /\ s.path = r.path /\ s.par = r.par /\ s.tgt = r.tgt /\ s.old = r.old
    BY <2>1, <2>5, <1>3 DEF LocType, InodeLabels, Ptrs
  <2>7. /\ dinode' = [dinode EXCEPT ![i] = v] /\ mem' = Icache!iget(mem, i) /\ Icache!Set(p, s)
        /\ UNCHANGED <<lock, ent, cwd, file, halted>>
    BY <2>3, <2>5, <1>1, <1>6, <1>8, <1>9, <1>11 DEF Icache!create_dp
  <2>8. loc' = [loc EXCEPT ![p] = s]
    BY <2>6, <2>7 DEF Icache!Set
  <2>9. loc'[p] = s /\ Solo(p)
    BY <2>6, <2>7, <2>8, Goes DEF Solo
  <2>10. /\ dinode \in [Inums -> Dinodes] /\ ent \in [Inums -> [Icache!Names -> Ptrs]]
         /\ lock \in [Inums -> Procs \cup {NoCpu}] /\ mem \in [Inums -> Slots]
    BY InvParts DEF Typed
  <2>11. dinode' \in [Inums -> Dinodes] /\ \A j \in Inums : dinode'[j] = IF j = i THEN v ELSE dinode[j]
    BY <2>4, <2>7, <2>10
  <2>12. /\ mem' \in [Inums -> Slots]
         /\ \A j \in Inums : /\ mem'[j].valid = mem[j].valid /\ mem'[j].type = mem[j].type
                             /\ mem'[j].nlink = mem[j].nlink
                             /\ mem'[j].ref = mem[j].ref + Is(i, j)
    BY <2>1, <2>7, IgetFacts
  <2>13. \A d \in Inums, n \in Plain : ent[d][n] # i
    BY <2>1, <2>2, Unnamed
  <2>14. Fresh(s) /\ Stage(s) = "new" /\ Locked(s) = Locked(r) /\ Pending(s) = Pending(r) /\ s.pc # "ifree"
    BY <2>6, <1>2, <1>3, <1>5 DEF Fresh, Stage, Puts, Locked, LockedIp, HasDp, Pending
  <2>15. LockOk'
    BY <2>7, <2>9, <2>14, <1>1, LocksSame
  <2>16. MemOk'
    <3>1. MemOk /\ c.type # "free"
      BY <1>7, InvParts DEF Icache!Types
    <3> QED BY <3>1, <2>2, <2>4, <2>7, <2>11, <2>12 DEF MemOk
  <2>17. LinksOk'
    <3>1. \A b \in Inums, a \in Plain : /\ ent'[b][a] = ent[b][a]
                                        /\ Up(dinode', ent', b, a) = Up(dinode, ent, b, a)
      <4>1. SUFFICES ASSUME NEW b \in Inums, NEW a \in Plain
                     PROVE  /\ ent'[b][a] = ent[b][a]
                            /\ Up(dinode', ent', b, a) = Up(dinode, ent, b, a)
        OBVIOUS
      <4>2. ent'[b][a] = ent[b][a] /\ ent[b][a] \in Ptrs /\ ent[b][a] # i
        BY <2>7, <2>10, <2>13 DEF Icache!Names
      <4>3. IsDir(dinode', ent'[b][a]) <=> IsDir(dinode, ent[b][a])
        BY <4>2, <2>11 DEF IsDir, Ptrs
      <4> QED BY <4>2, <4>3 DEF Up
    <3>2. \A q \in Procs : Pending(loc'[q]) = Pending(loc[q])
      BY <1>1, <2>9, <2>14 DEF Solo
    <3>3. ASSUME NEW j \in Inums
          PROVE  Balance(j)
      <4>1. /\ Count(Links(dinode, ent, loc), j) \in Nat /\ Count(Links(dinode', ent', loc'), j) \in Nat
            /\ Count(Links(dinode', ent', loc'), j) = Count(Links(dinode, ent, loc), j)
        BY <3>1, <3>2, LinksSame
      <4>2. dinode'[j].nlink = dinode[j].nlink
        BY <2>2, <2>4, <2>11
      <4> QED BY <4>1, <4>2 DEF Balance
    <3>4. \A j \in Inums : dinode[j].type = "free" \/ dinode'[j].type # "free"
      <4>1. c.type # "free"
        BY <1>7 DEF Icache!Types
      <4> QED BY <4>1, <2>2, <2>4, <2>11
    <3> QED BY <3>3, <3>4, <2>11, LinksBalance
  <2>18. DirsOk'
    <3>1. DirsOk
      BY InvParts
    <3>2. ASSUME NEW q \in Procs, Fresh(loc[q])
          PROVE  Fresh(loc'[q]) /\ loc'[q].ip = loc[q].ip
      BY <3>2, <1>1, <1>5, <2>9 DEF Solo
    <3>3. Fresh(loc'[p]) /\ loc'[p].ip = i
      BY <2>6, <2>9, <2>14
    <3>4. ent[i] = Icache!Empty
      BY <3>1, <2>1 DEF DirsOk
    <3>5. ASSUME NEW j \in Inums
          PROVE  /\ dinode'[j].type # "dir" => ent'[j] = Icache!Empty
                 /\ ent'[j]["."] \in {0, j}
                 /\ dinode'[j].type = "dir" => ent'[j]["."] = j \/ \E q \in Procs : Fresh(loc'[q]) /\ loc'[q].ip = j
      BY <3>1, <3>2, <3>3, <3>4, <2>7, <2>11 DEF DirsOk
    <3> QED BY <3>5 DEF DirsOk
  <2>19. TreeOk' /\ NoPair'
    <3>1. TreeOk /\ NoPair
      BY InvParts
    <3>2. NoPair'
      BY <3>1, <2>7 DEF NoPair
    <3>3. TreeOk'
      BY <3>1, <2>7, <2>11, <2>13 DEF TreeOk
    <3> QED BY <3>2, <3>3
  <2>20. LocOk(s)
    BY <2>6, <2>14, <2>2, <1>2, <1>3, <1>4, <1>8 DEF LocOk, Puts, NoIp, HasDp, HasOld, MayOld, HasName
  <2>21. CallOk(s, cwd[p])'
    <3>1. dinode'[r.ip].type = "dir" /\ dinode'[i].type = c.type /\ dinode'[i].nlink = 0
      BY <2>1, <2>2, <2>4, <2>11, <1>3, <1>4
    <3>2. ent'[i] = Icache!Empty
      BY <2>1, <2>7, InvParts DEF DirsOk
    <3> QED BY <3>1, <3>2, <2>2, <2>6, <2>7, <2>14, <1>4, <1>6, <1>8 DEF CallOk, DirIp
  <2>22. Alone(p)'
    <3>1. \A q \in Procs \ {p} : Have(q)' = Have(q) /\ i \notin Have(q)
      BY <2>1, <2>9, InvParts DEF Solo, Have, AliveOk
    <3> QED BY <3>1, <2>6, <2>9, <2>14 DEF Alone
  <2>23. Confined(p)
    BY <2>1, <2>7, <2>11 DEF Confined
  <2>24. \A j \in HaveOf(s, cwd[p], file[p]) : /\ j \in Reach(p) \/ dinode[j].type = "free"
                                               /\ dinode'[j].type # "free"
    <3>1. HaveOf(s, cwd[p], file[p]) \subseteq Have(p) \cup {i}
      BY <2>6, <1>1, <1>4 DEF HaveOf, Have, Others
    <3>2. \A j \in Have(p) : j \in Reach(p) /\ j \in Inums /\ dinode[j].type # "free"
      BY HaveReach DEF Reach
    <3>3. dinode'[i].type # "free"
      BY <2>1, <2>4, <2>11, <1>7 DEF Icache!Types
    <3> QED BY <3>1, <3>2, <3>3, <2>1, <2>11
  <2>25. \A j \in Inums : mem'[j].ref - Uses(s, cwd[p], file[p], j) = mem[j].ref - Uses(r, cwd[p], file[p], j)
    <3>1. \A j \in Inums : j # 0
      BY DEF Icache!Configuration
    <3>2. \A j \in Inums : Uses(s, cwd[p], file[p], j) = Uses(r, cwd[p], file[p], j) + Is(i, j)
      BY <3>1, <2>6, <1>4 DEF Uses, Is
    <3>3. \A j \in Inums : mem[j].ref \in Nat /\ Is(i, j) \in Nat /\ Uses(r, cwd[p], file[p], j) \in Nat
      BY <2>10 DEF Slots, Is, Uses
    <3> QED BY <3>2, <3>3, <2>12
  <2>26. /\ UNCHANGED <<cwd, file, halted>> /\ mem' \in [Inums -> Slots]
         /\ ent' \in [Inums -> [Icache!Names -> Ptrs]] /\ lock' \in [Inums -> Procs \cup {NoCpu}]
    BY <2>7, <2>10, <2>12
  <2> QED BY <1>1, <2>6, <2>8, <2>11, <2>15, <2>16, <2>17, <2>18, <2>19, <2>20, <2>21, <2>22, <2>23, <2>24,
             <2>25, <2>26, BusyStep
<1> QED BY <1>10, <1>11

(* A process at a label where it has dp and ip, both locked.               *)
LEMMA LockedDpFacts ==
    ASSUME Icache!Configuration, InodeInv, NEW p \in Procs,
           NEW r, r = loc[p], r.pc \in {"create_new", "unlink_ip"}
    PROVE  /\ r.dp \in Inums /\ r.dp \in Locked(r) /\ r.dp \in Have(p) /\ lock[r.dp] = p /\ r.dp # 0
           /\ mem[r.dp].valid /\ mem[r.dp].type = dinode[r.dp].type /\ mem[r.dp].nlink = dinode[r.dp].nlink
           /\ dinode[r.dp].type = "dir" /\ r.old = 0 /\ r.path[1] \in Plain /\ Pending(r) = 0
           /\ Locked(r) = {r.ip, r.dp} /\ cwd[p] # 0 /\ r.ip # 0
<1>1. r \in LocType /\ LocOk(r) /\ CallOk(r, cwd[p]) /\ r.dp \in Ptrs
  BY InvParts, LocFacts
<1>2. /\ Stage(r) = r.pc /\ r.dp # 0 /\ r.old = 0 /\ r.path[1] \in Plain /\ r.ip # 0
      /\ Locked(r) = {r.ip, r.dp}
  BY <1>1 DEF Stage, Puts, LocOk, NoIp, HasDp, MayOld, Locked, LockedIp
<1>3. r.dp \in Inums /\ r.dp \in Have(p)
  BY <1>1, <1>2 DEF Ptrs, Have, HaveOf, Others
<1>4. lock[r.dp] = p /\ lock[r.dp] # NoCpu
  <2>1. LockOk /\ NoCpu \notin Procs
    BY InvParts DEF Icache!Configuration
  <2>2. r.dp \in Locked(loc[p])
    BY <1>2
  <2> QED BY <2>1, <2>2, <1>3 DEF LockOk
<1>5. mem[r.dp].valid /\ mem[r.dp].type = dinode[r.dp].type /\ mem[r.dp].nlink = dinode[r.dp].nlink
  BY <1>3, <1>4, InvParts DEF MemOk
<1>6. dinode[r.dp].type = "dir" /\ cwd[p] # 0
  BY <1>1, <1>2 DEF CallOk
<1>7. Pending(r) = 0
  BY <1>2 DEF Pending
<1> QED BY <1>2, <1>3, <1>4, <1>5, <1>6, <1>7

(* dirlink enters the name.                                                *)
LEMMA LinkEnterStep ==
    ASSUME Icache!Configuration, InodeInv, Icache!Forget, NEW p \in Procs,
           Icache!link_dp(p), ent[loc[p].ip][loc[p].path[1]] = 0
    PROVE  InodeInv'
<1>1. PICK r : r = loc[p]
  OBVIOUS
<1>2. r.pc = "link_dp" /\ r.pc \in LockedIp
  BY <1>1 DEF Icache!link_dp, Icache!At, LockedIp
<1>3. PICK d : d = r.ip
  OBVIOUS
<1>4. /\ r \in LocType /\ LocOk(r) /\ CallOk(r, cwd[p]) /\ Stage(r) = r.pc /\ r.k = "idle"
      /\ r.tgt = 0 /\ d \in Inums /\ d \in Locked(r) /\ d \in Have(p) /\ lock[d] = p
  BY <1>1, <1>2, <1>3, LockedIpFacts
<1>5. /\ r.old # 0 /\ r.dp = 0 /\ r.path # <<>> /\ r.path \in Seq(Icache!Names) /\ r.call.op = "link"
      /\ d # 0 /\ dinode[d].type = "dir" /\ cwd[p] # 0 /\ dinode[r.old].type # "dir"
  BY <1>1, <1>2, <1>3, <1>4, LocFacts DEF LocOk, HasOld, HasDp, HasName, NoIp, CallOk, DirIp
<1>6. ~Fresh(r) /\ Locked(r) = {d} /\ Pending(r) = r.old
  BY <1>2, <1>3, <1>4 DEF Fresh, Locked, LockedIp, HasDp, Pending
<1>7. PICK o : o = r.old
  OBVIOUS
<1>8. o \in Inums /\ o \in Have(p) /\ o # d
  BY <1>1, <1>5, <1>7, LocFacts DEF Ptrs, Have, HaveOf, Others
<1>9. PICK n : n = r.path[1]
  OBVIOUS
<1>10. n \in Plain /\ ent[d][n] = 0 /\ n \in Icache!Names /\ n # "." /\ n # ".."
  <2>1. /\ r.path[1] \in Icache!Names
        /\ r.path[1] = ".." => r.call.op = "unlink" /\ Len(r.path) = 1
    BY <1>4, <1>5, TailDown DEF LocOk
  <2>2. ent[d]["."] = d
    BY <1>1, <1>4, <1>5, <1>6, DotThere
  <2> QED BY <2>1, <2>2, <1>1, <1>3, <1>5, <1>9 DEF Icache!Names
<1>11. PICK s : s = Icache!PutThen(r, "ip", "put_old")
  OBVIOUS
<1>12. /\ s \in LocType /\ s.pc = "iput" /\ s.tgt = r.ip /\ s.ip = 0 /\ s.k = "put_old"
       /\ s.call = r.call /\ s.path = r.path /\ s.par = r.par /\ s.dp = r.dp /\ s.old = r.old
  BY <1>4, <1>11, PutIp DEF Afters
<1>13. /\ ent' = [ent EXCEPT ![d][n] = o] /\ Icache!Unlock(d) /\ Icache!Set(p, s)
       /\ UNCHANGED <<dinode, mem, cwd, file, halted>>
  BY <1>1, <1>3, <1>7, <1>9, <1>10, <1>11 DEF Icache!link_dp
<1>14. /\ dinode \in [Inums -> Dinodes] /\ ent \in [Inums -> [Icache!Names -> Ptrs]]
       /\ lock \in [Inums -> Procs \cup {NoCpu}] /\ mem \in [Inums -> Slots]
  BY InvParts DEF Typed
<1>15. PICK E \in [Icache!Names -> Ptrs] : E = [ent[d] EXCEPT ![n] = o]
  BY <1>4, <1>8, <1>14 DEF Ptrs
<1>16. \A a \in Icache!Names : E[a] = IF a = n THEN o ELSE ent[d][a]
  BY <1>4, <1>14, <1>15
<1>17. ent' = [ent EXCEPT ![d] = E]
  BY <1>13, <1>14, <1>15
<1>18. ent' \in [Inums -> [Icache!Names -> Ptrs]] /\ \A j \in Inums : ent'[j] = IF j = d THEN E ELSE ent[j]
  BY <1>14, <1>15, <1>17
<1>19. \A b \in Inums, a \in Icache!Names : ent'[b][a] = IF b = d /\ a = n THEN o ELSE ent[b][a]
  BY <1>16, <1>18
<1>20. loc' = [loc EXCEPT ![p] = s]
  BY <1>12, <1>13 DEF Icache!Set
<1>21. loc'[p] = s /\ Solo(p)
  BY <1>12, <1>13, <1>20, Goes DEF Solo
<1>22. Stage(s) = "put_old" /\ Locked(s) = {} /\ ~Fresh(s) /\ s.pc # "ifree" /\ Pending(s) = 0
  BY <1>12 DEF Stage, Puts, Locked, LockedIp, HasDp, Fresh, Pending
<1>23. LockOk' /\ \A j \in Inums : lock'[j] # NoCpu => lock[j] # NoCpu
  <2>1. Locked(s) = Locked(r) \ {d}
    BY <1>6, <1>22
  <2> QED BY <2>1, <1>1, <1>4, <1>13, <1>21, LocksFreed DEF Icache!Unlock
<1>24. lock' \in [Inums -> Procs \cup {NoCpu}]
  BY <1>13, <1>14 DEF Icache!Unlock
<1>25. MemOk'
  BY <1>13, <1>23, MemKept
<1>26. Plain \subseteq Icache!Names /\ "." \in Icache!Names /\ ".." \in Icache!Names
  BY DEF Icache!Names
<1>27. LinksOk'
  <2>1. ASSUME NEW b \in Inums, NEW a \in Plain, ~(b = d /\ a = n)
        PROVE  ent'[b][a] = ent[b][a] /\ Up(dinode', ent', b, a) = Up(dinode, ent, b, a)
    BY <2>1, <1>13, <1>19, <1>26 DEF Up
  <2>2. \A q \in Procs \ {p} : Pending(loc'[q]) = Pending(loc[q])
    BY <1>21 DEF Solo
  <2>3. ent'[d][n] = o /\ ent[d][n] = 0 /\ Up(dinode', ent', d, n) = 0 /\ Up(dinode, ent, d, n) = 0
    BY <1>4, <1>5, <1>7, <1>10, <1>13, <1>19 DEF Up, IsDir
  <2>4. ASSUME NEW j \in Inums
        PROVE  Balance(j)
    <3>1. /\ Count(Links(dinode, ent, loc), j) \in Nat /\ Count(Links(dinode', ent', loc'), j) \in Nat
          /\ Count(Links(dinode', ent', loc'), j)
               - (Is(ent'[d][n], j) + Is(Up(dinode', ent', d, n), j) + Is(Pending(loc'[p]), j))
             = Count(Links(dinode, ent, loc), j)
               - (Is(ent[d][n], j) + Is(Up(dinode, ent, d, n), j) + Is(Pending(loc[p]), j))
      BY <2>1, <2>2, <1>4, <1>10, LinksChange
    <3>2. dinode[j].nlink \in Nat
      BY InvParts DEF Typed, Dinodes
    <3>3. Pending(loc'[p]) = 0 /\ Pending(loc[p]) = o /\ Is(0, j) \in Nat /\ Is(o, j) \in Nat
      BY <1>1, <1>6, <1>7, <1>21, <1>22 DEF Is
    <3>4. Count(Links(dinode', ent', loc'), j) = Count(Links(dinode, ent, loc), j)
      BY <3>1, <3>3, <2>3
    <3> QED BY <3>1, <3>2, <3>4, <1>13 DEF Balance
  <2>5. /\ dinode' \in [Inums -> Dinodes]
        /\ \A j \in Inums : dinode[j].type = "free" \/ dinode'[j].type # "free"
    BY <1>13, InvParts DEF Typed
  <2> QED BY <2>4, <2>5, LinksBalance
<1>28. DirsOk'
  <2>1. DirsOk
    BY InvParts
  <2>2. ASSUME NEW q \in Procs, Fresh(loc[q])
        PROVE  Fresh(loc'[q]) /\ loc'[q].ip = loc[q].ip
    BY <2>2, <1>1, <1>6, <1>21 DEF Solo
  <2>3. \A j \in Inums : ent'[j]["."] = ent[j]["."] /\ (j # d => ent'[j] = ent[j])
    BY <1>10, <1>18, <1>19, <1>26
  <2> QED BY <2>1, <2>2, <2>3, <1>5, <1>13 DEF DirsOk
<1>29. \A j \in Inums : j # 0
  BY DEF Icache!Configuration
<1>30. TreeOk'
  <2>1. TreeOk
    BY InvParts
  <2>2. SUFFICES ASSUME NEW j \in Inums, NEW a \in Inums, NEW b \in Plain,
                        ent'[a][b] = j, dinode'[j].type = "dir"
                 PROVE  /\ ent'[j][".."] = a /\ ent'[j]["."] = j
                        /\ \A e \in Inums, c \in Plain : ent'[e][c] = j => e = a /\ c = b
    BY DEF TreeOk
  <2>3. j # o /\ dinode[j].type = "dir"
    BY <2>2, <1>5, <1>7, <1>13
  <2>4. \A e \in Inums, c \in Plain : ent'[e][c] = j => ent[e][c] = j
    BY <2>3, <1>19, <1>26
  <2>5. /\ ent[j][".."] = a /\ ent[j]["."] = j
        /\ \A e \in Inums, c \in Plain : ent[e][c] = j => e = a /\ c = b
    BY <2>1, <2>2, <2>3, <2>4 DEF TreeOk
  <2>6. ent'[j][".."] = ent[j][".."] /\ ent'[j]["."] = ent[j]["."]
    BY <1>10, <1>19, <1>26
  <2> QED BY <2>4, <2>5, <2>6
<1>31. NoPair'
  <2>1. NoPair
    BY InvParts
  <2>2. SUFFICES ASSUME NEW a \in Inums, NEW b \in Inums, NEW x \in Plain, NEW y \in Plain,
                        ent'[a][x] = b, ent'[b][y] = a
                 PROVE  FALSE
    BY DEF NoPair
  <2>3. ent[o] = Icache!Empty
    BY <1>5, <1>7, <1>8, InvParts DEF DirsOk
  <2>4. \A z \in Plain : ent'[o][z] = 0
    BY <2>3, <1>8, <1>18, <1>26 DEF Icache!Empty
  <2>5. a # o /\ b # o
    BY <2>2, <2>4, <1>29
  <2>6. ent[a][x] = b /\ ent[b][y] = a
    BY <2>2, <2>5, <1>19, <1>26
  <2> QED BY <2>1, <2>6 DEF NoPair
<1>32. LocOk(s)
  BY <1>2, <1>4, <1>5, <1>12, <1>22, <1>3 DEF LocOk, Puts, NoIp, HasDp, HasOld, MayOld, HasName
<1>33. CallOk(s, cwd[p])'
  BY <1>5, <1>12, <1>13, <1>22 DEF CallOk, DirIp
<1>34. Alone(p)'
  BY <1>21, <1>22 DEF Alone
<1>35. Confined(p)
  BY <1>4, <1>13, <1>18 DEF Confined
<1>36. \A j \in HaveOf(s, cwd[p], file[p]) : j \in Reach(p) /\ dinode'[j].type # "free"
  <2>1. HaveOf(s, cwd[p], file[p]) \subseteq Have(p)
    BY <1>1, <1>3, <1>5, <1>12 DEF HaveOf, Have, Others
  <2> QED BY <2>1, <1>13, HaveReach DEF Reach
<1>37. \A j \in Inums : mem'[j].ref - Uses(s, cwd[p], file[p], j) = mem[j].ref - Uses(r, cwd[p], file[p], j)
  <2>1. \A j \in Inums : Uses(s, cwd[p], file[p], j) = Uses(r, cwd[p], file[p], j)
    BY <1>4, <1>12, <1>29 DEF Uses, Is
  <2> QED BY <2>1, <1>13
<1>38. UNCHANGED <<cwd, file, halted>> /\ mem' \in [Inums -> Slots] /\ dinode' \in [Inums -> Dinodes]
  BY <1>13, <1>14
<1> QED BY <1>1, <1>12, <1>18, <1>20, <1>23, <1>24, <1>25, <1>27, <1>28, <1>30, <1>31, <1>32,
           <1>33, <1>34, <1>35, <1>36, <1>37, <1>38, BusyStep

(* sys_unlink leaves a directory that is not empty.                        *)
LEMMA UnlinkKeepStep ==
    ASSUME Icache!Configuration, InodeInv, Icache!Forget, NEW p \in Procs,
           NEW r, r = loc[p], r.pc = "unlink_ip", r.ip # r.dp,
           Icache!Set(p, Icache!PutThen(r, "ip", "unlink_bad")), Icache!Unlock(r.ip),
           UNCHANGED <<dinode, ent, mem, cwd, file, halted>>
    PROVE  InodeInv'
<1>1. r.pc \in LockedIp
  BY DEF LockedIp
<1>2. /\ r \in LocType /\ LocOk(r) /\ CallOk(r, cwd[p]) /\ Stage(r) = r.pc
  BY <1>1, LockedIpFacts
<1>3. r.dp # 0 /\ r.old = 0 /\ Pending(r) = 0 /\ Locked(r) = {r.ip, r.dp} /\ r.ip # 0
  BY LockedDpFacts
<1>4. PICK s : s = Icache!PutThen(r, "ip", "unlink_bad")
  OBVIOUS
<1>5. "unlink_bad" \in Afters
  BY DEF Afters
<1>6. /\ s \in LocType /\ s.pc = "iput" /\ s.tgt = r.ip /\ s.ip = 0 /\ s.k = "unlink_bad"
      /\ s.call = r.call /\ s.path = r.path /\ s.par = r.par /\ s.dp = r.dp /\ s.old = r.old
  BY <1>2, <1>4, <1>5, PutIp
<1>7. Stage(s) = "unlink_bad" /\ Locked(s) = {r.dp} /\ ~Fresh(r)
  BY <1>6 DEF Stage, Puts, Locked, LockedIp, HasDp, Fresh
<1>8. LocOk(s)
  BY <1>2, <1>3, <1>6, <1>7 DEF LocOk, Puts, NoIp, HasDp, HasOld, MayOld, HasName
<1>9. CallOk(s, cwd[p])
  BY <1>2, <1>3, <1>6, <1>7 DEF CallOk, DirIp, Fresh
<1>10. Pending(s) = Pending(r) /\ Locked(s) = Locked(r) \ {r.ip}
  BY <1>3, <1>6, <1>7 DEF Pending
<1> QED BY <1>1, <1>4, <1>5, <1>7, <1>8, <1>9, <1>10, PutIpStep

(* sys_unlink with both inodes locked: it does not panic, and erases the   *)
(* name.                                                                   *)
LEMMA UnlinkIpStep ==
    ASSUME Icache!Configuration, InodeInv, Icache!Forget, NEW p \in Procs, Icache!unlink_ip(p)
    PROVE  InodeInv'
<1>1. PICK r : r = loc[p]
  OBVIOUS
<1>2. r.pc = "unlink_ip" /\ r.pc \in LockedIp
  BY <1>1 DEF Icache!unlink_ip, Icache!At, LockedIp
<1>3. PICK i : i = r.ip
  OBVIOUS
<1>4. PICK d : d = r.dp
  OBVIOUS
<1>5. PICK n : n = r.path[1]
  OBVIOUS
<1>6. /\ r \in LocType /\ LocOk(r) /\ CallOk(r, cwd[p]) /\ Stage(r) = r.pc /\ r.k = "idle"
      /\ r.tgt = 0 /\ i \in Inums /\ i \in Have(p)
      /\ mem[i].type = dinode[i].type /\ mem[i].nlink = dinode[i].nlink
  BY <1>1, <1>2, <1>3, LockedIpFacts
<1>7. /\ d \in Inums /\ d \in Locked(r) /\ d \in Have(p) /\ lock[d] = p /\ d # 0
      /\ mem[d].valid /\ mem[d].type = dinode[d].type /\ mem[d].nlink = dinode[d].nlink
      /\ dinode[d].type = "dir" /\ r.old = 0 /\ n \in Plain /\ Pending(r) = 0
      /\ Locked(r) = {i, d} /\ cwd[p] # 0 /\ i # 0
  BY <1>1, <1>2, <1>3, <1>4, <1>5, LockedDpFacts
<1>8. ent[d][n] = i
  BY <1>2, <1>3, <1>4, <1>5, <1>6 DEF CallOk
<1>9. i # d
  BY <1>6, <1>7, <1>8, InvParts DEF NoPair
<1>10. /\ dinode[i].nlink >= 1 /\ dinode[i].nlink \in Nat /\ dinode[d].nlink \in Nat
       /\ dinode[i].type = "dir" => dinode[d].nlink >= 1
  <2>1. Typed /\ LinksOk
    BY InvParts
  <2>2. dinode[i].nlink \in Nat /\ dinode[d].nlink \in Nat
    BY <2>1, <1>6, <1>7 DEF Typed, Dinodes
  <2>3. /\ \A a \in Inums, b \in Plain : ent[a][b] # 0 => dinode[ent[a][b]].nlink >= 1
        /\ \A a \in Inums, b \in Plain : IsDir(dinode, ent[a][b]) => dinode[a].nlink >= 1
    BY <2>1, LinkedCounted
  <2>4. dinode[i].nlink >= 1
    BY <2>3, <1>7, <1>8
  <2>5. dinode[i].type = "dir" => dinode[d].nlink >= 1
    BY <2>3, <1>7, <1>8 DEF IsDir
  <2> QED BY <2>2, <2>4, <2>5
<1>11. ~(mem[i].nlink < 1)
  BY <1>6, <1>10
<1>12. CASE mem[i].type = "dir" /\ ~Icache!isdirempty(i)
  <2>1. /\ Icache!Set(p, Icache!PutThen(r, "ip", "unlink_bad")) /\ Icache!Unlock(r.ip)
        /\ UNCHANGED <<dinode, ent, mem, cwd, file, halted>>
    BY <1>1, <1>3, <1>11, <1>12 DEF Icache!unlink_ip
  <2>2. r.ip # r.dp
    BY <1>3, <1>4, <1>9
  <2> QED BY <2>1, <2>2, <1>1, <1>2, UnlinkKeepStep
<1>13. CASE ~(mem[i].type = "dir" /\ ~Icache!isdirempty(i))
  <2>1. PICK s : s = Icache!PutThen(r, "dp", "unlink_end")
    OBVIOUS
  <2>2. /\ s \in LocType /\ s.pc = "iput" /\ s.tgt = r.dp /\ s.dp = 0 /\ s.k = "unlink_end"
        /\ s.call = r.call /\ s.path = r.path /\ s.par = r.par /\ s.ip = r.ip /\ s.old = r.old
    BY <2>1, <1>6, PutDp DEF Afters
  <2>3. /\ ent' = [ent EXCEPT ![d][n] = 0] /\ mem' = Icache!WithoutDotDot(i, d)
        /\ dinode' = Icache!iupdate(dinode, Icache!WithoutDotDot(i, d), d) /\ Icache!Unlock(d)
        /\ Icache!Set(p, s)
        /\ UNCHANGED <<cwd, file, halted>>
    BY <2>1, <1>1, <1>3, <1>4, <1>5, <1>11, <1>13 DEF Icache!unlink_ip
  <2>4. /\ dinode \in [Inums -> Dinodes] /\ ent \in [Inums -> [Icache!Names -> Ptrs]]
        /\ lock \in [Inums -> Procs \cup {NoCpu}] /\ mem \in [Inums -> Slots]
    BY InvParts DEF Typed
  <2>5. PICK k : k = IF dinode[i].type = "dir" THEN 1 ELSE 0
    OBVIOUS
  <2>6. k \in {0, 1} /\ dinode[d].nlink - k \in Nat
    BY <2>5, <1>10
  <2>7. PICK a \in Slots : a = mem[d]
    BY <2>4, <1>7
  <2>8. PICK m : m = [a EXCEPT !.nlink = @ - k]
    OBVIOUS
  <2>9. /\ m \in Slots /\ m.nlink = dinode[d].nlink - k /\ m.ref = a.ref /\ m.valid = a.valid
        /\ m.type = dinode[d].type
    BY <2>6, <2>7, <2>8, <1>7 DEF Slots
  <2>10. mem' = [mem EXCEPT ![d] = m]
    <3>1. CASE mem[i].type = "dir"
      <4>1. mem' = [mem EXCEPT ![d].nlink = @ - 1] /\ k = 1
        BY <3>1, <2>3, <2>5, <1>6 DEF Icache!WithoutDotDot
      <4> QED BY <4>1, <2>4, <2>7, <2>8, <1>7
    <3>2. CASE mem[i].type # "dir"
      <4>1. mem' = mem /\ k = 0
        BY <3>2, <2>3, <2>5, <1>6 DEF Icache!WithoutDotDot
      <4>2. m = a
        BY <4>1, <2>7, <2>8 DEF Slots
      <4> QED BY <4>1, <4>2, <2>4, <2>7, <1>7
    <3> QED BY <3>1, <3>2
  <2>11. mem' \in [Inums -> Slots] /\ \A j \in Inums : mem'[j] = IF j = d THEN m ELSE mem[j]
    BY <2>4, <2>9, <2>10
  <2>12. PICK v : v = [type |-> m.type, nlink |-> m.nlink]
    OBVIOUS
  <2>13. v \in Dinodes /\ v.type = dinode[d].type /\ v.nlink = dinode[d].nlink - k
    BY <2>9, <2>12 DEF Dinodes, Slots
  <2>14. dinode' = [dinode EXCEPT ![d] = v]
    BY <2>3, <2>11, <2>12, <1>7 DEF Icache!iupdate
  <2>15. /\ dinode' \in [Inums -> Dinodes]
         /\ \A j \in Inums : dinode'[j] = IF j = d THEN v ELSE dinode[j]
    BY <2>4, <2>13, <2>14
  <2>16. \A j \in Inums : dinode'[j].type = dinode[j].type
    BY <2>13, <2>15
  <2>17. Plain \subseteq Icache!Names /\ "." \in Icache!Names /\ ".." \in Icache!Names /\ n # "." /\ n # ".."
    BY <1>7 DEF Icache!Names, Icache!Configuration
  <2>18. PICK E \in [Icache!Names -> Ptrs] : E = [ent[d] EXCEPT ![n] = 0]
    BY <2>4, <1>7 DEF Ptrs
  <2>19. \A x \in Icache!Names : E[x] = IF x = n THEN 0 ELSE ent[d][x]
    BY <2>4, <2>18, <1>7
  <2>20. ent' = [ent EXCEPT ![d] = E]
    BY <2>3, <2>4, <2>18
  <2>21. ent' \in [Inums -> [Icache!Names -> Ptrs]] /\ \A j \in Inums : ent'[j] = IF j = d THEN E ELSE ent[j]
    BY <2>4, <2>18, <2>20
  <2>22. \A b \in Inums, x \in Icache!Names : ent'[b][x] = IF b = d /\ x = n THEN 0 ELSE ent[b][x]
    BY <2>19, <2>21
  <2>23. loc' = [loc EXCEPT ![p] = s]
    BY <2>2, <2>3 DEF Icache!Set
  <2>24. loc'[p] = s /\ Solo(p)
    BY <2>2, <2>3, <2>23, Goes DEF Solo
  <2>25. /\ Stage(s) = "unlink_end" /\ Locked(s) = {i} /\ ~Fresh(s) /\ s.pc # "ifree" /\ Pending(s) = i
         /\ ~Fresh(r)
    BY <2>2, <1>2, <1>3 DEF Stage, Puts, Locked, LockedIp, HasDp, Fresh, Pending
  <2>26. LockOk' /\ \A j \in Inums : lock'[j] # NoCpu => lock[j] # NoCpu
    <3>1. Locked(s) = Locked(r) \ {d}
      BY <2>25, <1>7, <1>9
    <3> QED BY <3>1, <2>3, <2>24, <1>1, <1>7, LocksFreed DEF Icache!Unlock
  <2>27. lock' \in [Inums -> Procs \cup {NoCpu}]
    BY <2>3, <2>4 DEF Icache!Unlock
  <2>28. MemOk'
    <3>1. MemOk
      BY InvParts
    <3> QED BY <3>1, <2>7, <2>9, <2>11, <2>13, <2>15, <2>26, <1>7 DEF MemOk
  <2>29. LinksOk'
    <3>1. ASSUME NEW b \in Inums, NEW x \in Plain, ~(b = d /\ x = n)
          PROVE  ent'[b][x] = ent[b][x] /\ Up(dinode', ent', b, x) = Up(dinode, ent, b, x)
      <4>1. ent'[b][x] = ent[b][x] /\ ent[b][x] \in Ptrs
        BY <3>1, <2>4, <2>17, <2>22
      <4> QED BY <4>1, <2>16 DEF Up, IsDir, Ptrs
    <3>2. \A q \in Procs \ {p} : Pending(loc'[q]) = Pending(loc[q])
      BY <2>24 DEF Solo
    <3>3. /\ ent'[d][n] = 0 /\ Up(dinode', ent', d, n) = 0
          /\ Up(dinode, ent, d, n) = IF dinode[i].type = "dir" THEN d ELSE 0
      BY <2>17, <2>22, <1>7, <1>8 DEF Up, IsDir
    <3>4. ASSUME NEW j \in Inums
          PROVE  Balance(j)
      <4>1. /\ Count(Links(dinode, ent, loc), j) \in Nat /\ Count(Links(dinode', ent', loc'), j) \in Nat
            /\ Count(Links(dinode', ent', loc'), j)
                 - (Is(ent'[d][n], j) + Is(Up(dinode', ent', d, n), j) + Is(Pending(loc'[p]), j))
               = Count(Links(dinode, ent, loc), j)
                 - (Is(ent[d][n], j) + Is(Up(dinode, ent, d, n), j) + Is(Pending(loc[p]), j))
        <5>1. d \in Inums /\ n \in Plain
          BY <1>7
        <5> QED BY <5>1, <3>1, <3>2, LinksChange
      <4>2. dinode[j].nlink \in Nat
        BY InvParts DEF Typed, Dinodes
      <4>3. Pending(loc'[p]) = i /\ Pending(loc[p]) = 0 /\ j # 0
        BY <2>24, <2>25, <1>1, <1>7 DEF Icache!Configuration
      <4>4. Is(Up(dinode, ent, d, n), j) = dinode[j].nlink - dinode'[j].nlink /\ dinode'[j].nlink \in Nat
        <5>1. dinode'[j].nlink \in Nat
          BY <2>15 DEF Dinodes
        <5>2. Is(Up(dinode, ent, d, n), j) = IF j = d THEN k ELSE 0
          BY <3>3, <4>3, <2>5 DEF Is
        <5> QED BY <5>1, <5>2, <4>2, <2>6, <2>13, <2>15
      <4>5. Is(0, j) = 0 /\ Is(i, j) \in Nat
        BY <4>3 DEF Is
      <4>6. dinode'[j].nlink - Count(Links(dinode', ent', loc'), j)
              = dinode[j].nlink - Count(Links(dinode, ent, loc), j)
        BY <4>1, <4>2, <4>3, <4>4, <4>5, <3>3, <1>8
      <4> QED BY <4>1, <4>6 DEF Balance
    <3>5. /\ dinode' \in [Inums -> Dinodes]
          /\ \A j \in Inums : dinode[j].type = "free" \/ dinode'[j].type # "free"
      BY <2>15, <2>16
    <3> QED BY <3>4, <3>5, LinksBalance
  <2>30. DirsOk'
    <3>1. DirsOk
      BY InvParts
    <3>2. ASSUME NEW q \in Procs, Fresh(loc[q])
          PROVE  Fresh(loc'[q]) /\ loc'[q].ip = loc[q].ip
      BY <3>2, <2>24, <2>25, <1>1 DEF Solo
    <3>3. \A j \in Inums : ent'[j]["."] = ent[j]["."] /\ (j # d => ent'[j] = ent[j])
      BY <2>17, <2>21, <2>22
    <3> QED BY <3>1, <3>2, <3>3, <2>16, <1>7 DEF DirsOk
  <2>31. \A j \in Inums : j # 0
    BY DEF Icache!Configuration
  <2>32. \A b \in Inums, x \in Plain, j \in Inums : ent'[b][x] = j => ent[b][x] = j
    BY <2>17, <2>22, <2>31
  <2>33. TreeOk'
    <3>1. TreeOk
      BY InvParts
    <3>2. \A j \in Inums : ent'[j][".."] = ent[j][".."] /\ ent'[j]["."] = ent[j]["."]
      BY <2>17, <2>22
    <3> QED BY <3>1, <3>2, <2>16, <2>32 DEF TreeOk
  <2>34. NoPair'
    <3>1. NoPair
      BY InvParts
    <3> QED BY <3>1, <2>32 DEF NoPair
  <2>35. LocOk(s)
    BY <2>2, <2>25, <1>2, <1>3, <1>4, <1>6, <1>7 DEF LocOk, Puts, NoIp, HasDp, HasOld, MayOld, HasName
  <2>36. CallOk(s, cwd[p])'
    BY <2>2, <2>3, <2>25, <1>7 DEF CallOk, DirIp
  <2>37. Alone(p)'
    BY <2>24, <2>25 DEF Alone
  <2>38. Confined(p)
    BY <2>15, <2>16, <2>21, <1>7 DEF Confined
  <2>39. \A j \in HaveOf(s, cwd[p], file[p]) : j \in Reach(p) /\ dinode'[j].type # "free"
    <3>1. HaveOf(s, cwd[p], file[p]) \subseteq Have(p)
      BY <2>2, <1>1, <1>4, <1>7 DEF HaveOf, Have, Others
    <3> QED BY <3>1, <2>16, HaveReach DEF Reach
  <2>40. \A j \in Inums : mem'[j].ref - Uses(s, cwd[p], file[p], j)
                            = mem[j].ref - Uses(r, cwd[p], file[p], j)
    <3>1. \A j \in Inums : Uses(s, cwd[p], file[p], j) = Uses(r, cwd[p], file[p], j)
      BY <2>2, <2>31, <1>4, <1>6 DEF Uses, Is
    <3> QED BY <3>1, <2>7, <2>9, <2>11
  <2>41. UNCHANGED <<cwd, file, halted>>
    BY <2>3
  <2> QED BY <1>1, <2>2, <2>11, <2>15, <2>21, <2>23, <2>26, <2>27, <2>28, <2>29, <2>30, <2>33, <2>34, <2>35,
             <2>36, <2>37, <2>38, <2>39, <2>40, <2>41, BusyStep
<1> QED BY <1>12, <1>13

(* create fills the new inode and enters its name.                         *)
LEMMA CreateNewStep ==
    ASSUME Icache!Configuration, InodeInv, Icache!Forget, NEW p \in Procs, Icache!create_new(p)
    PROVE  InodeInv'
<1>1. PICK r : r = loc[p]
  OBVIOUS
<1>2. r.pc = "create_new" /\ r.pc \in LockedIp
  BY <1>1 DEF Icache!create_new, Icache!At, LockedIp
<1>3. PICK i : i = r.ip
  OBVIOUS
<1>4. PICK d : d = r.dp
  OBVIOUS
<1>5. PICK n : n = r.path[1]
  OBVIOUS
<1>6. /\ r \in LocType /\ LocOk(r) /\ CallOk(r, cwd[p]) /\ Stage(r) = r.pc /\ r.k = "idle"
      /\ r.tgt = 0 /\ i \in Inums /\ i \in Have(p) /\ lock[i] = p
      /\ mem[i].valid /\ mem[i].type = dinode[i].type /\ mem[i].nlink = dinode[i].nlink
      /\ mem[i].type # "free"
  BY <1>1, <1>2, <1>3, LockedIpFacts
<1>7. /\ d \in Inums /\ d \in Locked(r) /\ d \in Have(p) /\ lock[d] = p /\ d # 0
      /\ mem[d].valid /\ mem[d].type = dinode[d].type /\ mem[d].nlink = dinode[d].nlink
      /\ dinode[d].type = "dir" /\ r.old = 0 /\ n \in Plain /\ Pending(r) = 0
      /\ Locked(r) = {i, d} /\ cwd[p] # 0 /\ i # 0
  BY <1>1, <1>2, <1>3, <1>4, <1>5, LockedDpFacts
<1>8. /\ ent[d][n] = 0 /\ ent[i] = Icache!Empty /\ dinode[i].type = r.call.type /\ dinode[i].nlink = 0 /\ i # d
      /\ Fresh(r)
  BY <1>2, <1>3, <1>4, <1>5, <1>6 DEF CallOk, Fresh
<1>9. \A a \in Inums, b \in Plain : ent[a][b] # i
  BY <1>6, <1>8, Unnamed
<1>10. PICK k : k = IF r.call.type = "dir" THEN 1 ELSE 0
  OBVIOUS
<1>11. k \in {0, 1}
  BY <1>10
<1>12. /\ dinode \in [Inums -> Dinodes] /\ ent \in [Inums -> [Icache!Names -> Ptrs]]
       /\ lock \in [Inums -> Procs \cup {NoCpu}] /\ mem \in [Inums -> Slots]
  BY InvParts DEF Typed
<1>13. PICK a \in Slots : a = mem[i]
  BY <1>6, <1>12
<1>14. PICK b \in Slots : b = mem[d]
  BY <1>7, <1>12
<1>15. PICK x : x = [a EXCEPT !.nlink = 1]
  OBVIOUS
<1>16. /\ x \in Slots /\ x.nlink = 1 /\ x.ref = mem[i].ref /\ x.valid = mem[i].valid
       /\ x.type = dinode[i].type
  BY <1>6, <1>13, <1>15 DEF Slots
<1>17. PICK y : y = [b EXCEPT !.nlink = IF r.call.type = "dir" THEN @ + 1 ELSE @]
  OBVIOUS
<1>18. /\ y \in Slots /\ y.nlink = dinode[d].nlink + k /\ y.ref = mem[d].ref /\ y.valid = mem[d].valid
       /\ y.type = dinode[d].type
  <2>1. b.nlink = dinode[d].nlink /\ b.type = dinode[d].type /\ b.nlink \in Nat
    BY <1>7, <1>14 DEF Slots
  <2>2. y = [b EXCEPT !.nlink = b.nlink + k]
    <3>1. CASE r.call.type = "dir"
      BY <3>1, <1>10, <1>17
    <3>2. CASE r.call.type # "dir"
      <4>1. y = [b EXCEPT !.nlink = b.nlink] /\ k = 0
        BY <3>2, <1>10, <1>17
      <4> QED BY <4>1, <2>1
    <3> QED BY <3>1, <3>2
  <2>3. y \in Slots /\ y.nlink = b.nlink + k /\ y.ref = b.ref /\ y.valid = b.valid /\ y.type = b.type
    BY <2>1, <2>2, <1>11, <1>14 DEF Slots
  <2> QED BY <2>1, <2>3, <1>14
<1>19. PICK M : M = [mem EXCEPT ![i].nlink = 1, ![d].nlink = IF r.call.type = "dir" THEN @ + 1 ELSE @]
  OBVIOUS
<1>20. M = [mem EXCEPT ![i] = x, ![d] = y]
  BY <1>6, <1>7, <1>8, <1>12, <1>13, <1>14, <1>15, <1>17, <1>19
<1>21. /\ M \in [Inums -> Slots]
       /\ \A j \in Inums : M[j] = IF j = d THEN y ELSE IF j = i THEN x ELSE mem[j]
  BY <1>12, <1>16, <1>18, <1>20
<1>22. PICK s : s = Icache!PutThen(r, "dp", "create_end")
  OBVIOUS
<1>23. /\ s \in LocType /\ s.pc = "iput" /\ s.tgt = r.dp /\ s.dp = 0 /\ s.k = "create_end"
       /\ s.call = r.call /\ s.path = r.path /\ s.par = r.par /\ s.ip = r.ip /\ s.old = r.old
  BY <1>6, <1>22, PutDp DEF Afters
<1>24. /\ mem' = M /\ dinode' = Icache!iupdate(Icache!iupdate(dinode, M, i), M, d)
       /\ Icache!Unlock(d) /\ Icache!Set(p, s)
       /\ UNCHANGED <<cwd, file, halted>>
       /\ ent' = [ent EXCEPT ![i] = IF r.call.type = "dir" THEN [@ EXCEPT !["."] = i, ![".."] = d] ELSE @,
                             ![d][n] = i]
  BY <1>1, <1>3, <1>4, <1>5, <1>19, <1>22 DEF Icache!create_new
<1>25. PICK v : v = [type |-> x.type, nlink |-> x.nlink]
  OBVIOUS
<1>26. PICK w : w = [type |-> y.type, nlink |-> y.nlink]
  OBVIOUS
<1>27. /\ v \in Dinodes /\ v.type = dinode[i].type /\ v.nlink = 1
       /\ w \in Dinodes /\ w.type = dinode[d].type /\ w.nlink = dinode[d].nlink + k
  BY <1>16, <1>18, <1>25, <1>26 DEF Dinodes, Slots
<1>28. dinode' = [[dinode EXCEPT ![i] = v] EXCEPT ![d] = w]
  BY <1>6, <1>7, <1>8, <1>21, <1>24, <1>25, <1>26 DEF Icache!iupdate
<1>29. /\ dinode' \in [Inums -> Dinodes]
       /\ \A j \in Inums : dinode'[j] = IF j = d THEN w ELSE IF j = i THEN v ELSE dinode[j]
  BY <1>12, <1>27, <1>28
<1>30. \A j \in Inums : dinode'[j].type = dinode[j].type
  BY <1>27, <1>29
<1>31. Plain \subseteq Icache!Names /\ "." \in Icache!Names /\ ".." \in Icache!Names /\ n # "." /\ n # ".."
  BY <1>7 DEF Icache!Names, Icache!Configuration
<1>32. PICK D : D = IF r.call.type = "dir" THEN [Icache!Empty EXCEPT !["."] = i, ![".."] = d] ELSE Icache!Empty
  OBVIOUS
<1>33. /\ D \in [Icache!Names -> Ptrs] /\ \A z \in Plain : D[z] = 0
       /\ r.call.type = "dir" => D["."] = i /\ D[".."] = d
       /\ r.call.type # "dir" => D = Icache!Empty
  <2>1. Icache!Empty \in [Icache!Names -> Ptrs] /\ \A z \in Icache!Names : Icache!Empty[z] = 0
    BY DEF Icache!Empty, Ptrs
  <2>2. \A z \in Plain : z # "." /\ z # ".."
    BY DEF Icache!Configuration
  <2> QED BY <2>1, <2>2, <1>6, <1>7, <1>31, <1>32 DEF Ptrs
<1>34. PICK E \in [Icache!Names -> Ptrs] : E = [ent[d] EXCEPT ![n] = i]
  BY <1>6, <1>7, <1>12 DEF Ptrs
<1>35. \A z \in Icache!Names : E[z] = IF z = n THEN i ELSE ent[d][z]
  BY <1>7, <1>12, <1>34
<1>36. ent' = [ent EXCEPT ![i] = D, ![d] = E]
  BY <1>6, <1>7, <1>8, <1>12, <1>24, <1>32, <1>34
<1>37. /\ ent' \in [Inums -> [Icache!Names -> Ptrs]]
       /\ \A j \in Inums : ent'[j] = IF j = d THEN E ELSE IF j = i THEN D ELSE ent[j]
  BY <1>12, <1>33, <1>34, <1>36
<1>38. \A j \in Inums, z \in Plain : ent'[j][z] = IF j = d /\ z = n THEN i ELSE ent[j][z]
  <2>1. \A z \in Plain : Icache!Empty[z] = 0
    BY <1>31 DEF Icache!Empty
  <2> QED BY <2>1, <1>8, <1>31, <1>33, <1>35, <1>37
<1>39. \A j \in Inums : j # i => ent'[j]["."] = ent[j]["."] /\ ent'[j][".."] = ent[j][".."]
  BY <1>31, <1>35, <1>37
<1>40. loc' = [loc EXCEPT ![p] = s]
  BY <1>23, <1>24 DEF Icache!Set
<1>41. loc'[p] = s /\ Solo(p)
  BY <1>23, <1>24, <1>40, Goes DEF Solo
<1>42. /\ Stage(s) = "create_end" /\ Locked(s) = {i} /\ ~Fresh(s) /\ s.pc # "ifree" /\ Pending(s) = 0
  BY <1>3, <1>7, <1>23 DEF Stage, Puts, Locked, LockedIp, HasDp, Fresh, Pending
<1>43. LockOk' /\ \A j \in Inums : lock'[j] # NoCpu => lock[j] # NoCpu
  <2>1. Locked(s) = Locked(r) \ {d}
    BY <1>7, <1>8, <1>42
  <2> QED BY <2>1, <1>1, <1>7, <1>24, <1>41, LocksFreed DEF Icache!Unlock
<1>44. lock' \in [Inums -> Procs \cup {NoCpu}]
  BY <1>12, <1>24 DEF Icache!Unlock
<1>45. MemOk'
  <2>1. MemOk
    BY InvParts
  <2>2. ASSUME NEW j \in Inums
        PROVE  /\ mem'[j].valid => /\ mem'[j].type = dinode'[j].type /\ mem'[j].nlink = dinode'[j].nlink
                                   /\ mem'[j].type # "free"
               /\ lock'[j] # NoCpu => mem'[j].valid
               /\ dinode'[j].type = "free" => dinode'[j].nlink = 0
    <3>1. CASE j = i
      BY <3>1, <1>6, <1>8, <1>16, <1>21, <1>24, <1>27, <1>29
    <3>2. CASE j = d
      BY <3>2, <1>7, <1>18, <1>21, <1>24, <1>27, <1>29
    <3>3. CASE j # i /\ j # d
      <4>1. mem'[j] = mem[j] /\ dinode'[j] = dinode[j]
        BY <3>3, <1>21, <1>24, <1>29
      <4> QED BY <4>1, <2>1, <1>43 DEF MemOk
    <3> QED BY <3>1, <3>2, <3>3
  <2> QED BY <2>2 DEF MemOk
<1>46. LinksOk'
  <2>1. ASSUME NEW j \in Inums, NEW z \in Plain, ~(j = d /\ z = n)
        PROVE  ent'[j][z] = ent[j][z] /\ Up(dinode', ent', j, z) = Up(dinode, ent, j, z)
    <3>1. ent'[j][z] = ent[j][z] /\ ent[j][z] \in Ptrs
      BY <2>1, <1>12, <1>31, <1>38
    <3> QED BY <3>1, <1>30 DEF Up, IsDir, Ptrs
  <2>2. \A q \in Procs \ {p} : Pending(loc'[q]) = Pending(loc[q])
    BY <1>41 DEF Solo
  <2>3. /\ ent'[d][n] = i /\ Up(dinode, ent, d, n) = 0
        /\ Up(dinode', ent', d, n) = IF r.call.type = "dir" THEN d ELSE 0
    BY <1>6, <1>7, <1>8, <1>30, <1>38 DEF Up, IsDir
  <2>4. ASSUME NEW j \in Inums
        PROVE  Balance(j)
    <3>1. /\ Count(Links(dinode, ent, loc), j) \in Nat /\ Count(Links(dinode', ent', loc'), j) \in Nat
          /\ Count(Links(dinode', ent', loc'), j)
               - (Is(ent'[d][n], j) + Is(Up(dinode', ent', d, n), j) + Is(Pending(loc'[p]), j))
             = Count(Links(dinode, ent, loc), j)
               - (Is(ent[d][n], j) + Is(Up(dinode, ent, d, n), j) + Is(Pending(loc[p]), j))
      <4>1. d \in Inums /\ n \in Plain
        BY <1>7
      <4>2. \A g \in Inums, z \in Plain : ~(g = d /\ z = n) =>
                ent'[g][z] = ent[g][z] /\ Up(dinode', ent', g, z) = Up(dinode, ent, g, z)
        BY <2>1
      <4>3. LinksSameBut(d, n, p, dinode, ent, loc, dinode', ent', loc')
        BY <4>2, <2>2 DEF LinksSameBut
      <4> QED BY <4>1, <4>3, LinksBut
    <3>2. dinode[j].nlink \in Nat
      BY InvParts DEF Typed, Dinodes
    <3>3. Pending(loc'[p]) = 0 /\ Pending(loc[p]) = 0 /\ j # 0
      BY <1>1, <1>7, <1>41, <1>42 DEF Icache!Configuration
    <3>4. Is(0, j) = 0
      BY <3>3 DEF Is
    <3>5. /\ Is(ent'[d][n], j) + Is(Up(dinode', ent', d, n), j) = dinode'[j].nlink - dinode[j].nlink
          /\ dinode'[j].nlink \in Nat /\ Is(ent'[d][n], j) \in Nat /\ Is(Up(dinode', ent', d, n), j) \in Nat
      <4>1. dinode'[j].nlink \in Nat
        BY <1>29 DEF Dinodes
      <4>2. Is(Up(dinode', ent', d, n), j) = IF j = d THEN k ELSE 0
        BY <2>3, <3>3, <1>10 DEF Is
      <4>3. Is(ent'[d][n], j) = IF j = i THEN 1 ELSE 0
        BY <2>3 DEF Is
      <4>4. dinode'[j].nlink = dinode[j].nlink + (IF j = d THEN k ELSE 0) + (IF j = i THEN 1 ELSE 0)
        <5>1. CASE j = d
          BY <5>1, <3>2, <1>8, <1>11, <1>27, <1>29
        <5>2. CASE j # d
          BY <5>2, <3>2, <1>8, <1>27, <1>29
        <5> QED BY <5>1, <5>2
      <4> QED BY <4>1, <4>2, <4>3, <4>4, <3>2, <1>11
    <3>6. dinode'[j].nlink - Count(Links(dinode', ent', loc'), j)
            = dinode[j].nlink - Count(Links(dinode, ent, loc), j)
      BY <3>1, <3>2, <3>3, <3>4, <3>5, <2>3, <1>8
    <3> QED BY <3>1, <3>6 DEF Balance
  <2>5. /\ dinode' \in [Inums -> Dinodes]
        /\ \A j \in Inums : dinode[j].type = "free" \/ dinode'[j].type # "free"
    BY <1>29, <1>30
  <2> QED BY <2>4, <2>5, LinksBalance
<1>47. DirsOk'
  <2>1. DirsOk
    BY InvParts
  <2>2. ASSUME NEW q \in Procs, Fresh(loc[q]), loc[q].ip # i
        PROVE  Fresh(loc'[q]) /\ loc'[q].ip = loc[q].ip
    BY <2>2, <1>1, <1>3, <1>41 DEF Solo
  <2>3. ASSUME NEW j \in Inums
        PROVE  /\ dinode'[j].type # "dir" => ent'[j] = Icache!Empty
               /\ ent'[j]["."] \in {0, j}
               /\ dinode'[j].type = "dir" => ent'[j]["."] = j \/ \E q \in Procs : Fresh(loc'[q]) /\ loc'[q].ip = j
    <3>1. CASE j = i
      <4>1. ent'[j] = D /\ dinode'[j].type = r.call.type /\ Icache!Empty["."] = 0
        BY <3>1, <1>6, <1>8, <1>30, <1>31, <1>37 DEF Icache!Empty
      <4> QED BY <4>1, <3>1, <1>33
    <3>2. CASE j # i
      <4>1. ent'[j]["."] = ent[j]["."] /\ (j # d => ent'[j] = ent[j]) /\ dinode'[j].type = dinode[j].type
        BY <3>2, <1>30, <1>37, <1>39
      <4> QED BY <4>1, <3>2, <2>1, <2>2, <1>7 DEF DirsOk
    <3> QED BY <3>1, <3>2
  <2> QED BY <2>3 DEF DirsOk
<1>48. \A j \in Inums : j # 0
  BY DEF Icache!Configuration
<1>49. TreeOk'
  <2>1. TreeOk
    BY InvParts
  <2>2. SUFFICES ASSUME NEW j \in Inums, NEW e \in Inums, NEW z \in Plain,
                        ent'[e][z] = j, dinode'[j].type = "dir"
                 PROVE  /\ ent'[j][".."] = e /\ ent'[j]["."] = j
                        /\ \A g \in Inums, c \in Plain : ent'[g][c] = j => g = e /\ c = z
    BY DEF TreeOk
  <2>3. CASE j = i
    <3>1. \A g \in Inums, c \in Plain : ent'[g][c] = i => g = d /\ c = n
      BY <1>9, <1>38
    <3>2. r.call.type = "dir" /\ ent'[i] = D
      BY <2>2, <2>3, <1>6, <1>8, <1>30, <1>37
    <3> QED BY <3>1, <3>2, <2>2, <2>3, <1>33
  <2>4. CASE j # i
    <3>1. \A g \in Inums, c \in Plain : ent'[g][c] = j => ent[g][c] = j
      BY <2>4, <1>38
    <3>2. dinode[j].type = "dir" /\ ent'[j]["."] = ent[j]["."] /\ ent'[j][".."] = ent[j][".."]
      BY <2>2, <2>4, <1>30, <1>39
    <3>3. /\ ent[j][".."] = e /\ ent[j]["."] = j
          /\ \A g \in Inums, c \in Plain : ent[g][c] = j => g = e /\ c = z
      BY <2>1, <2>2, <3>1, <3>2 DEF TreeOk
    <3> QED BY <3>1, <3>2, <3>3
  <2> QED BY <2>3, <2>4
<1>50. NoPair'
  <2>1. NoPair
    BY InvParts
  <2>2. SUFFICES ASSUME NEW e \in Inums, NEW g \in Inums, NEW z \in Plain, NEW c \in Plain,
                        ent'[e][z] = g, ent'[g][c] = e
                 PROVE  FALSE
    BY DEF NoPair
  <2>3. \A t \in Plain : ent'[i][t] = 0
    BY <1>6, <1>8, <1>33, <1>37
  <2>4. e # i /\ g # i
    BY <2>2, <2>3, <1>48
  <2>5. ent[e][z] = g /\ ent[g][c] = e
    BY <2>2, <2>4, <1>38
  <2> QED BY <2>1, <2>5 DEF NoPair
<1>51. LocOk(s)
  BY <1>2, <1>3, <1>4, <1>6, <1>7, <1>23, <1>42 DEF LocOk, Puts, NoIp, HasDp, HasOld, MayOld, HasName
<1>52. CallOk(s, cwd[p])'
  BY <1>7, <1>23, <1>24, <1>42 DEF CallOk, DirIp
<1>53. Alone(p)'
  BY <1>41, <1>42 DEF Alone
<1>54. Confined(p)
  BY <1>6, <1>7, <1>29, <1>30, <1>37 DEF Confined
<1>55. \A j \in HaveOf(s, cwd[p], file[p]) : j \in Reach(p) /\ dinode'[j].type # "free"
  <2>1. HaveOf(s, cwd[p], file[p]) \subseteq Have(p)
    BY <1>1, <1>4, <1>7, <1>23 DEF HaveOf, Have, Others
  <2> QED BY <2>1, <1>30, HaveReach DEF Reach
<1>56. \A j \in Inums : mem'[j].ref - Uses(s, cwd[p], file[p], j) = mem[j].ref - Uses(r, cwd[p], file[p], j)
  <2>1. \A j \in Inums : Uses(s, cwd[p], file[p], j) = Uses(r, cwd[p], file[p], j)
    BY <1>4, <1>6, <1>23, <1>48 DEF Uses, Is
  <2> QED BY <2>1, <1>16, <1>18, <1>21, <1>24
<1>57. UNCHANGED <<cwd, file, halted>> /\ mem' \in [Inums -> Slots]
  BY <1>21, <1>24
<1> QED BY <1>1, <1>23, <1>29, <1>37, <1>40, <1>43, <1>44, <1>45, <1>46, <1>47, <1>49, <1>50, <1>51,
           <1>52, <1>53, <1>54, <1>55, <1>56, <1>57, BusyStep

(***************************************************************************)
(* The initial state.                                                      *)
(***************************************************************************)

(* Every process has the root as its directory, and nothing else.          *)
LEMMA InitRefs ==
    ASSUME Icache!Configuration, Icache!Init
    PROVE  RefsOk
<1>1. PICK F : F = Refs(loc, cwd, file)
  OBVIOUS
<1>2. \A q \in Procs : /\ loc[q].ip = 0 /\ loc[q].dp = 0 /\ loc[q].old = 0 /\ loc[q].tgt = 0
                       /\ cwd[q] = ROOTINO /\ file[q] = 0
  BY DEF Icache!Init, Icache!IdleLoc
<1>3. DOMAIN F = RefCells
  BY <1>1 DEF Refs
<1>4. ASSUME NEW q \in Procs
      PROVE  /\ F[Cell(q, "ip")] = 0 /\ F[Cell(q, "dp")] = 0 /\ F[Cell(q, "old")] = 0
             /\ F[Cell(q, "tgt")] = 0 /\ F[Cell(q, "file")] = 0
             /\ F[Cell(q, "cwd")] = ROOTINO /\ Cell(q, "cwd") \in RefCells
  BY <1>1, <1>2, RefContents
<1>5. \A i \in Inums : i # 0
  BY DEF Icache!Configuration
<1>6. ROOTINO \in Inums /\ IsFiniteSet(Procs)
  BY FiniteSetsHere DEF Icache!Configuration
<1>7. PICK C : C = [q \in Procs |-> Cell(q, "cwd")]
  OBVIOUS
<1>8. PICK R : R = {x \in RefCells : F[x] = ROOTINO}
  OBVIOUS
<1>9. ASSUME NEW x \in RefCells, F[x] # 0
      PROVE  F[x] = ROOTINO /\ \E q \in Procs : x = Cell(q, "cwd")
  <2>1. PICK q \in Procs : x \in {Cell(q, "ip"), Cell(q, "dp"), Cell(q, "old"), Cell(q, "tgt"),
                                  Cell(q, "cwd"), Cell(q, "file")}
    BY RefCellOf
  <2> QED BY <2>1, <1>4, <1>9
<1>10. C \in Bijection(Procs, R)
  <2>1. \A q \in Procs : C[q] \in R
    BY <1>4, <1>7, <1>8
  <2>2. \A q, t \in Procs : C[q] = C[t] => q = t
    BY <1>7 DEF Cell
  <2>3. \A x \in R : \E q \in Procs : C[q] = x
    BY <1>5, <1>6, <1>7, <1>8, <1>9
  <2>4. C \in [Procs -> R]
    BY <2>1, <1>7
  <2> QED BY <2>2, <2>3, <2>4 DEF Bijection, Injection, Surjection, IsInjective
<1>11. Cardinality(R) = Cardinality(Procs)
  <2>1. ExistsBijection(Procs, R)
    BY <1>10 DEF ExistsBijection
  <2> QED BY <2>1, <1>6, FS_Bijection
<1>12. ASSUME NEW i \in Inums
       PROVE  mem[i].ref = Count(F, i)
  <2>1. CASE i = ROOTINO
    <3>1. mem[i].ref = Cardinality(Procs)
      BY <2>1, <1>6, SameCardinality DEF Icache!Init, Icache!NoEntry
    <3> QED BY <3>1, <2>1, <1>3, <1>8, <1>11 DEF Count, Held
  <2>2. CASE i # ROOTINO
    <3>1. mem[i].ref = 0
      BY <2>2 DEF Icache!Init, Icache!NoEntry
    <3>2. {x \in RefCells : F[x] = i} = {}
      BY <2>2, <1>5, <1>9
    <3>3. Count(F, i) = Cardinality({})
      BY <3>2, <1>3 DEF Count, Held
    <3> QED BY <3>1, <3>3, FS_EmptySet
  <2> QED BY <2>1, <2>2
<1> QED BY <1>1, <1>12 DEF RefsOk

(* The root is linked by mkfs, and there is no name.                       *)
LEMMA InitLinks ==
    ASSUME Icache!Configuration, Icache!Init
    PROVE  LinksOk
<1>1. PICK F : F = Links(dinode, ent, loc)
  OBVIOUS
<1>2. \A i \in Inums, n \in Plain : ent[i][n] = 0
  <2>1. \A n \in Plain : n \in Icache!Names /\ n # "." /\ n # ".."
    BY DEF Icache!Names, Icache!Configuration
  <2> QED BY <2>1 DEF Icache!Init, Icache!Empty
<1>3. \A q \in Procs : Pending(loc[q]) = 0
  BY DEF Icache!Init, Icache!IdleLoc, Pending, Stage, Puts
<1>4. /\ DOMAIN F = LinkCells
      /\ \A a \in Inums, n \in Plain : F[EntCell(a, n)] = 0 /\ F[SubCell(a, n)] = 0
      /\ \A q \in Procs : F[PendCell(q)] = 0
      /\ RootCell \in LinkCells /\ F[RootCell] = ROOTINO
  <2>1. \A a \in Inums, n \in Plain : Up(dinode, ent, a, n) = 0
    BY <1>2 DEF Up, IsDir
  <2> QED BY <2>1, <1>1, <1>2, <1>3, LinkContents
<1>5. ASSUME NEW x \in LinkCells, F[x] # 0
      PROVE  x = RootCell
  BY <1>4, <1>5, LinkCellOf
<1>6. ASSUME NEW i \in Inums
      PROVE  Count(F, i) <= dinode[i].nlink /\ Count(F, i) = dinode[i].nlink
  <2>1. i # 0
    BY DEF Icache!Configuration
  <2>2. CASE i = ROOTINO
    <3>1. {x \in LinkCells : F[x] = i} = {RootCell}
      BY <2>1, <2>2, <1>4, <1>5
    <3>2. Count(F, i) = 1
      BY <3>1, <1>4, FS_Singleton DEF Count, Held
    <3>3. dinode[i].nlink = 1
      BY <2>2 DEF Icache!Init
    <3> QED BY <3>2, <3>3
  <2>3. CASE i # ROOTINO
    <3>1. {x \in LinkCells : F[x] = i} = {}
      BY <2>1, <2>3, <1>4, <1>5
    <3>2. Count(F, i) = 0
      BY <3>1, <1>4, FS_EmptySet DEF Count, Held
    <3>3. dinode[i].nlink = 0
      BY <2>3 DEF Icache!Init
    <3> QED BY <3>2, <3>3
  <2> QED BY <2>2, <2>3
<1>7. orphans = {}
  BY DEF Icache!Init
<1> QED BY <1>1, <1>6, <1>7 DEF LinksOk

(* Init satisfies the invariant.                                           *)
LEMMA InodeInitInv ==
    ASSUME Icache!Configuration, Icache!Init
    PROVE  InodeInv
<1>1. ROOTINO \in Inums /\ ROOTINO # 0 /\ (\A i \in Inums : i # 0) /\ NoCpu \notin Procs
      /\ IsFiniteSet(Procs)
  BY FiniteSetsHere DEF Icache!Configuration
<1>2. Plain \subseteq Icache!Names /\ "." \in Icache!Names /\ ".." \in Icache!Names /\ \A n \in Plain : n # "." /\ n # ".."
  BY DEF Icache!Configuration, Icache!Names
<1>3. Icache!Empty \in [Icache!Names -> Ptrs] /\ \A n \in Icache!Names : Icache!Empty[n] = 0
  BY DEF Icache!Empty, Ptrs
<1>4. PICK D : D = [Icache!Empty EXCEPT !["."] = ROOTINO, ![".."] = ROOTINO]
  OBVIOUS
<1>5. /\ D \in [Icache!Names -> Ptrs] /\ (\A n \in Plain : D[n] = 0) /\ D["."] = ROOTINO
  BY <1>1, <1>2, <1>3, <1>4 DEF Ptrs
<1>6. ent = [i \in Inums |-> IF i # ROOTINO THEN Icache!Empty ELSE D]
  BY <1>4 DEF Icache!Init
<1>7. \A i \in Inums, n \in Plain : ent[i][n] = 0
  BY <1>2, <1>3, <1>5, <1>6
<1>8. \A p \in Procs : loc[p] = Icache!IdleLoc /\ cwd[p] = ROOTINO /\ file[p] = 0
  BY DEF Icache!Init
<1>9. /\ Icache!IdleLoc \in LocType /\ LocOk(Icache!IdleLoc) /\ Icache!IdleLoc.pc = "idle"
      /\ Icache!IdleLoc.k = "idle"
      /\ Icache!IdleLoc.ip = 0 /\ Icache!IdleLoc.dp = 0 /\ Icache!IdleLoc.old = 0 /\ Icache!IdleLoc.tgt = 0
  BY IdleFacts
<1>10. /\ Stage(Icache!IdleLoc) = "idle" /\ Locked(Icache!IdleLoc) = {} /\ ~Fresh(Icache!IdleLoc)
  BY <1>9 DEF Stage, Puts, Locked, LockedIp, HasDp, Fresh
<1>11. \A i \in Inums : dinode[i] = IF i = ROOTINO THEN [type |-> "dir", nlink |-> 1]
                                    ELSE [type |-> "free", nlink |-> 0]
  BY DEF Icache!Init
<1>12. \A i \in Inums : /\ dinode[i].type = IF i = ROOTINO THEN "dir" ELSE "free"
                        /\ dinode[i].nlink = IF i = ROOTINO THEN 1 ELSE 0
  BY <1>11
<1>13. Typed
  <2>1. dinode \in [Inums -> Dinodes]
    BY DEF Icache!Init, Dinodes, Icache!Types
  <2>2. ent \in [Inums -> [Icache!Names -> Ptrs]]
    BY <1>3, <1>5, <1>6
  <2>3. mem \in [Inums -> Slots]
    <3>1. Icache!NoEntry \in Slots
      BY DEF Icache!NoEntry, Slots
    <3>2. Cardinality(Procs) \in Nat
      BY <1>1, FS_CardinalityType
    <3>3. [Icache!NoEntry EXCEPT !.ref = Cardinality(Procs)] \in Slots
      BY <3>1, <3>2 DEF Slots
    <3> QED BY <3>1, <3>3, SameCardinality DEF Icache!Init
  <2>4. lock \in [Inums -> Procs \cup {NoCpu}]
    BY DEF Icache!Init
  <2>5. cwd \in [Procs -> Ptrs] /\ file \in [Procs -> Ptrs]
    BY <1>1 DEF Icache!Init, Ptrs
  <2>6. loc \in [Procs -> LocType] /\ halted \in {"no", "full"}
    BY <1>9 DEF Icache!Init
  <2> QED BY <2>1, <2>2, <2>3, <2>4, <2>5, <2>6 DEF Typed
<1>14. LockOk
  <2>1. \A i \in Inums : lock[i] = NoCpu
    BY DEF Icache!Init
  <2> QED BY <2>1, <1>1, <1>8, <1>10 DEF LockOk
<1>15. AliveOk
  <2>1. \A p \in Procs : Have(p) = {ROOTINO}
    BY <1>1, <1>8, <1>9 DEF Have, HaveOf, Others
  <2> QED BY <2>1, <1>1, <1>12 DEF AliveOk
<1>16. MemOk
  <2>1. \A i \in Inums : ~mem[i].valid /\ lock[i] = NoCpu
    BY DEF Icache!Init, Icache!NoEntry
  <2> QED BY <2>1, <1>12 DEF MemOk
<1>17. DirsOk
  BY <1>1, <1>2, <1>3, <1>5, <1>6, <1>12 DEF DirsOk
<1>18. TreeOk /\ NoPair
  BY <1>1, <1>7 DEF TreeOk, NoPair
<1>19. ASSUME NEW p \in Procs
       PROVE  ProcOk(p)
  <2>1. CallOk(loc[p], cwd[p])
    BY <1>1, <1>8, <1>9, <1>10 DEF CallOk, DirIp, Fresh
  <2>2. Alone(p)
    BY <1>8, <1>9, <1>10 DEF Alone
  <2> QED BY <2>1, <2>2, <1>8, <1>9 DEF ProcOk
<1> QED BY <1>13, <1>14, <1>15, <1>16, <1>17, <1>18, <1>19, InitRefs, InitLinks DEF InodeInv

(***************************************************************************)
(* The theorems.                                                           *)
(***************************************************************************)

(* Every step of every call preserves the invariant.                       *)
LEMMA NextInv ==
    ASSUME Icache!Configuration, Icache!Downward, InodeInv, [Icache!Next]_Icache!vars
    PROVE  InodeInv'
<1>1. ASSUME NEW p \in Procs, Icache!Step(p), Icache!Forget
      PROVE  InodeInv'
  <2>1. CASE Icache!ilock(p)
    BY <2>1, <1>1, IlockStep
  <2>2. CASE Icache!iput(p)
    BY <2>2, <1>1, IputStep
  <2>3. CASE Icache!ifree(p)
    BY <2>3, <1>1, IfreeStep
  <2>4. CASE Icache!idrop(p)
    BY <2>4, <1>1, IdropStep
  <2>5. CASE Icache!look(p)
    BY <2>5, <1>1, LookStep
  <2>6. CASE Icache!sys_open(p) \/ Icache!create_hit(p) \/ Icache!create_end(p)
    BY <2>6, <1>1, OpenSteps
  <2>7. CASE Icache!sys_chdir(p)
    BY <2>7, <1>1, ChdirStep
  <2>8. CASE Icache!chdir_end(p)
    BY <2>8, <1>1, ChdirEndStep
  <2>9. CASE Icache!create_dp(p)
    BY <2>9, <1>1, CreateFoundStep, CreateFreshStep
  <2>10. CASE Icache!create_new(p)
    BY <2>10, <1>1, CreateNewStep
  <2>11. CASE Icache!link_ip(p)
    BY <2>11, <1>1, LinkIpStep
  <2>12. CASE Icache!link_dp(p)
    BY <2>12, <1>1, LinkFoundStep, LinkEnterStep
  <2>13. CASE Icache!link_dup(p)
    BY <2>13, <1>1, LinkDupStep
  <2>14. CASE Icache!link_undo(p) \/ Icache!unlink_end(p)
    BY <2>14, <1>1, UndoStep
  <2>15. CASE Icache!unlink_dp(p)
    BY <2>15, <1>1, UnlinkDpStep
  <2>16. CASE Icache!unlink_ip(p)
    BY <2>16, <1>1, UnlinkIpStep
  <2>17. CASE Icache!unlink_bad(p)
    BY <2>17, <1>1, UnlinkBadStep
  <2> QED BY <1>1, <2>1, <2>2, <2>3, <2>4, <2>5, <2>6, <2>7, <2>8, <2>9, <2>10, <2>11, <2>12, <2>13,
             <2>14, <2>15, <2>16, <2>17 DEF Icache!Step
<1>2. ASSUME NEW p \in Procs, Icache!sys_close(p), Icache!Forget
      PROVE  InodeInv'
  BY <1>2, CloseStep
<1>3. ASSUME NEW p \in Procs, NEW c \in Calls, Icache!Call(p, c), Icache!Forget
      PROVE  InodeInv'
  BY <1>3, CallStep
<1>4. CASE UNCHANGED Icache!vars
  <2>1. /\ dinode' = dinode /\ ent' = ent /\ mem' = mem /\ lock' = lock /\ cwd' = cwd /\ file' = file
        /\ loc' = loc /\ halted' = halted /\ orphans' = orphans
    BY <1>4 DEF Icache!vars
  <2>2. Typed' /\ RefsOk' /\ LinksOk' /\ LockOk' /\ MemOk' /\ DirsOk' /\ TreeOk' /\ NoPair'
    BY <2>1, InvParts DEF Typed, RefsOk, LinksOk, LockOk, MemOk, DirsOk, TreeOk, NoPair
  <2>3. AliveOk'
    BY <2>1, InvParts DEF AliveOk, Have
  <2>4. \A p \in Procs : ProcOk(p)'
    BY <2>1, InvParts DEF ProcOk, CallOk, Alone, Have
  <2> QED BY <2>2, <2>3, <2>4 DEF InodeInv
<1> QED BY <1>1, <1>2, <1>3, <1>4 DEF Icache!Next

(* The invariant gives the exact reference counts.                         *)
LEMMA InvRefs ==
    ASSUME Icache!Configuration, InodeInv
    PROVE  Icache!TypeOK /\ Icache!RefsExact
<1>1. Typed /\ RefsOk
  BY InvParts
<1>2. Icache!TypeOK
  <2>1. \A p \in Procs : {loc[p].ip, loc[p].dp, loc[p].old, loc[p].tgt} \subseteq Inums \cup {0}
    BY LocFacts DEF Ptrs
  <2>2. /\ dinode \in [Inums -> Dinodes] /\ ent \in [Inums -> [Icache!Names -> Ptrs]]
        /\ mem \in [Inums -> Slots] /\ lock \in [Inums -> Procs \cup {NoCpu}]
        /\ cwd \in [Procs -> Ptrs] /\ file \in [Procs -> Ptrs] /\ halted \in {"no", "full"}
    BY <1>1 DEF Typed
  <2>3. orphans \subseteq Inums
    BY InvParts DEF LinksOk
  <2> QED BY <2>1, <2>2, <2>3 DEF Icache!TypeOK, Dinodes, Slots, Ptrs
<1>3. ASSUME NEW i \in Inums
      PROVE  mem[i].ref = Cardinality(Icache!Holders(i))
  <2>1. PICK F : F = Refs(loc, cwd, file)
    OBVIOUS
  <2>2. ASSUME NEW x \in RefCells
        PROVE  F[x] = Icache!Pointer(x[1], x[2])
    <3>1. PICK q \in Procs, v \in Icache!Variables : x = <<q, v>>
      BY DEF RefCells
    <3>2. F[x] = CASE v = "ip" -> loc[q].ip [] v = "dp" -> loc[q].dp
                   [] v = "old" -> loc[q].old [] v = "tgt" -> loc[q].tgt
                   [] v = "cwd" -> cwd[q] [] v = "file" -> file[q]
      BY <2>1, <3>1 DEF Refs
    <3> QED BY <3>1, <3>2 DEF Icache!Pointer, Icache!Variables
  <2>3. DOMAIN F = RefCells
    BY <2>1 DEF Refs
  <2>4. {x \in RefCells : F[x] = i} = Icache!Holders(i)
    BY <2>2 DEF Icache!Holders, RefCells
  <2> QED BY <2>1, <2>3, <2>4, <1>1 DEF RefsOk, Count, Held
<1> QED BY <1>2, <1>3, SameCardinality DEF Icache!RefsExact

(* The sizes of disjoint finite sets add up.                               *)
LEMMA DisjointSizes ==
    ASSUME NEW S, NEW T, IsFiniteSet(S), IsFiniteSet(T), \A x \in S : x \notin T
    PROVE  /\ IsFiniteSet(S \cup T) /\ Cardinality(S) \in Nat /\ Cardinality(T) \in Nat
           /\ Cardinality(S \cup T) = Cardinality(S) + Cardinality(T)
<1>1. IsFiniteSet(S \cup T) /\ Cardinality(S \cup T) = Cardinality(S) + Cardinality(T) - Cardinality(S \cap T)
  BY FS_Union
<1>2. S \cap T = {}
  OBVIOUS
<1>3. Cardinality(S \cap T) = 0
  BY <1>2, FS_EmptySet
<1>4. Cardinality(S) \in Nat /\ Cardinality(T) \in Nat
  BY FS_CardinalityType
<1> QED BY <1>1, <1>3, <1>4

(* The cells that hold inode i are what its links are counted by.          *)
LEMMA LinksCounted ==
    ASSUME Icache!Configuration, NEW i \in Inums
    PROVE  Count(Links(dinode, ent, loc), i) = Icache!NumLinks(i)
<1>1. PICK F : F = Links(dinode, ent, loc)
  OBVIOUS
<1>2. PICK E : E = Icache!Entries(i)
  OBVIOUS
<1>3. PICK B : B = Icache!Subdirs(i)
  OBVIOUS
<1>4. PICK P : P = {p \in Procs : Icache!Unsettled(loc[p]) = i}
  OBVIOUS
<1>5. /\ DOMAIN F = LinkCells
      /\ \A a \in Inums, n \in Plain : /\ EntCell(a, n) \in LinkCells /\ F[EntCell(a, n)] = ent[a][n]
                                       /\ SubCell(a, n) \in LinkCells
                                       /\ F[SubCell(a, n)] = Up(dinode, ent, a, n)
      /\ \A q \in Procs : PendCell(q) \in LinkCells /\ F[PendCell(q)] = Pending(loc[q])
      /\ RootCell \in LinkCells /\ F[RootCell] = ROOTINO
  BY <1>1, LinkContents
<1>6. i # 0
  BY DEF Icache!Configuration
<1>7. /\ \A x \in E : x[1] \in Inums /\ x[2] \in Plain /\ x = <<x[1], x[2]>> /\ ent[x[1]][x[2]] = i
      /\ \A a \in Inums, n \in Plain : ent[a][n] = i => <<a, n>> \in E
  BY <1>2 DEF Icache!Entries
<1>8. B \subseteq Plain /\ \A a \in Inums, n \in Plain : Up(dinode, ent, a, n) = i <=> a = i /\ n \in B
  BY <1>3, <1>6 DEF Icache!Subdirs, Up, IsDir
<1>9. P \subseteq Procs /\ \A q \in Procs : Pending(loc[q]) = i <=> q \in P
  BY <1>4 DEF Icache!Unsettled, Pending, Stage, Puts
<1>10. PICK R1, R2, R3, R4 : /\ R1 = {EntCell(x[1], x[2]) : x \in E} /\ R2 = {SubCell(i, n) : n \in B}
                             /\ R3 = {PendCell(q) : q \in P}
                             /\ R4 = IF i = ROOTINO THEN {RootCell} ELSE {}
  OBVIOUS
<1>11. {x \in LinkCells : F[x] = i} = ((R1 \cup R2) \cup R3) \cup R4
  <2>1. ASSUME NEW x \in LinkCells, F[x] = i
        PROVE  x \in ((R1 \cup R2) \cup R3) \cup R4
    <3>1. CASE \E a \in Inums, n \in Plain : x = EntCell(a, n)
      <4>1. PICK a \in Inums, n \in Plain : x = EntCell(a, n)
        BY <3>1
      <4>2. PICK y \in E : y = <<a, n>>
        BY <4>1, <2>1, <1>5, <1>7
      <4>3. y[1] = a /\ y[2] = n
        BY <4>2
      <4> QED BY <4>1, <4>3, <1>10
    <3>2. CASE \E a \in Inums, n \in Plain : x = SubCell(a, n)
      BY <3>2, <2>1, <1>5, <1>8, <1>10
    <3>3. CASE \E q \in Procs : x = PendCell(q)
      BY <3>3, <2>1, <1>5, <1>9, <1>10
    <3>4. CASE x = RootCell
      BY <3>4, <2>1, <1>5, <1>10
    <3> QED BY <3>1, <3>2, <3>3, <3>4, LinkCellOf
  <2>2. \A x \in R1 : x \in LinkCells /\ F[x] = i
    BY <1>5, <1>7, <1>10
  <2>3. \A x \in R2 : x \in LinkCells /\ F[x] = i
    BY <1>5, <1>8, <1>10
  <2>4. \A x \in R3 : x \in LinkCells /\ F[x] = i
    BY <1>5, <1>9, <1>10
  <2>5. \A x \in R4 : x \in LinkCells /\ F[x] = i
    BY <1>5, <1>10
  <2> QED BY <2>1, <2>2, <2>3, <2>4, <2>5
<1>12. IsFiniteSet(E) /\ IsFiniteSet(B) /\ IsFiniteSet(P)
  <2>1. IsFiniteSet(Inums \X Plain) /\ IsFiniteSet(Plain) /\ IsFiniteSet(Procs)
    BY FiniteSetsHere, FS_Product
  <2>2. E \subseteq Inums \X Plain
    BY <1>2 DEF Icache!Entries
  <2> QED BY <2>1, <2>2, <1>8, <1>9, FS_Subset
<1>13. IsFiniteSet(R1) /\ Cardinality(R1) = Cardinality(E)
  <2>1. PICK f : f = [x \in E |-> EntCell(x[1], x[2])]
    OBVIOUS
  <2>2. \A x, y \in E : f[x] = f[y] => x = y
    BY <2>1, <1>7 DEF EntCell
  <2>3. f \in Bijection(E, R1)
    BY <2>1, <2>2, <1>10 DEF Bijection, Injection, Surjection, IsInjective
  <2>4. ExistsBijection(E, R1)
    BY <2>3 DEF ExistsBijection
  <2> QED BY <2>4, <1>12, FS_Bijection
<1>14. IsFiniteSet(R2) /\ Cardinality(R2) = Cardinality(B)
  <2>1. PICK f : f = [n \in B |-> SubCell(i, n)]
    OBVIOUS
  <2>2. \A x, y \in B : f[x] = f[y] => x = y
    BY <2>1 DEF SubCell
  <2>3. f \in Bijection(B, R2)
    BY <2>1, <2>2, <1>10 DEF Bijection, Injection, Surjection, IsInjective
  <2>4. ExistsBijection(B, R2)
    BY <2>3 DEF ExistsBijection
  <2> QED BY <2>4, <1>12, FS_Bijection
<1>15. IsFiniteSet(R3) /\ Cardinality(R3) = Cardinality(P)
  <2>1. PICK f : f = [q \in P |-> PendCell(q)]
    OBVIOUS
  <2>2. \A x, y \in P : f[x] = f[y] => x = y
    BY <2>1 DEF PendCell
  <2>3. f \in Bijection(P, R3)
    BY <2>1, <2>2, <1>10 DEF Bijection, Injection, Surjection, IsInjective
  <2>4. ExistsBijection(P, R3)
    BY <2>3 DEF ExistsBijection
  <2> QED BY <2>4, <1>12, FS_Bijection
<1>16. IsFiniteSet(R4) /\ Cardinality(R4) = IF i = ROOTINO THEN 1 ELSE 0
  BY <1>10, FS_EmptySet, FS_Singleton
<1>17. /\ \A x \in R1 : x[1] = "ent"
       /\ \A x \in R2 : x[1] = "sub"
       /\ \A x \in R3 : x[1] = "pend"
       /\ \A x \in R4 : x[1] = "root"
  BY <1>10 DEF EntCell, SubCell, PendCell, RootCell
<1>18. /\ IsFiniteSet(R1 \cup R2) /\ Cardinality(R1) \in Nat /\ Cardinality(R2) \in Nat
       /\ Cardinality(R1 \cup R2) = Cardinality(R1) + Cardinality(R2)
  <2>1. \A x \in R1 : x \notin R2
    BY <1>17
  <2> QED BY <2>1, <1>13, <1>14, DisjointSizes
<1>19. /\ IsFiniteSet((R1 \cup R2) \cup R3) /\ Cardinality(R3) \in Nat
       /\ Cardinality((R1 \cup R2) \cup R3) = Cardinality(R1 \cup R2) + Cardinality(R3)
  <2>1. \A x \in R1 \cup R2 : x \notin R3
    BY <1>17
  <2> QED BY <2>1, <1>15, <1>18, DisjointSizes
<1>20. /\ Cardinality(R4) \in Nat
       /\ Cardinality(((R1 \cup R2) \cup R3) \cup R4) = Cardinality((R1 \cup R2) \cup R3) + Cardinality(R4)
  <2>1. \A x \in (R1 \cup R2) \cup R3 : x \notin R4
    BY <1>17
  <2> QED BY <2>1, <1>16, <1>19, DisjointSizes
<1>21. Count(F, i) = Cardinality(E) + Cardinality(B) + Cardinality(P) + (IF i = ROOTINO THEN 1 ELSE 0)
  BY <1>5, <1>11, <1>13, <1>14, <1>15, <1>16, <1>18, <1>19, <1>20 DEF Count, Held
<1>22. Icache!NumLinks(i)
         = Cardinality(E) + Cardinality(B) + Cardinality(P) + (IF i = ROOTINO THEN 1 ELSE 0)
  BY <1>2, <1>3, <1>4, SameCardinality DEF Icache!NumLinks
<1> QED BY <1>1, <1>21, <1>22

(* ... the exact link counts, and the tree.                                *)
LEMMA InvLinks ==
    ASSUME Icache!Configuration, InodeInv
    PROVE  Icache!LinksExact /\ Icache!TreeShape
<1>1. Typed /\ LinksOk /\ MemOk /\ TreeOk
  BY InvParts
<1>2. ASSUME NEW i \in Inums
      PROVE  IF i \in orphans THEN Icache!NumLinks(i) < dinode[i].nlink
                              ELSE Icache!NumLinks(i) = dinode[i].nlink
  <2>1. PICK c, n : c = Count(Links(dinode, ent, loc), i) /\ n = dinode[i].nlink
    OBVIOUS
  <2>2. c <= n /\ (c = n <=> i \notin orphans) /\ c = Icache!NumLinks(i) /\ n \in Nat
    BY <2>1, <1>1, LinksCounted DEF LinksOk, Typed, Dinodes
  <2>3. c \in Nat
    <3>1. PICK F : F = Links(dinode, ent, loc)
      OBVIOUS
    <3>2. IsFiniteSet({x \in LinkCells : F[x] = i})
      BY LinkCellsFinite, FS_Subset
    <3>3. c = Cardinality({x \in LinkCells : F[x] = i})
      BY <3>1, <2>1 DEF Count, Held, Links
    <3> QED BY <3>2, <3>3, FS_CardinalityType
  <2>4. c = n \/ c < n
    BY <2>2, <2>3
  <2> QED BY <2>1, <2>2, <2>4
<1>3. Icache!LinksExact
  <2>1. ASSUME NEW i \in Inums, Icache!Entries(i) # {}
        PROVE  dinode[i].type # "free"
    <3>1. PICK a \in Inums, n \in Plain : ent[a][n] = i
      BY <2>1 DEF Icache!Entries
    <3>2. dinode[i].nlink >= 1
      BY <3>1, <1>1, LinkedCounted DEF Icache!Configuration
    <3> QED BY <3>2, <1>1 DEF MemOk
  <2> QED BY <2>1, <1>2 DEF Icache!LinksExact
<1>4. Icache!TreeShape
  <2>1. ASSUME NEW i \in Inums, dinode[i].type = "dir"
        PROVE  /\ Cardinality(Icache!Entries(i)) \leq 1
               /\ \A dn \in Icache!Entries(i) : ent[i][".."] = dn[1] /\ ent[i]["."] = i
    <3>1. \A x \in Icache!Entries(i) : x[1] \in Inums /\ x[2] \in Plain /\ x = <<x[1], x[2]>> /\ ent[x[1]][x[2]] = i
      BY DEF Icache!Entries
    <3>2. ASSUME NEW x \in Icache!Entries(i)
          PROVE  ent[i][".."] = x[1] /\ ent[i]["."] = i /\ \A y \in Icache!Entries(i) : y = x
      <4>1. PICK d \in Inums, n \in Plain : d = x[1] /\ n = x[2] /\ x = <<d, n>> /\ ent[d][n] = i
        BY <3>1
      <4>2. /\ ent[i][".."] = d /\ ent[i]["."] = i
            /\ \A e \in Inums, m \in Plain : ent[e][m] = i => e = d /\ m = n
        BY <4>1, <2>1, <1>1 DEF TreeOk
      <4> QED BY <4>1, <4>2, <3>1
    <3>3. CASE Icache!Entries(i) = {}
      BY <3>3, FS_EmptySet
    <3>4. CASE Icache!Entries(i) # {}
      <4>1. PICK x \in Icache!Entries(i) : TRUE
        BY <3>4
      <4>2. Icache!Entries(i) = {x}
        BY <3>2, <4>1
      <4>3. Cardinality(Icache!Entries(i)) = 1
        BY <4>2, FS_Singleton
      <4> QED BY <3>2, <4>3
    <3> QED BY <3>3, <3>4
  <2> QED BY <2>1, SameCardinality DEF Icache!TreeShape
<1> QED BY <1>3, <1>4

(* ... that nothing in use is freed, and no panic.                         *)
LEMMA InvAlive ==
    ASSUME Icache!Configuration, InodeInv
    PROVE  Icache!NoPanic /\ Icache!UsersAlive
<1>1. Icache!NoPanic
  BY InvParts DEF Typed, Icache!NoPanic
<1>2. ASSUME NEW p \in Procs, NEW i \in Inums, i \in {cwd[p], file[p]}
      PROVE  dinode[i].type # "free"
  <2>1. i # 0
    BY DEF Icache!Configuration
  <2>2. i \in Have(p)
    BY <2>1, <1>2 DEF Have, HaveOf, Others
  <2> QED BY <2>2, InvParts DEF AliveOk
<1> QED BY <1>1, <1>2 DEF Icache!UsersAlive

(* ... and that a cycle of two needs iput: at ilock a process has locked   *)
(* nothing but the directory that its inode is in, or is to be in; two     *)
(* directories are not in each other, and a new inode is nobody else's.    *)
LEMMA InvCycles ==
    ASSUME Icache!Configuration, InodeInv
    PROVE  Icache!CyclesNeedPut
<1>1. LockOk /\ NoPair /\ Typed
  BY InvParts
<1>2. SUFFICES ASSUME NEW p \in Procs, NEW q \in Procs, Icache!WaitsFor(p, q), Icache!WaitsFor(q, p),
                      loc[p].pc # "iput", loc[q].pc # "iput"
               PROVE  FALSE
  BY DEF Icache!CyclesNeedPut
<1>3. ASSUME NEW t \in Procs, NEW u \in Procs, Icache!WaitsFor(t, u), loc[t].pc # "iput"
      PROVE  /\ loc[t].pc \in DOMAIN Icache!Locks /\ loc[t].ip \in Inums /\ loc[t].ip # 0
             /\ loc[t].ip \in Locked(loc[u])
  <2>1. loc[t].pc \in DOMAIN Icache!Locks /\ loc[t].ip # 0 /\ lock[loc[t].ip] = u
    BY <1>3 DEF Icache!WaitsFor, Icache!Wants
  <2>2. loc[t].ip \in Inums
    BY <2>1, LocFacts DEF Ptrs
  <2> QED BY <2>1, <2>2, <1>1 DEF LockOk
<1>4. ASSUME NEW t \in Procs, loc[t].pc \in DOMAIN Icache!Locks
      PROVE  /\ loc[t].pc \notin {"new", "victim"} => Locked(loc[t]) = {}
             /\ Locked(loc[t]) \subseteq {loc[t].dp}
  <2>1. Stage(loc[t]) = loc[t].pc /\ loc[t].pc # "ifree" /\ loc[t].pc \notin LockedIp
    BY <1>4, LockLabels DEF Stage, Puts, LockedIp
  <2>2. loc[t].pc \in HasDp => loc[t].pc \in {"new", "victim"}
    BY <1>4, LockLabels DEF HasDp
  <2> QED BY <2>1, <2>2 DEF Locked
<1>5. /\ loc[p].ip = loc[q].dp /\ loc[q].ip = loc[p].dp
      /\ loc[p].pc \in {"new", "victim"} /\ loc[q].pc \in {"new", "victim"}
      /\ loc[p].ip \in Inums /\ loc[q].ip \in Inums
  BY <1>2, <1>3, <1>4
<1>6. ASSUME NEW t \in Procs, loc[t].pc = "new", NEW u \in Procs, loc[u].dp = loc[t].ip, loc[t].ip \in Inums,
             loc[u].ip = loc[t].dp
      PROVE  FALSE
  <2>1. Fresh(loc[t]) /\ Alone(t) /\ CallOk(loc[t], cwd[t])
    BY <1>6, InvParts DEF Fresh
  <2>2. loc[t].ip # loc[t].dp
    BY <2>1 DEF CallOk
  <2>3. CASE u = t
    BY <2>2, <2>3, <1>6
  <2>4. CASE u # t
    <3>1. loc[t].ip \notin Have(u)
      BY <2>1, <2>4 DEF Alone
    <3>2. loc[t].ip # 0
      BY <1>6 DEF Icache!Configuration
    <3>3. loc[t].ip \in Have(u)
      BY <3>2, <1>6 DEF Have, HaveOf, Others
    <3> QED BY <3>1, <3>3
  <2> QED BY <2>3, <2>4
<1>7. loc[p].pc = "victim" /\ loc[q].pc = "victim"
  BY <1>5, <1>6
<1>8. ASSUME NEW t \in Procs, loc[t].pc = "victim"
      PROVE  ent[loc[t].dp][loc[t].path[1]] = loc[t].ip /\ loc[t].path[1] \in Plain
  BY <1>8, InvParts DEF CallOk, LocOk
<1> QED BY <1>1, <1>5, <1>7, <1>8 DEF NoPair

(* The invariant holds of every reachable state.                           *)
THEOREM InodesInvariant ==
    ASSUME Icache!Configuration, Icache!Downward
    PROVE  Icache!Spec => []InodeInv
<1>1. Icache!Init => InodeInv
  BY InodeInitInv
<1>2. InodeInv /\ [Icache!Next]_Icache!vars => InodeInv'
  BY NextInv
<1> QED BY <1>1, <1>2, PTL DEF Icache!Spec

(* ip->ref counts the pointers that processes have to an inode, and nlink  *)
(* its links, of calls under way too: iget, idup and iput balance on every *)
(* path through open, create, link, unlink and chdir, and so do the two    *)
(* counts of a link and its names.  Only an inode that was named in a      *)
(* removed directory has more links, for ever.                             *)
THEOREM ExactCounts ==
    ASSUME Icache!Configuration, Icache!Downward
    PROVE  Icache!Spec => []CountsExact
<1>1. InodeInv => CountsExact
  BY InvRefs, InvLinks DEF CountsExact, Icache!CountsExact
<1> QED BY <1>1, InodesInvariant, PTL

(* iput frees no inode that a process has open or as its directory, ilock  *)
(* finds no freed inode, and sys_unlink no link count below 1.             *)
THEOREM KeptInUse ==
    ASSUME Icache!Configuration, Icache!Downward
    PROVE  Icache!Spec => []InUseKept
<1>1. InodeInv => InUseKept
  BY InvAlive DEF InUseKept, Icache!InUseKept
<1> QED BY <1>1, InodesInvariant, PTL

(* A directory has at most one name, in the directory that its ".." is:    *)
(* sys_link refuses directories and sys_unlink those that are not empty,   *)
(* whatever other calls run between their steps.                           *)
THEOREM DirectoryTree ==
    ASSUME Icache!Configuration, Icache!Downward
    PROVE  Icache!Spec => []TreeShape
<1>1. InodeInv => TreeShape
  BY InvLinks DEF TreeShape
<1> QED BY <1>1, InodesInvariant, PTL

(* Two processes wait for each other's inodes only through an iput with    *)
(* another inode locked: ilock alone goes down the tree.                   *)
THEOREM WaitCycles ==
    ASSUME Icache!Configuration, Icache!Downward
    PROVE  Icache!Spec => []CyclesNeedPut
<1>1. InodeInv => CyclesNeedPut
  BY InvCycles DEF CyclesNeedPut
<1> QED BY <1>1, InodesInvariant, PTL
=============================================================================
