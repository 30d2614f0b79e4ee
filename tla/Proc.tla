-------------------------------- MODULE Proc --------------------------------
(***************************************************************************)
(* The process table (proc.c): fork, exit, wait, kill, sleep, wakeup and   *)
(* the schedulers of the CPUs.  Every step below runs under ptable.lock,   *)
(* or changes only the slot of an EMBRYO that its creator alone looks at.  *)
(* The memory of a process is the subject of ClockVm.                      *)
(*                                                                         *)
(* A slot number stands for its struct proc; slot 1 is init's.             *)
(***************************************************************************)
EXTENDS Integers, FiniteSets

CONSTANTS
    NPROC,    \* slots of the table
    Cpus,     \* processors
    MaxPid,   \* bound: pids handed out
    Targets   \* pids that kill is called with; nobody kills init

ASSUME SizeAssumption == NPROC \in Nat \ {0} /\ MaxPid \in Nat \ {0}
ASSUME TargetAssumption == Targets \subseteq 2 .. MaxPid

Slots == 1 .. NPROC
InitSlot == 1
Nobody == 0
Io == NPROC + 1   \* a channel of a device, pipe or lock

VARIABLES
    state, pid, parent, chan, killed,  \* struct proc
    nextpid,
    proc,    \* cpu->proc
    where,   \* what the kernel thread of each process is doing
    child    \* the slot fork is filling

vars == <<state, pid, parent, chan, killed, nextpid, proc, where, child>>
table == <<state, pid, parent, chan, killed, nextpid>>

States == {"UNUSED", "EMBRYO", "SLEEPING", "RUNNABLE", "RUNNING", "ZOMBIE"}
Live(s) == state[s] \in {"SLEEPING", "RUNNABLE", "RUNNING"}
Running(s) == state[s] = "RUNNING"

(* userinit has made the first process.                                    *)
Init ==
    /\ state = [s \in Slots |-> IF s = InitSlot THEN "RUNNABLE" ELSE "UNUSED"]
    /\ pid = [s \in Slots |-> IF s = InitSlot THEN 1 ELSE 0]
    /\ parent = [s \in Slots |-> Nobody]
    /\ chan = [s \in Slots |-> Nobody]
    /\ killed = [s \in Slots |-> FALSE]
    /\ nextpid = 2
    /\ proc = [c \in Cpus |-> Nobody]
    /\ where = [s \in Slots |-> "user"]
    /\ child = [s \in Slots |-> Nobody]
-----------------------------------------------------------------------------
First(S) == CHOOSE s \in S : \A t \in S : s \leq t

(* wakeup1, applied to a table of states.                                  *)
Wakeup1(f, c) ==
    [s \in Slots |-> IF f[s] = "SLEEPING" /\ chan[s] = c THEN "RUNNABLE" ELSE f[s]]

(* sched: the CPU of s goes back to its scheduler.                         *)
Sched(s) == proc' = [c \in Cpus |-> IF proc[c] = s THEN Nobody ELSE proc[c]]

(* A turn of the scheduler; a process that was asleep then clears its      *)
(* channel.                                                                *)
scheduler(c, s) ==
    /\ proc[c] = Nobody
    /\ state[s] = "RUNNABLE"
    /\ proc' = [proc EXCEPT ![c] = s]
    /\ state' = [state EXCEPT ![s] = "RUNNING"]
    /\ chan' = [chan EXCEPT ![s] = Nobody]
    /\ UNCHANGED <<pid, parent, killed, nextpid, where, child>>

(* The clock interrupt.                                                    *)
yield(s) ==
    /\ Running(s)
    /\ state' = [state EXCEPT ![s] = "RUNNABLE"]
    /\ Sched(s)
    /\ UNCHANGED <<pid, parent, chan, killed, nextpid, where, child>>

(* allocproc takes the first free slot; what the slot's last owner left in *)
(* parent and killed stays.                                                *)
Free == {s \in Slots : state[s] = "UNUSED"}

allocproc(s) ==
    /\ Running(s) /\ where[s] = "user"
    /\ Free # {} /\ nextpid \leq MaxPid
    /\ LET t == First(Free)
       IN  /\ state' = [state EXCEPT ![t] = "EMBRYO"]
           /\ pid' = [pid EXCEPT ![t] = nextpid]
           /\ child' = [child EXCEPT ![s] = t]
    /\ nextpid' = nextpid + 1
    /\ where' = [where EXCEPT ![s] = "fork"]
    /\ UNCHANGED <<parent, chan, killed, proc>>

(* The kernel stack or the page table cannot be had.  If that happens to   *)
(* init, its program exits and exit panics; this end is left out.          *)
ForkFails(s) ==
    /\ Running(s) /\ where[s] = "fork" /\ s # InitSlot
    /\ state' = [state EXCEPT ![child[s]] = "UNUSED"]
    /\ child' = [child EXCEPT ![s] = Nobody]
    /\ where' = [where EXCEPT ![s] = "user"]
    /\ UNCHANGED <<pid, parent, chan, killed, nextpid, proc>>

ForkDone(s) ==
    /\ Running(s) /\ where[s] = "fork"
    /\ state' = [state EXCEPT ![child[s]] = "RUNNABLE"]
    /\ parent' = [parent EXCEPT ![child[s]] = s]
    /\ where' = [where EXCEPT ![s] = "user", ![child[s]] = "user"]
    /\ child' = [child EXCEPT ![s] = Nobody]
    /\ UNCHANGED <<pid, chan, killed, nextpid, proc>>

(* exit wakes the parent, gives the children to init, wakes init if one of *)
(* them is a zombie, and becomes a zombie itself.  init does not exit.     *)
\* Mutant: init is not told of the zombies it inherits.
exit_quiet(s) ==
    /\ Running(s) /\ where[s] = "user" /\ s # InitSlot
    /\ parent' = [t \in Slots |-> IF parent[t] = s THEN InitSlot ELSE parent[t]]
    /\ state' = [Wakeup1(state, parent[s]) EXCEPT ![s] = "ZOMBIE"]
    /\ Sched(s)
    /\ UNCHANGED <<pid, chan, killed, nextpid, where, child>>

\* Mutant: the children keep their parent.
exit_abandons(s) ==
    /\ Running(s) /\ where[s] = "user" /\ s # InitSlot
    /\ state' = [Wakeup1(state, parent[s]) EXCEPT ![s] = "ZOMBIE"]
    /\ Sched(s)
    /\ UNCHANGED <<pid, parent, chan, killed, nextpid, where, child>>

exit(s) ==
    /\ Running(s) /\ where[s] = "user" /\ s # InitSlot
    /\ LET orphans == {t \in Slots : parent[t] = s}
           woken == Wakeup1(state, parent[s])
           told == IF \E t \in orphans : state[t] = "ZOMBIE"
                   THEN Wakeup1(woken, InitSlot) ELSE woken
       IN  /\ parent' = [t \in Slots |-> IF t \in orphans THEN InitSlot ELSE parent[t]]
           /\ state' = [told EXCEPT ![s] = "ZOMBIE"]
    /\ Sched(s)
    /\ UNCHANGED <<pid, chan, killed, nextpid, where, child>>

(* sleep on a channel.                                                     *)
\* Mutant: the CPU is not given up.
Sleeps_running(s, c, w) ==
    /\ state' = [state EXCEPT ![s] = "SLEEPING"]
    /\ chan' = [chan EXCEPT ![s] = c]
    /\ where' = [where EXCEPT ![s] = w]
    /\ UNCHANGED proc

Sleeps(s, c, w) ==
    /\ state' = [state EXCEPT ![s] = "SLEEPING"]
    /\ chan' = [chan EXCEPT ![s] = c]
    /\ where' = [where EXCEPT ![s] = w]
    /\ Sched(s)

(* A turn of wait's loop: free the first zombie child, or return because   *)
(* there is nobody to wait for or the caller was killed, or sleep on       *)
(* oneself.                                                                *)
Children(s) == {t \in Slots : parent[t] = s}
Zombies(s) == {t \in Children(s) : state[t] = "ZOMBIE"}

Reap(s) ==
    LET z == First(Zombies(s))
    IN  /\ state' = [state EXCEPT ![z] = "UNUSED"]
        /\ pid' = [pid EXCEPT ![z] = 0]
        /\ parent' = [parent EXCEPT ![z] = Nobody]
        /\ killed' = [killed EXCEPT ![z] = FALSE]

wait(s) ==
    /\ Running(s) /\ where[s] \in {"user", "wait"}
    /\ \/ /\ Zombies(s) # {}
          /\ Reap(s)
          /\ where' = [where EXCEPT ![s] = "user"]
          /\ UNCHANGED <<chan, proc>>
       \/ /\ Zombies(s) = {} /\ (Children(s) = {} \/ killed[s])
          /\ where[s] = "wait"
          /\ where' = [where EXCEPT ![s] = "user"]
          /\ UNCHANGED <<state, pid, parent, chan, killed, proc>>
       \/ /\ Zombies(s) = {} /\ Children(s) # {} /\ ~killed[s]
          /\ Sleeps(s, s, "wait")
          /\ UNCHANGED <<pid, parent, killed>>
    /\ UNCHANGED <<nextpid, child>>

(* A system call that waits for a device, a lock or a pipe.  Woken, it     *)
(* looks again at what it waits for.                                       *)
SleepIo(s) ==
    /\ Running(s) /\ where[s] \in {"user", "io"}
    /\ Sleeps(s, Io, "io")
    /\ UNCHANGED <<pid, parent, killed, nextpid, child>>

IoDone(s) ==
    /\ Running(s) /\ where[s] = "io"
    /\ where' = [where EXCEPT ![s] = "user"]
    /\ UNCHANGED <<table, proc, child>>

wakeup ==
    /\ state' = Wakeup1(state, Io)
    /\ UNCHANGED <<pid, parent, chan, killed, nextpid, proc, where, child>>

(* A running process calls kill, which marks the first slot with the pid,  *)
(* whatever its state.                                                     *)
kill(x) ==
    LET S == {s \in Slots : pid[s] = x}
    IN  /\ \E k \in Slots : Running(k) /\ where[k] = "user"
        /\ S # {}
        /\ killed' = [killed EXCEPT ![First(S)] = TRUE]
        /\ state' = [state EXCEPT ![First(S)] = IF @ = "SLEEPING" THEN "RUNNABLE" ELSE @]
        /\ UNCHANGED <<pid, parent, chan, nextpid, proc, where, child>>

(* trap: a process that misbehaves in user space.                          *)
trap(s) ==
    /\ Running(s) /\ where[s] = "user" /\ s # InitSlot
    /\ killed' = [killed EXCEPT ![s] = TRUE]
    /\ UNCHANGED <<state, pid, parent, chan, nextpid, proc, where, child>>

Next ==
    \/ \E c \in Cpus, s \in Slots : scheduler(c, s)
    \/ \E s \in Slots : \/ yield(s)
                        \/ allocproc(s) \/ ForkFails(s) \/ ForkDone(s)
                        \/ exit(s) \/ wait(s) \/ SleepIo(s) \/ IoDone(s)
                        \/ trap(s)
    \/ wakeup
    \/ \E x \in Targets : kill(x)

(* Each scheduler scans the whole table, so that a process that is         *)
(* RUNNABLE again and again is chosen; the processes that run are          *)
(* interrupted by the clock and run on; init calls wait in a loop.         *)
RunInit == \E c \in Cpus : scheduler(c, InitSlot)

Fairness ==
    /\ SF_vars(RunInit)
    /\ WF_vars(\E s \in Slots : yield(s))
    /\ SF_vars(wait(InitSlot))
    /\ SF_vars(IoDone(InitSlot) \/ ForkDone(InitSlot))
    /\ WF_vars(wakeup)

Spec == Init /\ [][Next]_vars
FairSpec == Spec /\ Fairness
-----------------------------------------------------------------------------
TypeOK ==
    /\ state \in [Slots -> States]
    /\ pid \in [Slots -> 0 .. MaxPid]
    /\ parent \in [Slots -> Slots \cup {Nobody}]
    /\ chan \in [Slots -> Slots \cup {Nobody, Io}]
    /\ killed \in [Slots -> BOOLEAN]
    /\ nextpid \in 2 .. MaxPid + 1
    /\ proc \in [Cpus -> Slots \cup {Nobody}]
    /\ where \in [Slots -> {"user", "fork", "wait", "io"}]
    /\ child \in [Slots -> Slots \cup {Nobody}]

(* A process runs on exactly one CPU, and a CPU runs only processes that   *)
(* are RUNNING: sleeping, yielding and dying always give up the CPU.       *)
OnOneCpu ==
    \A s \in Slots :
        Cardinality({c \in Cpus : proc[c] = s}) = IF Running(s) THEN 1 ELSE 0

(* Every process but init has a parent that is alive and will find it      *)
(* ("Pass abandoned children to init", exit).                              *)
ParentAlive ==
    \A s \in Slots \ {InitSlot} :
        Live(s) \/ state[s] = "ZOMBIE" => parent[s] \in Slots /\ Live(parent[s])

(* Nobody sleeps in wait past an exit or a kill: a sleeper there has       *)
(* children, none of them a zombie, and has not been killed.               *)
WaitersWait ==
    \A s \in Slots :
        state[s] = "SLEEPING" /\ chan[s] = s =>
            Children(s) # {} /\ Zombies(s) = {} /\ ~killed[s]

(* Zombies that init inherits are freed.                                   *)
OrphansReaped ==
    \A s \in Slots \ {InitSlot} :
        state[s] = "ZOMBIE" /\ parent[s] = InitSlot ~> state[s] = "UNUSED"

(* The types of struct proc, and one CPU for each running process.         *)
OneCpuEach == TypeOK /\ OnOneCpu
=============================================================================
