----------------------------- MODULE ProcProofs -----------------------------
(***************************************************************************)
(* What the process table guarantees for every number of slots, CPUs and   *)
(* pids: one CPU for each running process, a living parent for each child, *)
(* and no process asleep in wait past the end of a child.                  *)
(* Its second part is about the memory of the processes in that table: for *)
(* every number and size of pages, every page is accounted for whatever    *)
(* allocation fails, and no CPU runs on memory that was given back.        *)
(***************************************************************************)
EXTENDS Proc, Memory, FiniteSetTheorems, WellFoundedInduction, TLAPS

(* A CPU runs a process that is RUNNING, no two run the same one, and each *)
(* RUNNING process is on a CPU.                                            *)
OnCpu ==
    /\ \A c \in Cpus : proc[c] # Nobody => Running(proc[c])
    /\ \A c, d \in Cpus : proc[c] = proc[d] /\ proc[c] # Nobody => c = d
    /\ \A s \in Slots : Running(s) => \E c \in Cpus : proc[c] = s

(* A process in fork fills an EMBRYO, which no other process does.         *)
Forks ==
    /\ \A s \in Slots : where[s] = "fork" => /\ Live(s) /\ child[s] \in Slots
                                             /\ state[child[s]] = "EMBRYO"
    /\ \A s, t \in Slots : where[s] = "fork" /\ where[t] = "fork" /\ child[s] = child[t] => s = t

(* init lives and has no parent; a slot that is not in use, or not yet,    *)
(* has none either; every other process has one that is alive, and not     *)
(* itself.                                                                 *)
Family ==
    /\ Live(InitSlot) /\ parent[InitSlot] = Nobody
    /\ \A s \in Slots : parent[s] # s
    /\ \A s \in Slots : state[s] \in {"UNUSED", "EMBRYO"} => parent[s] = Nobody
    /\ ParentAlive

(* The inductive invariant.                                                *)
Inv == TypeOK /\ OnCpu /\ Forks /\ Family /\ WaitersWait

(* The slots are positive numbers, and neither Nobody nor the device       *)
(* channel is one.                                                         *)
LEMMA SlotFacts ==
    /\ Slots \subseteq Nat /\ InitSlot \in Slots /\ Nobody \notin Slots /\ Io \notin Slots
    /\ Io # Nobody
  BY SizeAssumption DEF Slots, InitSlot, Nobody, Io

(* A scan of the table finds a slot of any non-empty set.                  *)
LEMMA FirstIn ==
    ASSUME NEW S \in SUBSET Slots, S # {}
    PROVE  First(S) \in S
<1>1. S \subseteq Nat
  BY SlotFacts
<1>2. PICK s \in S : \A t \in S : ~(<<t, s>> \in OpToRel(<, Nat))
  BY <1>1, WFMin, NatLessThanWellFounded
<1>3. s \in Nat /\ \A t \in S : t \in Nat /\ ~(t < s)
  BY <1>1, <1>2 DEF OpToRel
<1>4. \A t \in S : s \leq t
  BY <1>3
<1> QED BY <1>4 DEF First

(* userinit's table satisfies the invariant.                               *)
LEMMA InitInv ==
    ASSUME Init
    PROVE  Inv
<1>1. TypeOK
  BY SlotFacts, SizeAssumption DEF Init, TypeOK, States
<1>2. OnCpu /\ Forks
  BY SlotFacts DEF Init, OnCpu, Forks, Running
<1>3. Family /\ WaitersWait
  BY SlotFacts DEF Init, Family, ParentAlive, WaitersWait, Live
<1> QED BY <1>1, <1>2, <1>3 DEF Inv

(* scheduler gives an idle CPU to a RUNNABLE process, which no CPU has.    *)
LEMMA schedulerInv ==
    ASSUME Inv, NEW c \in Cpus, NEW s \in Slots, scheduler(c, s)
    PROVE  Inv'
<1>1. /\ proc[c] = Nobody /\ state[s] = "RUNNABLE" /\ proc' = [proc EXCEPT ![c] = s]
      /\ state' = [state EXCEPT ![s] = "RUNNING"] /\ chan' = [chan EXCEPT ![s] = Nobody]
      /\ UNCHANGED <<pid, parent, killed, nextpid, where, child>>
  BY DEF scheduler
<1>2. TypeOK'
  BY <1>1 DEF Inv, TypeOK, States
<1>3. OnCpu'
  BY <1>1, SlotFacts DEF Inv, TypeOK, OnCpu, Running
<1>4. Forks'
  BY <1>1 DEF Inv, TypeOK, Forks, Live
<1>5. Family'
  BY <1>1, SlotFacts DEF Inv, TypeOK, Family, ParentAlive, Live
<1>6. WaitersWait'
  BY <1>1 DEF Inv, TypeOK, WaitersWait, Children, Zombies
<1> QED BY <1>2, <1>3, <1>4, <1>5, <1>6 DEF Inv

(* yield gives up the CPU.                                                 *)
LEMMA yieldInv ==
    ASSUME Inv, NEW s \in Slots, yield(s)
    PROVE  Inv'
<1>1. /\ state[s] = "RUNNING" /\ state' = [state EXCEPT ![s] = "RUNNABLE"]
      /\ proc' = [c \in Cpus |-> IF proc[c] = s THEN Nobody ELSE proc[c]]
      /\ UNCHANGED <<pid, parent, chan, killed, nextpid, where, child>>
  BY DEF yield, Sched, Running
<1>2. TypeOK'
  BY <1>1 DEF Inv, TypeOK, States
<1>3. OnCpu'
  BY <1>1, SlotFacts DEF Inv, TypeOK, OnCpu, Running
<1>4. Forks'
  BY <1>1 DEF Inv, TypeOK, Forks, Live
<1>5. Family'
  BY <1>1, SlotFacts DEF Inv, TypeOK, Family, ParentAlive, Live
<1>6. WaitersWait'
  BY <1>1 DEF Inv, TypeOK, WaitersWait, Children, Zombies
<1> QED BY <1>2, <1>3, <1>4, <1>5, <1>6 DEF Inv

(* allocproc takes a slot that nobody uses and that is nobody's child.     *)
LEMMA allocprocInv ==
    ASSUME Inv, NEW s \in Slots, allocproc(s)
    PROVE  Inv'
<1>1. PICK t \in Slots : t = First(Free) /\ state[t] = "UNUSED"
  BY FirstIn DEF allocproc, Free
<1>2. /\ state[s] = "RUNNING" /\ where[s] = "user" /\ state' = [state EXCEPT ![t] = "EMBRYO"]
      /\ pid' = [pid EXCEPT ![t] = nextpid] /\ child' = [child EXCEPT ![s] = t]
      /\ nextpid \leq MaxPid /\ nextpid' = nextpid + 1 /\ where' = [where EXCEPT ![s] = "fork"]
      /\ UNCHANGED <<parent, chan, killed, proc>>
  BY <1>1 DEF allocproc, Running
<1>3. TypeOK'
  BY <1>2, SizeAssumption DEF Inv, TypeOK, States
<1>4. OnCpu'
  BY <1>1, <1>2, SlotFacts DEF Inv, TypeOK, OnCpu, Running
<1>5. Forks'
  BY <1>1, <1>2 DEF Inv, TypeOK, Forks, Live
<1>6. Family'
  BY <1>1, <1>2, SlotFacts DEF Inv, TypeOK, Family, ParentAlive, Live
<1>7. WaitersWait'
  BY <1>1, <1>2 DEF Inv, TypeOK, WaitersWait, Children, Zombies
<1> QED BY <1>3, <1>4, <1>5, <1>6, <1>7 DEF Inv

(* A fork that fails gives back the slot it took.                          *)
LEMMA ForkFailsInv ==
    ASSUME Inv, NEW s \in Slots, ForkFails(s)
    PROVE  Inv'
<1>1. PICK t \in Slots : t = child[s] /\ state[t] = "EMBRYO"
  BY DEF ForkFails, Inv, Forks
<1>2. /\ state[s] = "RUNNING" /\ where[s] = "fork" /\ state' = [state EXCEPT ![t] = "UNUSED"]
      /\ child' = [child EXCEPT ![s] = Nobody] /\ where' = [where EXCEPT ![s] = "user"]
      /\ UNCHANGED <<pid, parent, chan, killed, nextpid, proc>>
  BY <1>1 DEF ForkFails, Running
<1>3. TypeOK'
  BY <1>2 DEF Inv, TypeOK, States
<1>4. OnCpu'
  BY <1>1, <1>2, SlotFacts DEF Inv, TypeOK, OnCpu, Running
<1>5. Forks'
  BY <1>1, <1>2 DEF Inv, TypeOK, Forks, Live
<1>6. Family'
  BY <1>1, <1>2, SlotFacts DEF Inv, TypeOK, Family, ParentAlive, Live
<1>7. WaitersWait'
  BY <1>1, <1>2 DEF Inv, TypeOK, WaitersWait, Children, Zombies
<1> QED BY <1>3, <1>4, <1>5, <1>6, <1>7 DEF Inv

(* fork makes the slot a RUNNABLE child of a RUNNING process.              *)
LEMMA ForkDoneInv ==
    ASSUME Inv, NEW s \in Slots, ForkDone(s)
    PROVE  Inv'
<1>1. PICK t \in Slots : t = child[s] /\ state[t] = "EMBRYO"
  BY DEF ForkDone, Inv, Forks
<1>2. /\ state[s] = "RUNNING" /\ where[s] = "fork" /\ state' = [state EXCEPT ![t] = "RUNNABLE"]
      /\ parent' = [parent EXCEPT ![t] = s]
      /\ where' = [where EXCEPT ![s] = "user", ![t] = "user"]
      /\ child' = [child EXCEPT ![s] = Nobody]
      /\ UNCHANGED <<pid, chan, killed, nextpid, proc>>
  BY <1>1 DEF ForkDone, Running
<1>3. TypeOK'
  BY <1>2 DEF Inv, TypeOK, States
<1>4. OnCpu'
  BY <1>1, <1>2, SlotFacts DEF Inv, TypeOK, OnCpu, Running
<1>5. Forks'
  BY <1>1, <1>2 DEF Inv, TypeOK, Forks, Live
<1>6. Family'
  BY <1>1, <1>2, SlotFacts DEF Inv, TypeOK, Family, ParentAlive, Live
<1>7. WaitersWait'
  BY <1>1, <1>2, SlotFacts
     DEF Inv, TypeOK, Family, WaitersWait, Children, Zombies
<1> QED BY <1>3, <1>4, <1>5, <1>6, <1>7 DEF Inv

(* exit: the parent is woken if it waits, the children go to init, and     *)
(* init is woken when one of them is a zombie.                             *)
LEMMA exitInv ==
    ASSUME Inv, NEW s \in Slots, exit(s)
    PROVE  Inv'
<1>1. /\ state[s] = "RUNNING" /\ where[s] = "user" /\ s # InitSlot
      /\ parent' = [t \in Slots |-> IF parent[t] = s THEN InitSlot ELSE parent[t]]
      /\ proc' = [c \in Cpus |-> IF proc[c] = s THEN Nobody ELSE proc[c]]
      /\ UNCHANGED <<pid, chan, killed, nextpid, where, child>>
  BY DEF exit, Running, Sched
<1>2. /\ state'[s] = "ZOMBIE" /\ state' \in [Slots -> States]
      /\ \A t \in Slots \ {s} : \/ state'[t] = state[t]
                                \/ state[t] = "SLEEPING" /\ state'[t] = "RUNNABLE"
      /\ \A t \in Slots \ {s} : state'[t] = "SLEEPING" => chan[t] # parent[s]
      /\ \A t \in Slots : parent[t] = s /\ state[t] = "ZOMBIE" =>
            (state'[InitSlot] = "SLEEPING" => chan[InitSlot] # InitSlot)
  <2>1. PICK woken, told :
            /\ woken = Wakeup1(state, parent[s])
            /\ told = IF \E t \in Slots : parent[t] = s /\ state[t] = "ZOMBIE"
                      THEN Wakeup1(woken, InitSlot) ELSE woken
            /\ state' = [told EXCEPT ![s] = "ZOMBIE"]
    BY DEF exit
  <2>2. /\ woken \in [Slots -> States]
        /\ \A t \in Slots : \/ woken[t] = state[t] /\ (woken[t] = "SLEEPING" => chan[t] # parent[s])
                            \/ state[t] = "SLEEPING" /\ woken[t] = "RUNNABLE"
    BY <2>1 DEF Wakeup1, Inv, TypeOK, States
  <2>3. /\ told \in [Slots -> States]
        /\ \A t \in Slots : told[t] = woken[t] \/ (woken[t] = "SLEEPING" /\ told[t] = "RUNNABLE")
        /\ (\E t \in Slots : parent[t] = s /\ state[t] = "ZOMBIE") =>
              (told[InitSlot] = "SLEEPING" => chan[InitSlot] # InitSlot)
    <3>1. CASE \E t \in Slots : parent[t] = s /\ state[t] = "ZOMBIE"
      <4>1. told = Wakeup1(woken, InitSlot)
        BY <2>1, <3>1
      <4> QED BY <2>2, <4>1, SlotFacts DEF Wakeup1, States
    <3>2. CASE ~\E t \in Slots : parent[t] = s /\ state[t] = "ZOMBIE"
      BY <2>1, <2>2, <3>2
    <3> QED BY <3>1, <3>2
  <2>4. /\ state'[s] = "ZOMBIE" /\ state' \in [Slots -> States]
        /\ \A t \in Slots \ {s} : state'[t] = told[t]
    BY <2>1, <2>3 DEF States
  <2> QED BY <1>1, <2>2, <2>3, <2>4, SlotFacts
<1>3. TypeOK'
  BY <1>1, <1>2, SlotFacts DEF Inv, TypeOK
<1>4. OnCpu'
  <2>1. \A t \in Slots : state'[t] = "RUNNING" <=> state[t] = "RUNNING" /\ t # s
    BY <1>2
  <2> QED BY <1>1, <2>1, SlotFacts DEF Inv, TypeOK, OnCpu, Running
<1>5. Forks'
  BY <1>1, <1>2 DEF Inv, TypeOK, Forks, Live
<1>6. Family'
  BY <1>1, <1>2, SlotFacts DEF Inv, TypeOK, Family, ParentAlive, Live
<1>7. WaitersWait'
  <2> SUFFICES ASSUME NEW t \in Slots, state'[t] = "SLEEPING", chan'[t] = t
               PROVE  Children(t)' # {} /\ Zombies(t)' = {} /\ ~killed'[t]
    BY DEF WaitersWait
  <2>1. state[t] = "SLEEPING" /\ chan[t] = t /\ t # s /\ t # parent[s]
    BY <1>1, <1>2
  <2>2. Children(t) # {} /\ Zombies(t) = {} /\ ~killed'[t]
    BY <1>1, <2>1 DEF Inv, WaitersWait
  <2>3. Children(t) \subseteq Children(t)'
    BY <1>1, <2>1 DEF Children
  <2>4. ASSUME NEW u \in Slots, parent'[u] = t, state'[u] = "ZOMBIE" PROVE FALSE
    <3>1. CASE parent[u] = s
      <4>1. t = InitSlot /\ u # s
        BY <1>1, <2>1, <2>4, <3>1 DEF Inv, Family, ParentAlive, Live
      <4> QED BY <1>1, <1>2, <2>1, <2>4, <3>1, <4>1
    <3>2. CASE parent[u] # s
      <4>1. parent[u] = t /\ u # s
        BY <1>1, <2>1, <2>4, <3>2
      <4> QED BY <1>2, <2>2, <2>4, <4>1 DEF Zombies, Children
    <3> QED BY <3>1, <3>2
  <2> QED BY <2>2, <2>3, <2>4 DEF Zombies, Children
<1> QED BY <1>3, <1>4, <1>5, <1>6, <1>7 DEF Inv

(* sleep gives up the CPU; a process sleeps on itself only while it has    *)
(* children that live.                                                     *)
LEMMA SleepsInv ==
    ASSUME Inv, NEW s \in Slots, NEW c \in Slots \cup {Io}, NEW w \in {"wait", "io"},
           Running(s), where[s] # "fork", Sleeps(s, c, w),
           c = s => Children(s) # {} /\ Zombies(s) = {} /\ ~killed[s],
           UNCHANGED <<pid, parent, killed, nextpid, child>>
    PROVE  Inv'
<1>1. /\ state[s] = "RUNNING" /\ state' = [state EXCEPT ![s] = "SLEEPING"]
      /\ chan' = [chan EXCEPT ![s] = c] /\ where' = [where EXCEPT ![s] = w]
      /\ proc' = [d \in Cpus |-> IF proc[d] = s THEN Nobody ELSE proc[d]]
  BY DEF Sleeps, Sched, Running
<1>2. TypeOK'
  BY <1>1 DEF Inv, TypeOK, States
<1>3. OnCpu'
  BY <1>1, SlotFacts DEF Inv, TypeOK, OnCpu, Running
<1>4. Forks'
  BY <1>1 DEF Inv, TypeOK, Forks, Live
<1>5. Family'
  BY <1>1, SlotFacts DEF Inv, TypeOK, Family, ParentAlive, Live
<1>6. WaitersWait'
  BY <1>1 DEF Inv, TypeOK, WaitersWait, Children, Zombies
<1> QED BY <1>2, <1>3, <1>4, <1>5, <1>6 DEF Inv

(* wait frees a zombie child of the caller; no other process loses a       *)
(* child.                                                                  *)
LEMMA ReapInv ==
    ASSUME Inv, NEW s \in Slots, Running(s), where[s] \in {"user", "wait"},
           Zombies(s) # {}, Reap(s),
           where' = [where EXCEPT ![s] = "user"], UNCHANGED <<chan, proc, nextpid, child>>
    PROVE  Inv'
<1>1. PICK z \in Slots : z = First(Zombies(s)) /\ state[z] = "ZOMBIE" /\ parent[z] = s
  BY FirstIn DEF Zombies, Children
<1>2. /\ state' = [state EXCEPT ![z] = "UNUSED"] /\ pid' = [pid EXCEPT ![z] = 0]
      /\ parent' = [parent EXCEPT ![z] = Nobody] /\ killed' = [killed EXCEPT ![z] = FALSE]
      /\ state[s] = "RUNNING"
  BY <1>1 DEF Reap, Running
<1>3. TypeOK'
  BY <1>2, SizeAssumption DEF Inv, TypeOK, States
<1>4. OnCpu'
  BY <1>1, <1>2, SlotFacts DEF Inv, TypeOK, OnCpu, Running
<1>5. Forks'
  BY <1>1, <1>2 DEF Inv, TypeOK, Forks, Live
<1>6. Family'
  BY <1>1, <1>2, SlotFacts DEF Inv, TypeOK, Family, ParentAlive, Live
<1>7. WaitersWait'
  <2> SUFFICES ASSUME NEW t \in Slots, state'[t] = "SLEEPING", chan'[t] = t
               PROVE  Children(t)' # {} /\ Zombies(t)' = {} /\ ~killed'[t]
    BY DEF WaitersWait
  <2>1. state[t] = "SLEEPING" /\ chan[t] = t /\ t # s /\ t # z
    BY <1>1, <1>2 DEF Inv, TypeOK
  <2>2. Children(t) # {} /\ Zombies(t) = {} /\ ~killed[t]
    BY <2>1 DEF Inv, WaitersWait
  <2>3. Children(t)' = Children(t)
    BY <1>1, <1>2, <2>1, SlotFacts DEF Children, Inv, TypeOK
  <2> QED BY <1>1, <1>2, <2>1, <2>2, <2>3 DEF Zombies, Inv, TypeOK
<1> QED BY <1>3, <1>4, <1>5, <1>6, <1>7 DEF Inv

(* wait frees a child, returns or sleeps.                                  *)
LEMMA waitInv ==
    ASSUME Inv, NEW s \in Slots, wait(s)
    PROVE  Inv'
<1>1. Running(s) /\ where[s] \in {"user", "wait"} /\ UNCHANGED <<nextpid, child>>
  BY DEF wait
<1>2. CASE /\ Zombies(s) # {} /\ Reap(s)
           /\ where' = [where EXCEPT ![s] = "user"] /\ UNCHANGED <<chan, proc>>
  BY <1>1, <1>2, ReapInv
<1>3. CASE /\ where' = [where EXCEPT ![s] = "user"]
           /\ UNCHANGED <<state, pid, parent, chan, killed, proc>>
  <2>1. TypeOK' /\ OnCpu' /\ Forks'
    BY <1>1, <1>3 DEF Inv, TypeOK, OnCpu, Running, Forks, Live
  <2>2. Family' /\ WaitersWait'
    BY <1>1, <1>3
       DEF Inv, Family, ParentAlive, Live, WaitersWait, Children, Zombies
  <2> QED BY <2>1, <2>2 DEF Inv
<1>4. CASE /\ Zombies(s) = {} /\ Children(s) # {} /\ ~killed[s]
           /\ Sleeps(s, s, "wait") /\ UNCHANGED <<pid, parent, killed>>
  BY <1>1, <1>4, SleepsInv
<1> QED BY <1>2, <1>3, <1>4 DEF wait

(* Sleeping for a device and going on.                                     *)
LEMMA IoInv ==
    ASSUME Inv, NEW s \in Slots, SleepIo(s) \/ IoDone(s)
    PROVE  Inv'
<1>1. CASE SleepIo(s)
  BY <1>1, SleepsInv, SlotFacts DEF SleepIo
<1>2. CASE IoDone(s)
  <2>1. /\ Running(s) /\ where[s] = "io" /\ where' = [where EXCEPT ![s] = "user"]
        /\ UNCHANGED <<table, proc, child>>
    BY <1>2 DEF IoDone
  <2>2. TypeOK' /\ OnCpu' /\ Forks'
    BY <2>1 DEF Inv, TypeOK, OnCpu, Running, Forks, Live, table
  <2>3. Family' /\ WaitersWait'
    BY <2>1
       DEF Inv, Family, ParentAlive, Live, WaitersWait, Children, Zombies,
           table
  <2> QED BY <2>2, <2>3 DEF Inv
<1> QED BY <1>1, <1>2

(* A step that only makes sleepers RUNNABLE, and marks as killed no        *)
(* process that it leaves asleep, preserves the invariant.                 *)
LEMMA WakeInv ==
    ASSUME Inv, state' \in [Slots -> States], killed' \in [Slots -> BOOLEAN],
           \A t \in Slots : \/ state'[t] = state[t]
                            \/ state[t] = "SLEEPING" /\ state'[t] = "RUNNABLE",
           \A t \in Slots : killed'[t] = killed[t] \/ state'[t] # "SLEEPING",
           UNCHANGED <<pid, parent, chan, nextpid, proc, where, child>>
    PROVE  Inv'
<1>1. TypeOK' /\ OnCpu' /\ Forks'
  BY DEF Inv, TypeOK, OnCpu, Running, Forks, Live
<1>2. Family'
  BY SlotFacts DEF Inv, TypeOK, Family, ParentAlive, Live
<1>3. WaitersWait'
  BY DEF Inv, WaitersWait, Children, Zombies
<1> QED BY <1>1, <1>2, <1>3 DEF Inv

(* wakeup, kill and the trap of a process that misbehaves are such steps.  *)
LEMMA WakingSteps ==
    ASSUME Inv, wakeup \/ (\E x \in Targets : kill(x)) \/ (\E s \in Slots : trap(s))
    PROVE  Inv'
<1>1. CASE wakeup
  <2>1. /\ state' \in [Slots -> States]
        /\ \A t \in Slots : \/ state'[t] = state[t]
                            \/ state[t] = "SLEEPING" /\ state'[t] = "RUNNABLE"
    BY <1>1 DEF wakeup, Wakeup1, Inv, TypeOK, States
  <2> QED BY <1>1, <2>1, WakeInv DEF wakeup, Inv, TypeOK
<1>2. ASSUME NEW x \in Targets, kill(x) PROVE Inv'
  <2>1. PICK k \in Slots : /\ killed' = [killed EXCEPT ![k] = TRUE]
                           /\ state' = [state EXCEPT ![k] =
                                            IF @ = "SLEEPING" THEN "RUNNABLE" ELSE @]
    <3>1. First({t \in Slots : pid[t] = x}) \in Slots
      BY <1>2, FirstIn DEF kill
    <3> QED BY <1>2, <3>1 DEF kill
  <2>2. /\ state' \in [Slots -> States] /\ killed' \in [Slots -> BOOLEAN]
        /\ \A t \in Slots : \/ state'[t] = state[t]
                            \/ state[t] = "SLEEPING" /\ state'[t] = "RUNNABLE"
        /\ \A t \in Slots : killed'[t] = killed[t] \/ state'[t] # "SLEEPING"
    BY <2>1 DEF Inv, TypeOK, States
  <2> QED BY <1>2, <2>2, WakeInv DEF kill
<1>3. ASSUME NEW s \in Slots, trap(s) PROVE Inv'
  <2>1. state[s] = "RUNNING" /\ killed' = [killed EXCEPT ![s] = TRUE] /\ state' = state
    BY <1>3 DEF trap, Running
  <2>2. /\ state' \in [Slots -> States] /\ killed' \in [Slots -> BOOLEAN]
        /\ \A t \in Slots : killed'[t] = killed[t] \/ state'[t] # "SLEEPING"
    BY <2>1 DEF Inv, TypeOK
  <2> QED BY <1>3, <2>1, <2>2, WakeInv DEF trap
<1> QED BY <1>1, <1>2, <1>3

(* Every step preserves the invariant.                                     *)
LEMMA StepInv ==
    ASSUME Inv, [Next]_vars
    PROVE  Inv'
<1>1. CASE UNCHANGED vars
  <2>1. TypeOK' /\ OnCpu' /\ Forks'
    BY <1>1 DEF vars, Inv, TypeOK, OnCpu, Running, Forks, Live
  <2>2. Family' /\ WaitersWait'
    BY <1>1
       DEF vars, Inv, Family, ParentAlive, Live, WaitersWait, Children, Zombies
  <2> QED BY <2>1, <2>2 DEF Inv
<1>2. ASSUME NEW s \in Slots, yield(s) \/ allocproc(s) \/ ForkFails(s) \/ ForkDone(s)
      PROVE  Inv'
  BY <1>2, yieldInv, allocprocInv, ForkFailsInv, ForkDoneInv
<1>3. ASSUME NEW s \in Slots, exit(s) \/ wait(s) \/ SleepIo(s) \/ IoDone(s)
      PROVE  Inv'
  BY <1>3, exitInv, waitInv, IoInv
<1>4. ASSUME NEW c \in Cpus, NEW s \in Slots, scheduler(c, s) PROVE Inv'
  BY <1>4, schedulerInv
<1>5. CASE wakeup \/ (\E x \in Targets : kill(x)) \/ (\E s \in Slots : trap(s))
  BY <1>5, WakingSteps
<1> QED BY <1>1, <1>2, <1>3, <1>4, <1>5 DEF Next

(* The invariant holds in every reachable state.                           *)
LEMMA Invariance == Spec => []Inv
BY InitInv, StepInv, PTL DEF Spec

(* For any number of slots and CPUs, a RUNNING process is the process of   *)
(* exactly one CPU and a CPU runs only RUNNING processes: scheduler,       *)
(* sched, exit and fork (proc.c:444-512) never leave a process on two CPUs *)
(* or one on a CPU that it gave up.                                        *)
THEOREM RunsOnce == Spec => []OneCpuEach
<1>1. Inv => OneCpuEach
  <2> SUFFICES ASSUME Inv, NEW s \in Slots
               PROVE  Cardinality({c \in Cpus : proc[c] = s}) = IF Running(s) THEN 1 ELSE 0
    BY DEF OneCpuEach, OnOneCpu, Inv
  <2>1. CASE Running(s)
    <3>1. PICK c \in Cpus : proc[c] = s
      BY <2>1 DEF Inv, OnCpu
    <3>2. {d \in Cpus : proc[d] = s} = {c}
      BY <3>1, SlotFacts DEF Inv, OnCpu
    <3> QED BY <2>1, <3>2, FS_Singleton
  <2>2. CASE ~Running(s)
    <3>1. {d \in Cpus : proc[d] = s} = {}
      BY <2>2, SlotFacts DEF Inv, OnCpu
    <3> QED BY <2>2, <3>1, FS_EmptySet
  <2> QED BY <2>1, <2>2
<1> QED BY <1>1, Invariance, PTL

(* Every process but init, and every zombie, has a parent that is alive:   *)
(* exit (proc.c:367-387) gives abandoned children to init, and no slot is  *)
(* reused with an old parent.                                              *)
THEOREM Parents == Spec => []ParentAlive
<1>1. Inv => ParentAlive
  BY DEF Inv, Family
<1> QED BY <1>1, Invariance, PTL

(* No process sleeps in wait (proc.c:391-434) with a zombie child, without *)
(* children or killed: exit and kill wake it in the same critical section. *)
THEOREM Waiters == Spec => []WaitersWait
<1>1. Inv => WaitersWait
  BY DEF Inv
<1> QED BY <1>1, Invariance, PTL

-----------------------------------------------------------------------------
(* The memory of the processes: Mem is PhysMem, for any pages, sizes and   *)
(* programs; mstate and mparent are its own views of state and parent.     *)

(***************************************************************************)
(* Cells: the places where a page can be, other than the free list.        *)
(***************************************************************************)
PageOrNil == Frames \cup {Nil}
Cells == {"space", "new", "mem", "kstack"} \X Ptable \X Mem!Places

(* The page in each cell; a call has one mem and a process one stack, at   *)
(* the place of the directory.                                             *)
Fill(sp, cl, ks) == [c \in Cells |->
    CASE c[1] = "space" -> sp[c[2]][c[3]]
      [] c[1] = "new" -> cl[c[2]].new[c[3]]
      [] c[1] = "mem" -> IF c[3] = Mem!Dir THEN cl[c[2]].mem ELSE Nil
      [] c[1] = "kstack" -> IF c[3] = Mem!Dir THEN ks[c[2]] ELSE Nil]

(* Every page is free or in exactly one cell.                              *)
OwnedBy(F, f) ==
    /\ F \subseteq Frames /\ f \in [Cells -> PageOrNil]
    /\ \A c \in Cells : f[c] \notin F
    /\ \A c, d \in Cells : f[c] = f[d] /\ f[c] # Nil => c = d
    /\ \A x \in Frames \ F : \E c \in Cells : f[c] = x

(* The address of a page; the pages below an address.                      *)
Addr(v) == v * PageSize
Below(n) == {v \in Mem!VPages : Addr(v) < n}
Aligned(n) == \E k \in 0 .. n : n = Addr(k)

CallType == [op : {"none", "fork", "exec", "sbrk"}, pc : {"user", "kstack", "dir", "page", "old"},
             child : Ptable \cup {Nil}, new : [Mem!Places -> PageOrNil], mem : PageOrNil,
             at : Nat, to : Nat, more : BOOLEAN]

Types ==
    /\ mstate \in [Ptable -> {"unused", "embryo", "run", "zombie"}]
    /\ mparent \in [Ptable -> Ptable \cup {Nil}]
    /\ kstack \in [Ptable -> PageOrNil]
    /\ space \in [Ptable -> [Mem!Places -> PageOrNil]]
    /\ size \in [Ptable -> 0 .. Mem!KERNBASE - 1]
    /\ cr3 \in [Ptable -> PageOrNil]
    /\ locked \in Ptable \cup {Nil}
    /\ call \in [Ptable -> CallType]

(* What a slot has in each state.                                          *)
SlotOk(s) ==
    /\ mstate[s] = "unused" => kstack[s] = Nil
    /\ mstate[s] \in {"unused", "embryo"} => space[s] = Mem!NoSpace /\ cr3[s] = Nil
    /\ mstate[s] \in {"run", "zombie"} => kstack[s] # Nil /\ space[s][Mem!Dir] # Nil
    /\ mstate[s] # "run" => call[s] = Mem!Idle
    /\ mstate[s] = "zombie" /\ cr3[s] # Nil => locked = s
    /\ cr3[s] # Nil => cr3[s] = space[s][Mem!Dir]
    /\ call[s] # Mem!Idle => cr3[s] # Nil

(* The loops of allocuvm and copyuvm: the pages below at are there.        *)
LoopOk(p) == LET c == call[p] IN
    /\ Aligned(c.at) /\ c.at < c.to + PageSize /\ c.to < Mem!KERNBASE
    /\ Mem!Mapped(Mem!Target(p)) = Below(c.at)
    /\ c.mem # Nil => c.at < c.to

(* What each call has at each point of its way.                            *)
CallOk(p) == LET c == call[p] IN
    /\ c.op = "none" => c = Mem!Idle
    /\ c.op = "fork" => /\ c.pc \in {"kstack", "dir", "page"} /\ c.child \in Ptable
                        /\ mstate[c.child] = "embryo" /\ c.to = size[p]
                        /\ (kstack[c.child] = Nil <=> c.pc = "kstack")
    /\ c.op = "exec" => c.pc \in {"dir", "page", "old"} /\ c.to < Mem!KERNBASE
    /\ c.op = "sbrk" => c.pc = "page" /\ c.new = Mem!NoSpace /\ size[p] <= c.at /\ size[p] < c.to
    /\ c.pc = "kstack" => c.at = 0 /\ c.new = Mem!NoSpace
    /\ c.pc = "dir" =>
         /\ c.at \in 0 .. KTables /\ Mem!Mapped(c.new) = {}
         /\ (c.at = 0 <=> c.new[Mem!Dir] = Nil)
         /\ \A i \in 1 .. KTables : i >= c.at => c.new[Mem!Kern(i)] = Nil
    /\ c.pc = "page" => LoopOk(p) /\ (c.op # "sbrk" => c.new[Mem!Dir] # Nil)
    /\ c.mem # Nil => c.pc = "page"

(* No two calls of fork fill the same slot.                                *)
Apart == \A p, q \in Ptable :
    call[p].op = "fork" /\ call[q].op = "fork" /\ call[p].child = call[q].child => p = q

(* A process that is not in sbrk maps its size, or nothing.                *)
SizeOk(p) == mstate[p] = "run" /\ call[p].op # "sbrk" =>
                 Mem!Mapped(space[p]) = Below(size[p]) \/ Mem!Mapped(space[p]) = {}

LockOk == locked # Nil => mstate[locked] = "zombie"

(* The inductive invariant.                                                *)
Owned == OwnedBy(free, Fill(space, call, kstack))
EachOk == \A p \in Ptable : SlotOk(p) /\ CallOk(p) /\ SizeOk(p)
MemInv == Types /\ Owned /\ EachOk /\ Apart /\ LockOk

-----------------------------------------------------------------------------
(* Addresses.                                                               *)

(* Frames are PageSize apart.                                                 *)
LEMMA AddrFacts ==
    ASSUME Mem!Configuration
    PROVE  /\ PageSize \in Nat /\ PageSize > 0
           /\ \A v \in Nat : Addr(v) \in Nat
           /\ \A u, v \in Nat : u < v => Addr(u) + PageSize <= Addr(v)
<1>1. PageSize \in Nat /\ PageSize > 0
  BY DEF Mem!Configuration
<1>2. ASSUME NEW v \in Nat PROVE Addr(v) \in Nat
  BY <1>1 DEF Addr
<1>3. ASSUME NEW u \in Nat, NEW v \in Nat, u < v PROVE Addr(u) + PageSize <= Addr(v)
  <2>1. PICK d \in Nat : v = u + 1 + d
    BY <1>3
  <2>2. Addr(v) = Addr(u) + PageSize + d * PageSize
    BY <2>1, <1>1 DEF Addr
  <2>3. d * PageSize \in Nat
    BY <1>1
  <2> QED BY <1>1, <1>2, <2>2, <2>3
<1> QED BY <1>1, <1>2, <1>3

(* The next page, and the page of an address.                              *)
LEMMA AddrNext ==
    ASSUME Mem!Configuration, NEW v \in Nat
    PROVE  Addr(v + 1) = Addr(v) + PageSize /\ Addr(v) \div PageSize = v
<1>1. PageSize \in Nat /\ PageSize > 0
  BY DEF Mem!Configuration
<1>2. Addr(v + 1) = Addr(v) + PageSize
  BY <1>1 DEF Addr
<1>3. Addr(v) \div PageSize = v
  BY <1>1 DEF Addr
<1> QED BY <1>2, <1>3

(* The first pages.                                                        *)
LEMMA AddrSmall ==
    ASSUME Mem!Configuration
    PROVE  Addr(0) = 0 /\ Addr(1) = PageSize
  BY DEF Addr, Mem!Configuration

(* The pages of the user part are those below KERNBASE.                    *)
LEMMA UserPages ==
    ASSUME Mem!Configuration
    PROVE  /\ Mem!VPages \subseteq Nat /\ Mem!KERNBASE \in Nat
           /\ \A v \in Nat : v \in Mem!VPages <=> Addr(v) < Mem!KERNBASE
<1>1. PICK n \in Nat : n = NPDENTRIES * NPTENTRIES
  BY DEF Mem!Configuration
<1>2. Mem!VPages = 0 .. n - 1 /\ Mem!KERNBASE = Addr(n)
  BY <1>1 DEF Mem!VPages, Mem!KERNBASE, Addr
<1>3. ASSUME NEW v \in Nat PROVE v < n <=> Addr(v) < Addr(n)
  <2>1. v < n \/ v = n \/ n < v
    BY <1>1
  <2> QED BY <2>1, <1>1, AddrFacts
<1>4. Mem!KERNBASE \in Nat
  BY <1>1, <1>2, AddrFacts
<1>5. \A v \in Nat : v \in Mem!VPages <=> v < n
  BY <1>1, <1>2
<1> QED BY <1>2, <1>3, <1>4, <1>5

(* PGROUNDUP is the next address of a page.                                *)
LEMMA RoundUp ==
    ASSUME Mem!Configuration, NEW n \in Nat
    PROVE  \E k \in Nat : Mem!PGROUNDUP(n) = Addr(k) /\ n <= Addr(k) /\ Addr(k) < n + PageSize
<1>1. PICK s \in Nat : s = PageSize /\ s > 0
  BY AddrFacts
<1>2. PICK k \in Int : k = (n + s - 1) \div s
  BY <1>1
<1>3. k \in Nat /\ k * s <= n + s - 1 /\ n + s - 1 < k * s + s
  BY <1>1, <1>2
<1>4. Mem!PGROUNDUP(n) = Addr(k)
  BY <1>1, <1>2 DEF Mem!PGROUNDUP, Addr
<1>5. Addr(k) = k * s
  BY <1>1 DEF Addr
<1> QED BY <1>1, <1>3, <1>4, <1>5

(* A page is at or above the next page address of n when it is above n.    *)
LEMMA AboveRound ==
    ASSUME Mem!Configuration, NEW n \in Nat, NEW v \in Nat
    PROVE  Mem!PGROUNDUP(n) <= Addr(v) <=> n <= Addr(v)
<1>1. PICK k \in Nat : Mem!PGROUNDUP(n) = Addr(k) /\ n <= Addr(k) /\ Addr(k) < n + PageSize
  BY RoundUp
<1>2. CASE v < k
  BY <1>1, <1>2, AddrFacts
<1>3. CASE k = v
  BY <1>1, <1>3, AddrFacts
<1>4. CASE k < v
  BY <1>1, <1>4, AddrFacts
<1> QED BY <1>1, <1>2, <1>3, <1>4

(* The pages between two addresses.                                        *)
LEMMA BetweenIs ==
    ASSUME Mem!Configuration, NEW a \in Nat, NEW b \in Int
    PROVE  Mem!Between(a, b) = {v \in Mem!VPages : a <= Addr(v) /\ Addr(v) < b}
  BY AboveRound, UserPages DEF Mem!Between, Addr

(* Those from 0.                                                           *)
LEMMA BetweenBelow ==
    ASSUME Mem!Configuration, NEW b \in Int
    PROVE  Mem!Between(0, b) = Below(b)
<1>1. \A v \in Mem!VPages : 0 <= Addr(v)
  BY UserPages, AddrFacts
<1> QED BY <1>1, BetweenIs DEF Below

(* Rounding up an address takes no page more.                              *)
LEMMA SameBelow ==
    ASSUME Mem!Configuration, NEW a \in Nat, NEW n \in Nat, Aligned(a), n <= a, a < n + PageSize
    PROVE  Below(a) = Below(n)
<1>1. PICK k \in Nat : a = Addr(k)
  BY DEF Aligned
<1>2. ASSUME NEW v \in Mem!VPages, Addr(v) < a PROVE Addr(v) < n
  <2>1. v \in Nat /\ v < k
    <3>1. v \in Nat
      BY UserPages
    <3>2. v < k \/ v = k \/ k < v
      BY <1>1, <3>1
    <3>3. v # k
      BY <1>1, <1>2, <3>1, AddrFacts
    <3>4. ~(k < v)
      BY <1>1, <1>2, <3>1, AddrFacts
    <3> QED BY <3>1, <3>2, <3>3, <3>4
  <2> QED BY <1>1, <2>1, AddrFacts
<1>3. ASSUME NEW v \in Mem!VPages, Addr(v) < n PROVE Addr(v) < a
  BY <1>3, UserPages, AddrFacts
<1> QED BY <1>2, <1>3 DEF Below

(* PGROUNDUP is aligned, and within a page.                                *)
LEMMA RoundFacts ==
    ASSUME Mem!Configuration, NEW n \in Nat
    PROVE  /\ Mem!PGROUNDUP(n) \in Nat /\ Aligned(Mem!PGROUNDUP(n))
           /\ n <= Mem!PGROUNDUP(n) /\ Mem!PGROUNDUP(n) < n + PageSize
<1>1. PICK k \in Nat : Mem!PGROUNDUP(n) = Addr(k) /\ n <= Addr(k) /\ Addr(k) < n + PageSize
  BY RoundUp
<1>2. k <= Addr(k) /\ Addr(k) \in Nat
  <2>1. Addr(k) \in Nat /\ PageSize >= 1 /\ PageSize \in Nat
    BY AddrFacts
  <2>2. PICK d \in Nat : PageSize = 1 + d
    BY <2>1
  <2>3. Addr(k) = k + k * d /\ k * d \in Nat
    BY <2>2 DEF Addr
  <2> QED BY <2>1, <2>3
<1> QED BY <1>1, <1>2 DEF Aligned

(* Two aligned addresses within a page of n are the same.                  *)
LEMMA AlignedOnce ==
    ASSUME Mem!Configuration, NEW a \in Nat, NEW n \in Nat, Aligned(a), n <= a, a < n + PageSize
    PROVE  a = Mem!PGROUNDUP(n)
<1>1. PICK k \in Nat : a = Addr(k)
  BY DEF Aligned
<1>2. PICK l \in Nat : Mem!PGROUNDUP(n) = Addr(l) /\ n <= Addr(l) /\ Addr(l) < n + PageSize
  BY RoundUp
<1>3. k < l \/ l < k \/ k = l
  BY <1>1, <1>2
<1> QED BY <1>1, <1>2, <1>3, AddrFacts

-----------------------------------------------------------------------------
(* Places and cells.                                                        *)

(* The places of an address space.                                         *)
LEMMA PlaceIn ==
    /\ Mem!Dir \in Mem!Places
    /\ \A i \in 1 .. KTables : Mem!Kern(i) \in Mem!Places
    /\ \A d \in 0 .. NPDENTRIES - 1 : Mem!Tab(d) \in Mem!Places
    /\ \A v \in Mem!VPages : Mem!Pte(v) \in Mem!Places
  BY DEF Mem!Places

(* They are different from each other.                                     *)
LEMMA PlaceApart ==
    /\ \A i : Mem!Kern(i) # Mem!Dir /\ Mem!Tab(i) # Mem!Dir /\ Mem!Pte(i) # Mem!Dir
    /\ \A i, j : Mem!Kern(i) # Mem!Tab(j) /\ Mem!Kern(i) # Mem!Pte(j) /\ Mem!Tab(i) # Mem!Pte(j)
    /\ \A i, j : (Mem!Kern(i) = Mem!Kern(j) => i = j) /\ (Mem!Pte(i) = Mem!Pte(j) => i = j)
  BY DEF Mem!Dir, Mem!Kern, Mem!Tab, Mem!Pte

(* The cells of each kind, and what is in them.                            *)
LEMMA CellParts ==
    ASSUME NEW c \in Cells
    PROVE  /\ c[1] \in {"space", "new", "mem", "kstack"} /\ c[2] \in Ptable /\ c[3] \in Mem!Places
           /\ c = <<c[1], c[2], c[3]>>
  BY DEF Cells

(* Cells with the same parts are the same.                                 *)
LEMMA SameCell ==
    ASSUME NEW c \in Cells, NEW d \in Cells, c[1] = d[1], c[2] = d[2], c[3] = d[3]
    PROVE  c = d
  BY CellParts

(* A cell made of its parts.                                               *)
LEMMA MakeCell ==
    ASSUME NEW k \in {"space", "new", "mem", "kstack"}, NEW s \in Ptable, NEW l \in Mem!Places
    PROVE  /\ <<k, s, l>> \in Cells
           /\ <<k, s, l>>[1] = k /\ <<k, s, l>>[2] = s /\ <<k, s, l>>[3] = l
  BY DEF Cells

(* There is a cell of each kind, slot and place.                           *)
LEMMA CellAt ==
    ASSUME NEW k \in {"space", "new", "mem", "kstack"}, NEW s \in Ptable, NEW l \in Mem!Places
    PROVE  \E c \in Cells : c[1] = k /\ c[2] = s /\ c[3] = l
<1>1. /\ <<k, s, l>> \in Cells
      /\ <<k, s, l>>[1] = k /\ <<k, s, l>>[2] = s /\ <<k, s, l>>[3] = l
  BY MakeCell
<1>2. PICK c : c = <<k, s, l>>
  OBVIOUS
<1>3. c \in Cells /\ c[1] = k /\ c[2] = s /\ c[3] = l
  BY <1>1, <1>2
<1> QED BY <1>3

(* kalloc: a free page goes to an empty cell.                              *)
LEMMA Taken ==
    ASSUME Mem!Configuration, NEW F, NEW f, OwnedBy(F, f),
           NEW c \in Cells, f[c] = Nil, NEW x \in F
    PROVE  OwnedBy(F \ {x}, [f EXCEPT ![c] = x])
<1> DEFINE g == [f EXCEPT ![c] = x]
<1>1. F \subseteq Frames /\ f \in [Cells -> PageOrNil] /\ x \in Frames /\ x # Nil
  BY DEF OwnedBy, Mem!Configuration
<1>2. g \in [Cells -> PageOrNil] /\ g[c] = x /\ \A d \in Cells : d # c => g[d] = f[d]
  BY <1>1 DEF PageOrNil
<1>3. \A d \in Cells : g[d] \notin F \ {x}
  BY <1>2 DEF OwnedBy
<1>4. \A d, e \in Cells : g[d] = g[e] /\ g[d] # Nil => d = e
  BY <1>2 DEF OwnedBy
<1>5. \A y \in Frames \ (F \ {x}) : \E d \in Cells : g[d] = y
  <2>1. ASSUME NEW y \in Frames \ (F \ {x}), y # x PROVE \E d \in Cells : g[d] = y
    <3>1. PICK d \in Cells : f[d] = y
      BY <2>1 DEF OwnedBy
    <3>2. d # c
      BY <3>1, <2>1 DEF Mem!Configuration
    <3> QED BY <3>1, <3>2, <1>2
  <2> QED BY <2>1, <1>2
<1> HIDE DEF g
<1>6. OwnedBy(F \ {x}, g)
  BY <1>1, <1>2, <1>3, <1>4, <1>5 DEF OwnedBy
<1> QED BY <1>6 DEF g

(* kfree: what is in a set of cells goes to the free list.                 *)
LEMMA Given ==
    ASSUME Mem!Configuration, NEW F, NEW f, OwnedBy(F, f), NEW S \in SUBSET Cells,
           NEW G, G = Mem!Real({f[c] : c \in S}),
           NEW g \in [Cells -> PageOrNil], \A c \in Cells : g[c] = IF c \in S THEN Nil ELSE f[c]
    PROVE  OwnedBy(F \cup G, g)
<1>1. F \subseteq Frames /\ f \in [Cells -> PageOrNil]
  BY DEF OwnedBy
<1>2. G \subseteq Frames
  BY <1>1 DEF Mem!Real, PageOrNil
<1>3. \A c \in Cells : g[c] \notin F \cup G
  <2>1. ASSUME NEW c \in Cells, g[c] # Nil PROVE g[c] \notin F \cup G
    <3>1. g[c] = f[c] /\ c \notin S
      BY <2>1
    <3>2. g[c] \notin F
      BY <3>1 DEF OwnedBy
    <3>3. ASSUME NEW d \in S, f[d] = f[c] PROVE FALSE
      BY <3>1, <3>3, <2>1 DEF OwnedBy
    <3> QED BY <3>1, <3>2, <3>3 DEF Mem!Real
  <2> QED BY <2>1, <1>1, <1>2 DEF Mem!Configuration
<1>4. \A c, d \in Cells : g[c] = g[d] /\ g[c] # Nil => c = d
  BY DEF OwnedBy
<1>5. \A x \in Frames \ (F \cup G) : \E c \in Cells : g[c] = x
  <2>1. ASSUME NEW x \in Frames \ (F \cup G) PROVE \E c \in Cells : g[c] = x
    <3>1. PICK c \in Cells : f[c] = x
      BY DEF OwnedBy
    <3>2. x # Nil
      BY DEF Mem!Configuration
    <3>3. c \notin S
      BY <3>1, <3>2 DEF Mem!Real
    <3> QED BY <3>1, <3>3
  <2> QED BY <2>1
<1> QED BY <1>1, <1>2, <1>3, <1>4, <1>5 DEF OwnedBy

(* Frames that change places with each other.                               *)
LEMMA Swapped ==
    ASSUME NEW F, NEW f, OwnedBy(F, f), NEW w \in [Cells -> Cells], \A c \in Cells : w[w[c]] = c,
           NEW g \in [Cells -> PageOrNil], \A c \in Cells : g[c] = f[w[c]]
    PROVE  OwnedBy(F, g)
<1>1. \A c, d \in Cells : g[c] = g[d] /\ g[c] # Nil => c = d
  <2>1. ASSUME NEW c \in Cells, NEW d \in Cells, g[c] = g[d], g[c] # Nil PROVE c = d
    <3>1. w[c] \in Cells /\ w[d] \in Cells /\ f[w[c]] = f[w[d]] /\ f[w[c]] # Nil
      BY <2>1
    <3>2. w[c] = w[d]
      BY <3>1 DEF OwnedBy
    <3> QED BY <3>2
  <2> QED BY <2>1
<1>2. \A x \in Frames \ F : \E c \in Cells : g[c] = x
  <2>1. ASSUME NEW x \in Frames \ F PROVE \E c \in Cells : g[c] = x
    <3>1. PICK c \in Cells : f[c] = x
      BY DEF OwnedBy
    <3>2. w[c] \in Cells /\ g[w[c]] = x
      BY <3>1
    <3> QED BY <3>2
  <2> QED BY <2>1
<1>3. \A c \in Cells : g[c] \notin F
  BY DEF OwnedBy
<1> QED BY <1>1, <1>2, <1>3 DEF OwnedBy

(* What is in each kind of cell.                                           *)
LEMMA Contents ==
    ASSUME NEW sp, NEW cl, NEW ks, NEW c \in Cells
    PROVE  /\ c[1] = "space" => Fill(sp, cl, ks)[c] = sp[c[2]][c[3]]
           /\ c[1] = "new" => Fill(sp, cl, ks)[c] = cl[c[2]].new[c[3]]
           /\ c[1] = "mem" => Fill(sp, cl, ks)[c] = IF c[3] = Mem!Dir THEN cl[c[2]].mem ELSE Nil
           /\ c[1] = "kstack" => Fill(sp, cl, ks)[c] = IF c[3] = Mem!Dir THEN ks[c[2]] ELSE Nil
  BY DEF Fill

(* It is a page, or nothing.                                               *)
LEMMA FillType ==
    ASSUME NEW sp \in [Ptable -> [Mem!Places -> PageOrNil]], NEW cl \in [Ptable -> CallType],
           NEW ks \in [Ptable -> PageOrNil]
    PROVE  Fill(sp, cl, ks) \in [Cells -> PageOrNil]
<1>1. ASSUME NEW c \in Cells PROVE Fill(sp, cl, ks)[c] \in PageOrNil
  <2>1. /\ c[1] \in {"space", "new", "mem", "kstack"}
        /\ c[2] \in Ptable /\ c[3] \in Mem!Places
    BY CellParts
  <2>2. /\ sp[c[2]][c[3]] \in PageOrNil /\ cl[c[2]].new[c[3]] \in PageOrNil
        /\ cl[c[2]].mem \in PageOrNil /\ ks[c[2]] \in PageOrNil /\ Nil \in PageOrNil
    BY <2>1 DEF CallType, PageOrNil
  <2> QED BY <2>1, <2>2, Contents
<1> QED BY <1>1, Zenon DEF Fill

-----------------------------------------------------------------------------
(* What a step leaves alone.                                                *)

(* A call that the step does not touch goes on as it was.                  *)
LEMMA CallKept ==
    ASSUME NEW q \in Ptable, CallOk(q), call'[q] = call[q], size'[q] = size[q],
           call[q].op = "fork" => /\ mstate'[call[q].child] = mstate[call[q].child]
                                  /\ kstack'[call[q].child] = kstack[call[q].child],
           call[q].op = "sbrk" => space'[q] = space[q]
    PROVE  CallOk(q)'
<1>1. Mem!Target(q)' = Mem!Target(q)
  BY DEF Mem!Target, Mem!Grown
<1>2. Mem!Mapped(Mem!Target(q))' = Mem!Mapped(Mem!Target(q))
  BY <1>1 DEF Mem!Mapped
<1>3. LoopOk(q)' = LoopOk(q)
  BY <1>2 DEF LoopOk
<1> QED BY <1>3 DEF CallOk, Mem!Mapped

(* A slot that the step does not touch is as it was.                       *)
LEMMA SlotKept ==
    ASSUME NEW s \in Ptable, SlotOk(s), mstate'[s] = mstate[s], kstack'[s] = kstack[s],
           space'[s] = space[s], cr3'[s] = cr3[s], call'[s] = call[s],
           locked = s => locked' = s
    PROVE  SlotOk(s)'
  BY DEF SlotOk

(* A process that the step does not touch maps what it did.                *)
LEMMA SizeKept ==
    ASSUME NEW s \in Ptable, SizeOk(s), mstate'[s] = mstate[s], space'[s] = space[s],
           size'[s] = size[s], call'[s].op = call[s].op
    PROVE  SizeOk(s)'
  BY DEF SizeOk, Mem!Mapped

-----------------------------------------------------------------------------
(* The initial state.                                                       *)

(* Cardinality is the same in the instance.                                *)
LEMMA SameCardinality ==
    ASSUME NEW S
    PROVE  Mem!Cardinality(S) = Cardinality(S) /\ (Mem!IsFiniteSet(S) <=> IsFiniteSet(S))
<1>1. Mem!Cardinality(S) = Cardinality(S)
  BY DEF Mem!Cardinality, Cardinality
<1>2. Mem!IsFiniteSet(S) <=> IsFiniteSet(S)
  BY DEF Mem!IsFiniteSet, IsFiniteSet
<1> QED BY <1>1, <1>2

(* There is room for userinit's pages.                                     *)
LEMMA KernTables ==
    ASSUME Mem!Configuration, NEW S, Cardinality(S) <= 4, IsFiniteSet(S), S \subseteq Frames
    PROVE  \E f \in [1 .. KTables -> Frames \ S] : Mem!IsInjective(f)
<1>1. IsFiniteSet(Frames) /\ Cardinality(Frames) \in Nat /\ KTables \in Nat
      /\ KTables + 4 <= Cardinality(Frames) /\ Cardinality(S) \in Nat
  BY FS_CardinalityType, SameCardinality DEF Mem!Configuration
<1>2. IsFiniteSet(Frames \ S) /\ Cardinality(Frames \ S) = Cardinality(Frames) - Cardinality(S)
  <2>1. Frames \cap S = S
    OBVIOUS
  <2> QED BY <1>1, <2>1, FS_Difference
<1>3. PICK n \in Nat : n = Cardinality(Frames \ S) /\ KTables <= n
  BY <1>1, <1>2
<1>4. ExistsBijection(1 .. n, Frames \ S)
  BY <1>2, <1>3, FS_NatBijection, FS_CountingElements
<1>5. PICK g \in Bijection(1 .. n, Frames \ S) : TRUE
  BY <1>4 DEF ExistsBijection
<1>6. PICK k \in Nat : k = KTables /\ k <= n
  BY <1>1, <1>3
<1>7. g \in [1 .. n -> Frames \ S] /\ \A a, b \in 1 .. n : g[a] = g[b] => a = b
  BY <1>5 DEF Bijection, Injection, IsInjective
<1>8. [i \in 1 .. k |-> g[i]] \in [1 .. k -> Frames \ S]
  BY <1>6, <1>7
<1>9. Mem!IsInjective([i \in 1 .. k |-> g[i]])
  BY <1>6, <1>7 DEF Mem!IsInjective
<1> QED BY <1>6, <1>8, <1>9

(* A page other than at most three is left.                                *)
LEMMA OneMore ==
    ASSUME Mem!Configuration, NEW S, IsFiniteSet(S), Cardinality(S) <= 3
    PROVE  Pick(Frames \ S) \in Frames \ S
<1>1. IsFiniteSet(Frames) /\ Cardinality(Frames) \in Nat /\ Cardinality(Frames) >= 4
  BY FS_CardinalityType, SameCardinality DEF Mem!Configuration
<1>2. Cardinality(S) \in Nat
  BY FS_CardinalityType
<1>3. ~(Frames \subseteq S)
  BY <1>1, <1>2, FS_Subset
<1> QED BY <1>3 DEF Mem!Configuration

(* Small sets.                                                             *)
LEMMA Few ==
    ASSUME NEW a, NEW b, NEW c, NEW d
    PROVE  /\ IsFiniteSet({}) /\ Cardinality({}) <= 3
           /\ IsFiniteSet({a}) /\ Cardinality({a}) <= 3
           /\ IsFiniteSet({a, b}) /\ Cardinality({a, b}) <= 3
           /\ IsFiniteSet({a, b, c}) /\ Cardinality({a, b, c}) <= 3
           /\ IsFiniteSet({a, b, c, d}) /\ Cardinality({a, b, c, d}) <= 4
<1>1. IsFiniteSet({}) /\ Cardinality({}) = 0
  BY FS_EmptySet
<1>2. ASSUME NEW S, NEW y, NEW n \in Nat, IsFiniteSet(S), Cardinality(S) <= n
      PROVE  IsFiniteSet(S \cup {y}) /\ Cardinality(S \cup {y}) <= n + 1
  <2>1. PICK m \in Nat : m = Cardinality(S)
    BY <1>2, FS_CardinalityType
  <2>2. Cardinality(S \cup {y}) = m \/ Cardinality(S \cup {y}) = m + 1
    BY <1>2, <2>1, FS_AddElement
  <2>3. IsFiniteSet(S \cup {y})
    BY <1>2, FS_AddElement
  <2> QED BY <1>2, <2>1, <2>2, <2>3
<1>3. IsFiniteSet({a}) /\ Cardinality({a}) <= 1
  <2>1. {a} = {} \cup {a}
    OBVIOUS
  <2> QED BY <1>1, <1>2, <2>1, FS_Singleton
<1>4. IsFiniteSet({a, b}) /\ Cardinality({a, b}) <= 2
  <2>1. {a, b} = {a} \cup {b}
    OBVIOUS
  <2>2. IsFiniteSet({a} \cup {b}) /\ Cardinality({a} \cup {b}) <= 1 + 1
    BY <1>2, <1>3
  <2> QED BY <2>1, <2>2
<1>5. IsFiniteSet({a, b, c}) /\ Cardinality({a, b, c}) <= 3
  <2>1. {a, b, c} = {a, b} \cup {c}
    OBVIOUS
  <2>2. IsFiniteSet({a, b} \cup {c}) /\ Cardinality({a, b} \cup {c}) <= 2 + 1
    BY <1>2, <1>4
  <2> QED BY <2>1, <2>2
<1>6. IsFiniteSet({a, b, c, d}) /\ Cardinality({a, b, c, d}) <= 4
  <2>1. {a, b, c, d} = {a, b, c} \cup {d}
    OBVIOUS
  <2>2. IsFiniteSet({a, b, c} \cup {d}) /\ Cardinality({a, b, c} \cup {d}) <= 3 + 1
    BY <1>2, <1>5
  <2> QED BY <2>1, <2>2
<1>7. /\ Cardinality({a}) \in Nat /\ Cardinality({a, b}) \in Nat
  BY <1>3, <1>4, FS_CardinalityType
<1> QED BY <1>1, <1>3, <1>4, <1>5, <1>6, <1>7

(* The address space that userinit makes of its pages.                     *)
Built(d, t, x, kern) ==
    [l \in Mem!Places |-> CASE l = Mem!Dir -> d [] l = Mem!Tab(0) -> t [] l = Mem!Pte(0) -> x
                        [] l[1] = "kern" -> kern[l[2]] [] OTHER -> Nil]

(* What userinit has made: its stack k and the address space sp.           *)
LEMMA InitState ==
    ASSUME Mem!Configuration, Mem!Init
    PROVE  \E k, d, t, x \in Frames : \E kern \in [1 .. KTables -> Frames \ {k, d, t, x}] :
             /\ k # d /\ k # t /\ k # x /\ d # t /\ d # x /\ t # x /\ Mem!IsInjective(kern)
             /\ free = Frames \ ({k, d, t, x} \cup Mem!Range(kern))
             /\ kstack = [s \in Ptable |-> IF s = initproc THEN k ELSE Nil]
             /\ space = [s \in Ptable |-> IF s = initproc THEN
                    Built(d, t, x, kern)
                    ELSE Mem!NoSpace]
             /\ cr3 = [s \in Ptable |-> IF s = initproc THEN d ELSE Nil]
<1>1. PICK k : k = Pick(Frames)
  OBVIOUS
<1>2. k \in Frames
  <2>1. Frames = Frames \ {}
    OBVIOUS
  <2> QED BY <1>1, <2>1, OneMore, Few
<1>3. PICK d : d = Pick(Frames \ {k})
  OBVIOUS
<1>4. d \in Frames \ {k}
  BY <1>3, OneMore, Few
<1>5. PICK t : t = Pick(Frames \ {k, d})
  OBVIOUS
<1>6. t \in Frames \ {k, d}
  BY <1>5, OneMore, Few
<1>7. PICK x : x = Pick(Frames \ {k, d, t})
  OBVIOUS
<1>8. x \in Frames \ {k, d, t}
  BY <1>7, OneMore, Few
<1>9. PICK kern : kern = CHOOSE f \in [1 .. KTables -> Frames \ {k, d, t, x}] : Mem!IsInjective(f)
  OBVIOUS
<1>10. kern \in [1 .. KTables -> Frames \ {k, d, t, x}] /\ Mem!IsInjective(kern)
  <2>1. \E f \in [1 .. KTables -> Frames \ {k, d, t, x}] : Mem!IsInjective(f)
    BY <1>2, <1>4, <1>6, <1>8, Few, KernTables
  <2> QED BY <1>9, <2>1
<1>11. free = Frames \ ({k, d, t, x} \cup Mem!Range(kern))
  BY <1>1, <1>3, <1>5, <1>7, <1>9 DEF Mem!Init
<1>12. kstack = [s \in Ptable |-> IF s = initproc THEN k ELSE Nil]
  BY <1>1 DEF Mem!Init
<1>13. space = [s \in Ptable |-> IF s = initproc THEN
              Built(d, t, x, kern)
              ELSE Mem!NoSpace]
  BY <1>1, <1>3, <1>5, <1>7, <1>9 DEF Mem!Init, Built
<1>14. cr3 = [s \in Ptable |-> IF s = initproc THEN d ELSE Nil]
  BY <1>1, <1>3 DEF Mem!Init
<1> QED BY <1>2, <1>4, <1>6, <1>8, <1>10, <1>11, <1>12, <1>13, <1>14

(* The record of a call is one.                                            *)
LEMMA BuildingType ==
    ASSUME NEW op \in {"none", "fork", "exec", "sbrk"}, NEW ch \in Ptable \cup {Nil},
           NEW pc \in {"user", "kstack", "dir", "page", "old"}, NEW at \in Nat, NEW to \in Nat
    PROVE  Mem!Building(op, pc, ch, at, to) \in CallType
<1>1. Mem!NoSpace \in [Mem!Places -> PageOrNil] /\ Nil \in PageOrNil /\ (op = "exec") \in BOOLEAN
  BY DEF Mem!NoSpace, PageOrNil
<1> QED BY <1>1 DEF Mem!Building, CallType

(* A process that makes no call holds nothing for it.                      *)
LEMMA IdleFacts ==
    /\ Mem!Idle \in CallType /\ Mem!Idle.op = "none" /\ Mem!Idle.pc = "user" /\ Mem!Idle.new = Mem!NoSpace
    /\ Mem!Idle.mem = Nil /\ \A l \in Mem!Places : Mem!Idle.new[l] = Nil
<1>1. Mem!Idle \in CallType
  BY BuildingType DEF Mem!Idle
<1> QED BY <1>1 DEF Mem!Idle, Mem!Building, Mem!NoSpace

(* An empty address space maps nothing.                                    *)
LEMMA NothingMapped == Mem!Mapped(Mem!NoSpace) = {}
  BY PlaceIn DEF Mem!Mapped, Mem!NoSpace

(* Page 0 is a user page.                                                  *)
LEMMA FirstPage ==
    ASSUME Mem!Configuration
    PROVE  0 \in Mem!VPages /\ Addr(0) < PageSize
<1>1. PageSize < Mem!KERNBASE
  BY DEF Mem!Configuration
<1>2. Addr(0) = 0 /\ PageSize > 0 /\ PageSize \in Nat /\ Mem!KERNBASE \in Nat
  BY AddrSmall, AddrFacts, UserPages
<1> QED BY <1>1, <1>2, UserPages

(* The pages of the first process are different ones, and its address      *)
(* space has each of them at one place.                                    *)
Different(d, t, x, kern) ==
    /\ d \in Frames /\ t \in Frames /\ x \in Frames /\ kern \in [1 .. KTables -> Frames]
    /\ Mem!IsInjective(kern) /\ d # t /\ d # x /\ t # x /\ {d, t, x} \cap Mem!Range(kern) = {}
OnePlaceEach(sp, d, t, x, kern) ==
    /\ sp \in [Mem!Places -> PageOrNil] /\ sp[Mem!Dir] = d /\ Mem!Mapped(sp) = {0}
    /\ \A l \in Mem!Places : sp[l] \in {d, t, x, Nil} \cup Mem!Range(kern)
    /\ \A l, m \in Mem!Places : sp[l] = sp[m] /\ sp[l] # Nil => l = m
    /\ \A y \in {d, t, x} \cup Mem!Range(kern) : \E l \in Mem!Places : sp[l] = y

(* Init's first address space.                                             *)
LEMMA FirstSpace ==
    ASSUME Mem!Configuration, NEW d, NEW t, NEW x, NEW kern, Different(d, t, x, kern)
    PROVE  OnePlaceEach(Built(d, t, x, kern), d, t, x, kern)
<1>0. PICK sp : sp = Built(d, t, x, kern)
  OBVIOUS
<1> USE <1>0 DEF Different
<1>1. Mem!Dir \in Mem!Places /\ Mem!Tab(0) \in Mem!Places /\ Mem!Pte(0) \in Mem!Places /\ 0 \in Mem!VPages
  <2>1. 0 \in Mem!VPages
    BY FirstPage
  <2>2. 0 \in 0 .. NPDENTRIES - 1
    BY DEF Mem!Configuration
  <2> QED BY <2>1, <2>2, PlaceIn
<1>2. sp[Mem!Dir] = d /\ sp[Mem!Tab(0)] = t /\ sp[Mem!Pte(0)] = x
  <2>1. Mem!Tab(0) # Mem!Dir /\ Mem!Pte(0) # Mem!Dir /\ Mem!Pte(0) # Mem!Tab(0)
        /\ Mem!Dir[1] # "kern" /\ Mem!Tab(0)[1] # "kern" /\ Mem!Pte(0)[1] # "kern"
    BY DEF Mem!Dir, Mem!Tab, Mem!Pte
  <2>2. sp[Mem!Dir] = d
    BY <1>1, <2>1 DEF Built
  <2>3. sp[Mem!Tab(0)] = t
    BY <1>1, <2>1 DEF Built
  <2>4. sp[Mem!Pte(0)] = x
    BY <1>1, <2>1 DEF Built
  <2> QED BY <2>2, <2>3, <2>4
<1>3. ASSUME NEW i \in 1 .. KTables
      PROVE  Mem!Kern(i) \in Mem!Places /\ sp[Mem!Kern(i)] = kern[i] /\ kern[i] \in Mem!Range(kern)
  <2>1. Mem!Kern(i)[1] = "kern" /\ Mem!Kern(i)[2] = i
    BY DEF Mem!Kern
  <2> QED BY <2>1, PlaceIn, PlaceApart DEF Mem!Range, Built
<1>4. ASSUME NEW l \in Mem!Places, l # Mem!Dir, l # Mem!Tab(0), l # Mem!Pte(0), sp[l] # Nil
      PROVE  \E i \in 1 .. KTables : l = Mem!Kern(i)
  <2>1. l[1] = "kern"
    BY <1>4 DEF Built
  <2> QED BY <2>1, <1>4 DEF Mem!Places, Mem!Dir, Mem!Tab, Mem!Pte
<1>5. \A l \in Mem!Places : sp[l] \in {d, t, x, Nil} \cup Mem!Range(kern)
  <2>1. ASSUME NEW l \in Mem!Places PROVE sp[l] \in {d, t, x, Nil} \cup Mem!Range(kern)
    <3>1. CASE l \in {Mem!Dir, Mem!Tab(0), Mem!Pte(0)} \/ sp[l] = Nil
      BY <3>1, <1>2
    <3>2. CASE l \notin {Mem!Dir, Mem!Tab(0), Mem!Pte(0)} /\ sp[l] # Nil
      <4>1. PICK i \in 1 .. KTables : l = Mem!Kern(i)
        BY <3>2, <1>4
      <4> QED BY <4>1, <1>3
    <3> QED BY <3>1, <3>2
  <2> QED BY <2>1
<1>6. \A l, m \in Mem!Places : sp[l] = sp[m] /\ sp[l] # Nil => l = m
  <2>1. ASSUME NEW l \in Mem!Places, NEW m \in Mem!Places, sp[l] = sp[m], sp[l] # Nil PROVE l = m
    <3>1. CASE l \in {Mem!Dir, Mem!Tab(0), Mem!Pte(0)} /\ m \in {Mem!Dir, Mem!Tab(0), Mem!Pte(0)}
      BY <3>1, <2>1, <1>2
    <3>2. CASE l \in {Mem!Dir, Mem!Tab(0), Mem!Pte(0)} /\ m \notin {Mem!Dir, Mem!Tab(0), Mem!Pte(0)}
      <4>1. PICK i \in 1 .. KTables : m = Mem!Kern(i)
        BY <3>2, <2>1, <1>4
      <4>2. sp[m] \in Mem!Range(kern) /\ sp[l] \in {d, t, x}
        BY <4>1, <3>2, <1>2, <1>3
      <4> QED BY <4>2, <2>1
    <3>3. CASE l \notin {Mem!Dir, Mem!Tab(0), Mem!Pte(0)} /\ m \in {Mem!Dir, Mem!Tab(0), Mem!Pte(0)}
      <4>1. PICK i \in 1 .. KTables : l = Mem!Kern(i)
        BY <3>3, <2>1, <1>4
      <4>2. sp[l] \in Mem!Range(kern) /\ sp[m] \in {d, t, x}
        BY <4>1, <3>3, <1>2, <1>3
      <4> QED BY <4>2, <2>1
    <3>4. CASE l \notin {Mem!Dir, Mem!Tab(0), Mem!Pte(0)} /\ m \notin {Mem!Dir, Mem!Tab(0), Mem!Pte(0)}
      <4>1. PICK i, j \in 1 .. KTables : l = Mem!Kern(i) /\ m = Mem!Kern(j)
        BY <3>4, <2>1, <1>4
      <4>2. kern[i] = kern[j]
        BY <4>1, <2>1, <1>3
      <4> QED BY <4>1, <4>2 DEF Mem!IsInjective
    <3> QED BY <3>1, <3>2, <3>3, <3>4
  <2> QED BY <2>1
<1>7. \A y \in {d, t, x} \cup Mem!Range(kern) : \E l \in Mem!Places : sp[l] = y
  BY <1>1, <1>2, <1>3 DEF Mem!Range
<1>8. sp \in [Mem!Places -> PageOrNil]
  <2>1. Mem!Range(kern) \subseteq Frames
    BY DEF Mem!Range
  <2>2. \A l \in Mem!Places : sp[l] \in PageOrNil
    BY <2>1, <1>5 DEF PageOrNil
  <2> QED BY <2>2 DEF Built
<1>9. Mem!Mapped(sp) = {0}
  <2>1. ASSUME NEW v \in Mem!VPages, sp[Mem!Pte(v)] # Nil PROVE v = 0
    <3>1. Mem!Pte(v) \in Mem!Places /\ Mem!Pte(v) # Mem!Dir /\ Mem!Pte(v) # Mem!Tab(0) /\ \A i : Mem!Pte(v) # Mem!Kern(i)
      BY PlaceIn, PlaceApart
    <3>2. Mem!Pte(v) = Mem!Pte(0)
      BY <2>1, <3>1, <1>4
    <3> QED BY <3>2, PlaceApart
  <2>2. x # Nil
    BY DEF Mem!Configuration
  <2> QED BY <2>1, <2>2, <1>1, <1>2 DEF Mem!Mapped
<1> QED BY <1>2, <1>5, <1>6, <1>7, <1>8, <1>9 DEF OnePlaceEach

(* userinit's memory is accounted for.                                     *)
LEMMA InitOwned ==
    ASSUME Mem!Configuration, Mem!Init
    PROVE  Owned /\ space \in [Ptable -> [Mem!Places -> PageOrNil]] /\ kstack \in [Ptable -> PageOrNil]
           /\ cr3 \in [Ptable -> PageOrNil] /\ Mem!Mapped(space[initproc]) = {0}
           /\ kstack[initproc] # Nil /\ space[initproc][Mem!Dir] # Nil
           /\ cr3[initproc] = space[initproc][Mem!Dir]
           /\ \A s \in Ptable \ {initproc} : space[s] = Mem!NoSpace /\ kstack[s] = Nil /\ cr3[s] = Nil
<1>1. PICK k, d, t, x \in Frames : \E kern \in [1 .. KTables -> Frames \ {k, d, t, x}] :
             /\ k # d /\ k # t /\ k # x /\ d # t /\ d # x /\ t # x /\ Mem!IsInjective(kern)
             /\ free = Frames \ ({k, d, t, x} \cup Mem!Range(kern))
             /\ kstack = [s \in Ptable |-> IF s = initproc THEN k ELSE Nil]
             /\ space = [s \in Ptable |-> IF s = initproc THEN
                    Built(d, t, x, kern)
                    ELSE Mem!NoSpace]
             /\ cr3 = [s \in Ptable |-> IF s = initproc THEN d ELSE Nil]
  BY InitState
<1>2. PICK kern \in [1 .. KTables -> Frames \ {k, d, t, x}] :
             /\ k # d /\ k # t /\ k # x /\ d # t /\ d # x /\ t # x /\ Mem!IsInjective(kern)
             /\ free = Frames \ ({k, d, t, x} \cup Mem!Range(kern))
             /\ kstack = [s \in Ptable |-> IF s = initproc THEN k ELSE Nil]
             /\ space = [s \in Ptable |-> IF s = initproc THEN
                    Built(d, t, x, kern)
                    ELSE Mem!NoSpace]
             /\ cr3 = [s \in Ptable |-> IF s = initproc THEN d ELSE Nil]
  BY <1>1
<1>3. PICK sp : sp =  Built(d, t, x, kern)
  OBVIOUS
<1>4. /\ kern \in [1 .. KTables -> Frames] /\ Mem!Range(kern) \subseteq Frames
      /\ {k, d, t, x} \cap Mem!Range(kern) = {}
  BY <1>2 DEF Mem!Range
<1>5. /\ sp \in [Mem!Places -> PageOrNil] /\ sp[Mem!Dir] = d /\ Mem!Mapped(sp) = {0}
      /\ \A l \in Mem!Places : sp[l] \in {d, t, x, Nil} \cup Mem!Range(kern)
      /\ \A l, m \in Mem!Places : sp[l] = sp[m] /\ sp[l] # Nil => l = m
      /\ \A y \in {d, t, x} \cup Mem!Range(kern) : \E l \in Mem!Places : sp[l] = y
  <2>1. {d, t, x} \cap Mem!Range(kern) = {} /\ d # t /\ d # x /\ t # x /\ Mem!IsInjective(kern)
    BY <1>2, <1>4
  <2>2. kern \in [1 .. KTables -> Frames]
    BY <1>4
  <2>3. d \in Frames /\ t \in Frames /\ x \in Frames
    BY <1>1
  <2>4. Different(d, t, x, kern)
    BY <2>1, <2>2, <2>3 DEF Different
  <2>5. OnePlaceEach(sp, d, t, x, kern)
    BY <1>3, <2>4, FirstSpace
  <2> QED BY <2>5 DEF OnePlaceEach
<1>6. /\ initproc \in Ptable /\ space[initproc] = sp /\ kstack[initproc] = k
      /\ cr3[initproc] = d /\ d # Nil /\ k # Nil
      /\ \A s \in Ptable \ {initproc} : space[s] = Mem!NoSpace /\ kstack[s] = Nil /\ cr3[s] = Nil
      /\ free = Frames \ ({k, d, t, x} \cup Mem!Range(kern))
  BY <1>2, <1>3 DEF Mem!Configuration
<1>7. call = [s \in Ptable |-> Mem!Idle]
  BY DEF Mem!Init
<1>8. Mem!NoSpace \in [Mem!Places -> PageOrNil] /\ \A l \in Mem!Places : Mem!NoSpace[l] = Nil
  BY DEF Mem!NoSpace, PageOrNil
<1>9. /\ space \in [Ptable -> [Mem!Places -> PageOrNil]] /\ kstack \in [Ptable -> PageOrNil]
      /\ cr3 \in [Ptable -> PageOrNil] /\ call \in [Ptable -> CallType]
  <2>1. call \in [Ptable -> CallType]
    BY <1>7, IdleFacts
  <2>2. space \in [Ptable -> [Mem!Places -> PageOrNil]]
    BY <1>2, <1>3, <1>5, <1>8
  <2> QED BY <1>2, <2>1, <2>2 DEF PageOrNil
<1>10. PICK f : f = Fill(space, call, kstack)
  OBVIOUS
<1>11. f \in [Cells -> PageOrNil]
  BY <1>9, <1>10, FillType
<1>12. ASSUME NEW c \in Cells
       PROVE  f[c] = IF c[2] = initproc /\ c[1] = "space" THEN sp[c[3]]
                     ELSE IF c[2] = initproc /\ c[1] = "kstack" /\ c[3] = Mem!Dir THEN k ELSE Nil
  <2>1. c[1] \in {"space", "new", "mem", "kstack"} /\ c[2] \in Ptable /\ c[3] \in Mem!Places
    BY CellParts
  <2>2. call[c[2]] = Mem!Idle
    BY <2>1, <1>7
  <2>3. CASE c[1] = "space"
    BY <2>1, <2>3, <1>6, <1>8, <1>10, Contents
  <2>4. CASE c[1] = "new"
    BY <2>1, <2>2, <2>4, <1>10, Contents, IdleFacts
  <2>5. CASE c[1] = "mem"
    BY <2>1, <2>2, <2>5, <1>10, Contents, IdleFacts
  <2>6. CASE c[1] = "kstack"
    BY <2>1, <2>6, <1>6, <1>10, Contents
  <2> QED BY <2>1, <2>3, <2>4, <2>5, <2>6
<1>13. \A c \in Cells : f[c] \notin free
  <2>1. ASSUME NEW c \in Cells PROVE f[c] \in {k, d, t, x, Nil} \cup Mem!Range(kern)
    <3>1. c[3] \in Mem!Places
      BY CellParts
    <3> QED BY <3>1, <1>5, <1>12
  <2> QED BY <2>1, <1>6 DEF Mem!Configuration
<1>14. \A c, e \in Cells : f[c] = f[e] /\ f[c] # Nil => c = e
  <2>1. ASSUME NEW c \in Cells, NEW e \in Cells, f[c] = f[e], f[c] # Nil PROVE c = e
    <3>1. c[3] \in Mem!Places /\ e[3] \in Mem!Places
      BY CellParts
    <3>2. /\ c[2] = initproc /\ (c[1] = "space" \/ (c[1] = "kstack" /\ c[3] = Mem!Dir))
          /\ e[2] = initproc /\ (e[1] = "space" \/ (e[1] = "kstack" /\ e[3] = Mem!Dir))
      BY <2>1, <1>12
    <3>3. sp[c[3]] # k /\ sp[e[3]] # k
      <4>1. k \notin {d, t, x, Nil} \cup Mem!Range(kern)
        BY <1>2, <1>4, <1>6
      <4> QED BY <4>1, <3>1, <1>5
    <3>4. c[1] = e[1]
      BY <2>1, <3>2, <3>3, <1>12
    <3>5. c[3] = e[3]
      BY <2>1, <3>1, <3>2, <3>4, <1>5, <1>12
    <3> QED BY <3>2, <3>4, <3>5, SameCell
  <2> QED BY <2>1
<1>15. \A y \in Frames \ free : \E c \in Cells : f[c] = y
  <2>1. ASSUME NEW y \in Frames \ free PROVE \E c \in Cells : f[c] = y
    <3>1. y \in {k, d, t, x} \cup Mem!Range(kern)
      BY <1>6
    <3>2. CASE y = k
      <4>1. <<"kstack", initproc, Mem!Dir>> \in Cells /\ f[<<"kstack", initproc, Mem!Dir>>] = k
        BY <1>6, <1>12, MakeCell, PlaceIn
      <4> QED BY <3>2, <4>1
    <3>3. CASE y # k
      <4>1. PICK l \in Mem!Places : sp[l] = y
        BY <3>1, <3>3, <1>5
      <4>2. <<"space", initproc, l>> \in Cells /\ f[<<"space", initproc, l>>] = y
        BY <4>1, <1>6, <1>12, MakeCell
      <4> QED BY <4>2
    <3> QED BY <3>2, <3>3
  <2> QED BY <2>1
<1>16. Owned
  BY <1>6, <1>10, <1>11, <1>13, <1>14, <1>15 DEF Owned, OwnedBy
<1> QED BY <1>5, <1>6, <1>9, <1>16

(* The initial state has the invariant.                                    *)
LEMMA MemInitInv ==
    ASSUME Mem!Configuration, Mem!Init
    PROVE  MemInv
<1>1. /\ Owned /\ space \in [Ptable -> [Mem!Places -> PageOrNil]] /\ kstack \in [Ptable -> PageOrNil]
      /\ cr3 \in [Ptable -> PageOrNil] /\ Mem!Mapped(space[initproc]) = {0}
      /\ kstack[initproc] # Nil /\ space[initproc][Mem!Dir] # Nil
      /\ cr3[initproc] = space[initproc][Mem!Dir]
      /\ \A s \in Ptable \ {initproc} : space[s] = Mem!NoSpace /\ kstack[s] = Nil /\ cr3[s] = Nil
  BY InitOwned
<1>2. /\ mstate = [s \in Ptable |-> IF s = initproc THEN "run" ELSE "unused"]
      /\ mparent = [s \in Ptable |-> Nil] /\ size = [s \in Ptable |-> IF s = initproc THEN PageSize ELSE 0]
      /\ locked = Nil /\ call = [s \in Ptable |-> Mem!Idle]
  BY DEF Mem!Init
<1>3. Types
  <2>1. size \in [Ptable -> 0 .. Mem!KERNBASE - 1]
    <3>1. 0 \in 0 .. Mem!KERNBASE - 1 /\ PageSize \in 0 .. Mem!KERNBASE - 1
      BY UserPages, AddrFacts DEF Mem!Configuration
    <3> QED BY <3>1, <1>2
  <2>2. call \in [Ptable -> CallType]
    BY <1>2, IdleFacts
  <2> QED BY <1>1, <1>2, <2>1, <2>2 DEF Types
<1>4. ASSUME NEW p \in Ptable PROVE SlotOk(p) /\ CallOk(p)
  <2>1. call[p] = Mem!Idle
    BY <1>2
  <2>2. SlotOk(p)
    BY <1>1, <1>2, <2>1 DEF SlotOk
  <2>3. CallOk(p)
    BY <2>1, IdleFacts DEF CallOk
  <2> QED BY <2>2, <2>3
<1>5. ASSUME NEW p \in Ptable PROVE SizeOk(p)
  <2>1. Below(PageSize) = {0}
    <3>1. 0 \in Mem!VPages /\ Addr(0) < PageSize
      BY FirstPage
    <3>2. ASSUME NEW v \in Mem!VPages, Addr(v) < PageSize PROVE v = 0
      <4>1. v \in Nat
        BY UserPages
      <4>2. ~(0 < v)
        BY <3>2, <4>1, AddrFacts, AddrSmall
      <4> QED BY <4>1, <4>2
    <3> QED BY <3>1, <3>2 DEF Below
  <2> QED BY <1>1, <1>2, <2>1 DEF SizeOk
<1>6. Apart
  BY <1>2, IdleFacts DEF Apart
<1> QED BY <1>1, <1>2, <1>3, <1>4, <1>5, <1>6 DEF MemInv, EachOk, LockOk

-----------------------------------------------------------------------------
(* Steps, as moves of pages between cells.                                  *)

(* A step that gives a free page to an empty cell.                         *)
LEMMA TakeStep ==
    ASSUME Mem!Configuration, Owned, Types', NEW c \in Cells, NEW x \in free,
           Fill(space, call, kstack)[c] = Nil, free' = free \ {x},
           \A e \in Cells : Fill(space', call', kstack')[e] =
                              IF e = c THEN x ELSE Fill(space, call, kstack)[e]
    PROVE  Owned'
<1>1. PICK f : f = Fill(space, call, kstack)
  OBVIOUS
<1>2. PICK g : g = Fill(space', call', kstack')
  OBVIOUS
<1>3. g \in [Cells -> PageOrNil]
  BY <1>2, FillType DEF Types
<1>4. f \in [Cells -> PageOrNil] /\ OwnedBy(free, f)
  BY <1>1 DEF Owned, OwnedBy
<1>5. \A e \in Cells : g[e] = IF e = c THEN x ELSE f[e]
  BY <1>1, <1>2
<1>6. g = [f EXCEPT ![c] = x]
  BY <1>3, <1>4, <1>5
<1>7. OwnedBy(free \ {x}, [f EXCEPT ![c] = x])
  BY <1>1, <1>4, Taken
<1> QED BY <1>2, <1>6, <1>7 DEF Owned

(* A step that gives back what a set of cells has.                         *)
LEMMA GiveStep ==
    ASSUME Mem!Configuration, Owned, Types', NEW S \in SUBSET Cells,
           free' = free \cup Mem!Real({Fill(space, call, kstack)[c] : c \in S}),
           \A e \in Cells : Fill(space', call', kstack')[e] =
                              IF e \in S THEN Nil ELSE Fill(space, call, kstack)[e]
    PROVE  Owned'
<1>1. PICK f : f = Fill(space, call, kstack)
  OBVIOUS
<1>2. PICK g : g = Fill(space', call', kstack')
  OBVIOUS
<1>3. g \in [Cells -> PageOrNil]
  BY <1>2, FillType DEF Types
<1>4. OwnedBy(free, f) /\ OwnedBy(free, f) \in BOOLEAN
  BY <1>1 DEF Owned, OwnedBy
<1>5. \A e \in Cells : g[e] = IF e \in S THEN Nil ELSE f[e]
  BY <1>1, <1>2
<1>6. PICK G : G = Mem!Real({f[c] : c \in S})
  OBVIOUS
<1>7. OwnedBy(free \cup G, g)
  BY <1>3, <1>4, <1>5, <1>6, Given
<1> QED BY <1>1, <1>2, <1>6, <1>7 DEF Owned

(* A step that exchanges the contents of cells.                            *)
LEMMA SwapStep ==
    ASSUME Mem!Configuration, Owned, Types', free' = free,
           NEW w \in [Cells -> Cells], \A c \in Cells : w[w[c]] = c,
           \A e \in Cells : Fill(space', call', kstack')[e] = Fill(space, call, kstack)[w[e]]
    PROVE  Owned'
<1>1. PICK f : f = Fill(space, call, kstack)
  OBVIOUS
<1>2. PICK g : g = Fill(space', call', kstack')
  OBVIOUS
<1>3. g \in [Cells -> PageOrNil]
  BY <1>2, FillType DEF Types
<1>4. OwnedBy(free, f)
  BY <1>1 DEF Owned
<1>5. \A e \in Cells : g[e] = f[w[e]]
  BY <1>1, <1>2
<1>6. OwnedBy(free, g)
  BY <1>3, <1>4, <1>5, Swapped
<1> QED BY <1>2, <1>6 DEF Owned

(* A step that leaves all cells as they are.                               *)
LEMMA KeepStep ==
    ASSUME Mem!Configuration, Owned, Types', free' = free,
           \A e \in Cells : Fill(space', call', kstack')[e] = Fill(space, call, kstack)[e]
    PROVE  Owned'
<1>1. PICK f : f = Fill(space, call, kstack)
  OBVIOUS
<1>2. PICK g : g = Fill(space', call', kstack')
  OBVIOUS
<1>3. f \in [Cells -> PageOrNil] /\ g \in [Cells -> PageOrNil]
  BY <1>1, <1>2, FillType DEF Types, Owned, OwnedBy
<1>4. g = f
  BY <1>1, <1>2, <1>3
<1> QED BY <1>1, <1>2, <1>4 DEF Owned

(* A cell whose part of the state does not change.                         *)
LEMMA SameFill ==
    ASSUME NEW e \in Cells,
           e[1] = "space" => space'[e[2]][e[3]] = space[e[2]][e[3]],
           e[1] = "new" => call'[e[2]].new[e[3]] = call[e[2]].new[e[3]],
           e[1] = "mem" => (e[3] = Mem!Dir => call'[e[2]].mem = call[e[2]].mem),
           e[1] = "kstack" => (e[3] = Mem!Dir => kstack'[e[2]] = kstack[e[2]])
    PROVE  Fill(space', call', kstack')[e] = Fill(space, call, kstack)[e]
<1>1. e[1] \in {"space", "new", "mem", "kstack"}
  BY CellParts
<1>2. CASE e[1] = "space"
  BY <1>2, Contents
<1>3. CASE e[1] = "new"
  BY <1>3, Contents
<1>4. CASE e[1] = "mem"
  BY <1>4, Contents
<1>5. CASE e[1] = "kstack"
  BY <1>5, Contents
<1> QED BY <1>1, <1>2, <1>3, <1>4, <1>5

(* The start of a call, or its end when it has nothing more.               *)
LEMMA CallOnly ==
    ASSUME Mem!Configuration, Owned, Types, NEW p \in Ptable, NEW c \in CallType,
           c.new = call[p].new, c.mem = call[p].mem,
           call' = [call EXCEPT ![p] = c], UNCHANGED <<free, kstack, space>>, Types'
    PROVE  Owned'
<1>1. ASSUME NEW e \in Cells
      PROVE  Fill(space', call', kstack')[e] = Fill(space, call, kstack)[e]
  <2>1. e[2] \in Ptable /\ e[3] \in Mem!Places
    BY CellParts
  <2>2. call'[e[2]].new = call[e[2]].new /\ call'[e[2]].mem = call[e[2]].mem
    BY <2>1 DEF Types
  <2>3. space' = space /\ kstack' = kstack
    OBVIOUS
  <2> QED BY <2>2, <2>3, SameFill
<1> QED BY <1>1, KeepStep

(* A call begins: call[p] was Idle.                                        *)
LEMMA BeginOwned ==
    ASSUME Mem!Configuration, Owned, Types, NEW p \in Ptable, call[p] = Mem!Idle,
           NEW op \in {"fork", "exec", "sbrk"}, NEW ch \in Ptable,
           NEW pc \in {"kstack", "dir", "page"}, NEW at \in Nat, NEW to \in Nat,
           call' = [call EXCEPT ![p] = Mem!Building(op, pc, ch, at, to)],
           UNCHANGED <<free, kstack, space>>, Types'
    PROVE  Owned'
<1>1. PICK c : c = Mem!Building(op, pc, ch, at, to)
  OBVIOUS
<1>2. c \in CallType
  BY <1>1, BuildingType
<1>3. c.new = Mem!NoSpace /\ c.mem = Nil
  BY <1>1 DEF Mem!Building
<1> QED BY <1>1, <1>2, <1>3, IdleFacts, CallOnly

-----------------------------------------------------------------------------
(* The beginnings of calls.                                                 *)

(* What a process in user code has.                                        *)
LEMMA UserFacts ==
    ASSUME Mem!Configuration, MemInv, NEW p \in Ptable, Mem!InUser(p)
    PROVE  /\ call[p] = Mem!Idle /\ mstate[p] = "run" /\ cr3[p] # Nil /\ call[p].op = "none"
           /\ Mem!Mapped(space[p]) = Below(size[p]) /\ size[p] \in Nat /\ size[p] < Mem!KERNBASE /\ size[p] > 0
<1>1. call[p] = Mem!Idle /\ mstate[p] = "run" /\ cr3[p] # Nil /\ 0 \in Mem!Mapped(space[p])
  BY DEF Mem!InUser
<1>2. call[p].op = "none"
  BY <1>1, IdleFacts
<1>3. Mem!Mapped(space[p]) = Below(size[p])
  <2>1. SizeOk(p)
    BY DEF MemInv, EachOk
  <2> QED BY <1>1, <1>2, <2>1 DEF SizeOk
<1>4. size[p] \in 0 .. Mem!KERNBASE - 1 /\ Mem!KERNBASE \in Nat
  BY UserPages DEF MemInv, Types
<1>5. 0 \in Mem!VPages /\ Addr(0) < size[p] /\ Addr(0) = 0
  BY <1>1, <1>3, AddrSmall DEF Below
<1> QED BY <1>1, <1>2, <1>3, <1>4, <1>5

(* The parts of the invariant.                                             *)
LEMMA InvParts ==
    ASSUME MemInv
    PROVE  Types /\ Owned /\ Apart /\ LockOk
           /\ \A p \in Ptable : SlotOk(p) /\ CallOk(p) /\ SizeOk(p)
  BY DEF MemInv, EachOk

(* A slot that is in a call is that of a running process.                  *)
LEMMA InCall ==
    ASSUME MemInv, NEW p \in Ptable, call[p].op # "none"
    PROVE  mstate[p] = "run" /\ cr3[p] # Nil /\ kstack[p] # Nil /\ space[p][Mem!Dir] # Nil
           /\ cr3[p] = space[p][Mem!Dir]
<1>1. call[p] # Mem!Idle
  BY IdleFacts
<1> QED BY <1>1, InvParts DEF SlotOk

(* fork takes an unused slot.                                              *)
LEMMA ForkInv ==
    ASSUME Mem!Configuration, MemInv, NEW p \in Ptable, Mem!fork(p)
    PROVE  MemInv'
<1>1. PICK s \in Ptable : /\ mstate[s] = "unused" /\ mstate' = [mstate EXCEPT ![s] = "embryo"]
                         /\ call' = [call EXCEPT ![p] = Mem!Building("fork", "kstack", s, 0, size[p])]
  BY DEF Mem!fork
<1>2. UNCHANGED <<free, mparent, kstack, space, size, cr3, locked>> /\ Mem!InUser(p)
  BY DEF Mem!fork
<1>3. /\ call[p] = Mem!Idle /\ mstate[p] = "run" /\ cr3[p] # Nil /\ size[p] \in Nat
      /\ p # s
  BY <1>1, <1>2, UserFacts
<1>4. PICK c : c = Mem!Building("fork", "kstack", s, 0, size[p])
  OBVIOUS
<1>5. /\ c \in CallType /\ c.op = "fork" /\ c.pc = "kstack" /\ c.child = s /\ c.new = Mem!NoSpace
      /\ c.mem = Nil /\ c.at = 0 /\ c.to = size[p]
  BY <1>1, <1>3, <1>4, BuildingType DEF Mem!Building
<1>6. Types'
  BY <1>1, <1>2, <1>4, <1>5, InvParts DEF Types
<1>7. Owned'
  BY <1>1, <1>2, <1>3, <1>6, InvParts, BeginOwned
<1>8. call' = [call EXCEPT ![p] = c] /\ call'[p] = c /\ \A q \in Ptable \ {p} : call'[q] = call[q]
  BY <1>1, <1>4, InvParts DEF Types
<1>9. mstate'[s] = "embryo" /\ \A q \in Ptable \ {s} : mstate'[q] = mstate[q]
  BY <1>1, InvParts DEF Types
<1>10. kstack[s] = Nil /\ space[s] = Mem!NoSpace /\ cr3[s] = Nil /\ call[s] = Mem!Idle
  BY <1>1, InvParts DEF SlotOk
<1>11. ASSUME NEW q \in Ptable PROVE SlotOk(q)'
  <2>1. SlotOk(q)
    BY InvParts
  <2>2. CASE q = s
    BY <1>2, <1>3, <1>8, <1>9, <1>10, <2>2 DEF SlotOk
  <2>3. CASE q = p
    BY <1>2, <1>3, <1>9, <2>1, <2>3 DEF SlotOk
  <2>4. CASE q # s /\ q # p
    BY <1>2, <1>8, <1>9, <2>1, <2>4, SlotKept
  <2> QED BY <2>2, <2>3, <2>4
<1>12. ASSUME NEW q \in Ptable, q # p, call[q].op = "fork"
       PROVE  call[q].child \in Ptable /\ call[q].child # s
  <2>1. CallOk(q)
    BY InvParts
  <2> QED BY <1>1, <1>12, <2>1 DEF CallOk
<1>13. ASSUME NEW q \in Ptable PROVE CallOk(q)'
  <2>1. CallOk(q)
    BY InvParts
  <2>2. CASE q = p
    BY <1>2, <1>5, <1>8, <1>9, <1>10, <2>2 DEF CallOk
  <2>3. CASE q # p
    BY <1>2, <1>8, <1>9, <1>12, <2>1, <2>3, CallKept
  <2> QED BY <2>2, <2>3
<1>14. ASSUME NEW q \in Ptable PROVE SizeOk(q)'
  <2>1. SizeOk(q)
    BY InvParts
  <2>2. CASE q = p
    <3>1. Mem!Mapped(space[p])' = Mem!Mapped(space[p]) /\ Below(size[p])' = Below(size[p])
      BY <1>2 DEF Mem!Mapped, Below
    <3> QED BY <2>2, <3>1, <1>2, UserFacts DEF SizeOk
  <2>3. CASE q = s
    BY <1>9, <2>3 DEF SizeOk
  <2>4. CASE q # s /\ q # p
    BY <1>2, <1>8, <1>9, <2>1, <2>4, SizeKept
  <2> QED BY <2>2, <2>3, <2>4
<1>15. Apart'
  BY <1>5, <1>8, <1>12, InvParts DEF Apart
<1>16. LockOk'
  BY <1>1, <1>2, <1>9, InvParts DEF LockOk, Types
<1> QED BY <1>6, <1>7, <1>11, <1>13, <1>14, <1>15, <1>16 DEF MemInv, EachOk

(* A step that only starts or moves on the call of p, with c for its       *)
(* record.                                                                 *)
LEMMA CallStep ==
    ASSUME Mem!Configuration, MemInv, NEW p \in Ptable, NEW c \in CallType, c # Mem!Idle,
           call' = [call EXCEPT ![p] = c], cr3[p] # Nil, mstate[p] = "run",
           UNCHANGED <<mstate, mparent, kstack, space, size, cr3, locked>>,
           Owned', CallOk(p)', SizeOk(p)', c.op = "fork" => call[p].op = "fork" /\ c.child = call[p].child
    PROVE  MemInv'
<1>1. Types'
  BY InvParts DEF Types
<1>2. call'[p] = c /\ \A q \in Ptable \ {p} : call'[q] = call[q]
  BY InvParts DEF Types
<1>3. ASSUME NEW q \in Ptable PROVE SlotOk(q)'
  <2>1. SlotOk(q)
    BY InvParts
  <2>2. CASE q = p
    BY <2>1, <2>2, <1>2 DEF SlotOk
  <2>3. CASE q # p
    BY <2>1, <2>3, <1>2, SlotKept
  <2> QED BY <2>2, <2>3
<1>4. ASSUME NEW q \in Ptable PROVE CallOk(q)' /\ SizeOk(q)'
  <2>1. CallOk(q) /\ SizeOk(q)
    BY InvParts
  <2>2. CASE q # p
    BY <2>1, <2>2, <1>2, CallKept, SizeKept
  <2> QED BY <2>2
<1>5. Apart'
  BY <1>2, InvParts DEF Apart
<1>6. LockOk'
  BY InvParts DEF LockOk
<1> QED BY <1>1, <1>3, <1>4, <1>5, <1>6 DEF MemInv, EachOk

(* exec starts to build a new address space.                               *)
LEMMA ExecInv ==
    ASSUME Mem!Configuration, MemInv, NEW p \in Ptable, Mem!exec(p)
    PROVE  MemInv'
<1>1. PICK n \in Images : call' = [call EXCEPT ![p] = Mem!Building("exec", "dir", p, 0, n)]
  BY DEF Mem!exec
<1>2. UNCHANGED <<free, mstate, mparent, kstack, space, size, cr3, locked>> /\ Mem!InUser(p)
  BY DEF Mem!exec
<1>3. n \in Nat /\ n < Mem!KERNBASE
  BY UserPages DEF Mem!Configuration
<1>4. PICK c : c = Mem!Building("exec", "dir", p, 0, n)
  OBVIOUS
<1>5. /\ c \in CallType /\ c.op = "exec" /\ c.pc = "dir" /\ c.new = Mem!NoSpace
      /\ c.mem = Nil /\ c.at = 0 /\ c.to = n
  BY <1>3, <1>4, BuildingType DEF Mem!Building
<1>6. /\ call[p] = Mem!Idle /\ mstate[p] = "run" /\ cr3[p] # Nil /\ Mem!Mapped(space[p]) = Below(size[p])
  BY <1>2, UserFacts
<1>7. call' = [call EXCEPT ![p] = c] /\ call'[p] = c
  BY <1>1, <1>4, InvParts DEF Types
<1>8. Types'
  BY <1>2, <1>5, <1>7, InvParts DEF Types
<1>9. Owned'
  BY <1>1, <1>2, <1>3, <1>6, <1>8, InvParts, BeginOwned
<1>10. CallOk(p)'
  <2>1. Mem!Mapped(c.new) = {} /\ c.new[Mem!Dir] = Nil /\ \A i \in 1 .. KTables : c.new[Mem!Kern(i)] = Nil
    BY <1>5, NothingMapped, PlaceIn DEF Mem!NoSpace
  <2>2. Mem!Mapped(call[p].new)' = Mem!Mapped(c.new)
    BY <1>7 DEF Mem!Mapped
  <2>3. 0 \in 0 .. KTables
    BY DEF Mem!Configuration
  <2> QED BY <1>3, <1>5, <1>7, <2>1, <2>2, <2>3 DEF CallOk
<1>11. SizeOk(p)'
  <2>1. Mem!Mapped(space[p])' = Mem!Mapped(space[p]) /\ Below(size[p])' = Below(size[p])
    BY <1>2 DEF Mem!Mapped, Below
  <2> QED BY <1>6, <2>1 DEF SizeOk
<1>12. c # Mem!Idle
  BY <1>5, IdleFacts
<1> QED BY <1>2, <1>5, <1>6, <1>7, <1>9, <1>10, <1>11, <1>12, CallStep

(* sbrk starts to grow the process.                                        *)
LEMMA GrowInv ==
    ASSUME Mem!Configuration, MemInv, NEW p \in Ptable, Mem!grow(p)
    PROVE  MemInv'
<1>1. PICK n \in Sbrks : /\ n > 0 /\ Mem!Fits(size[p] + n)
                            /\ call' = [call EXCEPT ![p] =
                                  Mem!Building("sbrk", "page", p, Mem!PGROUNDUP(size[p]), size[p] + n)]
  BY DEF Mem!grow
<1>2. UNCHANGED <<free, mstate, mparent, kstack, space, size, cr3, locked>> /\ Mem!InUser(p)
  BY DEF Mem!grow
<1>3. /\ call[p] = Mem!Idle /\ mstate[p] = "run" /\ cr3[p] # Nil /\ Mem!Mapped(space[p]) = Below(size[p])
      /\ size[p] \in Nat
  BY <1>2, UserFacts
<1>4. PICK a, b : a = Mem!PGROUNDUP(size[p]) /\ b = size[p] + n
  OBVIOUS
<1>5. a \in Nat /\ Aligned(a) /\ size[p] <= a /\ a < size[p] + PageSize
  BY <1>3, <1>4, RoundFacts
<1>6. b \in Nat /\ size[p] < b /\ b < Mem!KERNBASE /\ a < b + PageSize
  <2>1. n \in Int /\ PageSize \in Nat /\ Mem!KERNBASE \in Nat
    BY UserPages, AddrFacts DEF Mem!Configuration
  <2> QED BY <1>1, <1>3, <1>4, <1>5, <2>1 DEF Mem!Fits
<1>7. PICK c : c = Mem!Building("sbrk", "page", p, a, b)
  OBVIOUS
<1>8. /\ c \in CallType /\ c.op = "sbrk" /\ c.pc = "page" /\ c.new = Mem!NoSpace
      /\ c.mem = Nil /\ c.at = a /\ c.to = b
  BY <1>5, <1>6, <1>7, BuildingType DEF Mem!Building
<1>9. call' = [call EXCEPT ![p] = c] /\ call'[p] = c
  BY <1>1, <1>4, <1>7, InvParts DEF Types
<1>10. Types'
  BY <1>2, <1>8, <1>9, InvParts DEF Types
<1>11. Owned'
  <2>1. c.new = call[p].new /\ c.mem = call[p].mem
    BY <1>3, <1>8, IdleFacts
  <2> QED BY <1>2, <1>8, <1>9, <1>10, <2>1, InvParts, CallOnly
<1>12. CallOk(p)'
  <2>1. Mem!Mapped(Mem!Target(p))' = Mem!Mapped(space[p])
    BY <1>2, <1>8, <1>9 DEF Mem!Target, Mem!Grown, Mem!Mapped
  <2>2. Below(a) = Below(size[p])
    BY <1>3, <1>5, SameBelow
  <2>3. LoopOk(p)'
    BY <1>3, <1>5, <1>6, <1>8, <1>9, <2>1, <2>2 DEF LoopOk
  <2>4. size'[p] = size[p]
    BY <1>2
  <2> QED BY <1>5, <1>6, <1>8, <1>9, <2>3, <2>4 DEF CallOk
<1>13. SizeOk(p)'
  BY <1>8, <1>9 DEF SizeOk
<1>14. c # Mem!Idle
  BY <1>8, IdleFacts
<1> QED BY <1>2, <1>3, <1>8, <1>9, <1>11, <1>12, <1>13, <1>14, CallStep

(* deallocuvm leaves the other places, the directory among them.           *)
LEMMA UnmapFacts ==
    ASSUME NEW sp \in [Mem!Places -> PageOrNil], NEW old, NEW new
    PROVE  /\ Mem!Unmapped(sp, old, new) \in [Mem!Places -> PageOrNil]
           /\ Mem!Unmapped(sp, old, new)[Mem!Dir] = sp[Mem!Dir]
           /\ Mem!Mapped(Mem!Unmapped(sp, old, new)) = Mem!Mapped(sp) \ Mem!Between(new, old)
           /\ \A l \in Mem!Places : Mem!Unmapped(sp, old, new)[l] =
                IF \E v \in Mem!Between(new, old) : l = Mem!Pte(v) THEN Nil ELSE sp[l]
<1>1. PICK u : u = Mem!Unmapped(sp, old, new)
  OBVIOUS
<1>2. \A l \in Mem!Places : u[l] = IF \E v \in Mem!Between(new, old) : l = Mem!Pte(v) THEN Nil ELSE sp[l]
  BY <1>1 DEF Mem!Unmapped
<1>3. u \in [Mem!Places -> PageOrNil]
  BY <1>1 DEF Mem!Unmapped, PageOrNil
<1>4. u[Mem!Dir] = sp[Mem!Dir]
  BY <1>2, PlaceIn, PlaceApart
<1>5. ASSUME NEW v \in Mem!VPages PROVE u[Mem!Pte(v)] = IF v \in Mem!Between(new, old) THEN Nil ELSE sp[Mem!Pte(v)]
  BY <1>2, PlaceIn, PlaceApart
<1>6. Mem!Mapped(u) = Mem!Mapped(sp) \ Mem!Between(new, old)
  BY <1>5 DEF Mem!Mapped
<1> QED BY <1>1, <1>2, <1>3, <1>4, <1>6

(* What is left of the pages below a when those from n to m are gone.      *)
LEMMA BelowLeft ==
    ASSUME Mem!Configuration, NEW a \in Nat, NEW n \in Nat, NEW m \in Nat,
           n <= a, \A v \in Mem!VPages : Addr(v) < a => Addr(v) < m
    PROVE  Below(a) \ Mem!Between(n, m) = Below(n)
<1>1. Mem!Between(n, m) = {v \in Mem!VPages : n <= Addr(v) /\ Addr(v) < m}
  BY BetweenIs
<1>2. \A v \in Mem!VPages : Addr(v) \in Nat
  BY UserPages, AddrFacts
<1> QED BY <1>1, <1>2 DEF Below

(* sbrk with a negative argument.                                          *)
LEMMA ShrinkInv ==
    ASSUME Mem!Configuration, MemInv, NEW p \in Ptable, Mem!shrink(p)
    PROVE  MemInv'
<1>1. PICK n \in Sbrks : /\ n < 0 /\ size[p] + n >= 0
                            /\ Mem!kfree(Mem!deallocuvm(space[p], size[p], size[p] + n))
                            /\ space' = [space EXCEPT ![p] = Mem!Unmapped(@, size[p], size[p] + n)]
                            /\ size' = [size EXCEPT ![p] = Mem!Kept(@, @ + n)]
  BY DEF Mem!shrink
<1>2. UNCHANGED <<mstate, mparent, kstack, cr3, locked, call>> /\ Mem!InUser(p)
  BY DEF Mem!shrink
<1>3. /\ call[p] = Mem!Idle /\ mstate[p] = "run" /\ cr3[p] # Nil /\ Mem!Mapped(space[p]) = Below(size[p])
      /\ size[p] \in Nat /\ size[p] < Mem!KERNBASE /\ call[p].op = "none"
  BY <1>2, UserFacts
<1>4. PICK m \in Nat : m = size[p] + n /\ m < size[p]
  <2>1. n \in Int
    BY DEF Mem!Configuration
  <2> QED BY <1>1, <1>3, <2>1
<1>5. PICK u : u = Mem!Unmapped(space[p], size[p], m)
  OBVIOUS
<1>6. space[p] \in [Mem!Places -> PageOrNil] /\ space \in [Ptable -> [Mem!Places -> PageOrNil]]
  BY InvParts DEF Types
<1>7. /\ u \in [Mem!Places -> PageOrNil] /\ u[Mem!Dir] = space[p][Mem!Dir]
      /\ Mem!Mapped(u) = Mem!Mapped(space[p]) \ Mem!Between(m, size[p])
      /\ \A l \in Mem!Places : u[l] = IF \E v \in Mem!Between(m, size[p]) : l = Mem!Pte(v) THEN Nil ELSE space[p][l]
  BY <1>5, <1>6, UnmapFacts
<1>8. space' = [space EXCEPT ![p] = u] /\ space'[p] = u /\ \A q \in Ptable \ {p} : space'[q] = space[q]
  BY <1>1, <1>4, <1>5, <1>6
<1>9. /\ size' = [size EXCEPT ![p] = Mem!Kept(size[p], m)] /\ size'[p] = Mem!Kept(size[p], m)
      /\ \A q \in Ptable \ {p} : size'[q] = size[q]
  BY <1>1, <1>4, InvParts DEF Types
<1>10. Mem!Kept(size[p], m) \in 0 .. Mem!KERNBASE - 1
  BY <1>3, <1>4, UserPages DEF Mem!Kept
<1>11. Types'
  BY <1>2, <1>7, <1>8, <1>9, <1>10, InvParts DEF Types
<1>12. Owned'
  <2>1. PICK f : f = Fill(space, call, kstack)
    OBVIOUS
  <2>2. PICK S : S = {c \in Cells : c[1] = "space" /\ c[2] = p /\ \E v \in Mem!Between(m, size[p]) : c[3] = Mem!Pte(v)}
    OBVIOUS
  <2>3. Mem!Real({f[c] : c \in S}) = Mem!deallocuvm(space[p], size[p], m)
    <3>1. ASSUME NEW c \in S
          PROVE  \E v \in Mem!Between(m, size[p]) : f[c] = space[p][Mem!Pte(v)]
      BY <2>1, <2>2, Contents
    <3>2. ASSUME NEW v \in Mem!Between(m, size[p])
          PROVE  \E c \in S : f[c] = space[p][Mem!Pte(v)]
      <4>1. Mem!Pte(v) \in Mem!Places
        BY PlaceIn DEF Mem!Between
      <4>2. <<"space", p, Mem!Pte(v)>> \in S
        BY <2>2, <4>1, MakeCell
      <4>3. f[<<"space", p, Mem!Pte(v)>>] = space[p][Mem!Pte(v)]
        BY <2>1, <4>1, MakeCell, Contents
      <4> QED BY <4>2, <4>3
    <3> QED BY <3>1, <3>2 DEF Mem!Real, Mem!deallocuvm
  <2>4. ASSUME NEW e \in Cells
        PROVE  Fill(space', call', kstack')[e] = IF e \in S THEN Nil ELSE f[e]
    <3>1. e[1] \in {"space", "new", "mem", "kstack"} /\ e[2] \in Ptable /\ e[3] \in Mem!Places
      BY CellParts
    <3>2. CASE e[1] = "space" /\ e[2] = p
      <4>1. f[e] = space[p][e[3]] /\ Fill(space', call', kstack')[e] = u[e[3]]
        <5>1. f[e] = space[p][e[3]]
          BY <2>1, <3>2, Contents
        <5>2. Fill(space', call', kstack')[e] = space'[p][e[3]]
          BY <3>2, Contents
        <5> QED BY <5>1, <5>2, <1>8
      <4> QED BY <2>2, <3>1, <3>2, <4>1, <1>7
    <3>3. CASE ~(e[1] = "space" /\ e[2] = p)
      <4>1. e \notin S
        BY <3>3, <2>2
      <4>2. e[1] = "space" => space'[e[2]] = space[e[2]]
        BY <3>1, <3>3, <1>8
      <4>3. Fill(space', call', kstack')[e] = f[e]
        BY <1>2, <2>1, <4>2, SameFill
      <4> QED BY <4>1, <4>3
    <3> QED BY <3>2, <3>3
  <2>5. free' = free \cup Mem!Real({f[c] : c \in S})
    BY <2>3, <1>1, <1>4 DEF Mem!kfree
  <2>6. S \in SUBSET Cells
    BY <2>2
  <2> QED BY <1>11, <2>1, <2>4, <2>5, <2>6, InvParts, GiveStep
<1>13. ASSUME NEW q \in Ptable PROVE SlotOk(q)'
  <2>1. SlotOk(q)
    BY InvParts
  <2>2. CASE q = p
    BY <2>1, <2>2, <1>2, <1>3, <1>7, <1>8 DEF SlotOk
  <2>3. CASE q # p
    BY <2>1, <2>3, <1>2, <1>8, SlotKept
  <2> QED BY <2>2, <2>3
<1>14. ASSUME NEW q \in Ptable PROVE CallOk(q)'
  <2>1. CallOk(q)
    BY InvParts
  <2>2. CASE q = p
    BY <2>2, <1>2, <1>3, IdleFacts DEF CallOk
  <2>3. CASE q # p
    BY <2>1, <2>3, <1>2, <1>8, <1>9, CallKept
  <2> QED BY <2>2, <2>3
<1>15. ASSUME NEW q \in Ptable PROVE SizeOk(q)'
  <2>1. SizeOk(q)
    BY InvParts
  <2>2. CASE q = p
    <3>1. Mem!Mapped(u) = Below(m)
      <4>1. \A v \in Mem!VPages : Addr(v) < size[p] => Addr(v) < size[p]
        OBVIOUS
      <4>2. Below(size[p]) \ Mem!Between(m, size[p]) = Below(m)
        BY <1>3, <1>4, BelowLeft
      <4> QED BY <1>3, <1>7, <4>2
    <3>2. Mem!Mapped(space[p])' = Mem!Mapped(u) /\ Below(size[p])' = Below(Mem!Kept(size[p], m))
      BY <1>8, <1>9 DEF Mem!Mapped, Below
    <3>3. CASE m # 0
      BY <3>1, <3>2, <3>3, <2>2 DEF SizeOk, Mem!Kept
    <3>4. CASE m = 0
      <4>1. \A v \in Mem!VPages : ~(Addr(v) < 0)
        BY UserPages, AddrFacts
      <4>2. Below(m) = {}
        BY <3>4, <4>1 DEF Below
      <4> QED BY <4>2, <3>1, <3>2, <2>2 DEF SizeOk
    <3> QED BY <3>3, <3>4
  <2>3. CASE q # p
    BY <2>1, <2>3, <1>2, <1>8, <1>9, SizeKept
  <2> QED BY <2>2, <2>3
<1>16. Apart' /\ LockOk'
  BY <1>2, InvParts DEF Apart, LockOk
<1> QED BY <1>11, <1>12, <1>13, <1>14, <1>15, <1>16 DEF MemInv, EachOk

-----------------------------------------------------------------------------
(* Failure.                                                                 *)

(* The cells that the error path of a call empties.                        *)
Undone(p) == {c \in Cells :
    \/ c[2] = p /\ c[1] \in {"new", "mem"}
    \/ call[p].op = "fork" /\ c[1] = "kstack" /\ c[2] = call[p].child /\ c[3] = Mem!Dir
    \/ /\ call[p].op = "sbrk" /\ c[1] = "space" /\ c[2] = p
       /\ \E v \in Mem!Between(size[p], call[p].to) : c[3] = Mem!Pte(v)}

(* The pages in them are those that it gives back: those of each kind.     *)
LEMMA UndoneParts ==
    ASSUME NEW p \in Ptable, NEW f, f = Fill(space, call, kstack), NEW x, x # Nil
    PROVE  /\ (\E c \in Undone(p) : c[1] = "new" /\ f[c] = x) <=> x \in Mem!freevm(call[p].new)
           /\ (\E c \in Undone(p) : c[1] = "mem" /\ f[c] = x) <=> x = call[p].mem
           /\ (\E c \in Undone(p) : c[1] = "space" /\ f[c] = x) <=>
                call[p].op = "sbrk" /\ x \in Mem!deallocuvm(space[p], call[p].to, size[p])
           /\ call[p].child \in Ptable =>
                ((\E c \in Undone(p) : c[1] = "kstack" /\ f[c] = x) <=>
                   call[p].op = "fork" /\ x = kstack[call[p].child])
<1>1. (\E c \in Undone(p) : c[1] = "new" /\ f[c] = x) <=> x \in Mem!freevm(call[p].new)
  <2>1. ASSUME NEW c \in Undone(p), c[1] = "new", f[c] = x PROVE x \in Mem!freevm(call[p].new)
    <3>1. c \in Cells /\ c[2] = p
      BY <2>1 DEF Undone
    <3>2. c[3] \in Mem!Places /\ x = call[p].new[c[3]]
      BY <2>1, <3>1, CellParts, Contents
    <3> QED BY <3>2 DEF Mem!freevm, Mem!Real
  <2>2. ASSUME x \in Mem!freevm(call[p].new) PROVE \E c \in Undone(p) : c[1] = "new" /\ f[c] = x
    <3>1. PICK l \in Mem!Places : x = call[p].new[l]
      BY <2>2 DEF Mem!freevm, Mem!Real
    <3>2. PICK c \in Cells : c[1] = "new" /\ c[2] = p /\ c[3] = l
      BY CellAt
    <3>3. c \in Undone(p) /\ f[c] = x
      BY <3>1, <3>2, Contents DEF Undone
    <3> QED BY <3>2, <3>3
  <2> QED BY <2>1, <2>2
<1>2. (\E c \in Undone(p) : c[1] = "mem" /\ f[c] = x) <=> x = call[p].mem
  <2>1. ASSUME NEW c \in Undone(p), c[1] = "mem", f[c] = x PROVE x = call[p].mem
    <3>1. c \in Cells /\ c[2] = p
      BY <2>1 DEF Undone
    <3> QED BY <2>1, <3>1, Contents
  <2>2. ASSUME x = call[p].mem PROVE \E c \in Undone(p) : c[1] = "mem" /\ f[c] = x
    <3>1. PICK c \in Cells : c[1] = "mem" /\ c[2] = p /\ c[3] = Mem!Dir
      BY CellAt, PlaceIn
    <3>2. c \in Undone(p) /\ f[c] = x
      BY <2>2, <3>1, Contents DEF Undone
    <3> QED BY <3>1, <3>2
  <2> QED BY <2>1, <2>2
<1>3. (\E c \in Undone(p) : c[1] = "space" /\ f[c] = x) <=>
         call[p].op = "sbrk" /\ x \in Mem!deallocuvm(space[p], call[p].to, size[p])
  <2>1. ASSUME NEW c \in Undone(p), c[1] = "space", f[c] = x
        PROVE  call[p].op = "sbrk" /\ x \in Mem!deallocuvm(space[p], call[p].to, size[p])
    <3>1. /\ c \in Cells /\ c[2] = p /\ call[p].op = "sbrk"
          /\ \E v \in Mem!Between(size[p], call[p].to) : c[3] = Mem!Pte(v)
      BY <2>1 DEF Undone
    <3>2. f[c] = space[p][c[3]]
      BY <2>1, <3>1, Contents
    <3> QED BY <2>1, <3>1, <3>2 DEF Mem!deallocuvm, Mem!Real
  <2>2. ASSUME call[p].op = "sbrk", x \in Mem!deallocuvm(space[p], call[p].to, size[p])
        PROVE  \E c \in Undone(p) : c[1] = "space" /\ f[c] = x
    <3>1. PICK v \in Mem!Between(size[p], call[p].to) : x = space[p][Mem!Pte(v)]
      BY <2>2 DEF Mem!deallocuvm, Mem!Real
    <3>2. Mem!Pte(v) \in Mem!Places
      BY PlaceIn DEF Mem!Between
    <3>3. PICK c \in Cells : c[1] = "space" /\ c[2] = p /\ c[3] = Mem!Pte(v)
      BY <3>2, CellAt
    <3>4. c \in Undone(p)
      BY <2>2, <3>1, <3>3 DEF Undone
    <3>5. f[c] = x
      BY <3>1, <3>3, Contents
    <3> QED BY <3>3, <3>4, <3>5
  <2> QED BY <2>1, <2>2
<1>4. ASSUME call[p].child \in Ptable
      PROVE  (\E c \in Undone(p) : c[1] = "kstack" /\ f[c] = x) <=>
                call[p].op = "fork" /\ x = kstack[call[p].child]
  <2>1. ASSUME NEW c \in Undone(p), c[1] = "kstack", f[c] = x
        PROVE  call[p].op = "fork" /\ x = kstack[call[p].child]
    <3>1. c \in Cells /\ c[2] = call[p].child /\ call[p].op = "fork" /\ c[3] = Mem!Dir
      BY <2>1 DEF Undone
    <3> QED BY <2>1, <3>1, Contents
  <2>2. ASSUME call[p].op = "fork", x = kstack[call[p].child]
        PROVE  \E c \in Undone(p) : c[1] = "kstack" /\ f[c] = x
    <3>1. PICK c \in Cells : c[1] = "kstack" /\ c[2] = call[p].child /\ c[3] = Mem!Dir
      BY <1>4, CellAt, PlaceIn
    <3>2. c \in Undone(p)
      BY <2>2, <3>1 DEF Undone
    <3>3. f[c] = x
      BY <2>2, <3>1, Contents
    <3> QED BY <3>1, <3>2, <3>3
  <2> QED BY <2>1, <2>2
<1> QED BY <1>1, <1>2, <1>3, <1>4

(* A child slot is always there.                                           *)
LEMMA GivenBackIs ==
    ASSUME MemInv, NEW p \in Ptable, call[p].op # "none", NEW f, f = Fill(space, call, kstack)
    PROVE  Mem!Real({f[c] : c \in Undone(p)}) = Mem!GivenBack(p)
<1>1. CallOk(p) /\ call[p].op \in {"none", "fork", "exec", "sbrk"}
  BY InvParts DEF Types, CallType
<1>2. ASSUME NEW x, x # Nil
      PROVE  x \in {f[c] : c \in Undone(p)} <=> x \in Mem!GivenBack(p)
  <2>1. \A c \in Undone(p) : c[1] \in {"space", "new", "mem", "kstack"}
    BY CellParts DEF Undone
  <2>2. /\ (\E c \in Undone(p) : c[1] = "new" /\ f[c] = x) <=> x \in Mem!freevm(call[p].new)
        /\ (\E c \in Undone(p) : c[1] = "mem" /\ f[c] = x) <=> x = call[p].mem
        /\ (\E c \in Undone(p) : c[1] = "space" /\ f[c] = x) <=>
             call[p].op = "sbrk" /\ x \in Mem!deallocuvm(space[p], call[p].to, size[p])
        /\ call[p].child \in Ptable =>
             ((\E c \in Undone(p) : c[1] = "kstack" /\ f[c] = x) <=>
                call[p].op = "fork" /\ x = kstack[call[p].child])
    BY <1>2, UndoneParts
  <2>3. call[p].op # "fork" => ~ \E c \in Undone(p) : c[1] = "kstack"
    BY DEF Undone
  <2>4. CASE call[p].op = "fork"
    <3>1. call[p].child \in Ptable
      BY <1>1, <2>4 DEF CallOk
    <3>2. Mem!GivenBack(p) = Mem!freevm(call[p].new) \cup Mem!Real({call[p].mem, kstack[call[p].child]})
      BY <2>4 DEF Mem!GivenBack, Mem!ForkUndo
    <3> QED BY <1>2, <2>1, <2>2, <2>4, <3>1, <3>2 DEF Mem!Real
  <2>5. CASE call[p].op = "exec"
    <3>1. Mem!GivenBack(p) = Mem!freevm(call[p].new) \cup Mem!Real({call[p].mem})
      BY <2>5 DEF Mem!GivenBack, Mem!ExecUndo
    <3> QED BY <1>2, <2>1, <2>2, <2>3, <2>5, <3>1 DEF Mem!Real
  <2>6. CASE call[p].op = "sbrk"
    <3>1. Mem!GivenBack(p) = Mem!deallocuvm(space[p], call[p].to, size[p]) \cup Mem!Real({call[p].mem})
      BY <2>6 DEF Mem!GivenBack, Mem!AllocuvmUndo
    <3>2. Mem!freevm(call[p].new) = {}
      <4>1. call[p].new = Mem!NoSpace
        BY <1>1, <2>6 DEF CallOk
      <4> QED BY <4>1 DEF Mem!freevm, Mem!Real, Mem!NoSpace
    <3> QED BY <1>2, <2>1, <2>2, <2>3, <2>6, <3>1, <3>2 DEF Mem!Real
  <2> QED BY <1>1, <2>4, <2>5, <2>6
<1>3. Nil \notin Mem!GivenBack(p)
  BY <1>1 DEF Mem!GivenBack, Mem!ForkUndo, Mem!ExecUndo, Mem!AllocuvmUndo, Mem!freevm, Mem!deallocuvm, Mem!Real
<1> QED BY <1>2, <1>3 DEF Mem!Real

(* A call that fails gives back all it took, and nothing else.             *)
LEMMA FailInv ==
    ASSUME Mem!Configuration, MemInv, NEW p \in Ptable, call[p].op # "none", call[p].pc # "old",
           call[p].op = "sbrk" => call[p].at < call[p].to, Mem!Fail(p)
    PROVE  MemInv'
<1>1. PICK f : f = Fill(space, call, kstack)
  OBVIOUS
<1>2. /\ CallOk(p) /\ call[p] \in CallType /\ call[p].op \in {"fork", "exec", "sbrk"}
      /\ call \in [Ptable -> CallType] /\ Apart
  BY InvParts DEF Types, CallType
<1>3. PICK b : b = call[p].child
  OBVIOUS
<1>4. /\ call'[p] = Mem!Idle /\ \A q \in Ptable \ {p} : call'[q] = call[q]
      /\ call' = [call EXCEPT ![p] = Mem!Idle]
  BY <1>2 DEF Mem!Fail
<1>5. UNCHANGED <<mparent, size, cr3, locked>>
  BY DEF Mem!Fail
<1>6. mstate[p] = "run" /\ cr3[p] # Nil
  BY InCall
<1>7. call[p].op = "fork" => /\ b \in Ptable /\ b # p /\ mstate[b] = "embryo"
                             /\ mstate'[b] = "unused" /\ kstack'[b] = Nil
                             /\ \A q \in Ptable \ {b} : mstate'[q] = mstate[q] /\ kstack'[q] = kstack[q]
  BY <1>2, <1>3, <1>6, InvParts DEF CallOk, Mem!Fail, Types
<1>8. call[p].op # "fork" => mstate' = mstate /\ kstack' = kstack
  BY DEF Mem!Fail
<1>9. PICK u : u = Mem!Unmapped(space[p], call[p].to, size[p])
  OBVIOUS
<1>10. space[p] \in [Mem!Places -> PageOrNil] /\ space \in [Ptable -> [Mem!Places -> PageOrNil]]
  BY InvParts DEF Types
<1>11. /\ u \in [Mem!Places -> PageOrNil] /\ u[Mem!Dir] = space[p][Mem!Dir]
       /\ Mem!Mapped(u) = Mem!Mapped(space[p]) \ Mem!Between(size[p], call[p].to)
       /\ \A l \in Mem!Places : u[l] =
             IF \E v \in Mem!Between(size[p], call[p].to) : l = Mem!Pte(v) THEN Nil ELSE space[p][l]
  BY <1>9, <1>10, UnmapFacts
<1>12. /\ call[p].op = "sbrk" => space'[p] = u
       /\ call[p].op # "sbrk" => space'[p] = space[p]
       /\ space' \in [Ptable -> [Mem!Places -> PageOrNil]]
       /\ \A q \in Ptable \ {p} : space'[q] = space[q]
  BY <1>9, <1>10, <1>11 DEF Mem!Fail, Mem!Grown
<1>13. Types'
  <2>1. call' \in [Ptable -> CallType]
    BY <1>2, <1>4, IdleFacts
  <2>2. mstate' \in [Ptable -> {"unused", "embryo", "run", "zombie"}] /\ kstack' \in [Ptable -> PageOrNil]
    <3>1. CASE call[p].op = "fork"
      <4>1. /\ mstate' = [mstate EXCEPT ![b] = "unused"]
            /\ kstack' = [kstack EXCEPT ![b] = Nil]
        BY <1>3, <3>1 DEF Mem!Fail
      <4> QED BY <4>1, InvParts DEF Types, PageOrNil
    <3>2. CASE call[p].op # "fork"
      BY <1>8, <3>2, InvParts DEF Types
    <3> QED BY <3>1, <3>2
  <2> QED BY <1>5, <1>12, <2>1, <2>2, InvParts DEF Types
<1>14. Owned'
  <2>1. free' = free \cup Mem!Real({f[c] : c \in Undone(p)})
    BY <1>1, GivenBackIs DEF Mem!Fail, Mem!kfree
  <2>2. ASSUME NEW e \in Cells
        PROVE  Fill(space', call', kstack')[e] = IF e \in Undone(p) THEN Nil ELSE f[e]
    <3>1. e[1] \in {"space", "new", "mem", "kstack"} /\ e[2] \in Ptable /\ e[3] \in Mem!Places
      BY CellParts
    <3>2. CASE e[1] = "new" \/ e[1] = "mem"
      <4>1. CASE e[2] = p
        <5>1. call'[e[2]].new[e[3]] = Nil /\ call'[e[2]].mem = Nil
          BY <1>4, <3>1, <4>1, IdleFacts
        <5>2. Fill(space', call', kstack')[e] = Nil
          BY <3>1, <3>2, <5>1, Contents
        <5>3. e \in Undone(p)
          BY <3>2, <4>1 DEF Undone
        <5> QED BY <5>2, <5>3
      <4>2. CASE e[2] # p
        <5>1. Fill(space', call', kstack')[e] = f[e]
          BY <1>1, <1>4, <3>1, <3>2, <4>2, SameFill
        <5>2. e \notin Undone(p)
          BY <3>2, <4>2 DEF Undone
        <5> QED BY <5>1, <5>2
      <4> QED BY <4>1, <4>2
    <3>3. CASE e[1] = "kstack"
      <4>1. CASE call[p].op = "fork" /\ e[2] = b /\ e[3] = Mem!Dir
        <5>1. Fill(space', call', kstack')[e] = Nil
          BY <1>7, <3>3, <4>1, Contents
        <5>2. e \in Undone(p)
          BY <1>3, <3>3, <4>1 DEF Undone
        <5> QED BY <5>1, <5>2
      <4>2. CASE ~(call[p].op = "fork" /\ e[2] = b /\ e[3] = Mem!Dir)
        <5>1. e[3] = Mem!Dir => kstack'[e[2]] = kstack[e[2]]
          BY <1>7, <1>8, <3>1, <4>2
        <5>2. Fill(space', call', kstack')[e] = f[e]
          BY <1>1, <3>3, <5>1, SameFill
        <5>3. e \notin Undone(p)
          BY <1>3, <3>3, <4>2 DEF Undone
        <5> QED BY <5>2, <5>3
      <4> QED BY <4>1, <4>2
    <3>4. CASE e[1] = "space"
      <4>1. f[e] = space[e[2]][e[3]]
        BY <1>1, <3>4, Contents
      <4>2. Fill(space', call', kstack')[e] = space'[e[2]][e[3]]
        BY <3>4, Contents
      <4>3. e \in Undone(p) <=> /\ call[p].op = "sbrk" /\ e[2] = p
                                /\ \E v \in Mem!Between(size[p], call[p].to) : e[3] = Mem!Pte(v)
        BY <3>4 DEF Undone
      <4>4. CASE call[p].op = "sbrk" /\ e[2] = p
        BY <1>11, <1>12, <3>1, <4>1, <4>2, <4>3, <4>4
      <4>5. CASE ~(call[p].op = "sbrk" /\ e[2] = p)
        BY <1>12, <3>1, <4>1, <4>2, <4>3, <4>5
      <4> QED BY <4>4, <4>5
    <3> QED BY <3>1, <3>2, <3>3, <3>4
  <2>3. Undone(p) \in SUBSET Cells
    BY DEF Undone
  <2> QED BY <1>1, <1>13, <2>1, <2>2, <2>3, InvParts, GiveStep
<1>15. ASSUME NEW q \in Ptable, q # p, call[q].op = "fork", call[p].op = "fork"
       PROVE  call[q].child # b /\ call[q].child \in Ptable
  <2>1. CallOk(q)
    BY InvParts
  <2> QED BY <1>2, <1>3, <1>15, <2>1 DEF Apart, CallOk
<1>16. ASSUME NEW q \in Ptable PROVE SlotOk(q)'
  <2>1. SlotOk(q)
    BY InvParts
  <2>2. CASE q = p
    BY <2>1, <2>2, <1>4, <1>5, <1>6, <1>7, <1>8, <1>11, <1>12 DEF SlotOk
  <2>3. CASE call[p].op = "fork" /\ q = b
    BY <2>1, <2>3, <1>4, <1>5, <1>7, <1>12 DEF SlotOk
  <2>4. CASE q # p /\ ~(call[p].op = "fork" /\ q = b)
    BY <2>1, <2>4, <1>4, <1>5, <1>7, <1>8, <1>12, SlotKept
  <2> QED BY <2>2, <2>3, <2>4
<1>17. ASSUME NEW q \in Ptable PROVE CallOk(q)'
  <2>1. CallOk(q)
    BY InvParts
  <2>2. CASE q = p
    BY <2>2, <1>4, IdleFacts DEF CallOk
  <2>3. CASE q # p
    <3>1. call[q].op = "fork" => /\ mstate'[call[q].child] = mstate[call[q].child]
                                 /\ kstack'[call[q].child] = kstack[call[q].child]
      BY <1>7, <1>8, <1>15, <2>3
    <3>2. size'[q] = size[q] /\ space'[q] = space[q] /\ call'[q] = call[q]
      BY <2>3, <1>4, <1>5, <1>12
    <3> QED BY <2>1, <3>1, <3>2, CallKept
  <2> QED BY <2>2, <2>3
<1>18. ASSUME NEW q \in Ptable PROVE SizeOk(q)'
  <2>1. SizeOk(q)
    BY InvParts
  <2>2. CASE q = p
    <3>1. CASE call[p].op = "sbrk"
      <4>1. LoopOk(p) /\ size[p] <= call[p].at
        BY <1>2, <3>1 DEF CallOk
      <4>2. Mem!Mapped(space[p]) = Below(call[p].at)
        BY <3>1, <4>1 DEF LoopOk, Mem!Target, Mem!Grown
      <4>3. call[p].at \in Nat /\ call[p].to \in Nat /\ size[p] \in Nat
        BY <1>2, InvParts, UserPages DEF CallType, Types
      <4>4. \A v \in Mem!VPages : Addr(v) < call[p].at => Addr(v) < call[p].to
        BY <3>1, <4>3, UserPages, AddrFacts
      <4>5. Mem!Mapped(u) = Below(size[p])
        BY <4>1, <4>2, <4>3, <4>4, <1>11, BelowLeft
      <4>6. Mem!Mapped(space[p])' = Mem!Mapped(u) /\ Below(size[p])' = Below(size[p])
        BY <1>5, <1>12, <3>1 DEF Mem!Mapped, Below
      <4> QED BY <2>2, <4>5, <4>6 DEF SizeOk
    <3>2. CASE call[p].op # "sbrk"
      <4>1. Mem!Mapped(space[p])' = Mem!Mapped(space[p]) /\ Below(size[p])' = Below(size[p])
        BY <1>5, <1>12, <3>2 DEF Mem!Mapped, Below
      <4> QED BY <2>1, <2>2, <3>2, <4>1, <1>6 DEF SizeOk
    <3> QED BY <3>1, <3>2
  <2>3. CASE call[p].op = "fork" /\ q = b
    BY <2>3, <1>7 DEF SizeOk
  <2>4. CASE q # p /\ ~(call[p].op = "fork" /\ q = b)
    BY <2>1, <2>4, <1>4, <1>5, <1>7, <1>8, <1>12, SizeKept
  <2> QED BY <2>2, <2>3, <2>4
<1>19. Apart'
  BY <1>2, <1>4, IdleFacts DEF Apart
<1>20. LockOk'
  BY <1>5, <1>7, <1>8, InvParts DEF LockOk, Types
<1> QED BY <1>13, <1>14, <1>16, <1>17, <1>18, <1>19, <1>20 DEF MemInv, EachOk

(* kalloc.                                                                 *)
LEMMA Kalloc ==
    ASSUME Mem!Configuration, MemInv
    PROVE  Mem!kalloc = Nil \/ Mem!kalloc \in free
<1>1. free \in SUBSET Frames
  BY DEF MemInv, Owned, OwnedBy
<1> QED BY <1>1 DEF Mem!kalloc, Mem!Configuration

(* exec meets a bad program.                                               *)
LEMMA BadInv ==
    ASSUME Mem!Configuration, MemInv, NEW p \in Ptable, Mem!bad(p)
    PROVE  MemInv'
  BY FailInv DEF Mem!bad

-----------------------------------------------------------------------------
(* The steps with a kalloc.                                                 *)

(* allocproc takes a stack for the child.                                  *)
LEMMA AllocprocInv ==
    ASSUME Mem!Configuration, MemInv, NEW p \in Ptable, Mem!allocproc(p)
    PROVE  MemInv'
<1>1. call[p].op = "fork" /\ call[p].pc = "kstack"
  BY DEF Mem!allocproc
<1>2. CASE Mem!kalloc = Nil
  <2>1. Mem!Fail(p)
    BY <1>2 DEF Mem!allocproc, Mem!With
  <2> QED BY <1>1, <2>1, FailInv
<1>3. CASE Mem!kalloc # Nil
  <2>1. PICK x : x = Mem!kalloc
    OBVIOUS
  <2>2. PICK b : b = call[p].child
    OBVIOUS
  <2>3. /\ free' = free \ {x} /\ kstack' = [kstack EXCEPT ![b] = x]
        /\ call' = [call EXCEPT ![p].pc = "dir"]
        /\ UNCHANGED <<mstate, mparent, space, size, cr3, locked>>
    BY <1>3, <2>1, <2>2 DEF Mem!allocproc, Mem!With
  <2>4. x \in free /\ x \in Frames /\ x # Nil
    BY <1>3, <2>1, Kalloc, InvParts DEF Owned, OwnedBy
  <2>5. CallOk(p) /\ call[p] \in CallType /\ call \in [Ptable -> CallType]
    BY InvParts DEF Types
  <2>6. /\ b \in Ptable /\ mstate[b] = "embryo" /\ kstack[b] = Nil /\ call[p].at = 0
        /\ call[p].new = Mem!NoSpace /\ call[p].mem = Nil /\ call[p].to = size[p]
    BY <1>1, <2>2, <2>5 DEF CallOk
  <2>7. kstack'[b] = x /\ \A q \in Ptable \ {b} : kstack'[q] = kstack[q]
    BY <2>3, <2>6, InvParts DEF Types
  <2>8. PICK c : c = [call[p] EXCEPT !.pc = "dir"]
    OBVIOUS
  <2>9. /\ c \in CallType /\ c.op = "fork" /\ c.child = b /\ c.pc = "dir" /\ c.at = 0
        /\ c.new = Mem!NoSpace /\ c.mem = Nil /\ c.to = size[p]
    BY <1>1, <2>2, <2>5, <2>6, <2>8 DEF CallType
  <2>10. call' = [call EXCEPT ![p] = c] /\ call'[p] = c /\ \A q \in Ptable \ {p} : call'[q] = call[q]
    BY <2>3, <2>5, <2>8
  <2>11. Types'
    BY <2>3, <2>4, <2>6, <2>9, <2>10, InvParts DEF Types, PageOrNil
  <2>12. Owned'
    <3>1. PICK d \in Cells : d[1] = "kstack" /\ d[2] = b /\ d[3] = Mem!Dir
      BY <2>6, CellAt, PlaceIn
    <3>2. Fill(space, call, kstack)[d] = Nil
      BY <2>6, <3>1, Contents
    <3>3. ASSUME NEW e \in Cells
          PROVE  Fill(space', call', kstack')[e] =
                    IF e = d THEN x ELSE Fill(space, call, kstack)[e]
      <4>1. CASE e = d
        BY <2>7, <3>1, <4>1, Contents
      <4>2. CASE e # d
        <5>1. e[2] \in Ptable
          BY CellParts
        <5>2. ~(e[1] = "kstack" /\ e[2] = b /\ e[3] = Mem!Dir)
          BY <3>1, <4>2, SameCell
        <5>3. e[1] = "kstack" => (e[3] = Mem!Dir => kstack'[e[2]] = kstack[e[2]])
          BY <2>7, <5>1, <5>2
        <5>4. call'[e[2]].new = call[e[2]].new /\ call'[e[2]].mem = call[e[2]].mem
          BY <2>6, <2>9, <2>10, <5>1
        <5>5. space' = space
          BY <2>3
        <5>6. Fill(space', call', kstack')[e] = Fill(space, call, kstack)[e]
          BY <5>3, <5>4, <5>5, SameFill
        <5> QED BY <4>2, <5>6
      <4> QED BY <4>1, <4>2
    <3> QED BY <2>3, <2>4, <2>11, <3>2, <3>3, InvParts, TakeStep
  <2>13. ASSUME NEW q \in Ptable PROVE SlotOk(q)'
    <3>1. SlotOk(q)
      BY InvParts
    <3>2. CASE q = b
      <4>1. call[b] = Mem!Idle
        BY <2>6, <3>1, <3>2 DEF SlotOk
      <4>2. b # p
        BY <1>1, <4>1, IdleFacts
      <4> QED BY <3>1, <3>2, <4>1, <4>2, <2>3, <2>6, <2>7, <2>10 DEF SlotOk
    <3>3. CASE q = p /\ q # b
      BY <3>1, <3>3, <1>1, <2>3, <2>7, InCall DEF SlotOk
    <3>4. CASE q # p /\ q # b
      BY <3>1, <3>4, <2>3, <2>7, <2>10, SlotKept
    <3> QED BY <3>2, <3>3, <3>4
  <2>14. ASSUME NEW q \in Ptable PROVE CallOk(q)'
    <3>1. CallOk(q)
      BY InvParts
    <3>2. CASE q = p
      <4>1. Mem!Mapped(c.new) = {} /\ c.new[Mem!Dir] = Nil /\ \A i \in 1 .. KTables : c.new[Mem!Kern(i)] = Nil
        BY <2>9, NothingMapped, PlaceIn DEF Mem!NoSpace
      <4>2. Mem!Mapped(call[p].new)' = Mem!Mapped(c.new)
        BY <2>10 DEF Mem!Mapped
      <4>3. 0 \in 0 .. KTables
        BY DEF Mem!Configuration
      <4> QED BY <3>2, <4>1, <4>2, <4>3, <2>3, <2>4, <2>6, <2>7, <2>9, <2>10 DEF CallOk
    <3>3. CASE q # p
      <4>1. call[q].op = "fork" => call[q].child \in Ptable \ {b}
        BY <1>1, <2>2, <3>1, <3>3, InvParts DEF Apart, CallOk
      <4> QED BY <3>1, <3>3, <4>1, <2>3, <2>7, <2>10, CallKept
    <3> QED BY <3>2, <3>3
  <2>15. ASSUME NEW q \in Ptable PROVE SizeOk(q)'
    <3>1. SizeOk(q) /\ call'[q].op = call[q].op
      BY <1>1, <2>9, <2>10, InvParts
    <3> QED BY <3>1, <2>3, SizeKept
  <2>16. Apart' /\ LockOk'
    BY <1>1, <2>2, <2>3, <2>9, <2>10, InvParts DEF Apart, LockOk
  <2> QED BY <2>11, <2>12, <2>13, <2>14, <2>15, <2>16 DEF MemInv, EachOk
<1> QED BY <1>2, <1>3

(* setupkvm takes the directory or a kernel table.                         *)
LEMMA SetupkvmInv ==
    ASSUME Mem!Configuration, MemInv, NEW p \in Ptable, Mem!setupkvm(p)
    PROVE  MemInv'
<1>1. call[p].pc = "dir"
  BY DEF Mem!setupkvm
<1>2. CallOk(p) /\ call[p] \in CallType /\ call \in [Ptable -> CallType]
  BY InvParts DEF Types
<1>3. call[p].op \in {"fork", "exec"}
  BY <1>1, <1>2, IdleFacts DEF CallOk, CallType
<1>4. CASE Mem!kalloc = Nil
  <2>1. Mem!Fail(p)
    BY <1>4 DEF Mem!setupkvm, Mem!With
  <2> QED BY <1>1, <1>3, <2>1, FailInv
<1>5. CASE Mem!kalloc # Nil
  <2>1. PICK x : x = Mem!kalloc
    OBVIOUS
  <2>2. PICK a : a = call[p].at
    OBVIOUS
  <2>3. PICK l : l = IF a = 0 THEN Mem!Dir ELSE Mem!Kern(a)
    OBVIOUS
  <2>4. PICK n : n = [call[p].new EXCEPT ![l] = x]
    OBVIOUS
  <2>5. PICK d : d = IF a = KTables THEN [call[p] EXCEPT !.pc = "page", !.at = 0]
                     ELSE [call[p] EXCEPT !.at = a + 1]
    OBVIOUS
  <2>6. ~Mem!Grown(p)
    BY <1>3 DEF Mem!Grown
  <2>7. free' = free \ {x} /\ Mem!GoOn(p, n, d) /\ UNCHANGED <<mstate, mparent, kstack, size, cr3, locked>>
    BY <1>5, <2>1, <2>2, <2>3, <2>4, <2>5 DEF Mem!setupkvm, Mem!With
  <2>8. PICK c : c = [d EXCEPT !.new = n]
    OBVIOUS
  <2>9. space' = space /\ call' = [call EXCEPT ![p] = c]
    BY <2>6, <2>7, <2>8 DEF Mem!GoOn
  <2>10. x \in free /\ x \in Frames /\ x # Nil
    BY <1>5, <2>1, Kalloc, InvParts DEF Owned, OwnedBy
  <2>11. /\ a \in 0 .. KTables /\ KTables \in Nat /\ Mem!Mapped(call[p].new) = {}
         /\ (a = 0 <=> call[p].new[Mem!Dir] = Nil) /\ call[p].mem = Nil
         /\ \A i \in 1 .. KTables : i >= a => call[p].new[Mem!Kern(i)] = Nil
    BY <1>1, <1>2, <2>2 DEF CallOk, Mem!Configuration
  <2>12. l \in Mem!Places /\ call[p].new[l] = Nil /\ \A v : l # Mem!Pte(v)
    <3>1. CASE a = 0
      BY <3>1, <2>3, <2>11, PlaceIn, PlaceApart
    <3>2. CASE a # 0
      <4>1. a \in 1 .. KTables
        BY <3>2, <2>11
      <4> QED BY <3>2, <4>1, <2>3, <2>11, PlaceIn, PlaceApart
    <3> QED BY <3>1, <3>2
  <2>13. call[p].new \in [Mem!Places -> PageOrNil] /\ call[p].at \in Nat
    BY <1>2 DEF CallType
  <2>14. n \in [Mem!Places -> PageOrNil] /\ n[l] = x /\ \A m \in Mem!Places : m # l => n[m] = call[p].new[m]
    BY <2>4, <2>10, <2>12, <2>13 DEF PageOrNil
  <2>15. /\ d \in CallType /\ d.op = call[p].op /\ d.child = call[p].child /\ d.mem = Nil
         /\ d.to = call[p].to /\ d.pc = (IF a = KTables THEN "page" ELSE "dir")
         /\ d.at = (IF a = KTables THEN 0 ELSE a + 1)
    <3>1. a \in Nat /\ a + 1 \in Nat
      BY <2>2, <2>13
    <3>2. CASE a = KTables
      BY <1>1, <1>2, <2>5, <2>11, <3>2 DEF CallType
    <3>3. CASE a # KTables
      BY <1>1, <1>2, <2>5, <2>11, <3>1, <3>3 DEF CallType
    <3> QED BY <3>2, <3>3
  <2>16. /\ c \in CallType /\ c.op = call[p].op /\ c.child = call[p].child /\ c.mem = Nil
         /\ c.to = call[p].to /\ c.pc = (IF a = KTables THEN "page" ELSE "dir")
         /\ c.at = (IF a = KTables THEN 0 ELSE a + 1) /\ c.new = n
    BY <2>8, <2>14, <2>15 DEF CallType
  <2>17. call'[p] = c /\ \A q \in Ptable \ {p} : call'[q] = call[q]
    BY <1>2, <2>9
  <2>18. Types'
    BY <2>7, <2>9, <2>16, InvParts DEF Types
  <2>19. Owned'
    <3>1. PICK t \in Cells : t[1] = "new" /\ t[2] = p /\ t[3] = l
      BY <2>12, CellAt
    <3>2. Fill(space, call, kstack)[t] = Nil
      BY <2>12, <3>1, Contents
    <3>3. ASSUME NEW e \in Cells
          PROVE  Fill(space', call', kstack')[e] =
                    IF e = t THEN x ELSE Fill(space, call, kstack)[e]
      <4>1. CASE e = t
        <5>1. Fill(space', call', kstack')[e] = call'[p].new[l]
          BY <3>1, <4>1, Contents
        <5> QED BY <4>1, <5>1, <2>14, <2>16, <2>17
      <4>2. CASE e # t
        <5>1. e[2] \in Ptable /\ e[3] \in Mem!Places
          BY CellParts
        <5>2. ~(e[1] = "new" /\ e[2] = p /\ e[3] = l)
          BY <3>1, <4>2, SameCell
        <5>3. e[1] = "new" => call'[e[2]].new[e[3]] = call[e[2]].new[e[3]]
          BY <2>14, <2>16, <2>17, <5>1, <5>2
        <5>4. call'[e[2]].mem = call[e[2]].mem
          BY <2>11, <2>16, <2>17, <5>1
        <5>5. space' = space /\ kstack' = kstack
          BY <2>7, <2>9
        <5>6. Fill(space', call', kstack')[e] = Fill(space, call, kstack)[e]
          BY <5>3, <5>4, <5>5, SameFill
        <5> QED BY <4>2, <5>6
      <4> QED BY <4>1, <4>2
    <3> QED BY <2>7, <2>10, <2>18, <3>2, <3>3, InvParts, TakeStep
  <2>20. Mem!Mapped(n) = {}
    BY <2>11, <2>12, <2>14, PlaceIn DEF Mem!Mapped
  <2>21. n[Mem!Dir] # Nil
    BY <2>3, <2>10, <2>11, <2>14, PlaceIn
  <2>22. CallOk(p)'
    <3>1. /\ mstate' = mstate /\ size' = size /\ kstack' = kstack
      BY <2>7
    <3>2. Mem!Mapped(call[p].new)' = {} /\ Mem!Mapped(Mem!Target(p))' = {}
      BY <1>3, <2>16, <2>17, <2>20 DEF Mem!Mapped, Mem!Target, Mem!Grown
    <3>3. CASE a = KTables
      <4>1. c.to \in Nat /\ c.to < Mem!KERNBASE
        BY <1>2, <1>3, <2>16, InvParts, UserPages DEF CallOk, CallType, Types
      <4>2. Aligned(0) /\ Below(0) = {}
        <5>1. \A v \in Mem!VPages : ~(Addr(v) < 0)
          BY UserPages, AddrFacts
        <5>2. 0 \in 0 .. 0
          OBVIOUS
        <5> QED BY <5>1, <5>2, AddrSmall DEF Aligned, Below
      <4>3. 0 < c.to + PageSize
        BY <4>1, AddrFacts
      <4>4. LoopOk(p)'
        BY <2>16, <2>17, <3>2, <3>3, <4>1, <4>2, <4>3 DEF LoopOk
      <4> QED BY <1>1, <1>2, <1>3, <2>16, <2>17, <2>21, <3>1, <3>3, <4>4 DEF CallOk
    <3>4. CASE a # KTables
      <4>1. a + 1 \in 0 .. KTables /\ a + 1 # 0
        BY <2>11, <3>4
      <4>2. ASSUME NEW i \in 1 .. KTables, i >= a + 1 PROVE n[Mem!Kern(i)] = Nil
        <5>1. Mem!Kern(i) \in Mem!Places /\ Mem!Kern(i) # l
          BY <4>2, <2>3, <2>11, PlaceIn, PlaceApart
        <5>2. i >= a
          BY <4>2, <2>11
        <5> QED BY <5>1, <5>2, <2>11, <2>14
      <4> QED BY <1>1, <1>2, <1>3, <2>16, <2>17, <2>21, <3>1, <3>2, <3>4, <4>1, <4>2 DEF CallOk
    <3> QED BY <3>3, <3>4
  <2>23. SizeOk(p)'
    BY <2>7, <2>9, <2>16, <2>17, InvParts, SizeKept
  <2>24. c # Mem!Idle
    BY <1>3, <2>16, IdleFacts
  <2> QED BY <1>3, <2>7, <2>9, <2>16, <2>19, <2>22, <2>23, <2>24, InCall, CallStep
<1> QED BY <1>4, <1>5

(* allocuvm and copyuvm take a page.                                       *)
LEMMA PageInv ==
    ASSUME Mem!Configuration, MemInv, NEW p \in Ptable, Mem!page(p)
    PROVE  MemInv'
<1>1. call[p].pc = "page" /\ call[p].mem = Nil /\ call[p].at < call[p].to
  BY DEF Mem!page, Mem!Looping
<1>2. CallOk(p) /\ call[p] \in CallType /\ call \in [Ptable -> CallType]
  BY InvParts DEF Types
<1>3. call[p].op \in {"fork", "exec", "sbrk"}
  BY <1>1, <1>2, IdleFacts DEF CallOk, CallType
<1>4. CASE Mem!kalloc = Nil
  <2>1. Mem!Fail(p)
    BY <1>4 DEF Mem!page, Mem!With
  <2> QED BY <1>1, <1>3, <2>1, FailInv
<1>5. CASE Mem!kalloc # Nil
  <2>1. PICK x : x = Mem!kalloc
    OBVIOUS
  <2>2. PICK c : c = [call[p] EXCEPT !.mem = x]
    OBVIOUS
  <2>3. /\ free' = free \ {x} /\ call' = [call EXCEPT ![p].mem = x]
        /\ UNCHANGED <<mstate, mparent, kstack, space, size, cr3, locked>>
    BY <1>5, <2>1 DEF Mem!page, Mem!With
  <2>4. x \in free /\ x \in Frames /\ x # Nil
    BY <1>5, <2>1, Kalloc, InvParts DEF Owned, OwnedBy
  <2>5. /\ c \in CallType /\ c.op = call[p].op /\ c.child = call[p].child /\ c.mem = x
        /\ c.to = call[p].to /\ c.pc = call[p].pc /\ c.at = call[p].at /\ c.new = call[p].new
    BY <1>2, <2>2, <2>4 DEF CallType, PageOrNil
  <2>6. call' = [call EXCEPT ![p] = c] /\ call'[p] = c /\ \A q \in Ptable \ {p} : call'[q] = call[q]
    BY <1>2, <2>2, <2>3
  <2>7. Types'
    BY <2>3, <2>5, <2>6, InvParts DEF Types
  <2>8. Owned'
    <3>1. PICK t \in Cells : t[1] = "mem" /\ t[2] = p /\ t[3] = Mem!Dir
      BY CellAt, PlaceIn
    <3>2. Fill(space, call, kstack)[t] = Nil
      BY <1>1, <3>1, Contents
    <3>3. ASSUME NEW e \in Cells
          PROVE  Fill(space', call', kstack')[e] =
                    IF e = t THEN x ELSE Fill(space, call, kstack)[e]
      <4>1. CASE e = t
        <5>1. Fill(space', call', kstack')[e] = call'[p].mem
          BY <3>1, <4>1, Contents
        <5> QED BY <4>1, <5>1, <2>5, <2>6
      <4>2. CASE e # t
        <5>1. e[2] \in Ptable /\ e[3] \in Mem!Places
          BY CellParts
        <5>2. ~(e[1] = "mem" /\ e[2] = p /\ e[3] = Mem!Dir)
          BY <3>1, <4>2, SameCell
        <5>3. e[1] = "mem" => (e[3] = Mem!Dir => call'[e[2]].mem = call[e[2]].mem)
          BY <2>6, <5>1, <5>2
        <5>4. call'[e[2]].new = call[e[2]].new
          BY <2>5, <2>6, <5>1
        <5>5. space' = space /\ kstack' = kstack
          BY <2>3
        <5>6. Fill(space', call', kstack')[e] = Fill(space, call, kstack)[e]
          BY <5>3, <5>4, <5>5, SameFill
        <5> QED BY <4>2, <5>6
      <4> QED BY <4>1, <4>2
    <3> QED BY <2>3, <2>4, <2>7, <3>2, <3>3, InvParts, TakeStep
  <2>9. CallOk(p)'
    <3>1. /\ mstate' = mstate /\ size' = size /\ kstack' = kstack /\ space' = space
      BY <2>3
    <3>2. Mem!Mapped(Mem!Target(p))' = Mem!Mapped(Mem!Target(p))
      BY <2>5, <2>6, <3>1 DEF Mem!Mapped, Mem!Target, Mem!Grown
    <3>3. LoopOk(p)'
      BY <1>1, <1>2, <2>5, <2>6, <3>2 DEF LoopOk, CallOk
    <3> QED BY <1>1, <1>2, <1>3, <2>5, <2>6, <3>1, <3>3 DEF CallOk
  <2>10. SizeOk(p)'
    BY <2>3, <2>5, <2>6, InvParts, SizeKept
  <2>11. c # Mem!Idle
    BY <1>3, <2>5, IdleFacts
  <2> QED BY <1>3, <2>3, <2>5, <2>6, <2>8, <2>9, <2>10, <2>11, InCall, CallStep
<1> QED BY <1>4, <1>5

-----------------------------------------------------------------------------
(* mappages.                                                                *)

(* The page table of a user page.                                          *)
LEMMA TableOf ==
    ASSUME Mem!Configuration, NEW v \in Mem!VPages
    PROVE  Mem!PDX(v) \in 0 .. NPDENTRIES - 1
<1>1. PICK n \in Nat, m \in Nat : n = NPTENTRIES /\ m = NPDENTRIES /\ n > 0 /\ m > 0
  BY DEF Mem!Configuration
<1>2. v \in Nat /\ v < m * n
  BY <1>1 DEF Mem!VPages
<1>3. PICK d \in Int : d = v \div n
  BY <1>1, <1>2
<1>4. d \in Nat /\ d * n <= v
  BY <1>1, <1>2, <1>3
<1>5. d < m
  <2>1. ASSUME m <= d PROVE FALSE
    <3>1. PICK k \in Nat : d = m + k
      BY <1>1, <1>4, <2>1
    <3>2. d * n = m * n + k * n /\ k * n \in Nat
      BY <1>1, <3>1
    <3> QED BY <1>1, <1>2, <1>4, <3>2
  <2> QED BY <1>1, <1>4, <2>1
<1> QED BY <1>1, <1>3, <1>4, <1>5 DEF Mem!PDX

(* The state with address space T in place of the target of a call.        *)
SpaceWith(p, T) == IF Mem!Grown(p) THEN [space EXCEPT ![p] = T] ELSE space
CallWith(p, T) == IF Mem!Grown(p) THEN call ELSE [call EXCEPT ![p].new = T]
Kind(p) == IF Mem!Grown(p) THEN "space" ELSE "new"

(* The target of a call is the address space in the cells of its kind.     *)
LEMMA WithTarget ==
    ASSUME Types, NEW p \in Ptable, NEW T \in [Mem!Places -> PageOrNil], NEW e \in Cells
    PROVE  /\ SpaceWith(p, T) \in [Ptable -> [Mem!Places -> PageOrNil]]
           /\ CallWith(p, T) \in [Ptable -> CallType]
           /\ Mem!Target(p) \in [Mem!Places -> PageOrNil]
           /\ Fill(SpaceWith(p, T), CallWith(p, T), kstack)[e] =
                 IF e[1] = Kind(p) /\ e[2] = p THEN T[e[3]] ELSE Fill(space, call, kstack)[e]
           /\ e[1] = Kind(p) /\ e[2] = p => Fill(space, call, kstack)[e] = Mem!Target(p)[e[3]]
<1>1. space \in [Ptable -> [Mem!Places -> PageOrNil]] /\ call \in [Ptable -> CallType]
  BY DEF Types
<1>2. e[1] \in {"space", "new", "mem", "kstack"} /\ e[2] \in Ptable /\ e[3] \in Mem!Places
  BY CellParts
<1>3. CASE Mem!Grown(p)
  <2>1. SpaceWith(p, T) = [space EXCEPT ![p] = T] /\ CallWith(p, T) = call
        /\ Mem!Target(p) = space[p] /\ Kind(p) = "space"
    BY <1>3 DEF SpaceWith, CallWith, Mem!Target, Kind
  <2>2. PICK sp : sp = [space EXCEPT ![p] = T]
    OBVIOUS
  <2>3. sp \in [Ptable -> [Mem!Places -> PageOrNil]] /\ sp[p] = T /\ \A q \in Ptable \ {p} : sp[q] = space[q]
    BY <1>1, <2>2
  <2>4. Fill(sp, call, kstack)[e] =
            IF e[1] = "space" /\ e[2] = p THEN T[e[3]] ELSE Fill(space, call, kstack)[e]
    BY <1>2, <2>3, Contents
  <2>5. e[1] = "space" /\ e[2] = p => Fill(space, call, kstack)[e] = space[p][e[3]]
    BY Contents
  <2> QED BY <1>1, <2>1, <2>2, <2>3, <2>4, <2>5
<1>4. CASE ~Mem!Grown(p)
  <2>1. SpaceWith(p, T) = space /\ CallWith(p, T) = [call EXCEPT ![p].new = T]
        /\ Mem!Target(p) = call[p].new /\ Kind(p) = "new"
    BY <1>4 DEF SpaceWith, CallWith, Mem!Target, Kind
  <2>2. PICK cl : cl = [call EXCEPT ![p].new = T]
    OBVIOUS
  <2>3. cl \in [Ptable -> CallType] /\ cl[p].new = T /\ cl[p].mem = call[p].mem
        /\ \A q \in Ptable \ {p} : cl[q] = call[q]
    BY <1>1, <2>2 DEF CallType
  <2>4. Fill(space, cl, kstack)[e] =
            IF e[1] = "new" /\ e[2] = p THEN T[e[3]] ELSE Fill(space, call, kstack)[e]
    <3>1. CASE e[2] = p
      BY <1>2, <2>3, <3>1, Contents
    <3>2. CASE e[2] # p
      BY <1>2, <2>3, <3>2, Contents
    <3> QED BY <3>1, <3>2
  <2>5. e[1] = "new" /\ e[2] = p => Fill(space, call, kstack)[e] = call[p].new[e[3]]
    BY Contents
  <2>6. call[p].new \in [Mem!Places -> PageOrNil]
    BY <1>1 DEF CallType
  <2> QED BY <1>1, <2>1, <2>2, <2>3, <2>4, <2>5, <2>6
<1> QED BY <1>3, <1>4

(* The address of a page is aligned.                                       *)
LEMMA AlignedAddr ==
    ASSUME Mem!Configuration, NEW k \in Nat
    PROVE  Aligned(Addr(k)) /\ Addr(k) \in Nat
<1>1. Addr(k) \in Nat /\ PageSize \in Nat /\ PageSize > 0
  BY AddrFacts
<1>2. PICK d \in Nat : PageSize = 1 + d
  BY <1>1
<1>3. Addr(k) = k + k * d /\ k * d \in Nat
  BY <1>2 DEF Addr
<1>4. k \in 0 .. Addr(k)
  BY <1>1, <1>3
<1> QED BY <1>1, <1>4 DEF Aligned

(* One page more.                                                          *)
LEMMA BelowNext ==
    ASSUME Mem!Configuration, NEW v \in Mem!VPages
    PROVE  Below(Addr(v) + PageSize) = Below(Addr(v)) \cup {v}
<1>1. v \in Nat /\ Addr(v) \in Nat /\ PageSize \in Nat /\ PageSize > 0
  BY UserPages, AddrFacts
<1>2. ASSUME NEW u \in Mem!VPages PROVE Addr(u) < Addr(v) + PageSize <=> Addr(u) < Addr(v) \/ u = v
  <2>1. u \in Nat /\ Addr(u) \in Nat
    BY UserPages, AddrFacts
  <2>2. CASE u < v
    BY <1>1, <2>1, <2>2, AddrFacts
  <2>3. CASE u = v
    BY <1>1, <2>3
  <2>4. CASE v < u
    <3>1. Addr(v) + PageSize <= Addr(u)
      BY <1>1, <2>1, <2>4, AddrFacts
    <3> QED BY <1>1, <2>1, <2>4, <3>1
  <2> QED BY <1>1, <2>1, <2>2, <2>3, <2>4
<1> QED BY <1>2 DEF Below

(* The page in mem is installed in the target.                             *)
LEMMA InstallInv ==
    ASSUME Mem!Configuration, MemInv, NEW p \in Ptable, call[p].pc = "page", call[p].mem # Nil,
           NEW v \in Mem!VPages, call[p].at = Addr(v), NEW T \in [Mem!Places -> PageOrNil],
           T[Mem!Dir] = Mem!Target(p)[Mem!Dir], \A u \in Mem!VPages : T[Mem!Pte(u)] = Mem!Target(p)[Mem!Pte(u)],
           OwnedBy(free', Fill(SpaceWith(p, T), CallWith(p, T), kstack)),
           Mem!GoOn(p, Mem!Installed(T, v, call[p].mem), [call[p] EXCEPT !.mem = Nil, !.at = @ + PageSize]),
           UNCHANGED <<mstate, mparent, kstack, size, cr3, locked>>
    PROVE  MemInv'
<1>1. CallOk(p) /\ call[p] \in CallType /\ call \in [Ptable -> CallType]
  BY InvParts DEF Types
<1>2. /\ call[p].op \in {"fork", "exec", "sbrk"} /\ LoopOk(p)
      /\ (call[p].op # "sbrk" => call[p].new[Mem!Dir] # Nil)
  BY <1>1, IdleFacts DEF CallOk, CallType
<1>3. PICK m : m = call[p].mem
  OBVIOUS
<1>4. m \in Frames /\ m # Nil /\ m \in PageOrNil
  BY <1>1, <1>3 DEF CallType, PageOrNil
<1>5. PICK T2 : T2 = Mem!Installed(T, v, m)
  OBVIOUS
<1>6. Mem!Pte(v) \in Mem!Places /\ Mem!Dir \in Mem!Places /\ Mem!Pte(v) # Mem!Dir
  BY PlaceIn, PlaceApart
<1>7. /\ T2 \in [Mem!Places -> PageOrNil] /\ T2[Mem!Pte(v)] = m
      /\ \A l \in Mem!Places : l # Mem!Pte(v) => T2[l] = T[l]
  BY <1>4, <1>5, <1>6 DEF Mem!Installed
<1>8. PICK n : n = [call[p] EXCEPT !.mem = Nil, !.at = call[p].at + PageSize]
  OBVIOUS
<1>9. PICK c : c = IF Mem!Grown(p) THEN n ELSE [n EXCEPT !.new = T2]
  OBVIOUS
<1>10. call' = [call EXCEPT ![p] = c] /\ space' = SpaceWith(p, T2)
  BY <1>3, <1>5, <1>8, <1>9 DEF Mem!GoOn, SpaceWith
<1>11. call[p].at \in Nat /\ PageSize \in Nat /\ PageSize > 0 /\ v \in Nat /\ call[p].to \in Nat
  BY <1>1, AddrFacts, UserPages DEF CallType
<1>12. /\ n \in CallType /\ n.op = call[p].op /\ n.pc = call[p].pc /\ n.child = call[p].child
       /\ n.to = call[p].to /\ n.mem = Nil /\ n.at = call[p].at + PageSize /\ n.new = call[p].new
  <2>1. PICK a \in Nat : a = call[p].at + PageSize
    BY <1>11
  <2>2. n = [call[p] EXCEPT !.mem = Nil, !.at = a] /\ Nil \in PageOrNil
    BY <1>8, <2>1 DEF PageOrNil
  <2> QED BY <1>1, <2>1, <2>2 DEF CallType
<1>13. /\ c \in CallType /\ c.op = call[p].op /\ c.pc = "page" /\ c.child = call[p].child
       /\ c.to = call[p].to /\ c.mem = Nil /\ c.at = call[p].at + PageSize
       /\ c.new = IF Mem!Grown(p) THEN call[p].new ELSE T2
  <2>1. CASE Mem!Grown(p)
    BY <2>1, <1>9, <1>12
  <2>2. CASE ~Mem!Grown(p)
    BY <2>2, <1>7, <1>9, <1>12 DEF CallType
  <2> QED BY <2>1, <2>2
<1>14. call'[p] = c /\ \A q \in Ptable \ {p} : call'[q] = call[q]
  BY <1>1, <1>10
<1>15. space' \in [Ptable -> [Mem!Places -> PageOrNil]] /\ \A q \in Ptable \ {p} : space'[q] = space[q]
  BY <1>7, <1>10, InvParts DEF SpaceWith, Types
<1>16. space'[p] = IF Mem!Grown(p) THEN T2 ELSE space[p]
  BY <1>10, InvParts DEF SpaceWith, Types
<1>17. Types'
  BY <1>10, <1>13, <1>15, InvParts DEF Types
<1>18. T[Mem!Pte(v)] = Nil
  <2>1. v \notin Below(Addr(v))
    BY <1>11, AddrFacts DEF Below
  <2>2. v \notin Mem!Mapped(Mem!Target(p))
    BY <1>2, <2>1 DEF LoopOk
  <2> QED BY <2>2 DEF Mem!Mapped
<1>19. Owned'
  <2>1. PICK f : f = Fill(SpaceWith(p, T), CallWith(p, T), kstack)
    OBVIOUS
  <2>2. PICK g : g = Fill(space', call', kstack')
    OBVIOUS
  <2>3. g \in [Cells -> PageOrNil] /\ OwnedBy(free', f)
    BY <1>17, <2>1, <2>2, FillType DEF Types
  <2>4. Kind(p) \in {"space", "new", "mem", "kstack"} /\ Kind(p) \in {"space", "new"}
    BY DEF Kind
  <2>5. PICK t \in Cells : t[1] = Kind(p) /\ t[2] = p /\ t[3] = Mem!Pte(v)
    BY <1>6, <2>4, CellAt
  <2>6. PICK r \in Cells : r[1] = "mem" /\ r[2] = p /\ r[3] = Mem!Dir
    BY <1>6, CellAt
  <2>7. r # t
    BY <2>4, <2>5, <2>6
  <2>8. PICK w : w = [e \in Cells |-> IF e = t THEN r ELSE IF e = r THEN t ELSE e]
    OBVIOUS
  <2>9. w \in [Cells -> Cells] /\ \A e \in Cells : w[w[e]] = e
    BY <2>5, <2>6, <2>7, <2>8
  <2>10. ASSUME NEW e \in Cells
         PROVE  f[e] = IF e[1] = Kind(p) /\ e[2] = p THEN T[e[3]] ELSE Fill(space, call, kstack)[e]
    BY <2>1, InvParts, WithTarget
  <2>11. ASSUME NEW e \in Cells, e[1] = Kind(p), e[2] = p
         PROVE  g[e] = T2[e[3]]
    <3>1. CASE Mem!Grown(p)
      <4>1. e[1] = "space" /\ space'[p] = T2
        BY <1>16, <2>11, <3>1 DEF Kind
      <4> QED BY <2>2, <2>11, <4>1, Contents
    <3>2. CASE ~Mem!Grown(p)
      <4>1. e[1] = "new" /\ call'[p].new = T2
        BY <1>13, <1>14, <2>11, <3>2 DEF Kind
      <4> QED BY <2>2, <2>11, <4>1, Contents
    <3> QED BY <3>1, <3>2
  <2>12. ASSUME NEW e \in Cells, ~(e[1] = Kind(p) /\ e[2] = p), e # r
         PROVE  g[e] = Fill(space, call, kstack)[e]
    <3>1. e[1] \in {"space", "new", "mem", "kstack"} /\ e[2] \in Ptable /\ e[3] \in Mem!Places
      BY CellParts
    <3>2. ~(e[1] = "mem" /\ e[2] = p /\ e[3] = Mem!Dir)
      BY <2>6, <2>12, SameCell
    <3>3. e[1] = "space" => space'[e[2]] = space[e[2]]
      BY <1>15, <1>16, <2>12, <3>1 DEF Kind
    <3>4. e[1] = "new" => call'[e[2]].new = call[e[2]].new
      BY <1>13, <1>14, <2>12, <3>1 DEF Kind
    <3>5. e[1] = "mem" => (e[3] = Mem!Dir => call'[e[2]].mem = call[e[2]].mem)
      BY <1>14, <3>1, <3>2
    <3>6. kstack' = kstack
      OBVIOUS
    <3> QED BY <2>2, <3>3, <3>4, <3>5, <3>6, SameFill
  <2>13. g[r] = Nil
    <3>1. g[r] = call'[p].mem
      BY <2>2, <2>6, Contents
    <3> QED BY <3>1, <1>13, <1>14
  <2>14. f[r] = m
    <3>1. f[r] = Fill(space, call, kstack)[r]
      BY <2>4, <2>6, <2>10
    <3>2. Fill(space, call, kstack)[r] = call[p].mem
      BY <2>6, Contents
    <3> QED BY <3>1, <3>2, <1>3
  <2>15. ASSUME NEW e \in Cells PROVE g[e] = f[w[e]]
    <3>1. CASE e = r
      BY <1>18, <2>5, <2>6, <2>7, <2>8, <2>10, <2>13, <3>1
    <3>2. CASE e = t
      <4>1. g[e] = m
        BY <1>7, <2>5, <2>11, <3>2
      <4> QED BY <2>8, <2>14, <3>2, <4>1
    <3>3. CASE e # r /\ e # t
      <4>1. w[e] = e
        BY <2>8, <3>3
      <4>2. CASE e[1] = Kind(p) /\ e[2] = p
        <5>1. e[3] \in Mem!Places
          BY CellParts
        <5>2. e[3] # Mem!Pte(v)
          BY <2>5, <3>3, <4>2, SameCell
        <5> QED BY <1>7, <2>10, <2>11, <4>1, <4>2, <5>1, <5>2
      <4>3. CASE ~(e[1] = Kind(p) /\ e[2] = p)
        BY <2>10, <2>12, <3>3, <4>1, <4>3
      <4> QED BY <4>2, <4>3
    <3> QED BY <3>1, <3>2, <3>3
  <2>16. OwnedBy(free', g)
    BY <2>3, <2>9, <2>15, Swapped
  <2> QED BY <2>2, <2>16 DEF Owned
<1>20. ASSUME NEW q \in Ptable PROVE SlotOk(q)'
  <2>1. SlotOk(q)
    BY InvParts
  <2>2. CASE q = p
    <3>1. space'[p][Mem!Dir] = space[p][Mem!Dir]
      BY <1>6, <1>7, <1>16 DEF Mem!Target
    <3>2. mstate[p] = "run" /\ cr3[p] # Nil
      BY <1>2, InCall
    <3> QED BY <2>1, <2>2, <3>1, <3>2 DEF SlotOk
  <2>3. CASE q # p
    BY <2>1, <2>3, <1>14, <1>15, SlotKept
  <2> QED BY <2>2, <2>3
<1>21. CallOk(p)'
  <2>1. Mem!Mapped(T2) = Below(call[p].at + PageSize)
    <3>1. Mem!Mapped(Mem!Target(p)) = Below(Addr(v))
      BY <1>2 DEF LoopOk
    <3>2. \A u \in Mem!VPages : u # v => T2[Mem!Pte(u)] = Mem!Target(p)[Mem!Pte(u)]
      BY <1>7, PlaceIn, PlaceApart
    <3>3. Mem!Mapped(T2) = Mem!Mapped(Mem!Target(p)) \cup {v}
      BY <1>4, <1>7, <3>2 DEF Mem!Mapped
    <3> QED BY <3>1, <3>3, BelowNext
  <2>2. Mem!Mapped(Mem!Target(p))' = Mem!Mapped(T2)
    BY <1>13, <1>14, <1>16 DEF Mem!Target, Mem!Grown, Mem!Mapped
  <2>3. Aligned(call[p].at + PageSize)
    BY <1>11, AddrNext, AlignedAddr
  <2>4. call[p].at < call[p].to /\ call[p].to < Mem!KERNBASE
    BY <1>2 DEF LoopOk
  <2>5. LoopOk(p)'
    BY <1>11, <1>13, <1>14, <2>1, <2>2, <2>3, <2>4 DEF LoopOk
  <2>6. c.op # "sbrk" => c.new[Mem!Dir] # Nil
    BY <1>2, <1>6, <1>7, <1>13 DEF Mem!Grown, Mem!Target
  <2>7. c.op = "sbrk" => c.new = call[p].new /\ size[p] <= c.at /\ size[p] < c.to
    <3>1. size[p] \in Nat
      BY InvParts, UserPages DEF Types
    <3> QED BY <1>1, <1>11, <1>13, <3>1 DEF Mem!Grown, CallOk
  <2>8. /\ mstate' = mstate /\ size' = size /\ kstack' = kstack
    OBVIOUS
  <2> QED BY <1>1, <1>2, <1>13, <1>14, <2>5, <2>6, <2>7, <2>8 DEF CallOk
<1>22. ASSUME NEW q \in Ptable PROVE CallOk(q)'
  <2>1. CallOk(q)
    BY InvParts
  <2>2. CASE q # p
    BY <2>1, <2>2, <1>14, <1>15, CallKept
  <2> QED BY <2>2, <1>21
<1>23. ASSUME NEW q \in Ptable PROVE SizeOk(q)'
  <2>1. SizeOk(q)
    BY InvParts
  <2>2. CASE q # p
    BY <2>1, <2>2, <1>14, <1>15, SizeKept
  <2>3. CASE q = p /\ ~Mem!Grown(p)
    BY <2>1, <2>3, <1>13, <1>14, <1>16, SizeKept
  <2>4. CASE q = p /\ Mem!Grown(p)
    BY <2>4, <1>13, <1>14 DEF SizeOk, Mem!Grown
  <2> QED BY <2>2, <2>3, <2>4
<1>24. Apart' /\ LockOk'
  BY <1>13, <1>14, InvParts DEF Apart, LockOk
<1> QED BY <1>17, <1>19, <1>20, <1>22, <1>23, <1>24 DEF MemInv, EachOk

(* mappages, with a new page table or without.                             *)
LEMMA MappagesInv ==
    ASSUME Mem!Configuration, MemInv, NEW p \in Ptable, Mem!mappages(p)
    PROVE  MemInv'
<1>1. call[p].pc = "page" /\ call[p].mem # Nil
  BY DEF Mem!mappages, Mem!Looping
<1>2. CallOk(p) /\ call[p] \in CallType /\ Types
  BY InvParts DEF Types
<1>3. call[p].op \in {"fork", "exec", "sbrk"} /\ LoopOk(p)
  BY <1>1, <1>2, IdleFacts DEF CallOk, CallType
<1>4. PICK v : v = call[p].at \div PageSize
  OBVIOUS
<1>5. v \in Mem!VPages /\ call[p].at = Addr(v) /\ call[p].at < call[p].to
  <2>1. PICK k \in Nat : call[p].at = Addr(k)
    BY <1>3 DEF LoopOk, Aligned
  <2>2. v = k
    BY <1>4, <2>1, AddrNext
  <2>3. call[p].at < call[p].to /\ call[p].to < Mem!KERNBASE /\ call[p].to \in Nat
    BY <1>1, <1>2, <1>3 DEF LoopOk, CallType
  <2>4. Addr(k) < Mem!KERNBASE
    BY <2>1, <2>3, AddrFacts, UserPages
  <2> QED BY <2>1, <2>2, <2>3, <2>4, UserPages
<1>6. Mem!Target(p) \in [Mem!Places -> PageOrNil]
  BY <1>2 DEF Mem!Target, Types, CallType
<1>7. Mem!Tab(Mem!PDX(v)) \in Mem!Places
  BY <1>5, TableOf, PlaceIn
<1>8. PICK n : n = [call[p] EXCEPT !.mem = Nil, !.at = @ + PageSize]
  OBVIOUS
<1>9. CASE Mem!Target(p)[Mem!Tab(Mem!PDX(v))] # Nil
  <2>1. /\ Mem!GoOn(p, Mem!Installed(Mem!Target(p), v, call[p].mem), n)
        /\ UNCHANGED <<free, mstate, mparent, kstack, size, cr3, locked>>
    BY <1>4, <1>8, <1>9 DEF Mem!mappages
  <2>2. SpaceWith(p, Mem!Target(p)) = space /\ CallWith(p, Mem!Target(p)) = call
    BY <1>2 DEF SpaceWith, CallWith, Mem!Target, Types, CallType
  <2>3. OwnedBy(free', Fill(SpaceWith(p, Mem!Target(p)), CallWith(p, Mem!Target(p)), kstack))
    BY <2>1, <2>2, InvParts DEF Owned
  <2> QED BY <1>1, <1>5, <1>6, <1>8, <2>1, <2>3, InstallInv
<1>10. CASE Mem!Target(p)[Mem!Tab(Mem!PDX(v))] = Nil /\ Mem!kalloc = Nil
  <2>1. Mem!Fail(p)
    BY <1>4, <1>10 DEF Mem!mappages, Mem!With
  <2> QED BY <1>1, <1>3, <1>5, <2>1, FailInv
<1>11. CASE Mem!Target(p)[Mem!Tab(Mem!PDX(v))] = Nil /\ Mem!kalloc # Nil
  <2>1. PICK x : x = Mem!kalloc
    OBVIOUS
  <2>2. PICK T : T = [Mem!Target(p) EXCEPT ![Mem!Tab(Mem!PDX(v))] = x]
    OBVIOUS
  <2>3. /\ free' = free \ {x} /\ Mem!GoOn(p, Mem!Installed(T, v, call[p].mem), n)
        /\ UNCHANGED <<mstate, mparent, kstack, size, cr3, locked>>
    BY <1>4, <1>8, <1>11, <2>1, <2>2 DEF Mem!mappages, Mem!With
  <2>4. x \in free /\ x \in Frames /\ x # Nil
    BY <1>11, <2>1, Kalloc, InvParts DEF Owned, OwnedBy
  <2>5. /\ T \in [Mem!Places -> PageOrNil] /\ T[Mem!Tab(Mem!PDX(v))] = x
        /\ \A l \in Mem!Places : l # Mem!Tab(Mem!PDX(v)) => T[l] = Mem!Target(p)[l]
    BY <1>6, <1>7, <2>2, <2>4 DEF PageOrNil
  <2>6. T[Mem!Dir] = Mem!Target(p)[Mem!Dir] /\ \A u \in Mem!VPages : T[Mem!Pte(u)] = Mem!Target(p)[Mem!Pte(u)]
    BY <2>5, PlaceIn, PlaceApart
  <2>7. OwnedBy(free', Fill(SpaceWith(p, T), CallWith(p, T), kstack))
    <3>1. PICK f : f = Fill(space, call, kstack)
      OBVIOUS
    <3>2. PICK g : g = Fill(SpaceWith(p, T), CallWith(p, T), kstack)
      OBVIOUS
    <3>3. OwnedBy(free, f) /\ f \in [Cells -> PageOrNil]
      BY <3>1, InvParts DEF Owned, OwnedBy
    <3>4. Kind(p) \in {"space", "new", "mem", "kstack"}
      BY DEF Kind
    <3>5. PICK t \in Cells : t[1] = Kind(p) /\ t[2] = p /\ t[3] = Mem!Tab(Mem!PDX(v))
      BY <1>7, <3>4, CellAt
    <3>6. /\ SpaceWith(p, T) \in [Ptable -> [Mem!Places -> PageOrNil]]
          /\ CallWith(p, T) \in [Ptable -> CallType] /\ f[t] = Nil
      BY <1>2, <1>11, <2>5, <3>1, <3>5, WithTarget
    <3>7. g \in [Cells -> PageOrNil]
      BY <1>2, <3>2, <3>6, FillType DEF Types
    <3>8. ASSUME NEW e \in Cells PROVE g[e] = IF e = t THEN x ELSE f[e]
      <4>1. g[e] = IF e[1] = Kind(p) /\ e[2] = p THEN T[e[3]] ELSE f[e]
        BY <1>2, <2>5, <3>1, <3>2, WithTarget
      <4>2. e[1] = Kind(p) /\ e[2] = p => f[e] = Mem!Target(p)[e[3]]
        BY <1>2, <1>6, <3>1, WithTarget
      <4>3. e[3] \in Mem!Places
        BY CellParts
      <4>4. e[1] = Kind(p) /\ e[2] = p /\ e[3] = Mem!Tab(Mem!PDX(v)) => e = t
        BY <3>5, SameCell
      <4> QED BY <2>5, <3>5, <4>1, <4>2, <4>3, <4>4
    <3>9. g = [f EXCEPT ![t] = x]
      BY <3>3, <3>7, <3>8
    <3>10. OwnedBy(free \ {x}, [f EXCEPT ![t] = x])
      BY <2>4, <3>3, <3>6, Taken
    <3> QED BY <2>3, <3>2, <3>9, <3>10
  <2> QED BY <1>1, <1>5, <1>8, <2>3, <2>5, <2>6, <2>7, InstallInv
<1> QED BY <1>9, <1>10, <1>11

-----------------------------------------------------------------------------
(* The ends of calls.                                                       *)

(* growproc takes the new size: the pages below it are all there.          *)
LEMMA GrowprocInv ==
    ASSUME Mem!Configuration, MemInv, NEW p \in Ptable, Mem!growproc(p)
    PROVE  MemInv'
<1>1. /\ call[p].pc = "page" /\ call[p].mem = Nil /\ call[p].at >= call[p].to
      /\ call[p].op = "sbrk"
  BY DEF Mem!growproc, Mem!Done, Mem!Looping
<1>2. /\ size' = [size EXCEPT ![p] = call[p].to] /\ cr3' = [cr3 EXCEPT ![p] = space[p][Mem!Dir]]
      /\ call' = [call EXCEPT ![p] = Mem!Idle]
      /\ UNCHANGED <<free, mstate, mparent, kstack, space, locked>>
  BY DEF Mem!growproc
<1>3. CallOk(p) /\ call[p] \in CallType /\ call \in [Ptable -> CallType] /\ Types
  BY InvParts DEF Types
<1>4. LoopOk(p) /\ call[p].new = Mem!NoSpace
  BY <1>1, <1>3 DEF CallOk
<1>5. /\ call[p].to \in Nat /\ call[p].at \in Nat /\ call[p].to < Mem!KERNBASE
      /\ Mem!KERNBASE \in Nat /\ call[p].at < call[p].to + PageSize /\ Aligned(call[p].at)
      /\ Mem!Mapped(space[p]) = Below(call[p].at)
  BY <1>1, <1>3, <1>4, UserPages DEF CallType, LoopOk, Mem!Target, Mem!Grown
<1>6. Mem!Mapped(space[p]) = Below(call[p].to)
  BY <1>1, <1>5, SameBelow
<1>7. mstate[p] = "run" /\ cr3[p] # Nil /\ cr3[p] = space[p][Mem!Dir]
  BY <1>1, InCall
<1>8. cr3' = cr3
  BY <1>2, <1>3, <1>7 DEF Types
<1>9. /\ size'[p] = call[p].to /\ call'[p] = Mem!Idle
      /\ \A q \in Ptable \ {p} : size'[q] = size[q] /\ call'[q] = call[q]
  BY <1>2, <1>3 DEF Types
<1>10. Types'
  BY <1>2, <1>3, <1>5, <1>8, IdleFacts DEF Types
<1>11. Owned'
  BY <1>1, <1>2, <1>3, <1>4, <1>10, IdleFacts, InvParts, CallOnly
<1>12. ASSUME NEW q \in Ptable PROVE SlotOk(q)'
  <2>1. SlotOk(q)
    BY InvParts
  <2>2. CASE q = p
    BY <2>1, <2>2, <1>2, <1>7, <1>8, <1>9 DEF SlotOk
  <2>3. CASE q # p
    BY <2>1, <2>3, <1>2, <1>8, <1>9, SlotKept
  <2> QED BY <2>2, <2>3
<1>13. ASSUME NEW q \in Ptable PROVE CallOk(q)'
  <2>1. CallOk(q)
    BY InvParts
  <2>2. CASE q = p
    BY <2>2, <1>9, IdleFacts DEF CallOk
  <2>3. CASE q # p
    BY <2>1, <2>3, <1>2, <1>9, CallKept
  <2> QED BY <2>2, <2>3
<1>14. ASSUME NEW q \in Ptable PROVE SizeOk(q)'
  <2>1. SizeOk(q)
    BY InvParts
  <2>2. CASE q = p
    <3>1. Mem!Mapped(space[p])' = Mem!Mapped(space[p]) /\ Below(size[p])' = Below(call[p].to)
      BY <1>2, <1>9 DEF Mem!Mapped, Below
    <3> QED BY <2>2, <3>1, <1>6 DEF SizeOk
  <2>3. CASE q # p
    BY <2>1, <2>3, <1>2, <1>9, SizeKept
  <2> QED BY <2>2, <2>3
<1>15. Apart' /\ LockOk'
  BY <1>2, <1>9, IdleFacts, InvParts DEF Apart, LockOk
<1> QED BY <1>10, <1>11, <1>12, <1>13, <1>14, <1>15 DEF MemInv, EachOk

(* The scheduler loads the directory of a process it chose.                *)
LEMMA SchedulerInv ==
    ASSUME Mem!Configuration, MemInv, NEW p \in Ptable, Mem!scheduler(p)
    PROVE  MemInv'
<1>1. /\ mstate[p] = "run" /\ cr3[p] = Nil /\ cr3' = [cr3 EXCEPT ![p] = space[p][Mem!Dir]]
      /\ UNCHANGED <<free, mstate, mparent, kstack, space, size, locked, call>>
  BY DEF Mem!scheduler
<1>2. space[p][Mem!Dir] \in PageOrNil /\ Types
  BY InvParts, PlaceIn DEF Types
<1>3. cr3'[p] = space[p][Mem!Dir] /\ \A q \in Ptable \ {p} : cr3'[q] = cr3[q]
  BY <1>1, <1>2 DEF Types
<1>4. Types'
  BY <1>1, <1>2 DEF Types
<1>5. Owned'
  BY <1>1, InvParts DEF Owned
<1>6. ASSUME NEW q \in Ptable PROVE SlotOk(q)'
  <2>1. SlotOk(q)
    BY InvParts
  <2>2. CASE q = p
    BY <2>1, <2>2, <1>1, <1>3 DEF SlotOk
  <2>3. CASE q # p
    BY <2>1, <2>3, <1>1, <1>3, SlotKept
  <2> QED BY <2>2, <2>3
<1>7. ASSUME NEW q \in Ptable PROVE CallOk(q)' /\ SizeOk(q)'
  BY <1>1, InvParts, CallKept, SizeKept
<1>8. Apart' /\ LockOk'
  BY <1>1, InvParts DEF Apart, LockOk
<1> QED BY <1>4, <1>5, <1>6, <1>7, <1>8 DEF MemInv, EachOk

(* exit keeps ptable.lock, and stack and directory with it.                *)
LEMMA ExitInv ==
    ASSUME Mem!Configuration, MemInv, NEW p \in Ptable, Mem!exit(p)
    PROVE  MemInv'
<1>1. /\ mstate[p] = "run" /\ cr3[p] # Nil /\ call[p] = Mem!Idle /\ locked = Nil
      /\ mparent' = [s \in Ptable |-> IF mparent[s] = p THEN initproc ELSE mparent[s]]
      /\ mstate' = [mstate EXCEPT ![p] = "zombie"] /\ locked' = p
      /\ UNCHANGED <<free, kstack, space, size, cr3, call>>
  BY DEF Mem!exit
<1>2. mstate'[p] = "zombie" /\ \A q \in Ptable \ {p} : mstate'[q] = mstate[q]
  BY <1>1, InvParts DEF Types
<1>3. Types'
  <2>1. mparent' \in [Ptable -> Ptable \cup {Nil}]
    BY <1>1, InvParts DEF Types, Mem!Configuration
  <2> QED BY <1>1, <2>1, InvParts DEF Types
<1>4. Owned'
  BY <1>1, InvParts DEF Owned
<1>5. ASSUME NEW q \in Ptable PROVE SlotOk(q)'
  <2>1. SlotOk(q) /\ Nil \notin Ptable
    BY InvParts DEF Mem!Configuration
  <2>2. CASE q = p
    BY <2>1, <2>2, <1>1, <1>2 DEF SlotOk
  <2>3. CASE q # p
    BY <2>1, <2>3, <1>1, <1>2, SlotKept
  <2> QED BY <2>2, <2>3
<1>6. ASSUME NEW q \in Ptable PROVE CallOk(q)'
  <2>1. CallOk(q)
    BY InvParts
  <2>2. call[q].op = "fork" => call[q].child \in Ptable /\ call[q].child # p
    BY <2>1, <1>1 DEF CallOk
  <2> QED BY <2>1, <2>2, <1>1, <1>2, CallKept
<1>7. ASSUME NEW q \in Ptable PROVE SizeOk(q)'
  <2>1. SizeOk(q)
    BY InvParts
  <2>2. CASE q = p
    BY <2>2, <1>2 DEF SizeOk
  <2>3. CASE q # p
    BY <2>1, <2>3, <1>1, <1>2, SizeKept
  <2> QED BY <2>2, <2>3
<1>8. Apart' /\ LockOk'
  BY <1>1, <1>2, InvParts DEF Apart, LockOk
<1> QED BY <1>3, <1>4, <1>5, <1>6, <1>7, <1>8 DEF MemInv, EachOk

(* The scheduler leaves the directory of a ZOMBIE before it releases.      *)
LEMMA SchedInv ==
    ASSUME Mem!Configuration, MemInv, NEW p \in Ptable, Mem!sched(p)
    PROVE  MemInv'
<1>1. /\ locked = p /\ cr3' = [cr3 EXCEPT ![p] = Nil] /\ locked' = Nil
      /\ UNCHANGED <<free, mstate, mparent, kstack, space, size, call>>
  BY DEF Mem!sched
<1>2. cr3'[p] = Nil /\ \A q \in Ptable \ {p} : cr3'[q] = cr3[q]
  BY <1>1, InvParts DEF Types
<1>3. mstate[p] = "zombie"
  BY <1>1, InvParts DEF LockOk, Mem!Configuration
<1>4. Types'
  BY <1>1, InvParts DEF Types, PageOrNil
<1>5. Owned'
  BY <1>1, InvParts DEF Owned
<1>6. ASSUME NEW q \in Ptable PROVE SlotOk(q)'
  <2>1. SlotOk(q)
    BY InvParts
  <2>2. CASE q = p
    BY <2>1, <2>2, <1>1, <1>2, <1>3 DEF SlotOk
  <2>3. CASE q # p
    BY <2>1, <2>3, <1>1, <1>2, SlotKept
  <2> QED BY <2>2, <2>3
<1>7. ASSUME NEW q \in Ptable PROVE CallOk(q)' /\ SizeOk(q)'
  BY <1>1, InvParts, CallKept, SizeKept
<1>8. Apart' /\ LockOk'
  BY <1>1, InvParts DEF Apart, LockOk
<1> QED BY <1>4, <1>5, <1>6, <1>7, <1>8 DEF MemInv, EachOk

(* exec goes on to its stack: the program ended at a page boundary.        *)
LEMMA UstackInv ==
    ASSUME Mem!Configuration, MemInv, NEW p \in Ptable, Mem!ustack(p)
    PROVE  MemInv'
<1>1. /\ call[p].pc = "page" /\ call[p].mem = Nil /\ call[p].at >= call[p].to
      /\ call[p].op = "exec"
  BY DEF Mem!ustack, Mem!Done, Mem!Looping
<1>2. PICK top : top = Mem!PGROUNDUP(call[p].to)
  OBVIOUS
<1>3. CASE ~Mem!Fits(top + 2 * PageSize)
  <2>1. Mem!Fail(p)
    BY <1>2, <1>3 DEF Mem!ustack
  <2> QED BY <1>1, <2>1, FailInv
<1>4. CASE Mem!Fits(top + 2 * PageSize)
  <2>1. /\ call' = [call EXCEPT ![p].at = top, ![p].to = top + 2 * PageSize, ![p].more = FALSE]
        /\ UNCHANGED <<free, mstate, mparent, kstack, space, size, cr3, locked>>
    BY <1>2, <1>4 DEF Mem!ustack
  <2>2. CallOk(p) /\ call[p] \in CallType /\ call \in [Ptable -> CallType]
    BY InvParts DEF Types
  <2>3. LoopOk(p) /\ call[p].new[Mem!Dir] # Nil
    BY <1>1, <2>2 DEF CallOk
  <2>4. /\ call[p].at \in Nat /\ call[p].to \in Nat /\ Aligned(call[p].at)
        /\ call[p].at < call[p].to + PageSize /\ Mem!Mapped(call[p].new) = Below(call[p].at)
    BY <1>1, <2>2, <2>3 DEF LoopOk, CallType, Mem!Target, Mem!Grown
  <2>5. call[p].at = top
    BY <1>1, <1>2, <2>4, AlignedOnce
  <2>6. PICK b \in Nat : b = top + 2 * PageSize /\ top < b
    BY <2>4, <2>5, AddrFacts
  <2>7. b < Mem!KERNBASE
    BY <1>4, <2>6 DEF Mem!Fits
  <2>8. PICK c : c = [call[p] EXCEPT !.at = top, !.to = b, !.more = FALSE]
    OBVIOUS
  <2>9. /\ c \in CallType /\ c.op = "exec" /\ c.pc = "page" /\ c.new = call[p].new
        /\ c.mem = Nil /\ c.at = top /\ c.to = b
    BY <1>1, <2>2, <2>4, <2>5, <2>6, <2>8 DEF CallType
  <2>10. call' = [call EXCEPT ![p] = c] /\ call'[p] = c
    BY <2>1, <2>2, <2>6, <2>8
  <2>11. Types'
    BY <2>1, <2>2, <2>9, <2>10, InvParts DEF Types
  <2>12. Owned'
    <3>1. /\ Owned /\ Types /\ UNCHANGED <<free, kstack, space>>
          /\ c.new = call[p].new /\ c.mem = call[p].mem
      BY <1>1, <2>1, <2>9, InvParts
    <3> QED BY <2>9, <2>10, <2>11, <3>1, CallOnly
  <2>13. CallOk(p)'
    <3>1. Mem!Mapped(Mem!Target(p))' = Mem!Mapped(call[p].new)
      BY <2>9, <2>10 DEF Mem!Target, Mem!Grown, Mem!Mapped
    <3>2. top < b + PageSize
      BY <2>4, <2>5, <2>6, AddrFacts
    <3>3. LoopOk(p)'
      BY <2>4, <2>5, <2>7, <2>9, <2>10, <3>1, <3>2 DEF LoopOk
    <3> QED BY <2>3, <2>7, <2>9, <2>10, <3>3 DEF CallOk
  <2>14. SizeOk(p)'
    <3>1. SizeOk(p) /\ call'[p].op = call[p].op
      BY <1>1, <2>9, <2>10, InvParts
    <3> QED BY <2>1, <3>1, SizeKept
  <2>15. c # Mem!Idle /\ mstate[p] = "run" /\ cr3[p] # Nil
    BY <1>1, <2>9, IdleFacts, InCall
  <2> QED BY <2>1, <2>9, <2>10, <2>12, <2>13, <2>14, <2>15, CallStep
<1> QED BY <1>3, <1>4

(* What the cells have after a step.                                       *)
LEMMA ContentsNext ==
    ASSUME NEW e \in Cells
    PROVE  /\ e[1] = "space" => Fill(space', call', kstack')[e] = space'[e[2]][e[3]]
           /\ e[1] = "new" => Fill(space', call', kstack')[e] = call'[e[2]].new[e[3]]
  BY Contents

(* The space that a call built and that of slot s change places.           *)
LEMMA Exchanged ==
    ASSUME Mem!Configuration, Owned, Types, NEW p \in Ptable, NEW s \in Ptable, NEW c \in CallType,
           c.new = space[s], c.mem = call[p].mem, call' = [call EXCEPT ![p] = c],
           space' = [space EXCEPT ![s] = call[p].new], UNCHANGED <<free, kstack>>, Types'
    PROVE  Owned'
<1>1. PICK f : f = Fill(space, call, kstack)
  OBVIOUS
<1>2. PICK w : w = [e \in Cells |-> IF e[1] = "space" /\ e[2] = s THEN <<"new", p, e[3]>>
                                    ELSE IF e[1] = "new" /\ e[2] = p THEN <<"space", s, e[3]>>
                                    ELSE e]
  OBVIOUS
<1>3. ASSUME NEW e \in Cells
      PROVE  /\ w[e] \in Cells /\ w[w[e]] = e
             /\ Fill(space', call', kstack')[e] = f[w[e]]
  <2>1. e[1] \in {"space", "new", "mem", "kstack"} /\ e[2] \in Ptable /\ e[3] \in Mem!Places
    BY CellParts
  <2>2. CASE e[1] = "space" /\ e[2] = s
    <3>1. PICK d \in Cells : d[1] = "new" /\ d[2] = p /\ d[3] = e[3]
      BY <2>1, CellAt
    <3>2. w[e] = d
      <4>1. w[e] = <<"new", p, e[3]>>
        BY <1>2, <2>2
      <4>2. d = <<d[1], d[2], d[3]>>
        BY CellParts
      <4> QED BY <3>1, <4>1, <4>2
    <3>3. w[d] = e
      <4>1. w[d] = <<"space", s, e[3]>>
        BY <1>2, <3>1
      <4>2. e = <<e[1], e[2], e[3]>>
        BY CellParts
      <4> QED BY <2>2, <4>1, <4>2
    <3>4. f[d] = call[p].new[e[3]]
      BY <1>1, <3>1, Contents
    <3>5. Fill(space', call', kstack')[e] = space'[s][e[3]]
      BY <2>2, ContentsNext
    <3>6. space'[s] = call[p].new
      BY DEF Types
    <3> QED BY <3>2, <3>3, <3>4, <3>5, <3>6
  <2>3. CASE e[1] = "new" /\ e[2] = p
    <3>1. PICK d \in Cells : d[1] = "space" /\ d[2] = s /\ d[3] = e[3]
      BY <2>1, CellAt
    <3>2. w[e] = d
      <4>1. w[e] = <<"space", s, e[3]>>
        BY <1>2, <2>3
      <4>2. d = <<d[1], d[2], d[3]>>
        BY CellParts
      <4> QED BY <3>1, <4>1, <4>2
    <3>3. w[d] = e
      <4>1. w[d] = <<"new", p, e[3]>>
        BY <1>2, <3>1
      <4>2. e = <<e[1], e[2], e[3]>>
        BY CellParts
      <4> QED BY <2>3, <4>1, <4>2
    <3>4. f[d] = space[s][e[3]]
      BY <1>1, <3>1, Contents
    <3>5. Fill(space', call', kstack')[e] = call'[p].new[e[3]]
      BY <2>3, ContentsNext
    <3>6. call'[p].new = space[s]
      BY DEF Types
    <3> QED BY <3>2, <3>3, <3>4, <3>5, <3>6
  <2>4. CASE ~(e[1] = "space" /\ e[2] = s) /\ ~(e[1] = "new" /\ e[2] = p)
    <3>1. w[e] = e
      BY <1>2, <2>4
    <3>2. e[1] = "space" => space'[e[2]] = space[e[2]]
      BY <2>1, <2>4 DEF Types
    <3>3. e[1] = "new" => call'[e[2]] = call[e[2]]
      BY <2>1, <2>4 DEF Types
    <3>4. call'[e[2]].mem = call[e[2]].mem
      BY <2>1 DEF Types
    <3>5. Fill(space', call', kstack')[e] = f[e]
      BY <1>1, <3>2, <3>3, <3>4, SameFill
    <3> QED BY <3>1, <3>5
  <2> QED BY <2>2, <2>3, <2>4
<1>4. w \in [Cells -> Cells]
  BY <1>2, <1>3
<1> QED BY <1>1, <1>3, <1>4, SwapStep

(* exec's commit: the process maps the new program, the call the old.      *)
LEMMA CommitInv ==
    ASSUME Mem!Configuration, MemInv, NEW p \in Ptable, Mem!commit(p)
    PROVE  MemInv'
<1>1. /\ call[p].pc = "page" /\ call[p].mem = Nil /\ call[p].at >= call[p].to
      /\ call[p].op = "exec"
  BY DEF Mem!commit, Mem!Done, Mem!Looping
<1>2. /\ space' = [space EXCEPT ![p] = call[p].new] /\ size' = [size EXCEPT ![p] = call[p].to]
      /\ cr3' = [cr3 EXCEPT ![p] = call[p].new[Mem!Dir]]
      /\ call' = [call EXCEPT ![p].pc = "old", ![p].new = space[p]]
      /\ UNCHANGED <<free, mstate, mparent, kstack, locked>>
  BY DEF Mem!commit, Mem!Loads
<1>3. CallOk(p) /\ call[p] \in CallType /\ call \in [Ptable -> CallType] /\ Types
  BY InvParts DEF Types
<1>4. LoopOk(p) /\ call[p].new[Mem!Dir] # Nil
  BY <1>1, <1>3 DEF CallOk
<1>5. /\ call[p].to \in Nat /\ call[p].at \in Nat /\ call[p].to < Mem!KERNBASE
      /\ Mem!KERNBASE \in Nat /\ call[p].at < call[p].to + PageSize /\ Aligned(call[p].at)
      /\ Mem!Mapped(call[p].new) = Below(call[p].at)
  BY <1>1, <1>3, <1>4, UserPages DEF CallType, LoopOk, Mem!Target, Mem!Grown
<1>6. Mem!Mapped(call[p].new) = Below(call[p].to)
  BY <1>1, <1>5, SameBelow
<1>7. PICK c : c = [call[p] EXCEPT !.pc = "old", !.new = space[p]]
  OBVIOUS
<1>8. /\ c \in CallType /\ c.op = "exec" /\ c.pc = "old" /\ c.new = space[p] /\ c.mem = Nil
      /\ c.to = call[p].to
  <2>1. space[p] \in [Mem!Places -> PageOrNil]
    BY <1>3 DEF Types
  <2> QED BY <1>1, <1>3, <1>7, <2>1 DEF CallType
<1>9. call' = [call EXCEPT ![p] = c]
  BY <1>2, <1>3, <1>7
<1>10. call[p].new \in [Mem!Places -> PageOrNil] /\ call[p].new[Mem!Dir] \in PageOrNil
  BY <1>3, PlaceIn DEF CallType
<1>11. Types'
  <2>1. /\ call' \in [Ptable -> CallType] /\ space' \in [Ptable -> [Mem!Places -> PageOrNil]]
        /\ cr3' \in [Ptable -> PageOrNil]
    BY <1>2, <1>3, <1>8, <1>9, <1>10 DEF Types
  <2>2. call[p].to \in 0 .. Mem!KERNBASE - 1
    BY <1>5
  <2>3. size' \in [Ptable -> 0 .. Mem!KERNBASE - 1]
    BY <1>2, <1>3, <2>2 DEF Types
  <2> QED BY <1>2, <1>3, <2>1, <2>3 DEF Types
<1>12. Owned'
  <2>1. Owned /\ UNCHANGED <<free, kstack>> /\ c.mem = call[p].mem
    BY <1>1, <1>2, <1>8, InvParts
  <2> QED BY <1>2, <1>3, <1>8, <1>9, <1>11, <2>1, Exchanged
<1>13. /\ call'[p] = c /\ space'[p] = call[p].new /\ size'[p] = call[p].to /\ cr3'[p] = call[p].new[Mem!Dir]
       /\ \A q \in Ptable \ {p} : /\ call'[q] = call[q] /\ space'[q] = space[q]
                                 /\ size'[q] = size[q] /\ cr3'[q] = cr3[q]
  BY <1>2, <1>3, <1>9 DEF Types
<1>14. ASSUME NEW q \in Ptable PROVE SlotOk(q)'
  <2>1. SlotOk(q)
    BY InvParts
  <2>2. CASE q = p
    <3>1. mstate[p] = "run"
      BY <1>1, InCall
    <3> QED BY <2>1, <2>2, <3>1, <1>2, <1>4, <1>13 DEF SlotOk
  <2>3. CASE q # p
    BY <2>1, <2>3, <1>2, <1>13, SlotKept
  <2> QED BY <2>2, <2>3
<1>15. ASSUME NEW q \in Ptable PROVE CallOk(q)'
  <2>1. CallOk(q)
    BY InvParts
  <2>2. CASE q = p
    BY <2>2, <1>5, <1>8, <1>13 DEF CallOk
  <2>3. CASE q # p
    BY <2>1, <2>3, <1>2, <1>13, CallKept
  <2> QED BY <2>2, <2>3
<1>16. ASSUME NEW q \in Ptable PROVE SizeOk(q)'
  <2>1. SizeOk(q)
    BY InvParts
  <2>2. CASE q = p
    <3>1. Mem!Mapped(space[p])' = Mem!Mapped(call[p].new) /\ Below(size[p])' = Below(call[p].to)
      BY <1>13 DEF Mem!Mapped, Below
    <3> QED BY <2>2, <3>1, <1>6 DEF SizeOk
  <2>3. CASE q # p
    BY <2>1, <2>3, <1>2, <1>13, SizeKept
  <2> QED BY <2>2, <2>3
<1>17. Apart' /\ LockOk'
  <2>1. \A q \in Ptable : call'[q].op = "fork" => call'[q] = call[q]
    BY <1>8, <1>13
  <2>2. Apart'
    BY <2>1, InvParts DEF Apart
  <2> QED BY <1>2, <2>2, InvParts DEF LockOk
<1> QED BY <1>11, <1>12, <1>14, <1>15, <1>16, <1>17 DEF MemInv, EachOk

(* fork's child gets the address space that was copied for it.             *)
LEMMA ForkedInv ==
    ASSUME Mem!Configuration, MemInv, NEW p \in Ptable, Mem!forked(p)
    PROVE  MemInv'
<1>1. /\ call[p].pc = "page" /\ call[p].mem = Nil /\ call[p].at >= call[p].to
      /\ call[p].op = "fork"
  BY DEF Mem!forked, Mem!Done, Mem!Looping
<1>2. PICK np : np = call[p].child
  OBVIOUS
<1>3. /\ space' = [space EXCEPT ![np] = call[p].new] /\ size' = [size EXCEPT ![np] = size[p]]
      /\ mparent' = [mparent EXCEPT ![np] = p] /\ mstate' = [mstate EXCEPT ![np] = "run"]
      /\ call' = [call EXCEPT ![p] = Mem!Idle] /\ UNCHANGED <<free, kstack, cr3, locked>>
      /\ locked = Nil
  BY <1>2 DEF Mem!forked
<1>4. CallOk(p) /\ call[p] \in CallType /\ call \in [Ptable -> CallType] /\ Types
  BY InvParts DEF Types
<1>5. /\ LoopOk(p) /\ call[p].new[Mem!Dir] # Nil /\ np \in Ptable /\ mstate[np] = "embryo"
      /\ kstack[np] # Nil /\ call[p].to = size[p]
  BY <1>1, <1>2, <1>4 DEF CallOk
<1>6. /\ call[p].to \in Nat /\ call[p].at \in Nat /\ call[p].at < call[p].to + PageSize
      /\ Aligned(call[p].at) /\ Mem!Mapped(call[p].new) = Below(call[p].at)
  BY <1>1, <1>4, <1>5 DEF CallType, LoopOk, Mem!Target, Mem!Grown
<1>7. Mem!Mapped(call[p].new) = Below(size[p])
  BY <1>1, <1>5, <1>6, SameBelow
<1>8. space[np] = Mem!NoSpace /\ cr3[np] = Nil /\ call[np] = Mem!Idle
  BY <1>5, InvParts DEF SlotOk
<1>9. mstate[p] = "run" /\ cr3[p] # Nil /\ p # np
  BY <1>1, <1>5, InCall
<1>10. call[p].new \in [Mem!Places -> PageOrNil]
  BY <1>4 DEF CallType
<1>11. Types'
  BY <1>3, <1>4, <1>5, <1>10, IdleFacts DEF Types
<1>12. Owned'
  <2>1. Mem!Idle.new = space[np] /\ Mem!Idle.mem = call[p].mem
    BY <1>1, <1>8, IdleFacts
  <2> QED BY <1>3, <1>4, <1>5, <1>11, <2>1, IdleFacts, InvParts, Exchanged
<1>13. /\ call'[p] = Mem!Idle /\ space'[np] = call[p].new /\ size'[np] = size[p] /\ mstate'[np] = "run"
       /\ \A q \in Ptable \ {p} : call'[q] = call[q]
       /\ \A q \in Ptable \ {np} : space'[q] = space[q] /\ size'[q] = size[q] /\ mstate'[q] = mstate[q]
  BY <1>3, <1>4, <1>5 DEF Types
<1>14. ASSUME NEW q \in Ptable, q # p, call[q].op = "fork"
       PROVE  call[q].child # np /\ call[q].child \in Ptable
  <2>1. CallOk(q) /\ Apart
    BY InvParts
  <2> QED BY <1>1, <1>2, <1>14, <2>1 DEF Apart, CallOk
<1>15. ASSUME NEW q \in Ptable PROVE SlotOk(q)'
  <2>1. SlotOk(q)
    BY InvParts
  <2>2. CASE q = p
    BY <2>1, <2>2, <1>3, <1>9, <1>13 DEF SlotOk
  <2>3. CASE q = np
    BY <2>1, <2>3, <1>3, <1>5, <1>8, <1>9, <1>13 DEF SlotOk
  <2>4. CASE q # p /\ q # np
    BY <2>1, <2>4, <1>3, <1>13, SlotKept
  <2> QED BY <2>2, <2>3, <2>4
<1>16. ASSUME NEW q \in Ptable PROVE CallOk(q)'
  <2>1. CallOk(q)
    BY InvParts
  <2>2. CASE q = p \/ q = np
    <3>1. call'[q] = Mem!Idle
      BY <2>2, <1>8, <1>9, <1>13
    <3> QED BY <3>1, IdleFacts DEF CallOk
  <2>3. CASE q # p /\ q # np
    BY <2>1, <2>3, <1>3, <1>13, <1>14, CallKept
  <2> QED BY <2>2, <2>3
<1>17. ASSUME NEW q \in Ptable PROVE SizeOk(q)'
  <2>1. SizeOk(q)
    BY InvParts
  <2>2. CASE q = np
    <3>1. Mem!Mapped(space[np])' = Mem!Mapped(call[p].new) /\ Below(size[np])' = Below(size[p])
      BY <1>2, <1>13 DEF Mem!Mapped, Below
    <3> QED BY <2>2, <3>1, <1>7 DEF SizeOk
  <2>3. CASE q = p
    <3>1. Mem!Mapped(space[p])' = Mem!Mapped(space[p]) /\ Below(size[p])' = Below(size[p])
      BY <1>9, <1>13 DEF Mem!Mapped, Below
    <3> QED BY <2>1, <2>3, <3>1, <1>1, <1>9 DEF SizeOk
  <2>4. CASE q # p /\ q # np
    BY <2>1, <2>4, <1>3, <1>13, SizeKept
  <2> QED BY <2>2, <2>3, <2>4
<1>18. Apart' /\ LockOk'
  BY <1>3, <1>13, IdleFacts, InvParts DEF Apart, LockOk
<1> QED BY <1>11, <1>12, <1>15, <1>16, <1>17, <1>18 DEF MemInv, EachOk

(* exec gives back the address space it has left.                          *)
LEMMA FreeoldInv ==
    ASSUME Mem!Configuration, MemInv, NEW p \in Ptable, Mem!freeold(p)
    PROVE  MemInv'
<1>1. /\ call[p].op = "exec" /\ call[p].pc = "old" /\ free' = free \cup Mem!freevm(call[p].new)
      /\ call' = [call EXCEPT ![p] = Mem!Idle]
      /\ UNCHANGED <<mstate, mparent, kstack, space, size, cr3, locked>>
  BY DEF Mem!freeold, Mem!kfree
<1>2. CallOk(p) /\ call[p] \in CallType /\ call \in [Ptable -> CallType] /\ Types
  BY InvParts DEF Types
<1>3. call[p].mem = Nil
  BY <1>1, <1>2 DEF CallOk
<1>4. call'[p] = Mem!Idle /\ \A q \in Ptable \ {p} : call'[q] = call[q]
  BY <1>1, <1>2
<1>5. Types'
  BY <1>1, <1>2, IdleFacts DEF Types
<1>6. Owned'
  <2>1. PICK f : f = Fill(space, call, kstack)
    OBVIOUS
  <2>2. PICK S : S = {c \in Cells : c[1] = "new" /\ c[2] = p}
    OBVIOUS
  <2>3. Mem!Real({f[c] : c \in S}) = Mem!freevm(call[p].new)
    <3>1. ASSUME NEW c \in S PROVE \E l \in Mem!Places : f[c] = call[p].new[l]
      <4>1. c[3] \in Mem!Places /\ f[c] = call[p].new[c[3]]
        BY <2>1, <2>2, CellParts, Contents
      <4> QED BY <4>1
    <3>2. ASSUME NEW l \in Mem!Places PROVE \E c \in S : f[c] = call[p].new[l]
      <4>1. PICK c \in Cells : c[1] = "new" /\ c[2] = p /\ c[3] = l
        BY CellAt
      <4>2. f[c] = call[p].new[l] /\ c \in S
        BY <2>1, <2>2, <4>1, Contents
      <4> QED BY <4>2
    <3> QED BY <3>1, <3>2 DEF Mem!Real, Mem!freevm
  <2>4. ASSUME NEW e \in Cells
        PROVE  Fill(space', call', kstack')[e] = IF e \in S THEN Nil ELSE f[e]
    <3>1. e[1] \in {"space", "new", "mem", "kstack"} /\ e[2] \in Ptable /\ e[3] \in Mem!Places
      BY CellParts
    <3>2. CASE e \in S
      <4>1. Fill(space', call', kstack')[e] = call'[p].new[e[3]]
        BY <2>2, <3>2, ContentsNext
      <4> QED BY <3>1, <3>2, <4>1, <1>4, IdleFacts
    <3>3. CASE e \notin S
      <4>1. e[1] = "new" => call'[e[2]] = call[e[2]]
        BY <1>4, <2>2, <3>1, <3>3
      <4>2. call'[e[2]].mem = call[e[2]].mem
        BY <1>3, <1>4, <3>1, IdleFacts
      <4>3. space' = space /\ kstack' = kstack
        BY <1>1
      <4>4. Fill(space', call', kstack')[e] = f[e]
        BY <2>1, <4>1, <4>2, <4>3, SameFill
      <4> QED BY <3>3, <4>4
    <3> QED BY <3>2, <3>3
  <2>5. free' = free \cup Mem!Real({f[c] : c \in S}) /\ S \in SUBSET Cells
    BY <1>1, <2>2, <2>3
  <2> QED BY <1>5, <2>1, <2>4, <2>5, InvParts, GiveStep
<1>7. ASSUME NEW q \in Ptable PROVE SlotOk(q)' /\ CallOk(q)' /\ SizeOk(q)'
  <2>1. SlotOk(q) /\ CallOk(q) /\ SizeOk(q)
    BY InvParts
  <2>2. CASE q = p
    <3>1. SlotOk(q)'
      BY <2>1, <2>2, <1>1, <1>4 DEF SlotOk
    <3>2. CallOk(q)'
      BY <2>2, <1>4, IdleFacts DEF CallOk
    <3>3. SizeOk(q)'
      <4>1. Mem!Mapped(space[q])' = Mem!Mapped(space[q]) /\ Below(size[q])' = Below(size[q])
        BY <1>1 DEF Mem!Mapped, Below
      <4> QED BY <2>1, <2>2, <4>1, <1>1 DEF SizeOk
    <3> QED BY <3>1, <3>2, <3>3
  <2>3. CASE q # p
    BY <2>1, <2>3, <1>1, <1>4, SlotKept, CallKept, SizeKept
  <2> QED BY <2>2, <2>3
<1>8. Apart' /\ LockOk'
  BY <1>1, <1>4, IdleFacts, InvParts DEF Apart, LockOk
<1> QED BY <1>5, <1>6, <1>7, <1>8 DEF MemInv, EachOk

(* wait gives back the stack and the address space of a ZOMBIE.            *)
LEMMA WaitInv ==
    ASSUME Mem!Configuration, MemInv, NEW p \in Ptable, Mem!wait(p)
    PROVE  MemInv'
<1>1. PICK s \in Ptable : /\ mstate[s] = "zombie" /\ locked = Nil
                         /\ free' = free \cup ({kstack[s]} \cup Mem!freevm(space[s]))
                         /\ kstack' = [kstack EXCEPT ![s] = Nil]
                         /\ space' = [space EXCEPT ![s] = Mem!NoSpace]
                         /\ mparent' = [mparent EXCEPT ![s] = Nil]
                         /\ mstate' = [mstate EXCEPT ![s] = "unused"]
  BY DEF Mem!wait, Mem!Reapable, Mem!kfree
<1>2. UNCHANGED <<size, cr3, locked, call>>
  BY DEF Mem!wait
<1>3. /\ kstack[s] # Nil /\ call[s] = Mem!Idle /\ cr3[s] = Nil
  <2>1. SlotOk(s) /\ Nil # s
    BY InvParts DEF Mem!Configuration
  <2> QED BY <1>1, <2>1 DEF SlotOk
<1>4. /\ kstack'[s] = Nil /\ space'[s] = Mem!NoSpace /\ mstate'[s] = "unused"
      /\ \A q \in Ptable \ {s} : /\ kstack'[q] = kstack[q] /\ space'[q] = space[q]
                                /\ mstate'[q] = mstate[q]
  BY <1>1, InvParts DEF Types
<1>5. Types'
  <2>1. Mem!NoSpace \in [Mem!Places -> PageOrNil] /\ Nil \in PageOrNil
    BY DEF Mem!NoSpace, PageOrNil
  <2> QED BY <1>1, <1>2, <2>1, InvParts DEF Types
<1>6. Owned'
  <2>1. PICK f : f = Fill(space, call, kstack)
    OBVIOUS
  <2>2. PICK S : S = {c \in Cells : c[1] = "space" /\ c[2] = s}
                     \cup {c \in Cells : c[1] = "kstack" /\ c[2] = s /\ c[3] = Mem!Dir}
    OBVIOUS
  <2>3. Mem!Real({f[c] : c \in S}) = {kstack[s]} \cup Mem!freevm(space[s])
    <3>1. ASSUME NEW c \in S PROVE f[c] = kstack[s] \/ \E l \in Mem!Places : f[c] = space[s][l]
      <4>1. c \in Cells /\ c[3] \in Mem!Places
        BY <2>2, CellParts
      <4>2. CASE c[1] = "space"
        BY <2>1, <2>2, <4>1, <4>2, Contents
      <4>3. CASE c[1] = "kstack" /\ c[3] = Mem!Dir
        BY <2>1, <2>2, <4>1, <4>3, Contents
      <4> QED BY <2>2, <4>2, <4>3
    <3>2. ASSUME NEW l \in Mem!Places PROVE \E c \in S : f[c] = space[s][l]
      <4>1. PICK c \in Cells : c[1] = "space" /\ c[2] = s /\ c[3] = l
        BY CellAt
      <4>2. f[c] = space[s][l] /\ c \in S
        BY <2>1, <2>2, <4>1, Contents
      <4> QED BY <4>2
    <3>3. \E c \in S : f[c] = kstack[s]
      <4>1. PICK c \in Cells : c[1] = "kstack" /\ c[2] = s /\ c[3] = Mem!Dir
        BY CellAt, PlaceIn
      <4>2. f[c] = kstack[s] /\ c \in S
        BY <2>1, <2>2, <4>1, Contents
      <4> QED BY <4>2
    <3> QED BY <1>3, <3>1, <3>2, <3>3 DEF Mem!Real, Mem!freevm
  <2>4. ASSUME NEW e \in Cells
        PROVE  Fill(space', call', kstack')[e] = IF e \in S THEN Nil ELSE f[e]
    <3>1. e[1] \in {"space", "new", "mem", "kstack"} /\ e[2] \in Ptable /\ e[3] \in Mem!Places
      BY CellParts
    <3>2. CASE e[1] = "space" /\ e[2] = s
      <4>1. Fill(space', call', kstack')[e] = space'[s][e[3]]
        BY <3>2, ContentsNext
      <4>2. e \in S
        BY <2>2, <3>2
      <4> QED BY <3>1, <4>1, <4>2, <1>4 DEF Mem!NoSpace
    <3>3. CASE e[1] = "kstack" /\ e[2] = s /\ e[3] = Mem!Dir
      <4>1. Fill(space', call', kstack')[e] = kstack'[s]
        BY <3>3, Contents
      <4>2. e \in S
        BY <2>2, <3>3
      <4> QED BY <4>1, <4>2, <1>4
    <3>4. CASE ~(e[1] = "space" /\ e[2] = s) /\ ~(e[1] = "kstack" /\ e[2] = s /\ e[3] = Mem!Dir)
      <4>1. e[1] = "space" => space'[e[2]] = space[e[2]]
        BY <1>4, <3>1, <3>4
      <4>2. e[1] = "kstack" => (e[3] = Mem!Dir => kstack'[e[2]] = kstack[e[2]])
        BY <1>4, <3>1, <3>4
      <4>3. call' = call
        BY <1>2
      <4>4. Fill(space', call', kstack')[e] = f[e]
        BY <2>1, <4>1, <4>2, <4>3, SameFill
      <4>5. e \notin S
        BY <2>2, <3>4
      <4> QED BY <4>4, <4>5
    <3> QED BY <3>2, <3>3, <3>4
  <2>5. free' = free \cup Mem!Real({f[c] : c \in S}) /\ S \in SUBSET Cells
    BY <1>1, <2>2, <2>3
  <2> QED BY <1>5, <2>1, <2>4, <2>5, InvParts, GiveStep
<1>7. ASSUME NEW q \in Ptable PROVE SlotOk(q)'
  <2>1. SlotOk(q)
    BY InvParts
  <2>2. CASE q = s
    BY <2>2, <1>2, <1>3, <1>4 DEF SlotOk
  <2>3. CASE q # s
    BY <2>1, <2>3, <1>2, <1>4, SlotKept
  <2> QED BY <2>2, <2>3
<1>8. ASSUME NEW q \in Ptable PROVE CallOk(q)'
  <2>1. CallOk(q)
    BY InvParts
  <2>2. CASE q = s
    BY <2>2, <1>2, <1>3, IdleFacts DEF CallOk
  <2>3. CASE q # s
    <3>1. call[q].op = "fork" => call[q].child \in Ptable /\ call[q].child # s
      BY <2>1, <1>1 DEF CallOk
    <3> QED BY <2>1, <2>3, <3>1, <1>2, <1>4, CallKept
  <2> QED BY <2>2, <2>3
<1>9. ASSUME NEW q \in Ptable PROVE SizeOk(q)'
  <2>1. SizeOk(q)
    BY InvParts
  <2>2. CASE q = s
    BY <2>2, <1>4 DEF SizeOk
  <2>3. CASE q # s
    BY <2>1, <2>3, <1>2, <1>4, SizeKept
  <2> QED BY <2>2, <2>3
<1>10. Apart' /\ LockOk'
  BY <1>1, <1>2, InvParts DEF Apart, LockOk
<1> QED BY <1>5, <1>6, <1>7, <1>8, <1>9, <1>10 DEF MemInv, EachOk

-----------------------------------------------------------------------------
(* The invariant is inductive.                                              *)

(* Every step of every process keeps the invariant.                        *)
LEMMA NextInv ==
    ASSUME Mem!Configuration, MemInv, [Mem!Next]_Mem!vars
    PROVE  MemInv'
<1>1. CASE UNCHANGED Mem!vars
  <2>1. UNCHANGED <<free, mstate, mparent, kstack, space, size, cr3, locked, call>>
    BY <1>1 DEF Mem!vars
  <2>2. Types' /\ Owned' /\ Apart' /\ LockOk'
    BY <2>1, InvParts DEF Types, Owned, Apart, LockOk
  <2>3. ASSUME NEW q \in Ptable PROVE SlotOk(q)' /\ CallOk(q)' /\ SizeOk(q)'
    BY <2>1, InvParts, SlotKept, CallKept, SizeKept
  <2> QED BY <2>2, <2>3 DEF MemInv, EachOk
<1>2. CASE Mem!Next
  <2>1. PICK p \in Ptable :
           \/ Mem!fork(p) \/ Mem!exec(p) \/ Mem!grow(p) \/ Mem!shrink(p)
           \/ Mem!allocproc(p) \/ Mem!setupkvm(p) \/ Mem!page(p) \/ Mem!mappages(p) \/ Mem!bad(p)
           \/ Mem!growproc(p) \/ Mem!forked(p) \/ Mem!ustack(p) \/ Mem!commit(p) \/ Mem!freeold(p)
           \/ Mem!scheduler(p) \/ Mem!exit(p) \/ Mem!sched(p) \/ Mem!wait(p)
    BY <1>2 DEF Mem!Next
  <2>2. CASE Mem!fork(p) \/ Mem!exec(p) \/ Mem!grow(p) \/ Mem!shrink(p)
    BY <2>2, ForkInv, ExecInv, GrowInv, ShrinkInv
  <2>3. CASE Mem!allocproc(p) \/ Mem!setupkvm(p) \/ Mem!page(p) \/ Mem!mappages(p) \/ Mem!bad(p)
    BY <2>3, AllocprocInv, SetupkvmInv, PageInv, MappagesInv, BadInv
  <2>4. CASE Mem!growproc(p) \/ Mem!forked(p) \/ Mem!ustack(p) \/ Mem!commit(p) \/ Mem!freeold(p)
    BY <2>4, GrowprocInv, ForkedInv, UstackInv, CommitInv, FreeoldInv
  <2>5. CASE Mem!scheduler(p) \/ Mem!exit(p) \/ Mem!sched(p) \/ Mem!wait(p)
    BY <2>5, SchedulerInv, ExitInv, SchedInv, WaitInv
  <2> QED BY <2>1, <2>2, <2>3, <2>4, <2>5
<1> QED BY <1>1, <1>2

(* The invariant holds throughout.                                         *)
LEMMA Invariant ==
    ASSUME Mem!Configuration
    PROVE  Mem!Spec => []MemInv
<1>1. Mem!Init => MemInv
  BY MemInitInv
<1>2. MemInv /\ [Mem!Next]_Mem!vars => MemInv'
  BY NextInv
<1> QED BY <1>1, <1>2, PTL DEF Mem!Spec

-----------------------------------------------------------------------------
(* Counting the holders of a page.                                          *)

(* The holders of x of each kind.                                          *)
InSpaces(x) == {l \in Ptable \X Mem!Places : space[l[1]][l[2]] = x}
InNew(x) == {l \in Ptable \X Mem!Places : call[l[1]].new[l[2]] = x}
InMem(x) == {p \in Ptable : call[p].mem = x}
InStacks(x) == {p \in Ptable : kstack[p] = x}

(* Each holder of a page is a cell.                                        *)
LEMMA HolderCell ==
    ASSUME NEW x \in Frames, NEW f, f = Fill(space, call, kstack)
    PROVE  /\ \A l \in InSpaces(x) : \E c \in Cells :
                 c[1] = "space" /\ c[2] = l[1] /\ c[3] = l[2] /\ f[c] = x
           /\ \A l \in InNew(x) : \E c \in Cells :
                 c[1] = "new" /\ c[2] = l[1] /\ c[3] = l[2] /\ f[c] = x
           /\ \A p \in InMem(x) : \E c \in Cells : c[1] = "mem" /\ c[2] = p /\ f[c] = x
           /\ \A p \in InStacks(x) : \E c \in Cells : c[1] = "kstack" /\ c[2] = p /\ f[c] = x
<1>1. ASSUME NEW l \in InSpaces(x)
      PROVE  \E c \in Cells : c[1] = "space" /\ c[2] = l[1] /\ c[3] = l[2] /\ f[c] = x
  <2>1. l[1] \in Ptable /\ l[2] \in Mem!Places /\ space[l[1]][l[2]] = x
    BY DEF InSpaces
  <2>2. PICK c \in Cells : c[1] = "space" /\ c[2] = l[1] /\ c[3] = l[2]
    BY <2>1, CellAt
  <2> QED BY <2>1, <2>2, Contents
<1>2. ASSUME NEW l \in InNew(x)
      PROVE  \E c \in Cells : c[1] = "new" /\ c[2] = l[1] /\ c[3] = l[2] /\ f[c] = x
  <2>1. l[1] \in Ptable /\ l[2] \in Mem!Places /\ call[l[1]].new[l[2]] = x
    BY DEF InNew
  <2>2. PICK c \in Cells : c[1] = "new" /\ c[2] = l[1] /\ c[3] = l[2]
    BY <2>1, CellAt
  <2> QED BY <2>1, <2>2, Contents
<1>3. ASSUME NEW p \in InMem(x) PROVE \E c \in Cells : c[1] = "mem" /\ c[2] = p /\ f[c] = x
  <2>1. p \in Ptable /\ call[p].mem = x
    BY DEF InMem
  <2>2. PICK c \in Cells : c[1] = "mem" /\ c[2] = p /\ c[3] = Mem!Dir
    BY <2>1, CellAt, PlaceIn
  <2> QED BY <2>1, <2>2, Contents
<1>4. ASSUME NEW p \in InStacks(x) PROVE \E c \in Cells : c[1] = "kstack" /\ c[2] = p /\ f[c] = x
  <2>1. p \in Ptable /\ kstack[p] = x
    BY DEF InStacks
  <2>2. PICK c \in Cells : c[1] = "kstack" /\ c[2] = p /\ c[3] = Mem!Dir
    BY <2>1, CellAt, PlaceIn
  <2> QED BY <2>1, <2>2, Contents
<1> QED BY <1>1, <1>2, <1>3, <1>4

(* A free page has no holder; another has one.                             *)
LEMMA HeldOnce ==
    ASSUME Mem!Configuration, MemInv, NEW x \in Frames
    PROVE  Mem!Holds(x) = IF x \in free THEN 0 ELSE 1
<1>1. PICK f : f = Fill(space, call, kstack)
  OBVIOUS
<1>2. OwnedBy(free, f) /\ x # Nil
  BY <1>1, InvParts DEF Owned, Mem!Configuration
<1>3. Mem!Holds(x) = Cardinality(InSpaces(x)) + Cardinality(InNew(x))
                 + Cardinality(InMem(x)) + Cardinality(InStacks(x))
  BY SameCardinality DEF Mem!Holds, InSpaces, InNew, InMem, InStacks
<1>4. Cardinality({}) = 0 /\ \A e : Cardinality({e}) = 1
  BY FS_EmptySet, FS_Singleton
<1>5. CASE x \in free
  <2>1. \A c \in Cells : f[c] # x
    BY <1>2, <1>5 DEF OwnedBy
  <2>2. InSpaces(x) = {} /\ InNew(x) = {} /\ InMem(x) = {} /\ InStacks(x) = {}
    BY <1>1, <2>1, HolderCell
  <2> QED BY <1>3, <1>4, <1>5, <2>2
<1>6. CASE x \notin free
  <2>1. PICK c \in Cells : f[c] = x
    BY <1>2, <1>6 DEF OwnedBy
  <2>2. \A d \in Cells : f[d] = x => d = c
    BY <1>2, <2>1 DEF OwnedBy
  <2>3. c[1] \in {"space", "new", "mem", "kstack"} /\ c[2] \in Ptable /\ c[3] \in Mem!Places
    BY CellParts
  <2>4. \A l \in InSpaces(x) : c[1] = "space" /\ l[1] = c[2] /\ l[2] = c[3]
    BY <1>1, <2>2, HolderCell
  <2>5. \A l \in InNew(x) : c[1] = "new" /\ l[1] = c[2] /\ l[2] = c[3]
    BY <1>1, <2>2, HolderCell
  <2>6. \A p \in InMem(x) : c[1] = "mem" /\ p = c[2]
    BY <1>1, <2>2, HolderCell
  <2>7. \A p \in InStacks(x) : c[1] = "kstack" /\ p = c[2]
    BY <1>1, <2>2, HolderCell
  <2>8. CASE c[1] = "space"
    <3>1. <<c[2], c[3]>> \in InSpaces(x)
      BY <1>1, <2>1, <2>3, <2>8, Contents DEF InSpaces
    <3>2. InSpaces(x) = {<<c[2], c[3]>>}
      <4>1. \A l \in InSpaces(x) : l = <<l[1], l[2]>>
        BY DEF InSpaces
      <4> QED BY <2>4, <3>1, <4>1
    <3>3. InNew(x) = {} /\ InMem(x) = {} /\ InStacks(x) = {}
      BY <2>5, <2>6, <2>7, <2>8
    <3>4. Cardinality(InSpaces(x)) = 1
      BY <1>4, <3>2
    <3> QED BY <1>3, <1>4, <1>6, <3>3, <3>4
  <2>9. CASE c[1] = "new"
    <3>1. <<c[2], c[3]>> \in InNew(x)
      BY <1>1, <2>1, <2>3, <2>9, Contents DEF InNew
    <3>2. InNew(x) = {<<c[2], c[3]>>}
      <4>1. \A l \in InNew(x) : l = <<l[1], l[2]>>
        BY DEF InNew
      <4> QED BY <2>5, <3>1, <4>1
    <3>3. InSpaces(x) = {} /\ InMem(x) = {} /\ InStacks(x) = {}
      BY <2>4, <2>6, <2>7, <2>9
    <3>4. Cardinality(InNew(x)) = 1
      BY <1>4, <3>2
    <3> QED BY <1>3, <1>4, <1>6, <3>3, <3>4
  <2>10. CASE c[1] = "mem"
    <3>1. c[2] \in InMem(x)
      BY <1>1, <1>2, <2>1, <2>3, <2>10, Contents DEF InMem
    <3>2. InMem(x) = {c[2]}
      BY <2>6, <3>1
    <3>3. InSpaces(x) = {} /\ InNew(x) = {} /\ InStacks(x) = {}
      BY <2>4, <2>5, <2>7, <2>10
    <3>4. Cardinality(InMem(x)) = 1
      BY <1>4, <3>2
    <3> QED BY <1>3, <1>4, <1>6, <3>3, <3>4
  <2>11. CASE c[1] = "kstack"
    <3>1. c[2] \in InStacks(x)
      BY <1>1, <1>2, <2>1, <2>3, <2>11, Contents DEF InStacks
    <3>2. InStacks(x) = {c[2]}
      BY <2>7, <3>1
    <3>3. InSpaces(x) = {} /\ InNew(x) = {} /\ InMem(x) = {}
      BY <2>4, <2>5, <2>6, <2>11
    <3>4. Cardinality(InStacks(x)) = 1
      BY <1>4, <3>2
    <3> QED BY <1>3, <1>4, <1>6, <3>3, <3>4
  <2> QED BY <2>3, <2>8, <2>9, <2>10, <2>11
<1> QED BY <1>5, <1>6

(* Memory is accounted for: whichever kalloc of fork, exec or sbrk fails   *)
(* and whatever the call then gives back, every page is on kmem.freelist   *)
(* or in exactly one other place, and a process that is in no call maps    *)
(* the pages below its size, or none after sbrk to 0.                      *)
THEOREM PagesAccounted ==
    ASSUME Mem!Configuration
    PROVE  Mem!Spec => []MemoryExact
<1>1. ASSUME MemInv PROVE Mem!MemoryExact
  <2>1. Mem!TypeOK
    <3>1. Types /\ free \subseteq Frames
      BY <1>1, InvParts DEF Owned, OwnedBy
    <3> QED BY <3>1 DEF Mem!TypeOK, Types, PageOrNil, CallType
  <2>2. Mem!PagesOwnedOnce
    BY <1>1, HeldOnce DEF Mem!PagesOwnedOnce
  <2>3. Mem!MapsItsSize
    <3>1. SUFFICES ASSUME NEW p \in Ptable, mstate[p] = "run", call[p] = Mem!Idle
                   PROVE  Mem!Mapped(space[p]) = Mem!Between(0, size[p]) \/ Mem!Mapped(space[p]) = {}
      BY DEF Mem!MapsItsSize
    <3>2. SizeOk(p) /\ size[p] \in Int
      BY <1>1, InvParts, UserPages DEF Types
    <3>3. Mem!Between(0, size[p]) = Below(size[p])
      BY <3>2, BetweenBelow
    <3> QED BY <3>1, <3>2, <3>3, IdleFacts DEF SizeOk
  <2> QED BY <2>1, <2>2, <2>3 DEF Mem!MemoryExact
<1>2. MemInv => MemoryExact
  BY <1>1 DEF MemoryExact
<1> QED BY <1>2, Invariant, PTL

(* A CPU runs on a directory and a kernel stack that nobody gave back:     *)
(* exec loads the new directory before it frees the old one, and wait      *)
(* finds no ZOMBIE whose CPU has not left its stack.                       *)
THEOREM CpuMemory ==
    ASSUME Mem!Configuration
    PROVE  Mem!Spec => []CpuMemoryHeld
<1>1. ASSUME MemInv PROVE Mem!CpuMemoryHeld
  <2>1. SUFFICES ASSUME NEW p \in Ptable, cr3[p] # Nil
                 PROVE  cr3[p] \notin free /\ kstack[p] \notin free /\ kstack[p] # Nil
    BY DEF Mem!CpuMemoryHeld
  <2>2. PICK f : f = Fill(space, call, kstack)
    OBVIOUS
  <2>3. SlotOk(p) /\ OwnedBy(free, f) /\ Types
    BY <1>1, <2>2, InvParts DEF Owned
  <2>4. cr3[p] = space[p][Mem!Dir] /\ kstack[p] # Nil
    BY <2>1, <2>3 DEF SlotOk, Types
  <2>5. PICK c \in Cells : c[1] = "space" /\ c[2] = p /\ c[3] = Mem!Dir
    BY CellAt, PlaceIn
  <2>6. PICK d \in Cells : d[1] = "kstack" /\ d[2] = p /\ d[3] = Mem!Dir
    BY CellAt, PlaceIn
  <2>7. f[c] = space[p][Mem!Dir] /\ f[d] = kstack[p]
    BY <2>2, <2>5, <2>6, Contents
  <2> QED BY <2>3, <2>4, <2>7 DEF OwnedBy
<1>2. MemInv => CpuMemoryHeld
  BY <1>1 DEF CpuMemoryHeld
<1> QED BY <1>2, Invariant, PTL
=============================================================================
