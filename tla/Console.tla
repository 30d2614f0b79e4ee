------------------------------ MODULE Console ------------------------------
(***************************************************************************)
(* The console (console.c): the line buffer that the keyboard interrupt    *)
(* fills and consoleread empties, consolewrite, and cprintf, all under     *)
(* cons.lock (spinlock.c).  The index fields are uint and wrap at UINT.    *)
(*                                                                         *)
(* Each process runs on a CPU of its own, so that "this CPU holds the      *)
(* lock" is "this process holds the lock"; Kbd stands for the CPU that     *)
(* takes the keyboard interrupt.  panic freezes the machine.               *)
(*                                                                         *)
(* A system call copies to and from user memory while it holds cons.lock,  *)
(* and with encrypted user pages such an access may page fault: trap and   *)
(* mdecrypt then call cprintf, several times, inside the critical section. *)
(***************************************************************************)
EXTENDS Integers, Sequences

CONSTANTS
    Procs,      \* processes that use the console
    INPUT_BUF,  \* size of input.buf
    UINT,       \* modulus of input.r, input.w and input.e
    MaxN,       \* bound: bytes of one read or write
    Encrypted,  \* whether user buffers may be on encrypted pages
    Kills       \* whether processes are killed

ASSUME SizeAssumption ==
    /\ INPUT_BUF \in Nat \ {0} /\ UINT \in Nat /\ MaxN \in Nat
    /\ UINT > INPUT_BUF /\ UINT % INPUT_BUF = 0
ASSUME FlagAssumption == Encrypted \in BOOLEAN /\ Kills \in BOOLEAN

None == "none"
Kbd == "kbd"
ASSUME ActorAssumption == None \notin Procs /\ Kbd \notin Procs

VARIABLES
    buf, r, w, e,  \* input
    lock,          \* holder of cons.lock
    pc,            \* where each process, and the interrupt handler, is
    n, target,     \* bytes left, and bytes asked for, of each call
    dump,          \* doprocdump
    killed,        \* proc->killed
    panicked       \* panic was called

input == <<buf, r, w, e>>
calls == <<n, target>>
vars == <<buf, r, w, e, lock, pc, n, target, dump, killed, panicked>>

Actors == Procs \cup {Kbd}
Chars == {"a", "newline", "ctrl_D"}
Keys == Chars \cup {"return", "ctrl_U", "ctrl_H", "ctrl_P"}

Minus(x, y) == (x - y) % UINT

Plus(x, k) == (x + k) % UINT

Init ==
    /\ buf = [k \in 0 .. INPUT_BUF - 1 |-> "a"]
    /\ r = 0 /\ w = 0 /\ e = 0
    /\ lock = None
    /\ pc = [p \in Actors |-> "out"]
    /\ n = [p \in Procs |-> 0]
    /\ target = [p \in Procs |-> 0]
    /\ dump = FALSE
    /\ killed = [p \in Procs |-> FALSE]
    /\ panicked = FALSE
-----------------------------------------------------------------------------
At(p, s) == ~panicked /\ pc[p] = s
Go(p, s) == pc' = [pc EXCEPT ![p] = s]
Holding(p) == lock = p

(* acquire spins until the lock is free, and panics if this CPU holds it.  *)
Acquire(p) ==
    IF Holding(p) THEN panicked' = TRUE /\ UNCHANGED lock
                  ELSE lock = None /\ lock' = p /\ UNCHANGED panicked

Release(p) ==
    IF Holding(p) THEN lock' = None /\ UNCHANGED panicked
                  ELSE panicked' = TRUE /\ UNCHANGED lock

(* cprintf acquires the lock unless this CPU holds it, prints, and         *)
(* releases it.                                                            *)
PrintBegin(p, from, to) ==
    /\ At(p, from)
    /\ IF Holding(p) THEN UNCHANGED <<lock, panicked>> ELSE Acquire(p)
    /\ Go(p, to)
    /\ UNCHANGED <<input, calls, dump, killed>>

PrintEnd(p, from, to) ==
    /\ At(p, from)
    /\ Release(p)
    /\ Go(p, to)
    /\ UNCHANGED <<input, calls, dump, killed>>

Lock(p, from, to) ==
    /\ At(p, from)
    /\ Acquire(p)
    /\ Go(p, to)
    /\ UNCHANGED <<input, calls, dump, killed>>

(* A page fault from user mode, an unknown system call...: cprintf called  *)
(* by a process that is not in the console.                                *)
cprintf(p) ==
    \/ PrintBegin(p, "out", "print")
    \/ PrintEnd(p, "print", "out")

(* cprintf called by trap for an access to an encrypted user page.         *)
Trap(p, in, printing) ==
    /\ Encrypted
    /\ PrintBegin(p, in, printing) \/ PrintEnd(p, printing, in)
-----------------------------------------------------------------------------
(***************************************************************************)
(* consoleintr.                                                            *)
(***************************************************************************)
Cell(k) == k % INPUT_BUF

(* Kill line: back to w or to just after the last newline.                 *)
KillLine ==
    LET Stops(k) == Minus(e, k) = w \/ buf[Cell(Minus(e, k + 1))] = "newline"
    IN  CHOOSE k \in 0 .. Minus(e, w) :
            Stops(k) /\ \A j \in 0 .. k - 1 : ~Stops(j)

Erase(k) == e' = Minus(e, k) /\ UNCHANGED <<buf, r, w, pc>>

(* wakeup(&input.r).                                                       *)
Wake(f) == [p \in Actors |-> IF f[p] = "rsleep" THEN "rwake" ELSE f[p]]

\* Mutant: a full buffer takes one more character.
HasRoomOffByOne == Minus(e, r) \leq INPUT_BUF

HasRoom == Minus(e, r) < INPUT_BUF

(* A character is stored if there is room; the end of a line, ^D or a full *)
(* buffer hands the line to the readers.                                   *)
\* Mutant: ^D does not wake the readers.
TypeSilent(c) ==
    /\ HasRoom
    /\ buf' = [buf EXCEPT ![Cell(e)] = c]
    /\ e' = Plus(e, 1)
    /\ IF c \in {"newline", "ctrl_D"} \/ e' = Plus(r, INPUT_BUF)
       THEN /\ w' = e'
            /\ pc' = IF c = "ctrl_D" THEN pc ELSE Wake(pc)
       ELSE UNCHANGED <<w, pc>>
    /\ UNCHANGED r

Type(c) ==
    /\ HasRoom
    /\ buf' = [buf EXCEPT ![Cell(e)] = c]
    /\ e' = Plus(e, 1)
    /\ IF c \in {"newline", "ctrl_D"} \/ e' = Plus(r, INPUT_BUF)
       THEN w' = e' /\ pc' = Wake(pc)
       ELSE UNCHANGED <<w, pc>>
    /\ UNCHANGED r

Key(c) ==
    /\ At(Kbd, "keys")
    /\ \/ c = "ctrl_P" /\ dump' = TRUE /\ UNCHANGED <<input, pc>>
       \/ c = "ctrl_U" /\ Erase(KillLine) /\ UNCHANGED dump
       \/ c = "ctrl_H" /\ e # w /\ Erase(1) /\ UNCHANGED dump
       \/ c \in Chars \cup {"return"} /\ Type(IF c = "return" THEN "newline" ELSE c)
                                      /\ UNCHANGED dump
    /\ UNCHANGED <<lock, calls, killed, panicked>>

(* After the loop the lock is released; procdump, if it was asked for,     *)
(* runs without the lock and prints.                                       *)
\* Mutant: procdump is called before the lock is released.
EndIntrDumping ==
    \/ /\ At(Kbd, "keys") /\ ~dump
       /\ Release(Kbd)
       /\ Go(Kbd, "out")
       /\ UNCHANGED <<input, calls, dump, killed>>
    \/ /\ At(Kbd, "keys") /\ dump
       /\ PrintBegin(Kbd, "keys", "print")
    \/ /\ At(Kbd, "print")
       /\ Release(Kbd)
       /\ dump' = FALSE
       /\ Go(Kbd, "keys")
       /\ UNCHANGED <<input, calls, killed>>

EndIntr ==
    \/ /\ At(Kbd, "keys")
       /\ Release(Kbd)
       /\ Go(Kbd, IF dump THEN "dump" ELSE "out")
       /\ dump' = FALSE
       /\ UNCHANGED <<input, calls, killed>>
    \/ PrintBegin(Kbd, "dump", "print")
    \/ PrintEnd(Kbd, "print", "out")

consoleintr ==
    \/ Lock(Kbd, "out", "keys")
    \/ \E c \in Keys : Key(c)
    \/ EndIntr
-----------------------------------------------------------------------------
(***************************************************************************)
(* consoleread and consolewrite.                                           *)
(***************************************************************************)
Call(p, s) ==
    /\ At(p, "out") /\ ~killed[p]
    /\ \E k \in 1 .. MaxN : /\ n' = [n EXCEPT ![p] = k]
                            /\ target' = [target EXCEPT ![p] = k]
    /\ Go(p, s)
    /\ UNCHANGED <<input, lock, dump, killed, panicked>>

(* release and return: the locals are gone.                                *)
Return(p) ==
    /\ Release(p)
    /\ n' = [n EXCEPT ![p] = 0]
    /\ target' = [target EXCEPT ![p] = 0]
    /\ Go(p, "out")

(* Nothing to read: give up if killed, else sleep.  The test and sleep are *)
(* two steps: kill takes ptable.lock, not cons.lock.                       *)
ReadEmpty(p) ==
    /\ At(p, "read") /\ n[p] > 0 /\ r = w
    /\ IF killed[p] THEN Return(p)
                    ELSE Go(p, "rnap") /\ UNCHANGED <<lock, calls, panicked>>
    /\ UNCHANGED <<input, dump, killed>>

Sleep(p) ==
    /\ At(p, "rnap")
    /\ Release(p)
    /\ Go(p, "rsleep")
    /\ UNCHANGED <<input, calls, dump, killed>>

(* Take a character.  ^D ends the read, and is left for the next one if    *)
(* this one has something to return; a newline ends it once it is stored.  *)
ReadChar(p) ==
    /\ At(p, "read") /\ n[p] > 0 /\ r # w
    /\ LET c == buf[Cell(r)]
       IN  /\ r' = IF c = "ctrl_D" /\ n[p] < target[p] THEN r ELSE Plus(r, 1)
           /\ Go(p, CASE c = "ctrl_D" -> "rdone" [] c = "newline" -> "rlast"
                      [] OTHER -> "rstore")
    /\ UNCHANGED <<buf, w, e, lock, calls, dump, killed, panicked>>

Store(p, from, to) ==
    /\ At(p, from)
    /\ n' = [n EXCEPT ![p] = @ - 1]
    /\ Go(p, to)
    /\ UNCHANGED <<input, lock, target, dump, killed, panicked>>

ReadDone(p) ==
    /\ At(p, "rdone") \/ (At(p, "read") /\ n[p] = 0)
    /\ Return(p)
    /\ UNCHANGED <<input, dump, killed>>

consoleread(p) ==
    \/ Call(p, "rlock")
    \/ Lock(p, "rlock", "read") \/ Lock(p, "rwake", "read")
    \/ ReadEmpty(p) \/ Sleep(p)
    \/ ReadChar(p)
    \/ Store(p, "rstore", "read") \/ Trap(p, "rstore", "rprint")
    \/ Store(p, "rlast", "rdone") \/ Trap(p, "rlast", "lprint")
    \/ ReadDone(p)

WriteChar(p) ==
    /\ At(p, "write") /\ n[p] > 0
    /\ n' = [n EXCEPT ![p] = @ - 1]
    /\ UNCHANGED <<input, lock, pc, target, dump, killed, panicked>>

WriteDone(p) ==
    /\ At(p, "write") /\ n[p] = 0
    /\ Return(p)
    /\ UNCHANGED <<input, dump, killed>>

consolewrite(p) ==
    \/ Call(p, "wlock")
    \/ Lock(p, "wlock", "write")
    \/ WriteChar(p)
    \/ n[p] > 0 /\ Trap(p, "write", "wprint")
    \/ WriteDone(p)

kill(p) ==
    /\ Kills /\ ~panicked
    /\ killed' = [killed EXCEPT ![p] = TRUE]
    /\ pc' = [pc EXCEPT ![p] = IF @ = "rsleep" THEN "rwake" ELSE @]
    /\ UNCHANGED <<input, lock, calls, dump, panicked>>

Next ==
    \/ consoleintr
    \/ \E p \in Procs : consoleread(p) \/ consolewrite(p) \/ cprintf(p) \/ kill(p)

Spec == Init /\ [][Next]_vars
-----------------------------------------------------------------------------
PcStates == {"out", "print", "rlock", "rwake", "read", "rstore", "rprint",
             "rlast", "lprint", "rnap", "rsleep", "rdone",
             "wlock", "write", "wprint", "keys", "dump"}

TypeOK ==
    /\ buf \in [0 .. INPUT_BUF - 1 -> Chars]
    /\ r \in 0 .. UINT - 1 /\ w \in 0 .. UINT - 1 /\ e \in 0 .. UINT - 1
    /\ lock \in Actors \cup {None}
    /\ pc \in [Actors -> PcStates]
    /\ n \in [Procs -> 0 .. MaxN] /\ target \in [Procs -> 0 .. MaxN]
    /\ dump \in BOOLEAN
    /\ killed \in [Procs -> BOOLEAN]
    /\ panicked \in BOOLEAN

(* The characters between two indices of the buffer.                       *)
Between(from, to) ==
    [k \in 1 .. Minus(to, from) |-> buf[Cell(Plus(from, k - 1))]]

Committed == Between(r, w)

(* Some process is between its acquire and its release and does not hold   *)
(* the lock, because a page fault dropped it.  Its accesses to input then  *)
(* race with everybody else's; the properties below promise nothing there. *)
Critical == {"read", "rnap", "rstore", "rprint", "rlast", "lprint", "rdone",
             "write", "wprint"}
Unlocked == panicked \/ \E p \in Procs : pc[p] \in Critical /\ lock # p

(* The lock is acquired and released in pairs: acquire never finds the     *)
(* lock held by its own CPU, nor release by another or by nobody, the      *)
(* cases in which spinlock.c panics.                                       *)
NoPanic == ~panicked

(* ... unless a page fault on a user buffer has dropped it: interrupts,    *)
(* kernel messages, kills and sleeping readers never do.                   *)
PanicsUnlocked == [][panicked' => Unlocked]_vars

(* Typed lines are delivered in order: finished input only loses its first *)
(* character, to a reader, or grows at its end.  Editing, and more typing  *)
(* than the buffer has room for, leave it alone.                           *)
InOrder ==
    [][~Unlocked =>
          LET old == Committed new == Committed'
          IN  \/ Len(old) > 0 /\ new = Tail(old)
              \/ Len(new) \geq Len(old) /\ SubSeq(new, 1, Len(old)) = old]_vars

(* No wakeup is lost: outside the critical section, a reader sleeps only   *)
(* while there is no finished input.                                       *)
ReadersWait ==
    lock = None /\ ~Unlocked => \A p \in Procs : pc[p] = "rsleep" => r = w

(* The end of the input is always seen as one ("make sure caller gets a    *)
(* 0-byte result", consoleread): ^D is taken only by a read that returns   *)
(* nothing.                                                                *)
EofReported ==
    [][\A p \in Procs :
          pc[p] = "read" /\ pc'[p] = "rdone" /\ r' # r => n[p] = target[p]]_vars

(* No sleeper of consoleread has missed its wakeup.                        *)
NoLostWakeup == TypeOK /\ ReadersWait

(* What the line discipline promises: input in order, and its ends seen.   *)
LinesDelivered == InOrder /\ EofReported
=============================================================================
