------------------------------- MODULE Inodes -------------------------------
(***************************************************************************)
(* Inodes, directories and path names (fs.c) and the system calls that     *)
(* make, find, link and remove them (sysfile.c), run by several processes. *)
(*                                                                         *)
(* An inode is dinode (disk) and mem (its entry of icache), a directory's  *)
(* contents are ent.  icache slots are interchangeable, so mem is indexed  *)
(* by inode number; ref = 0 means that no slot has it.  Paths are          *)
(* sequences of names; "/" in front stands for an absolute path.  A step   *)
(* is one acquisition of an inode's sleep lock, or what runs until the     *)
(* next one.  Transactions are those of Log: every step below is inside    *)
(* begin_op ... end_op and file contents are those of FileData.            *)
(***************************************************************************)
EXTENDS Integers, Sequences, FiniteSets

CONSTANTS
    Procs,   \* processes
    Inums,   \* inode numbers; the root directory is ROOTINO
    ROOTINO,
    Plain,   \* names other than "." and ".."
    Calls,   \* the calls the processes make, records with op, path, ...
    NINODE,  \* entries of icache (param.h)
    MaxLink, \* bound: sys_link is not called once a file has this many links
    NoProc

Names == Plain \cup {".", ".."}
Types == {"dir", "file", "dev"}

(* What namex is given: names, with "/" in front or not.                   *)
Absolute(path) == path # <<>> /\ Head(path) = "/"
Rest(path) == IF Absolute(path) THEN Tail(path) ELSE path

WellFormed(c) ==
    /\ c.op \in {"open", "create", "link", "unlink", "chdir"}
    /\ Rest(c.path) \in Seq(Names)
    /\ c.op = "open" => c.rw \in BOOLEAN
    /\ c.op = "create" => c.type \in Types
    /\ c.op = "link" => Rest(c.new) \in Seq(Names)

(* What the model needs of its constants.                                  *)
Configuration ==
    /\ Inums \subseteq Nat \ {0} /\ ROOTINO \in Inums /\ IsFiniteSet(Inums)
    /\ NoProc \notin Procs /\ IsFiniteSet(Procs)
    /\ Plain \cap {".", "..", "/"} = {} /\ IsFiniteSet(Plain)
    /\ NINODE \in Nat /\ MaxLink \in Nat
    /\ \A c \in Calls : WellFormed(c)

(* No path goes through "..": it only stands last in a path that is to be  *)
(* removed, where sys_unlink refuses it.  A removed directory keeps its    *)
(* "..", although nothing holds the inode it leads to.                     *)
DownPath(c, path) == \A j \in 1 .. Len(path) : path[j] = ".." => c.op = "unlink" /\ j = Len(path)
Downward == \A c \in Calls : /\ DownPath(c, Rest(c.path))
                             /\ c.op = "link" => DownPath(c, Rest(c.new))

VARIABLES
    dinode,   \* type and nlink on disk
    ent,      \* directory entries: inode number of each name, 0 if none
    mem,      \* icache: ref, valid, type, nlink
    lock,     \* owner of each inode's sleep lock
    cwd,      \* current directory of each process
    file,     \* the inode of the process's only open file, or 0
    loc,      \* program counter and local variables of each process
    panicked, \* "no", "full" (out of inodes) or "bug"
    orphans   \* history: inodes that lost a name with the directory it was in

vars == <<dinode, ent, mem, lock, cwd, file, loc, panicked, orphans>>

NoEntry == [ref |-> 0, valid |-> FALSE, type |-> "free", nlink |-> 0]
Empty == [n \in Names |-> 0]
IdleLoc == [pc |-> "idle", call |-> [op |-> "none"], path |-> <<>>, par |-> FALSE,
            ip |-> 0, dp |-> 0, old |-> 0, tgt |-> 0, k |-> "idle"]

(* What mkfs makes: a root directory and free inodes.                      *)
Init ==
    /\ dinode = [i \in Inums |-> IF i = ROOTINO THEN [type |-> "dir", nlink |-> 1]
                                 ELSE [type |-> "free", nlink |-> 0]]
    /\ ent = [i \in Inums |-> IF i # ROOTINO THEN Empty
                 ELSE [Empty EXCEPT !["."] = ROOTINO, ![".."] = ROOTINO]]
    /\ mem = [i \in Inums |-> IF i = ROOTINO
                 THEN [NoEntry EXCEPT !.ref = Cardinality(Procs)] ELSE NoEntry]
    /\ lock = [i \in Inums |-> NoProc]
    /\ cwd = [p \in Procs |-> ROOTINO]
    /\ file = [p \in Procs |-> 0]
    /\ loc = [p \in Procs |-> IdleLoc]
    /\ panicked = "no" /\ orphans = {}
-----------------------------------------------------------------------------
At(p, label) == loc[p].pc = label /\ panicked = "no"
Panic(what) == panicked' = what /\ UNCHANGED <<dinode, ent, mem, lock, cwd, file, loc>>
Set(p, r) == loc' = [loc EXCEPT ![p] = IF r.pc = "idle" THEN IdleLoc ELSE r]
Unlock(i) == lock' = [lock EXCEPT ![i] = NoProc]

(* Call iput on the inode in one of the local variables, then go to k.     *)
PutThen(r, var, k) == [r EXCEPT !.pc = "iput", !.tgt = r[var], ![var] = 0, !.k = k]

(* iget: find the inode in icache or take a free slot.                     *)
NoSlot(i) == /\ mem[i].ref = 0
             /\ Cardinality({j \in Inums : mem[j].ref > 0}) \geq NINODE
iget(m, i) == [m EXCEPT ![i].ref = @ + 1]

(* iupdate: write the inode through to the disk.                           *)
iupdate(d, m, i) == [d EXCEPT ![i] = [type |-> m[i].type, nlink |-> m[i].nlink]]

(* A call enters namex at the root (iget) or the current directory (idup); *)
(* an empty path is done at once.                                          *)
From(p, path) == IF Absolute(path) THEN ROOTINO ELSE cwd[p]
Walk(p, r, path, par) ==
    LET rest == Rest(path)
        s == [r EXCEPT !.pc = "namex", !.ip = From(p, path), !.path = rest, !.par = par]
    IN CASE rest # <<>> -> s
         [] rest = <<>> /\ par -> PutThen(s, "ip", "fail")
         [] rest = <<>> /\ ~par -> [s EXCEPT !.pc = r.call.op]

Call(p, c) ==
    /\ At(p, "idle")
    /\ c.op = "link" => \A i \in Inums : dinode[i].type = "dir" \/ dinode[i].nlink < MaxLink
    /\ IF NoSlot(From(p, c.path)) THEN Panic("full")
       ELSE /\ mem' = iget(mem, From(p, c.path))
            /\ Set(p, Walk(p, [IdleLoc EXCEPT !.call = c], c.path, c.op \in {"create", "unlink"}))
            /\ UNCHANGED <<dinode, ent, lock, cwd, file, panicked>>

(* ilock of local variable ip, reading the inode if the entry is new.  The *)
(* range of Locks says what each caller does next.                         *)
Locks == [namex  |-> "look",      open   |-> "open_ip",   create |-> "create_dp",
          found  |-> "create_hit", new   |-> "create_new", link  |-> "link_ip",
          linkdp |-> "link_dp",   bad    |-> "link_undo", unlink |-> "unlink_dp",
          victim |-> "unlink_ip", chdir  |-> "chdir_ip"]

Loaded(i) == IF mem[i].valid THEN mem[i]
             ELSE [ref |-> mem[i].ref, valid |-> TRUE, type |-> dinode[i].type,
                   nlink |-> dinode[i].nlink]

ilock(p) ==
    LET i == loc[p].ip IN
    /\ panicked = "no"
    /\ loc[p].pc \in DOMAIN Locks
    /\ lock[i] = NoProc
    /\ IF mem[i].ref < 1 \/ Loaded(i).type = "free"
       THEN Panic("bug")
       ELSE /\ lock' = [lock EXCEPT ![i] = p]
            /\ mem' = [mem EXCEPT ![i] = Loaded(i)]
            /\ loc' = [loc EXCEPT ![p].pc = Locks[@]]
            /\ UNCHANGED <<dinode, ent, cwd, file, panicked>>

(* iput: lock the inode, and free it if it has no links and nobody else    *)
(* has it; then, in a step of its own, drop the reference.                 *)
\* Mutant: the reference count is not looked at.
Unlinked(i) == mem[i].valid /\ mem[i].nlink = 0

LastUse(i) == mem[i].valid /\ mem[i].nlink = 0 /\ mem[i].ref = 1

iput(p) ==
    LET i == loc[p].tgt IN
    /\ At(p, "iput")
    /\ lock[i] = NoProc
    /\ lock' = [lock EXCEPT ![i] = IF LastUse(i) THEN p ELSE NoProc]
    /\ loc' = [loc EXCEPT ![p].pc = IF LastUse(i) THEN "ifree" ELSE "idrop"]
    /\ UNCHANGED <<dinode, ent, mem, cwd, file, panicked>>

ifree(p) ==
    LET i == loc[p].tgt
        m == [mem EXCEPT ![i].type = "free", ![i].valid = FALSE] IN
    /\ At(p, "ifree")
    /\ mem' = m
    /\ dinode' = iupdate(dinode, m, i)
    /\ ent' = [ent EXCEPT ![i] = Empty]   \* itrunc
    /\ Unlock(i)
    /\ loc' = [loc EXCEPT ![p].pc = "idrop"]
    /\ UNCHANGED <<cwd, file, panicked>>

(* After namex returned 0: sys_link undoes its count, the others return.   *)
Fail(r) == IF r.old # 0 THEN [r EXCEPT !.pc = "bad", !.ip = r.old, !.old = 0, !.k = "idle"]
           ELSE IdleLoc

(* Where a process goes after iput.                                        *)
Resume(r) ==
    CASE r.k = "fail" -> Fail(r)
      [] r.k = "put_old" -> PutThen(r, "old", "idle")
      [] r.k = "namex" /\ r.path = <<>> -> [r EXCEPT !.pc = r.call.op, !.k = "idle"]
      [] OTHER -> [r EXCEPT !.pc = r.k, !.k = "idle"]

Dropped(i) == IF mem[i].ref = 1 THEN [mem EXCEPT ![i] = NoEntry] ELSE [mem EXCEPT ![i].ref = @ - 1]

idrop(p) ==
    /\ At(p, "idrop")
    /\ mem' = Dropped(loc[p].tgt)
    /\ Set(p, Resume([loc[p] EXCEPT !.tgt = 0]))
    /\ UNCHANGED <<dinode, ent, lock, cwd, file, panicked>>

(* One turn of namex's loop, with ip locked: not a directory, stop at the  *)
(* parent, name missing, or go on to the inode that dirlookup found.       *)
\* Mutant: dirlookup returns the inode without a reference to it.
Unreferenced(i) == mem

Looked(i) == iget(mem, i)

look(p) ==
    LET r == loc[p]
        last == Len(r.path) = 1
        next == ent[r.ip][Head(r.path)] IN
    /\ At(p, "look")
    /\ IF mem[r.ip].type = "dir" /\ ~(r.par /\ last) /\ next # 0
       THEN IF NoSlot(next) THEN Panic("full")
            ELSE /\ mem' = Looked(next)
                 /\ Set(p, [PutThen(r, "ip", "namex") EXCEPT !.ip = next, !.path = Tail(@)])
                 /\ Unlock(r.ip)
                 /\ UNCHANGED <<dinode, ent, cwd, file, panicked>>
       ELSE /\ IF mem[r.ip].type = "dir" /\ r.par /\ last
               THEN Set(p, [r EXCEPT !.pc = IF r.old # 0 THEN "linkdp" ELSE r.call.op])
               ELSE Set(p, PutThen(r, "ip", "fail"))
            /\ Unlock(r.ip)
            /\ UNCHANGED <<dinode, ent, mem, cwd, file, panicked>>
-----------------------------------------------------------------------------
(* The end of sys_open, with ip locked: a descriptor, or iunlockput if     *)
(* there is none left.                                                     *)
Opened(p) ==
    LET i == loc[p].ip IN
    /\ Unlock(i)
    /\ IF file[p] = 0
       THEN file' = [file EXCEPT ![p] = i] /\ Set(p, IdleLoc)
       ELSE Set(p, PutThen(loc[p], "ip", "idle")) /\ UNCHANGED file

(* iunlockput(ip), the end of a call.                                      *)
UnlockPut(p) ==
    /\ Unlock(loc[p].ip)
    /\ Set(p, PutThen(loc[p], "ip", "idle"))
    /\ UNCHANGED file

sys_open(p) ==
    /\ At(p, "open_ip")
    /\ IF mem[loc[p].ip].type = "dir" /\ loc[p].call.rw THEN UnlockPut(p) ELSE Opened(p)
    /\ UNCHANGED <<dinode, ent, mem, cwd, panicked>>

(* fileclose of the last descriptor.                                       *)
sys_close(p) ==
    /\ At(p, "idle")
    /\ file[p] # 0
    /\ Set(p, [IdleLoc EXCEPT !.pc = "iput", !.tgt = file[p]])
    /\ file' = [file EXCEPT ![p] = 0]
    /\ UNCHANGED <<dinode, ent, mem, lock, cwd, panicked>>

(* sys_chdir gives up the old directory before it has the new one.         *)
sys_chdir(p) ==
    LET r == loc[p] IN
    /\ At(p, "chdir_ip")
    /\ IF mem[r.ip].type # "dir"
       THEN UnlockPut(p) /\ UNCHANGED cwd
       ELSE /\ Unlock(r.ip)
            /\ loc' = [loc EXCEPT ![p] = [r EXCEPT !.pc = "iput", !.tgt = cwd[p], !.k = "chdir_end"]]
            /\ cwd' = [cwd EXCEPT ![p] = 0]
            /\ UNCHANGED file
    /\ UNCHANGED <<dinode, ent, mem, panicked>>

chdir_end(p) ==
    /\ At(p, "chdir_end")
    /\ cwd' = [cwd EXCEPT ![p] = loc[p].ip]
    /\ Set(p, IdleLoc)
    /\ UNCHANGED <<dinode, ent, mem, lock, file, panicked>>

(* create, with the parent locked: the name exists, or ialloc a new inode. *)
FreeInums == {i \in Inums : dinode[i].type = "free"}
create_dp(p) ==
    LET r == loc[p]
        found == ent[r.ip][r.path[1]]
        i == CHOOSE j \in FreeInums : \A h \in FreeInums : j \leq h
    IN
    /\ At(p, "create_dp")
    /\ IF found # 0
       THEN IF NoSlot(found) THEN Panic("full")
            ELSE /\ mem' = iget(mem, found)
                 /\ Unlock(r.ip)
                 /\ Set(p, [PutThen(r, "ip", "found") EXCEPT !.ip = found])
                 /\ UNCHANGED <<dinode, panicked>>
       ELSE IF FreeInums = {} \/ NoSlot(i) THEN Panic("full")
            ELSE /\ dinode' = [dinode EXCEPT ![i] = [type |-> r.call.type, nlink |-> 0]]
                 /\ mem' = iget(mem, i)
                 /\ Set(p, [r EXCEPT !.pc = "new", !.dp = r.ip, !.ip = i])
                 /\ UNCHANGED <<lock, panicked>>
    /\ UNCHANGED <<ent, cwd, file>>

(* ... with both locked: fill the inode, enter the name, and iput the      *)
(* parent while the new inode is still locked.                             *)
create_new(p) ==
    LET r == loc[p]
        isdir == r.call.type = "dir"
        m == [mem EXCEPT ![r.ip].nlink = 1, ![r.dp].nlink = IF isdir THEN @ + 1 ELSE @]
    IN
    /\ At(p, "create_new")
    /\ mem' = m
    /\ dinode' = iupdate(iupdate(dinode, m, r.ip), m, r.dp)
    /\ ent' = [ent EXCEPT ![r.ip] = IF isdir THEN [@ EXCEPT !["."] = r.ip, ![".."] = r.dp]
                                             ELSE @,
                          ![r.dp][r.path[1]] = r.ip]
    /\ Unlock(r.dp)
    /\ Set(p, PutThen(r, "dp", "create_end"))
    /\ UNCHANGED <<cwd, file, panicked>>

(* ... and an existing name: only a file may be opened, by O_CREATE.       *)
create_hit(p) ==
    LET wants == loc[p].call.type IN
    /\ At(p, "create_hit")
    /\ IF wants = "file" /\ mem[loc[p].ip].type = "file" THEN Opened(p) ELSE UnlockPut(p)
    /\ UNCHANGED <<dinode, ent, mem, cwd, panicked>>

(* sys_open, or sys_mkdir and sys_mknod, with what create returned.        *)
create_end(p) ==
    /\ At(p, "create_end")
    /\ IF loc[p].call.type = "file" THEN Opened(p) ELSE UnlockPut(p)
    /\ UNCHANGED <<dinode, ent, mem, cwd, panicked>>

(* sys_link counts the link first, then looks for the place of the name.   *)
Counted(i) == [mem EXCEPT ![i].nlink = @ + 1]

\* Mutant: directories can be linked too.
Anything(i) == TRUE

Linkable(i) == mem[i].type # "dir"

link_ip(p) ==
    LET r == loc[p]
        from == From(p, r.call.new) IN
    /\ At(p, "link_ip")
    /\ IF ~Linkable(r.ip)
       THEN UnlockPut(p) /\ UNCHANGED <<dinode, mem, panicked>>
       ELSE /\ dinode' = iupdate(dinode, Counted(r.ip), r.ip)
            /\ mem' = iget(Counted(r.ip), from)
            /\ panicked' = IF NoSlot(from) THEN "full" ELSE panicked
            /\ Unlock(r.ip)
            /\ Set(p, Walk(p, [r EXCEPT !.old = r.ip], r.call.new, TRUE))
            /\ UNCHANGED file
    /\ UNCHANGED <<ent, cwd>>

(* ... with the directory locked: dirlink enters the name, or finds it     *)
(* there and drops that inode while the directory is still locked.         *)
link_dp(p) ==
    LET r == loc[p]
        found == ent[r.ip][r.path[1]] IN
    /\ At(p, "link_dp")
    /\ IF found # 0
       THEN IF NoSlot(found) THEN Panic("full")
            ELSE /\ mem' = Looked(found)
                 /\ Set(p, [r EXCEPT !.pc = "iput", !.tgt = found, !.k = "link_dup"])
                 /\ UNCHANGED <<dinode, ent, lock, cwd, file, panicked>>
       ELSE /\ ent' = [ent EXCEPT ![r.ip][r.path[1]] = r.old]
            /\ Unlock(r.ip)
            /\ Set(p, PutThen(r, "ip", "put_old"))
            /\ UNCHANGED <<dinode, mem, cwd, file, panicked>>

link_dup(p) ==
    /\ At(p, "link_dup")
    /\ Unlock(loc[p].ip)
    /\ Set(p, PutThen(loc[p], "ip", "fail"))
    /\ UNCHANGED <<dinode, ent, mem, cwd, file, panicked>>

(* bad: take the count back.  Also the end of sys_unlink.                  *)
Discounted(i) == [mem EXCEPT ![i].nlink = @ - 1]

\* Mutant: a link that fails keeps its count.
StillCounted(i) == mem

TakenBack(i) == Discounted(i)

link_undo(p) ==
    LET i == loc[p].ip IN
    /\ At(p, "link_undo")
    /\ mem' = TakenBack(i)
    /\ dinode' = iupdate(dinode, mem', i)
    /\ UnlockPut(p)
    /\ UNCHANGED <<ent, cwd, panicked>>

(* sys_unlink, with the directory locked: find the name.                   *)
\* Mutant: "." and ".." may be removed.
AnyName(n) == TRUE

Removable(n) == n \notin {".", ".."}

unlink_dp(p) ==
    LET r == loc[p]
        n == r.path[1]
        found == ent[r.ip][n] IN
    /\ At(p, "unlink_dp")
    /\ IF ~Removable(n) \/ found = 0
       THEN UnlockPut(p) /\ UNCHANGED <<dinode, ent, mem, cwd, panicked>>
       ELSE IF NoSlot(found) THEN Panic("full")
       ELSE /\ mem' = Looked(found)
            /\ Set(p, [r EXCEPT !.pc = "victim", !.dp = r.ip, !.ip = found])
            /\ UNCHANGED <<dinode, ent, lock, cwd, file, panicked>>

(* ... with both locked: erase the name and iput the directory while the   *)
(* inode is still locked.                                                  *)
isdirempty(i) == \A n \in Plain : ent[i][n] = 0

\* The directory d that loses inode i loses the link of i's "..".
WithoutDotDot(i, d) == IF mem[i].type = "dir" THEN [mem EXCEPT ![d].nlink = @ - 1] ELSE mem

unlink_ip(p) ==
    LET r == loc[p]
        isdir == mem[r.ip].type = "dir"
        m == WithoutDotDot(r.ip, r.dp)
    IN
    /\ At(p, "unlink_ip")
    /\ IF mem[r.ip].nlink < 1 THEN Panic("bug")
       ELSE IF isdir /\ ~isdirempty(r.ip)
       THEN /\ Unlock(r.ip)
            /\ Set(p, PutThen(r, "ip", "unlink_bad"))
            /\ UNCHANGED <<dinode, ent, mem, cwd, file, panicked>>
       ELSE /\ ent' = [ent EXCEPT ![r.dp][r.path[1]] = 0]
            /\ mem' = m
            /\ dinode' = iupdate(dinode, m, r.dp)
            /\ Unlock(r.dp)
            /\ Set(p, PutThen(r, "dp", "unlink_end"))
            /\ UNCHANGED <<cwd, file, panicked>>

unlink_bad(p) ==
    /\ At(p, "unlink_bad")
    /\ Unlock(loc[p].dp)
    /\ Set(p, PutThen(loc[p], "dp", "idle"))
    /\ UNCHANGED <<dinode, ent, mem, cwd, file, panicked>>

unlink_end(p) ==
    LET i == loc[p].ip IN
    /\ At(p, "unlink_end")
    /\ mem' = Discounted(i)
    /\ dinode' = iupdate(dinode, mem', i)
    /\ UnlockPut(p)
    /\ UNCHANGED <<ent, cwd, panicked>>

Step(p) ==
    \/ ilock(p) \/ iput(p) \/ ifree(p) \/ idrop(p) \/ look(p)
    \/ sys_open(p) \/ sys_chdir(p) \/ chdir_end(p)
    \/ create_dp(p) \/ create_new(p) \/ create_hit(p) \/ create_end(p)
    \/ link_ip(p) \/ link_dp(p) \/ link_dup(p) \/ link_undo(p)
    \/ unlink_dp(p) \/ unlink_ip(p) \/ unlink_bad(p) \/ unlink_end(p)

(* A directory that is removed while it is somebody's current one still    *)
(* takes new names; itrunc drops them with it and nothing discounts the    *)
(* links.  orphans remembers the inodes, and no action looks at it.        *)
Freed == {d \in Inums : dinode[d].type # "free" /\ dinode'[d].type = "free"}
Forget == orphans' = (orphans \cup {ent[dn[1]][dn[2]] : dn \in Freed \X Plain}) \ {0}

Next == /\ \E p \in Procs : Step(p) \/ sys_close(p) \/ \E c \in Calls : Call(p, c)
        /\ Forget

Spec == Init /\ [][Next]_vars
-----------------------------------------------------------------------------
(* Every variable has its type.                                            *)
TypeOK ==
    /\ dinode \in [Inums -> [type : Types \cup {"free"}, nlink : Nat]]
    /\ ent \in [Inums -> [Names -> Inums \cup {0}]]
    /\ mem \in [Inums -> [ref : Nat, valid : BOOLEAN, type : Types \cup {"free"}, nlink : Nat]]
    /\ lock \in [Inums -> Procs \cup {NoProc}]
    /\ cwd \in [Procs -> Inums \cup {0}]
    /\ file \in [Procs -> Inums \cup {0}]
    /\ \A p \in Procs : {loc[p].ip, loc[p].dp, loc[p].old, loc[p].tgt} \subseteq Inums \cup {0}
    /\ panicked \in {"no", "full", "bug"}
    /\ orphans \subseteq Inums

(* The inode numbers in the variables of process p.                        *)
Variables == {"ip", "dp", "old", "tgt", "cwd", "file"}
Pointer(p, v) == CASE v = "cwd" -> cwd[p] [] v = "file" -> file[p] [] OTHER -> loc[p][v]

(* The references processes hold to inode i.                               *)
Holders(i) == {pv \in Procs \X Variables : Pointer(pv[1], pv[2]) = i}

(* ip->ref is exact: on every path through the calls, error paths          *)
(* included, iget, idup and iput balance, so that no inode stays in icache *)
(* for ever and none leaves it while somebody has a pointer to it.         *)
RefsExact == panicked = "no" => \A i \in Inums : mem[i].ref = Cardinality(Holders(i))

(* An inode that a process has open or as its directory is not freed on    *)
(* disk, whoever unlinks it and in whatever order the iputs run.           *)
UsersAlive == \A p \in Procs, i \in Inums : i \in {cwd[p], file[p]} => dinode[i].type # "free"

(* The names of inode i, and the directories that have their name in it.   *)
Entries(i) == {dn \in Inums \X Plain : ent[dn[1]][dn[2]] = i}
Subdirs(i) == {n \in Plain : ent[i][n] # 0 /\ dinode[ent[i][n]].type = "dir"}

(* The inode whose link a call has counted and not entered yet, or erased  *)
(* and not discounted yet; k is where a call goes on after an iput.        *)
Unsettled(r) ==
    LET at == IF r.pc \in {"iput", "ifree", "idrop"} THEN r.k ELSE r.pc
    IN IF at \in {"bad", "link_undo", "unlink_end"} THEN r.ip
       ELSE IF at = "put_old" THEN 0 ELSE r.old

(* The links that inode i should count: its names, the ".." of each        *)
(* directory in it, those of calls under way, and mkfs's for the root.     *)
NumLinks(i) ==
    Cardinality(Entries(i)) + Cardinality(Subdirs(i))
    + Cardinality({p \in Procs : Unsettled(loc[p]) = i}) + (IF i = ROOTINO THEN 1 ELSE 0)

(* nlink is exact at every moment, on every path through the calls: a      *)
(* failing link takes back what it counted, and a removed directory gives  *)
(* its parent's link back.  Only orphans have links that they count and    *)
(* nothing makes up for, so that they are never freed; and a name never    *)
(* leads to a free inode.                                                  *)
LinksExact ==
    \A i \in Inums : /\ IF i \in orphans THEN NumLinks(i) < dinode[i].nlink
                                         ELSE NumLinks(i) = dinode[i].nlink
                     /\ dinode[i].type = "free" => Entries(i) = {}

(* The directories form a tree: one name leads to a directory, from its    *)
(* "..".                                                                   *)
TreeShape ==
    \A i \in Inums : dinode[i].type = "dir" =>
        LET names == Entries(i) IN
        /\ Cardinality(names) \leq 1
        /\ \A dn \in names : ent[i][".."] = dn[1] /\ ent[i]["."] = i

(* No call panics, except for want of inodes: ilock never finds a freed    *)
(* inode and unlink never finds a link count below 1.                      *)
NoPanic == panicked # "bug"

(* The inode whose lock process p waits for, and the process that has it.  *)
Wants(p) == IF loc[p].pc \in DOMAIN Locks THEN loc[p].ip
            ELSE IF loc[p].pc = "iput" THEN loc[p].tgt ELSE 0
WaitsFor(p, q) == Wants(p) # 0 /\ lock[Wants(p)] = q

(* Processes that wait for each other: ilock alone never gets into a       *)
(* cycle, since the calls lock a directory before what it contains; a      *)
(* cycle needs a process in iput that still has another inode locked.      *)
CyclesNeedPut ==
    \A p, q \in Procs : WaitsFor(p, q) /\ WaitsFor(q, p) => "iput" \in {loc[p].pc, loc[q].pc}

(* No two processes wait for each other's inode, and none for its own.     *)
NoWaitCycle == \A p, q \in Procs : ~(WaitsFor(p, q) /\ WaitsFor(q, p))

(* Both counts of an inode are exact: ref in memory, and nlink on disk     *)
(* unless the inode is an orphan.                                          *)
CountsExact == TypeOK /\ RefsExact /\ LinksExact

(* What a process has is not freed under it, and no call panics over it.   *)
InUseKept == NoPanic /\ UsersAlive
=============================================================================
