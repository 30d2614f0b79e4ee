------------------------------ MODULE FileData ------------------------------
(***************************************************************************)
(* The contents of files: the block bitmap, the direct and indirect blocks *)
(* of an inode and readi and writei over them (fs.c), and open files and   *)
(* descriptors above (file.c, sysfile.c).                                  *)
(*                                                                         *)
(* A block holds BSIZE words; a word is a byte of data, or a block number  *)
(* in an indirect block (so NINDIRECT is BSIZE here, BSIZE / 4 in fs.h).   *)
(* Every file is opened O_RDWR.  A step is what runs under one of the      *)
(* locks: a turn of writei's loop (which allocates under the lock of the   *)
(* bitmap's buffer), or a whole operation on ftable.                       *)
(***************************************************************************)
EXTENDS Integers, Sequences, FiniteSets, FiniteSetsExt

CONSTANTS
    Procs,        \* processes
    Inodes,       \* inodes of files; 0 is none
    NBLOCKS,      \* data blocks of the disk, numbered from 1
    BSIZE, NDIRECT,
    NFILE, NOFILE,  \* open files of the system, of a process (param.h)
    MAXOPBLOCKS,  \* blocks that one transaction may log (param.h)
    UINT,         \* offsets and counts wrap at UINT
    Reads,        \* how much they read
    Sources,      \* what the processes write, sequences of bytes
    MaxWrites,    \* bound: calls of write in a behaviour
    NoProc

ASSUME FileAssumption ==
    /\ {NBLOCKS, BSIZE, NDIRECT, NFILE, NOFILE, UINT} \subseteq Nat \ {0}
    /\ MAXOPBLOCKS \in Nat /\ MAXOPBLOCKS \geq 6
    /\ 0 \notin Inodes /\ NoProc \notin Procs /\ IsFiniteSet(Procs)
    /\ Reads \subseteq 0 .. UINT - 1 /\ Sources \subseteq Seq(Nat) \ {<<>>}
    /\ (NDIRECT + BSIZE) * BSIZE < UINT

VARIABLES
    fs,        \* bitmap, block contents, size and addrs of each inode
    linked,    \* whether the inode has a name
    lock,      \* owner of the inode's sleep lock
    saved,     \* history: the contents of the inode when it was locked
    ftable,    \* open files: ref, ip, off
    ofile,     \* descriptors: index of an open file, or 0
    call,      \* filewrite in progress
    writes,    \* calls of write so far
    panicked   \* "no", "full" (out of blocks) or "bug"

vars == <<fs, linked, lock, saved, ftable, ofile, call, writes, panicked>>

Blk == 1 .. NBLOCKS
BitmapBlk == 0
InodeBlk == NBLOCKS + 1
Words == 0 .. BSIZE - 1
MAXFILE == NDIRECT + BSIZE
Opens == 1 .. NFILE
Fds == 0 .. NOFILE - 1
NoFile == [ref |-> 0, ip |-> 0, off |-> 0]
NoCall == [pc |-> "idle", f |-> 0, src |-> <<>>, n1 |-> 0, tot |-> 0, log |-> {}]
Zero == [w \in Words |-> 0]

Init ==
    /\ fs = [bitmap |-> {}, data |-> [b \in Blk |-> Zero], size |-> [i \in Inodes |-> 0],
             addrs |-> [i \in Inodes |-> [a \in 0 .. NDIRECT |-> 0]]]
    /\ linked = [i \in Inodes |-> FALSE]
    /\ lock = [i \in Inodes |-> NoProc]
    /\ saved = [i \in Inodes |-> <<>>]
    /\ ftable = [j \in Opens |-> NoFile]
    /\ ofile = [p \in Procs |-> [d \in Fds |-> 0]]
    /\ call = [p \in Procs |-> NoCall]
    /\ writes = 0
    /\ panicked = "no"
-----------------------------------------------------------------------------
(* balloc: the first free block, marked in the bitmap and zeroed.          *)
balloc(s, b) == [s EXCEPT !.bitmap = @ \cup {b}, !.data[b] = Zero]

FirstFree(s) == Min(Blk \ s.bitmap)

(* bmap: the block of inode i that holds its block number bn, allocating   *)
(* it, and the indirect block before it, if there is none.  The result is  *)
(* the file system, the block and the blocks that were logged.             *)
Missing(s, i, bn) ==
    IF bn < NDIRECT THEN IF s.addrs[i][bn] = 0 THEN 1 ELSE 0
    ELSE IF s.addrs[i][NDIRECT] = 0 THEN 2
    ELSE IF s.data[s.addrs[i][NDIRECT]][bn - NDIRECT] = 0 THEN 1 ELSE 0

\* Allocate the block of addrs[a] if there is none.
WithAddr(s, i, a) == IF s.addrs[i][a] # 0 THEN s
                     ELSE [balloc(s, FirstFree(s)) EXCEPT !.addrs[i][a] = FirstFree(s)]

bmap(s, i, bn) ==
    IF bn < NDIRECT THEN
        LET t == WithAddr(s, i, bn)
        IN [fs |-> t, b |-> t.addrs[i][bn]]
    ELSE
        LET t == WithAddr(s, i, NDIRECT)
            ind == t.addrs[i][NDIRECT]
            w == bn - NDIRECT
            new == FirstFree(t)
        IN IF t.data[ind][w] # 0 THEN [fs |-> t, b |-> t.data[ind][w]]
           ELSE [fs |-> [balloc(t, new) EXCEPT !.data[ind][w] = new], b |-> new]

(* What log_write records of a step from s to t: the bitmap when a block   *)
(* was allocated, and every block whose contents changed or was allocated. *)
Logged(s, t) == (IF s.bitmap # t.bitmap THEN {BitmapBlk} ELSE {})
                \cup (t.bitmap \ s.bitmap) \cup {b \in Blk : s.data[b] # t.data[b]}

(* itrunc: free the blocks of inode i; bfree panics on a free block.       *)
\* Mutant: the blocks in the indirect block are forgotten.
DirectOnly(s, i) == {s.addrs[i][a] : a \in 0 .. NDIRECT} \ {0}

Owned(s, i) ==
    LET ind == s.addrs[i][NDIRECT]
    IN ({s.addrs[i][a] : a \in 0 .. NDIRECT} \cup
        (IF ind = 0 THEN {} ELSE {s.data[ind][w] : w \in Words})) \ {0}

bfree(s, S) == [s EXCEPT !.bitmap = @ \ S]

itrunc(s, i) == [bfree(s, Owned(s, i)) EXCEPT !.size[i] = 0,
                                              !.addrs[i] = [a \in 0 .. NDIRECT |-> 0]]

(* readi: the bytes of inode i from off, or Error (-1) for a bad range.    *)
Error == <<-1>>
MinOf(a, b) == IF a < b THEN a ELSE b
\* Mutant: a read at the end of the file is an error.
AtEnd(i, off, n) == off \geq fs.size[i] \/ (off + n) % UINT < off

BadRange(i, off, n) == off > fs.size[i] \/ (off + n) % UINT < off

\* The count that readi returns: what there is up to the end of the file.
CutOff(i, off, n) == IF (off + n) % UINT > fs.size[i] THEN fs.size[i] - off ELSE n

readi(i, off, n) ==
    IF BadRange(i, off, n) THEN Error
    ELSE LET len == CutOff(i, off, n)
             rest[tot \in 0 .. len] ==
                 IF tot = len THEN <<>>
                 ELSE LET o == off + tot
                          m == MinOf(len - tot, BSIZE - (o % BSIZE))
                          b == bmap(fs, i, o \div BSIZE).b
                      IN [w \in 1 .. m |-> fs.data[b][(o % BSIZE) + w - 1]] \o rest[tot + m]
         IN rest[0]
-----------------------------------------------------------------------------
(* Reference: byte x of inode i (counted from 0), found by its position.   *)
BlockOf(i, bn) == IF bn < NDIRECT THEN fs.addrs[i][bn]
                  ELSE fs.data[fs.addrs[i][NDIRECT]][bn - NDIRECT]
Content(i) == [x \in 1 .. fs.size[i] |->
                  fs.data[BlockOf(i, (x - 1) \div BSIZE)][(x - 1) % BSIZE]]

Idle(p) == panicked = "no" /\ call[p].pc = "idle"
argfd(p, d) == ofile[p][d]
FreeFds(p) == {d \in Fds : ofile[p][d] = 0}
FreeFiles == {j \in Opens : ftable[j].ref = 0}

(* sys_open with O_CREATE: filealloc and fdalloc, or nothing at all when   *)
(* one of the tables is full.                                              *)
sys_open(p, i) ==
    /\ Idle(p)
    /\ linked[i] \/ \A j \in Opens : ftable[j].ip # i
    /\ linked' = [linked EXCEPT ![i] = TRUE]
    /\ IF FreeFiles = {} \/ FreeFds(p) = {} THEN UNCHANGED <<ftable, ofile>>
       ELSE /\ ftable' = [ftable EXCEPT ![Min(FreeFiles)] = [ref |-> 1, ip |-> i, off |-> 0]]
            /\ ofile' = [ofile EXCEPT ![p][Min(FreeFds(p))] = Min(FreeFiles)]
    /\ UNCHANGED <<fs, lock, saved, call, writes, panicked>>

(* sys_dup: fdalloc, then filedup.                                         *)
sys_dup(p, d) ==
    /\ Idle(p)
    /\ argfd(p, d) # 0 /\ FreeFds(p) # {}
    /\ ofile' = [ofile EXCEPT ![p][Min(FreeFds(p))] = argfd(p, d)]
    /\ ftable' = [ftable EXCEPT ![argfd(p, d)].ref = @ + 1]
    /\ UNCHANGED <<fs, linked, lock, saved, call, writes, panicked>>

(* fork: a child q starts with p's descriptors.                            *)
\* Mutant: only the first descriptor of a file is counted.
CountOnce(f, p) == [j \in Opens |-> [f[j] EXCEPT !.ref =
                       IF \E d \in Fds : ofile[p][d] = j THEN @ + 1 ELSE @]]

Inherit(f, p) == [j \in Opens |-> [f[j] EXCEPT !.ref =
                     @ + Cardinality({d \in Fds : ofile[p][d] = j})]]

fork(p, q) ==
    /\ p # q /\ Idle(p) /\ Idle(q)
    /\ FreeFds(q) = Fds /\ FreeFds(p) # Fds
    /\ ofile' = [ofile EXCEPT ![q] = ofile[p]]
    /\ ftable' = Inherit(ftable, p)
    /\ UNCHANGED <<fs, linked, lock, saved, call, writes, panicked>>

(* iput of the last reference to an inode without a name.                  *)
Released(i, users) == IF linked[i] \/ users # {} THEN UNCHANGED <<fs, panicked>>
                      ELSE IF Owned(fs, i) \subseteq fs.bitmap
                      THEN fs' = itrunc(fs, i) /\ UNCHANGED panicked
                      ELSE panicked' = "bug" /\ UNCHANGED fs

(* sys_close: fileclose drops the open file with its last descriptor.      *)
sys_close(p, d) ==
    LET j == argfd(p, d)
        i == ftable[j].ip IN
    /\ Idle(p)
    /\ j # 0
    /\ ofile' = [ofile EXCEPT ![p][d] = 0]
    /\ IF ftable[j].ref > 1
       THEN /\ ftable' = [ftable EXCEPT ![j].ref = @ - 1]
            /\ UNCHANGED <<fs, panicked>>
       ELSE /\ lock[i] = NoProc
            /\ ftable' = [ftable EXCEPT ![j] = NoFile]
            /\ Released(i, {h \in Opens \ {j} : ftable[h].ip = i})
    /\ UNCHANGED <<linked, lock, saved, call, writes>>

sys_unlink(p, i) ==
    /\ Idle(p)
    /\ linked[i] /\ lock[i] = NoProc
    /\ linked' = [linked EXCEPT ![i] = FALSE]
    /\ IF \E j \in Opens : ftable[j].ip = i THEN UNCHANGED fs ELSE fs' = itrunc(fs, i)
    /\ UNCHANGED <<lock, saved, ftable, ofile, call, writes, panicked>>

(* fileread, under the inode's lock; ReadsRange is about the bytes.        *)
fileread(p, d, n) ==
    LET j == argfd(p, d)
        i == ftable[j].ip IN
    /\ Idle(p)
    /\ j # 0
    /\ lock[i] = NoProc
    /\ ~BadRange(i, ftable[j].off, n)
    /\ ftable' = [ftable EXCEPT ![j].off = @ + CutOff(i, @, n)]
    /\ UNCHANGED <<fs, linked, lock, saved, ofile, call, writes, panicked>>

(* filewrite: chunks of at most max bytes, each a transaction of its own.  *)
\* Mutant: no room is kept for the inode, the indirect block and the slop.
NoSlop(left) == MinOf(left, MAXOPBLOCKS * BSIZE)

Chunk(left) == MinOf(left, ((MAXOPBLOCKS - 1 - 1 - 2) \div 2) * BSIZE)

filewrite(p, d, src) ==
    /\ Idle(p)
    /\ argfd(p, d) # 0
    /\ writes < MaxWrites
    /\ writes' = writes + 1
    /\ call' = [call EXCEPT ![p] = [NoCall EXCEPT !.pc = "chunk", !.f = argfd(p, d), !.src = src]]
    /\ UNCHANGED <<fs, linked, lock, saved, ftable, ofile, panicked>>

(* ilock and the tests of writei; a range that does not fit ends the call. *)
writei_begin(p) ==
    LET c == call[p]
        i == ftable[c.f].ip
        o == ftable[c.f].off
        n1 == Chunk(Len(c.src)) IN
    /\ panicked = "no" /\ c.pc = "chunk"
    /\ lock[i] = NoProc
    /\ IF BadRange(i, o, n1) \/ o + n1 > MAXFILE * BSIZE
       THEN /\ call' = [call EXCEPT ![p] = NoCall]
            /\ UNCHANGED <<lock, saved>>
       ELSE /\ call' = [call EXCEPT ![p] = [c EXCEPT !.pc = "copy", !.n1 = n1, !.tot = 0]]
            /\ lock' = [lock EXCEPT ![i] = p]
            /\ saved' = [saved EXCEPT ![i] = Content(i)]
    /\ UNCHANGED <<fs, linked, ftable, ofile, writes, panicked>>

(* One turn of writei's loop.                                              *)
writei_block(p) ==
    LET c == call[p]
        i == ftable[c.f].ip
        o == ftable[c.f].off + c.tot
        m == MinOf(c.n1 - c.tot, BSIZE - (o % BSIZE))
        mapped == bmap(fs, i, o \div BSIZE)
        t == [mapped.fs EXCEPT !.data[mapped.b] =
                 [w \in Words |-> IF (o % BSIZE) \leq w /\ w < (o % BSIZE) + m
                                  THEN c.src[c.tot + w - (o % BSIZE) + 1] ELSE @[w]]]
    IN
    /\ panicked = "no" /\ c.pc = "copy" /\ c.tot < c.n1
    /\ IF Missing(fs, i, o \div BSIZE) > NBLOCKS - Cardinality(fs.bitmap)
       THEN panicked' = "full" /\ UNCHANGED <<fs, call>>
       ELSE /\ fs' = t
            /\ call' = [call EXCEPT ![p].tot = @ + m,
                                    ![p].log = @ \cup Logged(fs, t) \cup {mapped.b}]
            /\ UNCHANGED panicked
    /\ UNCHANGED <<linked, lock, saved, ftable, ofile, writes>>

\* Mutant: the file ends where the last write does.
EndOfWrite(size, end) == end

NewSize(size, end) == IF end > size THEN end ELSE size

(* The end of writei: a longer file gets its size, the offset moves, and   *)
(* the lock is released.  filewrite goes on with the rest.                 *)
writei_end(p) ==
    LET c == call[p]
        i == ftable[c.f].ip
        o == ftable[c.f].off + c.n1
        rest == SubSeq(c.src, c.n1 + 1, Len(c.src)) IN
    /\ panicked = "no" /\ c.pc = "copy" /\ c.tot = c.n1
    /\ fs' = [fs EXCEPT !.size[i] = NewSize(@, o)]
    /\ ftable' = [ftable EXCEPT ![c.f].off = o]
    /\ lock' = [lock EXCEPT ![i] = NoProc]
    /\ saved' = [saved EXCEPT ![i] = <<>>]
    /\ call' = [call EXCEPT ![p] = IF rest = <<>> THEN NoCall
                                   ELSE [NoCall EXCEPT !.pc = "chunk", !.f = c.f, !.src = rest]]
    /\ UNCHANGED <<linked, ofile, writes, panicked>>

Next ==
    \E p \in Procs :
        \/ \E i \in Inodes : sys_open(p, i) \/ sys_unlink(p, i)
        \/ \E d \in Fds : sys_dup(p, d) \/ sys_close(p, d) \/ (\E n \in Reads : fileread(p, d, n))
                          \/ \E src \in Sources : filewrite(p, d, src)
        \/ \E q \in Procs : fork(p, q)
        \/ writei_begin(p) \/ writei_block(p) \/ writei_end(p)

Spec == Init /\ [][Next]_vars
-----------------------------------------------------------------------------
(* Every variable has its type.                                            *)
TypeOK ==
    /\ fs.bitmap \subseteq Blk
    /\ \A b \in Blk : fs.data[b] \in [Words -> Nat]
    /\ \A i \in Inodes : /\ fs.size[i] \in 0 .. MAXFILE * BSIZE
                         /\ fs.addrs[i] \in [0 .. NDIRECT -> Blk \cup {0}]
    /\ linked \in [Inodes -> BOOLEAN]
    /\ lock \in [Inodes -> Procs \cup {NoProc}]
    /\ ftable \in [Opens -> [ref : Nat, ip : Inodes \cup {0}, off : 0 .. UINT - 1]]
    /\ ofile \in [Procs -> [Fds -> Opens \cup {0}]]
    /\ panicked \in {"no", "full", "bug"}

(* Every place that names a block of inode i, and the block.               *)
Places(i) == {<<"addrs", i, a>> : a \in {a \in 0 .. NDIRECT : fs.addrs[i][a] # 0}} \cup
             {<<"ind", i, w>> : w \in {w \in Words : /\ fs.addrs[i][NDIRECT] # 0
                                                     /\ fs.data[fs.addrs[i][NDIRECT]][w] # 0}}
At(x) == IF x[1] = "addrs" THEN fs.addrs[x[2]][x[3]] ELSE fs.data[fs.addrs[x[2]][NDIRECT]][x[3]]
AllPlaces == UNION {Places(i) : i \in Inodes}

(* The bitmap is exact: a block is marked if and only if one inode, in one *)
(* place, has it.  No block is in two files and none is lost, through      *)
(* growth, rewriting, truncation and reuse.                                *)
BlocksOwnedOnce ==
    /\ {At(x) : x \in AllPlaces} = fs.bitmap
    /\ \A x, y \in AllPlaces : At(x) = At(y) => x = y

(* readi returns the bytes of the range that exist, for every offset and   *)
(* count that a uint can hold, and refuses a range that starts beyond the  *)
(* end or wraps around.  (Looked at when no write is under way.)           *)
ReadsRange ==
    (\A p \in Procs : call[p].pc = "idle") => \A i \in Inodes, off, n \in 0 .. UINT - 1 :
        readi(i, off, n) =
            IF off > fs.size[i] \/ off + n \geq UINT THEN Error
            ELSE SubSeq(Content(i), off + 1, MinOf(off + n, fs.size[i]))

(* A chunk of filewrite, with the inode, stays within the blocks that      *)
(* begin_op reserved for its transaction, unaligned offsets included.      *)
WithinReservation == \A p \in Procs : Cardinality(call[p].log \cup {InodeBlk}) \leq MAXOPBLOCKS

(* Reference counts of open files are exact: the number of descriptors.    *)
(* No open file is lost or reused early, and its inode is released when    *)
(* the last process closes it.                                             *)
DescriptorsCounted ==
    \A j \in Opens : ftable[j].ref =
        Cardinality({pd \in Procs \X Fds : ofile[pd[1]][pd[2]] = j})

(* Open files over blocks implement sequences of bytes with offsets: each  *)
(* chunk of a write appears at once at the shared offset, whatever blocks  *)
(* it spans and whoever else writes.                                       *)
ChunksOf(src) == {SubSeq(src, a, a - 1 + Chunk(Len(src) - a + 1)) : a \in 1 .. Len(src)}
File == INSTANCE ByteFile WITH
    MaxFile <- MAXFILE * BSIZE,
    Writes <- UNION {ChunksOf(src) : src \in Sources},
    content <- [i \in Inodes |-> IF lock[i] = NoProc THEN Content(i) ELSE saved[i]],
    ino <- [j \in Opens |-> ftable[j].ip],
    off <- [j \in Opens |-> ftable[j].off]
BytesInOrder == File!Spec

(* The disk: its types, and one owner for each block.                      *)
DiskInv == TypeOK /\ BlocksOwnedOnce
=============================================================================
