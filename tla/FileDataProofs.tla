--------------------------- MODULE FileDataProofs ---------------------------
(***************************************************************************)
(* What the contents of files guarantee for every number of processes,     *)
(* files and blocks and every length of a write: descriptors are counted,  *)
(* every block has one owner, a chunk of a write stays within its          *)
(* reservation, readi returns the bytes of its range, and open files       *)
(* implement ByteFile.                                                     *)
(***************************************************************************)
EXTENDS FileData, FiniteSetTheorems, SequenceTheorems, WellFoundedInduction, TLAPS

(* The file system as a record.                                            *)
FileSys == [bitmap : SUBSET Blk, data : [Blk -> [Words -> Nat]],
            size : [Inodes -> 0 .. MAXFILE * BSIZE],
            addrs : [Inodes -> [0 .. NDIRECT -> Blk \cup {0}]]]

(* The blocks of an inode are numbered by their place in the file; the     *)
(* last number stands for the indirect block.  0 is no block.              *)
Keys == 0 .. MAXFILE
Loc(s, i, k) ==
    IF k < NDIRECT THEN s.addrs[i][k]
    ELSE IF k = MAXFILE THEN s.addrs[i][NDIRECT]
    ELSE IF s.addrs[i][NDIRECT] = 0 THEN 0
    ELSE s.data[s.addrs[i][NDIRECT]][k - NDIRECT]

(* The bitmap has the blocks of the inodes, each of them once.             *)
Own(s) ==
    /\ \A i \in Inodes, k \in Keys : Loc(s, i, k) \in s.bitmap \cup {0}
    /\ \A i, j \in Inodes, k, l \in Keys :
          Loc(s, i, k) = Loc(s, j, l) /\ Loc(s, i, k) # 0 => i = j /\ k = l
    /\ \A b \in s.bitmap : \E i \in Inodes, k \in Keys : Loc(s, i, k) = b
-----------------------------------------------------------------------------
(* The constants are numbers, and the sets of numbers what they seem.      *)
LEMMA Basics ==
    /\ NBLOCKS \in Nat \ {0} /\ BSIZE \in Nat \ {0} /\ NDIRECT \in Nat \ {0}
    /\ NFILE \in Nat \ {0} /\ NOFILE \in Nat \ {0} /\ UINT \in Nat \ {0}
    /\ MAXFILE \in Nat /\ MAXFILE = NDIRECT + BSIZE
    /\ Blk \subseteq Nat /\ 0 \notin Blk /\ Opens \subseteq Nat /\ 0 \notin Opens
    /\ Fds \subseteq Nat
    /\ IsFiniteSet(Blk) /\ Cardinality(Blk) = NBLOCKS
<1>1. /\ NBLOCKS \in Nat \ {0} /\ BSIZE \in Nat \ {0} /\ NDIRECT \in Nat \ {0}
      /\ NFILE \in Nat \ {0} /\ NOFILE \in Nat \ {0} /\ UINT \in Nat \ {0}
  BY FileAssumption
<1>2. IsFiniteSet(Blk) /\ Cardinality(Blk) = NBLOCKS
  BY <1>1, FS_Interval DEF Blk
<1> QED BY <1>1, <1>2 DEF MAXFILE, Blk, Opens, Fds

(* Min finds an element of any non-empty set of numbers.                   *)
LEMMA MinIn ==
    ASSUME NEW S \in SUBSET Nat, S # {}
    PROVE  Min(S) \in S
<1>1. PICK x \in S : \A y \in S : ~(<<y, x>> \in OpToRel(<, Nat))
  BY WFMin, NatLessThanWellFounded
<1>2. x \in Nat /\ \A y \in S : y \in Nat /\ ~(y < x)
  BY <1>1 DEF OpToRel
<1>3. \A y \in S : x =< y
  BY <1>2
<1> QED BY <1>3 DEF Min

(* The fields of a file system.                                            *)
LEMMA FsType ==
    ASSUME NEW s \in FileSys
    PROVE  /\ s.bitmap \in SUBSET Blk /\ s.data \in [Blk -> [Words -> Nat]]
           /\ s.size \in [Inodes -> 0 .. MAXFILE * BSIZE]
           /\ s.addrs \in [Inodes -> [0 .. NDIRECT -> Blk \cup {0}]]
           /\ \A i \in Inodes, a \in 0 .. NDIRECT : s.addrs[i][a] \in Blk \cup {0}
           /\ \A b \in Blk, w \in Words : s.data[b][w] \in Nat
<1>1. /\ s.bitmap \in SUBSET Blk /\ s.data \in [Blk -> [Words -> Nat]]
      /\ s.size \in [Inodes -> 0 .. MAXFILE * BSIZE]
      /\ s.addrs \in [Inodes -> [0 .. NDIRECT -> Blk \cup {0}]]
  BY DEF FileSys
<1>2. ASSUME NEW i \in Inodes, NEW a \in 0 .. NDIRECT PROVE s.addrs[i][a] \in Blk \cup {0}
  <2>1. s.addrs[i] \in [0 .. NDIRECT -> Blk \cup {0}]
    BY <1>1
  <2> QED BY <2>1
<1>3. \A b \in Blk, w \in Words : s.data[b][w] \in Nat
  BY <1>1
<1> QED BY <1>1, <1>2, <1>3

(* A marked block is a block, and one that is not marked is free.          *)
LEMMA Free ==
    ASSUME NEW s \in FileSys, Cardinality(s.bitmap) < NBLOCKS
    PROVE  FirstFree(s) \in Blk \ s.bitmap
<1>1. s.bitmap \subseteq Blk /\ s.bitmap # Blk
  BY Basics, FsType
<1>2. Blk \ s.bitmap \in SUBSET Nat /\ Blk \ s.bitmap # {}
  BY <1>1, Basics
<1> QED BY <1>2, MinIn DEF FirstFree

(* Block numbers are numbers.                                              *)
LEMMA BlkNat ==
    ASSUME NEW b \in Blk \cup {0}
    PROVE  b \in Nat
  BY Basics

(* The three kinds of place of a block.                                    *)
LEMMA KeyCases ==
    ASSUME NEW k \in Keys
    PROVE  /\ k < NDIRECT \/ k = MAXFILE \/ (NDIRECT <= k /\ k < MAXFILE)
           /\ k < NDIRECT => k \in 0 .. NDIRECT
           /\ NDIRECT <= k /\ k < MAXFILE => k - NDIRECT \in Words
           /\ MAXFILE \in Keys /\ NDIRECT \in 0 .. NDIRECT
<1>1. /\ k \in Int /\ NDIRECT \in Int /\ MAXFILE \in Int /\ BSIZE \in Int /\ 0 <= k
      /\ k <= MAXFILE /\ 0 < NDIRECT /\ NDIRECT < MAXFILE /\ MAXFILE = NDIRECT + BSIZE
  BY Basics DEF Keys
<1> QED BY <1>1 DEF Keys, Words

(* A direct block ...                                                      *)
LEMMA LocDirect ==
    ASSUME NEW s, NEW i, NEW k \in Keys, k < NDIRECT
    PROVE  Loc(s, i, k) = s.addrs[i][k]
  BY DEF Loc

(* ... the indirect block ...                                              *)
LEMMA LocInd ==
    ASSUME NEW s, NEW i
    PROVE  Loc(s, i, MAXFILE) = s.addrs[i][NDIRECT]
<1>1. MAXFILE \in Int /\ NDIRECT \in Int /\ ~(MAXFILE < NDIRECT)
  BY Basics
<1> QED BY <1>1 DEF Loc

(* ... a block that the indirect block names ...                           *)
LEMMA LocWord ==
    ASSUME NEW s, NEW i, NEW k \in Keys, NDIRECT <= k, k < MAXFILE,
           NEW a, s.addrs[i][NDIRECT] = a, a # 0
    PROVE  Loc(s, i, k) = s.data[a][k - NDIRECT]
<1>1. MAXFILE \in Int /\ NDIRECT \in Int /\ k \in Int
  BY Basics DEF Keys
<1> QED BY <1>1 DEF Loc

(* ... or none, if there is no indirect block.                             *)
LEMMA LocNone ==
    ASSUME NEW s, NEW i, NEW k \in Keys, NDIRECT <= k, k < MAXFILE, s.addrs[i][NDIRECT] = 0
    PROVE  Loc(s, i, k) = 0
<1>1. MAXFILE \in Int /\ NDIRECT \in Int /\ k \in Int
  BY Basics DEF Keys
<1> QED BY <1>1 DEF Loc

(* Each block of an inode is a block or none.                              *)
LEMMA LocType ==
    ASSUME NEW s \in FileSys, NEW i \in Inodes, NEW k \in Keys
    PROVE  /\ Loc(s, i, k) \in Nat
           /\ k < NDIRECT \/ k = MAXFILE => Loc(s, i, k) \in Blk \cup {0}
           /\ NDIRECT \in 0 .. NDIRECT /\ (k < NDIRECT => k \in 0 .. NDIRECT)
           /\ NDIRECT <= k /\ k < MAXFILE => k - NDIRECT \in Words
           /\ ~(MAXFILE < NDIRECT) /\ MAXFILE \in Keys
<1>1. /\ NDIRECT \in 0 .. NDIRECT /\ (k < NDIRECT => k \in 0 .. NDIRECT)
      /\ NDIRECT <= k /\ k < MAXFILE => k - NDIRECT \in Words
      /\ ~(MAXFILE < NDIRECT) /\ MAXFILE \in Keys
  BY Basics DEF Keys, Words
<1>2. k \in Int /\ NDIRECT \in Int /\ MAXFILE \in Int /\ NDIRECT < MAXFILE /\ k <= MAXFILE
  BY Basics DEF Keys
<1>3. s.addrs[i][NDIRECT] \in Blk \cup {0}
  BY <1>1, FsType
<1>4. CASE k < NDIRECT
  <2>1. s.addrs[i][k] \in Blk \cup {0}
    BY <1>1, <1>4, FsType
  <2>2. Loc(s, i, k) = s.addrs[i][k]
    BY <1>4 DEF Loc
  <2>3. Loc(s, i, k) \in Blk \cup {0}
    BY <2>1, <2>2
  <2>4. Loc(s, i, k) \in Nat
    BY <2>3, BlkNat
  <2> QED BY <1>1, <1>2, <1>4, <2>3, <2>4
<1>5. CASE k = MAXFILE
  <2>1. Loc(s, i, k) = s.addrs[i][NDIRECT]
    BY <1>2, <1>5 DEF Loc
  <2>2. Loc(s, i, k) \in Blk \cup {0}
    BY <1>3, <2>1
  <2>3. Loc(s, i, k) \in Nat
    BY <2>2, BlkNat
  <2> QED BY <1>1, <1>2, <1>5, <2>2, <2>3
<1>6. CASE NDIRECT <= k /\ k < MAXFILE
  <2>1. k - NDIRECT \in Words
    BY <1>1, <1>6
  <2>2. s.addrs[i][NDIRECT] # 0 => s.data[s.addrs[i][NDIRECT]][k - NDIRECT] \in Nat
    BY <1>3, <2>1, FsType
  <2>3. Loc(s, i, k) \in Nat
    BY <1>2, <1>6, <2>2 DEF Loc
  <2> QED BY <1>1, <1>2, <1>6, <2>3
<1> QED BY <1>2, <1>4, <1>5, <1>6

(* A free block that becomes the block of one place, where there was none, *)
(* has one owner; and so have the others.                                  *)
LEMMA FreshOwned ==
    ASSUME NEW s \in FileSys, NEW t, Own(s), NEW i \in Inodes, NEW k \in Keys,
           NEW b \in Blk \ s.bitmap, t.bitmap = s.bitmap \cup {b},
           Loc(s, i, k) = 0, Loc(t, i, k) = b,
           \A j \in Inodes, l \in Keys : j # i \/ l # k => Loc(t, j, l) = Loc(s, j, l)
    PROVE  Own(t)
<1>1. \A j \in Inodes, l \in Keys : Loc(t, j, l) \in t.bitmap \cup {0}
  BY DEF Own
<1>2. ASSUME NEW j \in Inodes, NEW h \in Inodes, NEW l \in Keys, NEW n \in Keys,
             Loc(t, j, l) = Loc(t, h, n), Loc(t, j, l) # 0
      PROVE  j = h /\ l = n
  <2>1. \A x \in Inodes, y \in Keys : Loc(s, x, y) # b
    BY Basics DEF Own
  <2> QED BY <1>2, <2>1 DEF Own
<1>3. ASSUME NEW c \in t.bitmap
      PROVE  \E j \in Inodes, l \in Keys : Loc(t, j, l) = c
  <2>1. CASE c = b
    BY <2>1
  <2>2. CASE c # b
    <3>1. PICK j \in Inodes, l \in Keys : Loc(s, j, l) = c
      BY <2>2 DEF Own
    <3>2. c # 0
      BY <2>2, FsType, Basics
    <3> QED BY <3>1, <3>2
  <2> QED BY <2>1, <2>2
<1> QED BY <1>1, <1>2, <1>3 DEF Own

(* t is s with more blocks for inode i: what was mapped stays where it was *)
(* with its contents, and the changes are in the blocks C.                 *)
Grown(s, t, i, C) ==
    /\ t \in FileSys /\ Own(t) /\ t.size = s.size
    /\ s.bitmap \subseteq t.bitmap /\ t.bitmap \subseteq s.bitmap \cup C
    /\ \A j \in Inodes, k \in Keys : Loc(s, j, k) # 0 \/ j # i => Loc(t, j, k) = Loc(s, j, k)
    /\ \A j \in Inodes, k \in Keys :
          Loc(s, j, k) # 0 /\ k # MAXFILE => t.data[Loc(s, j, k)] = s.data[Loc(s, j, k)]
    /\ \A c \in Blk \ C : t.data[c] = s.data[c]

(* The key of addrs[a].                                                    *)
KeyOf(a) == IF a = NDIRECT THEN MAXFILE ELSE a

(* bmap allocating the block of addrs[a].                                  *)
LEMMA AddrGrown ==
    ASSUME NEW s \in FileSys, Own(s), NEW i \in Inodes, NEW a \in 0 .. NDIRECT,
           s.addrs[i][a] = 0, Cardinality(s.bitmap) < NBLOCKS
    PROVE  LET t == WithAddr(s, i, a)
           IN  /\ Grown(s, t, i, {FirstFree(s)})
               /\ t.addrs[i][a] = FirstFree(s) /\ t.data[FirstFree(s)] = Zero
               /\ t.bitmap = s.bitmap \cup {FirstFree(s)} /\ FirstFree(s) \in Blk \ s.bitmap
<1> DEFINE b == FirstFree(s)
           t == WithAddr(s, i, a)
           k == KeyOf(a)
<1>1. b \in Blk \ s.bitmap /\ b # 0
  BY Free, Basics
<1>2. /\ t.bitmap = s.bitmap \cup {b} /\ t.data = [s.data EXCEPT ![b] = Zero]
      /\ t.size = s.size /\ t.addrs = [s.addrs EXCEPT ![i][a] = b]
      /\ t = [bitmap |-> t.bitmap, data |-> t.data, size |-> t.size, addrs |-> t.addrs]
  BY <1>1 DEF WithAddr, balloc, FileSys
<1>3. Zero \in [Words -> Nat]
  BY DEF Zero
<1>4. t \in FileSys
  <2>1. t.bitmap \in SUBSET Blk
    BY <1>1, <1>2, FsType
  <2>2. t.data \in [Blk -> [Words -> Nat]]
    BY <1>1, <1>2, <1>3, FsType
  <2>3. t.addrs \in [Inodes -> [0 .. NDIRECT -> Blk \cup {0}]]
    BY <1>1, <1>2, FsType
  <2> QED BY <1>2, <2>1, <2>2, <2>3, FsType DEF FileSys
<1>5. k \in Keys
  BY Basics DEF KeyOf, Keys
<1>6. ASSUME NEW j \in Inodes, NEW c \in 0 .. NDIRECT, j # i \/ c # a
      PROVE  t.addrs[j][c] = s.addrs[j][c]
  BY <1>2, <1>6, FsType
<1>7. ASSUME NEW j \in Inodes, NEW l \in Keys, j # i \/ l # k
      PROVE  Loc(t, j, l) = Loc(s, j, l)
  <2> USE LocType
  <2>1. CASE l < NDIRECT
    BY <1>6, <1>7, <2>1 DEF Loc, KeyOf
  <2>2. CASE l = MAXFILE
    BY <1>6, <1>7, <2>2 DEF Loc, KeyOf
  <2>3. CASE NDIRECT <= l /\ l < MAXFILE
    <3>1. CASE j # i \/ a # NDIRECT
      <4>1. t.addrs[j][NDIRECT] = s.addrs[j][NDIRECT]
        BY <1>6, <3>1
      <4>2. s.addrs[j][NDIRECT] \in s.bitmap \cup {0}
        BY Basics DEF Own, Loc
      <4>3. s.addrs[j][NDIRECT] # 0 => t.data[s.addrs[j][NDIRECT]] = s.data[s.addrs[j][NDIRECT]]
        BY <1>1, <1>2, <4>2, FsType
      <4> QED BY <2>3, <4>1, <4>3, Basics DEF Loc
    <3>2. CASE j = i /\ a = NDIRECT
      <4>1. t.addrs[i][NDIRECT] = b /\ s.addrs[i][NDIRECT] = 0 /\ t.data[b] = Zero
        BY <1>1, <1>2, <3>2, FsType
      <4> QED BY <1>1, <2>3, <3>2, <4>1, Basics DEF Loc, Zero
    <3> QED BY <3>1, <3>2
  <2> QED BY <2>1, <2>2, <2>3, Basics DEF Keys
<1>8. t.addrs[i][a] = b /\ Loc(t, i, k) = b /\ Loc(s, i, k) = 0
  <2>1. t.addrs[i][a] = b
    <3>1. s.addrs \in [Inodes -> [0 .. NDIRECT -> Blk \cup {0}]]
      BY FsType
    <3>2. t.addrs = [s.addrs EXCEPT ![i][a] = b]
      BY <1>2
    <3> QED BY <3>1, <3>2
  <2> QED BY <2>1, Basics DEF Loc, KeyOf
<1>9. Own(t)
  BY <1>1, <1>2, <1>5, <1>7, <1>8, FreshOwned
<1>10. \A c \in Blk \ {b} : t.data[c] = s.data[c]
  BY <1>2, FsType
<1>11. \A j \in Inodes, l \in Keys : Loc(s, j, l) # 0 => Loc(s, j, l) \in s.bitmap \ {b} /\ Loc(s, j, l) \in Blk
  BY <1>1, FsType DEF Own
<1>12. t.data[b] = Zero
  BY <1>1, <1>2, FsType
<1> QED BY <1>1, <1>2, <1>4, <1>7, <1>8, <1>9, <1>10, <1>11, <1>12 DEF Grown

(* bmap allocating word w of the indirect block.                           *)
WithWord(s, ind, w, b) == [balloc(s, b) EXCEPT !.data[ind][w] = b]

WordSet(s, t, ind, w, b) ==
    /\ t \in FileSys
    /\ t.bitmap = s.bitmap \cup {b} /\ t.addrs = s.addrs /\ t.size = s.size
    /\ t.data[ind] = [s.data[ind] EXCEPT ![w] = b]
    /\ \A c \in Blk \ {ind, b} : t.data[c] = s.data[c]

(* A new block named by the indirect block ind: what becomes of each       *)
(* field.                                                                  *)
LEMMA WordType ==
    ASSUME NEW s \in FileSys, NEW w \in Words, NEW ind \in Blk, NEW b \in Blk, ind # b
    PROVE  WordSet(s, WithWord(s, ind, w, b), ind, w, b)
<1>1. PICK t : t = WithWord(s, ind, w, b)
  OBVIOUS
<1>2. /\ t.bitmap = s.bitmap \cup {b}
      /\ t.data = [[s.data EXCEPT ![b] = Zero] EXCEPT ![ind][w] = b]
      /\ t.size = s.size /\ t.addrs = s.addrs
      /\ t = [bitmap |-> t.bitmap, data |-> t.data, size |-> t.size, addrs |-> t.addrs]
  BY <1>1 DEF WithWord, balloc, FileSys
<1>3. Zero \in [Words -> Nat] /\ b \in Nat
  BY Basics DEF Zero
<1>4. s.data \in [Blk -> [Words -> Nat]]
  BY FsType
<1>5. PICK d : d = [s.data EXCEPT ![b] = Zero]
  OBVIOUS
<1>6. /\ t.data \in [Blk -> [Words -> Nat]]
      /\ \A c \in Blk \ {ind, b} : t.data[c] = s.data[c]
      /\ t.data[ind] = [s.data[ind] EXCEPT ![w] = b]
  <2>1. d \in [Blk -> [Words -> Nat]]
    BY <1>3, <1>4, <1>5
  <2>2. \A c \in Blk \ {b} : d[c] = s.data[c]
    BY <1>4, <1>5
  <2>3. PICK e : e = [d[ind] EXCEPT ![w] = b]
    OBVIOUS
  <2>4. e \in [Words -> Nat] /\ t.data = [d EXCEPT ![ind] = e]
    BY <1>2, <1>3, <1>5, <2>1, <2>3
  <2>5. t.data \in [Blk -> [Words -> Nat]] /\ \A c \in Blk \ {ind} : t.data[c] = d[c]
    BY <2>1, <2>4
  <2>6. t.data[ind] = [d[ind] EXCEPT ![w] = b]
    BY <2>1, <2>3, <2>4
  <2> QED BY <2>2, <2>5, <2>6
<1>7. t.bitmap \in SUBSET Blk
  BY <1>2, FsType
<1>8. t \in FileSys
  BY <1>2, <1>6, <1>7, FsType DEF FileSys
<1> QED BY <1>1, <1>2, <1>6, <1>8 DEF WordSet

(* ... changes no other place.                                             *)
LEMMA WordGrown ==
    ASSUME NEW s \in FileSys, Own(s), NEW i \in Inodes, NEW w \in Words,
           NEW ind, ind = s.addrs[i][NDIRECT], ind # 0, s.data[ind][w] = 0,
           NEW b \in Blk \ s.bitmap, NEW t, WordSet(s, t, ind, w, b)
    PROVE  Grown(s, t, i, {ind, b})
<1> DEFINE k == NDIRECT + w
<1>0. /\ t \in FileSys
      /\ t.bitmap = s.bitmap \cup {b} /\ t.addrs = s.addrs /\ t.size = s.size
      /\ t.data[ind] = [s.data[ind] EXCEPT ![w] = b]
      /\ \A c \in Blk \ {ind, b} : t.data[c] = s.data[c]
  BY DEF WordSet
<1> USE <1>0
<1>1. b # 0 /\ ind \in s.bitmap /\ ind # b /\ ind \in Blk
  <2>1. MAXFILE \in Keys /\ Loc(s, i, MAXFILE) = ind
    BY Basics, LocInd DEF Keys
  <2>2. ind \in s.bitmap
    BY <2>1 DEF Own
  <2> QED BY <2>2, Basics, FsType
<1>6. s.data \in [Blk -> [Words -> Nat]]
  BY FsType
<1>7. t.data[ind][w] = b /\ \A v \in Words \ {w} : t.data[ind][v] = s.data[ind][v]
  BY <1>1, <1>6
<1>9. k \in Keys /\ NDIRECT <= k /\ k < MAXFILE /\ k - NDIRECT = w
  BY Basics DEF Keys, Words
<1>10. ASSUME NEW j \in Inodes, NEW l \in Keys, j # i \/ l # k
       PROVE  Loc(t, j, l) = Loc(s, j, l)
  <2> USE LocType
  <2>1. CASE l < NDIRECT \/ l = MAXFILE
    BY <2>1, Basics DEF Loc
  <2>2. CASE NDIRECT <= l /\ l < MAXFILE
    <3> DEFINE own == s.addrs[j][NDIRECT]
    <3>1. CASE own = 0
      BY <2>2, <3>1, Basics DEF Loc
    <3>2. CASE own # 0 /\ j = i
      <4>1. l - NDIRECT \in Words \ {w}
        BY <1>9, <1>10, <2>2, <3>2, Basics DEF Keys
      <4>2. t.data[ind][l - NDIRECT] = s.data[ind][l - NDIRECT]
        BY <1>7, <4>1
      <4> QED BY <2>2, <3>2, <4>2, Basics DEF Loc
    <3>3. CASE own # 0 /\ j # i
      <4>1. Loc(s, j, MAXFILE) = own /\ Loc(s, i, MAXFILE) = ind
        BY Basics DEF Loc
      <4>2. own \in s.bitmap /\ own # ind
        BY <3>3, <4>1, <1>1 DEF Own
      <4>3. own \in Blk \ {ind, b}
        BY <4>2, FsType
      <4>4. t.data[own] = s.data[own]
        BY <4>3
      <4>5. t.addrs[j][NDIRECT] = own
        OBVIOUS
      <4>6. Loc(s, j, l) = s.data[own][l - NDIRECT]
        BY <2>2, <3>3, LocWord
      <4>7. Loc(t, j, l) = t.data[own][l - NDIRECT]
        BY <2>2, <3>3, <4>5, LocWord
      <4> QED BY <4>4, <4>6, <4>7
    <3> QED BY <3>1, <3>2, <3>3
  <2> QED BY <2>1, <2>2, Basics DEF Keys
<1>11. Loc(s, i, k) = 0 /\ Loc(t, i, k) = b
  <2>1. t.addrs[i][NDIRECT] = ind
    OBVIOUS
  <2>2. Loc(s, i, k) = s.data[ind][k - NDIRECT]
    BY <1>9, LocWord
  <2>3. Loc(t, i, k) = t.data[ind][k - NDIRECT]
    <3> HIDE DEF k
    <3>1. k \in Int /\ NDIRECT \in Int /\ MAXFILE \in Int
      BY <1>9, Basics DEF Keys
    <3>2. ~(k < NDIRECT) /\ k # MAXFILE
      BY <1>9, <3>1
    <3> QED BY <2>1, <3>2 DEF Loc
  <2> QED BY <1>7, <1>9, <2>2, <2>3
<1>12. Own(t)
  BY <1>9, <1>10, <1>11, FreshOwned
<1>13. ASSUME NEW j \in Inodes, NEW l \in Keys, Loc(s, j, l) # 0
       PROVE  /\ Loc(t, j, l) = Loc(s, j, l)
              /\ l # MAXFILE => t.data[Loc(s, j, l)] = s.data[Loc(s, j, l)]
  <2>1. Loc(t, j, l) = Loc(s, j, l)
    BY <1>10, <1>11, <1>13
  <2>2. ASSUME l # MAXFILE PROVE Loc(s, j, l) \in Blk \ {ind, b}
    <3>1. Loc(s, j, l) \in s.bitmap
      BY <1>13 DEF Own
    <3>2. Loc(s, i, MAXFILE) = ind /\ MAXFILE \in Keys
      BY Basics DEF Loc, Keys
    <3>3. Loc(s, j, l) # ind
      BY <1>13, <2>2, <3>2 DEF Own
    <3> QED BY <3>1, <3>3, FsType
  <2> QED BY <2>1, <2>2
<1>14. ASSUME NEW j \in Inodes, NEW l \in Keys, j # i
       PROVE  Loc(t, j, l) = Loc(s, j, l)
  BY <1>10, <1>14
<1>15. s.bitmap \subseteq t.bitmap /\ t.bitmap \subseteq s.bitmap \cup {ind, b}
  OBVIOUS
<1>16. Grown(s, t, i, {ind, b})
  <2> HIDE DEF k
  <2>1. \A j \in Inodes, l \in Keys : Loc(s, j, l) # 0 \/ j # i => Loc(t, j, l) = Loc(s, j, l)
    BY <1>13, <1>14
  <2>2. \A j \in Inodes, l \in Keys :
           Loc(s, j, l) # 0 /\ l # MAXFILE => t.data[Loc(s, j, l)] = s.data[Loc(s, j, l)]
    BY <1>13
  <2> QED BY <1>12, <1>15, <2>1, <2>2 DEF Grown
<1> QED BY <1>16

(* Growth by nothing, and growth after growth.                             *)
LEMMA GrownSame ==
    ASSUME NEW s \in FileSys, Own(s), NEW i, NEW C
    PROVE  Grown(s, s, i, C)
  BY DEF Grown

(* Growth within a set of blocks is growth within a larger set.            *)
LEMMA GrownMore ==
    ASSUME NEW s, NEW t, NEW i, NEW C, NEW D, Grown(s, t, i, C), C \subseteq D
    PROVE  Grown(s, t, i, D)
  BY DEF Grown

(* Growth after growth is growth.                                          *)
LEMMA GrownTwice ==
    ASSUME NEW s, NEW t, NEW u, NEW i, NEW C, NEW D, Grown(s, t, i, C), Grown(t, u, i, D)
    PROVE  Grown(s, u, i, C \cup D)
  BY DEF Grown

(* bmap with the indirect block in place.                                  *)
WordAdded(s, t, i, ind, w, b) ==
    /\ Grown(s, t, i, {ind, b})
    /\ t.data[ind][w] = b /\ t.addrs = s.addrs
    /\ t.bitmap = s.bitmap \cup {b} /\ b \in Blk \ s.bitmap

(* bmap beyond the direct blocks, when the indirect block is there and     *)
(* names no block yet.                                                     *)
LEMMA BmapWord ==
    ASSUME NEW s \in FileSys, Own(s), NEW i \in Inodes, NEW w \in Words,
           NEW ind, ind = s.addrs[i][NDIRECT], ind # 0, s.data[ind][w] = 0,
           Cardinality(s.bitmap) < NBLOCKS,
           NEW b, b = FirstFree(s), NEW t, t = WithWord(s, ind, w, b)
    PROVE  WordAdded(s, t, i, ind, w, b)
<1>1. b \in Blk \ s.bitmap
  BY Free
<1>2. ind \in s.bitmap
  <2>1. MAXFILE \in Keys /\ Loc(s, i, MAXFILE) = ind
    BY Basics, LocInd DEF Keys
  <2> QED BY <2>1 DEF Own
<1>3. ind \in Blk /\ ind # b
  BY <1>1, <1>2, FsType
<1>4. WordSet(s, t, ind, w, b)
  BY <1>1, <1>3, WordType
<1>5. t.bitmap = s.bitmap \cup {b} /\ t.addrs = s.addrs
  BY <1>4 DEF WordSet
<1>6. Grown(s, t, i, {ind, b}) /\ t.data[ind][w] = b
  <2>1. Grown(s, t, i, {ind, b})
    BY <1>1, <1>4, WordGrown
  <2>2. t.data[ind] = [s.data[ind] EXCEPT ![w] = b] /\ s.data[ind] \in [Words -> Nat]
    BY <1>3, <1>4, FsType DEF WordSet
  <2> QED BY <2>1, <2>2
<1> QED BY <1>1, <1>5, <1>6 DEF WordAdded

(* A block more in the bitmap is one more.                                 *)
LEMMA OneMore ==
    ASSUME NEW s \in FileSys, NEW b \in Blk \ s.bitmap
    PROVE  /\ Cardinality(s.bitmap) \in Nat
           /\ Cardinality(s.bitmap \cup {b}) = Cardinality(s.bitmap) + 1
<1>1. s.bitmap \in SUBSET Blk /\ IsFiniteSet(Blk)
  BY FsType, Basics
<1>2. IsFiniteSet(s.bitmap)
  BY <1>1, FS_Subset
<1> QED BY <1>2, FS_AddElement, FS_CardinalityType

(* bmap maps block bn of inode i to a block, and otherwise changes only    *)
(* what was free and the indirect block.                                   *)
Mapped(s, r, i, bn) ==
    /\ Grown(s, r.fs, i, {r.b, Loc(r.fs, i, MAXFILE)})
    /\ Loc(r.fs, i, bn) = r.b /\ r.b \in Blk

(* bmap of a direct block: the block is there afterwards, and nothing else *)
(* has changed.                                                            *)
LEMMA BmapDirect ==
    ASSUME NEW s \in FileSys, Own(s), NEW i \in Inodes, NEW bn \in Keys, bn < NDIRECT,
           Missing(s, i, bn) <= NBLOCKS - Cardinality(s.bitmap)
    PROVE  Mapped(s, bmap(s, i, bn), i, bn)
<1>1. PICK t : t = WithAddr(s, i, bn)
  OBVIOUS
<1>2. PICK b : b = t.addrs[i][bn]
  OBVIOUS
<1>3. PICK r : r = bmap(s, i, bn)
  OBVIOUS
<1>4. r.fs = t /\ r.b = b
  BY <1>1, <1>2, <1>3 DEF bmap
<1>5. bn \in 0 .. NDIRECT /\ s.addrs[i][bn] \in Blk \cup {0}
  BY FsType, KeyCases
<1>6. Grown(s, t, i, {b}) /\ b \in Blk
  <2>1. CASE s.addrs[i][bn] # 0
    BY <1>1, <1>2, <1>5, <2>1, GrownSame DEF WithAddr
  <2>2. CASE s.addrs[i][bn] = 0
    <3>1. Missing(s, i, bn) = 1
      BY <2>2 DEF Missing
    <3>2. IsFiniteSet(s.bitmap)
      BY FsType, Basics, FS_Subset
    <3>3. Cardinality(s.bitmap) < NBLOCKS
      BY <3>1, <3>2, FS_CardinalityType, Basics
    <3> QED BY <1>1, <1>2, <1>5, <2>2, <3>3, AddrGrown
  <2> QED BY <2>1, <2>2
<1>7. Loc(t, i, bn) = b
  BY <1>2, LocDirect
<1>8. Grown(s, t, i, {b, Loc(t, i, MAXFILE)})
  BY <1>6, GrownMore
<1> QED BY <1>3, <1>4, <1>6, <1>7, <1>8 DEF Mapped

(* bmap of a block beyond the direct ones, with the indirect block or      *)
(* without.                                                                *)
LEMMA BmapIndirect ==
    ASSUME NEW s \in FileSys, Own(s), NEW i \in Inodes, NEW bn \in Keys, NDIRECT <= bn, bn < MAXFILE,
           Missing(s, i, bn) <= NBLOCKS - Cardinality(s.bitmap)
    PROVE  Mapped(s, bmap(s, i, bn), i, bn)
<1> DEFINE card == Cardinality(s.bitmap)
<1>0. NDIRECT \in 0 .. NDIRECT /\ MAXFILE \in Keys /\ bn - NDIRECT \in Words /\ ~(bn < NDIRECT)
  <2>1. bn \in Int /\ NDIRECT \in Nat
    BY Basics DEF Keys
  <2> QED BY <2>1, KeyCases
<1>1. PICK u : u = WithAddr(s, i, NDIRECT)
  OBVIOUS
<1>2. PICK ind : ind = u.addrs[i][NDIRECT]
  OBVIOUS
<1>3. PICK w \in Words : w = bn - NDIRECT
  BY <1>0
<1>4. PICK r : r = bmap(s, i, bn)
  OBVIOUS
<1>5. PICK new : new = FirstFree(u)
  OBVIOUS
<1>6. r = IF u.data[ind][w] # 0 THEN [fs |-> u, b |-> u.data[ind][w]]
          ELSE [fs |-> WithWord(u, ind, w, new), b |-> new]
  BY <1>0, <1>1, <1>2, <1>3, <1>4, <1>5 DEF bmap, WithWord
<1>7. IsFiniteSet(s.bitmap) /\ card \in Nat
  <2>1. IsFiniteSet(s.bitmap)
    BY FsType, Basics, FS_Subset
  <2> QED BY <2>1, FS_CardinalityType
<1>8. /\ Grown(s, u, i, {ind}) /\ ind \in Blk
      /\ u.data[ind][w] = 0 => Cardinality(u.bitmap) < NBLOCKS
  <2>1. CASE s.addrs[i][NDIRECT] # 0
    <3>1. u = s /\ ind \in Blk
      BY <1>0, <1>1, <1>2, <2>1, FsType DEF WithAddr
    <3>2. u.data[ind][w] = 0 => Missing(s, i, bn) = 1
      BY <1>0, <1>2, <1>3, <2>1, <3>1 DEF Missing
    <3> QED BY <1>7, <3>1, <3>2, Basics, GrownSame
  <2>2. CASE s.addrs[i][NDIRECT] = 0
    <3>1. Missing(s, i, bn) = 2
      BY <1>0, <2>2 DEF Missing
    <3>2. card < NBLOCKS /\ card + 1 < NBLOCKS
      BY <1>7, <3>1, Basics
    <3>3. PICK b : b = FirstFree(s)
      OBVIOUS
    <3>4. Grown(s, u, i, {b}) /\ ind = b /\ u.bitmap = s.bitmap \cup {b} /\ b \in Blk \ s.bitmap
      BY <1>0, <1>1, <1>2, <2>2, <3>2, <3>3, AddrGrown
    <3> QED BY <3>2, <3>4, OneMore
  <2> QED BY <2>1, <2>2
<1>9. u \in FileSys /\ Own(u) /\ ind # 0 /\ ind \in Nat
  BY <1>8, Basics DEF Grown
<1>10. CASE u.data[ind][w] # 0
  <2>1. PICK b : b = u.data[ind][w]
    OBVIOUS
  <2>2. r.fs = u /\ r.b = b
    BY <1>6, <1>10, <2>1
  <2>3. Loc(u, i, bn) = b
    BY <1>2, <1>3, <1>9, <2>1, LocWord
  <2>4. b \in Blk
    <3>1. b \in u.bitmap /\ u.bitmap \subseteq Blk
      BY <1>9, <1>10, <2>1, <2>3, FsType DEF Own
    <3> QED BY <3>1
  <2>5. Loc(u, i, MAXFILE) = ind
    BY <1>2, LocInd
  <2>6. Grown(s, u, i, {b, Loc(u, i, MAXFILE)})
    BY <1>8, <2>5, GrownMore
  <2> QED BY <1>4, <2>2, <2>3, <2>4, <2>6 DEF Mapped
<1>11. CASE u.data[ind][w] = 0
  <2>1. PICK t : t = WithWord(u, ind, w, new)
    OBVIOUS
  <2>2. r.fs = t /\ r.b = new
    BY <1>6, <1>11, <2>1
  <2>3. /\ Grown(u, t, i, {ind, new})
        /\ t.data[ind][w] = new /\ t.addrs = u.addrs /\ new \in Blk
    <3>1. WordAdded(u, t, i, ind, w, new)
      BY <1>2, <1>5, <1>8, <1>9, <1>11, <2>1, BmapWord
    <3> QED BY <3>1 DEF WordAdded
  <2>4. t.addrs[i][NDIRECT] = ind
    BY <1>2, <2>3
  <2>5. Loc(t, i, bn) = new
    BY <1>3, <1>9, <2>3, <2>4, LocWord
  <2>6. Loc(t, i, MAXFILE) = ind
    BY <2>4, LocInd
  <2>7. Grown(s, t, i, {ind} \cup {ind, new})
    BY <1>8, <2>3, GrownTwice
  <2>8. Grown(s, t, i, {new, Loc(t, i, MAXFILE)})
    BY <2>6, <2>7, GrownMore
  <2> QED BY <1>4, <2>2, <2>3, <2>5, <2>8 DEF Mapped
<1> QED BY <1>10, <1>11

(* bmap, direct or not.                                                    *)
LEMMA BmapMaps ==
    ASSUME NEW s \in FileSys, Own(s), NEW i \in Inodes, NEW bn \in Keys, bn < MAXFILE,
           Missing(s, i, bn) <= NBLOCKS - Cardinality(s.bitmap)
    PROVE  Mapped(s, bmap(s, i, bn), i, bn)
<1>1. bn \in Int /\ NDIRECT \in Int
  BY Basics DEF Keys
<1> QED BY <1>1, BmapDirect, BmapIndirect

(* Writing the contents of a block other than the indirect block.          *)
Store(s, b, x) == [s EXCEPT !.data[b] = x]

Stored(s, t, b, x) ==
    /\ t \in FileSys /\ Own(t)
    /\ t.bitmap = s.bitmap /\ t.size = s.size /\ t.addrs = s.addrs
    /\ t.data[b] = x /\ \A c \in Blk \ {b} : t.data[c] = s.data[c]
    /\ \A j \in Inodes, k \in Keys : Loc(t, j, k) = Loc(s, j, k)

(* Storing data in a block that is not an indirect block moves no block.   *)
LEMMA StoreKeeps ==
    ASSUME NEW s \in FileSys, Own(s), NEW i \in Inodes, NEW bn \in Keys, bn < MAXFILE,
           NEW b \in Blk, Loc(s, i, bn) = b, NEW x \in [Words -> Nat]
    PROVE  Stored(s, Store(s, b, x), b, x)
<1>1. PICK t : t = Store(s, b, x)
  OBVIOUS
<1>2. /\ t.bitmap = s.bitmap /\ t.size = s.size /\ t.addrs = s.addrs
      /\ t.data = [s.data EXCEPT ![b] = x]
      /\ t = [bitmap |-> t.bitmap, data |-> t.data, size |-> t.size, addrs |-> t.addrs]
  BY <1>1 DEF Store, FileSys
<1>3. /\ t.data \in [Blk -> [Words -> Nat]] /\ t.data[b] = x
      /\ \A c \in Blk \ {b} : t.data[c] = s.data[c]
  BY <1>2, FsType
<1>4. t \in FileSys
  BY <1>2, <1>3, FsType DEF FileSys
<1>5. ASSUME NEW j \in Inodes, NEW k \in Keys
      PROVE  Loc(t, j, k) = Loc(s, j, k)
  <2>1. MAXFILE \in Keys /\ MAXFILE # bn
    BY Basics DEF Keys
  <2>2. PICK a : a = s.addrs[j][NDIRECT]
    OBVIOUS
  <2>3. a # 0 => a \in Blk \ {b}
    <3>1. Loc(s, j, MAXFILE) = a
      BY <2>2, LocInd
    <3>2. a # 0 => a \in s.bitmap /\ a # b
      BY <2>1, <3>1 DEF Own
    <3> QED BY <3>2, FsType
  <2>4. a # 0 => t.data[a] = s.data[a]
    BY <1>3, <2>3
  <2> QED BY <1>2, <2>2, <2>4 DEF Loc
<1>6. Own(t)
  BY <1>2, <1>5 DEF Own
<1> QED BY <1>1, <1>2, <1>3, <1>4, <1>5, <1>6 DEF Stored

(* itrunc frees the blocks of its inode, and those only.                   *)
LEMMA OwnedLoc ==
    ASSUME NEW s \in FileSys, NEW i \in Inodes, NEW b
    PROVE  b \in Owned(s, i) <=> b # 0 /\ \E k \in Keys : Loc(s, i, k) = b
<1>1. PICK ind : ind = s.addrs[i][NDIRECT]
  OBVIOUS
<1>2. /\ NDIRECT \in Nat /\ MAXFILE \in Nat /\ BSIZE \in Nat /\ MAXFILE = NDIRECT + BSIZE
      /\ 0 < NDIRECT /\ NDIRECT < MAXFILE
  BY Basics
<1>3. b \in Owned(s, i) <=>
         b # 0 /\ (\/ \E a \in 0 .. NDIRECT : b = s.addrs[i][a]
                   \/ ind # 0 /\ \E w \in Words : b = s.data[ind][w])
  BY <1>1 DEF Owned
<1>4. ASSUME NEW a \in 0 .. NDIRECT, b = s.addrs[i][a]
      PROVE  \E k \in Keys : Loc(s, i, k) = b
  <2>1. CASE a = NDIRECT
    BY <1>2, <1>4, <2>1, LocInd DEF Keys
  <2>2. CASE a # NDIRECT
    <3>1. a < NDIRECT /\ a \in Keys
      BY <1>2, <2>2 DEF Keys
    <3> QED BY <1>4, <3>1, LocDirect
  <2> QED BY <2>1, <2>2
<1>5. ASSUME NEW w \in Words, b = s.data[ind][w], ind # 0
      PROVE  \E k \in Keys : Loc(s, i, k) = b
  <2>1. PICK k : k = NDIRECT + w
    OBVIOUS
  <2>2. k \in Keys /\ NDIRECT <= k /\ k < MAXFILE /\ k - NDIRECT = w
    BY <1>2, <2>1 DEF Keys, Words
  <2>3. Loc(s, i, k) = s.data[ind][k - NDIRECT]
    BY <1>1, <1>5, <2>2, LocWord
  <2> QED BY <1>5, <2>2, <2>3
<1>6. ASSUME NEW k \in Keys, Loc(s, i, k) = b, b # 0
      PROVE  \/ \E a \in 0 .. NDIRECT : b = s.addrs[i][a]
             \/ ind # 0 /\ \E w \in Words : b = s.data[ind][w]
  <2>1. CASE k < NDIRECT
    BY <1>6, <2>1, KeyCases, LocDirect
  <2>2. CASE k = MAXFILE
    BY <1>6, <2>2, KeyCases, LocInd
  <2>3. CASE NDIRECT <= k /\ k < MAXFILE
    <3>1. ind # 0
      BY <1>1, <1>6, <2>3, LocNone
    <3>2. k - NDIRECT \in Words
      BY <2>3, KeyCases
    <3> QED BY <1>1, <1>6, <2>3, <3>1, <3>2, LocWord
  <2> QED BY <2>1, <2>2, <2>3, KeyCases
<1> QED BY <1>3, <1>4, <1>5, <1>6

Truncated(s, t, i) ==
    /\ t \in FileSys /\ Own(t)
    /\ t.data = s.data /\ t.size = [s.size EXCEPT ![i] = 0]
    /\ \A j \in Inodes, k \in Keys : j # i => Loc(t, j, k) = Loc(s, j, k)
    /\ Owned(s, i) \subseteq s.bitmap

(* itrunc takes all its blocks from inode i, and leaves the others alone.  *)
LEMMA ItruncFrees ==
    ASSUME NEW s \in FileSys, Own(s), NEW i \in Inodes
    PROVE  Truncated(s, itrunc(s, i), i)
<1>1. PICK t : t = itrunc(s, i)
  OBVIOUS
<1>2. /\ t.bitmap = s.bitmap \ Owned(s, i) /\ t.data = s.data
      /\ t.size = [s.size EXCEPT ![i] = 0]
      /\ t.addrs = [s.addrs EXCEPT ![i] = [a \in 0 .. NDIRECT |-> 0]]
      /\ t = [bitmap |-> t.bitmap, data |-> t.data, size |-> t.size, addrs |-> t.addrs]
  BY <1>1 DEF itrunc, bfree, FileSys
<1>3. t \in FileSys
  <2>1. t.bitmap \in SUBSET Blk
    BY <1>2, FsType
  <2>2. t.size \in [Inodes -> 0 .. MAXFILE * BSIZE]
    <3>1. MAXFILE * BSIZE \in Nat
      BY Basics
    <3>2. 0 \in 0 .. MAXFILE * BSIZE
      BY <3>1
    <3> QED BY <1>2, <3>2, FsType
  <2>3. t.addrs \in [Inodes -> [0 .. NDIRECT -> Blk \cup {0}]]
    BY <1>2, FsType
  <2> QED BY <1>2, <2>1, <2>2, <2>3, FsType DEF FileSys
<1>4. ASSUME NEW j \in Inodes, NEW k \in Keys, j # i
      PROVE  Loc(t, j, k) = Loc(s, j, k)
  <2>1. t.addrs[j] = s.addrs[j]
    BY <1>2, <1>4, FsType
  <2> QED BY <1>2, <2>1 DEF Loc
<1>5. ASSUME NEW k \in Keys
      PROVE  Loc(t, i, k) = 0
  <2>1. t.addrs[i] = [a \in 0 .. NDIRECT |-> 0]
    BY <1>2, FsType
  <2>2. t.addrs[i][NDIRECT] = 0 /\ (k < NDIRECT => t.addrs[i][k] = 0)
    BY <2>1, KeyCases
  <2> QED BY <2>2 DEF Loc
<1>6. Owned(s, i) \subseteq s.bitmap
  BY OwnedLoc DEF Own
<1>7. Own(t)
  <2>1. ASSUME NEW j \in Inodes, NEW k \in Keys, j # i, Loc(s, j, k) # 0
        PROVE  Loc(s, j, k) \in t.bitmap
    <3>1. Loc(s, j, k) \in s.bitmap
      BY <2>1 DEF Own
    <3>2. Loc(s, j, k) \notin Owned(s, i)
      BY <2>1, OwnedLoc DEF Own
    <3> QED BY <1>2, <3>1, <3>2
  <2>2. \A j \in Inodes, k \in Keys : Loc(t, j, k) \in t.bitmap \cup {0}
    BY <1>4, <1>5, <2>1
  <2>3. \A j, h \in Inodes, k, l \in Keys :
           Loc(t, j, k) = Loc(t, h, l) /\ Loc(t, j, k) # 0 => j = h /\ k = l
    BY <1>4, <1>5 DEF Own
  <2>4. ASSUME NEW b \in t.bitmap
        PROVE  \E j \in Inodes, k \in Keys : Loc(t, j, k) = b
    <3>1. b \in s.bitmap /\ b \notin Owned(s, i) /\ b # 0
      BY <1>2, FsType, Basics
    <3>2. PICK j \in Inodes, k \in Keys : Loc(s, j, k) = b
      BY <3>1 DEF Own
    <3>3. j # i
      BY <3>1, <3>2, OwnedLoc
    <3> QED BY <1>4, <3>2, <3>3
  <2> QED BY <2>2, <2>3, <2>4 DEF Own
<1> QED BY <1>1, <1>2, <1>3, <1>4, <1>6, <1>7 DEF Truncated

(* The same with the places of BlocksOwnedOnce.                            *)
PlaceOf(i, k) == IF k < NDIRECT THEN <<"addrs", i, k>>
                 ELSE IF k = MAXFILE THEN <<"addrs", i, NDIRECT>>
                 ELSE <<"ind", i, k - NDIRECT>>

(* Every place of BlocksOwnedOnce is the place of a block number ...       *)
LEMMA PlaceHasKey ==
    ASSUME fs \in FileSys, NEW x \in AllPlaces
    PROVE  \E i \in Inodes, k \in Keys : x = PlaceOf(i, k) /\ At(x) = Loc(fs, i, k) /\ At(x) # 0
<1>1. PICK i \in Inodes : x \in Places(i)
  BY DEF AllPlaces
<1>2. PICK ind : ind = fs.addrs[i][NDIRECT]
  OBVIOUS
<1>3. /\ NDIRECT \in Nat /\ MAXFILE \in Nat /\ BSIZE \in Nat /\ MAXFILE = NDIRECT + BSIZE
      /\ 0 < NDIRECT /\ NDIRECT < MAXFILE
  BY Basics
<1>4. CASE \E a \in 0 .. NDIRECT : fs.addrs[i][a] # 0 /\ x = <<"addrs", i, a>>
  <2>1. PICK a \in 0 .. NDIRECT : fs.addrs[i][a] # 0 /\ x = <<"addrs", i, a>>
    BY <1>4
  <2>2. At(x) = fs.addrs[i][a]
    BY <2>1 DEF At
  <2>3. CASE a = NDIRECT
    <3>1. MAXFILE \in Keys /\ ~(MAXFILE < NDIRECT)
      BY <1>3 DEF Keys
    <3>2. x = PlaceOf(i, MAXFILE)
      BY <2>1, <2>3, <3>1 DEF PlaceOf
    <3> QED BY <2>1, <2>2, <2>3, <3>1, <3>2, LocInd
  <2>4. CASE a # NDIRECT
    <3>1. a < NDIRECT /\ a \in Keys
      BY <1>3, <2>4 DEF Keys
    <3>2. x = PlaceOf(i, a)
      BY <2>1, <3>1 DEF PlaceOf
    <3> QED BY <2>1, <2>2, <3>1, <3>2, LocDirect
  <2> QED BY <2>3, <2>4
<1>5. CASE \E w \in Words : ind # 0 /\ fs.data[ind][w] # 0 /\ x = <<"ind", i, w>>
  <2>1. PICK w \in Words : ind # 0 /\ fs.data[ind][w] # 0 /\ x = <<"ind", i, w>>
    BY <1>5
  <2>2. At(x) = fs.data[ind][w]
    BY <1>2, <2>1 DEF At
  <2>3. PICK k : k = NDIRECT + w
    OBVIOUS
  <2>4. k \in Keys /\ NDIRECT <= k /\ k < MAXFILE /\ k - NDIRECT = w /\ ~(k < NDIRECT) /\ k # MAXFILE
    BY <1>3, <2>3 DEF Keys, Words
  <2>5. x = PlaceOf(i, k)
    BY <2>1, <2>4 DEF PlaceOf
  <2>6. Loc(fs, i, k) = fs.data[ind][k - NDIRECT]
    BY <1>2, <2>1, <2>4, LocWord
  <2> QED BY <2>1, <2>2, <2>4, <2>5, <2>6
<1> QED BY <1>1, <1>2, <1>4, <1>5 DEF Places

(* ... and every block number of an inode with a block has a place.        *)
LEMMA KeyHasPlace ==
    ASSUME fs \in FileSys, NEW i \in Inodes, NEW k \in Keys, Loc(fs, i, k) # 0
    PROVE  PlaceOf(i, k) \in AllPlaces /\ At(PlaceOf(i, k)) = Loc(fs, i, k)
<1>0. /\ NDIRECT \in Nat /\ MAXFILE \in Nat /\ ~(MAXFILE < NDIRECT) /\ k \in Int
  BY Basics DEF Keys
<1>1. PICK x : x = PlaceOf(i, k)
  OBVIOUS
<1>2. PICK ind : ind = fs.addrs[i][NDIRECT]
  OBVIOUS
<1>3. CASE k < NDIRECT
  <2>1. x = <<"addrs", i, k>> /\ k \in 0 .. NDIRECT /\ Loc(fs, i, k) = fs.addrs[i][k]
    BY <1>1, <1>3, KeyCases, LocDirect DEF PlaceOf
  <2>2. x \in Places(i)
    BY <2>1 DEF Places
  <2> QED BY <1>1, <2>1, <2>2 DEF AllPlaces, At
<1>4. CASE k = MAXFILE
  <2>1. x = <<"addrs", i, NDIRECT>> /\ NDIRECT \in 0 .. NDIRECT /\ Loc(fs, i, k) = fs.addrs[i][NDIRECT]
    BY <1>0, <1>1, <1>4, KeyCases, LocInd DEF PlaceOf
  <2>2. x \in Places(i)
    BY <2>1 DEF Places
  <2> QED BY <1>1, <2>1, <2>2 DEF AllPlaces, At
<1>5. CASE NDIRECT <= k /\ k < MAXFILE
  <2>0. ~(k < NDIRECT) /\ k # MAXFILE
    BY <1>0, <1>5
  <2>1. x = <<"ind", i, k - NDIRECT>> /\ k - NDIRECT \in Words
    BY <1>1, <1>5, <2>0, KeyCases DEF PlaceOf
  <2>2. ind # 0
    BY <1>2, <1>5, LocNone
  <2>3. Loc(fs, i, k) = fs.data[ind][k - NDIRECT]
    BY <1>2, <1>5, <2>2, LocWord
  <2>4. x \in Places(i)
    BY <1>2, <2>1, <2>2, <2>3 DEF Places
  <2>5. At(x) = fs.data[ind][k - NDIRECT]
    BY <1>2, <2>1 DEF At
  <2> QED BY <1>1, <2>3, <2>4, <2>5 DEF AllPlaces
<1> QED BY <1>3, <1>4, <1>5, KeyCases

(* One owner in terms of block numbers is one owner in terms of places.    *)
LEMMA OwnedOnce ==
    ASSUME fs \in FileSys, Own(fs)
    PROVE  BlocksOwnedOnce
<1>1. ASSUME NEW x \in AllPlaces PROVE At(x) \in fs.bitmap
  BY PlaceHasKey DEF Own
<1>2. ASSUME NEW b \in fs.bitmap PROVE \E x \in AllPlaces : At(x) = b
  <2>1. b # 0
    BY FsType, Basics
  <2>2. PICK i \in Inodes, k \in Keys : Loc(fs, i, k) = b
    BY DEF Own
  <2>3. PlaceOf(i, k) \in AllPlaces /\ At(PlaceOf(i, k)) = b
    BY <2>1, <2>2, KeyHasPlace
  <2> QED BY <2>3
<1>3. ASSUME NEW x \in AllPlaces, NEW y \in AllPlaces, At(x) = At(y)
      PROVE  x = y
  <2>1. PICK i \in Inodes, k \in Keys : x = PlaceOf(i, k) /\ At(x) = Loc(fs, i, k) /\ At(x) # 0
    BY PlaceHasKey
  <2>2. PICK j \in Inodes, l \in Keys : y = PlaceOf(j, l) /\ At(y) = Loc(fs, j, l) /\ At(y) # 0
    BY PlaceHasKey
  <2>3. i = j /\ k = l
    <3>1. Loc(fs, i, k) = Loc(fs, j, l) /\ Loc(fs, i, k) # 0
      BY <1>3, <2>1, <2>2
    <3>2. \A a, b \in Inodes, m, n \in Keys :
             Loc(fs, a, m) = Loc(fs, b, n) /\ Loc(fs, a, m) # 0 => a = b /\ m = n
      BY DEF Own
    <3> QED BY <3>1, <3>2
  <2> QED BY <2>1, <2>2, <2>3
<1>4. {At(x) : x \in AllPlaces} = fs.bitmap
  BY <1>1, <1>2
<1> QED BY <1>3, <1>4 DEF BlocksOwnedOnce
-----------------------------------------------------------------------------
(* Descriptors and open files.  First the descriptors of one open file.    *)
Refs(o, j) == {pd \in Procs \X Fds : o[pd[1]][pd[2]] = j}

(* There are finitely many descriptors.                                    *)
LEMMA RefsFinite ==
    ASSUME NEW o, NEW j
    PROVE  IsFiniteSet(Refs(o, j)) /\ Cardinality(Refs(o, j)) \in Nat
<1>1. IsFiniteSet(Procs) /\ IsFiniteSet(Fds)
  <2>1. NOFILE - 1 \in Int
    BY Basics
  <2> QED BY <2>1, FS_Interval, FileAssumption DEF Fds
<1>2. IsFiniteSet(Procs \X Fds)
  BY <1>1, FS_Product
<1>3. Refs(o, j) \subseteq Procs \X Fds
  BY DEF Refs
<1> QED BY <1>2, <1>3, FS_Subset, FS_CardinalityType

(* Descriptor d of p comes to stand for v instead of u.                    *)
SetFd(o, p, d, v) == [o EXCEPT ![p][d] = v]

RefMoved(o, n, u, v) ==
    /\ Cardinality(Refs(n, v)) = Cardinality(Refs(o, v)) + 1
    /\ Cardinality(Refs(n, u)) = Cardinality(Refs(o, u)) - 1
    /\ \A j : j # u /\ j # v => Refs(n, j) = Refs(o, j)

(* A descriptor that goes from u to v: one reference less, one more.       *)
LEMMA RefsMove ==
    ASSUME NEW o \in [Procs -> [Fds -> Opens \cup {0}]], NEW p \in Procs, NEW d \in Fds,
           NEW u, u = o[p][d], NEW v, u # v
    PROVE  RefMoved(o, SetFd(o, p, d, v), u, v)
<1>0. PICK n : n = SetFd(o, p, d, v)
  OBVIOUS
<1>1. ASSUME NEW q \in Procs, NEW e \in Fds
      PROVE  n[q][e] = IF q = p /\ e = d THEN v ELSE o[q][e]
  <2>1. PICK g : g = [o[p] EXCEPT ![d] = v]
    OBVIOUS
  <2>2. n = [o EXCEPT ![p] = g]
    BY <1>0, <2>1 DEF SetFd
  <2>3. n[q] = IF q = p THEN g ELSE o[q]
    BY <2>2
  <2>4. g[e] = IF e = d THEN v ELSE o[p][e]
    BY <2>1
  <2> QED BY <2>3, <2>4
<1>2. \A pd \in Procs \X Fds : pd = <<pd[1], pd[2]>> /\ pd[1] \in Procs /\ pd[2] \in Fds
  OBVIOUS
<1>3. \A pd \in Procs \X Fds : n[pd[1]][pd[2]] = IF pd = <<p, d>> THEN v ELSE o[pd[1]][pd[2]]
  BY <1>1, <1>2
<1>4. <<p, d>> \in Procs \X Fds /\ o[<<p, d>>[1]][<<p, d>>[2]] = u
  OBVIOUS
<1> HIDE DEF Refs
<1>5. Refs(n, v) = Refs(o, v) \cup {<<p, d>>} /\ <<p, d>> \notin Refs(o, v)
  BY <1>3, <1>4 DEF Refs
<1>6. Refs(n, u) = Refs(o, u) \ {<<p, d>>} /\ <<p, d>> \in Refs(o, u)
  BY <1>3, <1>4 DEF Refs
<1>7. \A j : j # u /\ j # v => Refs(n, j) = Refs(o, j)
  BY <1>3, <1>4 DEF Refs
<1>8. Cardinality(Refs(n, v)) = Cardinality(Refs(o, v)) + 1
  BY <1>5, RefsFinite, FS_AddElement
<1>9. Cardinality(Refs(n, u)) = Cardinality(Refs(o, u)) - 1
  BY <1>6, RefsFinite, FS_RemoveElement
<1> QED BY <1>0, <1>7, <1>8, <1>9 DEF RefMoved

(* A process q without descriptors gets those of p.                        *)
FdsOf(o, p, j) == {d \in Fds : o[p][d] = j}

(* The descriptors that a child of fork inherits are added to the          *)
(* parent's.                                                               *)
LEMMA RefsCopy ==
    ASSUME NEW o \in [Procs -> [Fds -> Opens \cup {0}]], NEW p \in Procs, NEW q \in Procs, p # q,
           \A d \in Fds : o[q][d] = 0, NEW n, n = [o EXCEPT ![q] = o[p]], NEW j \in Opens
    PROVE  /\ Cardinality(Refs(n, j)) = Cardinality(Refs(o, j)) + Cardinality(FdsOf(o, p, j))
           /\ Cardinality(FdsOf(o, p, j)) \in Nat
<1> DEFINE D == {d \in Fds : o[p][d] = j}
           E == {<<q, d>> : d \in D}
<1>1. IsFiniteSet(Fds)
  <2>1. NOFILE - 1 \in Int
    BY Basics
  <2> QED BY <2>1, FS_Interval DEF Fds
<1>2. IsFiniteSet(D)
  BY <1>1, FS_Subset
<1>3. j # 0
  BY Basics
<1>4. \A r \in Procs, d \in Fds : n[r][d] = IF r = q THEN o[p][d] ELSE o[r][d]
  OBVIOUS
<1>5. Refs(n, j) = Refs(o, j) \cup E
  <2>1. ASSUME NEW pd \in Procs \X Fds PROVE n[pd[1]][pd[2]] = j <=> o[pd[1]][pd[2]] = j \/ pd \in E
    <3>1. PICK r \in Procs, d \in Fds : pd = <<r, d>>
      OBVIOUS
    <3>2. pd \in E <=> r = q /\ o[p][d] = j
      BY <3>1
    <3>3. n[r][d] = IF r = q THEN o[p][d] ELSE o[r][d]
      BY <1>4
    <3> QED BY <1>3, <3>1, <3>2, <3>3
  <2>2. E \subseteq Procs \X Fds
    OBVIOUS
  <2> HIDE DEF E
  <2> QED BY <2>1, <2>2 DEF Refs
<1>6. Refs(o, j) \cap E = {}
  BY <1>3 DEF Refs
<1>7. IsFiniteSet(E) /\ Cardinality(E) = Cardinality(D)
  <2> DEFINE f == [d \in D |-> <<q, d>>]
  <2>1. f \in Bijection(D, E)
    BY DEF Bijection, Injection, Surjection, IsInjective
  <2>2. ExistsBijection(D, E)
    BY <2>1 DEF ExistsBijection
  <2> HIDE DEF D, E
  <2> QED BY <1>2, <2>2, FS_Bijection
<1>8. Cardinality(Refs(o, j) \cup E) = Cardinality(Refs(o, j)) + Cardinality(E) - Cardinality(Refs(o, j) \cap E)
  <2> HIDE DEF E
  <2> QED BY <1>7, RefsFinite, FS_Union
<1>9. Cardinality({}) = 0
  BY FS_EmptySet
<1> HIDE DEF D, E
<1>10. Cardinality(D) \in Nat
  BY <1>2, FS_CardinalityType
<1>11. Cardinality(Refs(n, j)) = Cardinality(Refs(o, j)) + Cardinality(D)
  <2>1. Cardinality(Refs(o, j)) \in Nat
    BY RefsFinite
  <2>2. Cardinality(Refs(n, j)) = Cardinality(Refs(o, j)) + Cardinality(E) - 0
    BY <1>5, <1>6, <1>8, <1>9
  <2> QED BY <1>7, <1>10, <2>1, <2>2
<1> QED BY <1>10, <1>11 DEF D, FdsOf
-----------------------------------------------------------------------------
(* The calls of write, and what is left to write is the end of a source.   *)
SuffixesOf(src) == {SubSeq(src, a, Len(src)) : a \in Nat \ {0}}
Suffixes == UNION {SuffixesOf(src) : src \in Sources}
Calls == [pc : {"idle", "chunk", "copy"}, f : Opens \cup {0}, src : Seq(Nat),
          n1 : Nat, tot : Nat, log : SUBSET Nat]

Entries == [ref : Nat, ip : Inodes \cup {0}, off : 0 .. UINT - 1]

Types ==
    /\ fs \in FileSys
    /\ linked \in [Inodes -> BOOLEAN]
    /\ lock \in [Inodes -> Procs \cup {NoProc}]
    /\ saved = [i \in Inodes |-> saved[i]]
    /\ ftable \in [Opens -> Entries]
    /\ ofile \in [Procs -> [Fds -> Opens \cup {0}]]
    /\ call \in [Procs -> Calls]
    /\ panicked \in {"no", "full", "bug"}

(* An open file has an inode as long as it has descriptors, and its offset *)
(* is never beyond the end.                                                *)
EntryOK(e) == /\ e.ref = 0 <=> e.ip = 0
              /\ e.ip # 0 => e.off <= fs.size[e.ip]

(* A call of write works on an open file of the process, with the inode's  *)
(* lock when it copies, on a range that fits.                              *)
CallOpen(p) == call[p].f \in Opens /\ \E d \in Fds : ofile[p][d] = call[p].f
CopyRange(c, o) == /\ c.n1 = Chunk(Len(c.src)) /\ c.tot <= c.n1
                   /\ o + c.n1 <= MAXFILE * BSIZE
CallOK(p) ==
    /\ call[p].pc = "idle" => call[p] = NoCall
    /\ call[p].pc # "idle" => CallOpen(p) /\ call[p].src \in Suffixes \ {<<>>}
    /\ call[p].pc = "chunk" => call[p].log = {}
    /\ call[p].pc = "copy" => CopyRange(call[p], ftable[call[p].f].off)

Copies(p, i) == call[p].pc = "copy" /\ ftable[call[p].f].ip = i

Locks == \A i \in Inodes, p \in Procs : lock[i] = p <=> Copies(p, i)

Inv == /\ Types /\ Own(fs) /\ DescriptorsCounted
       /\ \A j \in Opens : EntryOK(ftable[j])
       /\ \A p \in Procs : CallOK(p)
       /\ Locks /\ panicked # "bug"

(* The blocks below the end of a file, and below what has been copied, are *)
(* there, and what has been copied is where it belongs.                    *)
Byte(s, i, x) == s.data[Loc(s, i, x \div BSIZE)][x % BSIZE]
Backed(s, i, end) == \A x \in 0 .. end - 1 : Loc(s, i, x \div BSIZE) # 0

Copied(s, old, i, o, src, tot) ==
    /\ Backed(s, i, o + tot)
    /\ \A x \in 0 .. tot - 1 : Byte(s, i, o + x) = src[x + 1]
    /\ Len(old) = s.size[i]
    /\ \A x \in 0 .. s.size[i] - 1 : x < o \/ o + tot <= x => Byte(s, i, x) = old[x + 1]

(* The blocks that the copying has logged.                                 *)
LoggedUpTo(s, i, o, tot) ==
    {BitmapBlk, Loc(s, i, MAXFILE)} \cup {Loc(s, i, x \div BSIZE) : x \in o .. o + tot - 1}

CopyOK(c, o, i) == /\ Copied(fs, saved[i], i, o, c.src, c.tot)
                   /\ c.log \subseteq LoggedUpTo(fs, i, o, c.tot)
CopyAt(i) ==
    /\ Backed(fs, i, fs.size[i])
    /\ \A p \in Procs : Copies(p, i) => CopyOK(call[p], ftable[call[p].f].off, i)

CopyInv == \A i \in Inodes : CopyAt(i)
-----------------------------------------------------------------------------
(* Positions in a file: a block and a word of it.                          *)
LEMMA DivMod ==
    ASSUME NEW x \in Nat
    PROVE  /\ x \div BSIZE \in Nat /\ x % BSIZE \in Words
           /\ x = BSIZE * (x \div BSIZE) + (x % BSIZE)
  BY Basics DEF Words

(* ... which are unique ...                                                *)
LEMMA DivModOnly ==
    ASSUME NEW x \in Nat, NEW q \in Nat, NEW r \in Words, x = BSIZE * q + r
    PROVE  x \div BSIZE = q /\ x % BSIZE = r
<1>1. BSIZE \in Nat /\ BSIZE > 0 /\ r \in Nat /\ r < BSIZE
  BY Basics DEF Words
<1> QED BY <1>1

(* ... and follow each other in a block.                                   *)
LEMMA SameBlock ==
    ASSUME NEW o \in Nat, NEW m \in Nat, m <= BSIZE - (o % BSIZE), NEW y \in 0 .. m - 1
    PROVE  (o + y) \div BSIZE = o \div BSIZE /\ (o + y) % BSIZE = (o % BSIZE) + y
<1>1. PICK q \in Nat, r \in Words : q = o \div BSIZE /\ r = o % BSIZE /\ o = BSIZE * q + r
  BY DivMod
<1>2. BSIZE \in Nat /\ r \in Nat /\ r < BSIZE /\ y \in Nat /\ y < m /\ m + r <= BSIZE
  BY <1>1, Basics DEF Words
<1>3. r + y \in Words
  BY <1>2 DEF Words
<1>4. PICK bq \in Nat : bq = BSIZE * q
  BY <1>1, <1>2
<1>5. o + y = BSIZE * q + (r + y) /\ o + y \in Nat
  BY <1>1, <1>2, <1>4
<1> QED BY <1>1, <1>3, <1>5, DivModOnly

(* Two positions in the same block are as far apart as their words.        *)
LEMMA InBlock ==
    ASSUME NEW o \in Nat, NEW x \in Nat, x \div BSIZE = o \div BSIZE
    PROVE  x - o = (x % BSIZE) - (o % BSIZE)
<1>1. PICK q \in Nat, r \in Words : q = o \div BSIZE /\ r = o % BSIZE /\ o = BSIZE * q + r
  BY DivMod
<1>2. PICK z \in Words : z = x % BSIZE /\ x = BSIZE * q + z
  <2>1. x % BSIZE \in Words /\ x = BSIZE * (x \div BSIZE) + (x % BSIZE)
    BY DivMod
  <2>2. x \div BSIZE = q
    BY <1>1
  <2> QED BY <2>1, <2>2
<1>3. PICK bq \in Nat : bq = BSIZE * q
  BY <1>1, Basics
<1> QED BY <1>1, <1>2, <1>3 DEF Words

(* A position that fits has a block that fits.                             *)
LEMMA BlockFits ==
    ASSUME NEW x \in Nat, x < MAXFILE * BSIZE
    PROVE  x \div BSIZE \in Keys /\ x \div BSIZE < MAXFILE
<1>1. PICK q \in Nat, r \in Words : q = x \div BSIZE /\ x = BSIZE * q + r
  BY DivMod
<1>2. BSIZE \in Nat /\ BSIZE > 0 /\ MAXFILE \in Nat /\ r \in Nat
  BY Basics DEF Words
<1>3. q < MAXFILE
  BY <1>1, <1>2
<1> QED BY <1>1, <1>2, <1>3 DEF Keys

(* The blocks of two positions are in the order of the positions.          *)
LEMMA DivOrder ==
    ASSUME NEW x \in Nat, NEW y \in Nat, x <= y
    PROVE  x \div BSIZE <= y \div BSIZE
<1>1. PICK q \in Nat, r \in Words : q = x \div BSIZE /\ x = BSIZE * q + r
  BY DivMod
<1>2. PICK n \in Nat, z \in Words : n = y \div BSIZE /\ y = BSIZE * n + z
  BY DivMod
<1>3. BSIZE \in Nat /\ BSIZE > 0 /\ z \in Nat /\ z < BSIZE /\ r \in Nat
  BY Basics DEF Words
<1> QED BY <1>1, <1>2, <1>3
-----------------------------------------------------------------------------
(* The invariant holds at the start ...                                    *)
LEMMA InitInv == Init => Inv
<1> SUFFICES ASSUME Init PROVE Inv
  OBVIOUS
<1>0. /\ NDIRECT \in Nat /\ BSIZE \in Nat \ {0} /\ MAXFILE * BSIZE \in Nat /\ UINT \in Nat \ {0}
      /\ 0 \notin Opens
  BY Basics
<1>1. fs \in FileSys
  <2>1. Zero \in [Words -> Nat]
    BY DEF Zero
  <2>2. 0 \in 0 .. MAXFILE * BSIZE
    BY <1>0
  <2> QED BY <2>1, <2>2 DEF Init, FileSys
<1>2. ASSUME NEW i \in Inodes, NEW k \in Keys PROVE Loc(fs, i, k) = 0
  <2>1. \A a \in 0 .. NDIRECT : fs.addrs[i][a] = 0
    BY DEF Init
  <2>2. NDIRECT \in 0 .. NDIRECT /\ (k < NDIRECT => k \in 0 .. NDIRECT)
    BY KeyCases
  <2>3. fs.addrs[i][NDIRECT] = 0 /\ (k < NDIRECT => fs.addrs[i][k] = 0)
    BY <2>1, <2>2
  <2> QED BY <2>3 DEF Loc
<1>3. Own(fs)
  <2>1. fs.bitmap = {}
    BY DEF Init
  <2> QED BY <1>2, <2>1 DEF Own
<1>4. call \in [Procs -> Calls]
  <2>1. NoCall \in Calls
    BY DEF NoCall, Calls
  <2> QED BY <2>1 DEF Init
<1>5. ftable \in [Opens -> Entries]
  BY <1>0 DEF Init, NoFile, Entries
<1>6. ofile \in [Procs -> [Fds -> Opens \cup {0}]]
  BY DEF Init
<1>7. Types
  BY <1>1, <1>4, <1>5, <1>6, FileAssumption DEF Types, Init
<1>8. DescriptorsCounted
  <2>1. ASSUME NEW j \in Opens PROVE ftable[j].ref = Cardinality({pd \in Procs \X Fds : ofile[pd[1]][pd[2]] = j})
    <3>1. {pd \in Procs \X Fds : ofile[pd[1]][pd[2]] = j} = {}
      BY <1>0 DEF Init
    <3> QED BY <3>1, FS_EmptySet DEF Init, NoFile
  <2> QED BY <2>1 DEF DescriptorsCounted
<1>9. \A j \in Opens : EntryOK(ftable[j])
  BY DEF Init, NoFile, EntryOK
<1>10. \A p \in Procs : call[p] = NoCall /\ call[p].pc = "idle"
  BY DEF Init, NoCall
<1>11. Locks
  BY <1>10, FileAssumption DEF Init, Locks, Copies
<1>12. \A p \in Procs : CallOK(p)
  BY <1>10 DEF CallOK
<1> QED BY <1>3, <1>7, <1>8, <1>9, <1>11, <1>12 DEF Inv, Init

(* ... and these are its parts.                                            *)
LEMMA InvParts ==
    ASSUME Inv
    PROVE  /\ Types /\ Own(fs)
           /\ \A j \in Opens : ftable[j].ref = Cardinality(Refs(ofile, j))
           /\ \A j \in Opens : EntryOK(ftable[j])
           /\ \A p \in Procs : CallOK(p)
           /\ Locks /\ panicked # "bug"
  BY DEF Inv, DescriptorsCounted, Refs

(* The parts make the invariant.                                           *)
LEMMA InvWhole ==
    ASSUME Types', Own(fs'),
           \A j \in Opens : ftable'[j].ref = Cardinality(Refs(ofile', j)),
           \A j \in Opens : EntryOK(ftable[j])',
           \A p \in Procs : CallOK(p)',
           Locks', panicked' # "bug"
    PROVE  Inv'
  BY DEF Inv, DescriptorsCounted, Refs

(* What a descriptor stands for is open.                                   *)
LEMMA OpenEntry ==
    ASSUME Inv, NEW p \in Procs, NEW d \in Fds, NEW j \in Opens, ofile[p][d] = j
    PROVE  /\ ftable[j].ref \in Nat /\ ftable[j].ref >= 1 /\ ftable[j].ip \in Inodes
           /\ \A q \in Procs, e \in Fds : ftable[j].ref = 1 /\ ofile[q][e] = j => q = p /\ e = d
<1>1. ftable[j].ref = Cardinality(Refs(ofile, j)) /\ EntryOK(ftable[j])
  BY InvParts
<1>2. ftable[j] \in Entries
  BY InvParts DEF Types
<1>3. <<p, d>> \in Refs(ofile, j)
  BY DEF Refs
<1>4. IsFiniteSet(Refs(ofile, j))
  BY RefsFinite
<1>5. ftable[j].ref # 0
  BY <1>1, <1>3, <1>4, FS_EmptySet
<1>6. ASSUME NEW q \in Procs, NEW e \in Fds, ftable[j].ref = 1, ofile[q][e] = j
      PROVE  q = p /\ e = d
  <2>1. <<q, e>> \in Refs(ofile, j)
    BY <1>6 DEF Refs
  <2>2. \E x : Refs(ofile, j) = {x}
    BY <1>1, <1>4, <1>6, FS_Singleton
  <2> QED BY <1>3, <2>1, <2>2
<1> QED BY <1>1, <1>2, <1>5, <1>6 DEF EntryOK, Entries

(* A step that leaves the open file of a call alone leaves the call right. *)
Steady(q) == /\ call'[q] = call[q]
             /\ call[q].pc = "copy" => /\ ftable'[call[q].f].ip = ftable[call[q].f].ip
                                       /\ ftable'[call[q].f].off = ftable[call[q].f].off

(* A step that leaves a call, its open file and the offset of a copy keeps *)
(* the call right.                                                         *)
LEMMA CallKept ==
    ASSUME Inv, NEW q \in Procs, call'[q] = call[q],
           call[q].pc # "idle" =>
              /\ \E d \in Fds : ofile'[q][d] = call[q].f
              /\ ftable'[call[q].f].ip = ftable[call[q].f].ip
              /\ call[q].pc = "copy" => ftable'[call[q].f].off = ftable[call[q].f].off
    PROVE  CallOK(q)' /\ (\A i \in Inodes : Copies(q, i)' <=> Copies(q, i)) /\ Steady(q)
<1>1. CallOK(q)
  BY InvParts
<1>2. CallOK(q)'
  BY <1>1 DEF CallOK, CallOpen, CopyRange
<1> QED BY <1>2 DEF Copies, Steady

(* Names do not matter to the invariant.                                   *)
LEMMA NamesInv ==
    ASSUME Inv, linked' \in [Inodes -> BOOLEAN],
           UNCHANGED <<fs, lock, saved, ftable, ofile, call, panicked>>
    PROVE  Inv' /\ \A q \in Procs : Steady(q)
<1>1. /\ fs' = fs /\ lock' = lock /\ saved' = saved /\ ftable' = ftable /\ ofile' = ofile
      /\ call' = call /\ panicked' = panicked
  OBVIOUS
<1>2. Types'
  BY <1>1 DEF Inv, Types
<1>3. \A q \in Procs : CallOK(q)' /\ \A i \in Inodes : Copies(q, i)' <=> Copies(q, i)
  BY <1>1 DEF Inv, CallOK, CallOpen, Copies
<1>4. Locks'
  BY <1>1, <1>3 DEF Inv, Locks
<1>5. \A j \in Opens : EntryOK(ftable[j])'
  BY <1>1 DEF Inv, EntryOK
<1> QED BY <1>1, <1>2, <1>3, <1>4, <1>5 DEF Inv, DescriptorsCounted, Steady

(* open takes a free open file and a free descriptor, or nothing.          *)
LEMMA OpenInv ==
    ASSUME Inv, NEW p \in Procs, NEW i \in Inodes, sys_open(p, i)
    PROVE  Inv' /\ \A q \in Procs : Steady(q)
<1>1. /\ linked' = [linked EXCEPT ![i] = TRUE] /\ Idle(p)
      /\ fs' = fs /\ lock' = lock /\ saved' = saved /\ call' = call /\ panicked' = panicked
  BY DEF sys_open
<1>2. Types
  BY InvParts
<1>3. linked' \in [Inodes -> BOOLEAN]
  BY <1>1, <1>2 DEF Types
<1>4. CASE FreeFiles = {} \/ FreeFds(p) = {}
  <2>1. UNCHANGED <<ftable, ofile>>
    BY <1>4 DEF sys_open
  <2> QED BY <1>1, <1>3, <2>1, NamesInv
<1>5. CASE FreeFiles # {} /\ FreeFds(p) # {}
  <2>1. PICK j \in Opens : j = Min(FreeFiles) /\ ftable[j].ref = 0
    <3>1. FreeFiles \in SUBSET Nat
      BY Basics DEF FreeFiles
    <3> QED BY <1>5, <3>1, MinIn DEF FreeFiles
  <2>2. PICK d \in Fds : d = Min(FreeFds(p)) /\ ofile[p][d] = 0
    <3>1. FreeFds(p) \in SUBSET Nat
      BY Basics DEF FreeFds
    <3> QED BY <1>5, <3>1, MinIn DEF FreeFds
  <2>3. /\ ftable' = [ftable EXCEPT ![j] = [ref |-> 1, ip |-> i, off |-> 0]]
        /\ ofile' = [ofile EXCEPT ![p][d] = j]
    BY <1>5, <2>1, <2>2 DEF sys_open
  <2>4. 0 # j /\ 0 \in 0 .. UINT - 1 /\ i # 0
    BY Basics, FileAssumption
  <2>5. /\ ftable'[j] = [ref |-> 1, ip |-> i, off |-> 0]
        /\ \A h \in Opens \ {j} : ftable'[h] = ftable[h]
    BY <1>2, <2>3 DEF Types
  <2>6. Types'
    <3>1. ftable' \in [Opens -> Entries]
      BY <1>2, <2>3, <2>4 DEF Types, Entries
    <3>2. ofile' \in [Procs -> [Fds -> Opens \cup {0}]]
      BY <1>2, <2>3 DEF Types
    <3> QED BY <1>1, <1>2, <1>3, <3>1, <3>2 DEF Types
  <2>7. \A h \in Opens : ftable'[h].ref = Cardinality(Refs(ofile', h))
    <3>1. /\ Cardinality(Refs(ofile', j)) = Cardinality(Refs(ofile, j)) + 1
          /\ \A h : h # 0 /\ h # j => Refs(ofile', h) = Refs(ofile, h)
      <4>1. ofile \in [Procs -> [Fds -> Opens \cup {0}]] /\ ofile' = SetFd(ofile, p, d, j)
        BY <1>2, <2>3 DEF Types, SetFd
      <4>2. RefMoved(ofile, ofile', 0, j)
        BY <2>2, <2>4, <4>1, RefsMove
      <4> QED BY <4>2 DEF RefMoved
    <3>2. Cardinality(Refs(ofile, j)) = 0
      BY <2>1, InvParts
    <3>3. \A h \in Opens : h # 0
      BY Basics
    <3> QED BY <2>5, <3>1, <3>2, <3>3, InvParts
  <2>8. ASSUME NEW h \in Opens PROVE EntryOK(ftable[h])'
    <3>1. CASE h = j
      <4>1. fs.size[i] >= 0
        BY <1>2, FsType DEF Types
      <4> QED BY <1>1, <2>4, <2>5, <3>1, <4>1 DEF EntryOK
    <3>2. CASE h # j
      <4>1. EntryOK(ftable[h]) /\ ftable'[h] = ftable[h]
        BY <2>5, <3>2, InvParts
      <4> QED BY <1>1, <4>1 DEF EntryOK
    <3> QED BY <3>1, <3>2
  <2>9. ASSUME NEW q \in Procs
        PROVE  CallOK(q)' /\ (\A x \in Inodes : Copies(q, x)' <=> Copies(q, x)) /\ Steady(q)
    <3>1. ASSUME call[q].pc # "idle"
          PROVE  /\ \E e \in Fds : ofile'[q][e] = call[q].f
                 /\ ftable'[call[q].f] = ftable[call[q].f]
      <4>1. PICK f \in Opens, e \in Fds : f = call[q].f /\ ofile[q][e] = f
        BY <3>1, InvParts DEF CallOK, CallOpen
      <4>2. f # j
        BY <2>1, <4>1, OpenEntry
      <4>3. q # p
        BY <1>1, <3>1 DEF Idle
      <4>4. ofile'[q] = ofile[q]
        BY <1>2, <2>3, <4>3 DEF Types
      <4> QED BY <2>5, <4>1, <4>2, <4>4
    <3> QED BY <1>1, <3>1, CallKept
  <2>10. Locks'
    BY <1>1, <2>9, InvParts DEF Locks
  <2> QED BY <1>1, <2>6, <2>7, <2>8, <2>9, <2>10, InvParts, InvWhole
<1> QED BY <1>4, <1>5

(* Another ref for open file j.                                            *)
SetRef(t, j, r) == [t EXCEPT ![j].ref = r]

RefIs(t, u, j, r) ==
    /\ u \in [Opens -> Entries] /\ u[j].ref = r
    /\ \A h \in Opens : u[h].ip = t[h].ip /\ u[h].off = t[h].off
    /\ \A h \in Opens \ {j} : u[h] = t[h]

(* Setting ref changes nothing else.                                       *)
LEMMA SetRefIs ==
    ASSUME NEW t \in [Opens -> Entries], NEW j \in Opens, NEW r \in Nat
    PROVE  RefIs(t, SetRef(t, j, r), j, r)
<1>1. PICK e : e = [t[j] EXCEPT !.ref = r]
  OBVIOUS
<1>2. PICK u : u = SetRef(t, j, r)
  OBVIOUS
<1>3. e \in Entries /\ e.ref = r /\ e.ip = t[j].ip /\ e.off = t[j].off
  <2>1. t[j] \in Entries
    OBVIOUS
  <2> QED BY <1>1, <2>1 DEF Entries
<1>4. u = [t EXCEPT ![j] = e]
  BY <1>1, <1>2 DEF SetRef
<1>5. u \in [Opens -> Entries] /\ u[j] = e /\ \A h \in Opens \ {j} : u[h] = t[h]
  BY <1>3, <1>4
<1> QED BY <1>2, <1>3, <1>5 DEF RefIs

(* The ref of an open file changes, and its inode and offset do not.       *)
LEMMA SameEntries ==
    ASSUME Inv, Types', fs' = fs, lock' = lock, call' = call, panicked' = panicked,
           \A j \in Opens : /\ ftable'[j].ip = ftable[j].ip /\ ftable'[j].off = ftable[j].off
                            /\ ftable'[j].ref = 0 <=> ftable[j].ref = 0,
           \A j \in Opens : ftable'[j].ref = Cardinality(Refs(ofile', j)),
           \A q \in Procs : call[q].pc # "idle" => ofile'[q] = ofile[q]
    PROVE  Inv' /\ \A q \in Procs : Steady(q)
<1>1. ASSUME NEW j \in Opens PROVE EntryOK(ftable[j])'
  <2>1. EntryOK(ftable[j])
    BY InvParts
  <2> QED BY <2>1 DEF EntryOK
<1>2. ASSUME NEW q \in Procs
      PROVE  CallOK(q)' /\ (\A x \in Inodes : Copies(q, x)' <=> Copies(q, x)) /\ Steady(q)
  <2>1. ASSUME call[q].pc # "idle"
        PROVE  /\ \E d \in Fds : ofile'[q][d] = call[q].f
               /\ ftable'[call[q].f].ip = ftable[call[q].f].ip
               /\ ftable'[call[q].f].off = ftable[call[q].f].off
    <3>1. PICK f \in Opens, e \in Fds : f = call[q].f /\ ofile[q][e] = f
      BY <2>1, InvParts DEF CallOK, CallOpen
    <3> QED BY <2>1, <3>1
  <2> QED BY <2>1, CallKept
<1>3. Locks'
  BY <1>2, InvParts DEF Locks
<1> QED BY <1>1, <1>2, <1>3, InvParts, InvWhole

(* dup: one descriptor and one reference more.                             *)
LEMMA DupInv ==
    ASSUME Inv, NEW p \in Procs, NEW d \in Fds, sys_dup(p, d)
    PROVE  Inv' /\ \A q \in Procs : Steady(q)
<1>1. /\ Idle(p) /\ ofile[p][d] # 0 /\ FreeFds(p) # {}
      /\ fs' = fs /\ linked' = linked /\ lock' = lock /\ saved' = saved /\ call' = call
      /\ panicked' = panicked
  BY DEF sys_dup, argfd
<1>2. Types
  BY InvParts
<1>3. PICK j \in Opens : j = ofile[p][d]
  BY <1>1, <1>2 DEF Types
<1>4. PICK e \in Fds : e = Min(FreeFds(p)) /\ ofile[p][e] = 0
  <2>1. FreeFds(p) \in SUBSET Nat
    BY Basics DEF FreeFds
  <2> QED BY <1>1, <2>1, MinIn DEF FreeFds
<1>5. ftable' = [ftable EXCEPT ![j].ref = @ + 1] /\ ofile' = SetFd(ofile, p, e, j)
  BY <1>3, <1>4 DEF sys_dup, argfd, SetFd
<1>6. ftable[j].ref \in Nat /\ ftable[j].ref >= 1 /\ j # 0
  BY <1>3, OpenEntry, Basics
<1>7. /\ ftable' \in [Opens -> Entries]
      /\ ftable'[j].ref = ftable[j].ref + 1
      /\ \A h \in Opens : ftable'[h].ip = ftable[h].ip /\ ftable'[h].off = ftable[h].off
      /\ \A h \in Opens \ {j} : ftable'[h] = ftable[h]
  <2>1. PICK r \in Nat : r = ftable[j].ref + 1
    BY <1>6
  <2>2. ftable \in [Opens -> Entries]
    BY <1>2 DEF Types
  <2>3. ftable' = SetRef(ftable, j, r)
    BY <1>5, <2>1, <2>2 DEF SetRef
  <2>4. RefIs(ftable, ftable', j, r)
    BY <2>2, <2>3, SetRefIs
  <2> QED BY <2>1, <2>4 DEF RefIs
<1>8. ofile \in [Procs -> [Fds -> Opens \cup {0}]]
  BY <1>2 DEF Types
<1>9. /\ ofile' \in [Procs -> [Fds -> Opens \cup {0}]]
      /\ \A q \in Procs : q # p => ofile'[q] = ofile[q]
  BY <1>5, <1>8 DEF SetFd
<1>10. RefMoved(ofile, ofile', 0, j)
  BY <1>4, <1>5, <1>6, <1>8, RefsMove
<1>11. \A h \in Opens : ftable'[h].ref = Cardinality(Refs(ofile', h))
  <2>1. \A h \in Opens : h # 0 /\ ftable[h].ref = Cardinality(Refs(ofile, h))
    BY Basics, InvParts
  <2> QED BY <1>7, <1>10, <2>1 DEF RefMoved
<1>12. Types'
  BY <1>1, <1>2, <1>7, <1>9 DEF Types
<1>13. \A q \in Procs : call[q].pc # "idle" => ofile'[q] = ofile[q]
  BY <1>1, <1>9 DEF Idle
<1>14. \A h \in Opens : ftable'[h].ref = 0 <=> ftable[h].ref = 0
  BY <1>6, <1>7
<1> QED BY <1>1, <1>7, <1>11, <1>12, <1>13, <1>14, SameEntries

(* fork: as many references more as the child has descriptors.             *)
LEMMA ForkInv ==
    ASSUME Inv, NEW p \in Procs, NEW q \in Procs, fork(p, q)
    PROVE  Inv' /\ \A r \in Procs : Steady(r)
<1>1. /\ p # q /\ Idle(p) /\ Idle(q) /\ \A d \in Fds : ofile[q][d] = 0
      /\ ofile' = [ofile EXCEPT ![q] = ofile[p]] /\ ftable' = Inherit(ftable, p)
      /\ fs' = fs /\ linked' = linked /\ lock' = lock /\ saved' = saved /\ call' = call
      /\ panicked' = panicked
  BY DEF fork, FreeFds
<1>2. Types
  BY InvParts
<1>3. /\ ofile \in [Procs -> [Fds -> Opens \cup {0}]]
      /\ ftable \in [Opens -> Entries]
  BY <1>2 DEF Types
<1>4. ASSUME NEW j \in Opens
      PROVE  /\ Cardinality(Refs(ofile', j)) =
                   Cardinality(Refs(ofile, j)) + Cardinality(FdsOf(ofile, p, j))
             /\ Cardinality(FdsOf(ofile, p, j)) \in Nat
  BY <1>1, <1>3, RefsCopy
<1>5. ASSUME NEW j \in Opens
      PROVE  /\ ftable'[j] \in Entries
             /\ ftable'[j].ip = ftable[j].ip /\ ftable'[j].off = ftable[j].off
             /\ ftable'[j].ref = ftable[j].ref + Cardinality(FdsOf(ofile, p, j))
  <2>1. PICK n \in Nat : n = Cardinality(FdsOf(ofile, p, j))
    BY <1>4
  <2>2. ftable'[j] = [ftable[j] EXCEPT !.ref = @ + n]
    BY <1>1, <2>1 DEF Inherit, FdsOf
  <2>3. ftable[j] \in Entries
    BY <1>3
  <2> QED BY <2>1, <2>2, <2>3 DEF Entries
<1>6. ASSUME NEW j \in Opens, ftable[j].ref = 0
      PROVE  ftable'[j].ref = 0
  <2>1. \A d \in Fds : ofile[p][d] # j
    BY <1>6, OpenEntry
  <2>2. FdsOf(ofile, p, j) = {}
    BY <2>1 DEF FdsOf
  <2> QED BY <1>5, <1>6, <2>2, FS_EmptySet
<1>7. \A j \in Opens : ftable'[j].ref = 0 <=> ftable[j].ref = 0
  <2>1. \A j \in Opens : ftable[j].ref \in Nat
    BY <1>3 DEF Entries
  <2> QED BY <1>4, <1>5, <1>6, <2>1
<1>8. Types'
  <2>1. ftable' \in [Opens -> Entries]
    <3>1. ftable' = [j \in Opens |-> ftable'[j]]
      BY <1>1 DEF Inherit
    <3> QED BY <1>5, <3>1
  <2>2. ofile' \in [Procs -> [Fds -> Opens \cup {0}]]
    BY <1>1, <1>3
  <2> QED BY <1>1, <1>2, <2>1, <2>2 DEF Types
<1>9. \A j \in Opens : ftable'[j].ref = Cardinality(Refs(ofile', j))
  <2>1. \A j \in Opens : ftable[j].ref = Cardinality(Refs(ofile, j))
    BY InvParts
  <2> QED BY <1>4, <1>5, <2>1
<1>10. \A r \in Procs : call[r].pc # "idle" => ofile'[r] = ofile[r]
  BY <1>1, <1>3 DEF Idle
<1> QED BY <1>1, <1>5, <1>7, <1>8, <1>9, <1>10, SameEntries

(* The file system after inode i lost its blocks, or nothing happened.     *)
LEMMA TruncStep ==
    ASSUME Inv, NEW i \in Inodes, fs' = fs \/ fs' = itrunc(fs, i)
    PROVE  /\ fs' \in FileSys /\ Own(fs')
           /\ \A x \in Inodes : x # i => fs'.size[x] = fs.size[x]
           /\ Owned(fs, i) \subseteq fs.bitmap
<1>1. fs \in FileSys /\ Own(fs)
  BY InvParts DEF Types
<1>2. Truncated(fs, itrunc(fs, i), i)
  BY <1>1, ItruncFrees
<1>3. CASE fs' = itrunc(fs, i)
  <2>1. Truncated(fs, fs', i)
    BY <1>2, <1>3
  <2>2. fs'.size = [fs.size EXCEPT ![i] = 0] /\ fs' \in FileSys /\ Own(fs') /\ Owned(fs, i) \subseteq fs.bitmap
    BY <2>1 DEF Truncated
  <2>3. fs.size \in [Inodes -> 0 .. MAXFILE * BSIZE]
    BY <1>1, FsType
  <2>4. \A x \in Inodes : x # i => fs'.size[x] = fs.size[x]
    BY <2>2, <2>3
  <2> QED BY <2>2, <2>4
<1>4. CASE fs' = fs
  BY <1>1, <1>2, <1>4 DEF Truncated
<1> QED BY <1>3, <1>4

(* close: one reference less, or the open file goes, and perhaps the       *)
(* inode's blocks.                                                         *)
LEMMA CloseInv ==
    ASSUME Inv, NEW p \in Procs, NEW d \in Fds, sys_close(p, d)
    PROVE  Inv' /\ \A q \in Procs : Steady(q)
<1>1. /\ Idle(p) /\ ofile[p][d] # 0 /\ ofile' = SetFd(ofile, p, d, 0)
      /\ linked' = linked /\ lock' = lock /\ saved' = saved /\ call' = call
  BY DEF sys_close, argfd, SetFd
<1>2. Types
  BY InvParts
<1>3. PICK j \in Opens : j = ofile[p][d]
  BY <1>1, <1>2 DEF Types
<1>4. /\ ofile \in [Procs -> [Fds -> Opens \cup {0}]] /\ ftable \in [Opens -> Entries]
  BY <1>2 DEF Types
<1>5. /\ ofile' \in [Procs -> [Fds -> Opens \cup {0}]]
      /\ \A q \in Procs : q # p => ofile'[q] = ofile[q]
  BY <1>1, <1>4 DEF SetFd
<1>6. /\ ftable[j].ref \in Nat /\ ftable[j].ref >= 1 /\ ftable[j].ip \in Inodes
      /\ \A q \in Procs, e \in Fds : ftable[j].ref = 1 /\ ofile[q][e] = j => q = p /\ e = d
  BY <1>3, OpenEntry
<1>7. RefMoved(ofile, ofile', j, 0)
  BY <1>1, <1>3, <1>4, RefsMove
<1>8. /\ \A h \in Opens : h # 0 /\ ftable[h].ref = Cardinality(Refs(ofile, h))
      /\ Cardinality(Refs(ofile', j)) = ftable[j].ref - 1
      /\ \A h \in Opens \ {j} : Cardinality(Refs(ofile', h)) = ftable[h].ref
  BY <1>7, Basics, InvParts DEF RefMoved
<1>9. \A q \in Procs : call[q].pc # "idle" => ofile'[q] = ofile[q]
  BY <1>1, <1>5 DEF Idle
<1>10. CASE ftable[j].ref > 1
  <2>1. ftable' = [ftable EXCEPT ![j].ref = @ - 1] /\ fs' = fs /\ panicked' = panicked
    BY <1>3, <1>10 DEF sys_close, argfd
  <2>2. PICK r \in Nat : r = ftable[j].ref - 1
    BY <1>6
  <2>3. ftable' = SetRef(ftable, j, r)
    BY <1>4, <2>1, <2>2 DEF SetRef
  <2>4. RefIs(ftable, ftable', j, r)
    BY <1>4, <2>3, SetRefIs
  <2>5. \A h \in Opens : ftable'[h].ref = Cardinality(Refs(ofile', h))
    BY <1>8, <2>2, <2>4 DEF RefIs
  <2>6. Types'
    BY <1>1, <1>2, <1>5, <2>1, <2>4 DEF Types, RefIs
  <2>7. \A h \in Opens : /\ ftable'[h].ip = ftable[h].ip /\ ftable'[h].off = ftable[h].off
                         /\ ftable'[h].ref = 0 <=> ftable[h].ref = 0
    BY <1>6, <1>10, <2>2, <2>4 DEF RefIs
  <2> QED BY <1>1, <1>9, <2>1, <2>5, <2>6, <2>7, SameEntries
<1>11. CASE ~(ftable[j].ref > 1)
  <2>0. ftable[j].ref = 1
    BY <1>6, <1>11
  <2>1. PICK i \in Inodes : i = ftable[j].ip
    BY <1>6
  <2>2. /\ lock[i] = NoProc /\ ftable' = [ftable EXCEPT ![j] = NoFile]
        /\ Released(i, {h \in Opens \ {j} : ftable[h].ip = i})
    BY <1>3, <1>11, <2>1 DEF sys_close, argfd
  <2>3. ftable'[j] = NoFile /\ \A h \in Opens \ {j} : ftable'[h] = ftable[h]
    BY <1>4, <2>2
  <2>4. Owned(fs, i) \subseteq fs.bitmap
    <3>1. fs \in FileSys /\ Own(fs)
      BY <1>2, InvParts DEF Types
    <3> QED BY <3>1, ItruncFrees DEF Truncated
  <2>5. /\ panicked' = panicked
        /\ \/ fs' = fs
           \/ fs' = itrunc(fs, i) /\ \A h \in Opens \ {j} : ftable[h].ip # i
    BY <2>2, <2>4 DEF Released
  <2>6. /\ fs' \in FileSys /\ Own(fs')
        /\ \A x \in Inodes : x # i => fs'.size[x] = fs.size[x]
    BY <2>5, TruncStep
  <2>7. Types'
    <3>1. NoFile \in Entries
      BY Basics DEF NoFile, Entries
    <3>2. ftable' \in [Opens -> Entries]
      BY <1>4, <2>2, <3>1
    <3> QED BY <1>1, <1>2, <1>5, <2>5, <2>6, <3>2 DEF Types
  <2>8. \A h \in Opens : ftable'[h].ref = Cardinality(Refs(ofile', h))
    <3>1. ftable'[j].ref = 0
      BY <2>3 DEF NoFile
    <3> QED BY <1>8, <2>0, <2>3, <3>1
  <2>9. ASSUME NEW h \in Opens PROVE EntryOK(ftable[h])'
    <3>1. CASE h = j
      BY <2>3, <3>1 DEF EntryOK, NoFile
    <3>2. CASE h # j
      <4>1. EntryOK(ftable[h]) /\ ftable'[h] = ftable[h] /\ ftable[h].ip \in Inodes \cup {0}
        BY <1>4, <2>3, <3>2, InvParts DEF Entries
      <4>2. ftable[h].ip # 0 => fs'.size[ftable[h].ip] = fs.size[ftable[h].ip]
        BY <2>5, <2>6, <3>2, <4>1
      <4> QED BY <4>1, <4>2 DEF EntryOK
    <3> QED BY <3>1, <3>2
  <2>10. ASSUME NEW q \in Procs
         PROVE  CallOK(q)' /\ (\A x \in Inodes : Copies(q, x)' <=> Copies(q, x)) /\ Steady(q)
    <3>1. ASSUME call[q].pc # "idle"
          PROVE  /\ \E e \in Fds : ofile'[q][e] = call[q].f
                 /\ ftable'[call[q].f] = ftable[call[q].f]
      <4>1. PICK f \in Opens, e \in Fds : f = call[q].f /\ ofile[q][e] = f
        BY <3>1, InvParts DEF CallOK, CallOpen
      <4>2. q # p
        BY <1>1, <3>1 DEF Idle
      <4>3. f # j
        BY <1>6, <2>0, <4>1, <4>2
      <4> QED BY <1>9, <2>3, <3>1, <4>1, <4>3
    <3> QED BY <1>1, <3>1, CallKept
  <2>11. Locks'
    BY <1>1, <2>10, InvParts DEF Locks
  <2> QED BY <2>5, <2>6, <2>7, <2>8, <2>9, <2>10, <2>11, InvParts, InvWhole
<1> QED BY <1>10, <1>11

(* unlink: the name goes, and the blocks unless the file is open.          *)
LEMMA UnlinkInv ==
    ASSUME Inv, NEW p \in Procs, NEW i \in Inodes, sys_unlink(p, i)
    PROVE  Inv' /\ \A q \in Procs : Steady(q)
<1>1. /\ linked' = [linked EXCEPT ![i] = FALSE]
      /\ lock' = lock /\ saved' = saved /\ ftable' = ftable /\ ofile' = ofile /\ call' = call
      /\ panicked' = panicked
      /\ fs' = fs \/ (fs' = itrunc(fs, i) /\ \A j \in Opens : ftable[j].ip # i)
  BY DEF sys_unlink
<1>2. Types
  BY InvParts
<1>3. /\ fs' \in FileSys /\ Own(fs')
      /\ \A x \in Inodes : x # i => fs'.size[x] = fs.size[x]
  BY <1>1, TruncStep
<1>4. Types'
  BY <1>1, <1>2, <1>3 DEF Types
<1>5. ASSUME NEW h \in Opens PROVE EntryOK(ftable[h])'
  <2>1. EntryOK(ftable[h]) /\ ftable[h].ip \in Inodes \cup {0}
    BY <1>2, InvParts DEF Entries, Types
  <2>2. ftable[h].ip # 0 => fs'.size[ftable[h].ip] = fs.size[ftable[h].ip]
    BY <1>1, <1>3, <2>1
  <2> QED BY <1>1, <2>1, <2>2 DEF EntryOK
<1>6. \A q \in Procs : CallOK(q)' /\ (\A x \in Inodes : Copies(q, x)' <=> Copies(q, x)) /\ Steady(q)
  BY <1>1, InvParts DEF CallOK, CallOpen, Copies, Steady
<1>7. Locks'
  BY <1>1, <1>6, InvParts DEF Locks
<1>8. \A j \in Opens : ftable'[j].ref = Cardinality(Refs(ofile', j))
  BY <1>1, InvParts
<1> QED BY <1>1, <1>3, <1>4, <1>5, <1>6, <1>7, <1>8, InvParts, InvWhole

(* The sizes of files and what may be read.                                *)
LEMMA Sizes ==
    ASSUME NEW s \in FileSys, NEW i \in Inodes
    PROVE  /\ s.size[i] \in Nat /\ s.size[i] <= MAXFILE * BSIZE /\ s.size[i] < UINT
           /\ MAXFILE * BSIZE \in Nat /\ MAXFILE * BSIZE < UINT /\ UINT \in Nat
<1>1. s.size[i] \in 0 .. MAXFILE * BSIZE
  BY FsType
<1>2. MAXFILE * BSIZE \in Nat /\ MAXFILE * BSIZE < UINT /\ UINT \in Nat
  BY Basics, FileAssumption DEF MAXFILE
<1> QED BY <1>1, <1>2

(* A read ends at the end of the file at the latest.                       *)
LEMMA CutOffFits ==
    ASSUME fs \in FileSys, NEW i \in Inodes, NEW o \in Nat, o <= fs.size[i],
           NEW n \in 0 .. UINT - 1, ~BadRange(i, o, n)
    PROVE  CutOff(i, o, n) \in Nat /\ o + CutOff(i, o, n) <= fs.size[i]
<1>1. PICK z \in Nat : z = fs.size[i] /\ z < UINT
  BY Sizes
<1>2. UINT \in Nat /\ UINT > 0 /\ n \in Nat /\ n < UINT /\ o <= z
  BY <1>1, Basics
<1>3. ~((o + n) % UINT < o)
  BY DEF BadRange
<1>4. o + n < UINT
  <2>1. ASSUME o + n >= UINT PROVE FALSE
    <3>1. o + n - UINT \in 0 .. UINT - 1
      BY <1>1, <1>2, <2>1
    <3>2. (o + n) % UINT = o + n - UINT
      BY <1>1, <1>2, <3>1
    <3> QED BY <1>2, <1>3, <3>2
  <2> QED BY <1>2, <2>1
<1>5. (o + n) % UINT = o + n
  BY <1>2, <1>4
<1> QED BY <1>1, <1>2, <1>5 DEF CutOff

(* Another offset for open file j.                                         *)
SetOff(t, j, o) == [t EXCEPT ![j].off = o]

OffIs(t, u, j, o) ==
    /\ u \in [Opens -> Entries] /\ u[j].off = o
    /\ \A h \in Opens : u[h].ip = t[h].ip /\ u[h].ref = t[h].ref
    /\ \A h \in Opens \ {j} : u[h] = t[h]

(* Setting off changes nothing else.                                       *)
LEMMA SetOffIs ==
    ASSUME NEW t \in [Opens -> Entries], NEW j \in Opens, NEW o \in 0 .. UINT - 1
    PROVE  OffIs(t, SetOff(t, j, o), j, o)
<1>1. PICK e : e = [t[j] EXCEPT !.off = o]
  OBVIOUS
<1>2. PICK u : u = SetOff(t, j, o)
  OBVIOUS
<1>3. e \in Entries /\ e.off = o /\ e.ip = t[j].ip /\ e.ref = t[j].ref
  <2>1. t[j] \in Entries
    OBVIOUS
  <2> QED BY <1>1, <2>1 DEF Entries
<1>4. u = [t EXCEPT ![j] = e]
  BY <1>1, <1>2 DEF SetOff
<1>5. u \in [Opens -> Entries] /\ u[j] = e /\ \A h \in Opens \ {j} : u[h] = t[h]
  BY <1>3, <1>4
<1> QED BY <1>2, <1>3, <1>5 DEF OffIs

(* fileread moves an offset of an inode that nobody writes, within the     *)
(* file.                                                                   *)
LEMMA ReadInv ==
    ASSUME Inv, NEW p \in Procs, NEW d \in Fds, NEW n \in Reads, fileread(p, d, n)
    PROVE  Inv' /\ \A q \in Procs : Steady(q)
<1>1. /\ Idle(p) /\ ofile[p][d] # 0
      /\ fs' = fs /\ linked' = linked /\ lock' = lock /\ saved' = saved /\ ofile' = ofile
      /\ call' = call /\ panicked' = panicked
  BY DEF fileread, argfd
<1>2. Types
  BY InvParts
<1>3. PICK j \in Opens : j = ofile[p][d]
  BY <1>1, <1>2 DEF Types
<1>4. ftable \in [Opens -> Entries] /\ fs \in FileSys
  BY <1>2 DEF Types
<1>5. PICK i \in Inodes : i = ftable[j].ip
  BY <1>3, OpenEntry
<1>6. PICK o \in Nat : o = ftable[j].off /\ o <= fs.size[i]
  <2>1. EntryOK(ftable[j]) /\ ftable[j].off \in Nat
    BY <1>4, InvParts, Basics DEF Entries
  <2>2. i # 0
    BY FileAssumption
  <2> QED BY <1>5, <2>1, <2>2 DEF EntryOK
<1>7. lock[i] = NoProc /\ ~BadRange(i, o, n) /\ n \in 0 .. UINT - 1
  BY <1>3, <1>5, <1>6, FileAssumption DEF fileread, argfd
<1>8. PICK o2 \in Nat : o2 = o + CutOff(i, o, n) /\ o2 <= fs.size[i]
  BY <1>4, <1>6, <1>7, CutOffFits
<1>9. ftable' = SetOff(ftable, j, o2)
  BY <1>3, <1>4, <1>5, <1>6, <1>8 DEF fileread, argfd, SetOff
<1>10. o2 \in 0 .. UINT - 1
  BY <1>4, <1>8, Sizes
<1>11. OffIs(ftable, ftable', j, o2)
  BY <1>4, <1>9, <1>10, SetOffIs
<1>12. Types'
  BY <1>1, <1>2, <1>11 DEF Types, OffIs
<1>13. \A h \in Opens : ftable'[h].ref = Cardinality(Refs(ofile', h))
  BY <1>1, <1>11, InvParts DEF OffIs
<1>14. ASSUME NEW h \in Opens PROVE EntryOK(ftable[h])'
  <2>1. EntryOK(ftable[h])
    BY InvParts
  <2>2. CASE h = j
    BY <1>1, <1>5, <1>8, <1>11, <2>1, <2>2 DEF EntryOK, OffIs
  <2>3. CASE h # j
    BY <1>1, <1>11, <2>1, <2>3 DEF EntryOK, OffIs
  <2> QED BY <2>2, <2>3
<1>15. ASSUME NEW q \in Procs
       PROVE  CallOK(q)' /\ (\A x \in Inodes : Copies(q, x)' <=> Copies(q, x)) /\ Steady(q)
  <2>1. ASSUME call[q].pc # "idle"
        PROVE  /\ \E e \in Fds : ofile'[q][e] = call[q].f
               /\ ftable'[call[q].f].ip = ftable[call[q].f].ip
               /\ call[q].pc = "copy" => ftable'[call[q].f].off = ftable[call[q].f].off
    <3>1. PICK f \in Opens, e \in Fds : f = call[q].f /\ ofile[q][e] = f
      BY <2>1, InvParts DEF CallOK, CallOpen
    <3>2. call[q].pc = "copy" => f # j
      <4>1. ~Copies(q, i)
        BY <1>7, InvParts, FileAssumption DEF Locks
      <4> QED BY <1>5, <3>1, <4>1 DEF Copies
    <3> QED BY <1>1, <1>11, <3>1, <3>2 DEF OffIs
  <2> QED BY <1>1, <2>1, CallKept
<1>16. Locks'
  BY <1>1, <1>15, InvParts DEF Locks
<1> QED BY <1>1, <1>12, <1>13, <1>14, <1>15, <1>16, InvParts, InvWhole

(* A step of p's call, which moves an offset only with the inode's lock,   *)
(* leaves the other calls right.                                           *)
LEMMA OtherCalls ==
    ASSUME Inv, NEW p \in Procs, NEW c, call' = [call EXCEPT ![p] = c], ofile' = ofile,
           \A h \in Opens : ftable'[h].ip = ftable[h].ip,
           \A h \in Opens : ftable'[h].off = ftable[h].off \/ Copies(p, ftable[h].ip),
           NEW q \in Procs, q # p
    PROVE  /\ CallOK(q)' /\ call'[q] = call[q] /\ Steady(q)
           /\ \A i \in Inodes : Copies(q, i)' <=> Copies(q, i)
<1>0. Types
  BY InvParts
<1>1. call'[q] = call[q]
  BY <1>0 DEF Types
<1>2. ASSUME call[q].pc # "idle"
      PROVE  /\ \E e \in Fds : ofile'[q][e] = call[q].f
             /\ ftable'[call[q].f].ip = ftable[call[q].f].ip
             /\ call[q].pc = "copy" => ftable'[call[q].f].off = ftable[call[q].f].off
  <2>1. PICK f \in Opens, e \in Fds : f = call[q].f /\ ofile[q][e] = f
    BY <1>2, InvParts DEF CallOK, CallOpen
  <2>2. PICK i \in Inodes : i = ftable[f].ip
    BY <2>1, OpenEntry
  <2>3. ASSUME call[q].pc = "copy" PROVE ~Copies(p, i)
    <3>1. Copies(q, i)
      BY <2>1, <2>2, <2>3 DEF Copies
    <3>2. lock[i] = q
      BY <3>1, InvParts DEF Locks
    <3> QED BY <3>2, InvParts DEF Locks
  <2> QED BY <2>1, <2>2, <2>3
<1>3. CallOK(q)' /\ (\A i \in Inodes : Copies(q, i)' <=> Copies(q, i)) /\ Steady(q)
  BY <1>1, <1>2, CallKept
<1> QED BY <1>1, <1>3

(* A source is a suffix of itself, and of a suffix the rest is one.        *)
LEMMA SuffixIn ==
    ASSUME NEW s \in Sources, NEW a \in Nat \ {0}
    PROVE  SubSeq(s, a, Len(s)) \in Suffixes
<1>1. SubSeq(s, a, Len(s)) \in SuffixesOf(s)
  BY DEF SuffixesOf
<1> QED BY <1>1 DEF Suffixes

(* A source is what is left of it at first ...                             *)
LEMMA SuffixSelf ==
    ASSUME NEW src \in Sources
    PROVE  src \in Suffixes /\ src \in Seq(Nat) /\ src # <<>>
<1>1. src \in Seq(Nat) /\ src # <<>>
  BY FileAssumption
<1>2. SubSeq(src, 1, Len(src)) = src
  BY <1>1
<1>3. SubSeq(src, 1, Len(src)) \in Suffixes
  BY SuffixIn
<1> QED BY <1>1, <1>2, <1>3

(* ... and the rest after n bytes is what is left later.                   *)
LEMMA SuffixRest ==
    ASSUME NEW src \in Suffixes, NEW n \in Nat, n <= Len(src)
    PROVE  SubSeq(src, n + 1, Len(src)) \in Suffixes
<1>1. PICK s \in Sources, a \in Nat \ {0} : src = SubSeq(s, a, Len(s))
  BY DEF Suffixes, SuffixesOf
<1>2. s \in Seq(Nat) /\ Len(s) \in Nat
  BY <1>1, SuffixSelf
<1>3. CASE a <= Len(s)
  <2>1. Len(src) = Len(s) - a + 1 /\ \A x \in 1 .. Len(src) : src[x] = s[a + x - 1]
    BY <1>1, <1>2, <1>3
  <2>2. SubSeq(src, n + 1, Len(src)) = SubSeq(s, a + n, Len(s))
    BY <1>1, <1>2, <1>3, <2>1
  <2>3. a + n \in Nat \ {0}
    BY <1>1
  <2>4. SubSeq(s, a + n, Len(s)) \in Suffixes
    BY <2>3, SuffixIn
  <2> QED BY <2>2, <2>4
<1>4. CASE a > Len(s)
  <2>1. src = <<>> /\ Len(src) = 0
    BY <1>1, <1>2, <1>4
  <2>2. SubSeq(src, n + 1, Len(src)) = src
    BY <2>1
  <2> QED BY <2>2
<1> QED BY <1>1, <1>2, <1>3, <1>4

(* A chunk is no more than there is, and no more than the blocks that a    *)
(* transaction has room for.                                               *)
Room == (MAXOPBLOCKS - 1 - 1 - 2) \div 2

(* A chunk fits what is left and what a transaction may log.               *)
LEMMA ChunkFits ==
    ASSUME NEW left \in Nat
    PROVE  /\ Chunk(left) \in Nat /\ Chunk(left) <= left
           /\ Chunk(left) <= Room * BSIZE /\ Room \in Nat /\ Room + 4 <= MAXOPBLOCKS
<1>1. Room \in Nat /\ Room + 4 <= MAXOPBLOCKS
  BY FileAssumption DEF Room
<1>2. PICK m \in Nat : m = Room * BSIZE
  BY <1>1, Basics
<1>3. Chunk(left) = MinOf(left, m)
  BY <1>2 DEF Chunk, Room
<1> QED BY <1>1, <1>2, <1>3 DEF MinOf

(* filewrite starts with the whole source to write.                        *)
LEMMA WriteInv ==
    ASSUME Inv, NEW p \in Procs, NEW d \in Fds, NEW src \in Sources, filewrite(p, d, src)
    PROVE  Inv' /\ \A q \in Procs : q # p => Steady(q)
<1>1. /\ Idle(p) /\ ofile[p][d] # 0
      /\ fs' = fs /\ linked' = linked /\ lock' = lock /\ saved' = saved /\ ftable' = ftable
      /\ ofile' = ofile /\ panicked' = panicked
  BY DEF filewrite, argfd
<1>2. Types
  BY InvParts
<1>3. PICK j \in Opens : j = ofile[p][d]
  BY <1>1, <1>2 DEF Types
<1>4. PICK c : c = [NoCall EXCEPT !.pc = "chunk", !.f = j, !.src = src]
  OBVIOUS
<1>5. call' = [call EXCEPT ![p] = c]
  BY <1>3, <1>4 DEF filewrite, argfd
<1>6. src \in Suffixes /\ src \in Seq(Nat) /\ src # <<>>
  BY SuffixSelf
<1>7. /\ c \in Calls /\ c.pc = "chunk" /\ c.f = j /\ c.src = src /\ c.log = {}
  BY <1>4, <1>6 DEF NoCall, Calls
<1>8. call' \in [Procs -> Calls] /\ call'[p] = c
  BY <1>2, <1>5, <1>7 DEF Types
<1>9. Types'
  BY <1>1, <1>2, <1>8 DEF Types
<1>10. CallOK(p)'
  BY <1>1, <1>3, <1>6, <1>7, <1>8 DEF CallOK, CallOpen
<1>11. \A q \in Procs : q # p => CallOK(q)' /\ (\A i \in Inodes : Copies(q, i)' <=> Copies(q, i)) /\ Steady(q)
  BY <1>1, <1>5, OtherCalls
<1>12. \A i \in Inodes : ~Copies(p, i) /\ ~Copies(p, i)'
  BY <1>1, <1>7, <1>8 DEF Copies, Idle
<1>13. Locks'
  BY <1>1, <1>11, <1>12, InvParts DEF Locks
<1>14. \A h \in Opens : EntryOK(ftable[h])' /\ ftable'[h].ref = Cardinality(Refs(ofile', h))
  BY <1>1, InvParts DEF EntryOK
<1> QED BY <1>1, <1>9, <1>10, <1>11, <1>13, <1>14, InvParts, InvWhole

(* What a call in progress works on.                                       *)
LEMMA CallFile ==
    ASSUME Inv, NEW p \in Procs, call[p].pc # "idle"
    PROVE  /\ call[p].f \in Opens /\ ftable[call[p].f].ip \in Inodes
           /\ ftable[call[p].f].off \in Nat
           /\ ftable[call[p].f].off <= fs.size[ftable[call[p].f].ip]
           /\ call[p] \in Calls /\ call[p].src \in Suffixes \ {<<>>} /\ call[p].src \in Seq(Nat)
           /\ Len(call[p].src) \in Nat
<1>1. PICK f \in Opens, e \in Fds : f = call[p].f /\ ofile[p][e] = f
  BY InvParts DEF CallOK, CallOpen
<1>2. call[p] \in Calls /\ ftable[f] \in Entries
  BY <1>1, InvParts DEF Types
<1>3. ftable[f].ip \in Inodes
  BY <1>1, OpenEntry
<1>4. EntryOK(ftable[f]) /\ ftable[f].ip # 0
  BY <1>1, <1>3, InvParts, FileAssumption
<1>5. ftable[f].off \in Nat
  BY <1>2, Basics DEF Entries
<1>6. call[p].src \in Suffixes \ {<<>>} /\ call[p].src \in Seq(Nat)
  BY <1>2, InvParts DEF Calls, CallOK
<1>7. Len(call[p].src) \in Nat
  BY <1>6
<1> QED BY <1>1, <1>2, <1>3, <1>4, <1>5, <1>6, <1>7 DEF EntryOK

(* writei_begin takes the lock with a range that fits, or ends the call.   *)
LEMMA BeginInv ==
    ASSUME Inv, NEW p \in Procs, writei_begin(p)
    PROVE  Inv' /\ \A q \in Procs : q # p => Steady(q)
<1>1. PICK i, o, n1, c :
         /\ c = call[p] /\ i = ftable[c.f].ip /\ o = ftable[c.f].off /\ n1 = Chunk(Len(c.src))
         /\ panicked = "no" /\ c.pc = "chunk" /\ lock[i] = NoProc
         /\ \/ call' = [call EXCEPT ![p] = NoCall] /\ lock' = lock /\ saved' = saved
            \/ /\ ~(BadRange(i, o, n1) \/ o + n1 > MAXFILE * BSIZE)
               /\ call' = [call EXCEPT ![p] = [c EXCEPT !.pc = "copy", !.n1 = n1, !.tot = 0]]
               /\ lock' = [lock EXCEPT ![i] = p]
               /\ saved' = [saved EXCEPT ![i] = Content(i)]
  BY DEF writei_begin
<1>2. /\ fs' = fs /\ linked' = linked /\ ftable' = ftable /\ ofile' = ofile /\ panicked' = panicked
  BY DEF writei_begin
<1>3. Types
  BY InvParts
<1>4. /\ c.f \in Opens /\ i \in Inodes /\ o \in Nat /\ c \in Calls /\ Len(c.src) \in Nat
      /\ c.src \in Suffixes \ {<<>>}
  BY <1>1, CallFile
<1>5. n1 \in Nat /\ n1 <= Len(c.src)
  BY <1>1, <1>4, ChunkFits
<1>6. \A h \in Opens : EntryOK(ftable[h])' /\ ftable'[h].ref = Cardinality(Refs(ofile', h))
  BY <1>2, InvParts DEF EntryOK
<1>7. \A x \in Inodes : ~Copies(p, x)
  BY <1>1 DEF Copies
<1>8. CASE call' = [call EXCEPT ![p] = NoCall] /\ lock' = lock /\ saved' = saved
  <2>1. NoCall \in Calls /\ NoCall.pc = "idle"
    BY DEF NoCall, Calls
  <2>2. call'[p] = NoCall /\ call' \in [Procs -> Calls]
    BY <1>3, <1>8, <2>1 DEF Types
  <2>3. Types'
    BY <1>2, <1>3, <1>8, <2>2 DEF Types
  <2>4. CallOK(p)'
    BY <2>1, <2>2 DEF CallOK
  <2>5. \A q \in Procs : q # p => CallOK(q)' /\ (\A x \in Inodes : Copies(q, x)' <=> Copies(q, x)) /\ Steady(q)
    BY <1>2, <1>8, OtherCalls
  <2>6. \A x \in Inodes : ~Copies(p, x)'
    BY <2>1, <2>2 DEF Copies
  <2>7. Locks'
    BY <1>7, <1>8, <2>5, <2>6, InvParts DEF Locks
  <2> QED BY <1>2, <1>6, <2>3, <2>4, <2>5, <2>7, InvParts, InvWhole
<1>9. CASE /\ ~(BadRange(i, o, n1) \/ o + n1 > MAXFILE * BSIZE)
           /\ call' = [call EXCEPT ![p] = [c EXCEPT !.pc = "copy", !.n1 = n1, !.tot = 0]]
           /\ lock' = [lock EXCEPT ![i] = p]
           /\ saved' = [saved EXCEPT ![i] = Content(i)]
  <2>0. PICK n : n = [c EXCEPT !.pc = "copy", !.n1 = n1, !.tot = 0]
    OBVIOUS
  <2>1. /\ n \in Calls /\ n.pc = "copy" /\ n.f = c.f /\ n.src = c.src /\ n.n1 = n1 /\ n.tot = 0
    BY <1>4, <1>5, <2>0 DEF Calls
  <2>2. call' = [call EXCEPT ![p] = n]
    BY <1>9, <2>0
  <2>3. call'[p] = n /\ call' \in [Procs -> Calls]
    BY <1>3, <2>1, <2>2 DEF Types
  <2>4. Types'
    <3>1. lock' \in [Inodes -> Procs \cup {NoProc}]
      BY <1>3, <1>9 DEF Types
    <3>2. saved' = [x \in Inodes |-> saved'[x]]
      BY <1>3, <1>9 DEF Types
    <3> QED BY <1>2, <1>3, <2>3, <3>1, <3>2 DEF Types
  <2>5. CallOK(p)'
    <3>1. CallOpen(p)'
      <4>1. CallOpen(p)
        BY <1>1, InvParts DEF CallOK
      <4> QED BY <1>1, <1>2, <2>1, <2>3, <4>1 DEF CallOpen
    <3>2. o + n1 <= MAXFILE * BSIZE /\ 0 <= n1
      BY <1>4, <1>5, <1>9, Basics
    <3>3. CopyRange(n, o)
      BY <1>1, <2>1, <3>2 DEF CopyRange
    <3> QED BY <1>1, <1>2, <1>4, <2>1, <2>3, <3>1, <3>3 DEF CallOK
  <2>6. \A q \in Procs : q # p => CallOK(q)' /\ (\A x \in Inodes : Copies(q, x)' <=> Copies(q, x)) /\ Steady(q)
    BY <1>2, <2>2, OtherCalls
  <2>7. \A x \in Inodes : Copies(p, x)' <=> x = i
    BY <1>1, <1>2, <2>1, <2>3 DEF Copies
  <2>8. \A x \in Inodes : lock'[x] = IF x = i THEN p ELSE lock[x]
    BY <1>3, <1>9 DEF Types
  <2>9. Locks'
    <3>1. \A q \in Procs : ~Copies(q, i)
      BY <1>1, <1>4, InvParts, FileAssumption DEF Locks
    <3> QED BY <1>4, <1>7, <2>6, <2>7, <2>8, <3>1, InvParts DEF Locks
  <2> QED BY <1>2, <1>6, <2>4, <2>5, <2>6, <2>9, InvParts, InvWhole
<1> QED BY <1>1, <1>8, <1>9

(* writei_end moves the offset to the end of what it wrote, within the new *)
(* size.                                                                   *)
LEMMA EndInv ==
    ASSUME Inv, NEW p \in Procs, writei_end(p)
    PROVE  Inv' /\ \A q \in Procs : q # p => Steady(q)
<1>1. PICK i, o, rest, c, n :
         /\ c = call[p] /\ i = ftable[c.f].ip /\ o = ftable[c.f].off + c.n1
         /\ rest = SubSeq(c.src, c.n1 + 1, Len(c.src))
         /\ panicked = "no" /\ c.pc = "copy" /\ c.tot = c.n1
         /\ fs' = [fs EXCEPT !.size[i] = NewSize(@, o)]
         /\ ftable' = SetOff(ftable, c.f, o)
         /\ lock' = [lock EXCEPT ![i] = NoProc]
         /\ saved' = [saved EXCEPT ![i] = <<>>]
         /\ call' = [call EXCEPT ![p] = n]
         /\ n = IF rest = <<>> THEN NoCall
                ELSE [NoCall EXCEPT !.pc = "chunk", !.f = c.f, !.src = rest]
  BY DEF writei_end, SetOff
<1>2. /\ linked' = linked /\ ofile' = ofile /\ panicked' = panicked
  BY DEF writei_end
<1>3. Types
  BY InvParts
<1>4. /\ c.f \in Opens /\ i \in Inodes /\ ftable[c.f].off \in Nat /\ c \in Calls
      /\ Len(c.src) \in Nat /\ c.src \in Seq(Nat) /\ c.src \in Suffixes
  BY <1>1, CallFile
<1>5. /\ c.n1 \in Nat /\ c.n1 <= Len(c.src) /\ o <= MAXFILE * BSIZE /\ o \in Nat
  <2>1. CopyRange(c, ftable[c.f].off)
    BY <1>1, InvParts DEF CallOK
  <2>2. PICK l \in Nat : l = Len(c.src)
    BY <1>4
  <2>3. c.n1 = Chunk(l) /\ Chunk(l) \in Nat /\ Chunk(l) <= l
    BY <2>1, <2>2, ChunkFits DEF CopyRange
  <2>4. o <= MAXFILE * BSIZE
    BY <1>1, <2>1 DEF CopyRange
  <2>5. o \in Nat
    BY <1>1, <1>4, <2>3
  <2> QED BY <2>2, <2>3, <2>4, <2>5
<1>6. rest \in Suffixes /\ rest \in Seq(Nat)
  <2>1. PICK src \in Seq(Nat), m \in Nat : src = c.src /\ m = c.n1
    BY <1>4, <1>5
  <2>2. rest \in Suffixes
    BY <1>1, <1>4, <1>5, <2>1, SuffixRest
  <2>3. SubSeq(src, m + 1, Len(src)) \in Seq(Nat)
    <3>1. \A x \in (m + 1) .. Len(src) : src[x] \in Nat
      BY <1>4, <2>1
    <3> QED BY <1>4, <2>1, <3>1
  <2> QED BY <1>1, <2>1, <2>2, <2>3
<1>7. Copies(p, i) /\ \A x \in Inodes : Copies(p, x) <=> x = i
  BY <1>1 DEF Copies
<1>8. /\ n \in Calls /\ n.pc \in {"idle", "chunk"} /\ n.log = {}
      /\ n.pc = "idle" => n = NoCall
      /\ n.pc = "chunk" => n.f = c.f /\ n.src \in Suffixes \ {<<>>}
  BY <1>1, <1>4, <1>6 DEF NoCall, Calls
<1>9. call'[p] = n /\ call' \in [Procs -> Calls]
  BY <1>1, <1>3, <1>8 DEF Types
<1>10. PICK z \in 0 .. MAXFILE * BSIZE : z = NewSize(fs.size[i], o) /\ z >= o /\ z >= fs.size[i]
  <2>1. fs.size[i] \in Nat /\ fs.size[i] <= MAXFILE * BSIZE /\ MAXFILE * BSIZE \in Nat
    BY <1>3, <1>4, Sizes DEF Types
  <2> QED BY <1>5, <2>1 DEF NewSize
<1>11. /\ fs'.bitmap = fs.bitmap /\ fs'.data = fs.data /\ fs'.addrs = fs.addrs
       /\ fs'.size = [fs.size EXCEPT ![i] = z]
       /\ fs' = [bitmap |-> fs'.bitmap, data |-> fs'.data, size |-> fs'.size, addrs |-> fs'.addrs]
  BY <1>1, <1>3, <1>10 DEF Types, FileSys
<1>12. fs \in FileSys /\ fs.size \in [Inodes -> 0 .. MAXFILE * BSIZE]
  BY <1>3, FsType DEF Types
<1>13. fs' \in FileSys
  BY <1>11, <1>12, FsType DEF FileSys
<1>14. fs'.size[i] = z /\ \A x \in Inodes : x # i => fs'.size[x] = fs.size[x]
  BY <1>4, <1>11, <1>12
<1>15. Own(fs')
  <2>1. \A x \in Inodes, k \in Keys : Loc(fs', x, k) = Loc(fs, x, k)
    BY <1>11 DEF Loc
  <2> QED BY <1>11, <2>1, InvParts DEF Own
<1>16. OffIs(ftable, ftable', c.f, o)
  <2>1. ftable \in [Opens -> Entries] /\ o \in 0 .. UINT - 1
    BY <1>3, <1>4, <1>5, <1>12, Sizes DEF Types
  <2> QED BY <1>1, <1>4, <2>1, SetOffIs
<1>17. Types'
  <2>1. lock' \in [Inodes -> Procs \cup {NoProc}]
    BY <1>1, <1>3 DEF Types
  <2>2. saved' = [x \in Inodes |-> saved'[x]]
    BY <1>1, <1>3 DEF Types
  <2> QED BY <1>2, <1>3, <1>9, <1>13, <1>16, <2>1, <2>2 DEF Types, OffIs
<1>18. \A h \in Opens : ftable'[h].ref = Cardinality(Refs(ofile', h))
  BY <1>2, <1>16, InvParts DEF OffIs
<1>19. ASSUME NEW h \in Opens PROVE EntryOK(ftable[h])'
  <2>1. EntryOK(ftable[h]) /\ ftable[h] \in Entries
    BY <1>3, InvParts DEF Types
  <2>2. CASE h = c.f
    <3>1. ftable'[h].off = o /\ ftable'[h].ip = i /\ ftable'[h].ref = ftable[h].ref
      BY <1>1, <1>4, <1>16, <2>2 DEF OffIs
    <3> QED BY <1>1, <1>10, <1>14, <2>1, <2>2, <3>1 DEF EntryOK
  <2>3. CASE h # c.f
    <3>1. ftable'[h] = ftable[h]
      BY <1>16, <2>3 DEF OffIs
    <3>2. ASSUME ftable[h].ip # 0
          PROVE  ftable[h].off <= fs'.size[ftable[h].ip]
      <4>1. PICK x \in Inodes : x = ftable[h].ip
        BY <2>1, <3>2 DEF Entries
      <4>2. ftable[h].off \in Nat /\ ftable[h].off <= fs.size[x]
        BY <2>1, <3>2, <4>1, Basics DEF EntryOK, Entries
      <4>3. fs.size[x] \in Nat
        BY <1>12, Sizes
      <4>4. fs'.size[x] \in Nat /\ fs'.size[x] >= fs.size[x]
        BY <1>10, <1>13, <1>14, <4>3, Sizes
      <4> QED BY <4>1, <4>2, <4>3, <4>4
    <3> QED BY <2>1, <3>1, <3>2 DEF EntryOK
  <2> QED BY <2>2, <2>3
<1>20. CallOK(p)'
  <2>1. CallOpen(p)
    BY <1>1, InvParts DEF CallOK
  <2> QED BY <1>1, <1>2, <1>8, <1>9, <2>1 DEF CallOK, CallOpen
<1>21. \A q \in Procs : q # p => CallOK(q)' /\ (\A x \in Inodes : Copies(q, x)' <=> Copies(q, x)) /\ Steady(q)
  <2>1. \A h \in Opens : ftable'[h].ip = ftable[h].ip
    BY <1>16 DEF OffIs
  <2>2. \A h \in Opens : ftable'[h].off = ftable[h].off \/ Copies(p, ftable[h].ip)
    BY <1>1, <1>7, <1>16 DEF OffIs
  <2> QED BY <1>1, <1>2, <2>1, <2>2, OtherCalls
<1>22. \A x \in Inodes : ~Copies(p, x)'
  BY <1>8, <1>9 DEF Copies
<1>23. Locks'
  <2>1. \A x \in Inodes : lock'[x] = IF x = i THEN NoProc ELSE lock[x]
    BY <1>1, <1>3 DEF Types
  <2>2. \A q \in Procs : q # p => ~Copies(q, i)
    BY <1>4, <1>7, InvParts DEF Locks
  <2>3. \A q \in Procs, x \in Inodes : Copies(q, x)' <=> q # p /\ Copies(q, x)
    BY <1>21, <1>22
  <2>4. \A q \in Procs, x \in Inodes : lock[x] = q <=> Copies(q, x)
    BY InvParts DEF Locks
  <2>5. NoProc \notin Procs
    BY FileAssumption
  <2> QED BY <1>7, <2>1, <2>2, <2>3, <2>4, <2>5 DEF Locks
<1> QED BY <1>2, <1>15, <1>17, <1>18, <1>19, <1>20, <1>21, <1>23, InvParts, InvWhole
-----------------------------------------------------------------------------
(* A turn of writei's loop: m bytes of src from tot go to position o.      *)
NewBlock(old, o, m, src, tot) ==
    [w \in Words |-> IF (o % BSIZE) \leq w /\ w < (o % BSIZE) + m
                     THEN src[tot + w - (o % BSIZE) + 1] ELSE old[w]]

BlockDone(s, t, i, o, m, src, tot, b) ==
    /\ t \in FileSys /\ Own(t) /\ t.size = s.size
    /\ b \in Blk /\ Loc(t, i, o \div BSIZE) = b
    /\ \A j \in Inodes, k \in Keys : Loc(s, j, k) # 0 \/ j # i => Loc(t, j, k) = Loc(s, j, k)
    /\ Logged(s, t) \subseteq {BitmapBlk, b, Loc(t, i, MAXFILE)}
    /\ \A j \in Inodes, k \in Keys :
          Loc(s, j, k) \notin {0, b} /\ k # MAXFILE => t.data[Loc(s, j, k)] = s.data[Loc(s, j, k)]
    /\ \E old : /\ Loc(s, i, o \div BSIZE) # 0 => old = s.data[b]
                /\ t.data[b] = NewBlock(old, o, m, src, tot)

(* The words of a turn are words of what is written.                       *)
LEMMA WordFits ==
    ASSUME NEW tot \in Nat, NEW w \in Nat, NEW z \in Nat, NEW m \in Nat, NEW l \in Nat,
           z <= w, w < z + m, tot + m <= l
    PROVE  tot + w - z + 1 \in 1 .. l
  OBVIOUS

(* A turn of the loop: the block is mapped, and m bytes of it are          *)
(* replaced.                                                               *)
LEMMA BlockTurn ==
    ASSUME NEW s \in FileSys, Own(s), NEW i \in Inodes, NEW o \in Nat, o < MAXFILE * BSIZE,
           Missing(s, i, o \div BSIZE) <= NBLOCKS - Cardinality(s.bitmap),
           NEW m \in Nat, m <= BSIZE - (o % BSIZE),
           NEW src \in Seq(Nat), NEW tot \in Nat, tot + m <= Len(src),
           NEW u, u = bmap(s, i, o \div BSIZE).fs, NEW b, b = bmap(s, i, o \div BSIZE).b,
           NEW old, old = u.data[b]
    PROVE  BlockDone(s, Store(u, b, NewBlock(old, o, m, src, tot)), i, o, m, src, tot, b)
<1>1. PICK k \in Keys : k = o \div BSIZE /\ k < MAXFILE
  BY BlockFits
<1>r. PICK r : r = bmap(s, i, o \div BSIZE)
  OBVIOUS
<1>x. PICK x : x = NewBlock(old, o, m, src, tot)
  OBVIOUS
<1>t. PICK t : t = Store(u, b, x)
  OBVIOUS
<1>2. /\ u = r.fs /\ b = r.b /\ old = u.data[b]
      /\ x = NewBlock(old, o, m, src, tot) /\ t = Store(u, b, x)
  BY <1>r, <1>x, <1>t
<1>3. Mapped(s, r, i, k)
  BY <1>1, <1>r, BmapMaps
<1>4. Grown(s, u, i, {b, Loc(u, i, MAXFILE)}) /\ Loc(u, i, k) = b /\ b \in Blk
  BY <1>2, <1>3 DEF Mapped
<1>5. u \in FileSys /\ Own(u)
  BY <1>4 DEF Grown
<1>6. x \in [Words -> Nat]
  <2>1. old \in [Words -> Nat]
    BY <1>2, <1>4, <1>5, FsType
  <2>2. ASSUME NEW w \in Words, (o % BSIZE) \leq w, w < (o % BSIZE) + m
        PROVE  src[tot + w - (o % BSIZE) + 1] \in Nat
    <3>1. PICK z \in Nat : z = o % BSIZE
      BY DivMod DEF Words
    <3>2. z <= w /\ w < z + m /\ w \in Nat /\ Len(src) \in Nat
      BY <2>2, <3>1, Basics DEF Words
    <3>l. PICK l \in Nat : l = Len(src) /\ tot + m <= l
      BY <3>2
    <3>n. tot \in Nat /\ m \in Nat
      OBVIOUS
    <3>3. tot + w - z + 1 \in 1 .. Len(src)
      BY <3>1, <3>2, <3>l, <3>n, WordFits
    <3> QED BY <3>1, <3>3
  <2> QED BY <1>2, <2>1, <2>2 DEF NewBlock
<1>7. Stored(u, t, b, x)
  BY <1>1, <1>2, <1>4, <1>5, <1>6, StoreKeeps
<1>8. /\ t \in FileSys /\ Own(t) /\ t.size = s.size /\ t.data[b] = x
      /\ \A c \in Blk \ {b} : t.data[c] = u.data[c]
      /\ \A j \in Inodes, l \in Keys : Loc(t, j, l) = Loc(u, j, l)
      /\ t.bitmap = u.bitmap
  BY <1>4, <1>7 DEF Stored, Grown
<1>9. \A j \in Inodes, l \in Keys : Loc(s, j, l) # 0 \/ j # i => Loc(t, j, l) = Loc(s, j, l)
  BY <1>4, <1>8 DEF Grown
<1>10. Logged(s, t) \subseteq {BitmapBlk, b, Loc(t, i, MAXFILE)}
  <2>1. MAXFILE \in Keys
    BY Basics DEF Keys
  <2>2. PICK ind : ind = Loc(u, i, MAXFILE) /\ ind = Loc(t, i, MAXFILE)
    BY <1>8, <2>1
  <2>3. t.bitmap \ s.bitmap \subseteq {b, ind}
    BY <1>4, <1>8, <2>2 DEF Grown
  <2>4. ASSUME NEW c \in Blk, c \notin {b, ind} PROVE s.data[c] = t.data[c]
    BY <1>4, <1>8, <2>2, <2>4 DEF Grown
  <2>5. {c \in Blk : s.data[c] # t.data[c]} \subseteq {b, ind}
    BY <2>4
  <2> QED BY <2>2, <2>3, <2>5 DEF Logged
<1>11. ASSUME NEW j \in Inodes, NEW l \in Keys, Loc(s, j, l) \notin {0, b}, l # MAXFILE
       PROVE  t.data[Loc(s, j, l)] = s.data[Loc(s, j, l)]
  <2>1. u.data[Loc(s, j, l)] = s.data[Loc(s, j, l)]
    BY <1>4, <1>11 DEF Grown
  <2>2. Loc(s, j, l) \in Blk \ {b}
    <3>1. Loc(s, j, l) \in s.bitmap
      BY <1>11 DEF Own
    <3> QED BY <1>11, <3>1, FsType
  <2> QED BY <1>8, <2>1, <2>2
<1>12. Loc(s, i, k) # 0 => old = s.data[b]
  <2>1. ASSUME Loc(s, i, k) # 0 PROVE old = s.data[b]
    <3>1. Loc(s, i, k) = b
      BY <1>1, <1>4, <2>1 DEF Grown
    <3>2. k # MAXFILE
      BY <1>1, Basics
    <3> QED BY <1>2, <1>4, <2>1, <3>1, <3>2 DEF Grown
  <2> QED BY <2>1
<1>13. Loc(t, i, k) = b
  BY <1>4, <1>8
<1> QED BY <1>1, <1>2, <1>4, <1>8, <1>9, <1>10, <1>11, <1>12, <1>13 DEF BlockDone

(* A byte after a turn that puts m bytes at offset o of inode i: a byte of *)
(* src, or what it was before.                                             *)
ByteStep(s, t, i, o, m, src, tot, j, x) ==
    IF j = i /\ o <= x /\ x < o + m
    THEN Loc(t, j, x \div BSIZE) # 0 /\ Byte(t, j, x) = src[tot + x - o + 1]
    ELSE Loc(s, j, x \div BSIZE) # 0 => /\ Loc(t, j, x \div BSIZE) # 0
                                        /\ Byte(t, j, x) = Byte(s, j, x)

(* The bytes after a turn.                                                 *)
LEMMA TurnBytes ==
    ASSUME NEW s \in FileSys, Own(s), NEW t, NEW i \in Inodes, NEW o \in Nat, o < MAXFILE * BSIZE,
           NEW b, NEW m \in Nat, m <= BSIZE - (o % BSIZE), NEW src, NEW tot \in Nat,
           BlockDone(s, t, i, o, m, src, tot, b),
           NEW j \in Inodes, NEW x \in Nat, x < MAXFILE * BSIZE
    PROVE  ByteStep(s, t, i, o, m, src, tot, j, x)
<1>1. PICK k \in Keys : k = x \div BSIZE /\ k < MAXFILE /\ k # MAXFILE
  <2>1. PICK k \in Keys : k = x \div BSIZE /\ k < MAXFILE
    BY BlockFits
  <2>2. k # MAXFILE
    BY <2>1, Basics
  <2> QED BY <2>1, <2>2
<1>2. PICK w \in Words : w = x % BSIZE
  BY DivMod
<1>3. PICK old : /\ Loc(s, i, o \div BSIZE) # 0 => old = s.data[b]
                 /\ t.data[b] = NewBlock(old, o, m, src, tot)
  BY DEF BlockDone
<1>4. PICK z \in Words : z = o % BSIZE
  BY DivMod
<1>5. b \in Blk /\ b # 0 /\ Loc(t, i, o \div BSIZE) = b
  BY Basics DEF BlockDone
<1>6. w \in Nat /\ z \in Nat /\ BSIZE \in Nat
  BY Basics DEF Words
<1>7. t.data[b][w] = IF z <= w /\ w < z + m THEN src[tot + w - z + 1] ELSE old[w]
  BY <1>3, <1>4 DEF NewBlock
<1>8. CASE j = i /\ k = o \div BSIZE
  <2>1. x - o = w - z
    BY <1>1, <1>2, <1>4, <1>8, InBlock
  <2>2. (z <= w /\ w < z + m) <=> (o <= x /\ x < o + m)
    BY <1>6, <2>1
  <2>3. tot + w - z + 1 = tot + x - o + 1
    BY <1>6, <2>1
  <2>4. Loc(t, j, k) = b /\ Byte(t, j, x) = t.data[b][w]
    BY <1>1, <1>2, <1>5, <1>8 DEF Byte
  <2>5. ASSUME Loc(s, j, k) # 0 PROVE Byte(s, j, x) = old[w]
    <3>1. Loc(s, j, k) = b
      BY <1>5, <1>8, <2>5 DEF BlockDone
    <3> QED BY <1>1, <1>2, <1>3, <1>8, <2>5, <3>1 DEF Byte
  <2> QED BY <1>1, <1>5, <1>7, <1>8, <2>2, <2>3, <2>4, <2>5 DEF ByteStep
<1>9. CASE ~(j = i /\ k = o \div BSIZE)
  <2>1. ~(j = i /\ o <= x /\ x < o + m)
    <3>1. ASSUME o <= x, x < o + m PROVE k = o \div BSIZE
      <4>1. PICK y \in 0 .. m - 1 : x = o + y
        BY <3>1
      <4> QED BY <1>1, <4>1, SameBlock
    <3> QED BY <1>9, <3>1
  <2>2. ASSUME Loc(s, j, k) # 0 PROVE Loc(t, j, k) # 0 /\ Byte(t, j, x) = Byte(s, j, x)
    <3>1. Loc(t, j, k) = Loc(s, j, k)
      BY <2>2 DEF BlockDone
    <3>2. Loc(s, j, k) # b
      <4>1. o \div BSIZE \in Keys
        BY BlockFits
      <4>2. Own(t)
        BY DEF BlockDone
      <4> QED BY <1>5, <1>9, <2>2, <3>1, <4>1, <4>2 DEF Own
    <3>3. t.data[Loc(s, j, k)] = s.data[Loc(s, j, k)]
      BY <1>1, <2>2, <3>2 DEF BlockDone
    <3> QED BY <1>1, <2>2, <3>1, <3>3 DEF Byte
  <2> QED BY <1>1, <2>1, <2>2 DEF ByteStep
<1> QED BY <1>8, <1>9

(* What a turn does, as one formula.                                       *)
TurnDone(p, i, o, m, c, n, b) ==
    /\ c = call[p] /\ i = ftable[c.f].ip /\ o = ftable[c.f].off + c.tot
    /\ c.pc = "copy" /\ i \in Inodes /\ o \in Nat /\ o < MAXFILE * BSIZE
    /\ m \in Nat /\ m <= BSIZE - (o % BSIZE) /\ c.tot + m <= c.n1 /\ m > 0
    /\ BlockDone(fs, fs', i, o, m, c.src, c.tot, b)
    /\ call' = [call EXCEPT ![p] = n] /\ n \in Calls
    /\ n.pc = "copy" /\ n.f = c.f /\ n.src = c.src /\ n.n1 = c.n1 /\ n.tot = c.tot + m
    /\ n.log = c.log \cup Logged(fs, fs') \cup {b}

(* writei_block stops for want of blocks, or takes a turn.                 *)
LEMMA TurnTaken ==
    ASSUME Inv, NEW p \in Procs, writei_block(p)
    PROVE  /\ UNCHANGED <<linked, lock, saved, ftable, ofile>>
           /\ \/ panicked' = "full" /\ fs' = fs /\ call' = call
              \/ panicked' = panicked /\ \E i, o, m, c, n, b : TurnDone(p, i, o, m, c, n, b)
<1> DEFINE c0 == call[p]
           i0 == ftable[c0.f].ip
           o0 == ftable[c0.f].off + c0.tot
           m0 == MinOf(c0.n1 - c0.tot, BSIZE - (o0 % BSIZE))
           r0 == bmap(fs, i0, o0 \div BSIZE)
           t0 == [r0.fs EXCEPT !.data[r0.b] = NewBlock(@, o0, m0, c0.src, c0.tot)]
<1>0. /\ c0.pc = "copy" /\ c0.tot < c0.n1
      /\ IF Missing(fs, i0, o0 \div BSIZE) > NBLOCKS - Cardinality(fs.bitmap)
         THEN panicked' = "full" /\ fs' = fs /\ call' = call
         ELSE /\ fs' = t0
              /\ call' = [call EXCEPT ![p].tot = @ + m0,
                                      ![p].log = @ \cup Logged(fs, t0) \cup {r0.b}]
              /\ panicked' = panicked
  BY DEF writei_block, NewBlock
<1>c. PICK c : c = c0
  OBVIOUS
<1>i. PICK i : i = i0
  OBVIOUS
<1>o. PICK o : o = o0
  OBVIOUS
<1>m. PICK m : m = m0
  OBVIOUS
<1>r. PICK r : r = r0
  OBVIOUS
<1>1. /\ c = call[p] /\ i = ftable[c.f].ip /\ o = ftable[c.f].off + c.tot
      /\ m = MinOf(c.n1 - c.tot, BSIZE - (o % BSIZE)) /\ r = bmap(fs, i, o \div BSIZE)
      /\ c.pc = "copy" /\ c.tot < c.n1
      /\ \/ panicked' = "full" /\ fs' = fs /\ call' = call
         \/ /\ ~(Missing(fs, i, o \div BSIZE) > NBLOCKS - Cardinality(fs.bitmap))
            /\ fs' = [r.fs EXCEPT !.data[r.b] = NewBlock(@, o, m, c.src, c.tot)]
            /\ call' = [call EXCEPT ![p].tot = @ + m,
                                    ![p].log = @ \cup Logged(fs, fs') \cup {r.b}]
            /\ panicked' = panicked
  BY <1>0, <1>c, <1>i, <1>o, <1>m, <1>r
<1> HIDE DEF c0, i0, o0, m0, r0, t0
<1>2. UNCHANGED <<linked, lock, saved, ftable, ofile>>
  BY DEF writei_block
<1>3. CASE panicked' = "full" /\ fs' = fs /\ call' = call
  BY <1>2, <1>3
<1>4. CASE /\ ~(Missing(fs, i, o \div BSIZE) > NBLOCKS - Cardinality(fs.bitmap))
           /\ fs' = [r.fs EXCEPT !.data[r.b] = NewBlock(@, o, m, c.src, c.tot)]
           /\ call' = [call EXCEPT ![p].tot = @ + m,
                                   ![p].log = @ \cup Logged(fs, fs') \cup {r.b}]
           /\ panicked' = panicked
  <2>1. /\ c.f \in Opens /\ i \in Inodes /\ ftable[c.f].off \in Nat /\ c \in Calls
        /\ Len(c.src) \in Nat /\ c.src \in Seq(Nat)
    BY <1>1, CallFile
  <2>2. /\ c.n1 \in Nat /\ c.tot \in Nat /\ c.n1 <= Len(c.src)
        /\ ftable[c.f].off + c.n1 <= MAXFILE * BSIZE
    <3>1. CopyRange(c, ftable[c.f].off)
      BY <1>1, InvParts DEF CallOK
    <3> QED BY <2>1, <3>1, ChunkFits DEF CopyRange, Calls
  <2>3. o \in Nat /\ o < MAXFILE * BSIZE
    <3>1. MAXFILE * BSIZE \in Nat
      BY Basics
    <3>2. PICK e \in Nat, n1 \in Nat, tot \in Nat : e = ftable[c.f].off /\ n1 = c.n1 /\ tot = c.tot
      BY <2>1, <2>2
    <3>3. o = e + tot /\ tot < n1 /\ e + n1 <= MAXFILE * BSIZE
      BY <1>1, <2>2, <3>2
    <3> QED BY <3>1, <3>2, <3>3
  <2>4. /\ m \in Nat /\ m <= BSIZE - (o % BSIZE) /\ c.tot + m <= c.n1 /\ m > 0
        /\ c.tot + m <= Len(c.src)
    <3>1. PICK z \in Nat : z = o % BSIZE /\ z < BSIZE
      BY <2>3, DivMod, Basics DEF Words
    <3>2. PICK n1 \in Nat, tot \in Nat, len \in Nat : n1 = c.n1 /\ tot = c.tot /\ len = Len(c.src)
      BY <2>1, <2>2
    <3>3. m = MinOf(n1 - tot, BSIZE - z) /\ tot < n1 /\ n1 <= len
      BY <1>1, <2>2, <3>1, <3>2
    <3>4. m \in Nat /\ m <= BSIZE - z /\ tot + m <= n1 /\ m > 0 /\ tot + m <= len
      <4>1. z \in Nat /\ z < BSIZE /\ BSIZE - z \in Nat /\ BSIZE - z > 0
        BY <3>1, Basics
      <4>2. n1 - tot \in Nat /\ n1 - tot > 0
        BY <3>2, <3>3
      <4>3. m \in Nat /\ m <= n1 - tot /\ m <= BSIZE - z /\ m > 0
        BY <3>3, <4>1, <4>2 DEF MinOf
      <4> QED BY <3>2, <3>3, <4>3
    <3> QED BY <3>1, <3>2, <3>4
  <2>5. fs \in FileSys /\ Own(fs)
    BY InvParts DEF Types
  <2>6. Missing(fs, i, o \div BSIZE) <= NBLOCKS - Cardinality(fs.bitmap)
    <3>1. Missing(fs, i, o \div BSIZE) \in Int
      BY DEF Missing
    <3>2. NBLOCKS - Cardinality(fs.bitmap) \in Int
      <4>1. IsFiniteSet(fs.bitmap)
        BY <2>5, FsType, Basics, FS_Subset
      <4> QED BY <4>1, FS_CardinalityType, Basics
    <3> QED BY <1>4, <3>1, <3>2
  <2>7. PICK b, u : b = r.b /\ u = r.fs
    OBVIOUS
  <2>8. b \in Blk /\ u \in FileSys /\ u.data \in [Blk -> [Words -> Nat]]
    <3>1. PICK k \in Keys : k = o \div BSIZE /\ k < MAXFILE
      BY <2>3, BlockFits
    <3>2. Mapped(fs, r, i, k)
      BY <1>1, <2>1, <2>5, <2>6, <3>1, BmapMaps
    <3>3. b \in Blk /\ u \in FileSys
      BY <2>7, <3>2 DEF Mapped, Grown
    <3> QED BY <3>3, FsType
  <2>9. fs' = Store(r.fs, r.b, NewBlock(r.fs.data[r.b], o, m, c.src, c.tot))
    BY <1>4, <2>7, <2>8 DEF Store
  <2>10. PICK src \in Seq(Nat), tot \in Nat : src = c.src /\ tot = c.tot
    BY <2>1, <2>2
  <2>11. BlockDone(fs, fs', i, o, m, src, tot, b)
    <3>0. PICK old : old = u.data[b]
      OBVIOUS
    <3>1. fs' = Store(u, b, NewBlock(old, o, m, src, tot))
      BY <2>7, <2>9, <2>10, <3>0
    <3>2. tot + m <= Len(src) /\ m \in Nat /\ m <= BSIZE - (o % BSIZE)
      BY <2>4, <2>10
    <3>3. u = bmap(fs, i, o \div BSIZE).fs /\ b = bmap(fs, i, o \div BSIZE).b
      BY <1>1, <2>7
    <3>4. BlockDone(fs, Store(u, b, NewBlock(old, o, m, src, tot)), i, o, m, src, tot, b)
      BY <2>1, <2>3, <2>5, <2>6, <3>0, <3>2, <3>3, BlockTurn
    <3> QED BY <3>1, <3>4
  <2>12. PICK l : l = c.log \cup Logged(fs, fs') \cup {b}
    OBVIOUS
  <2>13. l \in SUBSET Nat
    <3>1. Logged(fs, fs') \subseteq {BitmapBlk, b, Loc(fs', i, MAXFILE)}
      BY <2>7, <2>11 DEF BlockDone
    <3>2. fs' \in FileSys /\ MAXFILE \in Keys
      BY <2>11, Basics DEF BlockDone, Keys
    <3>3. Loc(fs', i, MAXFILE) \in Nat
      BY <2>1, <3>2, LocType
    <3>4. b \in Nat /\ BitmapBlk \in Nat /\ c.log \in SUBSET Nat
      BY <2>1, <2>8, BlkNat DEF BitmapBlk, Calls
    <3> QED BY <2>12, <3>1, <3>3, <3>4
  <2>t. PICK e \in Nat : e = c.tot + m
    BY <2>2, <2>4
  <2>14. PICK n : n = [c EXCEPT !.tot = e, !.log = l]
    OBVIOUS
  <2>15. /\ n \in Calls /\ n.pc = "copy" /\ n.f = c.f /\ n.src = c.src /\ n.n1 = c.n1
         /\ n.tot = c.tot + m /\ n.log = l
    BY <1>1, <2>1, <2>t, <2>13, <2>14 DEF Calls
  <2>16. call' = [call EXCEPT ![p] = n]
    <3>1. call \in [Procs -> Calls]
      BY InvParts DEF Types
    <3>2. call' = [call EXCEPT ![p] = [[call[p] EXCEPT !.tot = @ + m] EXCEPT !.log = @ \cup Logged(fs, fs') \cup {r.b}]]
      BY <1>4, <3>1
    <3>3. n = [[call[p] EXCEPT !.tot = @ + m] EXCEPT !.log = @ \cup Logged(fs, fs') \cup {r.b}]
      BY <1>1, <2>1, <2>7, <2>12, <2>14, <2>t DEF Calls
    <3> QED BY <3>2, <3>3
  <2>17. TurnDone(p, i, o, m, c, n, b)
    BY <1>1, <2>1, <2>3, <2>4, <2>7, <2>10, <2>11, <2>12, <2>15, <2>16, <2>t DEF TurnDone
  <2> QED BY <1>2, <1>4, <2>17
<1> QED BY <1>1, <1>3, <1>4

(* A turn keeps the invariant: no block gets a second owner.               *)
LEMMA BlockInv ==
    ASSUME Inv, NEW p \in Procs, writei_block(p)
    PROVE  Inv' /\ \A q \in Procs : q # p => Steady(q)
<1>1. linked' = linked /\ lock' = lock /\ saved' = saved /\ ftable' = ftable /\ ofile' = ofile
  BY TurnTaken
<1>2. Types
  BY InvParts
<1>3. CASE panicked' = "full" /\ fs' = fs /\ call' = call
  <2>1. Types'
    BY <1>1, <1>2, <1>3 DEF Types
  <2>2. \A j \in Opens : EntryOK(ftable[j])' /\ ftable'[j].ref = Cardinality(Refs(ofile', j))
    BY <1>1, <1>3, InvParts DEF EntryOK
  <2>3. \A q \in Procs : CallOK(q)' /\ (\A x \in Inodes : Copies(q, x)' <=> Copies(q, x)) /\ Steady(q)
    BY <1>1, <1>3, InvParts DEF CallOK, CallOpen, Copies, Steady
  <2>4. Locks'
    BY <1>1, <2>3, InvParts DEF Locks
  <2> QED BY <1>3, <2>1, <2>2, <2>3, <2>4, InvParts, InvWhole
<1>4. ASSUME panicked' = panicked, NEW i, NEW o, NEW m, NEW c, NEW n, NEW b,
             TurnDone(p, i, o, m, c, n, b)
      PROVE  Inv' /\ \A q \in Procs : q # p => Steady(q)
  <2>1. fs' \in FileSys /\ Own(fs') /\ fs'.size = fs.size
    BY <1>4 DEF TurnDone, BlockDone
  <2>2. /\ c = call[p] /\ c.pc = "copy" /\ call' = [call EXCEPT ![p] = n] /\ n \in Calls
        /\ n.pc = "copy" /\ n.f = c.f /\ n.src = c.src /\ n.n1 = c.n1 /\ n.tot = c.tot + m
        /\ c.tot + m <= c.n1
    BY <1>4 DEF TurnDone
  <2>3. call'[p] = n /\ call' \in [Procs -> Calls]
    BY <1>2, <2>2 DEF Types
  <2>4. Types'
    BY <1>1, <1>2, <1>4, <2>1, <2>3 DEF Types
  <2>5. \A j \in Opens : EntryOK(ftable[j])' /\ ftable'[j].ref = Cardinality(Refs(ofile', j))
    BY <1>1, <2>1, InvParts DEF EntryOK
  <2>6. CallOK(p)'
    <3>1. CallOK(p)
      BY InvParts
    <3> QED BY <1>1, <2>2, <2>3, <3>1 DEF CallOK, CallOpen, CopyRange
  <2>7. \A q \in Procs : q # p => CallOK(q)' /\ (\A x \in Inodes : Copies(q, x)' <=> Copies(q, x)) /\ Steady(q)
    BY <1>1, <2>2, OtherCalls
  <2>8. \A x \in Inodes : Copies(p, x)' <=> Copies(p, x)
    BY <1>1, <2>2, <2>3 DEF Copies
  <2>9. Locks'
    BY <1>1, <2>7, <2>8, InvParts DEF Locks
  <2> QED BY <1>4, <2>1, <2>4, <2>5, <2>6, <2>7, <2>9, InvParts, InvWhole
<1> QED BY <1>3, <1>4, TurnTaken

(* Every step keeps the invariant.                                         *)
LEMMA NextInv == Inv /\ [Next]_vars => Inv'
<1> SUFFICES ASSUME Inv, [Next]_vars PROVE Inv'
  OBVIOUS
<1>1. CASE UNCHANGED vars
  <2>1. linked' \in [Inodes -> BOOLEAN] /\ UNCHANGED <<fs, lock, saved, ftable, ofile, call, panicked>>
    BY <1>1, InvParts DEF vars, Types
  <2> QED BY <2>1, NamesInv
<1>2. ASSUME NEW p \in Procs, NEW i \in Inodes, sys_open(p, i) \/ sys_unlink(p, i) PROVE Inv'
  BY <1>2, OpenInv, UnlinkInv
<1>3. ASSUME NEW p \in Procs, NEW d \in Fds, sys_dup(p, d) \/ sys_close(p, d) PROVE Inv'
  BY <1>3, DupInv, CloseInv
<1>4. ASSUME NEW p \in Procs, NEW d \in Fds, NEW n \in Reads, fileread(p, d, n) PROVE Inv'
  BY <1>4, ReadInv
<1>5. ASSUME NEW p \in Procs, NEW d \in Fds, NEW src \in Sources, filewrite(p, d, src) PROVE Inv'
  BY <1>5, WriteInv
<1>6. ASSUME NEW p \in Procs, NEW q \in Procs, fork(p, q) PROVE Inv'
  BY <1>6, ForkInv
<1>7. ASSUME NEW p \in Procs, writei_begin(p) \/ writei_block(p) \/ writei_end(p) PROVE Inv'
  BY <1>7, BeginInv, BlockInv, EndInv
<1> QED BY <1>1, <1>2, <1>3, <1>4, <1>5, <1>6, <1>7 DEF Next

(* The invariant holds in every state of every behaviour.                  *)
LEMMA AlwaysInv == Spec => []Inv
<1>1. Inv /\ [Next]_vars => Inv'
  BY NextInv
<1> QED BY <1>1, InitInv, PTL DEF Spec

(* The count of every open file is the number of its descriptors, in every *)
(* order of opens, dups, forks, closes, reads and writes.                  *)
THEOREM Descriptors == Spec => []DescriptorsCounted
<1>1. Inv => DescriptorsCounted
  BY DEF Inv
<1> QED BY <1>1, AlwaysInv, PTL

(* Every block has one owner, and the bitmap marks the owned blocks and no *)
(* others, whatever files grow, are truncated and reuse blocks.            *)
THEOREM Disk == Spec => []DiskInv
<1>1. Inv => TypeOK
  <2> SUFFICES ASSUME Inv PROVE TypeOK
    OBVIOUS
  <2>1. Types
    BY InvParts
  <2>2. /\ fs.bitmap \subseteq Blk
        /\ \A b \in Blk : fs.data[b] \in [Words -> Nat]
        /\ \A i \in Inodes : /\ fs.size[i] \in 0 .. MAXFILE * BSIZE
                             /\ fs.addrs[i] \in [0 .. NDIRECT -> Blk \cup {0}]
    BY <2>1, FsType DEF Types
  <2> QED BY <2>1, <2>2 DEF Types, TypeOK, Entries
<1>2. Inv => BlocksOwnedOnce
  BY OwnedOnce DEF Inv, Types
<1>3. Inv => DiskInv
  BY <1>1, <1>2 DEF DiskInv
<1> QED BY <1>3, AlwaysInv, PTL
-----------------------------------------------------------------------------
(* From s to t, inode i keeps what it has.                                 *)
Keeps(s, t, i) ==
    /\ t.size[i] = s.size[i]
    /\ \A k \in Keys : Loc(s, i, k) # 0 => Loc(t, i, k) = Loc(s, i, k)
    /\ \A x \in Nat : x < MAXFILE * BSIZE /\ Loc(s, i, x \div BSIZE) # 0 => Byte(t, i, x) = Byte(s, i, x)

(* What keeps its blocks keeps the ones below any end.                     *)
LEMMA KeepsBacked ==
    ASSUME NEW s, NEW t, NEW i, Keeps(s, t, i), NEW end \in Nat, end <= MAXFILE * BSIZE,
           Backed(s, i, end)
    PROVE  Backed(t, i, end)
<1>1. ASSUME NEW x \in 0 .. end - 1 PROVE Loc(t, i, x \div BSIZE) # 0
  <2>1. x \in Nat /\ x < MAXFILE * BSIZE
    BY Basics
  <2>2. PICK k \in Keys : k = x \div BSIZE
    BY <2>1, BlockFits
  <2>3. Loc(s, i, k) # 0
    BY <2>2 DEF Backed
  <2> QED BY <2>2, <2>3 DEF Keeps
<1> QED BY <1>1 DEF Backed

(* What keeps its blocks keeps what was copied to it and the blocks that   *)
(* were logged.                                                            *)
LEMMA KeepsCopied ==
    ASSUME NEW s \in FileSys, NEW t, NEW i \in Inodes, Keeps(s, t, i), Backed(s, i, s.size[i]),
           NEW o \in Nat, NEW tot \in Nat, o + tot <= MAXFILE * BSIZE,
           NEW old, NEW src, Copied(s, old, i, o, src, tot)
    PROVE  /\ Copied(t, old, i, o, src, tot)
           /\ LoggedUpTo(s, i, o, tot) \subseteq LoggedUpTo(t, i, o, tot)
<1>0. PICK z \in Nat : z = s.size[i] /\ z <= MAXFILE * BSIZE /\ MAXFILE * BSIZE \in Nat
  BY Sizes
<1>1. o + tot \in Nat /\ Backed(s, i, o + tot)
  BY DEF Copied
<1>2. Backed(t, i, o + tot)
  BY <1>1, KeepsBacked
<1>3. ASSUME NEW x \in 0 .. tot - 1 PROVE Byte(t, i, o + x) = src[x + 1]
  <2>1. o + x \in Nat /\ o + x < MAXFILE * BSIZE /\ o + x \in 0 .. (o + tot) - 1
    BY <1>0
  <2>2. Loc(s, i, (o + x) \div BSIZE) # 0
    BY <1>1, <2>1 DEF Backed
  <2>3. Byte(t, i, o + x) = Byte(s, i, o + x)
    BY <2>1, <2>2 DEF Keeps
  <2> QED BY <2>3 DEF Copied
<1>4. ASSUME NEW x \in 0 .. z - 1, x < o \/ o + tot <= x PROVE Byte(t, i, x) = old[x + 1]
  <2>1. x \in Nat /\ x < MAXFILE * BSIZE
    BY <1>0
  <2>2. Loc(s, i, x \div BSIZE) # 0
    BY <1>0 DEF Backed
  <2>3. Byte(t, i, x) = Byte(s, i, x)
    BY <2>1, <2>2 DEF Keeps
  <2> QED BY <1>0, <1>4, <2>3 DEF Copied
<1>5. t.size[i] = z /\ Len(old) = z
  BY <1>0 DEF Keeps, Copied
<1>6. Copied(t, old, i, o, src, tot)
  BY <1>2, <1>3, <1>4, <1>5 DEF Copied
<1>7. ASSUME NEW x \in o .. o + tot - 1 PROVE Loc(s, i, x \div BSIZE) = Loc(t, i, x \div BSIZE)
  <2>1. x \in Nat /\ x < MAXFILE * BSIZE /\ x \in 0 .. (o + tot) - 1
    BY <1>0
  <2>2. PICK k \in Keys : k = x \div BSIZE
    BY <2>1, BlockFits
  <2>3. Loc(s, i, k) # 0
    BY <1>1, <2>1, <2>2 DEF Backed
  <2> QED BY <2>2, <2>3 DEF Keeps
<1>8. Loc(s, i, MAXFILE) \in {BitmapBlk, Loc(t, i, MAXFILE)}
  <2>1. MAXFILE \in Keys
    BY Basics DEF Keys
  <2> QED BY <2>1 DEF Keeps, BitmapBlk
<1>9. LoggedUpTo(s, i, o, tot) \subseteq LoggedUpTo(t, i, o, tot)
  BY <1>7, <1>8 DEF LoggedUpTo
<1> QED BY <1>6, <1>9

(* The range of a copy.                                                    *)
LEMMA CopyFits ==
    ASSUME Inv, NEW p \in Procs, NEW i \in Inodes, Copies(p, i)
    PROVE  /\ call[p].f \in Opens /\ ftable[call[p].f].off \in Nat /\ call[p].tot \in Nat
           /\ ftable[call[p].f].ip = i /\ ftable[call[p].f].off <= fs.size[i]
           /\ call[p].n1 \in Nat /\ call[p].n1 = Chunk(Len(call[p].src)) /\ call[p].tot <= call[p].n1
           /\ ftable[call[p].f].off + call[p].tot <= MAXFILE * BSIZE
           /\ ftable[call[p].f].off + call[p].n1 <= MAXFILE * BSIZE
<1>1. call[p].pc = "copy" /\ ftable[call[p].f].ip = i
  BY DEF Copies
<1>2. /\ call[p].f \in Opens /\ ftable[call[p].f].off \in Nat /\ call[p] \in Calls
      /\ ftable[call[p].f].off <= fs.size[i]
  BY <1>1, CallFile
<1>3. CopyRange(call[p], ftable[call[p].f].off)
  BY <1>1, InvParts DEF CallOK
<1>4. PICK o \in Nat, tot \in Nat, n \in Nat :
         o = ftable[call[p].f].off /\ tot = call[p].tot /\ n = call[p].n1
  BY <1>2 DEF Calls
<1>5. tot <= n /\ o + n <= MAXFILE * BSIZE /\ MAXFILE * BSIZE \in Nat
  BY <1>3, <1>4, Basics DEF CopyRange
<1>6. o + tot <= MAXFILE * BSIZE
  BY <1>4, <1>5
<1> QED BY <1>1, <1>2, <1>3, <1>4, <1>5, <1>6 DEF CopyRange

(* A step that keeps inode i and the copying into it.                      *)
LEMMA CopyKept ==
    ASSUME Inv, NEW i \in Inodes, CopyAt(i), Keeps(fs, fs', i), saved'[i] = saved[i],
           \A q \in Procs : Steady(q) \/ ~Copies(q, i)'
    PROVE  CopyAt(i)'
<1>1. fs \in FileSys
  BY InvParts DEF Types
<1>2. Backed(fs, i, fs.size[i])
  BY DEF CopyAt
<1>3. fs.size[i] \in Nat /\ fs.size[i] <= MAXFILE * BSIZE /\ fs'.size[i] = fs.size[i]
  BY <1>1, Sizes DEF Keeps
<1>4. Backed(fs', i, fs'.size[i])
  BY <1>2, <1>3, KeepsBacked
<1>5. ASSUME NEW q \in Procs, Copies(q, i)'
      PROVE  CopyOK(call[q], ftable[call[q].f].off, i)'
  <2>1. Steady(q)
    BY <1>5
  <2>2. /\ call'[q] = call[q] /\ Copies(q, i)
        /\ ftable'[call[q].f].off = ftable[call[q].f].off
    BY <1>5, <2>1 DEF Steady, Copies
  <2>3. PICK c, o : c = call[q] /\ o = ftable[c.f].off
    OBVIOUS
  <2>4. o \in Nat /\ c.tot \in Nat /\ o + c.tot <= MAXFILE * BSIZE
    BY <2>2, <2>3, CopyFits
  <2>5. CopyOK(c, o, i)
    BY <2>2, <2>3 DEF CopyAt
  <2>6. PICK src : src = c.src
    OBVIOUS
  <2>t. PICK tot \in Nat : tot = c.tot
    BY <2>4
  <2>7. /\ Copied(fs, saved[i], i, o, src, tot) /\ c.log \subseteq LoggedUpTo(fs, i, o, tot)
    BY <2>5, <2>6, <2>t DEF CopyOK
  <2>8. /\ Copied(fs', saved[i], i, o, src, tot)
        /\ LoggedUpTo(fs, i, o, tot) \subseteq LoggedUpTo(fs', i, o, tot)
    BY <1>1, <1>2, <2>4, <2>t, <2>7, KeepsCopied
  <2> QED BY <2>2, <2>3, <2>6, <2>t, <2>7, <2>8 DEF CopyOK
<1> QED BY <1>4, <1>5 DEF CopyAt

(* The contents of a file are its bytes.                                   *)
BlockIn(s, i, bn) == IF bn < NDIRECT THEN s.addrs[i][bn]
                     ELSE s.data[s.addrs[i][NDIRECT]][bn - NDIRECT]
ContentIn(s, i) == [x \in 1 .. s.size[i] |->
                       s.data[BlockIn(s, i, (x - 1) \div BSIZE)][(x - 1) % BSIZE]]

(* Content is ContentIn of the file system, before a step and after it.    *)
LEMMA ContentIs == \A i : Content(i) = ContentIn(fs, i) /\ Content(i)' = ContentIn(fs', i)
  BY DEF Content, ContentIn, BlockOf, BlockIn

(* The contents of a file with all its blocks: one number for each         *)
(* position.                                                               *)
LEMMA ContentBytes ==
    ASSUME NEW s \in FileSys, Own(s), NEW i \in Inodes, Backed(s, i, s.size[i])
    PROVE  /\ ContentIn(s, i) \in Seq(Nat) /\ Len(ContentIn(s, i)) = s.size[i]
           /\ \A x \in 0 .. s.size[i] - 1 : ContentIn(s, i)[x + 1] = Byte(s, i, x)
           /\ \A x \in 1 .. s.size[i] : ContentIn(s, i)[x] = Byte(s, i, x - 1)
<1>1. PICK z \in Nat : z = s.size[i] /\ z <= MAXFILE * BSIZE /\ MAXFILE * BSIZE \in Nat
  BY Sizes
<1>2. PICK c : c = ContentIn(s, i)
  OBVIOUS
<1>3. ASSUME NEW x \in 1 .. z PROVE c[x] = Byte(s, i, x - 1) /\ c[x] \in Nat
  <2>1. x - 1 \in Nat /\ x - 1 < MAXFILE * BSIZE /\ x - 1 \in 0 .. z - 1
    BY <1>1
  <2>2. PICK k \in Keys : k = (x - 1) \div BSIZE /\ k < MAXFILE
    BY <2>1, BlockFits
  <2>3. PICK w \in Words : w = (x - 1) % BSIZE
    BY <2>1, DivMod
  <2>4. PICK b : b = Loc(s, i, k) /\ b # 0
    BY <1>1, <2>1, <2>2 DEF Backed
  <2>5. BlockIn(s, i, k) = b
    <3>1. CASE k < NDIRECT
      BY <2>4, <3>1, LocDirect DEF BlockIn
    <3>2. CASE ~(k < NDIRECT)
      <4>1. NDIRECT <= k
        BY <3>2, Basics DEF Keys
      <4>2. PICK a : a = s.addrs[i][NDIRECT]
        OBVIOUS
      <4>3. a # 0
        BY <2>2, <2>4, <4>1, <4>2, LocNone
      <4>4. Loc(s, i, k) = s.data[a][k - NDIRECT]
        BY <2>2, <4>1, <4>2, <4>3, LocWord
      <4> QED BY <2>4, <3>2, <4>2, <4>4 DEF BlockIn
    <3> QED BY <3>1, <3>2
  <2>6. c[x] = s.data[b][w]
    BY <1>1, <1>2, <2>2, <2>3, <2>5 DEF ContentIn
  <2>7. b \in Blk
    <3>1. b \in s.bitmap
      BY <2>4 DEF Own
    <3> QED BY <3>1, FsType
  <2>8. Byte(s, i, x - 1) = s.data[b][w]
    BY <2>2, <2>3, <2>4 DEF Byte
  <2> QED BY <2>6, <2>7, <2>8, FsType
<1>4. c = [x \in 1 .. z |-> c[x]]
  BY <1>1, <1>2 DEF ContentIn
<1>5. c \in Seq(Nat) /\ Len(c) = z
  BY <1>3, <1>4
<1>6. ASSUME NEW x \in 0 .. z - 1 PROVE c[x + 1] = Byte(s, i, x)
  <2>1. x + 1 \in 1 .. z /\ (x + 1) - 1 = x
    BY <1>1
  <2> QED BY <1>3, <2>1
<1> QED BY <1>1, <1>2, <1>3, <1>5, <1>6

(* Nothing at all happens to the file system, or to one inode.             *)
LEMMA SameKeeps ==
    ASSUME NEW s, NEW t, NEW i, t.data = s.data, t.size[i] = s.size[i],
           \A k \in Keys : Loc(t, i, k) = Loc(s, i, k)
    PROVE  Keeps(s, t, i)
<1>1. ASSUME NEW x \in Nat, x < MAXFILE * BSIZE PROVE Byte(t, i, x) = Byte(s, i, x)
  <2>1. x \div BSIZE \in Keys
    BY <1>1, BlockFits
  <2> QED BY <2>1 DEF Byte
<1> QED BY <1>1 DEF Keeps

(* A step that leaves the file system alone leaves what is copied.         *)
LEMMA CopyQuiet ==
    ASSUME Inv, CopyInv, fs' = fs, saved' = saved,
           \A i \in Inodes, q \in Procs : Steady(q) \/ ~Copies(q, i)'
    PROVE  CopyInv'
<1>1. ASSUME NEW i \in Inodes PROVE CopyAt(i)'
  <2>1. Keeps(fs, fs', i)
    BY DEF Keeps
  <2>2. CopyAt(i)
    BY DEF CopyInv
  <2> QED BY <2>1, <2>2, CopyKept
<1> QED BY <1>1 DEF CopyInv

(* An inode that loses its blocks is one that nobody copies to.            *)
LEMMA CopyTrunc ==
    ASSUME Inv, CopyInv, NEW i \in Inodes, fs' = fs \/ fs' = itrunc(fs, i), saved' = saved,
           lock[i] = NoProc, \A q \in Procs : Steady(q)
    PROVE  CopyInv'
<1>1. CASE fs' = fs
  BY <1>1, CopyQuiet
<1>2. CASE fs' = itrunc(fs, i)
  <2>1. fs \in FileSys /\ Own(fs)
    BY InvParts DEF Types
  <2>2. Truncated(fs, fs', i)
    BY <1>2, <2>1, ItruncFrees
  <2>3. /\ fs'.data = fs.data /\ fs'.size = [fs.size EXCEPT ![i] = 0]
        /\ \A j \in Inodes, k \in Keys : j # i => Loc(fs', j, k) = Loc(fs, j, k)
    BY <2>2 DEF Truncated
  <2>4. fs.size \in [Inodes -> 0 .. MAXFILE * BSIZE]
    BY <2>1, FsType
  <2>5. ASSUME NEW j \in Inodes, j # i PROVE CopyAt(j)'
    <3>1. fs'.size[j] = fs.size[j]
      BY <2>3, <2>4, <2>5
    <3>2. Keeps(fs, fs', j)
      BY <2>3, <2>5, <3>1, SameKeeps
    <3>3. CopyAt(j)
      BY DEF CopyInv
    <3> QED BY <3>2, <3>3, CopyKept
  <2>6. CopyAt(i)'
    <3>1. fs'.size[i] = 0
      BY <2>3, <2>4
    <3>2. Backed(fs', i, 0)
      BY DEF Backed
    <3>3. \A q \in Procs : ~Copies(q, i)
      BY InvParts, FileAssumption DEF Locks
    <3>4. \A q \in Procs : ~Copies(q, i)'
      BY <3>3 DEF Steady, Copies
    <3> QED BY <3>1, <3>2, <3>4 DEF CopyAt
  <2> QED BY <2>5, <2>6 DEF CopyInv
<1> QED BY <1>1, <1>2

(* The start of a copy: nothing is copied, and saved has the contents.     *)
LEMMA CopyBegin ==
    ASSUME Inv, CopyInv, NEW p \in Procs, writei_begin(p)
    PROVE  CopyInv'
<1>1. PICK i, c : c = call[p] /\ i = ftable[c.f].ip /\ c.pc = "chunk" /\ lock[i] = NoProc
  BY DEF writei_begin
<1>2. fs' = fs /\ ftable' = ftable
  BY DEF writei_begin
<1>3. i \in Inodes /\ c.f \in Opens /\ c \in Calls /\ c.log = {} /\ ftable[c.f].off \in Nat
  <2>1. CallOK(p)
    BY InvParts
  <2> QED BY <1>1, <2>1, CallFile DEF CallOK
<1>4. fs \in FileSys /\ Own(fs) /\ call \in [Procs -> Calls] /\ saved = [x \in Inodes |-> saved[x]]
  BY InvParts DEF Types
<1>5. \A q \in Procs : q # p => Steady(q)
  BY BeginInv
<1>6. CASE call' = [call EXCEPT ![p] = NoCall] /\ saved' = saved
  <2>1. call'[p].pc = "idle"
    BY <1>4, <1>6 DEF NoCall
  <2>2. \A x \in Inodes : ~Copies(p, x)'
    BY <2>1 DEF Copies
  <2> QED BY <1>2, <1>5, <1>6, <2>2, CopyQuiet
<1>7. ASSUME NEW n1, call' = [call EXCEPT ![p] = [c EXCEPT !.pc = "copy", !.n1 = n1, !.tot = 0]],
             saved' = [saved EXCEPT ![i] = Content(i)]
      PROVE  CopyInv'
  <2>1. PICK n : n = [c EXCEPT !.pc = "copy", !.n1 = n1, !.tot = 0]
    OBVIOUS
  <2>2. n.pc = "copy" /\ n.tot = 0 /\ n.log = {} /\ n.f = c.f
    BY <1>3, <2>1 DEF Calls
  <2>3. call'[p] = n
    BY <1>4, <1>7, <2>1
  <2>4. saved'[i] = ContentIn(fs, i) /\ \A x \in Inodes : x # i => saved'[x] = saved[x]
    BY <1>3, <1>4, <1>7, ContentIs
  <2>5. ASSUME NEW x \in Inodes, x # i PROVE CopyAt(x)'
    <3>1. ~Copies(p, x)'
      BY <1>1, <1>2, <2>2, <2>3, <2>5 DEF Copies
    <3>2. CopyAt(x) /\ Keeps(fs, fs', x) /\ saved'[x] = saved[x]
      BY <1>2, <2>4, <2>5 DEF CopyInv, Keeps
    <3> QED BY <1>5, <3>1, <3>2, CopyKept
  <2>6. CopyAt(i)'
    <3>1. Backed(fs, i, fs.size[i])
      BY <1>3 DEF CopyInv, CopyAt
    <3>2. PICK o \in Nat : o = ftable[c.f].off /\ o <= fs.size[i]
      BY <1>1, <1>3, CallFile
    <3>3. PICK z \in Nat : z = fs.size[i]
      BY <1>3, <1>4, Sizes
    <3>4. /\ Len(saved'[i]) = z /\ \A x \in 0 .. z - 1 : saved'[i][x + 1] = Byte(fs, i, x)
      BY <1>3, <1>4, <2>4, <3>1, <3>3, ContentBytes
    <3>5. Backed(fs, i, o + 0)
      BY <3>1, <3>2, <3>3 DEF Backed
    <3>6. Copied(fs, saved'[i], i, o, n.src, 0)
      BY <3>3, <3>4, <3>5 DEF Copied
    <3>7. CopyOK(call[p], ftable[call[p].f].off, i)'
      BY <1>2, <2>2, <2>3, <3>2, <3>6 DEF CopyOK
    <3>8. ASSUME NEW q \in Procs, q # p PROVE ~Copies(q, i)'
      <4>1. ~Copies(q, i)
        BY <1>1, <1>3, InvParts, FileAssumption DEF Locks
      <4> QED BY <1>5, <3>8, <4>1 DEF Steady, Copies
    <3> QED BY <1>2, <3>1, <3>7, <3>8 DEF CopyAt
  <2> QED BY <2>5, <2>6 DEF CopyInv
<1> QED BY <1>1, <1>6, <1>7 DEF writei_begin

(* The end of a copy: what was copied is below the end.                    *)
LEMMA CopyEnd ==
    ASSUME Inv, CopyInv, NEW p \in Procs, writei_end(p)
    PROVE  CopyInv'
<1>1. PICK i, o, c :
         /\ c = call[p] /\ i = ftable[c.f].ip /\ o = ftable[c.f].off
         /\ c.pc = "copy" /\ c.tot = c.n1
         /\ fs' = [fs EXCEPT !.size[i] = NewSize(@, o + c.n1)]
         /\ saved' = [saved EXCEPT ![i] = <<>>]
  BY DEF writei_end
<1>2. call'[p].pc # "copy"
  <2>1. call \in [Procs -> Calls]
    BY InvParts DEF Types
  <2> QED BY <2>1 DEF writei_end, NoCall
<1>3. i \in Inodes /\ Copies(p, i)
  BY <1>1, CallFile DEF Copies
<1>4. o \in Nat /\ c.tot \in Nat /\ o + c.tot <= MAXFILE * BSIZE
  BY <1>1, <1>3, CopyFits
<1>5. fs \in FileSys /\ Own(fs) /\ saved = [x \in Inodes |-> saved[x]]
  BY InvParts DEF Types
<1>6. PICK e \in Nat, z \in Nat : e = o + c.tot /\ z = fs.size[i] /\ z <= MAXFILE * BSIZE
  BY <1>3, <1>4, <1>5, Sizes
<1>7. /\ fs'.data = fs.data /\ fs'.addrs = fs.addrs
      /\ fs'.size = [fs.size EXCEPT ![i] = NewSize(z, e)]
  BY <1>1, <1>3, <1>5, <1>6 DEF FileSys
<1>8. fs.size \in [Inodes -> 0 .. MAXFILE * BSIZE]
  BY <1>5, FsType
<1>9. fs'.size[i] = NewSize(z, e) /\ \A x \in Inodes : x # i => fs'.size[x] = fs.size[x]
  BY <1>3, <1>7, <1>8
<1>10. \A x \in Inodes, k \in Keys : Loc(fs', x, k) = Loc(fs, x, k)
  BY <1>7 DEF Loc
<1>11. \A q \in Procs : q # p => Steady(q)
  BY EndInv
<1>12. \A x \in Inodes : ~Copies(p, x)'
  BY <1>2 DEF Copies
<1>13. ASSUME NEW x \in Inodes, x # i PROVE CopyAt(x)'
  <2>1. Keeps(fs, fs', x)
    BY <1>7, <1>9, <1>10, <1>13, SameKeeps
  <2>2. CopyAt(x) /\ saved'[x] = saved[x]
    BY <1>1, <1>5, <1>13 DEF CopyInv
  <2> QED BY <1>11, <1>12, <2>1, <2>2, CopyKept
<1>14. CopyAt(i)'
  <2>1. Backed(fs, i, z) /\ Backed(fs, i, e)
    <3>1. CopyAt(i)
      BY <1>3 DEF CopyInv
    <3>2. CopyOK(c, o, i)
      BY <1>1, <1>3, <3>1 DEF CopyAt
    <3> QED BY <1>6, <3>1, <3>2 DEF CopyAt, CopyOK, Copied
  <2>2. Backed(fs, i, NewSize(z, e)) /\ NewSize(z, e) \in Nat /\ NewSize(z, e) <= MAXFILE * BSIZE
    BY <1>4, <1>6, <2>1 DEF NewSize
  <2>3. Backed(fs', i, fs'.size[i])
    <3>1. ASSUME NEW x \in 0 .. fs'.size[i] - 1 PROVE Loc(fs', i, x \div BSIZE) # 0
      <4>1. PICK m \in Nat : m = NewSize(z, e) /\ m <= MAXFILE * BSIZE /\ MAXFILE * BSIZE \in Nat
        BY <2>2, Basics
      <4>2. x \in Nat /\ x < MAXFILE * BSIZE /\ x \in 0 .. m - 1
        BY <1>9, <3>1, <4>1
      <4>3. x \div BSIZE \in Keys
        BY <4>2, BlockFits
      <4>4. Loc(fs, i, x \div BSIZE) # 0
        BY <2>2, <4>1, <4>2 DEF Backed
      <4> QED BY <1>3, <1>10, <4>3, <4>4
    <3> QED BY <3>1 DEF Backed
  <2>4. ASSUME NEW q \in Procs PROVE ~Copies(q, i)'
    <3>1. CASE q = p
      BY <1>3, <1>12, <3>1
    <3>2. CASE q # p
      <4>1. ~Copies(q, i)
        BY <1>3, <3>2, InvParts DEF Locks
      <4> QED BY <1>11, <3>2, <4>1 DEF Steady, Copies
    <3> QED BY <3>1, <3>2
  <2> QED BY <2>3, <2>4 DEF CopyAt
<1> QED BY <1>13, <1>14 DEF CopyInv

(* A turn copies m bytes more, and logs their block.                       *)
TurnCopy(s, t, old, i, e, src, tot, m, b) ==
    /\ Backed(t, i, t.size[i]) /\ Copied(t, old, i, e, src, tot + m)
    /\ LoggedUpTo(s, i, e, tot) \cup Logged(s, t) \cup {b} \subseteq LoggedUpTo(t, i, e, tot + m)

(* A turn at the end of what is copied extends it by m bytes.              *)
LEMMA TurnCopied ==
    ASSUME NEW s \in FileSys, Own(s), NEW t, NEW i \in Inodes, NEW b, NEW src, NEW old,
           NEW e \in Nat, NEW tot \in Nat, NEW o \in Nat, o = e + tot, o < MAXFILE * BSIZE,
           NEW m \in Nat, m > 0, m <= BSIZE - (o % BSIZE), o + m <= MAXFILE * BSIZE,
           BlockDone(s, t, i, o, m, src, tot, b),
           Backed(s, i, s.size[i]), Copied(s, old, i, e, src, tot)
    PROVE  TurnCopy(s, t, old, i, e, src, tot, m, b)
<1>0. PICK z \in Nat : z = s.size[i] /\ z <= MAXFILE * BSIZE /\ MAXFILE * BSIZE \in Nat /\ t.size[i] = z
  BY Sizes DEF BlockDone
<1>1. ASSUME NEW x \in Nat, x < MAXFILE * BSIZE
      PROVE  IF o <= x /\ x < o + m
             THEN Loc(t, i, x \div BSIZE) # 0 /\ Byte(t, i, x) = src[tot + x - o + 1]
             ELSE Loc(s, i, x \div BSIZE) # 0 => /\ Loc(t, i, x \div BSIZE) # 0
                                                 /\ Byte(t, i, x) = Byte(s, i, x)
  <2>1. ByteStep(s, t, i, o, m, src, tot, i, x)
    BY <1>1, TurnBytes
  <2> QED BY <2>1 DEF ByteStep
<1>2. Backed(s, i, o)
  BY DEF Copied
<1>3. Backed(t, i, z)
  <2>1. ASSUME NEW x \in 0 .. z - 1 PROVE Loc(t, i, x \div BSIZE) # 0
    <3>1. x \in Nat /\ x < MAXFILE * BSIZE
      BY <1>0
    <3>2. Loc(s, i, x \div BSIZE) # 0
      BY <1>0 DEF Backed
    <3> QED BY <1>1, <3>1, <3>2
  <2> QED BY <2>1 DEF Backed
<1>4. Backed(t, i, e + (tot + m))
  <2>1. ASSUME NEW x \in 0 .. (e + (tot + m)) - 1 PROVE Loc(t, i, x \div BSIZE) # 0
    <3>1. x \in Nat /\ x < MAXFILE * BSIZE /\ x < o + m
      BY <1>0
    <3>2. x < o => Loc(s, i, x \div BSIZE) # 0
      BY <1>2, <3>1 DEF Backed
    <3> QED BY <1>1, <3>1, <3>2
  <2> QED BY <2>1 DEF Backed
<1>5. ASSUME NEW x \in 0 .. (tot + m) - 1 PROVE Byte(t, i, e + x) = src[x + 1]
  <2>1. e + x \in Nat /\ e + x < MAXFILE * BSIZE /\ e + x < o + m
    BY <1>0
  <2>2. CASE x < tot
    <3>1. ~(o <= e + x) /\ x \in 0 .. tot - 1
      BY <2>2
    <3>2. Loc(s, i, (e + x) \div BSIZE) # 0
      BY <1>2, <2>1, <3>1 DEF Backed
    <3>3. Byte(t, i, e + x) = Byte(s, i, e + x)
      BY <1>1, <2>1, <3>1, <3>2
    <3> QED BY <3>1, <3>3 DEF Copied
  <2>3. CASE ~(x < tot)
    <3>1. o <= e + x /\ tot + (e + x) - o + 1 = x + 1
      BY <2>3
    <3>2. Byte(t, i, e + x) = src[tot + (e + x) - o + 1]
      BY <1>1, <2>1, <3>1
    <3> QED BY <3>1, <3>2
  <2> QED BY <2>2, <2>3
<1>6. ASSUME NEW x \in 0 .. z - 1, x < e \/ e + (tot + m) <= x
      PROVE  Byte(t, i, x) = old[x + 1]
  <2>1. x \in Nat /\ x < MAXFILE * BSIZE /\ ~(o <= x /\ x < o + m) /\ (x < e \/ e + tot <= x)
    BY <1>0, <1>6
  <2>2. Loc(s, i, x \div BSIZE) # 0
    BY <1>0 DEF Backed
  <2>3. Byte(t, i, x) = Byte(s, i, x)
    BY <1>1, <2>1, <2>2
  <2> QED BY <1>0, <2>1, <2>3 DEF Copied
<1>7. Len(old) = z
  BY <1>0 DEF Copied
<1>8. Copied(t, old, i, e, src, tot + m)
  BY <1>0, <1>4, <1>5, <1>6, <1>7 DEF Copied
<1>9. Loc(s, i, MAXFILE) \in {BitmapBlk, Loc(t, i, MAXFILE)}
  <2>1. MAXFILE \in Keys
    BY Basics DEF Keys
  <2> QED BY <2>1 DEF BlockDone, BitmapBlk
<1>10. ASSUME NEW x \in e .. e + tot - 1
       PROVE  Loc(s, i, x \div BSIZE) = Loc(t, i, x \div BSIZE) /\ x \in e .. e + (tot + m) - 1
  <2>1. x \in Nat /\ x < MAXFILE * BSIZE /\ x \in 0 .. o - 1
    BY <1>0
  <2>2. PICK k \in Keys : k = x \div BSIZE
    BY <2>1, BlockFits
  <2>3. Loc(s, i, k) # 0
    BY <1>2, <2>1, <2>2 DEF Backed
  <2>4. Loc(t, i, k) = Loc(s, i, k)
    BY <2>3 DEF BlockDone
  <2> QED BY <2>2, <2>4
<1>11. b = Loc(t, i, o \div BSIZE) /\ o \in e .. e + (tot + m) - 1
  BY DEF BlockDone
<1>12. Logged(s, t) \subseteq {BitmapBlk, b, Loc(t, i, MAXFILE)}
  BY DEF BlockDone
<1>13. LoggedUpTo(s, i, e, tot) \subseteq LoggedUpTo(t, i, e, tot + m)
  BY <1>9, <1>10 DEF LoggedUpTo
<1>14. b \in LoggedUpTo(t, i, e, tot + m)
  BY <1>11 DEF LoggedUpTo
<1>15. Logged(s, t) \subseteq LoggedUpTo(t, i, e, tot + m)
  BY <1>12, <1>14 DEF LoggedUpTo
<1> QED BY <1>0, <1>3, <1>8, <1>13, <1>14, <1>15 DEF TurnCopy

(* The other inodes keep what they have.                                   *)
LEMMA TurnKeeps ==
    ASSUME Inv, NEW p \in Procs, NEW i, NEW o, NEW m, NEW c, NEW n, NEW b,
           TurnDone(p, i, o, m, c, n, b), NEW j \in Inodes, j # i
    PROVE  Keeps(fs, fs', j)
<1>1. /\ c = call[p] /\ i \in Inodes /\ o \in Nat /\ o < MAXFILE * BSIZE
      /\ m \in Nat /\ m <= BSIZE - (o % BSIZE)
      /\ BlockDone(fs, fs', i, o, m, c.src, c.tot, b)
  BY DEF TurnDone
<1>2. fs \in FileSys /\ Own(fs) /\ call \in [Procs -> Calls]
  BY InvParts DEF Types
<1>3. fs'.size[j] = fs.size[j] /\ \A k \in Keys : Loc(fs, j, k) # 0 => Loc(fs', j, k) = Loc(fs, j, k)
  BY <1>1 DEF BlockDone
<1>4. PICK src : src = c.src
  OBVIOUS
<1>5. PICK tot \in Nat : tot = c.tot
  BY <1>1, <1>2 DEF Calls
<1>6. BlockDone(fs, fs', i, o, m, src, tot, b)
  BY <1>1, <1>4, <1>5
<1>7. ASSUME NEW x \in Nat, x < MAXFILE * BSIZE, Loc(fs, j, x \div BSIZE) # 0
      PROVE  Byte(fs', j, x) = Byte(fs, j, x)
  <2>1. ByteStep(fs, fs', i, o, m, src, tot, j, x)
    BY <1>1, <1>2, <1>6, <1>7, TurnBytes
  <2> QED BY <1>7, <2>1 DEF ByteStep
<1> QED BY <1>3, <1>7 DEF Keeps

(* A turn keeps what was copied before it, here and in the other inodes.   *)
LEMMA CopyBlock ==
    ASSUME Inv, CopyInv, NEW p \in Procs, writei_block(p)
    PROVE  CopyInv'
<1>1. saved' = saved /\ ftable' = ftable
  BY TurnTaken
<1>2. \A q \in Procs : q # p => Steady(q)
  BY BlockInv
<1>3. CASE fs' = fs /\ call' = call
  <2>1. \A q \in Procs : Steady(q)
    BY <1>1, <1>3 DEF Steady
  <2> QED BY <1>1, <1>3, <2>1, CopyQuiet
<1>4. ASSUME NEW i, NEW o, NEW m, NEW c, NEW n, NEW b, TurnDone(p, i, o, m, c, n, b)
      PROVE  CopyInv'
  <2>1. /\ c = call[p] /\ c.pc = "copy" /\ i = ftable[c.f].ip /\ i \in Inodes
        /\ o = ftable[c.f].off + c.tot /\ o \in Nat /\ o < MAXFILE * BSIZE
        /\ m \in Nat /\ m > 0 /\ m <= BSIZE - (o % BSIZE) /\ c.tot + m <= c.n1
        /\ BlockDone(fs, fs', i, o, m, c.src, c.tot, b)
        /\ call' = [call EXCEPT ![p] = n]
        /\ n.pc = "copy" /\ n.f = c.f /\ n.src = c.src /\ n.tot = c.tot + m
        /\ n.log = c.log \cup Logged(fs, fs') \cup {b}
    BY <1>4 DEF TurnDone
  <2>2. fs \in FileSys /\ Own(fs) /\ call \in [Procs -> Calls]
    BY InvParts DEF Types
  <2>3. call'[p] = n
    BY <2>1, <2>2
  <2>4. ASSUME NEW j \in Inodes, j # i PROVE CopyAt(j)'
    <3>1. ~Copies(p, j)'
      BY <1>1, <2>1, <2>3, <2>4 DEF Copies
    <3>2. Keeps(fs, fs', j)
      BY <1>4, <2>4, TurnKeeps
    <3>3. CopyAt(j)
      BY DEF CopyInv
    <3> QED BY <1>1, <1>2, <3>1, <3>2, <3>3, CopyKept
  <2>5. CopyAt(i)'
    <3>1. Copies(p, i) /\ CopyAt(i)
      BY <2>1 DEF Copies, CopyInv
    <3>2. PICK e \in Nat, tot \in Nat, n1 \in Nat :
             /\ e = ftable[c.f].off /\ tot = c.tot /\ n1 = c.n1 /\ e + n1 <= MAXFILE * BSIZE
      BY <2>1, <3>1, CopyFits
    <3>3. PICK src, old : src = c.src /\ old = saved[i]
      OBVIOUS
    <3>4. /\ Copied(fs, old, i, e, src, tot) /\ c.log \subseteq LoggedUpTo(fs, i, e, tot)
          /\ Backed(fs, i, fs.size[i])
      BY <2>1, <3>1, <3>2, <3>3 DEF CopyAt, CopyOK
    <3>5. o = e + tot /\ tot + m <= n1 /\ o + m <= MAXFILE * BSIZE
      <4>1. o = e + tot /\ tot + m <= n1
        BY <2>1, <3>2
      <4>2. MAXFILE * BSIZE \in Nat
        BY Basics
      <4> QED BY <2>1, <3>2, <4>1, <4>2
    <3>6. BlockDone(fs, fs', i, o, m, src, tot, b)
      BY <2>1, <3>2, <3>3
    <3>t. TurnCopy(fs, fs', old, i, e, src, tot, m, b)
      BY <2>1, <2>2, <3>4, <3>5, <3>6, TurnCopied
    <3>7. /\ Backed(fs', i, fs'.size[i]) /\ Copied(fs', old, i, e, src, tot + m)
          /\ LoggedUpTo(fs, i, e, tot) \cup Logged(fs, fs') \cup {b} \subseteq LoggedUpTo(fs', i, e, tot + m)
      BY <3>t DEF TurnCopy
    <3>8. n.log \subseteq LoggedUpTo(fs', i, e, tot + m)
      BY <2>1, <3>4, <3>7
    <3>9. CopyOK(call[p], ftable[call[p].f].off, i)'
      BY <1>1, <2>1, <2>3, <3>2, <3>3, <3>7, <3>8 DEF CopyOK
    <3>10. ASSUME NEW q \in Procs, q # p PROVE ~Copies(q, i)'
      <4>1. ~Copies(q, i)
        BY <2>1, <3>1, <3>10, InvParts DEF Locks
      <4> QED BY <1>2, <3>10, <4>1 DEF Steady, Copies
    <3> QED BY <3>7, <3>9, <3>10 DEF CopyAt
  <2> QED BY <2>4, <2>5 DEF CopyInv
<1> QED BY <1>3, <1>4, TurnTaken

(* The last descriptor of open file j goes, and inode i with it if it has  *)
(* no other use.                                                           *)
LastClose(j, i) ==
    /\ ftable[j].ip = i /\ lock[i] = NoProc
    /\ ftable' = [ftable EXCEPT ![j] = NoFile]
    /\ fs' = fs \/ (fs' = itrunc(fs, i) /\ \A h \in Opens \ {j} : ftable[h].ip # i)

(* A close drops a reference, or the open file.                            *)
LEMMA CloseStep ==
    ASSUME Inv, NEW p \in Procs, NEW d \in Fds, sys_close(p, d)
    PROVE  /\ lock' = lock /\ saved' = saved
           /\ \/ fs' = fs /\ \A h \in Opens : ftable'[h].ip = ftable[h].ip /\ ftable'[h].off = ftable[h].off
              \/ \E j \in Opens, i \in Inodes : LastClose(j, i)
<1>1. ofile[p][d] # 0 /\ lock' = lock /\ saved' = saved
  BY DEF sys_close, argfd
<1>2. fs \in FileSys /\ Own(fs) /\ ftable \in [Opens -> Entries]
  BY InvParts DEF Types
<1>3. PICK j \in Opens : j = ofile[p][d]
  BY <1>1, InvParts DEF Types
<1>4. ftable[j].ref \in Nat /\ ftable[j].ip \in Inodes
  BY <1>3, OpenEntry
<1>5. CASE ftable[j].ref > 1
  <2>1. ftable' = [ftable EXCEPT ![j].ref = @ - 1] /\ fs' = fs
    BY <1>3, <1>5 DEF sys_close, argfd
  <2>2. PICK r \in Nat : r = ftable[j].ref - 1
    BY <1>4, <1>5
  <2>3. ftable' = SetRef(ftable, j, r)
    BY <1>2, <2>1, <2>2 DEF SetRef
  <2>4. RefIs(ftable, ftable', j, r)
    BY <1>2, <2>3, SetRefIs
  <2> QED BY <1>1, <2>1, <2>4 DEF RefIs
<1>6. CASE ~(ftable[j].ref > 1)
  <2>1. PICK i \in Inodes : i = ftable[j].ip
    BY <1>4
  <2>2. /\ lock[i] = NoProc /\ ftable' = [ftable EXCEPT ![j] = NoFile]
        /\ Released(i, {h \in Opens \ {j} : ftable[h].ip = i})
    BY <1>3, <1>6, <2>1 DEF sys_close, argfd
  <2>3. Owned(fs, i) \subseteq fs.bitmap
    BY <1>2, ItruncFrees DEF Truncated
  <2>4. fs' = fs \/ (fs' = itrunc(fs, i) /\ \A h \in Opens \ {j} : ftable[h].ip # i)
    BY <2>2, <2>3 DEF Released
  <2>5. LastClose(j, i)
    BY <2>1, <2>2, <2>4 DEF LastClose
  <2> QED BY <1>1, <2>5
<1> QED BY <1>5, <1>6

(* At first no file has any bytes and nobody copies.                       *)
LEMMA CopyInit == Init => CopyInv
<1> SUFFICES ASSUME Init, NEW i \in Inodes PROVE CopyAt(i)
  BY DEF CopyInv
<1>1. fs.size[i] = 0
  BY DEF Init
<1>2. Backed(fs, i, 0)
  BY DEF Backed
<1>3. ASSUME NEW p \in Procs PROVE ~Copies(p, i)
  <2>1. call[p] = NoCall
    BY DEF Init
  <2> QED BY <2>1 DEF Copies, NoCall
<1> QED BY <1>1, <1>2, <1>3 DEF CopyAt

(* What is copied stays where it belongs through the steps of everybody.   *)
LEMMA CopyNext == Inv /\ CopyInv /\ [Next]_vars => CopyInv'
<1> SUFFICES ASSUME Inv, CopyInv, [Next]_vars PROVE CopyInv'
  OBVIOUS
<1>0. ASSUME fs' = fs, saved' = saved, \A q \in Procs : Steady(q) PROVE CopyInv'
  BY <1>0, CopyQuiet
<1>1. CASE UNCHANGED vars
  BY <1>0, <1>1 DEF vars, Steady
<1>2. ASSUME NEW p \in Procs, NEW i \in Inodes, sys_open(p, i) PROVE CopyInv'
  <2>1. fs' = fs /\ saved' = saved
    BY <1>2 DEF sys_open
  <2> QED BY <1>0, <1>2, <2>1, OpenInv
<1>3. ASSUME NEW p \in Procs, NEW i \in Inodes, sys_unlink(p, i) PROVE CopyInv'
  <2>1. (fs' = fs \/ fs' = itrunc(fs, i)) /\ saved' = saved /\ lock[i] = NoProc
    BY <1>3 DEF sys_unlink
  <2> QED BY <1>3, <2>1, UnlinkInv, CopyTrunc
<1>4. ASSUME NEW p \in Procs, NEW d \in Fds, sys_dup(p, d) PROVE CopyInv'
  <2>1. fs' = fs /\ saved' = saved
    BY <1>4 DEF sys_dup
  <2> QED BY <1>0, <1>4, <2>1, DupInv
<1>5. ASSUME NEW p \in Procs, NEW d \in Fds, sys_close(p, d) PROVE CopyInv'
  <2>1. \A q \in Procs : Steady(q)
    BY <1>5, CloseInv
  <2>2. CASE fs' = fs /\ saved' = saved
    BY <1>0, <2>1, <2>2
  <2>3. ASSUME NEW j \in Opens, NEW i \in Inodes, LastClose(j, i), saved' = saved PROVE CopyInv'
    <3>1. (fs' = fs \/ fs' = itrunc(fs, i)) /\ lock[i] = NoProc
      BY <2>3 DEF LastClose
    <3> QED BY <2>1, <2>3, <3>1, CopyTrunc
  <2> QED BY <1>5, <2>2, <2>3, CloseStep
<1>6. ASSUME NEW p \in Procs, NEW d \in Fds, NEW n \in Reads, fileread(p, d, n) PROVE CopyInv'
  <2>1. fs' = fs /\ saved' = saved
    BY <1>6 DEF fileread
  <2> QED BY <1>0, <1>6, <2>1, ReadInv
<1>7. ASSUME NEW p \in Procs, NEW d \in Fds, NEW src \in Sources, filewrite(p, d, src) PROVE CopyInv'
  <2>1. fs' = fs /\ saved' = saved
    BY <1>7 DEF filewrite
  <2>2. \A q \in Procs : q # p => Steady(q)
    BY <1>7, WriteInv
  <2>3. call \in [Procs -> Calls]
    BY InvParts DEF Types
  <2>4. call'[p].pc = "chunk"
    BY <1>7, <2>3 DEF filewrite, NoCall
  <2>5. \A i \in Inodes : ~Copies(p, i)'
    BY <2>4 DEF Copies
  <2> QED BY <2>1, <2>2, <2>5, CopyQuiet
<1>8. ASSUME NEW p \in Procs, NEW q \in Procs, fork(p, q) PROVE CopyInv'
  <2>1. fs' = fs /\ saved' = saved
    BY <1>8 DEF fork
  <2> QED BY <1>0, <1>8, <2>1, ForkInv
<1>9. ASSUME NEW p \in Procs, writei_begin(p) \/ writei_block(p) \/ writei_end(p) PROVE CopyInv'
  BY <1>9, CopyBegin, CopyBlock, CopyEnd
<1> QED BY <1>1, <1>2, <1>3, <1>4, <1>5, <1>6, <1>7, <1>8, <1>9 DEF Next

(* Both invariants hold in every state of every behaviour.                 *)
LEMMA AlwaysCopy == Spec => [](Inv /\ CopyInv)
<1>1. Init => Inv /\ CopyInv
  BY InitInv, CopyInit
<1>2. (Inv /\ CopyInv) /\ [Next]_vars => (Inv /\ CopyInv)'
  BY NextInv, CopyNext
<1> QED BY <1>1, <1>2, PTL DEF Spec
-----------------------------------------------------------------------------
(* A range of Room * BSIZE bytes touches at most Room + 1 blocks.          *)
LEMMA BlocksTouched ==
    ASSUME NEW o \in Nat, NEW r \in Nat, NEW x \in Nat, o <= x, x <= o + r * BSIZE
    PROVE  x \div BSIZE \in (o \div BSIZE) .. (o \div BSIZE) + r
<1>1. PICK q \in Nat, w \in Words : q = o \div BSIZE /\ o = BSIZE * q + w
  BY DivMod
<1>2. BSIZE \in Nat
  BY Basics
<1>3. PICK n \in Nat : n = q + r
  BY <1>1
<1>4. PICK y \in Nat : y = o + r * BSIZE
  BY <1>2
<1>5. y = BSIZE * n + w
  <2>1. w \in Nat
    BY <1>2 DEF Words
  <2> QED BY <1>1, <1>2, <1>3, <1>4, <2>1
<1>6. y \div BSIZE = n
  BY <1>4, <1>5, DivModOnly
<1>7. x \div BSIZE <= n /\ q <= x \div BSIZE
  BY <1>1, <1>4, <1>6, DivOrder
<1>8. PICK k \in Nat : k = x \div BSIZE
  BY DivMod
<1>9. k \in q .. q + r
  BY <1>3, <1>7, <1>8
<1> QED BY <1>1, <1>8, <1>9

(* One element more.                                                       *)
LEMMA OneElement ==
    ASSUME NEW S, NEW n \in Nat, IsFiniteSet(S), Cardinality(S) <= n, NEW x
    PROVE  IsFiniteSet(S \cup {x}) /\ Cardinality(S \cup {x}) <= n + 1
<1>1. PICK m \in Nat : m = Cardinality(S)
  BY FS_CardinalityType
<1>2. PICK k \in Nat : k = Cardinality(S \cup {x}) /\ k <= m + 1
  <2>1. Cardinality(S \cup {x}) = IF x \in S THEN Cardinality(S) ELSE Cardinality(S) + 1
    BY FS_AddElement
  <2>2. CASE x \in S
    BY <1>1, <2>1, <2>2
  <2>3. CASE x \notin S
    BY <1>1, <2>1, <2>3
  <2> QED BY <2>2, <2>3
<1>3. IsFiniteSet(S \cup {x})
  BY FS_AddElement
<1> QED BY <1>1, <1>2, <1>3

(* At most n + 3 blocks: n of the file and three others.                   *)
LocsOf(s, i, K) == {Loc(s, i, k) : k \in K}

(* Three blocks and those of n block numbers are at most n + 3.            *)
LEMMA AtMost ==
    ASSUME NEW s, NEW i, NEW K, NEW n \in Nat, IsFiniteSet(K), Cardinality(K) = n,
           NEW a, NEW b, NEW c, NEW L, L \subseteq {a, b, c} \cup LocsOf(s, i, K)
    PROVE  Cardinality(L) \in 0 .. n + 3
<1>1. PICK f : f = [k \in K |-> Loc(s, i, k)]
  OBVIOUS
<1>2. PICK I : I = LocsOf(s, i, K)
  OBVIOUS
<1>3. f \in Surjection(K, I)
  BY <1>1, <1>2 DEF Surjection, LocsOf
<1>4. IsFiniteSet(I) /\ Cardinality(I) <= n
  BY <1>3, FS_Surjection
<1>5. PICK A : A = I \cup {a}
  OBVIOUS
<1>6. PICK B : B = A \cup {b}
  OBVIOUS
<1>7. PICK C : C = B \cup {c}
  OBVIOUS
<1>8. IsFiniteSet(A) /\ Cardinality(A) <= n + 1
  BY <1>4, <1>5, OneElement
<1>9. PICK n1 \in Nat, n2 \in Nat, n3 \in Nat : n1 = n + 1 /\ n2 = n1 + 1 /\ n3 = n2 + 1
  OBVIOUS
<1>10. IsFiniteSet(B) /\ Cardinality(B) <= n2
  BY <1>6, <1>8, <1>9, OneElement
<1>11. IsFiniteSet(C) /\ Cardinality(C) <= n3
  BY <1>7, <1>9, <1>10, OneElement
<1>12. L \in SUBSET C
  BY <1>2, <1>5, <1>6, <1>7
<1>13. IsFiniteSet(L) /\ Cardinality(L) <= Cardinality(C)
  BY <1>11, <1>12, FS_Subset
<1>14. Cardinality(L) \in Nat /\ Cardinality(C) \in Nat
  BY <1>11, <1>13, FS_CardinalityType
<1> QED BY <1>9, <1>11, <1>13, <1>14

(* A chunk of a write logs no more blocks than begin_op reserved for it:   *)
(* the bitmap, the inode, the indirect block and the blocks of the data,   *)
(* one more than the data fills when it starts within a block.             *)
THEOREM Reservation == Spec => []WithinReservation
<1>1. Inv /\ CopyInv => WithinReservation
  <2> SUFFICES ASSUME Inv, CopyInv, NEW p \in Procs
               PROVE  Cardinality(call[p].log \cup {InodeBlk}) <= MAXOPBLOCKS
    BY DEF WithinReservation
  <2>1. CASE call[p].pc # "copy"
    <3>1. call[p].pc \in {"idle", "chunk", "copy"}
      BY InvParts DEF Types, Calls
    <3>2. call[p].log = {}
      BY <2>1, <3>1, InvParts DEF CallOK, NoCall
    <3>3. Cardinality({InodeBlk}) = 1 /\ call[p].log \cup {InodeBlk} = {InodeBlk}
      BY <3>2, FS_Singleton
    <3>4. 1 <= MAXOPBLOCKS
      BY FileAssumption
    <3> QED BY <3>3, <3>4
  <2>2. CASE call[p].pc = "copy"
    <3>1. PICK i \in Inodes : Copies(p, i)
      BY <2>2, CallFile DEF Copies
    <3>2. PICK o \in Nat, tot \in Nat, n1 \in Nat :
             /\ o = ftable[call[p].f].off /\ tot = call[p].tot /\ tot <= n1
             /\ n1 = Chunk(Len(call[p].src))
      BY <3>1, CopyFits
    <3>3. Len(call[p].src) \in Nat
      BY <2>2, CallFile
    <3>4. PICK r \in Nat : r = Room /\ r + 4 <= MAXOPBLOCKS /\ n1 <= r * BSIZE
      BY <3>2, <3>3, ChunkFits
    <3>5. call[p].log \subseteq LoggedUpTo(fs, i, o, tot)
      BY <3>1, <3>2 DEF CopyInv, CopyAt, CopyOK
    <3>6. PICK q \in Nat : q = o \div BSIZE
      BY DivMod
    <3> DEFINE K == q .. q + r
    <3>7. IsFiniteSet(K) /\ Cardinality(K) = r + 1
      BY FS_Interval
    <3>8. ASSUME NEW x \in o .. o + tot - 1 PROVE x \div BSIZE \in K
      <4>1. PICK m \in Nat : m = r * BSIZE /\ tot <= m
        BY <3>2, <3>4, Basics
      <4>2. x \in Nat /\ o <= x /\ x <= o + r * BSIZE
        BY <4>1
      <4> QED BY <3>6, <4>2, BlocksTouched
    <3> HIDE DEF K
    <3>9. LoggedUpTo(fs, i, o, tot) \subseteq {BitmapBlk, Loc(fs, i, MAXFILE)} \cup LocsOf(fs, i, K)
      BY <3>8 DEF LoggedUpTo, LocsOf
    <3>l. PICK L : L = call[p].log \cup {InodeBlk}
      OBVIOUS
    <3>10. L \subseteq {BitmapBlk, Loc(fs, i, MAXFILE), InodeBlk} \cup LocsOf(fs, i, K)
      BY <3>5, <3>9, <3>l
    <3>n. PICK n \in Nat : n = r + 1
      OBVIOUS
    <3>11. Cardinality(L) \in 0 .. n + 3
      BY <3>7, <3>10, <3>n, AtMost
    <3>12. MAXOPBLOCKS \in Nat
      BY FileAssumption
    <3>13. Cardinality(L) <= MAXOPBLOCKS
      BY <3>4, <3>n, <3>11, <3>12
    <3> QED BY <3>l, <3>13
  <2> QED BY <2>1, <2>2
<1> QED BY <1>1, AlwaysCopy, PTL
-----------------------------------------------------------------------------
(* What ByteFile sees: the contents of a file that nobody writes, and what *)
(* they were before a write began.                                         *)
View(i) == IF lock[i] = NoProc THEN Content(i) ELSE saved[i]
Views == [i \in Inodes |-> View(i)]
Inos == [j \in Opens |-> ftable[j].ip]
Offs == [j \in Opens |-> ftable[j].off]

(* The actions of ByteFile in these terms.                                 *)
LEMMA SeeQuiet ==
    ASSUME Views' = Views, Inos' = Inos, Offs' = Offs
    PROVE  UNCHANGED File!vars
  BY DEF File!vars, Views, View, Inos, Offs

(* Open: a free open file gets an inode and offset 0.                      *)
LEMMA SeeOpen ==
    ASSUME NEW j \in Opens, NEW f \in Inodes, Inos[j] = 0, Views' = Views,
           Inos' = [Inos EXCEPT ![j] = f], Offs' = [Offs EXCEPT ![j] = 0]
    PROVE  File!Next
<1>1. File!Open(j, f)
  BY DEF File!Open, Views, View, Inos, Offs
<1> QED BY <1>1 DEF File!Next

(* Read: an offset moves on, at most to the end.                           *)
LEMMA SeeRead ==
    ASSUME NEW j \in Opens, Inos[j] # 0, Views' = Views, Inos' = Inos,
           Offs'[j] \in Offs[j] .. Len(Views[Inos[j]]), Offs' = [Offs EXCEPT ![j] = Offs'[j]]
    PROVE  File!Next
<1>1. File!Read(j)
  BY DEF File!Read, Views, View, Inos, Offs
<1> QED BY <1>1 DEF File!Next

(* Close: an open file is free again, and its file may lose its bytes.     *)
LEMMA SeeClose ==
    ASSUME NEW j \in Opens, Inos[j] # 0, Inos'[j] = 0,
           Inos' = [Inos EXCEPT ![j] = 0], Offs' = [Offs EXCEPT ![j] = 0],
           \/ Views' = Views
           \/ /\ \A h \in Opens : Inos'[h] # Inos[j]
              /\ Views'[Inos[j]] = <<>> /\ Views' = [Views EXCEPT ![Inos[j]] = <<>>]
    PROVE  File!Next
<1>1. File!Close(j)
  BY DEF File!Close, File!Remove, File!Closed, Views, View, Inos, Offs
<1> QED BY <1>1 DEF File!Next

(* Unlink: a file that is not open loses its bytes.                        *)
LEMMA SeeUnlink ==
    ASSUME NEW f \in Inodes, Views[f] # <<>>, Inos' = Inos, Offs' = Offs,
           \A h \in Opens : Inos'[h] # f,
           Views'[f] = <<>>, Views' = [Views EXCEPT ![f] = <<>>]
    PROVE  File!Next
<1>1. File!Unlink(f)
  BY DEF File!Unlink, File!Remove, File!Closed, Views, View, Inos, Offs
<1> QED BY <1>1 DEF File!Next

(* Write: bytes over the old ones, and the offset after them.              *)
LEMMA SeeWrite ==
    ASSUME NEW j \in Opens, NEW bytes \in UNION {ChunksOf(src) : src \in Sources},
           Inos[j] # 0, Offs[j] + Len(bytes) <= MAXFILE * BSIZE, Inos' = Inos,
           Offs'[j] = Offs[j] + Len(bytes), Offs' = [Offs EXCEPT ![j] = Offs[j] + Len(bytes)],
           Views' = [Views EXCEPT ![Inos[j]] = File!Overwrite(Views[Inos[j]], Offs[j], bytes)]
    PROVE  File!Next
<1>1. File!Write(j, bytes)
  BY DEF File!Write, Views, View, Inos, Offs
<1> QED BY <1>1 DEF File!Next

(* The contents of an inode that keeps what it has.                        *)
LEMMA KeepsContent ==
    ASSUME NEW s \in FileSys, Own(s), NEW t \in FileSys, Own(t), NEW i \in Inodes,
           Backed(s, i, s.size[i]), Keeps(s, t, i)
    PROVE  ContentIn(t, i) = ContentIn(s, i)
<1>1. PICK z \in Nat : z = s.size[i] /\ z <= MAXFILE * BSIZE /\ t.size[i] = z
  BY Sizes DEF Keeps
<1>2. Backed(t, i, z)
  BY <1>1, KeepsBacked
<1>3. PICK c, e : c = ContentIn(s, i) /\ e = ContentIn(t, i)
  OBVIOUS
<1>4. /\ c \in Seq(Nat) /\ Len(c) = z /\ \A x \in 1 .. z : c[x] = Byte(s, i, x - 1)
  BY <1>1, <1>3, ContentBytes
<1>5. /\ e \in Seq(Nat) /\ Len(e) = z /\ \A x \in 1 .. z : e[x] = Byte(t, i, x - 1)
  BY <1>1, <1>2, <1>3, ContentBytes
<1>6. ASSUME NEW x \in 1 .. z PROVE e[x] = c[x]
  <2>1. x - 1 \in Nat /\ x - 1 < MAXFILE * BSIZE /\ x - 1 \in 0 .. z - 1
    BY <1>1, Sizes
  <2>2. Loc(s, i, (x - 1) \div BSIZE) # 0
    BY <1>1, <2>1 DEF Backed
  <2>3. Byte(t, i, x - 1) = Byte(s, i, x - 1)
    BY <2>1, <2>2 DEF Keeps
  <2> QED BY <1>4, <1>5, <2>3
<1>7. e = c
  BY <1>4, <1>5, <1>6, SeqEqual
<1> QED BY <1>3, <1>7

(* An inode whose lock, saved contents and blocks stay is seen as before.  *)
LEMMA ViewKept ==
    ASSUME Inv, Inv', CopyInv, NEW i \in Inodes, lock'[i] = lock[i], saved'[i] = saved[i],
           lock[i] # NoProc \/ Keeps(fs, fs', i)
    PROVE  View(i)' = View(i)
<1>1. fs \in FileSys /\ Own(fs) /\ fs' \in FileSys /\ Own(fs')
  BY InvParts DEF Inv, Types
<1>2. CASE lock[i] # NoProc
  BY <1>2 DEF View
<1>3. CASE lock[i] = NoProc
  <2>1. Backed(fs, i, fs.size[i])
    BY DEF CopyInv, CopyAt
  <2>2. ContentIn(fs', i) = ContentIn(fs, i)
    BY <1>1, <1>3, <2>1, KeepsContent
  <2>3. Content(i)' = Content(i)
    BY <2>2, ContentIs
  <2> QED BY <1>3, <2>3 DEF View
<1> QED BY <1>2, <1>3

(* An inode without bytes.                                                 *)
LEMMA NoBytes ==
    ASSUME NEW s \in FileSys, Own(s), NEW i \in Inodes, s.size[i] = 0
    PROVE  ContentIn(s, i) = <<>>
<1>1. Backed(s, i, s.size[i])
  BY DEF Backed
<1>2. ContentIn(s, i) \in Seq(Nat) /\ Len(ContentIn(s, i)) = 0
  BY <1>1, ContentBytes
<1> QED BY <1>2, EmptySeq

(* Nothing that ByteFile sees changes when the file system, the locks, the *)
(* inodes of the open files and their offsets stay.                        *)
LEMMA QuietStep ==
    ASSUME fs' = fs, lock' = lock, saved' = saved,
           \A h \in Opens : ftable'[h].ip = ftable[h].ip /\ ftable'[h].off = ftable[h].off
    PROVE  UNCHANGED File!vars
<1>1. \A i \in Inodes : View(i)' = View(i)
  BY ContentIs DEF View
<1>2. Views' = Views
  BY <1>1 DEF Views
<1>3. Inos' = Inos /\ Offs' = Offs
  BY DEF Inos, Offs
<1> QED BY <1>2, <1>3, SeeQuiet

(* open: an open file structure that was free gets the inode.              *)
LEMMA SeenOpen ==
    ASSUME Inv, NEW p \in Procs, NEW i \in Inodes, sys_open(p, i)
    PROVE  File!Next \/ UNCHANGED File!vars
<1>1. fs' = fs /\ lock' = lock /\ saved' = saved
  BY DEF sys_open
<1>2. ftable \in [Opens -> Entries]
  BY InvParts DEF Types
<1>3. CASE ftable' = ftable
  BY <1>1, <1>3, QuietStep
<1>4. ASSUME FreeFiles # {}, ftable' = [ftable EXCEPT ![Min(FreeFiles)] = [ref |-> 1, ip |-> i, off |-> 0]]
      PROVE  File!Next
  <2>1. PICK j \in Opens : j = Min(FreeFiles) /\ ftable[j].ref = 0
    <3>1. FreeFiles \in SUBSET Nat
      BY Basics DEF FreeFiles
    <3> QED BY <1>4, <3>1, MinIn DEF FreeFiles
  <2>2. PICK e : e = [ref |-> 1, ip |-> i, off |-> 0]
    OBVIOUS
  <2>3. ftable'[j] = e /\ e.ip = i /\ e.off = 0 /\ \A h \in Opens \ {j} : ftable'[h] = ftable[h]
    BY <1>2, <1>4, <2>1, <2>2
  <2>4. ftable[j].ip = 0
    BY <2>1, InvParts DEF EntryOK
  <2>5. Views' = Views
    BY <1>1, ContentIs DEF Views, View
  <2>6. Inos[j] = 0 /\ Inos' = [Inos EXCEPT ![j] = i] /\ Offs' = [Offs EXCEPT ![j] = 0]
    BY <2>3, <2>4 DEF Inos, Offs
  <2> QED BY <2>5, <2>6, SeeOpen
<1> QED BY <1>3, <1>4 DEF sys_open

(* dup and fork: more descriptors for the same open files.                 *)
LEMMA SeenDup ==
    ASSUME Inv, NEW p \in Procs, NEW d \in Fds, sys_dup(p, d)
    PROVE  UNCHANGED File!vars
<1>1. fs' = fs /\ lock' = lock /\ saved' = saved /\ ofile[p][d] # 0
  BY DEF sys_dup, argfd
<1>2. ftable \in [Opens -> Entries]
  BY InvParts DEF Types
<1>3. PICK j \in Opens : j = ofile[p][d]
  BY <1>1, InvParts DEF Types
<1>4. PICK r \in Nat : r = ftable[j].ref + 1
  BY <1>3, OpenEntry
<1>5. ftable' = [ftable EXCEPT ![j].ref = @ + 1]
  BY <1>3 DEF sys_dup, argfd
<1>6. ftable' = SetRef(ftable, j, r)
  BY <1>2, <1>4, <1>5 DEF SetRef
<1>7. RefIs(ftable, ftable', j, r)
  BY <1>2, <1>6, SetRefIs
<1> QED BY <1>1, <1>7, QuietStep DEF RefIs

(* fork gives a child descriptors of the same open files.                  *)
LEMMA SeenFork ==
    ASSUME Inv, NEW p \in Procs, NEW q \in Procs, fork(p, q)
    PROVE  UNCHANGED File!vars
<1>1. fs' = fs /\ lock' = lock /\ saved' = saved /\ ftable' = Inherit(ftable, p)
  BY DEF fork
<1>2. ftable \in [Opens -> Entries]
  BY InvParts DEF Types
<1>3. ASSUME NEW h \in Opens PROVE ftable'[h].ip = ftable[h].ip /\ ftable'[h].off = ftable[h].off
  <2>1. PICK n : ftable'[h] = [ftable[h] EXCEPT !.ref = n]
    BY <1>1 DEF Inherit
  <2>2. ftable[h] \in Entries
    BY <1>2
  <2> QED BY <2>1, <2>2 DEF Entries
<1> QED BY <1>1, <1>3, QuietStep

(* An inode without names and open files loses its bytes.                  *)
LEMMA SeenTrunc ==
    ASSUME Inv, Inv', CopyInv, NEW i \in Inodes, lock[i] = NoProc, lock' = lock, saved' = saved,
           fs' = itrunc(fs, i)
    PROVE  Views'[i] = <<>> /\ Views' = [Views EXCEPT ![i] = <<>>]
<1>1. fs \in FileSys /\ Own(fs) /\ fs' \in FileSys /\ Own(fs')
  BY InvParts DEF Inv, Types
<1>2. Truncated(fs, fs', i)
  BY <1>1, ItruncFrees
<1>3. /\ fs'.data = fs.data /\ fs'.size = [fs.size EXCEPT ![i] = 0]
      /\ \A j \in Inodes, k \in Keys : j # i => Loc(fs', j, k) = Loc(fs, j, k)
  BY <1>2 DEF Truncated
<1>4. fs.size \in [Inodes -> 0 .. MAXFILE * BSIZE]
  BY <1>1, FsType
<1>5. ASSUME NEW j \in Inodes, j # i PROVE View(j)' = View(j)
  <2>1. fs'.size[j] = fs.size[j]
    BY <1>3, <1>4, <1>5
  <2>2. Keeps(fs, fs', j)
    BY <1>3, <1>5, <2>1, SameKeeps
  <2> QED BY <2>2, ViewKept
<1>6. View(i)' = <<>>
  <2>1. fs'.size[i] = 0
    BY <1>3, <1>4
  <2>2. ContentIn(fs', i) = <<>>
    BY <1>1, <2>1, NoBytes
  <2>3. Content(i)' = <<>>
    BY <2>2, ContentIs
  <2> QED BY <2>3 DEF View
<1> QED BY <1>5, <1>6 DEF Views

(* close and unlink.                                                       *)
LEMMA SeenClose ==
    ASSUME Inv, Inv', CopyInv, NEW p \in Procs, NEW d \in Fds, sys_close(p, d)
    PROVE  File!Next \/ UNCHANGED File!vars
<1>1. lock' = lock /\ saved' = saved
  BY CloseStep
<1>2. CASE fs' = fs /\ \A h \in Opens : ftable'[h].ip = ftable[h].ip /\ ftable'[h].off = ftable[h].off
  BY <1>1, <1>2, QuietStep
<1>3. ASSUME NEW j \in Opens, NEW i \in Inodes, LastClose(j, i) PROVE File!Next
  <2>1. /\ ftable[j].ip = i /\ lock[i] = NoProc /\ ftable' = [ftable EXCEPT ![j] = NoFile]
        /\ fs' = fs \/ (fs' = itrunc(fs, i) /\ \A h \in Opens \ {j} : ftable[h].ip # i)
    BY <1>3 DEF LastClose
  <2>2. ftable \in [Opens -> Entries] /\ i # 0
    BY InvParts, FileAssumption DEF Types
  <2>3. /\ ftable'[j].ip = 0 /\ ftable'[j].off = 0
        /\ \A h \in Opens \ {j} : ftable'[h] = ftable[h]
    BY <2>1, <2>2 DEF NoFile
  <2>4. /\ Inos[j] = i /\ Inos'[j] = 0 /\ Inos[j] # 0
        /\ Inos' = [Inos EXCEPT ![j] = 0] /\ Offs' = [Offs EXCEPT ![j] = 0]
    BY <2>1, <2>2, <2>3 DEF Inos, Offs
  <2>5. CASE fs' = fs
    <3>1. Views' = Views
      BY <1>1, <2>5, ContentIs DEF Views, View
    <3> QED BY <2>4, <3>1, SeeClose
  <2>6. CASE fs' = itrunc(fs, i) /\ \A h \in Opens \ {j} : ftable[h].ip # i
    <3>1. Views'[i] = <<>> /\ Views' = [Views EXCEPT ![i] = <<>>]
      BY <1>1, <2>1, <2>6, SeenTrunc
    <3>2. \A h \in Opens : Inos'[h] # i
      BY <2>2, <2>3, <2>6 DEF Inos
    <3> QED BY <2>4, <3>1, <3>2, SeeClose
  <2> QED BY <2>1, <2>5, <2>6
<1> QED BY <1>2, <1>3, CloseStep

(* unlink takes a name that ByteFile does not see, or a file's bytes.      *)
LEMMA SeenUnlink ==
    ASSUME Inv, Inv', CopyInv, NEW p \in Procs, NEW i \in Inodes, sys_unlink(p, i)
    PROVE  File!Next \/ UNCHANGED File!vars
<1>1. /\ lock' = lock /\ saved' = saved /\ ftable' = ftable /\ lock[i] = NoProc
      /\ fs' = fs \/ (fs' = itrunc(fs, i) /\ \A j \in Opens : ftable[j].ip # i)
  BY DEF sys_unlink
<1>2. CASE fs' = fs
  BY <1>1, <1>2, QuietStep
<1>3. CASE fs' = itrunc(fs, i) /\ \A j \in Opens : ftable[j].ip # i
  <2>1. Views'[i] = <<>> /\ Views' = [Views EXCEPT ![i] = <<>>]
    BY <1>1, <1>3, SeenTrunc
  <2>2. Inos' = Inos /\ Offs' = Offs /\ \A h \in Opens : Inos'[h] # i
    BY <1>1, <1>3 DEF Inos, Offs
  <2>3. CASE Views[i] = <<>>
    <3>1. Views' = Views
      BY <2>1, <2>3 DEF Views
    <3> QED BY <2>2, <3>1, SeeQuiet
  <2>4. CASE Views[i] # <<>>
    BY <2>1, <2>2, <2>4, SeeUnlink
  <2> QED BY <2>3, <2>4
<1> QED BY <1>1, <1>2, <1>3

(* read moves the offset, at most to the end.                              *)
LEMMA SeenRead ==
    ASSUME Inv, CopyInv, NEW p \in Procs, NEW d \in Fds, NEW n \in Reads, fileread(p, d, n)
    PROVE  File!Next
<1>1. fs' = fs /\ lock' = lock /\ saved' = saved /\ ofile[p][d] # 0
  BY DEF fileread, argfd
<1>2. ftable \in [Opens -> Entries] /\ fs \in FileSys /\ Own(fs)
  BY InvParts DEF Types
<1>3. PICK j \in Opens : j = ofile[p][d]
  BY <1>1, InvParts DEF Types
<1>4. PICK i \in Inodes : i = ftable[j].ip
  BY <1>3, OpenEntry
<1>5. PICK o \in Nat : o = ftable[j].off /\ o <= fs.size[i]
  <2>1. EntryOK(ftable[j]) /\ ftable[j].off \in Nat
    BY <1>2, InvParts, Basics DEF Entries
  <2>2. i # 0
    BY FileAssumption
  <2> QED BY <1>4, <2>1, <2>2 DEF EntryOK
<1>6. lock[i] = NoProc /\ ~BadRange(i, o, n) /\ n \in 0 .. UINT - 1
  BY <1>3, <1>4, <1>5, FileAssumption DEF fileread, argfd
<1>7. PICK z \in Nat : z = fs.size[i] /\ z < UINT /\ UINT \in Nat
  BY <1>2, Sizes
<1>8. PICK k \in Nat : k = CutOff(i, o, n)
  BY <1>2, <1>5, <1>6, CutOffFits
<1>9. PICK o2 \in Nat : o2 = o + k /\ o2 <= z /\ o2 \in 0 .. UINT - 1
  BY <1>2, <1>5, <1>6, <1>7, <1>8, CutOffFits
<1>10. ftable' = SetOff(ftable, j, o2)
  BY <1>2, <1>3, <1>4, <1>5, <1>8, <1>9 DEF fileread, argfd, SetOff
<1>11. OffIs(ftable, ftable', j, o2)
  BY <1>2, <1>9, <1>10, SetOffIs
<1>12. /\ ftable'[j].off = o2 /\ \A h \in Opens : ftable'[h].ip = ftable[h].ip
       /\ \A h \in Opens \ {j} : ftable'[h] = ftable[h]
  BY <1>11 DEF OffIs
<1>13. Views' = Views
  BY <1>1, ContentIs DEF Views, View
<1>14. Inos' = Inos /\ Inos[j] = i /\ Inos[j] # 0 /\ Offs[j] = o
  BY <1>4, <1>5, <1>12, FileAssumption DEF Inos, Offs
<1>15. Offs'[j] = o2 /\ Offs' = [Offs EXCEPT ![j] = Offs'[j]]
  BY <1>12 DEF Offs
<1>16. Len(Views[i]) = z
  <2>1. Backed(fs, i, fs.size[i])
    BY DEF CopyInv, CopyAt
  <2>2. Len(ContentIn(fs, i)) = z
    BY <1>2, <1>7, <2>1, ContentBytes
  <2>3. Views[i] = ContentIn(fs, i)
    BY <1>6, ContentIs DEF Views, View
  <2> QED BY <2>2, <2>3
<1>17. o2 \in o .. z
  BY <1>9
<1>18. Offs'[j] \in Offs[j] .. Len(Views[Inos[j]])
  BY <1>14, <1>15, <1>16, <1>17
<1> QED BY <1>13, <1>14, <1>15, <1>18, SeeRead

(* The start of a chunk: the contents are saved.                           *)
LEMMA SeenBegin ==
    ASSUME Inv, Inv', CopyInv, NEW p \in Procs, writei_begin(p)
    PROVE  UNCHANGED File!vars
<1>1. PICK i, c : c = call[p] /\ i = ftable[c.f].ip /\ c.pc = "chunk" /\ lock[i] = NoProc
  BY DEF writei_begin
<1>2. fs' = fs /\ ftable' = ftable
  BY DEF writei_begin
<1>3. i \in Inodes
  BY <1>1, CallFile
<1>4. /\ saved = [x \in Inodes |-> saved[x]] /\ lock \in [Inodes -> Procs \cup {NoProc}]
      /\ p # NoProc
  BY InvParts, FileAssumption DEF Types
<1>5. CASE lock' = lock /\ saved' = saved
  BY <1>2, <1>5, QuietStep
<1>6. CASE lock' = [lock EXCEPT ![i] = p] /\ saved' = [saved EXCEPT ![i] = Content(i)]
  <2>1. lock'[i] = p /\ saved'[i] = Content(i)
    BY <1>3, <1>4, <1>6
  <2>2. View(i)' = View(i)
    BY <1>1, <1>4, <2>1 DEF View
  <2>3. ASSUME NEW x \in Inodes, x # i PROVE View(x)' = View(x)
    <3>1. lock'[x] = lock[x] /\ saved'[x] = saved[x]
      BY <1>3, <1>4, <1>6, <2>3
    <3> QED BY <1>2, <3>1, ContentIs DEF View
  <2>4. Views' = Views
    BY <2>2, <2>3 DEF Views
  <2>5. Inos' = Inos /\ Offs' = Offs
    BY <1>2 DEF Inos, Offs
  <2> QED BY <2>4, <2>5, SeeQuiet
<1> QED BY <1>1, <1>5, <1>6 DEF writei_begin

(* A turn: nobody sees the inode that is written, and the others stay.     *)
LEMMA SeenBlock ==
    ASSUME Inv, Inv', CopyInv, NEW p \in Procs, writei_block(p)
    PROVE  UNCHANGED File!vars
<1>1. lock' = lock /\ saved' = saved /\ ftable' = ftable
  BY TurnTaken
<1>2. CASE fs' = fs
  BY <1>1, <1>2, QuietStep
<1>3. ASSUME NEW i, NEW o, NEW m, NEW c, NEW n, NEW b, TurnDone(p, i, o, m, c, n, b)
      PROVE  UNCHANGED File!vars
  <2>1. i \in Inodes /\ Copies(p, i)
    BY <1>3 DEF TurnDone, Copies
  <2>2. lock[i] = p /\ p # NoProc
    BY <2>1, InvParts, FileAssumption DEF Locks
  <2>3. ASSUME NEW x \in Inodes PROVE View(x)' = View(x)
    <3>1. lock[x] # NoProc \/ Keeps(fs, fs', x)
      BY <1>3, <2>2, TurnKeeps
    <3> QED BY <1>1, <3>1, ViewKept
  <2>4. Views' = Views
    BY <2>3 DEF Views
  <2>5. Inos' = Inos /\ Offs' = Offs
    BY <1>1 DEF Inos, Offs
  <2> QED BY <2>4, <2>5, SeeQuiet
<1> QED BY <1>2, <1>3, TurnTaken

(* n elements of a sequence from the a-th.                                 *)
Part(y, s, a, n) == y \in Seq(Nat) /\ Len(y) = n /\ \A x \in 1 .. n : y[x] = s[a + x - 1]

(* SubSeq has them.                                                        *)
LEMMA PartOf ==
    ASSUME NEW s \in Seq(Nat), NEW a \in Nat \ {0}, NEW n \in Nat, a - 1 + n <= Len(s)
    PROVE  Part(SubSeq(s, a, a - 1 + n), s, a, n)
<1>1. PICK l \in Nat, b \in Int : l = Len(s) /\ b = a - 1 + n
  OBVIOUS
<1>2. \A x \in a .. b : s[x] \in Nat
  <2>1. a .. b \subseteq 1 .. l
    BY <1>1
  <2> QED BY <1>1, <2>1, ElementOfSeq
<1>3. PICK y : y = SubSeq(s, a, b)
  OBVIOUS
<1>4. /\ y \in Seq(Nat) /\ Len(y) = IF a <= b THEN b - a + 1 ELSE 0
      /\ \A x \in 1 .. b - a + 1 : y[x] = s[a + x - 1]
  BY <1>2, <1>3, SubSeqProperties
<1>5. b - a + 1 = n /\ (a <= b <=> n > 0)
  BY <1>1
<1>6. Len(y) = n
  BY <1>4, <1>5
<1>7. \A x \in 1 .. n : y[x] = s[a + x - 1]
  BY <1>4, <1>5
<1>8. Part(y, s, a, n)
  BY <1>4, <1>6, <1>7 DEF Part
<1> QED BY <1>1, <1>3, <1>8

(* What is written in one go is a chunk of a source.                       *)
LEMMA ChunkIn ==
    ASSUME NEW src \in Suffixes \ {<<>>}
    PROVE  /\ SubSeq(src, 1, Chunk(Len(src))) \in UNION {ChunksOf(s) : s \in Sources}
           /\ Len(SubSeq(src, 1, Chunk(Len(src)))) = Chunk(Len(src))
<1>1. PICK s \in Sources, a \in Nat \ {0} : src = SubSeq(s, a, Len(s))
  BY DEF Suffixes, SuffixesOf
<1>2. s \in Seq(Nat) /\ Len(s) \in Nat
  BY <1>1, SuffixSelf
<1>3. a <= Len(s)
  <2>1. ASSUME a > Len(s) PROVE src = <<>>
    BY <1>1, <1>2, <2>1
  <2> QED BY <1>1, <1>2, <2>1
<1>4. PICK l \in Nat : l = Len(s) - a + 1
  <2>1. a \in Nat /\ Len(s) - a + 1 \in Nat
    BY <1>1, <1>2, <1>3
  <2> QED BY <2>1
<1>5. Len(src) = l /\ src \in Seq(Nat) /\ \A x \in 1 .. l : src[x] = s[a + x - 1]
  BY <1>1, <1>2, <1>3, <1>4
<1>6. PICK n \in Nat : n = Chunk(l) /\ n <= l
  BY ChunkFits
<1>7. SubSeq(src, 1, n) = SubSeq(s, a, a - 1 + n)
  <2>1. PICK y, v, e : y = SubSeq(src, 1, e) /\ v = SubSeq(s, a, a - 1 + n) /\ e = 1 - 1 + n
    OBVIOUS
  <2>2. Part(y, src, 1, n)
    <3>1. 1 - 1 + n <= Len(src)
      BY <1>5, <1>6
    <3> QED BY <1>5, <2>1, <3>1, PartOf
  <2>3. Part(v, s, a, n)
    <3>1. a - 1 + n <= Len(s)
      BY <1>1, <1>2, <1>4, <1>6
    <3> QED BY <1>1, <1>2, <2>1, <3>1, PartOf
  <2>4. ASSUME NEW x \in 1 .. n PROVE y[x] = v[x]
    <3>1. 1 + x - 1 = x /\ x \in 1 .. l
      BY <1>6
    <3>2. y[x] = src[x] /\ v[x] = s[a + x - 1]
      BY <2>2, <2>3, <3>1 DEF Part
    <3> QED BY <1>5, <3>1, <3>2
  <2>5. y \in Seq(Nat) /\ v \in Seq(Nat) /\ Len(y) = n /\ Len(v) = n
    BY <2>2, <2>3 DEF Part
  <2>6. y = v
    BY <2>4, <2>5, SeqEqual
  <2> QED BY <2>1, <2>6
<1>8. SubSeq(s, a, a - 1 + Chunk(Len(s) - a + 1)) \in ChunksOf(s)
  <2>1. a \in 1 .. Len(s)
    BY <1>1, <1>2, <1>3
  <2> QED BY <2>1 DEF ChunksOf
<1>9. SubSeq(src, 1, n) \in ChunksOf(s)
  BY <1>4, <1>6, <1>7, <1>8
<1>10. Len(SubSeq(src, 1, n)) = n
  BY <1>5, <1>6
<1> QED BY <1>1, <1>5, <1>6, <1>9, <1>10

(* When all of a chunk is copied, the contents are the old ones with the   *)
(* chunk over them.                                                        *)
SameBlocks(s, t, i) == t.data = s.data /\ \A k \in Keys : Loc(t, i, k) = Loc(s, i, k)
FirstOf(bytes, src, n) == Len(bytes) = n /\ \A x \in 1 .. n : bytes[x] = src[x]
Ended(t, old, i, o, bytes) == ContentIn(t, i) = File!Overwrite(old, o, bytes)

(* The contents after the last turn and the new size.                      *)
LEMMA EndContent ==
    ASSUME NEW s \in FileSys, Own(s), NEW t \in FileSys, Own(t), NEW i \in Inodes,
           SameBlocks(s, t, i), NEW o \in Nat, NEW n \in Nat, o + n <= MAXFILE * BSIZE, o <= s.size[i],
           NEW old, NEW src, Copied(s, old, i, o, src, n), Backed(t, i, t.size[i]),
           t.size[i] = NewSize(s.size[i], o + n),
           NEW bytes, FirstOf(bytes, src, n)
    PROVE  Ended(t, old, i, o, bytes)
<1>1. PICK z \in Nat : z = s.size[i] /\ z <= MAXFILE * BSIZE /\ MAXFILE * BSIZE \in Nat
  BY Sizes
<1>2. PICK m \in Nat : m = t.size[i] /\ m <= MAXFILE * BSIZE
  BY Sizes
<1>3. m = IF o + n > z THEN o + n ELSE z
  BY <1>1, <1>2 DEF NewSize
<1>4. PICK c : c = ContentIn(t, i)
  OBVIOUS
<1>5. c = [x \in 1 .. m |-> c[x]]
  BY <1>2, <1>4 DEF ContentIn
<1>6. \A x \in 1 .. m : c[x] = Byte(t, i, x - 1)
  BY <1>2, <1>4, ContentBytes
<1>7. Len(old) = z
  BY <1>1 DEF Copied
<1>8. ASSUME NEW x \in 1 .. m
      PROVE  c[x] = IF o < x /\ x <= o + n THEN bytes[x - o] ELSE old[x]
  <2>1. PICK y \in Nat : y = x - 1 /\ y < MAXFILE * BSIZE /\ x = y + 1
    BY <1>1, <1>2
  <2>2. y \div BSIZE \in Keys
    BY <2>1, BlockFits
  <2>3. c[x] = Byte(s, i, y)
    BY <1>6, <2>1, <2>2 DEF Byte, SameBlocks
  <2>4. CASE o < x /\ x <= o + n
    <3>0. PICK w \in 0 .. n - 1 : w = y - o
      BY <2>1, <2>4
    <3>1. y = o + w /\ w + 1 \in 1 .. n /\ x - o = w + 1
      BY <2>1, <3>0
    <3>2. Byte(s, i, y) = src[w + 1]
      BY <3>1 DEF Copied
    <3> QED BY <2>3, <2>4, <3>1, <3>2 DEF FirstOf
  <2>5. CASE ~(o < x /\ x <= o + n)
    <3>1. y \in 0 .. z - 1 /\ (y < o \/ o + n <= y)
      BY <1>1, <1>3, <2>1, <2>5
    <3>2. Byte(s, i, y) = old[y + 1]
      BY <1>1, <3>1 DEF Copied
    <3> QED BY <2>1, <2>3, <2>5, <3>2
  <2> QED BY <2>4, <2>5
<1>9. File!Overwrite(old, o, bytes) =
         [x \in 1 .. m |-> IF o < x /\ x <= o + n THEN bytes[x - o] ELSE old[x]]
  BY <1>3, <1>7 DEF File!Overwrite, FirstOf
<1> QED BY <1>4, <1>5, <1>8, <1>9 DEF Ended

(* The end of a chunk: a write of all its bytes at the offset.             *)
LEMMA SeenEnd ==
    ASSUME Inv, Inv', CopyInv, CopyInv', NEW p \in Procs, writei_end(p)
    PROVE  File!Next
<1>1. PICK i, o, c, j :
         /\ c = call[p] /\ j = c.f /\ i = ftable[j].ip /\ o = ftable[j].off
         /\ c.pc = "copy" /\ c.tot = c.n1
         /\ fs' = [fs EXCEPT !.size[i] = NewSize(@, o + c.n1)]
         /\ ftable' = [ftable EXCEPT ![j].off = o + c.n1]
         /\ lock' = [lock EXCEPT ![i] = NoProc]
         /\ saved' = [saved EXCEPT ![i] = <<>>]
  BY DEF writei_end
<1>2. i \in Inodes /\ Copies(p, i) /\ j \in Opens
  BY <1>1, CallFile DEF Copies
<1>3. /\ fs \in FileSys /\ Own(fs) /\ fs' \in FileSys /\ Own(fs')
      /\ saved = [x \in Inodes |-> saved[x]] /\ lock \in [Inodes -> Procs \cup {NoProc}]
      /\ ftable \in [Opens -> Entries]
  BY InvParts DEF Inv, Types
<1>4. PICK n \in Nat : n = c.n1 /\ n = Chunk(Len(c.src))
  BY <1>1, <1>2, CopyFits
<1>5. o \in Nat /\ o <= fs.size[i] /\ o + n <= MAXFILE * BSIZE
  BY <1>1, <1>2, <1>4, CopyFits
<1>6. PICK e \in Nat, z \in Nat : e = o + n /\ z = fs.size[i] /\ e \in 0 .. UINT - 1
  <2>1. MAXFILE * BSIZE < UINT /\ MAXFILE * BSIZE \in Nat /\ UINT \in Nat /\ fs.size[i] \in Nat
    BY <1>2, <1>3, Sizes
  <2> QED BY <1>5, <2>1
<1>7. /\ fs'.data = fs.data /\ fs'.addrs = fs.addrs
      /\ fs'.size = [fs.size EXCEPT ![i] = NewSize(z, e)]
  BY <1>1, <1>2, <1>3, <1>4, <1>6 DEF FileSys
<1>8. fs.size \in [Inodes -> 0 .. MAXFILE * BSIZE]
  BY <1>3, FsType
<1>9. fs'.size[i] = NewSize(z, e) /\ \A x \in Inodes : x # i => fs'.size[x] = fs.size[x]
  BY <1>2, <1>7, <1>8
<1>10. \A x \in Inodes, k \in Keys : Loc(fs', x, k) = Loc(fs, x, k)
  BY <1>7 DEF Loc
<1>11. PICK old, src, bytes : old = saved[i] /\ src = c.src /\ bytes = SubSeq(src, 1, n)
  OBVIOUS
<1>12. Copied(fs, old, i, o, src, n) /\ Backed(fs', i, fs'.size[i])
  <2>1. CopyAt(i) /\ CopyAt(i)'
    BY <1>2 DEF CopyInv
  <2>2. CopyOK(c, o, i)
    BY <1>1, <1>2, <2>1 DEF CopyAt
  <2>3. Copied(fs, old, i, o, src, n)
    BY <1>1, <1>4, <1>11, <2>2 DEF CopyOK
  <2>4. Backed(fs', i, fs'.size[i])
    BY <2>1 DEF CopyAt
  <2> QED BY <2>3, <2>4
<1>13. src \in Suffixes \ {<<>>} /\ src \in Seq(Nat) /\ Len(src) \in Nat
  BY <1>1, <1>11, CallFile
<1>14. /\ bytes \in UNION {ChunksOf(s) : s \in Sources} /\ Len(bytes) = n
  BY <1>4, <1>11, <1>13, ChunkIn
<1>15. \A x \in 1 .. n : bytes[x] = src[x]
  <2>1. n <= Len(src)
    BY <1>4, <1>11, <1>13, ChunkFits
  <2> QED BY <1>11, <1>13, <2>1
<1>16. ContentIn(fs', i) = File!Overwrite(old, o, bytes)
  <2>1. fs'.size[i] = NewSize(fs.size[i], o + n)
    BY <1>6, <1>9
  <2>2. SameBlocks(fs, fs', i) /\ FirstOf(bytes, src, n)
    BY <1>2, <1>7, <1>10, <1>14, <1>15 DEF SameBlocks, FirstOf
  <2>3. Ended(fs', old, i, o, bytes)
    BY <1>2, <1>3, <1>5, <1>12, <2>1, <2>2, EndContent
  <2> QED BY <2>3 DEF Ended
<1>17. lock[i] # NoProc /\ lock'[i] = NoProc
  <2>1. lock[i] = p
    BY <1>2, InvParts DEF Locks
  <2>2. p # NoProc
    BY FileAssumption
  <2>3. lock'[i] = NoProc
    BY <1>1, <1>2, <1>3
  <2> QED BY <2>1, <2>2, <2>3
<1>18. Views[i] = old /\ Views'[i] = File!Overwrite(old, o, bytes)
  <2>1. Content(i)' = File!Overwrite(old, o, bytes)
    BY <1>16, ContentIs
  <2> QED BY <1>2, <1>11, <1>17, <2>1 DEF Views, View
<1>19. ASSUME NEW x \in Inodes, x # i PROVE Views'[x] = Views[x]
  <2>1. lock'[x] = lock[x] /\ saved'[x] = saved[x]
    BY <1>1, <1>2, <1>3, <1>19
  <2>2. Keeps(fs, fs', x)
    BY <1>7, <1>9, <1>10, <1>19, SameKeeps
  <2>3. View(x)' = View(x)
    BY <2>1, <2>2, ViewKept
  <2> QED BY <2>3 DEF Views
<1>20. Views' = [Views EXCEPT ![i] = File!Overwrite(Views[i], o, bytes)]
  BY <1>2, <1>18, <1>19 DEF Views
<1>21. ftable' = SetOff(ftable, j, e)
  BY <1>1, <1>4, <1>6 DEF SetOff
<1>22. OffIs(ftable, ftable', j, e)
  BY <1>2, <1>3, <1>6, <1>21, SetOffIs
<1>23. /\ ftable'[j].off = e /\ \A h \in Opens : ftable'[h].ip = ftable[h].ip
       /\ \A h \in Opens \ {j} : ftable'[h] = ftable[h]
  BY <1>22 DEF OffIs
<1>24. Inos' = Inos /\ Inos[j] = i /\ Inos[j] # 0 /\ Offs[j] = o
  BY <1>1, <1>2, <1>23, FileAssumption DEF Inos, Offs
<1>25. Offs'[j] = e /\ Offs' = [Offs EXCEPT ![j] = e]
  BY <1>2, <1>23 DEF Offs
<1>26. /\ Offs[j] + Len(bytes) <= MAXFILE * BSIZE /\ Offs'[j] = Offs[j] + Len(bytes)
       /\ Offs' = [Offs EXCEPT ![j] = Offs[j] + Len(bytes)]
  BY <1>5, <1>6, <1>14, <1>24, <1>25
<1>27. Views' = [Views EXCEPT ![Inos[j]] = File!Overwrite(Views[Inos[j]], Offs[j], bytes)]
  BY <1>20, <1>24
<1> QED BY <1>2, <1>14, <1>24, <1>26, <1>27, SeeWrite

(* At first there are no bytes and no open files.                          *)
LEMMA SeenInit == Init => File!Init
<1> SUFFICES ASSUME Init PROVE File!Init
  OBVIOUS
<1>1. fs \in FileSys /\ Own(fs)
  BY InitInv, InvParts DEF Types
<1>2. ASSUME NEW i \in Inodes PROVE View(i) = <<>>
  <2>1. fs.size[i] = 0 /\ lock[i] = NoProc
    BY DEF Init
  <2>2. ContentIn(fs, i) = <<>>
    BY <1>1, <2>1, NoBytes
  <2> QED BY <2>1, <2>2, ContentIs DEF View
<1>3. Views = [i \in Inodes |-> <<>>]
  BY <1>2 DEF Views
<1>4. Inos = [j \in Opens |-> 0] /\ Offs = [j \in Opens |-> 0]
  BY DEF Init, NoFile, Inos, Offs
<1> QED BY <1>3, <1>4 DEF File!Init, Views, View, Inos, Offs

(* Every step of the system is a step of ByteFile, or none.                *)
LEMMA SeenNext ==
    ASSUME Inv, Inv', CopyInv, CopyInv', [Next]_vars
    PROVE  [File!Next]_(File!vars)
<1> SUFFICES File!Next \/ UNCHANGED File!vars
  OBVIOUS
<1>1. CASE UNCHANGED vars
  <2>1. fs' = fs /\ lock' = lock /\ saved' = saved /\ ftable' = ftable
    BY <1>1 DEF vars
  <2> QED BY <2>1, QuietStep
<1>2. ASSUME NEW p \in Procs, NEW i \in Inodes, sys_open(p, i) \/ sys_unlink(p, i)
      PROVE  File!Next \/ UNCHANGED File!vars
  BY <1>2, SeenOpen, SeenUnlink
<1>3. ASSUME NEW p \in Procs, NEW d \in Fds, sys_dup(p, d) \/ sys_close(p, d)
      PROVE  File!Next \/ UNCHANGED File!vars
  BY <1>3, SeenDup, SeenClose
<1>4. ASSUME NEW p \in Procs, NEW d \in Fds, NEW n \in Reads, fileread(p, d, n)
      PROVE  File!Next \/ UNCHANGED File!vars
  BY <1>4, SeenRead
<1>5. ASSUME NEW p \in Procs, NEW d \in Fds, NEW src \in Sources, filewrite(p, d, src)
      PROVE  File!Next \/ UNCHANGED File!vars
  <2>1. fs' = fs /\ lock' = lock /\ saved' = saved /\ ftable' = ftable
    BY <1>5 DEF filewrite
  <2> QED BY <2>1, QuietStep
<1>6. ASSUME NEW p \in Procs, NEW q \in Procs, fork(p, q)
      PROVE  File!Next \/ UNCHANGED File!vars
  BY <1>6, SeenFork
<1>7. ASSUME NEW p \in Procs, writei_begin(p) \/ writei_block(p) \/ writei_end(p)
      PROVE  File!Next \/ UNCHANGED File!vars
  BY <1>7, SeenBegin, SeenBlock, SeenEnd
<1> QED BY <1>1, <1>2, <1>3, <1>4, <1>5, <1>6, <1>7 DEF Next

(* Blocks, descriptors and open files implement ByteFile: a chunk of a     *)
(* write appears at once, whatever blocks it spans, whoever writes beside  *)
(* it and whichever blocks are reused.                                     *)
THEOREM Bytes == Spec => BytesInOrder
<1>1. Init => File!Init
  BY SeenInit
<1>2. (Inv /\ CopyInv) /\ (Inv /\ CopyInv)' /\ [Next]_vars => [File!Next]_(File!vars)
  BY SeenNext
<1> QED BY <1>1, <1>2, AlwaysCopy, PTL DEF Spec, BytesInOrder, File!Spec
-----------------------------------------------------------------------------
(***************************************************************************)
(* readi.  Its loop is a recursive function; that the bytes of the file    *)
(* solve its equation is shown directly, and that nothing else does by     *)
(* looking at the last turn at which two solutions would differ.           *)
(***************************************************************************)

(* The loop, as a function of what its later turns return.                 *)
Turns(i, off, len, f) ==
    [tot \in 0 .. len |->
        IF tot = len THEN <<>>
        ELSE LET o == off + tot
                 m == MinOf(len - tot, BSIZE - (o % BSIZE))
                 b == bmap(fs, i, o \div BSIZE).b
             IN [w \in 1 .. m |-> fs.data[b][(o % BSIZE) + w - 1]] \o f[tot + m]]
Loop(i, off, len) == CHOOSE f : f = Turns(i, off, len, f)

(* readi returns what its loop collects.                                   *)
LEMMA ReadiIs ==
    ASSUME NEW i, NEW off, NEW n
    PROVE  readi(i, off, n) = IF BadRange(i, off, n) THEN Error
                              ELSE Loop(i, off, CutOff(i, off, n))[0]
  BY DEF readi, Loop, Turns

(* What a turn copies, and how much.                                       *)
TurnSize(off, len, tot) == MinOf(len - tot, BSIZE - ((off + tot) % BSIZE))
TurnPiece(i, off, len, tot) ==
    [w \in 1 .. TurnSize(off, len, tot) |->
        fs.data[bmap(fs, i, (off + tot) \div BSIZE).b][((off + tot) % BSIZE) + w - 1]]

(* The loop ends when the range is copied.                                 *)
LEMMA TurnsEnd ==
    ASSUME NEW i, NEW off, NEW len, NEW f, NEW tot \in 0 .. len, tot = len
    PROVE  Turns(i, off, len, f)[tot] = <<>>
  BY DEF Turns

(* Before that a turn adds its piece to what the later turns return.       *)
LEMMA TurnsMore ==
    ASSUME NEW i, NEW off, NEW len, NEW f, NEW tot \in 0 .. len, tot # len
    PROVE  Turns(i, off, len, f)[tot] =
               TurnPiece(i, off, len, tot) \o f[tot + TurnSize(off, len, tot)]
<1>1. PICK m : m = TurnSize(off, len, tot)
  OBVIOUS
<1>2. Turns(i, off, len, f)[tot] =
          [w \in 1 .. m |-> fs.data[bmap(fs, i, (off + tot) \div BSIZE).b][((off + tot) % BSIZE) + w - 1]] \o f[tot + m]
  BY <1>1 DEF Turns, TurnSize
<1>3. TurnPiece(i, off, len, tot) =
          [w \in 1 .. m |-> fs.data[bmap(fs, i, (off + tot) \div BSIZE).b][((off + tot) % BSIZE) + w - 1]]
  BY <1>1 DEF TurnPiece
<1> QED BY <1>1, <1>2, <1>3

(* The same for all turns.                                                 *)
AddPieces(i, off, len) ==
    \A h : \A tot \in 0 .. len : tot # len =>
        Turns(i, off, len, h)[tot] = TurnPiece(i, off, len, tot) \o h[tot + TurnSize(off, len, tot)]

(* All turns add theirs.                                                   *)
LEMMA TurnsAll ==
    ASSUME NEW i, NEW off, NEW len
    PROVE  AddPieces(i, off, len)
<1>1. ASSUME NEW h, NEW tot \in 0 .. len, tot # len
      PROVE  Turns(i, off, len, h)[tot] = TurnPiece(i, off, len, tot) \o h[tot + TurnSize(off, len, tot)]
  BY <1>1, TurnsMore
<1> QED BY <1>1, Zenon DEF AddPieces

(* A turn copies something, and nothing beyond the range or the block.     *)
LEMMA TurnSizes ==
    ASSUME NEW off \in Nat, NEW len \in Nat, NEW tot \in 0 .. len, tot # len
    PROVE  /\ TurnSize(off, len, tot) \in Nat /\ TurnSize(off, len, tot) >= 1
           /\ tot + TurnSize(off, len, tot) \in 0 .. len
           /\ TurnSize(off, len, tot) <= BSIZE - ((off + tot) % BSIZE)
<1>1. off + tot \in Nat /\ len - tot \in Nat /\ len - tot >= 1
  OBVIOUS
<1>2. PICK r \in Words : r = (off + tot) % BSIZE
  BY <1>1, DivMod
<1>3. BSIZE \in Nat /\ r \in Nat /\ r < BSIZE
  BY <1>2, Basics DEF Words
<1> QED BY <1>1, <1>2, <1>3 DEF TurnSize, MinOf

(* The loop has one solution.                                              *)
LEMMA LoopOnce ==
    ASSUME NEW i, NEW off \in Nat, NEW len \in Nat, NEW g, g = Turns(i, off, len, g)
    PROVE  Loop(i, off, len) = g
<1>1. PICK f : f = Loop(i, off, len)
  OBVIOUS
<1>2. f = Turns(i, off, len, f)
  BY <1>1 DEF Loop
<1>3. /\ f = [tot \in 0 .. len |-> f[tot]] /\ g = [tot \in 0 .. len |-> g[tot]]
  <2>1. \A h : Turns(i, off, len, h) = [tot \in 0 .. len |-> Turns(i, off, len, h)[tot]]
    BY DEF Turns
  <2> QED BY <2>1, <1>2
<1>4. PICK D : D = {d \in Nat : d <= len /\ f[len - d] # g[len - d]}
  OBVIOUS
<1>5. D = {}
  <2>1. SUFFICES ASSUME D # {} PROVE FALSE
    OBVIOUS
  <2>2. D \subseteq Nat
    BY <1>4
  <2>3. PICK d \in D : \A e \in D : ~(<<e, d>> \in OpToRel(<, Nat))
    BY <2>1, <2>2, WFMin, NatLessThanWellFounded
  <2>4. d \in Nat /\ \A e \in D : ~(e < d)
    BY <2>2, <2>3 DEF OpToRel
  <2>5. PICK tot \in 0 .. len : tot = len - d /\ d = len - tot
    <3>1. d <= len
      BY <1>4, <2>3
    <3>2. len - d \in 0 .. len /\ d = len - (len - d)
      BY <2>4, <3>1
    <3> QED BY <3>2
  <2>6. f[tot] # g[tot]
    BY <1>4, <2>3, <2>5
  <2>7. tot # len
    BY <1>2, <2>6, TurnsEnd
  <2>8. PICK m \in Nat : m = TurnSize(off, len, tot) /\ m >= 1 /\ tot + m \in 0 .. len
    BY <2>7, TurnSizes
  <2>11. PICK t : t = tot + TurnSize(off, len, tot)
    OBVIOUS
  <2>9. f[t] = g[t]
    <3>0. t = tot + m
      BY <2>8, <2>11
    <3>1. PICK e \in Nat : e = len - (tot + m) /\ e <= len /\ e < d /\ len - e = tot + m
      BY <2>5, <2>8
    <3>2. e \notin D
      BY <2>4, <3>1
    <3> QED BY <3>0, <3>1, <3>2, <1>4
  <2>10. ASSUME NEW h PROVE Turns(i, off, len, h)[tot] = TurnPiece(i, off, len, tot) \o h[t]
    <3>1. Turns(i, off, len, h)[tot] = TurnPiece(i, off, len, tot) \o h[tot + TurnSize(off, len, tot)]
      BY <2>7, TurnsMore
    <3> QED BY <2>11, <3>1
  <2>12. f[tot] = TurnPiece(i, off, len, tot) \o f[t] /\ g[tot] = TurnPiece(i, off, len, tot) \o g[t]
    BY <1>2, <2>10
  <2> QED BY <2>6, <2>9, <2>12
<1>6. ASSUME NEW tot \in 0 .. len PROVE f[tot] = g[tot]
  <2>1. PICK d \in Nat : d = len - tot /\ d <= len /\ len - d = tot
    OBVIOUS
  <2> QED BY <2>1, <1>4, <1>5
<1>7. f = g
  BY <1>3, <1>6
<1> QED BY <1>1, <1>7

(* bmap allocates nothing where there is a block.                          *)
LEMMA BmapThere ==
    ASSUME NEW s \in FileSys, NEW i \in Inodes, NEW k \in Keys, k < MAXFILE, Loc(s, i, k) # 0
    PROVE  bmap(s, i, k).b = Loc(s, i, k)
<1>1. CASE k < NDIRECT
  <2>1. Loc(s, i, k) = s.addrs[i][k]
    BY <1>1, LocDirect
  <2> QED BY <1>1, <2>1 DEF bmap, WithAddr
<1>2. CASE ~(k < NDIRECT)
  <2>1. NDIRECT <= k
    BY <1>2, Basics DEF Keys
  <2>2. PICK a : a = s.addrs[i][NDIRECT]
    OBVIOUS
  <2>3. a # 0
    BY <2>1, <2>2, LocNone
  <2>4. Loc(s, i, k) = s.data[a][k - NDIRECT]
    BY <2>1, <2>2, <2>3, LocWord
  <2> QED BY <1>2, <2>2, <2>3, <2>4 DEF bmap, WithAddr
<1> QED BY <1>1, <1>2

(* n elements of a sequence after the first a.                             *)
Slice(c, a, n) == SubSeq(c, a + 1, a + n)

(* Its elements.                                                           *)
LEMMA SliceOf ==
    ASSUME NEW c \in Seq(Nat), NEW a \in Nat, NEW n \in Nat, a + n <= Len(c)
    PROVE  Slice(c, a, n) \in Seq(Nat) /\ Len(Slice(c, a, n)) = n /\ \A x \in 1 .. n : Slice(c, a, n)[x] = c[a + x]
<1>1. PICK b \in Nat \ {0} : b = a + 1 /\ b - 1 + n = a + n /\ \A x \in Nat : b + x - 1 = a + x
  OBVIOUS
<1>2. b - 1 + n <= Len(c)
  BY <1>1
<1>3. Part(SubSeq(c, b, b - 1 + n), c, b, n)
  BY <1>1, <1>2, PartOf
<1>4. PICK y : y = Slice(c, a, n)
  OBVIOUS
<1>5. Part(y, c, b, n)
  BY <1>1, <1>3, <1>4 DEF Slice
<1>6. y \in Seq(Nat) /\ Len(y) = n /\ \A x \in 1 .. n : y[x] = c[b + x - 1]
  BY <1>5 DEF Part
<1>7. \A x \in 1 .. n : y[x] = c[a + x]
  BY <1>1, <1>6
<1> QED BY <1>4, <1>6, <1>7

(* Two adjoining slices within a sequence.                                 *)
Adjoining(c, a, m, n) ==
    c \in Seq(Nat) /\ a \in Nat /\ m \in Nat /\ n \in Nat /\ a + m + n <= Len(c)
Joined(c, a, m, n) == Slice(c, a, m) \o Slice(c, a + m, n) = Slice(c, a, m + n)

(* They are one slice.                                                     *)
LEMMA SlicesJoin ==
    ASSUME NEW c, NEW a, NEW m, NEW n, Adjoining(c, a, m, n)
    PROVE  Joined(c, a, m, n)
<1>0. c \in Seq(Nat) /\ a \in Nat /\ m \in Nat /\ n \in Nat /\ a + m + n <= Len(c)
  BY DEF Adjoining
<1>1. a + m \in Nat /\ m + n \in Nat /\ a + m <= Len(c) /\ a + (m + n) <= Len(c) /\ (a + m) + n <= Len(c)
  <2>1. Len(c) \in Nat
    BY <1>0
  <2> QED BY <1>0, <2>1
<1>2. PICK x \in Seq(Nat) : x = Slice(c, a, m) /\ Len(x) = m /\ \A w \in 1 .. m : x[w] = c[a + w]
  BY <1>0, <1>1, SliceOf
<1>3. PICK y \in Seq(Nat) : y = Slice(c, a + m, n) /\ Len(y) = n /\ \A w \in 1 .. n : y[w] = c[a + m + w]
  BY <1>0, <1>1, SliceOf
<1>4. PICK u \in Seq(Nat) : u = Slice(c, a, m + n) /\ Len(u) = m + n /\ \A w \in 1 .. m + n : u[w] = c[a + w]
  BY <1>0, <1>1, SliceOf
<1>5. PICK v \in Seq(Nat) : /\ v = x \o y /\ Len(v) = m + n
                            /\ \A w \in 1 .. m + n : v[w] = IF w <= m THEN x[w] ELSE y[w - m]
  <2>1. PICK v : v = x \o y
    OBVIOUS
  <2>2. /\ v \in Seq(Nat) /\ Len(v) = Len(x) + Len(y)
        /\ \A w \in 1 .. Len(x) + Len(y) : v[w] = IF w <= Len(x) THEN x[w] ELSE y[w - Len(x)]
    BY <2>1, ConcatProperties
  <2>3. PICK p, q : p = Len(x) /\ q = Len(y)
    OBVIOUS
  <2>4. p = m /\ q = n
    BY <1>2, <1>3, <2>3
  <2>5. Len(v) = p + q /\ \A w \in 1 .. p + q : v[w] = IF w <= p THEN x[w] ELSE y[w - p]
    BY <2>2, <2>3, Zenon
  <2>6. Len(v) = m + n /\ \A w \in 1 .. m + n : v[w] = IF w <= m THEN x[w] ELSE y[w - m]
    BY <2>4, <2>5, Zenon
  <2> QED BY <2>1, <2>2, <2>6, Zenon
<1>6. ASSUME NEW w \in 1 .. m + n PROVE v[w] = u[w]
  <2>1. CASE w <= m
    <3>1. w \in 1 .. m
      BY <1>0, <2>1
    <3> QED BY <1>2, <1>4, <1>5, <2>1, <3>1
  <2>2. CASE ~(w <= m)
    <3>1. w - m \in 1 .. n /\ a + m + (w - m) = a + w
      BY <1>0, <2>2
    <3> QED BY <1>3, <1>4, <1>5, <2>2, <3>1
  <2> QED BY <2>1, <2>2
<1>7. v = u
  BY <1>4, <1>5, <1>6, SeqEqual
<1> QED BY <1>2, <1>3, <1>4, <1>5, <1>7 DEF Joined

(* The loop collects the bytes of its range.                               *)
LEMMA LoopReads ==
    ASSUME Inv, CopyInv, NEW i \in Inodes, NEW off \in Nat, NEW len \in Nat, off + len <= fs.size[i]
    PROVE  Loop(i, off, len)[0] = SubSeq(Content(i), off + 1, off + len)
<1>0. AddPieces(i, off, len)
  BY TurnsAll
<1>1. fs \in FileSys /\ Own(fs) /\ Backed(fs, i, fs.size[i])
  BY DEF Inv, Types, CopyInv, CopyAt
<1>2. PICK z \in Nat : z = fs.size[i] /\ z <= MAXFILE * BSIZE /\ MAXFILE * BSIZE \in Nat
  BY <1>1, Sizes
<1>3. PICK c \in Seq(Nat) : /\ c = Content(i) /\ Len(c) = z
                            /\ \A x \in 1 .. z : c[x] = Byte(fs, i, x - 1)
  BY <1>1, <1>2, ContentBytes, ContentIs
<1>4. PICK g : g = [tot \in 0 .. len |-> Slice(c, off + tot, len - tot)]
  OBVIOUS
<1>5. ASSUME NEW tot \in 0 .. len, tot # len
      PROVE  TurnPiece(i, off, len, tot) = Slice(c, off + tot, TurnSize(off, len, tot))
  <2>1. PICK m \in Nat : /\ m = TurnSize(off, len, tot) /\ m >= 1 /\ tot + m \in 0 .. len
                         /\ m <= BSIZE - ((off + tot) % BSIZE)
    BY <1>5, TurnSizes
  <2>2. PICK o \in Nat : o = off + tot /\ o + m <= z /\ o < z /\ o < MAXFILE * BSIZE /\ o \in 0 .. z - 1
    <3>1. m >= 1 /\ tot + m <= len
      BY <2>1
    <3>2. off + len <= z
      BY <1>2
    <3>3. PICK o \in Nat : o = off + tot
      OBVIOUS
    <3>4. o + m <= z /\ o < z /\ o \in 0 .. z - 1
      BY <3>1, <3>2, <3>3
    <3>5. PICK k \in Nat : k = MAXFILE * BSIZE /\ z <= k
      BY <1>2
    <3>6. o < k
      BY <3>4, <3>5
    <3> QED BY <3>3, <3>4, <3>5, <3>6
  <2>3. PICK k \in Keys : k = o \div BSIZE /\ k < MAXFILE
    BY <2>2, BlockFits
  <2>4. PICK b : b = Loc(fs, i, k) /\ b # 0
    BY <1>1, <1>2, <2>2, <2>3 DEF Backed
  <2>5. bmap(fs, i, k).b = b
    BY <1>1, <2>3, <2>4, BmapThere
  <2>6. PICK r \in Nat : r = o % BSIZE
    BY <2>2, DivMod DEF Words
  <2>7. TurnPiece(i, off, len, tot) = [w \in 1 .. m |-> fs.data[b][r + w - 1]]
    BY <2>1, <2>2, <2>3, <2>5, <2>6 DEF TurnPiece
  <2>8. ASSUME NEW w \in 1 .. m PROVE fs.data[b][r + w - 1] = c[o + w]
    <3>1. PICK y \in 0 .. m - 1 : y = w - 1
      OBVIOUS
    <3>2. o + w \in 1 .. z /\ o + w - 1 = o + y /\ r + w - 1 = r + y
      BY <3>1, <2>2, <2>6
    <3>3. (o + y) \div BSIZE = k /\ (o + y) % BSIZE = r + y
      BY <2>1, <2>2, <2>3, <2>6, SameBlock
    <3>4. Byte(fs, i, o + y) = fs.data[b][r + y]
      BY <2>4, <3>3 DEF Byte
    <3> QED BY <1>3, <3>2, <3>4
  <2>9. PICK u \in Seq(Nat) : u = Slice(c, o, m) /\ Len(u) = m /\ \A w \in 1 .. m : u[w] = c[o + w]
    BY <1>3, <2>2, SliceOf
  <2>10. u = [w \in 1 .. m |-> u[w]]
    BY <2>9
  <2>11. u = [w \in 1 .. m |-> fs.data[b][r + w - 1]]
    BY <2>8, <2>9, <2>10
  <2> QED BY <2>1, <2>2, <2>7, <2>9, <2>11
<1>6. ASSUME NEW tot \in 0 .. len
      PROVE  g[tot] = Turns(i, off, len, g)[tot]
  <2>1. g[tot] = Slice(c, off + tot, len - tot)
    BY <1>4
  <2>2. CASE tot = len
    <3>1. off + tot \in Nat /\ len - tot = 0 /\ off + tot + 0 <= Len(c)
      BY <2>2, <1>2, <1>3
    <3>2. g[tot] \in Seq(Nat) /\ Len(g[tot]) = 0
      BY <2>1, <3>1, SliceOf
    <3>3. g[tot] = <<>>
      BY <3>2
    <3> QED BY <2>2, <3>3, TurnsEnd
  <2>3. CASE tot # len
    <3>1. PICK m \in Nat : m = TurnSize(off, len, tot) /\ tot + m \in 0 .. len
      BY <2>3, TurnSizes
    <3>2. PICK a \in Nat, n \in Nat, t \in 0 .. len :
              /\ a = off + tot /\ n = len - (tot + m) /\ t = tot + m /\ a + m + n <= Len(c)
              /\ off + t = a + m /\ len - t = n /\ len - tot = m + n
      <4>1. PICK t \in 0 .. len : t = tot + m
        BY <3>1
      <4>2. PICK a \in Nat : a = off + tot
        OBVIOUS
      <4>3. PICK n \in Nat : n = len - t
        BY <4>1
      <4>4. off + t = a + m /\ len - tot = m + n
        BY <4>1, <4>2, <4>3
      <4>5. PICK l \in Nat : l = Len(c) /\ off + len <= l
        BY <1>2, <1>3
      <4>6. a + m + n <= l
        BY <4>1, <4>3, <4>4, <4>5
      <4>7. n = len - (tot + m)
        BY <4>1, <4>3
      <4> QED BY <4>1, <4>2, <4>3, <4>4, <4>5, <4>6, <4>7
    <3>3. g[t] = Slice(c, a + m, n)
      BY <1>4, <3>2
    <3>4. Slice(c, a, m) \o Slice(c, a + m, n) = Slice(c, a, m + n)
      <4>1. Adjoining(c, a, m, n)
        BY <1>3, <3>2 DEF Adjoining
      <4>2. Joined(c, a, m, n)
        BY <4>1, SlicesJoin
      <4> QED BY <4>2 DEF Joined
    <3>5. TurnPiece(i, off, len, tot) = Slice(c, a, m)
      BY <1>5, <2>3, <3>1, <3>2
    <3>7. g[tot + TurnSize(off, len, tot)] = g[t]
      BY <3>1, <3>2
    <3>6. Turns(i, off, len, g)[tot] = TurnPiece(i, off, len, tot) \o g[tot + TurnSize(off, len, tot)]
      BY <1>0, <2>3, Zenon DEF AddPieces
    <3> QED BY <2>1, <3>2, <3>3, <3>4, <3>5, <3>7, <3>6
  <2> QED BY <2>2, <2>3
<1>7. g = Turns(i, off, len, g)
  <2>1. Turns(i, off, len, g) = [tot \in 0 .. len |-> Turns(i, off, len, g)[tot]]
    BY DEF Turns
  <2>2. g = [tot \in 0 .. len |-> g[tot]]
    BY <1>4
  <2> QED BY <2>1, <2>2, <1>6
<1>8. Loop(i, off, len) = g
  BY <1>7, LoopOnce
<1>9. 0 \in 0 .. len /\ off + 0 = off /\ len - 0 = len
  OBVIOUS
<1>10. g[0] = Slice(c, off, len)
  BY <1>4, <1>9
<1> QED BY <1>3, <1>8, <1>10 DEF Slice

(* readi returns the bytes of the file in its range, whatever blocks they  *)
(* are in, for every offset and count, and refuses a range that starts     *)
(* beyond the end of the file or wraps around.                             *)
THEOREM Ranges == Spec => []ReadsRange
<1>1. ASSUME Inv, CopyInv PROVE ReadsRange
  <2>1. SUFFICES ASSUME NEW i \in Inodes, NEW off \in 0 .. UINT - 1, NEW n \in 0 .. UINT - 1
                 PROVE  readi(i, off, n) =
                            IF off > fs.size[i] \/ off + n \geq UINT THEN Error
                            ELSE SubSeq(Content(i), off + 1, MinOf(off + n, fs.size[i]))
    BY DEF ReadsRange
  <2>2. fs \in FileSys
    BY <1>1 DEF Inv, Types
  <2>3. PICK z \in Nat : z = fs.size[i] /\ z < UINT
    BY <2>2, Sizes
  <2>4. UINT \in Nat /\ UINT > 0 /\ off \in Nat /\ off < UINT /\ n \in Nat /\ n < UINT
    BY Basics
  <2>5. CASE off + n >= UINT
    <3>1. off + n - UINT \in 0 .. UINT - 1
      BY <2>4, <2>5
    <3>2. (off + n) % UINT = off + n - UINT
      BY <2>4, <3>1
    <3>3. BadRange(i, off, n)
      BY <2>4, <3>2 DEF BadRange
    <3> QED BY <2>5, <3>3, ReadiIs
  <2>6. CASE ~(off + n >= UINT) /\ off > z
    BY <2>3, <2>6, ReadiIs DEF BadRange
  <2>7. CASE ~(off + n >= UINT) /\ ~(off > z)
    <3>1. (off + n) % UINT = off + n
      BY <2>4, <2>7
    <3>2. ~BadRange(i, off, n)
      BY <2>3, <2>4, <2>7, <3>1 DEF BadRange
    <3>3. PICK len \in Nat : len = CutOff(i, off, n) /\ off + len = MinOf(off + n, z) /\ off + len <= z
      BY <2>3, <2>4, <2>7, <3>1 DEF CutOff, MinOf
    <3>4. readi(i, off, n) = Loop(i, off, len)[0]
      BY <3>2, <3>3, ReadiIs
    <3>5. Loop(i, off, len)[0] = SubSeq(Content(i), off + 1, off + len)
      BY <1>1, <2>3, <2>4, <3>3, LoopReads
    <3> QED BY <2>3, <2>7, <3>3, <3>4, <3>5
  <2> QED BY <2>3, <2>5, <2>6, <2>7
<1>2. Inv /\ CopyInv => ReadsRange
  BY <1>1
<1> QED BY <1>2, AlwaysCopy, PTL
=============================================================================
