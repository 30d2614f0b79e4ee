------------------------------ MODULE ByteFile ------------------------------
(***************************************************************************)
(* What open files promise: a file is a sequence of bytes without holes,   *)
(* every open file has an offset, shared by the descriptors that stand for *)
(* it, a write puts its bytes at the offset at once and a read moves it    *)
(* over what is there.                                                     *)
(***************************************************************************)
EXTENDS Integers, Sequences

CONSTANTS
    Inodes,    \* files
    Opens,     \* open file structures
    Writes,    \* sequences of bytes that are written in one go
    MaxFile    \* longest file

VARIABLES
    content,   \* the bytes of each file
    ino,       \* the file of each open file structure, or 0
    off        \* its offset

vars == <<content, ino, off>>

Init ==
    /\ content = [f \in Inodes |-> <<>>]
    /\ ino = [j \in Opens |-> 0]
    /\ off = [j \in Opens |-> 0]

Overwrite(s, o, bytes) ==
    [i \in 1 .. (IF o + Len(bytes) > Len(s) THEN o + Len(bytes) ELSE Len(s)) |->
        IF o < i /\ i \leq o + Len(bytes) THEN bytes[i - o] ELSE s[i]]

Open(j, f) ==
    /\ ino[j] = 0
    /\ ino' = [ino EXCEPT ![j] = f]
    /\ off' = [off EXCEPT ![j] = 0]
    /\ UNCHANGED content

Write(j, bytes) ==
    /\ ino[j] # 0 /\ off[j] + Len(bytes) \leq MaxFile
    /\ off'[j] = off[j] + Len(bytes)
    /\ off' = [off EXCEPT ![j] = @ + Len(bytes)]
    /\ content' = [content EXCEPT ![ino[j]] = Overwrite(@, off[j], bytes)]
    /\ UNCHANGED ino

Read(j) ==
    /\ ino[j] # 0
    /\ off'[j] \in off[j] .. Len(content[ino[j]])
    /\ off' = [off EXCEPT ![j] = off'[j]]
    /\ UNCHANGED <<content, ino>>

(* The bytes of a file go when it has neither a name nor an open file.     *)
Closed(f) == \A j \in Opens : ino'[j] # f

Remove(f) ==
    /\ Closed(f)
    /\ content'[f] = <<>>
    /\ content' = [content EXCEPT ![f] = <<>>]

Close(j) ==
    /\ ino[j] # 0 /\ ino'[j] = 0
    /\ ino' = [ino EXCEPT ![j] = 0]
    /\ off' = [off EXCEPT ![j] = 0]
    /\ Remove(ino[j]) \/ UNCHANGED content

Unlink(f) ==
    /\ content[f] # <<>>
    /\ UNCHANGED <<ino, off>>
    /\ Remove(f)

Next ==
    \/ \E j \in Opens : \/ \E f \in Inodes : Open(j, f)
                        \/ \E bytes \in Writes : Write(j, bytes)
                        \/ Read(j) \/ Close(j)
    \/ \E f \in Inodes : Unlink(f)

Spec == Init /\ [][Next]_vars
=============================================================================
