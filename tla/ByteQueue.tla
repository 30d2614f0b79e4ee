----------------------------- MODULE ByteQueue -----------------------------
(***************************************************************************)
(* What a pipe promises: a first-in first-out queue of at most Capacity    *)
(* bytes, from which nothing is lost, duplicated or reordered.             *)
(***************************************************************************)
EXTENDS Naturals, Sequences

CONSTANTS Bytes, Capacity

VARIABLE q

Init == q = <<>>

Put(x) ==
    /\ Len(q) < Capacity
    /\ q' = Append(q, x)

Get ==
    /\ q # <<>>
    /\ q' = Tail(q)

Next == (\E x \in Bytes : Put(x)) \/ Get

Spec == Init /\ [][Next]_q
=============================================================================
