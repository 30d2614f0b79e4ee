----------------------------- MODULE WorkingSet -----------------------------
(***************************************************************************)
(* getpgtable (vm.c): the entries of the page table of a process, or of    *)
(* those of its pages that are in the clock queue, from the highest page   *)
(* down.  A query changes nothing as long as the page of pt_entries, which *)
(* it fills, is decrypted: this is the case modelled.                      *)
(***************************************************************************)
EXTENDS ClockVm, Sequences, FiniteSetsExt

\* Mutant: the last entry of the queue is not looked at.
AllButLast(v) == \E j \in 0 .. inClock - 2 : nodes[j] = v

InQueue(v) == \E j \in 0 .. inClock - 1 : nodes[j] = v

Shown(v, wsetOnly) == wsetOnly = 0 \/ InQueue(v)

\* The highest page, whether or not sz is on a page boundary.
Top == PgUp(sz) - 1

Ends(v, i, num) == v = 0 \/ i = num

PtEntry(v) == [page |-> v, present |-> "P" \in pte[v], encrypted |-> "E" \in pte[v],
               ref |-> "A" \in pte[v]]

\* The walk has gone below address 0.
OffTheEnd == [page |-> -1]

\* What the turn of the loop at page v adds to pt_entries.
Listed(v, wsetOnly) == IF Shown(v, wsetOnly) THEN <<PtEntry(v)>> ELSE <<>>

\* A turn is at page v with i entries filled: continue skips the test of the loop's end.
getpgtable(num, wsetOnly) ==
    LET walk[at \in (-1 .. MaxPages - 1) \X Nat] ==
            LET v == at[1]
                i == at[2]
                n == i + Len(Listed(v, wsetOnly))
            IN  IF v = -1 THEN <<OffTheEnd>>
                ELSE IF ~User(pte[v]) \/ ~Mapped(pte[v]) THEN walk[<<v - 1, i>>]
                ELSE IF Ends(v, n, num) THEN Listed(v, wsetOnly)
                ELSE Listed(v, wsetOnly) \o walk[<<v - 1, n>>]
    IN  walk[<<Top, 0>>]

\* The calls a program can make: its first page is there, and a page for pt_entries.
CanAsk == Running /\ User(pte[0]) /\ Mapped(pte[0]) /\ Decrypted # {}

PagesIn(entries) == {entries[i].page : i \in 1 .. Len(entries)}

(***************************************************************************)
(* What getpgtable reports of the working set contains every page that is  *)
(* in RAM in the clear, each page once and no more than CLOCKSIZE of them, *)
(* and a caller with less room gets the first num of the same entries; the *)
(* whole table is every user page below sz.  None of this takes the walk   *)
(* below address 0.                                                        *)
(***************************************************************************)
WorkingSetReported == CanAsk =>
    LET set == getpgtable(MaxPages, 1)
        table == getpgtable(MaxPages, 0)
    IN  /\ Decrypted \subseteq PagesIn(set)
        /\ Len(set) = Cardinality(PagesIn(set)) /\ Len(set) \leq CLOCKSIZE
        /\ PagesIn(set) \subseteq PagesIn(table)
        /\ PagesIn(table) = {v \in Pages : v * PGSIZE < sz /\ User(pte[v])}
        /\ \A num \in 1 .. MaxPages :
              getpgtable(num, 1) = SubSeq(set, 1, Min({num, Len(set)}))
=============================================================================
