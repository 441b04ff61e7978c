------------------------------ MODULE TaskLists ------------------------------
(***************************************************************************)
(* The pending and active task lists of the purge queue (ngx_queue_t       *)
(* rings), as sequences without repetition, and what the code does to      *)
(* them: take an element out, move the head to the tail, pick a sublist.   *)
(***************************************************************************)
EXTENDS Integers, Sequences, FiniteSets, Functions

\* The list q without element k.
Without(q, k) ==
    LET i == CHOOSE i \in DOMAIN q : q[i] = k
    IN  SubSeq(q, 1, i - 1) \o SubSeq(q, i + 1, Len(q))

\* The list q after its first n entries moved to the tail, one at a time.
Rotated(q, n) == SubSeq(q, n + 1, Len(q)) \o SubSeq(q, 1, n)

\* The list q without its first n entries.
Dropped(q, n) == SubSeq(q, n + 1, Len(q))

\* The first n entries of q.
Leading(q, n) == {q[i] : i \in 1..n}

\* The sequences that list the members of S once each, in the order of q.
InOrder(S, q) ==
    {s \in [1..Cardinality(S) -> S] :
        /\ Range(s) = S
        /\ \E at \in [DOMAIN s -> DOMAIN q] :
              /\ \A i \in DOMAIN s : q[at[i]] = s[i]
              /\ \A i, j \in DOMAIN s : i < j => at[i] < at[j]}

Smaller(m, n) == IF m <= n THEN m ELSE n
==============================================================================
