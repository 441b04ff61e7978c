---------------------------- MODULE MCExactPurge ----------------------------
(* Instances of ExactPurge for TLC. *)
EXTENDS ExactPurge, TLC

CONSTANTS p1, p2, n1, n2

Symmetry == Permutations(Purgers) \cup Permutations(Nodes)

\* Nothing but a walk or the loader has to do with n, and they come to n before
\* they come to other entries.
Unused(n) ==
    /\ file[n] = 0 /\ ~exists[n] /\ storing[n] = 0 /\ evicting[n] = "no" /\ n \notin met
    /\ \A p \in Purgers : /\ n \notin {req[p].target, req[p].at}
                          /\ \A x \in req[p].old : x[1] # n
                          /\ n \in req[p].todo => req[p].todo = Nodes
    /\ \A x \in lost \cup promised : x[2] # n
    /\ loading[n] = "todo" => \A m \in Nodes : loading[m] = "todo"

\* What is explored: purges of one entry race a store and two faults, or purges
\* of an entry and its variant race everything else with one fault.
Scenario ==
    \/ \E n \in Nodes : Unused(n)
    \/ stores = 0 /\ faults <= 1
=============================================================================
