---------------------------- MODULE MCPurgeQueue ----------------------------
(* Instances of PurgeQueue for TLC. *)
EXTENDS PurgeQueue, TLC

CONSTANTS k1, k2, k3, f1, f2, c1, c2, c3, p1, p2, p3, s1, s2

\* Every selector covers every file, as overlapping prefixes and a full purge do.
AllMatch == [k \in Keys |-> Files]
NoneProtected == [c \in Confs |-> {}]
AllConfigured == [c \in Confs |-> Keys]

\* A reload that protects the first file, and one that drops the namespaces.
ReloadProtected == (c1 :> {}) @@ (c2 :> {f1}) @@ (c3 :> {})
ReloadConfigured == (c1 :> Keys) @@ (c2 :> Keys) @@ (c3 :> {})

Symmetry == Permutations(Keys) \cup Permutations(Pids) \cup Permutations(Slots)
=============================================================================
