------------------------------ MODULE MCRefresh ------------------------------
(* Instances of Refresh for TLC. *)
EXTENDS Refresh

CONSTANTS c1, c2, s1, s2

\* What is explored: one client follows the cursor while others change the
\* directory, or two clients read one and two pages of one entry on workers that
\* die.
Scenario ==
    \/ /\ \A s \in Slots : worker[s] = "up"
       /\ pages[c2] = 0
       /\ job[c1].at # s2
    \/ changes = 0 /\ files \subseteq {1} /\ pages[c1] <= 2 /\ pages[c2] <= 1
=============================================================================
