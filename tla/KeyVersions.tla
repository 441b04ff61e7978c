----------------------------- MODULE KeyVersions -----------------------------
(***************************************************************************)
(* What the namespace generations promise.  Every logical cache key has a  *)
(* version, which is part of the key its responses are stored under.  An   *)
(* invalidation gives every key it covers a version the key never had, so  *)
(* that nothing stored before, and nothing stored late under an old        *)
(* version, is ever found again; it leaves the other keys their versions,  *)
(* unless it has to cover the whole namespace.                             *)
(***************************************************************************)
EXTENDS Naturals

CONSTANTS
    Keys,        \* logical cache keys of a namespace
    Selections   \* the sets of keys one selector may cover

VARIABLES
    version,     \* version[k]: what a response for k is stored under now
    used,        \* used[k]: versions k has had
    accepted     \* accepted[k]: invalidations accepted that cover k

vars == <<version, used, accepted>>

Init ==
    /\ used = [k \in Keys |-> {version[k]}]
    /\ accepted = [k \in Keys |-> 0]

\* Give the keys in S versions they never had.
Renew(S) ==
    /\ \A k \in S : version'[k] \notin used[k]
    /\ \A k \in Keys \ S : version'[k] = version[k] /\ used'[k] = used[k]
    /\ \A k \in Keys : used[k] \cup {version'[k]} \subseteq used'[k]

\* Accept an invalidation of the keys in S: it renews them, or everything.
Invalidate(S) ==
    /\ Renew(S) \/ Renew(Keys)
    /\ accepted' = [k \in Keys |-> IF k \in S THEN accepted[k] + 1 ELSE accepted[k]]

\* A restart renews everything.
Restart == Renew(Keys) /\ UNCHANGED accepted

Next == (\E S \in Selections \cup {Keys} : Invalidate(S)) \/ Restart

Spec == Init /\ [][Next]_vars
==============================================================================
