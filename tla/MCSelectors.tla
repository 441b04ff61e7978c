----------------------------- MODULE MCSelectors -----------------------------
(***************************************************************************)
(* An instance of Selectors for TLC.  The bytes are a, its upper case A,   *)
(* the star and the newline; the namespaces are called a and A.            *)
(***************************************************************************)
EXTENDS Selectors

MCLower == [b \in {"a", "A", "*", "n"} |-> IF b = "A" THEN "a" ELSE b]
Words(bytes, len) == UNION {[1..l -> bytes] : l \in 0..len}

MCNamespaces == {<<"a">>, <<"A">>}

\* Every key that is one byte longer than the longest limit, and shorter.
MCKeys == Words({"a", "*"}, 4) \cup Words({"a", "A", "*"}, 2) \cup {<<"n", "*">>}
MCStored == Words({"a", "A"}, 3) \cup {<<"a", "n">>, <<"a", "n", "a">>, <<"n", "a">>}
=============================================================================
