---------------------------- MODULE MCGeneration ----------------------------
(***************************************************************************)
(* Instances of Generation for TLC.  The bytes are a, its upper case A, b  *)
(* and the star.                                                           *)
(***************************************************************************)
EXTENDS Generation

MCLower == [b \in {"a", "A", "b", "*"} |-> IF b = "A" THEN "a" ELSE b]

\* Two keys that one selector covers only when case is folded.
TwoKeys == {<<"a">>, <<"A", "b">>}

\* A key that ends in a star and the keys the star would cover, in the case
\* that rules of selectors do not keep.
StarKeys == {<<"A", "*">>, <<"A">>}

\* Exact keys and prefix selectors, one selector for the whole namespace.
TwoTexts == TwoKeys \cup {<<"a", "*">>, <<"A", "*">>, <<"*">>}
StarTexts == {<<"A">>, <<"A", "*">>, <<"A", "*", "*">>}
=============================================================================
