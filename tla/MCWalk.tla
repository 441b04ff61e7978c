------------------------------- MODULE MCWalk -------------------------------
(***************************************************************************)
(* Instances of Walk for TLC.  The root is /c; a is the name of a          *)
(* directory, f of a cache file, t of another file.                        *)
(***************************************************************************)
EXTENDS Walk

MCBytes == {"/", "a", "b", "c", "d", "f", "t"}
MCRoot == <<"/", "c">>
A == <<"a">>
AB == <<"a", "b">>
F == <<"f">>
T == <<"t">>

MCNames == {A, AB, F, T}
OneCacheName == {F}

\* One protected directory, named with a separator at its end, next to one
\* whose name only begins like it; one outside the root.
MCProtected == {<<"/", "c", "/", "a", "/">>, <<"/", "d">>}

\* Files in the root and in both directories.
TwoDirs == [p \in {<<A>>, <<AB>>, <<F>>, <<A, F>>, <<AB, F>>} |->
               IF Last(p) = F THEN "file" ELSE "dir"]

\* Three levels, a file of another name and a link.
Deep == [p \in {<<AB>>, <<AB, AB>>, <<AB, AB, F>>, <<AB, F>>, <<T>>, <<F>>} |->
            IF p = <<AB, F>> THEN "link" ELSE IF Last(p) \in {F, T} THEN "file" ELSE "dir"]

MCTrees == {TwoDirs, Deep}
=============================================================================
