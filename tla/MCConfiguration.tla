--------------------------- MODULE MCConfiguration --------------------------
(* An instance of Configuration for TLC. *)
EXTENDS Configuration

MCOrder == <<"fastcgi", "proxy", "scgi", "uwsgi">>

\* Main settings that differ from one set of them in a few; Trees has all the blocks.
Default == [background |-> TRUE, capacity |-> 1, caches |-> {"a"}, temporary |-> "t",
            namespace |-> [ns \in Namespaces |-> [size |-> 1, path |-> "s"]]]
Without == [ns \in Namespaces |-> Null]
Trees == [Default EXCEPT !.temporary = "v"]
MCFiles ==
    {Default, Trees,
     [Default EXCEPT !.background = FALSE],
     [Default EXCEPT !.background = FALSE, !.namespace = Without],
     [Default EXCEPT !.namespace = Without],
     [Default EXCEPT !.namespace = [ns \in Namespaces |-> [size |-> 2, path |-> "s"]]],
     [Default EXCEPT !.namespace = [ns \in Namespaces |-> [size |-> 1, path |-> "r"]]],
     [Default EXCEPT !.capacity = 0],
     [Default EXCEPT !.capacity = 2],
     [Default EXCEPT !.capacity = 4],
     [Default EXCEPT !.caches = {"b"}],
     [Default EXCEPT !.caches = {"a", "b"}, !.temporary = "u"]}

Own(content, purge) ==
    [content |-> content, purge |-> purge, key |-> Null, profile |-> FALSE,
     status |-> IF content = Status THEN "a" ELSE Null]
Purges(values) == [Protocols -> values]
NoPurge == [p \in Protocols |-> Unset]

\* A location: a handler with any purge directives, and what goes with REFRESH
\* and conflicts with a status endpoint.
Location ==
    {Own(h, v) : h \in Handlers, v \in Purges({Unset, "on", "off"})}
      \cup {[Own(RefreshEndpoint, v) EXCEPT !.key = "ns", !.profile = b] :
               v \in Purges({Unset, "on", "off"}), b \in BOOLEAN}
      \cup {[Own(Is("purge", Proxy), NoPurge) EXCEPT !.status = "b"]}
All ==
    [http         |-> {Own(NoHandler, v) : v \in Purges({Unset, "on"})},
     server       |-> {Own(NoHandler, v) : v \in Purges({Unset, "on", "off"})},
     location     |-> Location,
     nested       |-> Location,
     if           |-> {Own(NoHandler, NoPurge)}
                        \cup {Own(Is("pass", p), NoPurge) : p \in Protocols},
     limit_except |-> {Own(NoHandler, NoPurge)}]

\* In the other files, a location that passes or is a status endpoint.
Few ==
    [http         |-> {Own(NoHandler, NoPurge)},
     server       |-> {Own(NoHandler, NoPurge)},
     location     |-> {Own(Is("pass", Proxy), NoPurge), Own(Status, NoPurge)},
     nested       |-> {}, if |-> {}, limit_except |-> {}]
MCBlocks(f, kind) == IF f = Trees THEN All[kind] ELSE Few[kind]

\* What is explored: every tree of blocks at the first start, and every reload of
\* the others while at most two configurations drain.
Scenario ==
    /\ Cardinality(draining) <= 2
    /\ file = Trees => running = Null
=============================================================================
