------------------------------ MODULE Selectors ------------------------------
(***************************************************************************)
(* The way of a selector: from the key and the location of a PURGE request *)
(* (dispatch), through the task it becomes or joins (enqueue), to the test *)
(* each cache file meets (delete_file).  Every stage has its own limit on  *)
(* the length of a key, and several requests share a task if they have the *)
(* same index key.                                                         *)
(***************************************************************************)
EXTENDS Naturals, SequencesExt

CONSTANTS
    Star, LF,    \* the bytes * and newline
    Lower,       \* Lower[b]: ngx_tolower, for every byte there is
    KeyMax,      \* NGX_CACHE_PURGE_KEY_MAX_LEN (512)
    LogicalMax,  \* NGX_CACHE_PURGE_LOGICAL_KEY_MAX (8096)
    Namespaces,  \* names of namespaces, sequences of bytes
    Keys,        \* keys of PURGE requests
    Stored,      \* keys of cache files
    None

ASSUME SelectorsAssumption ==
    /\ {Star, LF} \subseteq DOMAIN Lower
    /\ Keys \cup Stored \cup Namespaces \subseteq Seq(DOMAIN Lower)
    /\ \A ns \in Namespaces : Len(ns) \in 1..KeyMax /\ Star \notin ToSet(ns)
    /\ KeyMax \in Nat \ {0}

VARIABLES
    stage,       \* how far the request has come
    conf, key,   \* its location and its key
    task,        \* index key of the task it became
    joined,      \* a request that was coalesced with it, or Null
    context,     \* what the walk looks for
    deleted      \* cache files the walk deleted

selectorsVars == <<stage, conf, key, task, joined, context, deleted>>

\* A location: its namespace or Null, purge_all, and the two flags of main.
Locations == [ns : Namespaces \cup {None}, all : BOOLEAN,
              background : BOOLEAN, vary : BOOLEAN]

\* A cache file: its key, and the namespace in which it is stale, or Null.
Entries == [key : Stored, stale : Namespaces \cup {None}]

Lowered(s) == [i \in DOMAIN s |-> Lower[s[i]]]

-----------------------------------------------------------------------------
(* ngx_http_cache_purge_dispatch *)

IsPartial(k) == k # <<>> /\ Last(k) = Star

\* Fault: one byte more for exact keys with variants.
TooLongMutant(c, k) ==
    \/ c.ns # None /\ Len(k) > LogicalMax
    \/ c.ns = None /\ ~c.all /\ (IsPartial(k) \/ c.vary) /\ Len(k) > KeyMax

\* A key that later stages could not hold.
TooLong(c, k) ==
    \/ c.ns # None /\ Len(k) > LogicalMax
    \/ /\ c.ns = None /\ ~c.all
       /\ \/ IsPartial(k) /\ Len(k) > KeyMax
          \/ ~IsPartial(k) /\ c.vary /\ Len(k) >= KeyMax

Queued(c, k) == c.ns # None \/ (c.background /\ (c.all \/ IsPartial(k)))

Route(c, k) ==
    CASE TooLong(c, k) -> "refused"
      [] ~TooLong(c, k) /\ Queued(c, k) -> "queue"
      [] ~TooLong(c, k) /\ ~Queued(c, k) /\ c.all -> "all"
      [] ~TooLong(c, k) /\ ~Queued(c, k) /\ ~c.all /\ IsPartial(k) -> "partial"
      [] OTHER -> "exact"

-----------------------------------------------------------------------------
(* ngx_http_cache_purge_enqueue *)

\* Fault: the limit counts the star as if the walk kept it.
DeclinedMutant(c, k) ==
    IF c.ns = None THEN ~c.all /\ Len(k) >= KeyMax ELSE Len(k) > LogicalMax

\* NGX_DECLINED: the key does not fit into a task.
Declined(c, k) ==
    IF c.ns = None THEN ~c.all /\ Len(k) > KeyMax ELSE Len(k) > LogicalMax

\* Fault: names of namespaces are compared like selectors, without case.
IndexMutant(c, k) ==
    IF c.ns # None THEN <<"G">> \o Lowered(c.ns) ELSE <<"L">> \o (IF c.all THEN <<>> ELSE k)

\* Fault: the key of a request for everything is not left out.
IndexAllMutant(c, k) == IF c.ns # None THEN <<"G">> \o c.ns ELSE <<"L">> \o k

\* Tasks of a namespace and of a selector have names that differ.
Index(c, k) ==
    IF c.ns # None THEN <<"G">> \o c.ns ELSE <<"L">> \o (IF c.all THEN <<>> ELSE k)

-----------------------------------------------------------------------------
(* The walk *)

WithoutStar(s) == IF s # <<>> /\ Last(s) = Star THEN Front(s) ELSE s

\* What a worker makes of the index key of a task it claims.
ClaimedContext(index) ==
    IF Head(index) = "G"
    THEN [key |-> <<>>, exact |-> FALSE, ns |-> Tail(index)]
    ELSE [key |-> WithoutStar(Tail(index)), exact |-> FALSE, ns |-> None]

\* What a request that walks itself looks for.
OwnContext(route, k) ==
    [key   |-> IF route = "all" THEN <<>> ELSE IF route = "partial" THEN Front(k) ELSE k,
     exact |-> route = "exact",
     ns    |-> None]

\* Fault: an exact key may go on after its end.
KeyMatchesMutant(x, buffer) == Lowered(SubSeq(buffer, 1, Len(x.key))) = Lowered(x.key)

\* The bytes of a file, from its key to the newline, begin with the selector.
KeyMatches(x, buffer) ==
    IF x.exact
    THEN IsPrefix(x.key \o <<LF>>, buffer)
    ELSE Lowered(SubSeq(buffer, 1, Len(x.key))) = Lowered(x.key)

\* delete_file: the file e is deleted.
Deletes(x, e) ==
    LET buffer == e.key \o <<LF>>
    IN  /\ Len(x.key) < KeyMax
        /\ x.exact => x.key # <<>>
        /\ Len(buffer) >= Len(x.key) + (IF x.exact THEN 1 ELSE 0)
        /\ x.ns # None => e.stale = x.ns
        /\ KeyMatches(x, buffer)

-----------------------------------------------------------------------------

SelectorsInit ==
    /\ stage = "new"
    /\ conf \in Locations /\ key \in Keys
    /\ task = None /\ joined = None /\ context = None
    /\ deleted = {}

Dispatch ==
    /\ stage = "new"
    /\ stage' = Route(conf, key)
    /\ UNCHANGED <<conf, key, task, joined, context, deleted>>

Enqueue ==
    /\ stage = "queue"
    /\ \/ /\ Declined(conf, key)
          /\ stage' = "declined" /\ UNCHANGED task
       \/ /\ ~Declined(conf, key)
          /\ stage' = "waiting" /\ task' = Index(conf, key)
    /\ UNCHANGED <<conf, key, joined, context, deleted>>

\* Another request finds the task in the index.
Join(c, k) ==
    /\ stage = "waiting" /\ joined = None
    /\ Route(c, k) = "queue" /\ ~Declined(c, k)
    /\ Index(c, k) = task
    /\ joined' = [conf |-> c, key |-> k]
    /\ UNCHANGED <<stage, conf, key, task, context, deleted>>

\* A worker claims the task; its namespace may be gone since a reload.
Claim ==
    /\ stage = "waiting"
    /\ context' = ClaimedContext(task)
    /\ \/ stage' = "walk"
       \/ context'.ns # None /\ stage' = "dropped"
    /\ UNCHANGED <<conf, key, task, joined, deleted>>

\* The request walks the directory itself; an exact purge does so for the
\* variants of its key.
Begin ==
    /\ stage \in {"all", "partial", "exact"}
    /\ context' = OwnContext(stage, key)
    /\ stage' = IF stage = "exact" /\ (~conf.vary \/ key = <<>>) THEN "native" ELSE "walk"
    /\ UNCHANGED <<conf, key, task, joined, deleted>>

Walk ==
    /\ stage = "walk"
    /\ deleted' = {e \in Entries : Deletes(context, e)}
    /\ stage' = "done"
    /\ UNCHANGED <<conf, key, task, joined, context>>

SelectorsNext ==
    \/ Dispatch \/ Enqueue \/ Claim \/ Begin \/ Walk
    \/ \E c \in Locations, k \in Keys : Join(c, k)

SelectorsSpec == SelectorsInit /\ [][SelectorsNext]_selectorsVars

-----------------------------------------------------------------------------
(* Properties *)

\* The files a request is about, in the words of the documentation: those
\* that its namespace has invalidated, all, those that begin with the key
\* whatever the case, those that have the key.
Meant(c, k) ==
    {e \in Entries :
        IF c.ns # None THEN e.stale = c.ns
        ELSE c.all \/ IF IsPartial(k) THEN IsPrefix(Lowered(Front(k)), Lowered(e.key))
                                      ELSE e.key = k}

\* What an exact purge with variants deletes besides: delete_file compares up to
\* the newline after the key and does not ask whether the key of the file ends there.
Continued(c, k) ==
    {e \in Entries : ~c.all /\ Route(c, k) = "exact" /\ IsPrefix(k \o <<LF>>, e.key)}

\* What a prefix that ends with a newline deletes besides: delete_file compares it
\* with the bytes of the file, in which the newline after the key may be its end.
Ended(c, k) ==
    {e \in Entries : /\ c.ns = None /\ ~c.all /\ IsPartial(k)
                     /\ Lowered(Front(k)) = Lowered(e.key \o <<LF>>)}

\* The type invariant.
SelectorsTypeOK ==
    /\ conf \in Locations /\ key \in Keys
    /\ task = None \/ Head(task) \in {"G", "L"}
    /\ deleted \subseteq Entries

\* No key is accepted that a later stage refuses: not by the task, whose
\* buffer has KeyMax + 1 bytes with the letter, and not by the walk, which would
\* skip every file without a word.  What is deleted is what the request is about,
\* and nothing else unless a key has a newline in it.
DeletesWhatIsMeant ==
    /\ SelectorsTypeOK
    /\ stage # "declined"
    /\ task # None => Len(task) <= KeyMax + 1
    /\ stage = "done" => deleted = Meant(conf, key) \cup Continued(conf, key)
                                                                 \cup Ended(conf, key)

\* Requests that are coalesced are about the same files: the one task does
\* the work of both.
CoalescedMeanTheSame ==
    joined # None => Meant(joined.conf, joined.key) = Meant(conf, key)
=============================================================================
