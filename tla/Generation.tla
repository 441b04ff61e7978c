----------------------------- MODULE Generation -----------------------------
(***************************************************************************)
(* The generations of one cache namespace (ngx_cache_purge_invalidation.c) *)
(* and everybody who uses them: requests that look up and fill the cache   *)
(* under $cache_purge_key, PURGE and REFRESH requests that invalidate, the *)
(* background sweep that removes what is stale, and a restart of nginx,    *)
(* which loses the shared zone but keeps the cache.                        *)
(*                                                                         *)
(* A section under the namespace mutex is one step.  The two byte tries    *)
(* are functions from paths (sequences of bytes) to generations; memory is *)
(* counted in trie nodes.  A cache file is named by its encoded key, that  *)
(* is by its epoch, its generation and its logical key.                    *)
(***************************************************************************)
EXTENDS Naturals, FiniteSetsExt, SequencesExt

CONSTANTS
    Keys,        \* logical cache keys, sequences of bytes
    Texts,       \* keys of PURGE requests, sequences of bytes
    Star,        \* the byte *
    Lower,       \* Lower[b]: ngx_tolower
    Epochs,      \* names of marker files in the state directory
    MaxSerial,   \* last serial (2^64 - 1 in the code)
    Capacity,    \* trie nodes the zone can hold
    Reclaim,     \* detached nodes freed per invalidation (64)
    Requests,    \* bound: client requests in flight
    Refreshers,  \* bound: REFRESH jobs
    Sweepers,    \* bound: workers that sweep
    MaxFiles,    \* bound: cache files at a time
    Null

ASSUME GenerationAssumption ==
    /\ Texts \cup Keys \subseteq Seq(DOMAIN Lower) \ {<<>>}
    /\ Lower \in [DOMAIN Lower -> DOMAIN Lower]
    /\ Lower[Star] = Star
    /\ MaxSerial \in Nat \ {0}
    /\ Capacity \in Nat
    /\ Reclaim \in Nat

VARIABLES
    \* ngx_http_cache_purge_generation_t
    serial, baseline, epoch,
    exact, prefix,    \* the tries: [paths of nodes -> generations]
    garbage,          \* number of detached nodes not yet freed
    \* the state directory
    markers,          \* epochs ever taken
    \* the cache
    files,            \* records of key, epoch, gen and seen
    \* actors
    request,          \* request[r]: the snapshot of a client request
    probe,            \* probe[j]: the entry job j has collected and asks about
    doomed,           \* doomed[w]: the entry w found stale and is deleting
    \* history
    accepted          \* accepted[k]: invalidations of k accepted so far

zoneVars == <<serial, baseline, epoch, exact, prefix, garbage, markers>>
vars == <<zoneVars, files, request, probe, doomed, accepted>>

-----------------------------------------------------------------------------
(* Rules *)

\* ngx_tolower of every byte.
Lowered(s) == [i \in DOMAIN s |-> Lower[s[i]]]

\* The nodes from the root of a trie to the node of s.
Path(s) == Prefixes(s) \ {<<>>}

\* Fault: a prefix rule is looked up under the bytes of the key as they are.
LookupMutant(key) ==
    Max({baseline} \cup {exact[s] : s \in {key} \cap DOMAIN exact}
                   \cup {prefix[s] : s \in Path(key) \cap DOMAIN prefix})

\* The generation of a key: its exact rule is the node of the key itself, a
\* prefix rule any node on the way to the key in lower case.
Lookup(key) ==
    Max({baseline} \cup {exact[s] : s \in {key} \cap DOMAIN exact}
                   \cup {prefix[s] : s \in Path(Lowered(key)) \cap DOMAIN prefix})

\* The trie with the rule that s has generation g.
WithRule(trie, s, g) ==
    [n \in DOMAIN trie \cup Path(s) |->
        IF n = s THEN g ELSE IF n \in DOMAIN trie THEN trie[n] ELSE 0]

\* Tries without a node.
NoRules == [s \in {} |-> 0]

Nodes == Cardinality(DOMAIN exact) + Cardinality(DOMAIN prefix)

\* Fault: detached nodes count as free before they are freed.
FreeMutant(left) == Capacity - Nodes

\* Nodes that can be allocated while left nodes wait to be freed.
Free(left) == Capacity - Nodes - left

\* PURGE of a text with a final star is a prefix rule; REFRESH, which names
\* the entry it expects, never is.
IsSelector(text, conditional) == ~conditional /\ Last(text) = Star

\* The keys an invalidation asks for.
Covered(text, conditional) ==
    {k \in Keys : IF IsSelector(text, conditional)
                     THEN IsPrefix(Lowered(Front(text)), Lowered(k))
                     ELSE k = text}

-----------------------------------------------------------------------------
(* Initial state: a fresh zone and an empty cache *)

Init ==
    /\ serial = 1 /\ baseline = 1
    /\ epoch \in Epochs /\ markers = {epoch}
    /\ exact = NoRules /\ prefix = NoRules
    /\ garbage = 0
    /\ files = {}
    /\ request = [r \in Requests |-> Null]
    /\ probe = [j \in Refreshers |-> Null]
    /\ doomed = [w \in Sweepers |-> Null]
    /\ accepted = [k \in Keys |-> 0]

-----------------------------------------------------------------------------
(* Invalidation: ngx_http_cache_purge_generation_invalidate *)

Min2(m, n) == IF m <= n THEN m ELSE n

\* Fault: when memory runs out the rule is dropped.
ExhaustedMutant(left) == UNCHANGED <<baseline, exact, prefix>> /\ garbage' = left

\* Detach both tries; the serial becomes the generation of every key.
Reset(left) ==
    /\ baseline' = serial'
    /\ exact' = NoRules /\ prefix' = NoRules
    /\ garbage' = left + Nodes

\* A node cannot be allocated: every free node was taken by then, and the
\* invalidation broadens to the whole namespace.
Exhausted(left) ==
    /\ baseline' = serial'
    /\ exact' = NoRules /\ prefix' = NoRules
    /\ garbage' = Capacity

\* No serial is left and nothing is changed: the request is refused.
Refused == serial = MaxSerial /\ UNCHANGED <<zoneVars, accepted>>

\* The new serial is the generation of the text's rule, or of everything.
Publish(text, all, conditional) ==
    LET left     == garbage - Min2(garbage, Reclaim)
        selector == IsSelector(text, conditional)
        rule     == IF selector THEN Lowered(Front(text)) ELSE text
        missing  == Path(rule) \ DOMAIN (IF selector THEN prefix ELSE exact)
    IN  /\ serial < MaxSerial
        /\ serial' = serial + 1
        /\ \/ /\ all \/ rule = <<>>
              /\ Reset(left)
           \/ /\ ~all /\ rule # <<>>
              /\ Cardinality(missing) > Free(left)
              /\ Exhausted(left)
           \/ /\ ~all /\ rule # <<>>
              /\ Cardinality(missing) <= Free(left)
              /\ IF selector
                    THEN prefix' = WithRule(prefix, rule, serial') /\ exact' = exact
                    ELSE exact' = WithRule(exact, rule, serial') /\ prefix' = prefix
              /\ garbage' = left
              /\ UNCHANGED baseline
        /\ accepted' = [k \in Keys |->
                           IF all \/ k \in Covered(text, conditional)
                           THEN accepted[k] + 1 ELSE accepted[k]]
        /\ UNCHANGED <<epoch, markers>>

\* A PURGE is admitted, or refused.
Purge(text, all) ==
    /\ Publish(text, all, FALSE) \/ Refused
    /\ UNCHANGED <<files, request, probe, doomed>>

\* The generation, in the present epoch, that stored responses are found under.
Version(k) == <<epoch, Lookup(k)>>

Current(f) == <<f.epoch, f.gen>> = Version(f.key)

\* Faults: a file of another epoch is not stale; one that is current is.
StaleEpochMutant(f) == f.epoch = epoch /\ f.gen < Lookup(f.key)
StaleCurrentMutant(f) == f.epoch # epoch \/ f.gen <= Lookup(f.key)

Stale(f) == f.epoch # epoch \/ f.gen < Lookup(f.key)

\* REFRESH collects a current entry and sends its probe.
Collect(j, f) ==
    /\ probe[j] = Null
    /\ f \in files /\ Current(f)
    /\ probe' = [probe EXCEPT ![j] = [file |-> f, at |-> accepted[f.key]]]
    /\ UNCHANGED <<zoneVars, files, request, doomed, accepted>>

\* Fault: the decision is carried out whatever became of the entry.
StillExpectedMutant(j) == TRUE

\* The entry is still what its key stands for.
StillExpected(j) == Current(probe[j].file)

\* The origin answered that the entry changed: the decision is carried out.
RefreshInvalidate(j) ==
    /\ probe[j] # Null
    /\ StillExpected(j)
    /\ Publish(probe[j].file.key, FALSE, TRUE) \/ Refused
    /\ probe' = [probe EXCEPT ![j] = Null]
    /\ UNCHANGED <<files, request, doomed>>

\* The entry did not change, or was replaced, or no decision was reached.
RefreshKeep(j) ==
    /\ probe[j] # Null
    /\ probe' = [probe EXCEPT ![j] = Null]
    /\ UNCHANGED <<zoneVars, files, request, doomed, accepted>>

-----------------------------------------------------------------------------
(* The cache *)

\* Request r evaluates $cache_purge_key: the snapshot it uses to the end.
GenerationKey(r, k) ==
    /\ request[r] = Null
    /\ request' = [request EXCEPT ![r] =
                      [key |-> k, epoch |-> epoch, gen |-> Lookup(k),
                       since |-> accepted[k], seen |-> Null]]
    /\ UNCHANGED <<zoneVars, files, probe, doomed, accepted>>

\* Nothing usable is cached: r gets the response from the origin.
Fetch(r) ==
    /\ request[r] # Null /\ request[r].seen = Null
    /\ request' = [request EXCEPT ![r].seen = accepted[request[r].key]]
    /\ UNCHANGED <<zoneVars, files, probe, doomed, accepted>>

SameEntry(f, g) == f.key = g.key /\ f.epoch = g.epoch /\ f.gen = g.gen

\* The response of r replaces the file of its encoded key, however late.
Store(r) ==
    LET q == request[r]
        f == [key |-> q.key, epoch |-> q.epoch, gen |-> q.gen, seen |-> q.seen]
        kept == {g \in files : ~SameEntry(g, f)}
    IN  /\ q # Null /\ q.seen # Null
        /\ Cardinality(kept) < MaxFiles
        /\ files' = kept \cup {f}
        /\ request' = [request EXCEPT ![r] = Null]
        /\ UNCHANGED <<zoneVars, probe, doomed, accepted>>

\* r is answered from the cache, or its response is not stored.
Done(r) ==
    /\ request[r] # Null
    /\ request' = [request EXCEPT ![r] = Null]
    /\ UNCHANGED <<zoneVars, files, probe, doomed, accepted>>

\* The sweep reads the key of an entry and finds it stale.
SweepCheck(w, f) ==
    /\ doomed[w] = Null
    /\ f \in files /\ Stale(f)
    /\ doomed' = [doomed EXCEPT ![w] = f]
    /\ UNCHANGED <<zoneVars, files, request, probe, accepted>>

\* It deletes the file of that name, which may have been stored again.
SweepUnlink(w) ==
    /\ doomed[w] # Null
    /\ files' = {g \in files : ~SameEntry(g, doomed[w])}
    /\ doomed' = [doomed EXCEPT ![w] = Null]
    /\ UNCHANGED <<zoneVars, request, probe, accepted>>

\* The cache manager removes a file.
Evict(f) ==
    /\ f \in files
    /\ files' = files \ {f}
    /\ UNCHANGED <<zoneVars, request, probe, doomed, accepted>>

\* Fault: the marker of an earlier run is taken for a new one.
FreshEpochMutant(e) == TRUE

\* O_EXCL: a marker file of that name does not exist yet.
FreshEpoch(e) == e \notin markers

\* nginx stops and starts: the zone is new, the cache and the markers stay.
Restart(e) ==
    /\ FreshEpoch(e)
    /\ epoch' = e /\ markers' = markers \cup {e}
    /\ serial' = 1 /\ baseline' = 1
    /\ exact' = NoRules /\ prefix' = NoRules
    /\ garbage' = 0
    /\ request' = [r \in Requests |-> Null]
    /\ probe' = [j \in Refreshers |-> Null]
    /\ doomed' = [w \in Sweepers |-> Null]
    /\ UNCHANGED <<files, accepted>>

-----------------------------------------------------------------------------
(* Specification *)

Next ==
    \/ \E text \in Texts, all \in BOOLEAN : Purge(text, all)
    \/ \E j \in Refreshers :
          \/ \E f \in files : Collect(j, f)
          \/ RefreshInvalidate(j) \/ RefreshKeep(j)
    \/ \E w \in Sweepers : (\E f \in files : SweepCheck(w, f)) \/ SweepUnlink(w)
    \/ \E f \in files : Evict(f)
    \/ \E r \in Requests :
          \/ \E k \in Keys : GenerationKey(r, k)
          \/ Fetch(r) \/ Store(r) \/ Done(r)
    \/ \E e \in Epochs : Restart(e)

Spec == Init /\ [][Next]_vars

-----------------------------------------------------------------------------
(* Properties *)

Files == [key : Keys, epoch : markers, gen : 1..MaxSerial, seen : Nat]

\* The type invariant.
TypeOK ==
    /\ serial \in 1..MaxSerial /\ baseline \in 1..serial
    /\ epoch \in markers /\ markers \subseteq Epochs
    /\ \A trie \in {exact, prefix} : trie \in [DOMAIN trie -> 0..serial]
    /\ garbage \in Nat /\ garbage + Nodes <= Capacity
    /\ files \subseteq Files
    /\ request \in [Requests -> {Null} \cup
          [key : Keys, epoch : {epoch}, gen : 1..serial, since : Nat, seen : Nat \cup {Null}]]
    /\ probe \in [Refreshers -> {Null} \cup [file : Files, at : Nat]]
    /\ doomed \in [Sweepers -> {Null} \cup Files]
    /\ accepted \in [Keys -> Nat]

\* A request is never answered with a response that was fetched before an
\* invalidation accepted before the request began: not by a late write, not
\* from before a restart, not after memory pressure.
NeverServesStale ==
    \A r \in Requests, f \in files :
        request[r] # Null /\ SameEntry(f, request[r]) => f.seen >= request[r].since

\* What the status endpoint tells an external scanner is enough to judge a
\* file, whatever its key, epoch and generation: of another epoch or below the
\* baseline it is stale; without rules every other file is live.
ViewTruthful ==
    \A k \in Keys, e \in markers, g \in 1..serial :
        LET f == [key |-> k, epoch |-> e, gen |-> g]
        IN  /\ e # epoch \/ g < baseline => Stale(f)
            /\ exact = NoRules /\ prefix = NoRules /\ Stale(f)
                  => e # epoch \/ g < baseline

\* What the sweep deletes, no request that begins now would look up.
SweepKeepsCurrent ==
    [][\A w \in Sweepers :
          SweepUnlink(w) => \A f \in files \ files' : ~Current(f)]_vars

\* A REFRESH decision is carried out only if no other invalidation of the key
\* was accepted since the entry was collected: the response fetched after that
\* one survives.
RefreshActsOnCurrent ==
    [][\A j \in Refreshers :
          RefreshInvalidate(j) => probe[j].at = accepted[probe[j].file.key]]_vars

\* The generations implement versions that never come back.
Versions == INSTANCE KeyVersions WITH
    Selections <- {Covered(t, FALSE) : t \in Texts} \cup {{k} : k \in Keys},
    version <- [k \in Keys |-> Version(k)],
    used <- [k \in Keys |-> ((markers \ {epoch}) \X (1..MaxSerial))
                               \cup ({epoch} \X (1..Lookup(k)))]

ImplementsVersions == Versions!Spec
=============================================================================
