------------------------------- MODULE Refresh -------------------------------
(***************************************************************************)
(* REFRESH pages (ngx_cache_purge_refresh.c): a client asks for one page   *)
(* of a cache selection after another; each page is a job of some worker   *)
(* that scans the cache directory, on a pool thread or in slices on the    *)
(* event loop, keeps the first entries after the client's cursor, sends    *)
(* the origin one conditional HEAD at a time and answers with a new        *)
(* cursor.  Deadlines, disconnects, exiting and dying workers interrupt    *)
(* it, and all workers share a limited number of probes, counted per       *)
(* process slot in the zone of the purge queue.                            *)
(*                                                                         *)
(* An entry is the hash of its encoded key, a number; it therefore belongs *)
(* to one generation.  One callback of the event loop, one step of the     *)
(* scan that sees a directory entry and one section under the mutex are    *)
(* steps; a trylock that fails and a full purge queue make the callback    *)
(* run again and are none.                                                 *)
(***************************************************************************)
EXTENDS Naturals, FiniteSetsExt

CONSTANTS
    Hashes,      \* entries the filter of the clients selects
    Unmappable,  \* entries with Vary or without a mapping to the profile
    Batch,       \* NGX_CACHE_PURGE_REFRESH_BATCH (32)
    Probes,      \* NGX_CACHE_PURGE_REFRESH_PROBES (16)
    Clients,
    Slots,       \* nginx process slots
    Pooled,      \* slots whose worker has a thread pool
    MaxPages,    \* bound: pages a client asks for
    MaxDeaths,   \* bound: workers that die
    MaxChanges,  \* bound: files filled, evicted or purged by others
    Null

ASSUME RefreshAssumption ==
    /\ Hashes \subseteq Nat \ {0}
    /\ IsFiniteSet(Hashes) /\ IsFiniteSet(Slots)
    /\ Unmappable \subseteq Hashes
    /\ Batch \in Nat \ {0} /\ Probes \in Nat \ {0}
    /\ Pooled \subseteq Slots
    /\ MaxPages \in Nat /\ MaxDeaths \in Nat /\ MaxChanges \in Nat
    /\ Null \notin Clients

VARIABLES
    files,    \* cache files
    valid,    \* entries of the current generation of their key
    worker,   \* worker[s]: the process owners[s] names: "none", "up",
              \* "quitting", "dead", or "reused" by another process
    probes,   \* probes[s]: the credits in the zone
    current,  \* ngx_cache_refresh_current of each worker
    job,      \* job[c]: the page of client c
    cursor,   \* cursor[c]: the next_cursor c received last
    owed,     \* history: entries current ever since c's first page, to be
              \* dealt with by a page
    pages, deaths, changes

vars == <<files, valid, worker, probes, current, job, cursor, owed,
          pages, deaths, changes>>

\* A page nobody works on; state tells how the last one ended.
Idle(state) ==
    [state |-> state, at |-> Null, after |-> 0, late |-> FALSE,
     scan |-> "no", unseen |-> {}, entries |-> {}, more |-> FALSE,
     cancelled |-> FALSE, thread |-> "idle", active |-> FALSE,
     decision |-> FALSE, settled |-> FALSE]

Init ==
    /\ files \in SUBSET Hashes
    /\ valid = Hashes
    /\ worker = [s \in Slots |-> "up"]
    /\ probes = [s \in Slots |-> 0]
    /\ current = [s \in Slots |-> Null]
    /\ job = [c \in Clients |-> Idle("none")]
    /\ cursor = [c \in Clients |-> 0]
    /\ owed = [c \in Clients |-> {}]
    /\ pages = [c \in Clients |-> 0]
    /\ deaths = 0 /\ changes = 0

Working(s) == worker[s] \in {"up", "quitting"}

\* The client waits for the page.
Live(c) == job[c].state = "live"

-----------------------------------------------------------------------------
(* Probe credits: ngx_http_cache_purge_probe_credit *)

\* Taking a credit clears what processes that are gone left behind.
Counted(s) == worker[s] \in {"up", "quitting", "reused"}

Cleared == [s \in Slots |-> IF Counted(s) THEN probes[s] ELSE 0]

Total(credits) == MapThenSumSet(LAMBDA s : credits[s], Slots)

\* Fault: one probe too many.
CreditLeftMutant == Total(Cleared) <= Probes

CreditLeft == Total(Cleared) < Probes

\* Fault: a page returns a credit it never took.
ReturnedMutant(c) ==
    IF probes[job[c].at] # 0 THEN [probes EXCEPT ![job[c].at] = @ - 1] ELSE probes

\* The credits after the page of c returned its own, if it has one.
Returned(c) ==
    IF job[c].active /\ probes[job[c].at] # 0
    THEN [probes EXCEPT ![job[c].at] = @ - 1] ELSE probes

-----------------------------------------------------------------------------
(* The page: start, end, disconnect *)

\* ngx_http_cache_refresh_start: c asks worker s for the page after cursor[c].
Start(c, s) ==
    /\ job[c].state \in {"none", "more", "gone"}
    /\ worker[s] = "up"
    /\ pages[c] < MaxPages
    /\ pages' = [pages EXCEPT ![c] = @ + 1]
    /\ job' = [job EXCEPT ![c] = [Idle("live") EXCEPT !.at = s,
                                                      !.after = cursor[c]]]
    /\ owed' = IF pages[c] = 0 THEN [owed EXCEPT ![c] = files \cap valid] ELSE owed
    /\ UNCHANGED <<files, valid, worker, probes, current, cursor, deaths, changes>>

\* Fault: the end of any job frees the worker for the next.
ForgottenMutant(c) ==
    [s \in Slots |-> IF job[c].at = s THEN Null ELSE current[s]]

\* current after the job of c is destroyed.
Forgotten(c) ==
    [s \in Slots |-> IF current[s] = c /\ job[c].at = s THEN Null ELSE current[s]]

\* Entries of the page that are not dealt with yet, in the order of entries[].
Rest(c) == {h \in job[c].entries : h > job[c].after}

\* Fault: the page counts as complete when its own entries are dealt with.
CompleteMutant(c) == job[c].scan = "complete" /\ Rest(c) = {}

\* The "complete" of the reply.
Complete(c) == job[c].scan = "complete" /\ ~job[c].more /\ Rest(c) = {}

\* The page ends without a cursor: its scan failed, or memory ran out.
Failed(c) ==
    /\ job' = [job EXCEPT ![c] = Idle("gone")]
    /\ current' = Forgotten(c)
    /\ UNCHANGED <<files, valid, worker, probes, cursor, owed, pages, deaths, changes>>

\* ngx_http_cache_refresh_reply, and the job is destroyed.
Reply(c) ==
    /\ job[c].scan # "failed"
    /\ job' = [job EXCEPT ![c] = Idle(IF Complete(c) THEN "complete" ELSE "more")]
    /\ cursor' = [cursor EXCEPT ![c] = job[c].after]
    /\ current' = Forgotten(c)
    /\ UNCHANGED <<files, valid, worker, probes, owed, pages, deaths, changes>>

\* Fault: the job is destroyed under the thread.
OutlivesMutant(c) == FALSE

\* A job whose thread task is still active outlives its request.
Outlives(c) == job[c].thread # "idle"

\* ngx_http_cache_refresh_cleanup: the client or its connection is gone, and
\* the HEAD with it.
Disconnect(c) ==
    /\ Live(c)
    /\ probes' = Returned(c)
    /\ IF Outlives(c)
          THEN /\ job' = [job EXCEPT ![c].state = "detached",
                                     ![c].active = FALSE,
                                     ![c].cancelled = TRUE]
               /\ UNCHANGED current
          ELSE /\ job' = [job EXCEPT ![c] = [Idle("gone") EXCEPT
                                                !.thread = job[c].thread,
                                                !.at = job[c].at]]
               /\ current' = Forgotten(c)
    /\ UNCHANGED <<files, valid, worker, cursor, owed, pages, deaths, changes>>

-----------------------------------------------------------------------------
(* The scan: ngx_http_cache_refresh_scan, on the thread or the event loop *)

\* Faults: a full page keeps what it saw first; a page is never full.
KeptAllMutant(c, h) == job[c].entries \cup {h}
KeptMutant(c, h) ==
    IF Cardinality(job[c].entries) = Batch THEN job[c].entries
    ELSE job[c].entries \cup {h}

\* The Batch first of the entries seen so far.
Kept(c, h) ==
    LET all == job[c].entries \cup {h}
    IN  IF Cardinality(all) <= Batch THEN all ELSE all \ {Max(all)}

\* ngx_http_cache_refresh_collect of a file the walk comes to.
Collected(c, h) ==
    IF h > job[c].after /\ h \in valid
    THEN [job[c] EXCEPT !.unseen = @ \ {h},
                        !.entries = Kept(c, h),
                        !.more = @ \/ Cardinality(job[c].entries \cup {h}) > Batch]
    ELSE [job[c] EXCEPT !.unseen = @ \ {h}]

\* A walk sees every file that is there from its start to its end.
Slice(c) ==
    IF job[c].cancelled \/ job[c].late
    THEN {[job[c] EXCEPT !.scan = "late"]}
    ELSE {Collected(c, h) : h \in files}
            \cup {[job[c] EXCEPT !.scan = "failed"]}
            \cup (IF job[c].unseen \cap files = {}
                   THEN {[job[c] EXCEPT !.scan = "complete"]} ELSE {})

\* The pool thread goes on until the scan is over.
ThreadSlice(c) ==
    /\ job[c].thread = "running"
    /\ \E j \in Slice(c) :
          job' = [job EXCEPT ![c] =
                    [j EXCEPT !.thread = IF j.scan = "open" THEN @ ELSE "finished"]]
    /\ UNCHANGED <<files, valid, worker, probes, current, cursor, owed,
                   pages, deaths, changes>>

-----------------------------------------------------------------------------
(* The callback of the page: ngx_http_cache_refresh_step *)

\* Past the deadline, or the worker is exiting.
Expired(c) ==
    job[c].late \/ job[c].cancelled \/ worker[job[c].at] = "quitting"

\* Create the scan, and post it or begin to walk; what a slice finds is dealt
\* with by the next call, the code goes on in the same one.
Open(c) ==
    /\ job[c].scan = "no"
    /\ current' = [current EXCEPT ![job[c].at] = c]
    /\ \E posted \in IF job[c].at \in Pooled THEN {"running", "idle"} ELSE {"idle"} :
          job' = [job EXCEPT ![c].scan = "open", ![c].unseen = files,
                             ![c].thread = posted]
    /\ UNCHANGED <<files, valid, probes, cursor, owed>>

\* Post the scan again, or walk another slice.
Scan(c) ==
    /\ job[c].scan = "open"
    /\ IF job[c].at \in Pooled
          THEN job' = [job EXCEPT ![c].thread = "running"]
          ELSE \E j \in Slice(c) : job' = [job EXCEPT ![c] = j]
    /\ UNCHANGED <<files, valid, probes, current, cursor, owed>>

\* Fault: the entries are taken in the order they were found.
NextEntryMutant(c) == Max(Rest(c))

NextEntry(c) == Min(Rest(c))

\* The page is done with its present entry h.
Advance(c, h) ==
    job' = [job EXCEPT ![c].after = h, ![c].decision = FALSE, ![c].settled = FALSE,
                       ![c].thread = "idle"]

\* Nobody owes what is gone or obsolete, nor c what it is done with.
StillOwed(c, h) ==
    [d \in Clients |-> (owed[d] \cap files' \cap valid')
                          \ (IF d = c THEN {h} ELSE {})]

\* ngx_http_cache_refresh_probe, unless the result of the probe is there: send
\* a HEAD for a current entry that can be mapped, when there is a credit.
Probe(c, h) ==
    /\ ~job[c].decision /\ ~job[c].settled
    /\ h \in valid \ Unmappable
    /\ UNCHANGED <<files, valid, current, cursor>>
    /\ \/ /\ CreditLeft
          /\ probes' = [Cleared EXCEPT ![job[c].at] = @ + 1]
          /\ job' = [job EXCEPT ![c].active = TRUE, ![c].thread = "idle"]
          /\ UNCHANGED owed
       \/ /\ CreditLeft            \* the subrequest fails: invalidation_error
          /\ probes' = Cleared
          /\ Advance(c, h)
          /\ owed' = StillOwed(c, h)
       \/ /\ ~CreditLeft
          /\ probes' = Cleared
          /\ job' = [job EXCEPT ![c].thread = "idle"]
          /\ UNCHANGED owed

\* No probe, or one that keeps the entry or came to nothing.
Skip(c, h) ==
    /\ ~job[c].decision
    /\ job[c].settled \/ h \notin valid \ Unmappable
    /\ Advance(c, h)
    /\ UNCHANGED <<files, valid, probes, current, cursor>>
    /\ owed' = StillOwed(c, h)

\* The origin says that the entry changed: its generation is advanced, unless
\* that happened before or fails.
Decide(c, h) ==
    /\ job[c].decision
    /\ Advance(c, h)
    /\ valid' \in {valid \ {h}, valid}
    /\ UNCHANGED <<files, probes, current, cursor>>
    /\ owed' = StillOwed(c, h)

\* What the callback does while no thread and no HEAD is under way.
Proceed(c) ==
    /\ Live(c) /\ ~job[c].active
    /\ \/ Expired(c) /\ (Reply(c) \/ Failed(c))
       \/ /\ ~Expired(c)
          /\ current[job[c].at] \in {Null, c}
          /\ \/ Open(c)
             \/ job[c].scan = "no" /\ Failed(c)
             \/ Scan(c)
             \/ /\ \/ job[c].scan \in {"failed", "late"}
                   \/ job[c].scan = "complete" /\ Rest(c) = {}
                /\ Reply(c) \/ Failed(c)
             \/ /\ job[c].scan = "complete" /\ Rest(c) # {}
                /\ \/ Probe(c, NextEntry(c)) \/ Skip(c, NextEntry(c))
                   \/ Decide(c, NextEntry(c))
          /\ UNCHANGED <<worker, pages, deaths, changes>>

\* The timer, while a thread or a HEAD is under way: tell the scan to stop.
Cancel(c) ==
    /\ Live(c)
    /\ job[c].thread # "idle" \/ job[c].active
    /\ Expired(c) /\ job[c].scan # "no"
    /\ job' = [job EXCEPT ![c].cancelled = TRUE]
    /\ UNCHANGED <<files, valid, worker, probes, current, cursor, owed,
                   pages, deaths, changes>>

Timer(c) == (job[c].thread = "idle" /\ Proceed(c)) \/ Cancel(c)

\* ngx_http_cache_refresh_thread_done: the callback runs at once, or the job
\* without a request is destroyed.
ThreadDone(c) ==
    /\ job[c].thread = "finished"
    /\ \/ Proceed(c)
       \/ /\ job[c].state = "detached"
          /\ job' = [job EXCEPT ![c] = Idle("gone")]
          /\ current' = Forgotten(c)
          /\ UNCHANGED <<files, valid, worker, probes, cursor, owed,
                         pages, deaths, changes>>

\* ngx_http_cache_refresh_done: the HEAD is over, with a status that keeps the
\* entry or none at all, or with one that says that it changed.
Answered(c) ==
    /\ job[c].active
    /\ probes' = Returned(c)
    /\ \/ job' = [job EXCEPT ![c].active = FALSE, ![c].settled = TRUE]
       \/ job' = [job EXCEPT ![c].active = FALSE, ![c].decision = TRUE]
    /\ UNCHANGED <<files, valid, worker, current, cursor, owed,
                   pages, deaths, changes>>

-----------------------------------------------------------------------------
(* Processes *)

\* What worker s had outside the zone is gone.
Lose(s) ==
    /\ job' = [c \in Clients |-> IF job[c].at = s THEN Idle("gone") ELSE job[c]]
    /\ current' = [current EXCEPT ![s] = Null]
    /\ UNCHANGED <<files, valid, cursor, owed, pages, changes>>

\* A worker dies, or exits with its purge thread still walking.
Crash(s) ==
    /\ Working(s) /\ deaths < MaxDeaths
    /\ deaths' = deaths + 1
    /\ worker' = [worker EXCEPT ![s] = "dead"]
    /\ Lose(s)
    /\ UNCHANGED probes

\* A worker is told to exit.
Quit(s) ==
    /\ worker[s] = "up" /\ deaths < MaxDeaths
    /\ deaths' = deaths + 1
    /\ worker' = [worker EXCEPT ![s] = "quitting"]
    /\ UNCHANGED <<files, valid, probes, current, job, cursor, owed, pages, changes>>

\* exit_worker: when the pages are answered, or at once on SIGTERM.
ExitWorker(s) ==
    /\ worker[s] = "quitting"
    /\ worker' = [worker EXCEPT ![s] = "none"]
    /\ probes' = [probes EXCEPT ![s] = 0]
    /\ Lose(s)
    /\ UNCHANGED deaths

\* Fault: the credits of the last process in the slot are kept.
NewCreditsMutant(s) == probes

NewCredits(s) == [probes EXCEPT ![s] = 0]

\* init_worker in the slot.
InitWorker(s) ==
    /\ ~Working(s)
    /\ worker' = [worker EXCEPT ![s] = "up"]
    /\ probes' = NewCredits(s)
    /\ UNCHANGED <<files, valid, current, job, cursor, owed, pages, deaths, changes>>

\* The process id of a worker that died is given away, and comes free again.
Other(s) ==
    /\ \/ worker[s] = "dead" /\ worker' = [worker EXCEPT ![s] = "reused"]
       \/ worker[s] = "reused" /\ worker' = [worker EXCEPT ![s] = "dead"]
    /\ UNCHANGED <<files, valid, probes, current, job, cursor, owed, pages,
                   deaths, changes>>

-----------------------------------------------------------------------------
(* Everybody else *)

\* The deadline of the page passes.
Expire(c) ==
    /\ job[c].state \in {"live", "detached"} /\ ~job[c].late
    /\ job' = [job EXCEPT ![c].late = TRUE]
    /\ UNCHANGED <<files, valid, worker, probes, current, cursor, owed, pages,
                   deaths, changes>>

\* A response is stored, perhaps late under an obsolete generation.
Fill(h) ==
    /\ h \notin files
    /\ files' = files \cup {h}
    /\ UNCHANGED <<valid, job, owed>>

\* The cache manager or a sweep removes the file.
Evict(h) ==
    /\ h \in files
    /\ files' = files \ {h}
    /\ owed' = [c \in Clients |-> owed[c] \ {h}]
    /\ job' = [c \in Clients |-> [job[c] EXCEPT !.unseen = @ \ {h}]]
    /\ UNCHANGED valid

\* A PURGE advances the generation of the key.
Purge(h) ==
    /\ h \in valid
    /\ valid' = valid \ {h}
    /\ owed' = [c \in Clients |-> owed[c] \ {h}]
    /\ UNCHANGED <<files, job>>

Change(h) ==
    /\ changes < MaxChanges
    /\ changes' = changes + 1
    /\ Fill(h) \/ Evict(h) \/ Purge(h)
    /\ UNCHANGED <<worker, probes, current, cursor, pages, deaths>>

-----------------------------------------------------------------------------
(* Specification *)

Next ==
    \/ \E c \in Clients :
          \/ \E s \in Slots : Start(c, s)
          \/ Timer(c) \/ ThreadSlice(c) \/ ThreadDone(c) \/ Answered(c)
          \/ Disconnect(c) \/ Expire(c)
    \/ \E s \in Slots : Crash(s) \/ Quit(s) \/ ExitWorker(s) \/ InitWorker(s)
                         \/ Other(s)
    \/ \E h \in Hashes : Change(h)

Spec == Init /\ [][Next]_vars

\* The timer is armed until the page ends, threads run and the origin or its
\* timeouts answer.  A deadline is not relied upon.
Fairness ==
    \A c \in Clients : /\ WF_vars(Timer(c)) /\ WF_vars(ThreadSlice(c))
                       /\ WF_vars(ThreadDone(c)) /\ WF_vars(Answered(c))

\* The master fills a slot again.
Refilled == \A s \in Slots : WF_vars(InitWorker(s))

LiveSpec == Spec /\ Fairness /\ Refilled

-----------------------------------------------------------------------------
(* Properties *)

Jobs ==
    [state : {"none", "live", "detached", "more", "complete", "gone"},
     at : Slots \cup {Null}, after : Hashes \cup {0}, late : BOOLEAN,
     scan : {"no", "open", "complete", "failed", "late"},
     unseen : SUBSET Hashes, entries : SUBSET Hashes, more : BOOLEAN,
     cancelled : BOOLEAN, thread : {"idle", "running", "finished"},
     active : BOOLEAN, decision : BOOLEAN, settled : BOOLEAN]

\* The type invariant.
TypeOK ==
    /\ files \subseteq Hashes /\ valid \subseteq Hashes
    /\ worker \in [Slots -> {"none", "up", "quitting", "dead", "reused"}]
    /\ probes \in [Slots -> 0..Probes]
    /\ current \in [Slots -> Clients \cup {Null}]
    /\ job \in [Clients -> Jobs]
    /\ \A c \in Clients : Cardinality(job[c].entries) <= Batch
    /\ cursor \in [Clients -> Hashes \cup {0}]
    /\ owed \in [Clients -> SUBSET Hashes]

\* No more than Probes HEAD requests are under way, whatever workers died with
\* theirs and whoever has their process ids.
ProbeLimit == Cardinality({c \in Clients : job[c].active}) <= Probes

\* A worker's credits in the zone are the HEAD requests it is waiting for: no
\* end of a page, and no successor in the slot, keeps or loses one.
CreditsBalanced ==
    \A s \in Slots : Working(s) =>
        probes[s] = Cardinality({c \in Clients : job[c].at = s /\ job[c].active})

\* "One bounded batch per worker": also while a disconnected client's thread
\* still scans.
OneBatchPerWorker ==
    \A c, d \in Clients :
        /\ job[c].state \in {"live", "detached"} /\ job[c].scan # "no"
        /\ job[d].state \in {"live", "detached"} /\ job[d].scan # "no"
        /\ job[c].at = job[d].at
        => c = d

\* The thread never scans into a job that was destroyed.
ThreadKeepsJob ==
    \A c \in Clients : job[c].thread = "running" => job[c].state \in {"live", "detached"}

\* Jobs, batches and threads: every field keeps its type, in particular no page
\* holds more entries than a batch, one page of a worker scans at a time, and a
\* thread has its job for as long as it runs.
JobsConsistent == TypeOK /\ OneBatchPerWorker /\ ThreadKeepsJob

\* Probes: the credits in the zone are those that are used, and never more
\* than there are, whatever dies or disconnects.
ProbesAccounted == ProbeLimit /\ CreditsBalanced

\* "Continuation cannot skip the unfinished work": an entry that was current
\* ever since the client's first page lies after the cursor until some page
\* dealt with it, and no page is complete before.
ContinuationSkipsNothing ==
    \A c \in Clients : \A h \in owed[c] :
        /\ h > cursor[c]
        /\ Live(c) => h > job[c].after
        /\ job[c].state # "complete"

\* Every page is answered or abandoned in the end, even if its deadline never
\* comes: no credit, no thread and no batch is kept for ever.
PageEnds ==
    \A c \in Clients : job[c].state \in {"live", "detached"}
                         ~> job[c].state \notin {"live", "detached"}
=============================================================================
