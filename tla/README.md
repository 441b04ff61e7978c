# A TLA+ model of ngx_cache_purge

ngx_cache_purge is an nginx module (C, about 8,000 lines) that removes entries
from the proxy, FastCGI, SCGI and uWSGI caches. This directory holds TLA+
modules for the parts of it that keep state shared by several processes or
callbacks, TLC configurations that check them on small instances, and proofs,
checked by TLAPS, of what holds for every instance. All definitions are
translated from the C sources of the repository; the documentation is used for
what the code promises, never for what it does.

## 1. The system

### Components

| Component | Source | State it keeps | Operations |
|---|---|---|---|
| Background purge queue | `ngx_cache_purge_queue.c` | shared zone: rbtree index, `pending` and `active` lists, `size`, `running`, `oldest`, `owners[]`, `epochs[]`, `probes[]`; per worker: `ngx_cache_purge_work` | `enqueue`, `process_queue`, `recover`, `init_worker`, `exit_worker`, pool thread |
| Generation namespaces | `ngx_cache_purge_invalidation.c` | one shared zone per namespace: `serial`, `baseline`, `epoch`, two byte tries, garbage list; marker files in the state directory | `generation_invalidate`, `_key`, `_stale`, `_current`, `_view` |
| Conditional REFRESH | `ngx_cache_purge_refresh.c` | per request: job, scan, entries, cursor; per worker: `ngx_cache_refresh_current`; probe credits in the queue zone | start, step, scan, probe, done, cleanup, thread |
| Directory walk | `ngx_cache_purge_walk.c` | cursor with a stack of directory frames, error and deletion counts | `walk_step`, `delete_file`, `read_key`, `invalidate_node` |
| Dispatch and admission wait | `ngx_cache_purge_handler.c` | per deferred request: timer and cleanup; waiting gauge | access, method, selector checks, defer and retry |
| Exact and Vary purge | `ngx_cache_purge_handler.c`, `_walk.c` | nginx's native cache node (`exists`, `fs_size`) and `cache->sh->size` | `file_cache_purge`, `delete_variants` |
| Status and metrics | `ngx_cache_purge_queue.c` | counters per path and process, sequence numbers | `stat_add`, `stat_wait`, `snapshot`, status handler |
| Configuration | `ngx_cache_purge_module.c`; `init_shm_zone`, `generation_init` | configuration structures of each block; shared zones that outlive a reload | directives, merging, checks of the main settings, attaching to zones |
| Responses, headers, adapters | `_response.c`, `.h` files | none | formatting, platform calls |

### How they interact

A PURGE of a wildcard, of everything or in a namespace goes from the handler to
`enqueue`. Under the zone mutex it joins the task of the same key or takes a
credit and becomes a new task; in a namespace the invalidation is published
first, under the namespace mutex nested in the zone mutex. A worker's timer
calls `process_queue`, which claims the head of the pending list and walks the
cache directory outside the lock, on a pool thread or in slices. When the walk
ends the task is retired, replayed (a PURGE came meanwhile) or retried (errors).
Once a second `recover` requeues tasks whose worker is gone. REFRESH scans the
same directory, asks the origin about each current entry and hands its decisions
to `enqueue` with the entry it expects. Requests read the generation of their
key through `$cache_purge_key`, and nginx stores responses under that name. The
configuration at the time of acceptance decides which paths a walk must protect.

### What is hard

* Several workers, their pool threads and the cache manager work on the lists,
  the tries and the directory at once; a PURGE may arrive in the middle of the
  walk it needs to repeat.
* Workers quit, are terminated, crash and are replaced, in the middle of a
  walk or a probe, and process ids are reused; ownership is judged from
  process id, slot and epoch.
* Responses are stored late, under keys that were invalidated long before; a
  restart forgets the generations but not the files.
* Memory of the zones, credits of the queue, probes and batch entries all run
  out, and each has its own way of giving way.
* Timers, deadlines and disconnects meet results that are on their way.
* A file of the cache and nginx's entry for it change in different steps, under a
  lock and without it.
* A reload changes settings under tasks and invalidations that must survive it, and
  may be refused when half of it is done; an inherited directive installs a handler
  in front of the one a location has.

### What makes each component correct

* Queue: lists, index and counters agree; credits bound the tasks; a live worker
  keeps its task and a dead one does not; what an accepted PURGE covers is
  visited by a pass that begins or continues after it; the newest protection is
  used; every accepted task is retired.
* Namespaces: an invalidation gives every key it covers a version the key never
  had; nothing fetched before it is served after it; the sweep never deletes
  what a new request would use; REFRESH acts only on what it asked about.
* REFRESH: following the cursor skips nothing; probes stay within their limit
  and are always given back; a thread never outlives its job; every page ends.
* Walk: it visits every file that is there all the time, skips what is
  protected, and its errors are reported.
* Dispatch: every request is answered once and the waiting gauge counts the
  requests that wait; a published invalidation is followed by a pass, which is given
  up only when a whole series of them has failed since the last request.
* Metrics: a snapshot is a state the counters were in.
* Exact purge: the purge leaves no file that the cache does not know of unless it
  reports a failure, what a client was told to be purged stays gone, and the size of an
  entry is taken off once (which it is not if the manager is evicting the entry, see
  Deviations).
* Configuration: a reload loses no accepted purge and no invalidation, every
  worker finds its records in the zone, ordinary requests reach their handler, and
  only what directives ask for is purged or refreshed.

## 2. Modules

| Module | What it is |
|---|---|
| `TaskLists` | operators on the two task lists |
| `PurgeQueue` | the background purge queue, its workers and their processes |
| `KeyVersions` | abstract specification: versions of keys that never come back |
| `Generation` | a generation namespace, its users and a restart; implements `KeyVersions` |
| `Refresh` | REFRESH pages of several clients and workers |
| `Walk` | the resumable directory walk: frames, path buffer, slices, faults, protection |
| `Selectors` | a selector on its way from the request to the files it deletes |
| `Admission` | deferred requests, and the section that admits them and publishes |
| `Metrics` | the counters of the status endpoint and their readers |
| `ExactPurge` | exact purges of a key, with the native entries of its files |
| `Locations` | what a block of the configuration means: parsing, merging, and which handler answers |
| `Configuration` | reading a configuration at the start and at a reload, and the shared zones |
| `MCPurgeQueue`, `MCGeneration`, `MCRefresh`, `MCWalk`, `MCSelectors`, `MCAdmission`, `MCMetrics`, `MCExactPurge`, `MCConfiguration` | constants for TLC |
| `SetProofs` | lemmas about extremes and sums of finite sets, which several proofs need |
| `PurgeQueueProofs` | lemmas about the lists, the structural and the full invariant of the queue, and what follows from them |
| `GenerationProofs`, `ExactPurgeProofs`, `ConfigurationProofs`, `RefreshProofs` | the inductive invariants of these modules and what follows from them |
| `AdmissionProofs`, `WalkProofs` | the same for `Admission` and `Metrics`, and for `Walk` and `Selectors` |

`Metrics` and `Selectors` have names of their own for `Init`, `Next` and so on
(`MetricsSpec`, `selectorsVars`), because their proofs extend them next to another module.

Operators whose name ends in `Mutant` are faults: the form a definition would
have after a plausible mistake in the code. Nothing uses them; each refutes a
property when it takes the place of the definition that follows it.

### `PurgeQueue`

| Model | Code |
|---|---|
| `index`, `pending`, `active`, `size`, `running`, `oldest` | `path->rbtree`, `queue->pending`, `queue->active` and the fields of `ngx_http_cache_purge_queue_t` |
| `owners`, `epochs` | arrays per process slot |
| `busy`, `rerun`, `delayed`, `retries`, `owner`, `ownerSlot`, `ownerEpoch`, `protection`, `nextProtection` | fields of a queue item |
| `item`, `phase`, `todo`, `failed`, `walkProtection` | `ngx_cache_purge_work` and its cursor |
| `Coalesce`, `Admit` | `enqueue`, found or not found in the index |
| `RotateDelayed`, `Claim`, `PostThread` | the first half of `process_queue` |
| `Visit`, `WalkError`, `WalkDone` | the walk, in slices or on the thread |
| `Finish`, `FinalRelease` | the second half, normally and from the exit hook |
| `Recover` | `recover`, including its limit of 64 entries |
| `Spawn`, `InitWorker`, `Quit`, `Terminate`, `ExitWorker`, `Crash`, `OtherStart`, `OtherExit` | the life of processes and process ids |

A section under the mutex is one step. `due` and `wanted` are history: which
files accepted requests still ask for, and the configuration of the last one.
A pass visits the files in any order, because directory order is arbitrary; each
file it has not come to is in `todo`. A request is no longer due when the last retry of
its task has failed (queue.c:818), or when its namespace is not in the configuration of
the worker that claims the task, which walks nothing (queue.c:753). A process has the
configuration it was forked with; `master_process off`, where one process
reloads itself, is not modelled. A file that is stored while the walk runs
may or may not be seen. The selector of a key is the fixed set `Match[k]`; a
namespace sweep deletes the stale part of it, which `Generation` models.

### `Generation` and `KeyVersions`

The tries are functions from byte sequences to generations; one node is one unit
of memory. `Publish` is `generation_invalidate`, with the reclaim of detached
nodes, the broadening when memory runs out (`Exhausted`), `purge_all` or an empty
selector (`Reset`) and the refusal at the last serial (`Refused`). REFRESH calls
it with the entry it expects, and then a key that ends in `*` is an exact key.
`GenerationKey` is the snapshot of a request, `Store` its response, however late.
`Restart` loses the zone and keeps files and markers. `KeyVersions` says what
all this is for; the refinement maps the version of a key to its epoch and
generation, and the versions a key has had to those of earlier epochs and the
smaller ones of this epoch. `accepted` counts the invalidations of a key in both,
so that an accepted invalidation that renews nothing is no stutter.

### `Refresh`

A job is a record. `Start`, `Disconnect`, `Timer`, `ThreadSlice`, `ThreadDone` and
`Answered` are the callbacks of the source; `Proceed` is `refresh_step` where
nothing is under way. An entry is the hash that orders the entries of a page.
`active` stands also for `job->credit`, which is set and cleared with it, and
`cancelled` for `timed_out`. `owed` is history: the entries that were current
since the client's first page and that no page has dealt with.
A client whose job is detached asks for nothing until its thread is done; other
clients of the same worker do.

### `Walk`

One iteration of the loop of `walk_step` is one step; between two iterations
others add and remove entries, and the slice may end. `frames` is the stack of
`ngx_http_cache_purge_dir_t`, `path` the bytes of `cursor->path`, `todo` what
`readdir` has still to return. An entry that is created in an open directory may
or may not be returned. `Entry` is the rest of an iteration: examine, descend,
visit, or leave out. `PathContains` and `Trimmed` are the byte comparisons of
`ngx_cache_purge.h`; `MustKeep` says component by component what they are for.
`handles` is history: the directories that were opened and not closed.
`WalkAssumption` says what a walk is started with. The root does not end in a
separator, and no protected path is the root itself: nginx refuses a temporary path
that is the path of a cache. It compares the names as they are written, so a
temporary path that only differs in separators at its end (`/c//` for `/c`) would
get past it; with that the comparison of bytes keeps everything, and a walk deletes
nothing.

### `Selectors`

Sequential: `Dispatch`, `Enqueue`, `Claim` or `Begin`, `Walk`, and `Join`, a second
request that meets the task in the index. A key is a sequence of bytes, and each
stage has the limit of the code (`TooLong`, `Declined`, `Deletes`). `Meant` is what
the documentation says a request is about; `DeletesWhatIsMeant` compares it with
what the last stage deletes. Three boundaries of these limits differ by one on
purpose: the star of a prefix is not kept, the newline of an exact key is. What is
deleted is exactly what is meant, with two exceptions the property names
(`Continued` and `Ended`), both about keys with a newline: see Deviations.

### `Admission`

| Model | Code |
|---|---|
| `req` | a request with its timer, its cleanup handler (`armed`) and `r->main->count` |
| `gauge` | `NGX_PURGE_WAITING` in the statistics of a slot |
| `Abort`, `LockBusy`, `Enter` | the beginning of `enqueue`, for a new request and from the timer |
| `Allocate`, `Publish`, `Insert` | the section of `enqueue`, in order, with the nested trylock of the namespace |
| `Wait`, `Settle`, `Freed` | `defer`, `request_handler`, `request_cleanup` |
| `Claim` | the first section of `process_queue`, with the test for a namespace the configuration does not have (queue.c:753) |
| `Release`, `FailPass`, `HandOver` | its second section: a complete pass, one with errors, and one the exit hook gives back; each may replay or retire the task |
| `Recover` | `recover`, for a task whose worker is gone |

A worker does not die inside a section here. `task` and `retries` follow the code;
which worker has a task, and when a retry is due, is in `PurgeQueue`. `walk` tells a pass
that walks nothing from others and, when the task is gone, whether its last pass failed.
`gen` counts the invalidations published for a namespace; `passGen` and `failed` are
history: the invalidation the last pass began with, and the passes that failed one after
the other since the last request.

An invalidation may end without a sweep in two ways, which `SweepFollows` names.
Four passes fail one after the other (`MaxRetries` is 3): the task is removed, and the
files stay until another PURGE or until nginx expires them; they are not served, as
their generation is old. The property says that the series began after the last request,
which gives the task a fresh window of retries, however many had failed before. Or a
worker whose configuration does not name the namespace claims the task, and its pass is
complete without a walk; after a reload that is any worker, during one it depends on
which worker comes first.

### `Metrics`

A store of a word is a step, in the order the barriers force. In a build of 32
bits (`narrow`) a counter is two words and `stats->sequence` tells a reader of an
update under way; in one of 64 bits a word is the counter and there is no
sequence except in `init_worker`. `script` is what the handler that runs has still
to count; a section of the queue lasts until it is done. The counters begin
near a carry, and one at its largest value, at which it must stay; so does a sum of
the sample (`Total`).

### `ExactPurge`

| Model | Code |
|---|---|
| `exists`, `size`, `total`, `cold` | `node->exists`, `node->fs_size`, `cache->sh->size`, `cache->sh->cold` |
| `Open`, `Reenter`, `OpenFails` | `ngx_http_file_cache_open` in `ngx_http_file_cache_purge`, answered at once, by way of `NGX_AGAIN`, or not |
| `Section`, `Unlink` | the section under the lock of the cache, and the unlink after it |
| `Read`, `InvalidateNode`, `UnlinkVariant` | one file of `delete_variants` |
| `Answer` | `walk_reply` |
| `Die` | a worker dies; its reference to an entry (`node->count`) stays |
| `Store`, `Account` | `ngx_http_file_cache_update`: the rename, then the section |
| `EvictBegin`, `EvictUnlink`, `EvictEnd` | `ngx_http_file_cache_delete` of the cache manager: the section that takes the size off, the unlink without the lock, the section that removes the entry |
| `Load`, `Loaded` | the cache loader and the end of its work |
| `BulkUnlink`, `Restart` | other walks; a restart of nginx |

The responses of an entry are numbered, and the number is also their size, so that
a size that stays is seen in the sum. nginx is modelled from how the code uses it, with
what it does to `exists`, `fs_size` and the size of the cache step by step:

* The manager takes only entries nobody refers to. Between its two sections the entry
  still exists and has its size, and a purge may clear it, or a store fill it. If somebody
  refers to the entry in the second section it stays. Its unlink may fail, and
  its second section may remove the entry of a response stored meanwhile.
* The loader of a cold cache may be unable to read a file or have no memory for an
  entry, and leaves entries alone that are there already, also those that only a
  reference keeps; a file it comes to may so be left without an entry (`skipped`).

`promised`, `lost` and `met` are history: which responses a client was told to be gone;
which files were left without an entry, by which purge, or by nginx itself (`Null`); and
which entries somebody cleared, filled or held while the manager was evicting them.
`SizeExact` is about the size of the cache as long as there were none of the last; a
restart begins anew. Two purges of an entry, a purge and a store, a walk that comes to
the file of an entry that was cleared already, and the manager's own two sections must
then each add and subtract what the entry counts for.
`FilesAccounted` allows a file without an entry only if it is in `lost`. Of a purge's own
that is one whose unlink failed, which is reported as `delete_failed`, or one its
worker died over; the file returns with the next restart, when the loader finds it. A
retry of such a purge without the walk for variants finds no entry and answers
`no_match` while the file is there; `PurgedStaysGone` excepts a file that somebody
else left behind (`Forsaken`), and one that another purge is about to unlink after
a restart: a third purge that reads it while the cache is cold gives it its entry
back. The death of the manager between its steps is not modelled.

### `Locations` and `Configuration`

`Parsed` is what the directives of a block leave in its `loc_conf`, `Merged` is
`merge_loc_conf` in its order: what is inherited, what is refused, status
endpoints, REFRESH endpoints, and the protocols one by one, the first of which
takes the location. Its result has the block's `loc_conf` and its content handler
(`clcf->handler`). `Outcome` is what a request of a method meets: the gate
(`access_handler`), the handler it forwards to, `dispatch` and `refresh_handler`.

`Configuration` reads main settings and then blocks, one inside the other, as many
as a path through the configuration has: `block` is the last of them, and every
property about handlers is about every block on every path. `ReadEnd` joins
`init_main_conf`, `postconfiguration`, `init_shm_zone` and `generation_init`: they run in
one process between two requests, and a refusal of any leaves the configuration
before in place. A refusal when memory is out leaves behind what was bound until
then (`Exhausted`). Workers of configurations before drain, and still accept purges
and publish invalidations. `init_main_conf` runs before the merge in the code; the
one setting that merging changes, inherited status paths, names no path that is
not declared already.

`pass`, `endpoint`, `asked`, `cut` and `foreign` are history: what the directives of a
block and of those around it say, without the order in which the code merges them.
A block of the model names at most one content handler (a pass, a separate purge
location, a REFRESH endpoint or a status endpoint), a nameless block only a pass;
`limit_except` is read under a pass. An inline directive names the method PURGE.
`BlocksAssumption` says this of the files there may be (`Allowed`): handlers are
set in locations only and no directive of the module stands in a nameless block,
which are flags of the command table; and a location with a status directive has no
other handler, which is a limit of the model: nginx also reads a pass there, and gives
the location to the one that comes later.

## 3. Runs

| Run | Checks | Bounds, and why they are enough |
|---|---|---|
| `queue_life` | `HolderKeepsTask`, `SuccessorExposesOrphan`, `NoLostPurge`, `NewestProtection` | One key: ownership of tasks is independent. Two files (one passed, one not), two process ids and two slots with reuse, two epochs per slot, two requests (the second one meets the walk), three configurations: nothing protected, one file protected, no namespaces |
| `queue_recovery` | `TypeOK`, `QueueConsistent`, `WithinCapacity`, `WaitTimeOfPending`, `AcceptedIsRetired` | Three keys for two credits; one list entry per section, where the code takes 64, so that every scan is partial and a delayed head could starve the tail; one slot, filled twice, with crashes, retries and process id reuse |
| `queue_stranded` | `OrphanIsRequeued` (violated) | see Findings |
| `generation_rules` | `TypeOK`, `ViewTruthful`, `ImplementsVersions` | Five invalidations with exact, prefix and catch-all texts, three trie nodes and one freed per call, so that most orders exhaust the zone, and a restart. No request is needed for these |
| `generation_files` | `NeverServesStale`, `SweepKeepsCurrent`, `RefreshActsOnCurrent` | One of each actor, one file, two invalidations, a restart. The request begins anew when it is done, so it meets what it stored late itself. Keys `A` and `A*`: only a conditional invalidation tells them apart, and a selector covers them only when case is folded |
| `refresh` | `JobsConsistent`, `ProbesAccounted`, `ContinuationSkipsNothing`, `PageEnds` | Either one client that reads three pages of two over three entries while two of them change, so that cursors, deadlines and changes meet; or two clients that read two pages and one of one entry on two workers, with one probe, quits and a death, so that a page may end while another worker scans or holds the probe (the constraint `Scenario`). Both give up only what joins the two: changes of the directory do not depend on who counts a probe |
| `walk_tree` | `CursorConsistent`, `NothingMissed`, `KeepsProtected`, `WalkEnds` | Two trees of up to three levels, with a protected directory and one whose name begins like it; slices of two entries end in every place of the walk; two faults, one change by others |
| `selectors_limits` | `DeletesWhatIsMeant`, `CoalescedMeanTheSame` | Keys of up to four bytes against limits of two and three stand for 512 and 8096: each limit is met from both sides. Files whose key goes on after a newline. Two namespaces whose names differ in case |
| `admission_wait` | `WaitersConsistent`, `AnswersAreTrue`, `SweepFollows`, `QuitEnds` | Two requests of one worker and one of another, one credit for two tasks, every slot filled twice. One retry, so that a series of two failed passes is the end, and a request may come before, in and after it |
| `metrics_sample` | `CountersConsistent`, `SampleWhole`, `QuietSampleExact` | Two slots, words of three values, two attempts of a reader; a task is under way at the start, so that two updates suffice for a death, a recovery and its counters |
| `exact_purge` | `SizeExact`, `FilesAccounted`, `PurgedStaysGone` | Two purges and one restart before, between or after them. Either one entry, a store, so that a purge meets an old response and a new one, and two faults, at any step, so that a purge and nginx both fail; or a key with a variant, whichever of the two entries each purge finds, one fault and no store: what the walk does to a response stored meanwhile it does to one file, which the first case has (the constraint `Scenario`) |
| `configuration` | `BacklogKept`, `GenerationsKept`, `QueueCovers`, `TrafficReaches`, `PurgesWhereAsked` | Four protocols, so that every order of two and a third is met; http, server, location and a block in it, where each directive is on, off or absent; a block deeper repeats the last merge. Twelve main settings that differ in one respect each: queue on or off, zone sizes that round to the same or to another size, namespaces that go, grow or move, caches and protected paths; one invalidation. Every tree of blocks is read at the first start, every reload with one location |

`MaxRequests`, `MaxEpoch`, `MaxSerial`, `MaxPages`, `MaxDeaths`, `MaxChanges`, `MaxFiles`,
`MaxFaults`, `MaxLives`, `MaxUpdates`, `MaxStores`, `MaxRestarts`, `Requests`, `Refreshers`,
`Sweepers` and `Clients` bound what the environment does;
`MaxEpoch` and `MaxSerial` also stand for 2^64 - 1, at which the code refuses.
Symmetry is used for keys, process ids, slots, clients, purges and entries in runs
that check invariants only. Only `queue_life`, `queue_stranded`, `configuration` and the
`Generation` runs check deadlock: elsewhere a run of the model ends when the clients have what they asked
for, the walk is over, or no worker is left.

### Fairness

`PurgeQueue!LiveSpec`: weak fairness of each worker's `process_queue` (its timer is
armed again on every path until the worker exits), of `recover`, of
`init_worker` and the exit hook, and of retry times. The master fills a slot
again when its worker is gone, after the process id it gets came free; this is
strong fairness of `Spawn`, as the ids are taken and released by others.
`Refresh!LiveSpec`: weak fairness of the timer, the thread, the origin (or its
timeouts) and of new workers. No fairness is assumed of deadlines: pages end
without them. Weak fairness is enough where two pages contend for the last probe,
because a page has finitely many entries.

`Walk!FairSpec`: the walk is called again until it ends. `Admission!FairSpec`: timers
fire, a section ends, answers are sent or time out, a worker without requests
exits. Nothing is assumed of the sweep, so that no request is promised room: only
that a worker that is told to quit is not held up. `Metrics`, `ExactPurge` and
`Configuration` state safety and need no fairness.

### Findings

`queue_stranded`: ARCHITECTURE.md says that workers "requeue work whose owner
exited". `recover` believes that an owner is alive when some process has its id.
When a worker dies with a task, its id goes to an unrelated process, and its slot
is not filled again (a reload with fewer workers), no pass requeues the task, and
a PURGE of the same key joins it. The run gives the counterexample: the task
stays active for ever, with fairness of everything except a new worker in the
slot. With a new worker in the slot the epochs expose the task
(`SuccessorExposesOrphan`, proved).

### Deviations

Places where the code does something a reader of its documents may not expect, and
which the properties name as exceptions instead of hiding them:

* `DeletesWhatIsMeant`: DIRECTIVES.md:253 says that the byte after the key is
  verified to be a newline, so that keys with a common prefix are not matched. A
  cache key may contain a newline itself, and `delete_file` does not ask whether the
  key in the file ends there (`entry_key_len` is at hand). An exact purge with
  variants also deletes a file whose key goes on after a newline.
* `DeletesWhatIsMeant`: a prefix is compared with as many bytes of the file as it is
  long, and the newline after the key is among them. A prefix that ends with a newline
  also deletes the file whose key is the prefix without it (`Ended`). Found by the proof.
* `TrafficReaches`: an inline directive is meant for locations that pass
  (DIRECTIVES.md:15). A location with static files that inherits one answers 405 to
  every GET, because the gate takes the place of the handler of static files, which
  is not a content handler.
* `TrafficReaches`: an `if` with its own pass, of another protocol than the one around
  it, is ignored where a purge is in force: a nameless block gets the saved handler
  of the block around it.
* `PurgesWhereAsked`: a purge directive of another protocol in a location inside a
  REFRESH endpoint inherits the flag of the endpoint, and `dispatch` starts a REFRESH
  for PURGE, and for any method at a separate location.
* `PurgesWhereAsked`: where several protocols are in force the first in the order of
  the code purges, also if the location itself names a later one. Merging stops
  there, and at status and REFRESH endpoints, so that directives of later protocols
  from http or server level are not in force in blocks below.
* `SweepFollows`: see `Admission` above.
* `SizeExact`: the sections that clear a node, `handler.c:570` to `591` and `walk.c:650`
  to `660`, look at `exists` only. When the cache manager evicts an entry,
  `ngx_http_file_cache_delete` takes the size off, marks the node as `deleting`, leaves
  `exists` and `fs_size` as they are, and gives the lock back for the unlink. A purge
  that comes to the node in between takes the size off again; so does an update, which
  adds the difference to a size that no longer counts. In the model the size
  of a cache of one entry is then below zero. It is only set right by a restart, and
  until then the manager believes the cache to be smaller than it is and keeps more
  than `max_size`. A test of `deleting` would repair it. The fixture
  `t/fixtures/cache_layout_metadata_main.c:34` to `37` asserts that two invalidations
  take the size off once ("idempotent accounting"); it has no manager.
* `PurgedStaysGone`: see `ExactPurge` above.

## 4. Proofs

For every value of the constants: any number of keys, files, workers, slots, requests,
entries, blocks and names, and every value of the limits. `=> P` means `Spec => []P`
or, for an action property, `Spec => P`.

| Module | Theorem | States |
|---|---|---|
| `PurgeQueueProofs` | `StructInvariant` | `=> StructInv` |
| | `TypeCorrect`, `ListsMatchIndex`, `AdmissionBound`, `LiveHolderKeepsTask` | `=> TypeOK`, `QueueConsistent`, `WithinCapacity`, `HolderKeepsTask` |
| | `SafetyInvariant` | `=> SafetyInv` |
| | `WaitTimeTruthful`, `SuccessorRecovers`, `NextPassProtection`, `AcceptedPurgeKept` | `=> WaitTimeOfPending`, `SuccessorExposesOrphan`, `NewestProtection`, `NoLostPurge` |
| `GenerationProofs` | `TypeCorrect`, `ViewIsTruthful` | `=> TypeOK`, `ViewTruthful` |
| | `StaleNeverServed`, `SweepSparesCurrent`, `RefreshSparesNewer` | `=> NeverServesStale`, `SweepKeepsCurrent`, `RefreshActsOnCurrent` |
| | `VersionsImplemented` | the specification implements `KeyVersions` |
| `AdmissionProofs` | `WaitersAlwaysConsistent`, `AnswersAlwaysTrue`, `SweepAlwaysFollows` | `=> WaitersConsistent`, `AnswersAreTrue`, `SweepFollows` |
| | `SampleIsWhole`, `CountersAreConsistent` | `=> SampleWhole`, `CountersConsistent` |
| | `QuietSamplesAreExact` | `=> QuietSampleExact`, if `NSlots * (Base - 1 + MaxUpdates) <= Largest` |
| `ExactPurgeProofs` | `PurgeTypesCorrect`, `SizeAlwaysExact`, `FilesAlwaysAccounted`, `PurgedAlwaysGone` | `=> TypeOK`, `SizeExact`, `FilesAccounted`, `PurgedStaysGone` |
| `ConfigurationProofs` | `ReloadInvariant`, `BlockInvariant` | `=> ReloadInv`, `BlockInv` |
| | `BacklogAlwaysKept`, `GenerationsAlwaysKept`, `QueueAlwaysCovers` | `=> BacklogKept`, `GenerationsKept`, `QueueCovers` |
| | `TrafficAlwaysReaches`, `PurgesAlwaysWhereAsked` | `=> TrafficReaches`, `PurgesWhereAsked` |
| `RefreshProofs` | `CreditInvariant` | `=> CreditInv` |
| | `JobsAlwaysConsistent`, `ProbesAlwaysAccounted`, `ContinuationNeverSkips` | `=> JobsConsistent`, `ProbesAccounted`, `ContinuationSkipsNothing` |
| `WalkProofs` | `ProtectionByName` | `IsProtected(Text(p)) <=> MustKeep(p)` for every path `p` |
| | `CursorAlwaysConsistent`, `AlwaysKeepsProtected`, `NothingIsMissed` | `=> CursorConsistent`, `KeepsProtected`, `NothingMissed` |
| | `SelectorsDeleteWhatIsMeant`, `CoalescedSelectorsMeanTheSame` | `=> DeletesWhatIsMeant`, `CoalescedMeanTheSame` |

Each module rests on the assumption its model names (`ConstantAssumption`,
`GenerationAssumption`, `WalkAssumption` and so on), which TLC evaluates in the runs.
Most of it says that a set is finite, a limit is a natural number and `Null` is none
of the values it is told from. `GenerationAssumption` says that folding case leaves the
star alone, `WalkAssumption` that trees are trees, and what is said of it in section 2,
`BlocksAssumption` what a block may name, see there too.
The bounds on the environment (section 3) are any
naturals in the proofs, and may be as large as one likes, with one exception: counters,
and their sums in a sample, stop at the largest value, after which they tell no truth.
`QuietSamplesAreExact` therefore supposes room for what all slots hold at first and
for what is counted; in the code the largest value is 2^64 - 1. The run meets it exactly.

Every inductive invariant was checked by TLC on the run of its module before it was
proved. In each proof every action is one lemma, or several where it does several
things, and the theorem joins them.

### `PurgeQueue`

`QueueConsistent` is not inductive. A worker that releases its task removes it from
the active list, which is right only if the task is there: this is
`WorkConsistent`, which says that a worker's task is active and carries its id,
its slot and the slot's present epoch. That in turn survives `Recover` only because
the marks of a task held by a live worker convince it, for which a slot must
belong to one process: `SlotsConsistent`. `StructInv` is the conjunction of these
with `TypeOK` and `WithinCapacity`.

`SuccessorExposesOrphan` needs that in the present epoch of a slot only the task
its worker holds is marked, and that epochs only grow: `EpochsConsistent`.
`NoLostPurge` and `NewestProtection` depend on each other: the pass under way may
leave a file only if its protection is what the last request wanted, unless a
replay is due, which then carries the newest one. `ProtectionConsistent` states
this, and `PurgeInv` joins the three. `SafetyInv` is all of it.

### `Generation`

What a rule does to a key is proved first: of each key it covers the generation
becomes the serial, of every other one it stays, also when memory runs out in the
middle and the baseline is raised (`RenewedOrKept`). It rests on the maximum of a
finite set of numbers. From this come `ViewTruthful` and the refinement: a
step is a renewal of the versions of some keys, a restart, or a stutter.

`NeverServesStale` speaks of a request that is being answered, and depends on the
file it was answered from. `FreshInv` says of every file, and of every request that
may store one, that if it has the present epoch and generation of its key it was
fetched after every invalidation accepted by now; and that two requests which look
at the same entry, the same file or the same snapshot, know the same invalidations
(`SnapshotsAgree`). The same is said of what a REFRESH asks about (`ProbesFresh`), and a
file that a sweep is about to delete is stale (`DoomedStale`), which it stays, because
versions do not come back.

### `Admission`

`WaitInv` ties phase, timer, cleanup handler and reference count of each request
together and says that the section is held for a request without an answer. The gauge
is then the number of waiting requests, which changes by one with the request that
changes. `AnswerInv` says at every point of a section what has been published, and
`SweepInv` that a namespace no section is working on has a pass to come that begins
after its last invalidation, or had one, and that if it was given up the series of failed
passes is complete. This needs `PassInv`: as long as there is a task, `retries` is the
number of passes that failed one after the other since the last request.

### `Metrics`

`CounterInv` has two sides. Of a writer it says that the words it has stored are those it
wants to store, that the sequence number is odd during an update and, while a worker is
there, even between two, and that with an even number the counters are those after the
last update, also if the worker before died in one. Of the reader it says that as long as
the number is the one it saw, what it has read is a beginning of those counters; so an
unchanged number means a whole sample. It needs that a number never returns, which in the
model is that it only grows; in the code 32 bits would have to wrap within one reading of a slot.

The counters of a slot mean nothing by themselves, as one worker finishes what another
started. `SumInv` is about `Final`, the value a counter has when the updates that wait
in `script` are done: the sums of these over the slots differ by the pending and the
running tasks. They hold while no worker died between a change of the queue and its counters
(`broken`). `QuietInv` says that in a sample during which nothing happens the
slots read so far are as they are.

### `ExactPurge`

`FilesAccounted` is not inductive: it speaks of a warm cache only, and of a file no
purge has in hand. `PurgeInv` says instead that the loader has a file before it, has
skipped it, or knows it, whether the cache is cold or not (`AllKnown`), and where each
purge is (`Located`). It says further that the responses a purge found are
older than the ones stored since (`Numbered`), that who left a file behind does not
report success, and what a purge may say of the entries it got over
with (`Opened`, `Passed`, and `Kept` when it is done). The attempt to prove it with an
exception for purges that unlink *while the cache is cold* failed: the entry that a
third purge gives back stays when the cache is warm. With three purges this is a
behaviour of the model, and the exception now names the restart.

`SizeExact` is an equation about a sum over all entries, so each step is shown to change
one term of it (`OneSize`, from the lemmas of `SetProofs`) or none (`SameSize`). It is
proved beside `PurgeInv`, of which it needs the types. A step that leaves `met` empty
came to an entry nobody was evicting, of which the full size counts; this is where the
proof without the exception stops.
The types themselves are proved and in no run, as the other invariants rest on them.

### `Configuration`

`ReloadInv` has five parts: what is read is part of a configuration that was not
refused because of a namespace's size; the zones have the shapes the code
gives them; the backlog lies in a queue that the running configuration uses
and that has room for it; the serials are those of the invalidations; and
workers, running or draining, see in the zones what their configuration
says. The last part is what refusing another size, another capacity or another state
path is for.

`BlockInv` says what the merge has made of the block read last, in terms of what
the directives ask for: which switches are on (`SwitchesMatch`), when the gate answers and
for whom (`GateMatches`), what is inherited of an endpoint (`EndpointMatches`),
which handler is behind the gate (`HandlerMatches`), and that a REFRESH endpoint has none
(`RefreshMatches`). A merge ends in one of four ways, as a status endpoint, as one of REFRESH,
with no protocol in force or with the first that is, and each has lemmas for each part.
`TrafficReaches` and `PurgesWhereAsked` follow by cases of the method and of `content`.

### `Refresh`

`PlaceInv` says where a page is worked on: a page with a thread holds its worker,
a thread that runs scans for an open scan, and the worker's `current` is the page
from the first scan to the reply. `CreditInv` adds that the credits of a slot
with a working process are its pages that wait for a HEAD, and that their number is
within the limit; that the slots together have no more is a lemma about sums
(`SumCounts`). `OwedInv` is about the cursor: an entry that stays current is still
unseen by the scan, is kept, or lies beyond all of a full page, and is never at or
before the cursor.

### `Walk`

`ProtectionByName` compares two definitions for all names: the code compares bytes and
then looks at the byte after them; `MustKeep` compares the names of the path one by
one. A separator in the text of a path ends the text of one of its ancestors and
nothing else, because names have none: that is `Boundary`, on which it rests.
`CursorInv` says that the directories of the stack are the ancestors of the last one, that
`len` is the length of their texts, and that the buffer begins with the text of the
last one. `KeepInv` adds that none of them is protected. `OwedInv` says that a
file which must be visited lies ahead: its name, or that of a directory it
is in, is still in `todo` of an open directory. An error gives this up, and is counted.

### `Selectors`

`SelectorInv` says that a request is in the stage its route leads to, that its task has its
index key, and that its walk looks for what such a request looks for (`Walks`). The rest is
about sequences of bytes of any length: what a prefix deletes (`PrefixWalk`), what an exact key
deletes (`ExactWalk`), byte by byte, with the newline after the key of a file as one of
them; and that every key a route lets pass fits into the later stages
(`QueuedFits`). Coalesced requests mean the same because the letter in front of the
index key tells selectors from namespaces, and what is behind it is the whole of either
(`IndexMeans`).

### What the proofs changed in the models

* Two arms of a `CASE` could apply at once in `Locations` and `Configuration` (a block that
  is a status endpoint and a REFRESH endpoint); TLA+ leaves open which is taken. They
  are `IF`s now, in the order of the code.
* `PurgedStaysGone` was too strong, see above.
* `DeletesWhatIsMeant` was too strong: `Ended` was missing. No key of the run was a
  prefix that ends with a newline; one is now.
* A sum in `Sample` did not stop at the largest value, as the one of the code does.
* Assumptions that were only true of the constants in the runs are stated.

### Model-checked only

* Liveness (`AcceptedIsRetired`, `PageEnds`, `WalkEnds`, `QuitEnds`): fairness and
  ENABLED are outside the prover. Every other property of the passing runs is proved.

## 5. Not modelled

* A process that dies inside a section under a mutex: ARCHITECTURE.md names the
  torn lists this leaves as unrecoverable. Only `Metrics` lets a worker die there,
  because the counters outlive it; sums are claimed only where it did not.
* The whole composition of queue and namespace: `Admission` joins admission,
  publication and the order of passes, `PurgeQueue` and `Generation` the rest of
  each with the other's part as an action of the environment.
* `enqueue` for a path without a queue yet, which defers like a busy lock.
* Counters of bytes, times, hits and misses, which are updated the same way; the
  rendering of status and responses. The model shows a limit of builds of 32 bits
  that no document denies: the counters of a worker that died in an update are
  left out of every sample until its slot is filled again, and keep the torn value.
* The texts of directives, the range of times and batches, response types, thread
  pools and the access list; the choice of the cache by name; structure layouts, the
  Windows adapter and the formatting of responses.
* nginx itself, except what the code relies on: how zones are reused, how blocks are
  merged and content handlers chosen, how the entries of a cache are stored,
  evicted and loaded. These definitions are marked external.
* Times: a timer may fire at any moment, a deadline passes at any moment; batches
  and the throttle pause only delay.
* CRC and MD5 checks of cache files: a file of the model is one that passes them.
  A failed read is a fault of the walk.

## 6. Plan

1. Done: all modules of section 2, and proofs of all their safety properties and of the
   refinement.
2. An abstract specification of what an accepted PURGE promises (a pass follows it),
   which `PurgeQueue` implements; a composition of `PurgeQueue` and `Generation`.
