----------------------------- MODULE PurgeQueue -----------------------------
(***************************************************************************)
(* The background purge queue of ngx_cache_purge (ngx_cache_purge_queue.c) *)
(* together with the processes that feed it and drain it.                  *)
(*                                                                         *)
(* One shared memory zone holds the pending and active task lists, the     *)
(* index that coalesces duplicates and one owner/epoch entry per nginx     *)
(* process slot.  Every worker admits requests, claims a task, walks the   *)
(* cache directory outside the lock (in slices on its event loop or in one *)
(* go on a pool thread) and finishes, replays or retries the task.         *)
(* Workers crash, quit, are terminated and are replaced; their process ids *)
(* may be taken by unrelated processes.                                    *)
(*                                                                         *)
(* A section of code under the zone mutex is one step.  A trylock that     *)
(* fails leaves the state alone and the caller tries again, so it is not a *)
(* step.  An index key (cache path plus selector) is a member of Keys, and *)
(* a cache file, at its place in the directory tree, is a member of Files. *)
(***************************************************************************)
EXTENDS Naturals, Sequences, FiniteSets, Functions, TaskLists

CONSTANTS
    Keys,         \* index keys: a cache path with a selector or a namespace
    Files,        \* cache files below the walked directory
    Match,        \* Match[k]: the files selector k covers
    Confs,        \* nginx configurations that may be loaded
    Protected,    \* Protected[c]: files below a path configuration c protects
    Configured,   \* Configured[c]: keys whose namespace c knows (all literals)
    Pids,         \* process ids
    Reusable,     \* process ids an unrelated process may be given
    Slots,        \* nginx process slots
    MaxSize,      \* queue->max_size
    MaxEpoch,     \* last value of epochs[slot] (2^64 - 1 in the code)
    WalkEntries,  \* entries one pass under the lock may inspect (64)
    MaxRetries,   \* failed passes that are tried again (3)
    MaxRequests,  \* bound: PURGE requests the environment sends
    Null

ASSUME ConstantAssumption ==
    /\ Match \in [Keys -> SUBSET Files]
    /\ Protected \in [Confs -> SUBSET Files]
    /\ Configured \in [Confs -> SUBSET Keys]
    /\ Reusable \subseteq Pids
    /\ MaxSize \in Nat \ {0}
    /\ MaxEpoch \in Nat
    /\ WalkEntries \in Nat \ {0}
    /\ MaxRetries \in Nat
    /\ MaxRequests \in Nat
    /\ Null \notin Keys \cup Pids \cup Slots \cup Confs

VARIABLES
    \* the zone: ngx_http_cache_purge_queue_t and its path index
    index,            \* keys in the rbtree
    pending, active,  \* the two task lists
    size, running,    \* their counters
    oldest,           \* the task whose enqueued_at queue->oldest holds
    owners, epochs,   \* process id and epoch per slot
    \* fields of a task, ngx_http_cache_purge_queue_item_t
    busy,             \* tasks with running = 1
    rerun,            \* tasks with rerun = 1
    delayed,          \* tasks whose retry_at lies in the future
    retries,
    owner, ownerSlot, ownerEpoch,  \* cleared together: only owner is ever
                                   \* tested on a task that is not active
    protection, nextProtection,
    \* the processes
    pstate, slot, conf,
    \* ngx_cache_purge_work of each worker
    item, phase, todo, failed, walkProtection,
    \* the environment
    files,            \* cache files that exist
    requests,         \* PURGE requests accepted so far
    \* history: what the accepted requests still ask for
    due,              \* <<k, f>>: f was there when a purge of k was accepted
    wanted            \* configuration of the last accepted purge of each key

zoneVars  == <<index, pending, active, size, running, oldest>>
slotVars  == <<owners, epochs>>
taskVars  == <<busy, rerun, delayed, retries, owner, ownerSlot, ownerEpoch,
               protection, nextProtection>>
procVars  == <<pstate, slot, conf>>
workVars  == <<item, phase, todo, failed, walkProtection>>
envVars   == <<files, requests>>
ghostVars == <<due, wanted>>
vars == <<zoneVars, slotVars, taskVars, procVars, workVars, envVars, ghostVars>>

-----------------------------------------------------------------------------
(* Lists of tasks *)

\* Fault: the wait time restarts only when no task is left at all.
OldestAfterMutant(k) == IF index = {} THEN k ELSE oldest

\* queue->oldest after key k joined the tail of the pending list.
OldestAfter(k) == IF pending = <<>> THEN k ELSE oldest

\* Processes that have run init_worker.
Workers == {p \in Pids : pstate[p] \in {"up", "quitting", "terminating"}}

\* ngx_exiting, ngx_terminate and ngx_quit are all clear.
Serving(p) == pstate[p] = "up"

\* kill(pid, 0) finds the process, whoever it is by now.
process_alive(p) == pstate[p] \notin {"none", "fatal"}

\* Fault: recover trusts the process id alone.
LooksOwnedMutant(k) ==
    /\ ownerSlot[k] # Null
    /\ owners[ownerSlot[k]] = owner[k]
    /\ owner[k] # Null
    /\ process_alive(owner[k])

\* The three tests of recover on an active task.
LooksOwned(k) ==
    /\ ownerSlot[k] # Null
    /\ owners[ownerSlot[k]] = owner[k]
    /\ epochs[ownerSlot[k]] = ownerEpoch[k]
    /\ owner[k] # Null
    /\ process_alive(owner[k])

\* Fault: the walk protects the paths of the worker's configuration instead of
\* those the task retained.
DoomedMutant(p) == (files \cap Match[item[p]]) \ Protected[conf[p]]

\* A file the pass of worker p deletes when it comes to it.
Doomed(p) == (files \cap Match[item[p]]) \ Protected[walkProtection[p]]

-----------------------------------------------------------------------------
(* Initial state: a fresh zone, no worker yet *)

\* A zeroed zone, and the statics of every process.
Init ==
    /\ index = {} /\ pending = <<>> /\ active = <<>>
    /\ size = 0 /\ running = 0 /\ oldest = Null
    /\ owners = [s \in Slots |-> Null]
    /\ epochs = [s \in Slots |-> 0]
    /\ busy = {} /\ rerun = {} /\ delayed = {}
    /\ retries = [k \in Keys |-> 0]
    /\ owner = [k \in Keys |-> Null]
    /\ ownerSlot = [k \in Keys |-> Null]
    /\ ownerEpoch = [k \in Keys |-> 0]
    /\ protection = [k \in Keys |-> Null]
    /\ nextProtection = [k \in Keys |-> Null]
    /\ pstate = [p \in Pids |-> "none"]
    /\ slot = [p \in Pids |-> Null]
    /\ conf = [p \in Pids |-> Null]
    /\ item = [p \in Pids |-> Null]
    /\ phase = [p \in Pids |-> "idle"]
    /\ todo = [p \in Pids |-> {}]
    /\ failed = {}
    /\ walkProtection = [p \in Pids |-> Null]
    /\ files \in SUBSET Files
    /\ requests = 0
    /\ due = {}
    /\ wanted = [k \in Keys |-> Null]

\* What the requests for other keys than k ask for.
Others(k) == due \cap ((Keys \ {k}) \X Files)

-----------------------------------------------------------------------------
(* Requests: ngx_http_cache_purge_enqueue *)

\* Files an accepted purge of k under configuration c asks to be deleted.
Asked(k, c) == {k} \X ((files \cap Match[k]) \ Protected[c])

\* What the accepted requests ask for once p accepted a purge of k: its
\* protection replaces that of the earlier requests for k.
Accept(p, k) ==
    /\ requests < MaxRequests
    /\ requests' = requests + 1
    /\ due' = Others(k) \cup Asked(k, conf[p])
    /\ wanted' = [wanted EXCEPT ![k] = conf[p]]
    /\ UNCHANGED files

\* A purge of an indexed key joins the task that is already there.
Coalesce(p, k) ==
    /\ Serving(p)
    /\ k \in Configured[conf[p]]
    /\ k \in index
    /\ IF k \in busy
          THEN /\ rerun' = rerun \cup {k}
               /\ nextProtection' = [nextProtection EXCEPT ![k] = conf[p]]
               /\ UNCHANGED protection
          ELSE /\ protection' = [protection EXCEPT ![k] = conf[p]]
               /\ UNCHANGED <<rerun, nextProtection>>
    /\ retries' = [retries EXCEPT ![k] = 0]
    /\ delayed' = delayed \ {k}
    /\ Accept(p, k)
    /\ UNCHANGED <<zoneVars, slotVars, busy, owner, ownerSlot, ownerEpoch,
                   procVars, workVars>>

\* Fault: a claimed task gives its admission credit back.
HasCreditMutant == size < MaxSize

\* "Active work retains its admission credit until final completion."
HasCredit == size + running < MaxSize

\* A purge of a new key takes an admission credit; active tasks keep theirs.
Admit(p, k) ==
    /\ Serving(p)
    /\ k \in Configured[conf[p]]
    /\ k \notin index
    /\ HasCredit
    /\ index' = index \cup {k}
    /\ oldest' = OldestAfter(k)
    /\ pending' = Append(pending, k)
    /\ size' = size + 1
    /\ protection' = [protection EXCEPT ![k] = conf[p]]
    /\ Accept(p, k)
    /\ UNCHANGED <<active, running, slotVars, busy, rerun, delayed, retries,
                   owner, ownerSlot, ownerEpoch, nextProtection, procVars,
                   workVars>>

-----------------------------------------------------------------------------
(* Draining: ngx_http_cache_purge_process_queue *)

\* The claim loop met only delayed tasks: they are now at the tail.
RotateDelayed(p) ==
    LET n == Smaller(size, WalkEntries) IN
    /\ Serving(p) /\ item[p] = Null
    /\ pending # <<>>
    /\ \A i \in 1..n : pending[i] \in delayed
    /\ pending' = Rotated(pending, n)
    /\ UNCHANGED <<index, active, size, running, oldest, slotVars, taskVars,
                   procVars, workVars, envVars, ghostVars>>

\* What is left of a claim once task k is out of the pending list.
StartWork(p, k) ==
    /\ delayed' = delayed \ {k}
    /\ active' = Append(active, k)
    /\ busy' = busy \cup {k}
    /\ owner' = [owner EXCEPT ![k] = p]
    /\ ownerSlot' = [ownerSlot EXCEPT ![k] = slot[p]]
    /\ ownerEpoch' = [ownerEpoch EXCEPT ![k] = epochs[slot[p]]]
    /\ size' = size - 1
    /\ running' = running + 1
    /\ item' = [item EXCEPT ![p] = k]
    /\ walkProtection' = [walkProtection EXCEPT ![p] = protection[k]]
    /\ failed' = failed \ {p}
    \* A namespace the configuration no longer has completes unwalked.
    /\ IF k \in Configured[conf[p]]
          THEN /\ phase' = [phase EXCEPT ![p] = "scan"]
               /\ todo' = [todo EXCEPT ![p] = Files]
               /\ UNCHANGED due
          ELSE /\ phase' = [phase EXCEPT ![p] = "complete"]
               /\ todo' = [todo EXCEPT ![p] = {}]
               /\ due' = Others(k)

\* Claim the first pending task that is not delayed.
Claim(p) ==
    /\ Serving(p) /\ item[p] = Null
    /\ \E i \in 1..Smaller(size, WalkEntries) :
          /\ pending[i] \notin delayed
          /\ \A j \in 1..(i - 1) : pending[j] \in delayed
          /\ pending' = Tail(Rotated(pending, i - 1))
          /\ oldest' = IF pending' = <<>> THEN oldest ELSE Head(pending')
          /\ StartWork(p, pending[i])
    /\ UNCHANGED <<index, slotVars, rerun, retries, protection,
                   nextProtection, procVars, envVars, wanted>>

\* The walk that has not started is handed to a pool thread.  A full pool
\* changes nothing and the post is tried again.
PostThread(p) ==
    /\ pstate[p] \in {"up", "quitting"}
    /\ phase[p] = "scan" /\ todo[p] = Files
    /\ phase' = [phase EXCEPT ![p] = "thread"]
    /\ UNCHANGED <<zoneVars, slotVars, taskVars, procVars, item, todo, failed,
                   walkProtection, envVars, ghostVars>>

\* The worker that walks is on its event loop, or its thread is running.
Walking(p) ==
    \/ phase[p] = "scan" /\ pstate[p] \in {"up", "quitting"}
    \/ phase[p] = "thread"

\* The walk comes to file f and deletes it if it is doomed.
Visit(p, f) ==
    /\ Walking(p) /\ f \in todo[p]
    /\ todo' = [todo EXCEPT ![p] = @ \ {f}]
    /\ files' = files \ ({f} \cap Doomed(p))
    /\ due' = due \cap (Keys \X files')
    /\ UNCHANGED <<zoneVars, slotVars, taskVars, procVars, item, phase, failed,
                   walkProtection, requests, wanted>>

\* A directory or a file cannot be read or a file cannot be deleted: what it
\* held is passed over and the pass counts an error.
WalkError(p, lost) ==
    /\ Walking(p) /\ lost \subseteq todo[p]
    /\ todo' = [todo EXCEPT ![p] = @ \ lost]
    /\ failed' = failed \cup {p}
    /\ UNCHANGED <<zoneVars, slotVars, taskVars, procVars, item, phase,
                   walkProtection, envVars, ghostVars>>

\* The walk has closed its last directory: cursor.complete, and on a thread
\* work->finished, are set.
WalkDone(p) ==
    /\ Walking(p) /\ todo[p] = {}
    /\ phase' = [phase EXCEPT ![p] = "complete"]
    /\ UNCHANGED <<zoneVars, slotVars, taskVars, procVars, item, todo, failed,
                   walkProtection, envVars, ghostVars>>

\* A purge that arrived during the pass, or a walk that did not get to its
\* end, asks for another pass in a fresh retry window.
NeedsReplayMutant(k, complete) == ~complete
NeedsReplay(k, complete) == k \in rerun \/ ~complete

\* A pass with errors is repeated MaxRetries times.
MayRetryMutant(k) == retries[k] <= MaxRetries
MayRetry(k) == retries[k] < MaxRetries

\* Fault: the replay keeps the protection of the pass that ended.
KeepsOldProtectionMutant(k) == protection' = protection

\* A replay takes over the protection of the purge that asked for it.
KeepsNewestProtection(k) ==
    protection' = IF nextProtection[k] = Null THEN protection
                  ELSE [protection EXCEPT ![k] = nextProtection[k]]

\* Faults: a replayed task is not counted; a replayed task stays marked.
RequeuedUncountedMutant(k) ==
    /\ pending' = Append(pending, k)
    /\ oldest' = OldestAfter(k)
    /\ rerun' = rerun \ {k}
    /\ KeepsNewestProtection(k)
    /\ UNCHANGED <<index, size>>
RequeuedMarkedMutant(k) ==
    /\ pending' = Append(pending, k)
    /\ oldest' = OldestAfter(k)
    /\ size' = size + 1
    /\ KeepsNewestProtection(k)
    /\ UNCHANGED <<index, rerun>>

\* The task goes back to the pending tail.
Requeued(k) ==
    /\ pending' = Append(pending, k)
    /\ oldest' = OldestAfter(k)
    /\ size' = size + 1
    /\ rerun' = rerun \ {k}
    /\ KeepsNewestProtection(k)
    /\ UNCHANGED index

\* The task leaves the index and its memory is freed.
Retired(k) ==
    /\ index' = index \ {k}
    /\ rerun' = rerun \ {k}
    /\ protection' = [protection EXCEPT ![k] = Null]
    /\ UNCHANGED <<oldest, pending, size>>

\* The task of p ends under the lock; complete says the walk got to its end.
Release(p, complete) ==
    LET k      == item[p]
        replay == NeedsReplay(k, complete)
        retry  == ~replay /\ p \in failed /\ MayRetry(k)
        gaveUp == ~replay /\ ~retry /\ p \in failed
    IN  /\ active' = Without(active, k)
        /\ running' = running - 1
        /\ IF replay \/ retry THEN Requeued(k) ELSE Retired(k)
        /\ retries' = [retries EXCEPT ![k] = IF retry THEN @ + 1 ELSE 0]
        /\ delayed' = IF retry THEN delayed \cup {k} ELSE delayed
        /\ busy' = busy \ {k}
        /\ owner' = [owner EXCEPT ![k] = Null]
        /\ ownerSlot' = [ownerSlot EXCEPT ![k] = Null]
        /\ ownerEpoch' = [ownerEpoch EXCEPT ![k] = 0]
        /\ nextProtection' = [nextProtection EXCEPT ![k] = Null]
        /\ item' = [item EXCEPT ![p] = Null]
        /\ phase' = [phase EXCEPT ![p] = "idle"]
        /\ todo' = [todo EXCEPT ![p] = {}]
        /\ failed' = failed \ {p}
        /\ walkProtection' = [walkProtection EXCEPT ![p] = Null]
        \* exhausted: the log asks the operator to retry the PURGE
        /\ due' = IF gaveUp THEN Others(k) ELSE due

\* The end of process_queue on the event loop.
Finish(p) ==
    /\ pstate[p] \in {"up", "quitting"}
    /\ phase[p] = "complete"
    /\ Release(p, TRUE)
    /\ UNCHANGED <<slotVars, procVars, envVars, wanted>>

\* Retry time of a delayed task arrives.
RetryDue(k) ==
    /\ k \in delayed
    /\ delayed' = delayed \ {k}
    /\ UNCHANGED <<zoneVars, slotVars, busy, rerun, retries, owner, ownerSlot,
                   ownerEpoch, protection, nextProtection, procVars, workVars,
                   envVars, ghostVars>>

\* The entries of the active list one call of recover looks at.
Scanned == Leading(active, Smaller(running, WalkEntries))

\* Those whose owner is gone.
Lost == {k \in Scanned : ~LooksOwned(k)}

\* Scan the head of the active list: the lost tasks go to the pending tail,
\* the others to the active tail.
Recover(p) ==
    /\ pstate[p] \in {"up", "quitting"}
    /\ \E live \in InOrder(Scanned \ Lost, active), dead \in InOrder(Lost, active) :
          /\ active' = Dropped(active, Smaller(running, WalkEntries)) \o live
          /\ pending' = pending \o dead
          /\ oldest' = IF dead = <<>> THEN oldest ELSE OldestAfter(dead[1])
          /\ running' = running - Len(dead)
          /\ size' = size + Len(dead)
    /\ busy' = busy \ Lost
    /\ rerun' = rerun \ Lost
    /\ owner' = [k \in Keys |-> IF k \in Lost THEN Null ELSE owner[k]]
    /\ ownerSlot' = [k \in Keys |-> IF k \in Lost THEN Null ELSE ownerSlot[k]]
    /\ ownerEpoch' = [k \in Keys |-> IF k \in Lost THEN 0 ELSE ownerEpoch[k]]
    /\ protection' = [k \in Keys |->
                         IF k \in Lost /\ nextProtection[k] # Null
                         THEN nextProtection[k] ELSE protection[k]]
    /\ nextProtection' = [k \in Keys |-> IF k \in Lost THEN Null
                                         ELSE nextProtection[k]]
    /\ UNCHANGED <<index, slotVars, delayed, retries, procVars, workVars,
                   envVars, ghostVars>>

-----------------------------------------------------------------------------
(* Processes *)

\* The master forks a worker into a free slot, under the configuration of
\* the latest reload.  A slot whose worker failed to initialise (exit code 2)
\* is not filled again.
Spawn(p, s, c) ==
    /\ pstate[p] = "none"
    /\ \A o \in Pids : slot[o] # s
    /\ pstate' = [pstate EXCEPT ![p] = "booting"]
    /\ slot' = [slot EXCEPT ![p] = s]
    /\ conf' = [conf EXCEPT ![p] = c]
    /\ UNCHANGED <<zoneVars, slotVars, taskVars, workVars, envVars, ghostVars>>

\* Everything process p kept outside the zone is gone.
Gone(p) ==
    /\ pstate' = [pstate EXCEPT ![p] = "none"]
    /\ slot' = [slot EXCEPT ![p] = Null]
    /\ conf' = [conf EXCEPT ![p] = Null]
    /\ item' = [item EXCEPT ![p] = Null]
    /\ phase' = [phase EXCEPT ![p] = "idle"]
    /\ todo' = [todo EXCEPT ![p] = {}]
    /\ failed' = failed \ {p}
    /\ walkProtection' = [walkProtection EXCEPT ![p] = Null]

\* Faults: init_worker always opens an epoch; it looks at the process id only.
OpensEpochAlwaysMutant(p) == TRUE
OpensEpochPidMutant(p) == owners[slot[p]] # p

\* A process that does not own its slot yet opens a new epoch of the slot; one
\* that runs init_worker again does not.
OpensEpoch(p) == pstate[p] = "booting" \/ owners[slot[p]] # p

\* init_worker takes the slot; with no epoch left the worker fails.  A worker
\* keeps the configuration it was forked with, also when this runs again.
InitWorker(p) ==
    LET s == slot[p]
    IN  /\ pstate[p] \in {"booting", "up"}
        /\ IF OpensEpoch(p) /\ epochs[s] = MaxEpoch
              THEN /\ pstate' = [pstate EXCEPT ![p] = "fatal"]
                   /\ UNCHANGED slotVars
              ELSE /\ epochs' = [epochs EXCEPT ![s] =
                                    IF OpensEpoch(p) THEN @ + 1 ELSE @]
                   /\ owners' = [owners EXCEPT ![s] = p]
                   /\ pstate' = [pstate EXCEPT ![p] = "up"]
        /\ UNCHANGED <<zoneVars, taskVars, slot, conf, workVars, envVars,
                       ghostVars>>

\* SIGQUIT or a reload: finish the current pass, take no other task.
Quit(p) ==
    /\ pstate[p] = "up"
    /\ pstate' = [pstate EXCEPT ![p] = "quitting"]
    /\ UNCHANGED <<zoneVars, slotVars, taskVars, slot, conf, workVars, envVars,
                   ghostVars>>

\* SIGTERM: the exit hook runs at once.
Terminate(p) ==
    /\ pstate[p] \in {"up", "quitting"}
    /\ pstate' = [pstate EXCEPT ![p] = "terminating"]
    /\ UNCHANGED <<zoneVars, slotVars, taskVars, slot, conf, workVars, envVars,
                   ghostVars>>

\* process_queue(final = 1): the exit hook hands its task back.  A thread
\* that is still walking keeps it, and the process ends as in Crash.
FinalRelease(p) ==
    /\ pstate[p] = "terminating"
    /\ item[p] # Null /\ phase[p] # "thread"
    /\ Release(p, phase[p] = "complete")
    /\ UNCHANGED <<slotVars, procVars, envVars, wanted>>

\* The exit hook of a worker without a task gives up the slot.
ExitWorker(p) ==
    /\ pstate[p] \in {"quitting", "terminating"}
    /\ item[p] = Null
    /\ owners' = [owners EXCEPT ![slot[p]] = Null]
    /\ Gone(p)
    /\ UNCHANGED <<zoneVars, epochs, taskVars, envVars, ghostVars>>

\* A worker dies outside the lock, or exits while its thread is walking.  One
\* that dies before init_worker never touched the zone.
Crash(p) ==
    /\ p \in Workers
    /\ Gone(p)
    /\ UNCHANGED <<zoneVars, slotVars, taskVars, envVars, ghostVars>>

\* The system gives a free process id to an unrelated process.
OtherStart(p) ==
    /\ p \in Reusable /\ pstate[p] = "none"
    /\ pstate' = [pstate EXCEPT ![p] = "other"]
    /\ UNCHANGED <<zoneVars, slotVars, taskVars, slot, conf, workVars, envVars,
                   ghostVars>>

\* The unrelated process ends.
OtherExit(p) ==
    /\ pstate[p] = "other"
    /\ pstate' = [pstate EXCEPT ![p] = "none"]
    /\ UNCHANGED <<zoneVars, slotVars, taskVars, slot, conf, workVars, envVars,
                   ghostVars>>

\* nginx stores a response in the cache.
Store(f) ==
    /\ f \notin files
    /\ files' = files \cup {f}
    /\ UNCHANGED <<zoneVars, slotVars, taskVars, procVars, workVars, requests,
                   ghostVars>>

\* The cache manager or an exact purge removes a file.
Evict(f) ==
    /\ f \in files
    /\ files' = files \ {f}
    /\ due' = due \cap (Keys \X files')
    /\ UNCHANGED <<zoneVars, slotVars, taskVars, procVars, workVars, requests,
                   wanted>>

-----------------------------------------------------------------------------
(* Specification *)

\* What the module's code does in process p.
WorkerStep(p) ==
    \/ \E k \in Keys : Coalesce(p, k) \/ Admit(p, k)
    \/ RotateDelayed(p) \/ Claim(p) \/ PostThread(p)
    \/ \E f \in Files : Visit(p, f)
    \/ \E lost \in SUBSET Files : WalkError(p, lost)
    \/ WalkDone(p) \/ Finish(p) \/ Recover(p)
    \/ InitWorker(p) \/ FinalRelease(p) \/ ExitWorker(p)

\* What is done to process p.
ProcessStep(p) ==
    \/ \E s \in Slots, c \in Confs : Spawn(p, s, c)
    \/ Quit(p) \/ Terminate(p) \/ Crash(p)
    \/ OtherStart(p) \/ OtherExit(p)

Next ==
    \/ \E p \in Pids : WorkerStep(p) \/ ProcessStep(p)
    \/ \E k \in Keys : RetryDue(k)
    \/ \E f \in Files : Store(f) \/ Evict(f)

Spec == Init /\ [][Next]_vars

\* What one call of process_queue, or the thread it posted, does next.
ProcessQueue(p) ==
    \/ RotateDelayed(p) \/ Claim(p)
    \/ \E f \in Files : Visit(p, f)
    \/ WalkDone(p) \/ Finish(p)

\* A worker's timer is re-armed until it is exiting without a task, threads
\* run, and no trylock fails for ever; retry times come.
Fairness ==
    /\ \A p \in Pids : /\ WF_vars(ProcessQueue(p)) /\ WF_vars(Recover(p))
                       /\ WF_vars(InitWorker(p))
                       /\ WF_vars(FinalRelease(p) \/ ExitWorker(p))
    /\ \A k \in Keys : WF_vars(RetryDue(k))

\* The master refills every slot: process ids come free and a fork succeeds
\* in the end.
Refilled ==
    /\ \A s \in Slots : SF_vars(\E p \in Pids, c \in Confs : Spawn(p, s, c))
    /\ \A p \in Pids : WF_vars(OtherExit(p))

LiveSpec == Spec /\ Fairness /\ Refilled

\* After a reload with fewer workers some slots stay empty, and an unrelated
\* process may run for ever.
ShrunkSpec == Spec /\ Fairness /\ \A p \in Pids : SF_vars(Recover(p))

-----------------------------------------------------------------------------
(* Invariants *)

Phases == {"idle", "scan", "thread", "complete"}
PStates == {"none", "other", "booting", "fatal", "up", "quitting", "terminating"}

\* The type invariant.
TypeOK ==
    /\ index \subseteq Keys
    /\ pending \in Seq(Keys) /\ active \in Seq(Keys)
    /\ size \in Nat /\ running \in Nat
    /\ oldest \in Keys \cup {Null}
    /\ owners \in [Slots -> Pids \cup {Null}]
    /\ epochs \in [Slots -> Nat]
    /\ busy \subseteq Keys /\ rerun \subseteq Keys /\ delayed \subseteq Keys
    /\ retries \in [Keys -> 0..MaxRetries]
    /\ owner \in [Keys -> Pids \cup {Null}]
    /\ ownerSlot \in [Keys -> Slots \cup {Null}]
    /\ ownerEpoch \in [Keys -> Nat]
    /\ protection \in [Keys -> Confs \cup {Null}]
    /\ nextProtection \in [Keys -> Confs \cup {Null}]
    /\ pstate \in [Pids -> PStates]
    /\ slot \in [Pids -> Slots \cup {Null}]
    /\ conf \in [Pids -> Confs \cup {Null}]
    /\ item \in [Pids -> Keys \cup {Null}]
    /\ phase \in [Pids -> Phases]
    /\ todo \in [Pids -> SUBSET Files]
    /\ failed \subseteq Pids
    /\ walkProtection \in [Pids -> Confs \cup {Null}]
    /\ files \subseteq Files
    /\ requests \in Nat
    /\ due \subseteq Keys \X Files
    /\ wanted \in [Keys -> Confs \cup {Null}]

\* Every indexed task is on exactly one list, once; the counters are the
\* lengths and the running flag says which list (the rbtree comment "Pending
\* and running tasks remain indexed until final completion").
QueueConsistent ==
    /\ IsInjective(pending) /\ IsInjective(active)
    /\ Range(pending) \cap Range(active) = {}
    /\ index = Range(pending) \cup Range(active)
    /\ size = Len(pending) /\ running = Len(active)
    /\ busy = Range(active)

\* Replays, retries and recovered tasks never overrun the admission bound:
\* "Active work retains its admission credit until final completion".
WithinCapacity == Len(pending) + Len(active) <= MaxSize

\* queue->oldest, from which wait_time is computed, is the enqueue time of a
\* task that is still pending.
WaitTimeOfPending == pending # <<>> => oldest \in Range(pending)

\* The task a worker holds is active and its owner marks convince recover:
\* no other worker can be given it while the holder lives.
HolderKeepsTask ==
    \A p \in Pids : item[p] # Null =>
        /\ item[p] \in Range(active)
        /\ owner[item[p]] = p
        /\ LooksOwned(item[p])

\* The worker that died left task k behind.
Orphan(k) == k \in Range(active) /\ \A p \in Pids : item[p] # k

\* A successor in the slot always exposes the tasks of its predecessor, even
\* when it was given the same process id: that is what the epochs are for.
SuccessorExposesOrphan ==
    \A k \in Keys, p \in Pids :
        Orphan(k) /\ Serving(p) /\ slot[p] = ownerSlot[k] => ~LooksOwned(k)

\* A file that was there when a purge of k was accepted, and still is, will
\* be visited by a pass that has not passed it yet: the task is pending, or
\* will be replayed, or lost its worker, or its walk has yet to come to the
\* file or has counted an error and will be retried.  Two passes end what was
\* asked for (due) without that: the last one of a task whose retries are used
\* up (Finish), and one of a worker whose configuration does not have the
\* namespace, which walks nothing (StartWork).
NoLostPurge ==
    \A k \in Keys, f \in Files : <<k, f>> \in due =>
        /\ k \in index
        /\ \/ k \in Range(pending) \cup rerun
           \/ \A p \in Pids : item[p] = k => f \in todo[p] \/ p \in failed

\* The next pass over k uses the protected paths of the configuration that
\* accepted the latest purge of k.
NewestProtection ==
    \A k \in index :
        IF k \in busy /\ nextProtection[k] # Null
           THEN nextProtection[k] = wanted[k]
           ELSE protection[k] = wanted[k]

-----------------------------------------------------------------------------
(* What the invariants rest on *)

\* A slot has at most one process, and a worker's slot names it as its owner.
SlotsConsistent ==
    /\ \A p \in Pids : pstate[p] \notin {"none", "other"}
                        => slot[p] \in Slots /\ conf[p] \in Confs
    /\ \A p \in Pids : pstate[p] \in {"none", "other"} => slot[p] = Null
    /\ \A p, q \in Pids : slot[p] # Null /\ slot[p] = slot[q] => p = q
    /\ \A p \in Workers : owners[slot[p]] = p

\* A worker's task is active and carries its id, its slot and the slot's epoch.
WorkConsistent ==
    \A p \in Pids :
        /\ item[p] = Null <=> phase[p] = "idle"
        /\ item[p] # Null =>
              /\ p \in Workers
              /\ item[p] \in Range(active)
              /\ owner[item[p]] = p
              /\ ownerSlot[item[p]] = slot[p]
              /\ ownerEpoch[item[p]] = epochs[slot[p]]
              /\ phase[p] = "complete" => todo[p] = {}

\* Epochs only grow, and in the present epoch of a slot only the task its
\* worker holds is marked.
EpochsConsistent ==
    \A k \in Range(active) :
        /\ ownerSlot[k] \in Slots
        /\ ownerEpoch[k] <= epochs[ownerSlot[k]]
        /\ \A p \in Workers :
              slot[p] = ownerSlot[k] /\ epochs[slot[p]] = ownerEpoch[k]
                 => item[p] = k

\* A replay was asked for by a purge whose protection it will use, and a pass
\* nobody asked to repeat uses the newest protection.
ProtectionConsistent ==
    /\ rerun \subseteq busy
    /\ \A k \in Keys : k \in rerun <=> nextProtection[k] # Null
    /\ \A k \in index : protection[k] \in Confs /\ wanted[k] \in Confs
    /\ \A p \in Pids : item[p] # Null /\ item[p] \notin rerun
                        => walkProtection[p] = wanted[item[p]]
    /\ \A k \in Keys, f \in Files :
          <<k, f>> \in due => f \in (files \cap Match[k]) \ Protected[wanted[k]]

-----------------------------------------------------------------------------
(* Temporal properties *)

\* No worker can be started any more.
OutOfWorkers ==
    /\ \A s \in Slots : epochs[s] = MaxEpoch
    /\ \A p \in Pids : ~Serving(p)

\* The owner of task k died in the last worker life of its slot, and its
\* process id belongs to another process.
Stranded(k) ==
    Orphan(k) /\ LooksOwned(k) /\ epochs[ownerSlot[k]] = MaxEpoch

\* An accepted task is retired in the end, through crashes, failed passes,
\* replays and delayed retries, as long as its slot can be filled again.
AcceptedIsRetired ==
    \A k \in Keys :
        k \in index ~> k \notin index \/ OutOfWorkers \/ Stranded(k)

\* "Workers ... requeue work whose owner exited" (docs/ARCHITECTURE.md): an
\* orphan does not stay one while some worker is serving.
OrphanIsRequeued ==
    \A k \in Keys : Orphan(k) ~> ~Orphan(k) \/ \A p \in Pids : ~Serving(p)

=============================================================================
