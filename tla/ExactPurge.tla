----------------------------- MODULE ExactPurge -----------------------------
(***************************************************************************)
(* The exact purge of a key: nginx's own entry for the cache file is       *)
(* cleared under the lock of the cache, and the file is unlinked after it. *)
(* With cache_purge_vary_aware a walk then does the same to every file of  *)
(* the key.  Other purges, stores, the cache manager and the cache loader  *)
(* come in between, workers die, and a restart forgets the entries but not *)
(* the files.  The manager takes the size of an entry off, unlinks its     *)
(* file without the lock, and only then removes the entry.                 *)
(***************************************************************************)
EXTENDS Integers, FiniteSets, FiniteSetsExt

CONSTANTS
    Nodes,        \* the entries of one key: the primary and its variants
    Purgers,      \* PURGE requests
    MaxStores,    \* bound: responses stored
    MaxFaults,    \* bound: reads and unlinks that fail, workers that die
    MaxRestarts,  \* bound: restarts
    Null

ASSUME ExactPurgeAssumption ==
    /\ IsFiniteSet(Nodes) /\ Null \notin Nodes \cup Purgers
    /\ MaxStores \in Nat

VARIABLES
    vary,      \* cmcf->vary_aware
    exists,    \* exists[n]: node->exists
    size,      \* size[n]: node->fs_size
    total,     \* cache->sh->size
    met,       \* history: the entries somebody came to while they were evicted
    cold,      \* cache->sh->cold: the loader is under way
    file,      \* file[n]: the response on disk, 0 if none; its number is its size
    storing,   \* storing[n]: a response that was renamed and not accounted for, or 0
    evicting,  \* evicting[n]: "no", or how far the manager is with n
    loading,   \* loading[n]: what the loader did with the file of n
    req,       \* req[p]: the purge
    stores, faults, restarts,
    promised,  \* <<p, n, f>>: p was told that f is gone from n
    lost       \* <<p, n, f>>: p cleared n and did not unlink f; or, with Null for
               \* p, nginx itself left f without an entry

node == <<exists, size, total, met>>
nginx == <<evicting, loading>>
vars == <<vary, exists, size, total, met, cold, file, storing, evicting, loading, req,
          stores, faults, restarts, promised, lost>>

\* A request and, when it has ended, all that is left of it.
Fresh == [pc |-> "new", target |-> Null, opened |-> 0, old |-> {}, todo |-> {},
          at |-> Null, deleted |-> FALSE, deleteErrors |-> FALSE,
          scanErrors |-> FALSE, answer |-> Null]

Ended(answer) == [Fresh EXCEPT !.pc = "done", !.answer = answer]

SumOf(f) == MapThenSumSet(LAMBDA n : f[n], Nodes)

Init ==
    /\ vary \in BOOLEAN
    /\ cold = FALSE
    /\ file \in [Nodes -> {0, 1}]
    /\ exists = [n \in Nodes |-> file[n] # 0]
    /\ size = file
    /\ total = SumOf(file) /\ met = {}
    /\ storing = [n \in Nodes |-> 0]
    /\ evicting = [n \in Nodes |-> "no"] /\ loading = [n \in Nodes |-> "done"]
    /\ req = [p \in Purgers |-> Fresh]
    /\ stores = 0 /\ faults = 0 /\ restarts = 0
    /\ promised = {} /\ lost = {}

-----------------------------------------------------------------------------
(* What every step does to an entry *)

\* The manager has taken the size of n off and not removed n yet.
Met(n) == IF evicting[n] # "no" THEN met \cup {n} ELSE met

\* Fault: the entry keeps its size.
ClearMutant(n) ==
    /\ exists' = [exists EXCEPT ![n] = FALSE]
    /\ total' = total - size[n]
    /\ met' = Met(n)
    /\ UNCHANGED size

\* A section of the lock: the entry is cleared.
Clear(n) ==
    /\ exists' = [exists EXCEPT ![n] = FALSE]
    /\ size' = [size EXCEPT ![n] = 0]
    /\ total' = total - size[n]
    /\ met' = Met(n)

\* The entry is that of the response f.
Set(n, f) ==
    /\ exists' = [exists EXCEPT ![n] = TRUE]
    /\ size' = [size EXCEPT ![n] = f]
    /\ total' = total + f - size[n]
    /\ met' = Met(n)

\* While the cache is cold a file is looked for that has no entry yet.
Servable(n) == file[n] # 0 /\ (exists[n] \/ cold)

\* What a cold cache learns when it reads the file.
Adopt(n, f) == IF cold /\ ~exists[n] THEN Set(n, f) ELSE UNCHANGED node

\* A purge is between the section and the unlink of n.
Unlinking(p, n) == req[p].pc \in {"unlink", "unlinkVariant"} /\ req[p].at = n

-----------------------------------------------------------------------------
(* ngx_http_cache_purge_handler and ngx_http_file_cache_purge *)

\* Fault: variants are only looked for if the entry was there.
WalksVariantsMutant(rc) == vary /\ rc = "ok"

\* NGX_OK and NGX_DECLINED both lead to the variants.
WalksVariants(rc) == vary

\* What the handler does with the result of the exact purge.
Handled(r, rc) ==
    IF rc \in {"ok", "declined"}
    THEN [r EXCEPT !.pc = "walk", !.at = Null, !.deleted = (rc = "ok"),
                   !.todo = IF WalksVariants(rc) THEN Nodes ELSE {}]
    ELSE Ended(IF rc = "busy" THEN "delete_failed" ELSE "internal_error")

\* The files a purge of n that succeeds is about: those that are there when it
\* begins, no store being under way.
Covered(n) ==
    LET present == {m \in Nodes : file[m] # 0 /\ storing[m] = 0}
    IN  {<<m, file[m]>> : m \in IF vary THEN present ELSE present \cap {n}}

\* The entry n is the one for the headers of the request.
Open(p, n) ==
    /\ req[p].pc = "new"
    /\ LET r == [req[p] EXCEPT !.target = n, !.old = Covered(n)]
       IN  \/ /\ ~Servable(n)
              /\ req' = [req EXCEPT ![p] = Handled(r, "declined")]
              /\ UNCHANGED node
           \/ /\ Servable(n)                         \* read, or NGX_AGAIN
              /\ \/ req' = [req EXCEPT ![p] = [r EXCEPT !.pc = "section"]] /\ Adopt(n, file[n])
                 \/ req' = [req EXCEPT ![p] = [r EXCEPT !.pc = "reading", !.opened = file[n]]]
                    /\ UNCHANGED node
    /\ UNCHANGED <<vary, cold, file, storing, nginx, stores, faults, restarts, promised, lost>>

\* The file was read asynchronously; the open file outlives its name.
Reenter(p) ==
    /\ req[p].pc = "reading"
    /\ req' = [req EXCEPT ![p].pc = "section", ![p].opened = 0]
    /\ Adopt(req[p].target, req[p].opened)
    /\ UNCHANGED <<vary, cold, file, storing, nginx, stores, faults, restarts, promised, lost>>

\* The file cannot be opened or read.
OpenFails(p, n) ==
    /\ \/ req[p].pc = "new"
       \/ req[p].pc = "reading" /\ req[p].target = n
    /\ faults < MaxFaults /\ faults' = faults + 1
    /\ req' = [req EXCEPT ![p] = Handled([@ EXCEPT !.target = n], "error")]
    /\ UNCHANGED <<node, vary, cold, file, storing, nginx, stores, restarts, promised, lost>>

\* The lock of the cache: only an entry that still exists is cleared.
Section(p) ==
    /\ req[p].pc = "section"
    /\ LET n == req[p].target
       IN  IF exists[n]
           THEN Clear(n) /\ req' = [req EXCEPT ![p].pc = "unlink", ![p].at = n]
           ELSE req' = [req EXCEPT ![p] = Handled(@, "declined")] /\ UNCHANGED node
    /\ UNCHANGED <<vary, cold, file, storing, nginx, stores, faults, restarts, promised, lost>>

\* Fault: a file that cannot be unlinked is taken for one that is not there.
UnlinkErrorMutant == "declined"

\* What a failed unlink leads to.
UnlinkError == "busy"

\* The unlink, after the section; the file may be gone, or another one.
Unlink(p) ==
    /\ req[p].pc = "unlink"
    /\ LET n == req[p].at
       IN  \/ /\ file' = [file EXCEPT ![n] = 0]
              /\ req' = [req EXCEPT ![p] = Handled(@, IF file[n] # 0 THEN "ok" ELSE "declined")]
              /\ UNCHANGED <<faults, lost>>
           \/ /\ file[n] # 0 /\ faults < MaxFaults /\ faults' = faults + 1
              /\ req' = [req EXCEPT ![p] = Handled(@, UnlinkError)]
              /\ lost' = lost \cup {<<p, n, file[n]>>}
              /\ UNCHANGED file
    /\ UNCHANGED <<node, vary, cold, storing, nginx, stores, restarts, promised>>

-----------------------------------------------------------------------------
(* ngx_http_cache_purge_delete_variants *)

\* Fault: the entry is cleared before the key of the file is read.
ReadMutant(p, n) ==
    /\ req[p].pc = "walk" /\ n \in req[p].todo /\ exists[n]
    /\ Clear(n)
    /\ \/ /\ req' = [req EXCEPT ![p].todo = @ \ {n}, ![p].pc = "unlinkVariant", ![p].at = n]
          /\ UNCHANGED faults
       \/ /\ faults < MaxFaults /\ faults' = faults + 1
          /\ req' = [req EXCEPT ![p].todo = @ \ {n}, ![p].scanErrors = TRUE]
    /\ UNCHANGED <<vary, cold, file, storing, nginx, stores, restarts, promised, lost>>

\* The walk comes to the file of n and reads its key.
Read(p, n) ==
    /\ req[p].pc = "walk" /\ n \in req[p].todo
    /\ \/ /\ file[n] = 0
          /\ req' = [req EXCEPT ![p].todo = @ \ {n}]
          /\ UNCHANGED faults
       \/ /\ file[n] # 0
          /\ req' = [req EXCEPT ![p].todo = @ \ {n}, ![p].pc = "invalidate", ![p].at = n]
          /\ UNCHANGED faults
       \/ /\ faults < MaxFaults /\ faults' = faults + 1
          /\ req' = [req EXCEPT ![p].todo = @ \ {n}, ![p].scanErrors = TRUE]
    /\ UNCHANGED <<node, vary, cold, file, storing, nginx, stores, restarts, promised, lost>>

\* invalidate_node: no purge holds a reference to this entry.
InvalidateNode(p) ==
    /\ req[p].pc = "invalidate"
    /\ req' = [req EXCEPT ![p].pc = "unlinkVariant"]
    /\ IF exists[req[p].at] THEN Clear(req[p].at) ELSE UNCHANGED node
    /\ UNCHANGED <<vary, cold, file, storing, nginx, stores, faults, restarts, promised, lost>>

UnlinkVariant(p) ==
    /\ req[p].pc = "unlinkVariant"
    /\ LET n == req[p].at
       IN  \/ /\ file' = [file EXCEPT ![n] = 0]
              /\ req' = [req EXCEPT ![p].pc = "walk", ![p].at = Null,
                                    ![p].deleted = @ \/ file[n] # 0]
              /\ UNCHANGED <<faults, lost>>
           \/ /\ file[n] # 0 /\ faults < MaxFaults /\ faults' = faults + 1
              /\ req' = [req EXCEPT ![p].pc = "walk", ![p].at = Null,
                                    ![p].deleteErrors = TRUE]
              /\ lost' = lost \cup {<<p, n, file[n]>>}
              /\ UNCHANGED file
    /\ UNCHANGED <<node, vary, cold, storing, nginx, stores, restarts, promised>>

\* Fault: what could not be read is forgotten.
ReplyMutant(r) ==
    CASE r.deleteErrors -> "delete_failed"
      [] ~r.deleteErrors /\ r.deleted -> "purged"
      [] OTHER -> "no_match"

\* walk_reply
Reply(r) ==
    CASE r.deleteErrors -> "delete_failed"
      [] ~r.deleteErrors /\ r.scanErrors -> "scan_failed"
      [] ~r.deleteErrors /\ ~r.scanErrors /\ r.deleted -> "purged"
      [] OTHER -> "no_match"

Answer(p) ==
    /\ req[p].pc = "walk" /\ req[p].todo = {}
    /\ LET answer == Reply(req[p])
       IN  /\ req' = [req EXCEPT ![p] = Ended(answer)]
           /\ promised' = IF answer \in {"purged", "no_match"}
                          THEN promised \cup {<<p, x[1], x[2]>> : x \in req[p].old}
                          ELSE promised
    /\ UNCHANGED <<node, vary, cold, file, storing, nginx, stores, faults, restarts, lost>>

-----------------------------------------------------------------------------
(* nginx: stores, the cache manager, the cache loader, other walks *)

\* ngx_http_file_cache_update: the file is renamed, then accounted for.
Store(n) ==
    /\ storing[n] = 0 /\ stores < MaxStores /\ stores' = stores + 1
    /\ file' = [file EXCEPT ![n] = stores + 2]
    /\ storing' = [storing EXCEPT ![n] = stores + 2]
    /\ UNCHANGED <<node, nginx, vary, cold, req, faults, restarts, promised, lost>>

Account(n) ==
    /\ storing[n] # 0
    /\ Set(n, storing[n])
    /\ storing' = [storing EXCEPT ![n] = 0]
    /\ UNCHANGED <<nginx, vary, cold, file, req, stores, faults, restarts, promised, lost>>

\* A purge has its reference until it ends, one that died for good.
Referenced(n) ==
    \/ storing[n] # 0
    \/ \E p \in Purgers : req[p].target = n

\* The manager comes to an entry nobody refers to: its size is taken off, the
\* entry stays as it is, and the lock is given back.
EvictBegin(n) ==
    /\ exists[n] /\ ~Referenced(n) /\ evicting[n] = "no"
    /\ evicting' = [evicting EXCEPT ![n] = "marked"]
    /\ total' = total - size[n]
    /\ UNCHANGED <<exists, size, met, loading, vary, cold, file, storing, req, stores,
                   faults, restarts, promised, lost>>

EvictUnlink(n) ==
    /\ evicting[n] = "marked"
    /\ evicting' = [evicting EXCEPT ![n] = "unlinked"]
    /\ \/ file' = [file EXCEPT ![n] = 0] /\ UNCHANGED faults
       \/ /\ file[n] # 0 /\ faults < MaxFaults /\ faults' = faults + 1
          /\ UNCHANGED file
    /\ UNCHANGED <<node, loading, vary, cold, storing, req, stores, restarts, promised, lost>>

\* The lock again: the entry is removed, unless somebody refers to it by now.
EvictEnd(n) ==
    /\ evicting[n] = "unlinked"
    /\ evicting' = [evicting EXCEPT ![n] = "no"]
    /\ IF Referenced(n) THEN met' = Met(n) /\ UNCHANGED <<exists, size, lost>>
       ELSE /\ UNCHANGED met
            /\ exists' = [exists EXCEPT ![n] = FALSE]
            /\ size' = [size EXCEPT ![n] = 0]
            /\ lost' = IF exists[n] /\ file[n] # 0 THEN lost \cup {<<Null, n, file[n]>>} ELSE lost
    /\ UNCHANGED <<total, loading, vary, cold, file, storing, req, stores, faults, restarts,
                   promised>>

\* A walk for a prefix or for everything leaves the entries alone.
BulkUnlink(n) ==
    /\ file[n] # 0
    /\ file' = [file EXCEPT ![n] = 0]
    /\ UNCHANGED <<node, nginx, vary, cold, storing, req, stores, faults, restarts, promised, lost>>

\* There is an entry for n, whether its file is known or not.
InTree(n) == exists[n] \/ Referenced(n) \/ evicting[n] # "no"

\* The loader comes to the place of the file of n: it leaves an entry alone,
\* and has no memory for one or cannot read the file.
Load(n) ==
    /\ cold /\ loading[n] = "todo"
    /\ \/ /\ file[n] # 0 /\ ~InTree(n)
          /\ Set(n, file[n])
          /\ loading' = [loading EXCEPT ![n] = "done"] /\ UNCHANGED faults
       \/ /\ file[n] = 0 \/ exists[n]
          /\ loading' = [loading EXCEPT ![n] = "done"] /\ UNCHANGED <<node, faults>>
       \/ /\ file[n] # 0 /\ ~exists[n]
          /\ \/ InTree(n) /\ UNCHANGED faults
             \/ faults < MaxFaults /\ faults' = faults + 1
          /\ loading' = [loading EXCEPT ![n] = "skipped"] /\ UNCHANGED node
    /\ UNCHANGED <<evicting, vary, cold, file, storing, req, stores, restarts, promised, lost>>

\* A file without an entry, which nobody is about to store or to unlink.
Unknown(n) ==
    /\ file[n] # 0 /\ ~exists[n] /\ storing[n] = 0
    /\ \A p \in Purgers : ~Unlinking(p, n)

\* The loader has been everywhere; what it skipped may have no entry.
Loaded ==
    /\ cold /\ \A n \in Nodes : loading[n] # "todo"
    /\ cold' = FALSE
    /\ lost' = lost \cup {<<Null, n, file[n]>> : n \in {m \in Nodes : loading[m] = "skipped"
                                                                  /\ Unknown(m)}}
    /\ loading' = [n \in Nodes |-> "done"]
    /\ UNCHANGED <<node, evicting, vary, file, storing, req, stores, faults, restarts, promised>>

\* What the purges in dead leave behind.
Abandoned(dead) ==
    {<<x[1], x[2], file[x[2]]>> : x \in {y \in dead \X Nodes : Unlinking(y[1], y[2])}}

\* A worker dies in the middle of a purge; nobody gives its reference back.
Die(p) ==
    /\ req[p].pc \notin {"new", "done", "dead"}
    /\ faults < MaxFaults /\ faults' = faults + 1
    /\ lost' = lost \cup Abandoned({p})
    /\ req' = [req EXCEPT ![p] = [Fresh EXCEPT !.pc = "dead", !.target = req[p].target]]
    /\ UNCHANGED <<node, nginx, vary, cold, file, storing, stores, restarts, promised>>

\* The entries are lost, the files are not; the loader begins.
Restart ==
    /\ restarts < MaxRestarts /\ restarts' = restarts + 1
    /\ cold' = TRUE
    /\ exists' = [n \in Nodes |-> FALSE]
    /\ size' = [n \in Nodes |-> 0]
    /\ total' = 0 /\ met' = {}
    /\ storing' = [n \in Nodes |-> 0]
    /\ evicting' = [n \in Nodes |-> "no"] /\ loading' = [n \in Nodes |-> "todo"]
    /\ req' = [p \in Purgers |->
                  IF req[p].pc \in {"new", "done"} THEN req[p] ELSE [Fresh EXCEPT !.pc = "dead"]]
    /\ lost' = lost \cup Abandoned(Purgers)
    /\ UNCHANGED <<vary, file, stores, faults, promised>>

-----------------------------------------------------------------------------

Next ==
    \/ \E p \in Purgers :
          \/ \E n \in Nodes : Open(p, n) \/ OpenFails(p, n) \/ Read(p, n)
          \/ Reenter(p) \/ Section(p) \/ Unlink(p) \/ InvalidateNode(p)
          \/ UnlinkVariant(p) \/ Answer(p) \/ Die(p)
    \/ \E n \in Nodes :
          \/ Store(n) \/ Account(n) \/ BulkUnlink(n) \/ Load(n)
          \/ EvictBegin(n) \/ EvictUnlink(n) \/ EvictEnd(n)
    \/ Loaded \/ Restart

Spec == Init /\ [][Next]_vars

-----------------------------------------------------------------------------
(* Properties *)

\* The type invariant; a purge is at an entry exactly while it has it in hand.
TypeOK ==
    /\ exists \in [Nodes -> BOOLEAN]
    /\ evicting \in [Nodes -> {"no", "marked", "unlinked"}]
    /\ loading \in [Nodes -> {"todo", "skipped", "done"}]
    /\ \A n \in Nodes : {size[n], file[n], storing[n]} \subseteq 0..MaxStores + 1
    /\ \A p \in Purgers :
          /\ req[p].pc \in {"new", "reading", "section", "unlink", "walk", "invalidate",
                            "unlinkVariant", "done", "dead"}
          /\ req[p].at \in Nodes <=> req[p].pc \in {"unlink", "invalidate", "unlinkVariant"}

\* The sizes that count; the manager has taken off what it is evicting.
Counted == [n \in Nodes |-> IF evicting[n] = "no" THEN size[n] ELSE 0]

\* The size of the cache is the sum of the sizes of its entries, but for those
\* the manager is evicting, as long as nobody has cleared, filled or held an
\* entry between the two sections of its eviction: whoever clears such an entry
\* takes its size off a second time.
SizeExact == met = {} => total = SumOf(Counted)

\* No file is left on disk that a warm cache does not know of: the manager
\* would never remove it.  Somebody is about to store or to unlink it; or a
\* purge did not get to it, which no client was told to be a success; or nginx
\* left it: the manager could not unlink it, or removed the entry of a response
\* stored meanwhile, or the loader could not enter it.
FilesAccounted ==
    ~cold => \A n \in Nodes : Unknown(n) => \E x \in lost : x[2] = n /\ x[3] = file[n]

\* Somebody else than p left the file f without an entry.
Forsaken(p, n, f) == \E x \in lost : x[1] # p /\ x[2] = n /\ x[3] = f

\* A response that was stored when a purge began is never served after that
\* purge succeeded, nor after a restart: for the entry of the request, and for
\* all entries of the key if variants are purged.  Excepted are a file that
\* another purge cleared and did not unlink, or that nginx left without an
\* entry, which comes back with a restart; and one that another purge is about
\* to unlink, after a restart: whoever reads it while the cache is cold gives
\* it its entry back.
PurgedStaysGone ==
    \A x \in promised :
        LET n == x[2] IN
        file[n] = x[3] /\ Servable(n) =>
            \/ Forsaken(x[1], n, file[n])
            \/ restarts > 0 /\ \E p \in Purgers \ {x[1]} : Unlinking(p, n)
=============================================================================
