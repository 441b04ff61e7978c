-------------------------------- MODULE Walk --------------------------------
(***************************************************************************)
(* The resumable directory walk (ngx_cache_purge_walk.c): a stack of open  *)
(* directories, one buffer for the path, slices between which the worker   *)
(* serves requests, faults of memory and of the file system, while others  *)
(* add and remove entries and the walk itself deletes files.               *)
(*                                                                         *)
(* A path of the tree is a sequence of names; what the code compares are   *)
(* bytes, so names and the buffer are sequences of bytes.  One iteration   *)
(* of the loop is one step.                                                *)
(***************************************************************************)
EXTENDS Naturals, FiniteSets, SequencesExt

CONSTANTS
    Bytes,
    Sep,         \* the byte /
    Root,        \* name of the cache root, bytes
    Protected,   \* names of paths to keep, bytes
    Names,       \* names of directory entries, bytes
    CacheNames,  \* the names that are 32 hexadecimal digits
    Trees,       \* trees to begin with: [nonempty paths -> kinds]
    Kinds,       \* "file", "dir", "link"
    Limit,       \* entries of a slice (64)
    MaxChanges,  \* bound: entries others add or remove
    MaxFaults,   \* bound: faults of memory or of the file system
    Null

\* A path without the separators at its end.
Trimmed(s) == SubSeq(s, 1, Max({1} \cup {i \in DOMAIN s : s[i] # Sep}))

\* A protected path is not the root itself: nginx refuses a temporary path that
\* is the path of a cache.
ASSUME WalkAssumption ==
    /\ Sep \in Bytes
    /\ Root \in Seq(Bytes) \ {<<>>} /\ Last(Root) # Sep
    /\ \A p \in Protected : p \in Seq(Bytes) \ {<<>>} /\ Trimmed(p) # Root
    /\ \A name \in Names : name \in Seq(Bytes) \ {<<>>} /\ Sep \notin ToSet(name)
    /\ CacheNames \subseteq Names
    /\ \A t \in Trees : \A p \in DOMAIN t :
          /\ p \in Seq(Names) \ {<<>>} /\ t[p] \in Kinds
          /\ Front(p) = <<>> \/ (Front(p) \in DOMAIN t /\ t[Front(p)] = "dir")
    /\ Limit \in Nat \ {0}
    /\ Null \notin {"new", "again", "ok", "error", "abort", "given up"}

VARIABLES
    tree,        \* kinds of the entries there are
    frames,      \* open directories, from the root: dir, len and todo
    path,        \* cursor->path
    n,           \* iterations of this slice
    errors,      \* ctx->scan_errors
    result,      \* Null, or what walk_step returns in the end
    \* history
    visited,     \* files handed to the visitor
    stable,      \* files there since the walk began and not visited yet
    handles,     \* directories opened and not closed
    faults, changes

cursor == <<frames, path, n, errors, result, handles, visited>>
vars == <<tree, cursor, stable, faults, changes>>

-----------------------------------------------------------------------------
(* Names *)

\* The bytes of a path of the tree.
Text(p) == Root \o FlattenSeq([i \in DOMAIN p |-> <<Sep>> \o p[i]])

\* Fault: a name that begins like the root is taken to be inside it.
PathContainsMutant(s, root) == IsPrefix(Trimmed(root), s)

\* The path s names root or something inside it.
PathContains(s, root) ==
    LET r == Trimmed(root)
    IN  /\ IsPrefix(r, s)
        /\ Len(s) = Len(r) \/ Last(r) = Sep \/ s[Len(r) + 1] = Sep

IsProtected(s) ==
    \/ ~PathContains(s, Root)
    \/ \E p \in Protected :
          /\ Len(p) > Len(Trimmed(Root))
          /\ PathContains(p, Root)
          /\ PathContains(s, p)

IsDir(p) == p = <<>> \/ (p \in DOMAIN tree /\ tree[p] = "dir")

Children(p) == {name \in Names : Append(p, name) \in DOMAIN tree}

-----------------------------------------------------------------------------
(* The cursor *)

Top == Last(frames)

\* Fault: the name is put after whatever the buffer holds.
WithNameMutant(name) == path \o <<Sep>> \o name

\* Put a name after the path of the directory on top.
WithName(name) == SubSeq(path, 1, Top.len) \o <<Sep>> \o name

Frame(p, s) == [dir |-> p, len |-> Len(s), todo |-> Children(p)]

Init ==
    /\ tree \in Trees
    /\ frames = <<>> /\ path = <<>> /\ n = 0 /\ errors = 0 /\ handles = {}
    /\ result = "new"
    /\ visited = {}
    /\ stable = {p \in DOMAIN tree : tree[p] = "file"}
    /\ faults = 0 /\ changes = 0

Fault == faults < MaxFaults /\ faults' = faults + 1
NoFault == UNCHANGED faults

\* The root is opened, is not there, cannot be opened, or memory is short.
Start ==
    /\ result = "new"
    /\ path' = Root
    /\ \/ /\ frames' = <<Frame(<<>>, Root)>> /\ handles' = {<<>>}
          /\ result' = Null
          /\ UNCHANGED errors /\ NoFault
       \/ /\ result' = "error" /\ errors' \in {0, 1}
          /\ UNCHANGED <<frames, handles>> /\ Fault
       \/ /\ result' = "abort" /\ errors' = 1
          /\ UNCHANGED <<frames, handles>> /\ Fault
    /\ UNCHANGED <<tree, n, visited, stable, changes>>

\* Fault: the entry that ends a slice is read first and lost.
SliceOverMutant == n > Limit

\* n > limit: the slice is over.
SliceOver == n >= Limit

Walking == result = Null /\ frames # <<>>

\* An iteration of the loop.
Iterate == Walking /\ ~SliceOver /\ n' = n + 1

\* Fault: the time is looked at before the first entry of a slice.
MayPauseMutant == TRUE

MayPause == n > 0

\* NGX_AGAIN: the limit or the time of the slice is used up.
Pause ==
    /\ Walking /\ MayPause
    /\ result' = "again"
    /\ UNCHANGED <<tree, frames, path, n, errors, handles, visited, stable, faults, changes>>

\* walk_step is called again.
Resume ==
    /\ result = "again"
    /\ result' = Null /\ n' = 0
    /\ UNCHANGED <<tree, frames, path, errors, handles, visited, stable, faults, changes>>

\* Fault: a directory that cannot be read to its end counts as read.
ReadErrorsMutant(failed) == errors

ReadErrors(failed) == IF failed THEN errors + 1 ELSE errors

\* walk_close: the directory on top is closed.
Close ==
    /\ frames' = Front(frames)
    /\ handles' = handles \ {Top.dir}
    /\ path' = SubSeq(path, 1, Top.len)

\* read_dir comes to the end of the directory, or fails; close may fail too.
EndOfDir ==
    /\ Iterate
    /\ Close
    /\ \/ Top.todo = {} /\ errors' = errors /\ NoFault
       \/ Top.todo = {} /\ errors' = errors + 1 /\ Fault
       \/ errors' = ReadErrors(TRUE) /\ Fault
    /\ UNCHANGED <<tree, result, visited, stable, changes>>

\* Fault: frames stay open when the walk is given up.
UnwoundMutant == frames' = <<>> /\ UNCHANGED handles

\* All directories are closed.
Unwound == frames' = <<>> /\ handles' = handles \ {frames[i].dir : i \in DOMAIN frames}

\* goto failed: memory is short for a name or a frame.
Abort ==
    /\ Iterate
    /\ Top.todo # {}
    /\ Unwound
    /\ path' = Root
    /\ errors' = errors + 1 /\ Fault
    /\ result' = "abort"
    /\ UNCHANGED <<tree, visited, stable, changes>>

\* The entry is taken off the directory on top.
Taken(name) == [frames EXCEPT ![Len(frames)].todo = @ \ {name}]

\* Fault: the path is not looked at before the descent.
DescendsMutant(p, s) == IsDir(p)

\* A directory that is not protected is entered.
Descends(p, s) == IsDir(p) /\ ~IsProtected(s)

\* The visitor leaves out what is protected and what is no cache file.
Visits(p, s) ==
    p \in DOMAIN tree /\ tree[p] = "file" /\ ~IsProtected(s) /\ Last(p) \in CacheNames

\* read_dir returns an entry; it may be gone by now.
Entry(name) ==
    LET p == Append(Top.dir, name)
        s == WithName(name)
    IN  /\ Iterate
        /\ name \in Top.todo
        /\ path' = s
        /\ \/ \* it cannot be examined, or opened
              /\ p \in DOMAIN tree /\ errors' = errors + 1 /\ Fault
              /\ frames' = Taken(name)
              /\ UNCHANGED <<tree, handles, visited, stable>>
           \/ \* a file, which the visitor deletes or leaves
              /\ Visits(p, s)
              /\ visited' = visited \cup {p} /\ stable' = stable \ {p}
              /\ \/ tree' = [q \in DOMAIN tree \ {p} |-> tree[q]]
                 \/ tree' = tree
              /\ frames' = Taken(name)
              /\ UNCHANGED <<handles, errors>> /\ NoFault
           \/ \* a directory
              /\ Descends(p, s)
              /\ frames' = Append(Taken(name), Frame(p, s))
              /\ handles' = handles \cup {p}
              /\ UNCHANGED <<tree, errors, visited, stable>> /\ NoFault
           \/ \* gone, protected, a link or not a cache file
              /\ ~Visits(p, s) /\ ~Descends(p, s)
              /\ frames' = Taken(name)
              /\ UNCHANGED <<tree, handles, errors, visited, stable>> /\ NoFault
        /\ UNCHANGED <<result, changes>>

\* The last directory was closed.
Finish ==
    /\ result = Null /\ frames = <<>>
    /\ result' = IF errors > 0 THEN "error" ELSE "ok"
    /\ UNCHANGED <<tree, frames, path, n, errors, handles, visited, stable, faults, changes>>

\* The owner of the cursor closes it between two slices.
GiveUp ==
    /\ result = "again"
    /\ Unwound
    /\ path' = Root
    /\ result' = "given up"
    /\ UNCHANGED <<tree, n, errors, visited, stable, faults, changes>>

Walker == Start \/ Resume \/ Pause \/ EndOfDir \/ Abort \/ Finish
          \/ \E name \in Names : Entry(name)

-----------------------------------------------------------------------------
(* Everybody else *)

\* An open directory may or may not return a name that comes later.
Create(p, kind) ==
    /\ changes < MaxChanges /\ changes' = changes + 1
    /\ p \notin DOMAIN tree /\ IsDir(Front(p))
    /\ tree' = [q \in DOMAIN tree \cup {p} |-> IF q = p THEN kind ELSE tree[q]]
    /\ \/ frames' = [i \in DOMAIN frames |->
                        IF frames[i].dir = Front(p)
                        THEN [frames[i] EXCEPT !.todo = @ \cup {Last(p)}] ELSE frames[i]]
       \/ frames' = frames
    /\ UNCHANGED <<path, n, errors, result, handles, visited, stable, faults>>

\* A file, a link or an empty directory that is not open goes.
Vanish(p) ==
    /\ changes < MaxChanges /\ changes' = changes + 1
    /\ p \in DOMAIN tree /\ Children(p) = {}
    /\ \A i \in DOMAIN frames : frames[i].dir # p
    /\ tree' = [q \in DOMAIN tree \ {p} |-> tree[q]]
    /\ stable' = stable \ {p}
    /\ UNCHANGED <<cursor, faults>>

Places == UNION {{Append(p, name) : name \in Names} : p \in {<<>>} \cup DOMAIN tree}

Others ==
    \/ \E p \in Places, kind \in Kinds : Create(p, kind)
    \/ \E p \in DOMAIN tree : Vanish(p)

Next == Walker \/ GiveUp \/ Others

\* The walk is called until it ends.
Fairness == WF_vars(Walker)

Spec == Init /\ [][Next]_vars
FairSpec == Spec /\ Fairness

-----------------------------------------------------------------------------
(* Properties *)

\* What protection means: the name itself or anything below it, component by
\* component, for names that are inside the root.
MustKeep(p) ==
    \E k \in DOMAIN p : \E q \in Protected : Text(SubSeq(p, 1, k)) = Trimmed(q)

\* The type invariant: every frame is the directory above it and one name.
TypeOK ==
    /\ \A p \in DOMAIN tree : IsDir(Front(p)) /\ tree[p] \in Kinds
    /\ \A i \in DOMAIN frames :
          /\ frames[i].todo \subseteq Names
          /\ frames[i].dir = IF i = 1 THEN <<>>
                             ELSE Append(frames[i - 1].dir, Last(frames[i].dir))
    /\ n \in 0..Limit
    /\ result \in {Null, "new", "again", "ok", "error", "abort", "given up"}
    /\ errors \in 0..faults

\* A walk that reports success has visited every cache file that was there
\* from its beginning to its end and is not protected; what it could not read
\* it reports.
NothingMissed ==
    result = "ok" => \A p \in stable : MustKeep(p) \/ Last(p) \notin CacheNames

\* The bytes of the buffer up to the length of a frame are the path of that
\* directory, through descents, returns, slices and faults: what is checked,
\* opened and deleted by that name is in that directory.
PathNamesFrames ==
    \A i \in DOMAIN frames :
        SubSeq(path, 1, frames[i].len) = Text(frames[i].dir)

\* Nothing protected is entered or visited, whatever names resemble it.
KeepsProtected ==
    /\ \A p \in visited : ~MustKeep(p)
    /\ \A i \in DOMAIN frames : ~MustKeep(frames[i].dir)

\* A directory is open exactly while the cursor has its frame: none is left
\* open when the walk ends, however it ends.
HandlesBalanced == handles = {frames[i].dir : i \in DOMAIN frames}

\* The cursor is in order: frames, the path buffer and the open directories
\* agree at the start and the end of every slice and after every fault.
CursorConsistent == TypeOK /\ PathNamesFrames /\ HandlesBalanced

\* Every walk ends: slices always advance.
WalkEnds == <>(result \in {"ok", "error", "abort", "given up"})
=============================================================================
