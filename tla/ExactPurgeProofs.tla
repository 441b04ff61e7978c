-------------------------- MODULE ExactPurgeProofs --------------------------
(***************************************************************************)
(* Proofs about ExactPurge, for every set of entries and of purges and     *)
(* every value of the bounds.                                              *)
(***************************************************************************)
EXTENDS ExactPurge, SetProofs, TLAPS

(* The inductive invariant *)

Purges == [pc : {"new", "reading", "section", "unlink", "walk", "invalidate",
                 "unlinkVariant", "done", "dead"},
           target : Nodes \cup {Null}, opened : 0..MaxStores + 1,
           old : SUBSET (Nodes \X (Nat \ {0})), todo : SUBSET Nodes,
           at : Nodes \cup {Null}, deleted : BOOLEAN, deleteErrors : BOOLEAN,
           scanErrors : BOOLEAN,
           answer : {Null, "purged", "no_match", "delete_failed", "scan_failed",
                     "internal_error"}]

\* A purge is at an entry from the time it clears it until it has unlinked the
\* file; it has one entry of its own from when it opened it, and it is about that
\* one only unless variants are purged.
Located(r) ==
    /\ r.at \in Nodes <=> r.pc \in {"unlink", "invalidate", "unlinkVariant"}
    /\ r.pc \in {"reading", "section", "unlink", "walk", "invalidate", "unlinkVariant"}
          => r.target \in Nodes
    /\ r.pc = "unlink" => r.at = r.target
    /\ vary \/ \A x \in r.old : x[1] = r.target

Domains ==
    /\ vary \in BOOLEAN /\ cold \in BOOLEAN
    /\ exists \in [Nodes -> BOOLEAN]
    /\ size \in [Nodes -> 0..MaxStores + 1]
    /\ file \in [Nodes -> 0..MaxStores + 1]
    /\ storing \in [Nodes -> 0..MaxStores + 1]
    /\ evicting \in [Nodes -> {"no", "marked", "unlinked"}]
    /\ loading \in [Nodes -> {"todo", "skipped", "done"}]
    /\ req \in [Purgers -> Purges]
    /\ \A p \in Purgers : Located(req[p])
    /\ stores \in 0..MaxStores
    /\ restarts \in Nat
    /\ cold => restarts > 0

\* The cache knows of every file at n, or has said that it does not.
Seen(n) == ~cold \/ loading[n] = "done"

\* If it does not know of the file, somebody has left it.
Known(n) == Unknown(n) => \E x \in lost : x[2] = n /\ x[3] = file[n]

\* What FilesAccounted says holds for an entry as soon as the loader has been
\* there.
AllKnown == \A n \in Nodes : Seen(n) => Known(n)

\* The files that are there, no store being under way.
Present == {<<n, file[n]>> : n \in {m \in Nodes : file[m] # 0 /\ storing[m] = 0}}

\* f is the number of a response that n had, and never will have again.
Old(n, f) == f <= stores + 1 /\ storing[n] # f

\* A file whose store is under way is that of the store, and the purges that
\* know of a response of n knew it before.
Numbered ==
    /\ \A n \in Nodes : file[n] <= stores + 1
    /\ \A n \in Nodes : storing[n] # 0 => file[n] \in {0, storing[n]}
    /\ \A p \in Purgers : \A x \in req[p].old : Old(x[1], x[2])

Walking == {"walk", "invalidate", "unlinkVariant"}

\* A purge that did not unlink what it had cleared does not succeed.
Spoilt(r) ==
    \/ r.pc = "dead"
    \/ r.pc \in Walking /\ r.deleteErrors
    \/ r.pc = "done" /\ r.answer \notin {"purged", "no_match"}

Blamed == \A x \in lost : x[1] = Null \/ (x[1] \in Purgers /\ Spoilt(req[x[1]]))

\* Another purge is to unlink the response f of n, or somebody else should have.
Left(p, n, f) == Forsaken(p, n, f) \/ \E q \in Purgers \ {p} : Unlinking(q, n)

\* What p may say of the response f of n when it is done with n.
Gone(p, n, f) ==
    file[n] = f /\ Servable(n) =>
        \/ Forsaken(p, n, f)
        \/ restarts > 0 /\ \E q \in Purgers \ {p} : Unlinking(q, n)

\* A purge that will try the section finds the entry there unless another purge
\* got ahead of it.
Opened(p) ==
    req[p].pc = "section" =>
        \A x \in req[p].old :
            x[1] = req[p].target /\ file[x[1]] = x[2]
                => exists[x[1]] \/ Left(p, x[1], x[2])

\* What a purge without errors has got over with so far.
Passed(p) ==
    req[p].pc \in Walking /\ ~req[p].deleteErrors /\ ~req[p].scanErrors =>
        \A x \in req[p].old :
            x[1] \notin req[p].todo /\ x[1] # req[p].at => Gone(p, x[1], x[2])

Kept ==
    \A x \in promised :
        /\ x[1] \in Purgers /\ x[2] \in Nodes /\ x[3] \in Nat \ {0}
        /\ req[x[1]].pc = "done" /\ req[x[1]].answer \in {"purged", "no_match"}
        /\ Old(x[2], x[3]) /\ Gone(x[1], x[2], x[3])

PurgeInv ==
    /\ Domains
    /\ AllKnown
    /\ Numbered
    /\ Blamed
    /\ \A p \in Purgers : Opened(p) /\ Passed(p)
    /\ Kept

-----------------------------------------------------------------------------
(* Entries *)

NodeKept ==
    /\ exists' \in [Nodes -> BOOLEAN] /\ size' \in [Nodes -> 0..MaxStores + 1]

\* An entry is cleared.
LEMMA ClearKeeps ==
  ASSUME Domains, NEW n \in Nodes, Clear(n)
  PROVE  NodeKept /\ \A m \in Nodes : exists'[m] <=> (exists[m] /\ m # n)
<1>1. /\ exists' = [exists EXCEPT ![n] = FALSE] /\ size' = [size EXCEPT ![n] = 0]
      /\ exists \in [Nodes -> BOOLEAN] /\ size \in [Nodes -> 0..MaxStores + 1]
      /\ MaxStores \in Nat
  BY ExactPurgeAssumption DEF Clear, Domains
<1>2. QED BY <1>1 DEF NodeKept

\* An entry is set.
LEMMA SetKeeps ==
  ASSUME Domains, NEW n \in Nodes, NEW f \in 0..MaxStores + 1, Set(n, f)
  PROVE  NodeKept /\ \A m \in Nodes : exists'[m] <=> (exists[m] \/ m = n)
<1>1. /\ exists' = [exists EXCEPT ![n] = TRUE] /\ size' = [size EXCEPT ![n] = f]
      /\ exists \in [Nodes -> BOOLEAN] /\ size \in [Nodes -> 0..MaxStores + 1]
  BY DEF Set, Domains
<1>2. QED BY <1>1 DEF NodeKept

\* Steps that leave the entries alone.
LEMMA SameNodes ==
  ASSUME Domains, UNCHANGED node
  PROVE  NodeKept /\ exists' = exists
BY DEF node, NodeKept, Domains

\* A file that is read in a cold cache has an entry from then on.
LEMMA AdoptKeeps ==
  ASSUME Domains, NEW n \in Nodes, NEW f \in 0..MaxStores + 1, Adopt(n, f)
  PROVE  /\ NodeKept
         /\ \A m \in Nodes : exists[m] => exists'[m]
         /\ \A m \in Nodes : exists'[m] => exists[m] \/ cold
         /\ cold => exists'[n]
<1>1. CASE cold /\ ~exists[n]
  <2>1. Set(n, f)
    BY <1>1 DEF Adopt
  <2>2. QED BY <1>1, <2>1, SetKeeps
<1>2. CASE ~(cold /\ ~exists[n])
  <2>1. UNCHANGED node
    BY <1>2 DEF Adopt
  <2>2. QED BY <1>2, <2>1, SameNodes
<1>3. QED BY <1>1, <1>2

\* What is left of a request that has ended.
LEMMA EndedFacts ==
  ASSUME NEW a \in {"purged", "no_match", "delete_failed", "scan_failed", "internal_error"}
  PROVE  /\ Ended(a) \in Purges /\ Located(Ended(a)) /\ Ended(a).old = {}
         /\ Ended(a).pc = "done" /\ Ended(a).answer = a
<1>1. /\ Fresh \in Purges /\ Fresh.old = {} /\ Fresh.at = Null
  <2>1. 0 \in 0..MaxStores + 1
    BY ExactPurgeAssumption
  <2>2. {} \in SUBSET (Nodes \X (Nat \ {0})) /\ {} \in SUBSET Nodes
    OBVIOUS
  <2>3. QED BY <2>1, <2>2, Zenon DEF Fresh, Purges
<1>2. Ended(a) = [Fresh EXCEPT !.pc = "done", !.answer = a]
  BY DEF Ended
<1>3. Null \notin Nodes
  BY ExactPurgeAssumption
<1>4. QED BY <1>1, <1>2, <1>3 DEF Purges, Located

\* What the handler makes of a purge whose exact part is over.
LEMMA HandledFacts ==
  ASSUME NEW r \in Purges, NEW rc \in {"ok", "declined", "busy", "error"},
         r.target \in Nodes, vary \in BOOLEAN,
         vary \/ \A x \in r.old : x[1] = r.target
  PROVE  /\ Handled(r, rc) \in Purges /\ Located(Handled(r, rc))
         /\ rc \in {"ok", "declined"} =>
               /\ Handled(r, rc).pc = "walk" /\ Handled(r, rc).at = Null
               /\ Handled(r, rc).todo = IF vary THEN Nodes ELSE {}
               /\ Handled(r, rc).old = r.old /\ Handled(r, rc).target = r.target
         /\ rc \in {"busy", "error"} =>
               /\ Handled(r, rc).pc = "done" /\ Handled(r, rc).old = {}
               /\ Handled(r, rc).answer \notin {"purged", "no_match"}
<1>1. Null \notin Nodes
  BY ExactPurgeAssumption
<1>2. CASE rc \in {"ok", "declined"}
  <2>1. Handled(r, rc) = [r EXCEPT !.pc = "walk", !.at = Null, !.deleted = (rc = "ok"),
                                   !.todo = IF vary THEN Nodes ELSE {}]
    BY <1>2 DEF Handled, WalksVariants
  <2>2. (rc = "ok") \in BOOLEAN
    OBVIOUS
  <2>3. QED BY <1>1, <1>2, <2>1, <2>2 DEF Purges, Located
<1>3. CASE rc \in {"busy", "error"}
  <2>1. Handled(r, rc) = Ended(IF rc = "busy" THEN "delete_failed" ELSE "internal_error")
    BY <1>3 DEF Handled
  <2>2. PICK a \in {"delete_failed", "internal_error"} : Handled(r, rc) = Ended(a)
    BY <2>1
  <2>3. /\ Ended(a) \in Purges /\ Located(Ended(a)) /\ Ended(a).old = {}
        /\ Ended(a).pc = "done" /\ Ended(a).answer = a
    BY EndedFacts
  <2>4. QED BY <1>3, <2>2, <2>3
<1>4. QED BY <1>2, <1>3

-----------------------------------------------------------------------------
(* What any step does to an entry and to what is known of it *)

Globals ==
    /\ lost \subseteq lost'
    /\ stores' \in {stores, stores + 1}
    /\ restarts' \in Nat /\ restarts' >= restarts
    /\ cold' => cold \/ Restart

Effects(n) ==
    /\ \/ file'[n] \in {0, file[n]} /\ storing'[n] \in {0, storing[n]}
       \/ stores' = stores + 1 /\ file'[n] = stores + 2 /\ storing'[n] = stores + 2
    /\ exists'[n] => exists[n] \/ cold \/ storing[n] # 0
    /\ exists[n] /\ ~exists'[n] =>
          \/ file'[n] = 0 \/ Restart \/ \E q \in Purgers : Unlinking(q, n)'
          \/ \E x \in lost' : x[1] = Null /\ x[2] = n /\ x[3] = file'[n]
    /\ Seen(n)' => Seen(n) \/ Loaded \/ file'[n] = 0 \/ exists'[n]
    /\ storing[n] # 0 /\ storing'[n] = 0 => exists'[n] \/ Restart
    /\ \A q \in Purgers :
          Unlinking(q, n) /\ file'[n] = file[n] /\ file[n] # 0
              => Unlinking(q, n)' \/ <<q, n, file[n]>> \in lost'

\* What was forsaken stays so, and a tuple of another purge is enough for that.
LEMMA ForsakenKept ==
  ASSUME Globals, NEW p, NEW n, NEW f
  PROVE  /\ Forsaken(p, n, f) => Forsaken(p, n, f)'
         /\ \A q : q # p /\ <<q, n, f>> \in lost' => Forsaken(p, n, f)'
<1>1. ASSUME NEW q, q # p, <<q, n, f>> \in lost' PROVE Forsaken(p, n, f)'
  <2>1. <<q, n, f>>[1] = q /\ <<q, n, f>>[2] = n /\ <<q, n, f>>[3] = f
    OBVIOUS
  <2>2. QED BY <1>1, <2>1 DEF Forsaken
<1>2. QED BY <1>1 DEF Globals, Forsaken

\* A response that is still there is the one that was there, and still another
\* purge's to unlink.
LEMMA LeftKept ==
  ASSUME Domains, Globals, NEW n \in Nodes, Effects(n), NEW p \in Purgers, NEW f \in Nat \ {0},
         Left(p, n, f), file[n] = f, file'[n] = f
  PROVE  Left(p, n, f)'
<1>1. CASE Forsaken(p, n, f)
  BY <1>1, ForsakenKept DEF Left
<1>2. CASE \E q \in Purgers \ {p} : Unlinking(q, n)
  <2>1. PICK q \in Purgers \ {p} : Unlinking(q, n)
    BY <1>2
  <2>2. Unlinking(q, n)' \/ <<q, n, f>> \in lost'
    BY <2>1 DEF Effects
  <2>3. CASE Unlinking(q, n)'
    BY <2>3 DEF Left
  <2>4. CASE <<q, n, f>> \in lost'
    <3>1. Forsaken(p, n, f)'
      BY <2>4, ForsakenKept
    <3>2. QED BY <3>1 DEF Left
  <2>5. QED BY <2>2, <2>3, <2>4
<1>3. QED BY <1>1, <1>2 DEF Left

\* A number is never used twice.
LEMMA OldKept ==
  ASSUME Domains, Globals, NEW n \in Nodes, Effects(n), NEW f \in Nat \ {0}, Old(n, f)
  PROVE  Old(n, f)' /\ (file'[n] = f => file[n] = f)
<1>1. /\ stores \in Nat /\ stores' \in {stores, stores + 1} /\ f <= stores + 1
      /\ storing[n] # f
  BY ExactPurgeAssumption DEF Domains, Globals, Old
<1>2. CASE file'[n] \in {0, file[n]} /\ storing'[n] \in {0, storing[n]}
  <2>1. f <= stores' + 1
    <3>1. f \in Nat
      OBVIOUS
    <3>2. stores' \in Nat /\ stores' >= stores
      BY <1>1
    <3>3. \A a, b, c \in Int : a <= b + 1 /\ c >= b => a <= c + 1
      OBVIOUS
    <3>4. f \in Int /\ stores \in Int /\ stores' \in Int
      BY <1>1, <3>1, <3>2
    <3>5. QED BY <1>1, <3>2, <3>3, <3>4, Zenon
  <2>2. storing'[n] # f /\ (file'[n] = f => file[n] = f)
    BY <1>1, <1>2
  <2>3. QED BY <2>1, <2>2 DEF Old
<1>3. CASE stores' = stores + 1 /\ file'[n] = stores + 2 /\ storing'[n] = stores + 2
  BY <1>1, <1>3 DEF Old
<1>4. QED BY <1>2, <1>3 DEF Effects

\* What p may say of a response it may always say, if a restart finds p done.
LEMMA GoneKept ==
  ASSUME PurgeInv, Globals, NEW n \in Nodes, Effects(n), NEW p \in Purgers,
         NEW f \in Nat \ {0}, Old(n, f), Gone(p, n, f),
         Restart => ~Unlinking(p, n) /\ ~Spoilt(req[p])
  PROVE  Gone(p, n, f)'
<1> SUFFICES ASSUME file'[n] = f, exists'[n] \/ cold'
             PROVE  \/ Forsaken(p, n, f)'
                    \/ restarts' > 0 /\ \E q \in Purgers \ {p} : Unlinking(q, n)'
  BY DEF Gone, Servable
<1>1. Domains
  BY DEF PurgeInv
<1>2. file[n] = f /\ f # 0 /\ storing[n] \in Nat /\ cold \in BOOLEAN
  BY <1>1, OldKept DEF Domains
<1>3. restarts \in Nat /\ restarts' \in Nat /\ restarts' >= restarts
  BY <1>1 DEF Domains, Globals
<1>4. storing[n] = 0
  <2>1. storing[n] # 0 => file[n] \in {0, storing[n]}
    BY DEF PurgeInv, Numbered
  <2>2. storing[n] # f
    BY DEF Old
  <2>3. QED BY <1>2, <2>1, <2>2
<1>5. CASE Servable(n)
  <2>1. Forsaken(p, n, f) \/ (restarts > 0 /\ \E q \in Purgers \ {p} : Unlinking(q, n))
    BY <1>2, <1>5 DEF Gone
  <2>2. CASE Forsaken(p, n, f)
    BY <2>2, ForsakenKept
  <2>3. CASE restarts > 0 /\ \E q \in Purgers \ {p} : Unlinking(q, n)
    <3>1. PICK q \in Purgers \ {p} : Unlinking(q, n)
      BY <2>3
    <3>2. Unlinking(q, n)' \/ <<q, n, f>> \in lost'
      BY <1>2, <3>1 DEF Effects
    <3>3. restarts' > 0
      BY <1>3, <2>3
    <3>4. QED BY <3>2, <3>3, ForsakenKept
  <2>4. QED BY <2>1, <2>2, <2>3
<1>6. CASE ~Servable(n)
  <2>1. ~exists[n] /\ ~cold
    BY <1>2, <1>6 DEF Servable
  <2>2. ~exists'[n]
    BY <1>4, <2>1 DEF Effects
  <2>3. Restart
    BY <2>1, <2>2 DEF Globals
  <2>4. restarts' > 0
    BY <1>3, <2>3 DEF Restart
  <2>5. CASE \E q \in Purgers : Unlinking(q, n)
    <3>1. PICK q \in Purgers : Unlinking(q, n)
      BY <2>5
    <3>2. q # p
      BY <2>3, <3>1
    <3>3. Unlinking(q, n)' \/ <<q, n, f>> \in lost'
      BY <1>2, <3>1 DEF Effects
    <3>4. QED BY <2>4, <3>2, <3>3, ForsakenKept
  <2>6. CASE \A q \in Purgers : ~Unlinking(q, n)
    <3>1. Unknown(n) /\ Seen(n)
      BY <1>2, <1>4, <2>1, <2>6 DEF Unknown, Seen
    <3>2. PICK x \in lost : x[2] = n /\ x[3] = f
      BY <1>2, <3>1 DEF PurgeInv, AllKnown, Known
    <3>3. x[1] # p
      <4>1. p # Null
        BY ExactPurgeAssumption
      <4>2. QED BY <2>3, <4>1 DEF PurgeInv, Blamed
    <3>4. Forsaken(p, n, f)
      BY <3>2, <3>3 DEF Forsaken
    <3>5. QED BY <3>4, ForsakenKept
  <2>7. QED BY <2>5, <2>6
<1>7. QED BY <1>5, <1>6

\* No step leaves a file that nobody accounts for.
LEMMA FilesKept ==
  ASSUME PurgeInv, Globals, \A n \in Nodes : Effects(n)
  PROVE  AllKnown'
<1> SUFFICES ASSUME NEW n \in Nodes, Seen(n)', Unknown(n)'
             PROVE  \E x \in lost' : x[2] = n /\ x[3] = file'[n]
  BY DEF AllKnown, Known
<1>1. Domains /\ Effects(n) /\ lost \subseteq lost'
  BY DEF PurgeInv, Globals
<1>2. /\ file'[n] # 0 /\ ~exists'[n] /\ storing'[n] = 0
      /\ \A p \in Purgers : ~Unlinking(p, n)'
  BY DEF Unknown
<1>3. CASE Restart
  <2>1. loading'[n] # "done" /\ cold'
    BY <1>3 DEF Restart
  <2>2. QED BY <2>1 DEF Seen
<1>4. CASE Loaded
  <2>1. /\ UNCHANGED <<exists, file, storing, req>> /\ cold
        /\ loading[n] # "todo"
        /\ lost' = lost \cup {<<Null, k, file[k]>> : k \in {m \in Nodes : loading[m] = "skipped"
                                                                     /\ Unknown(m)}}
    BY <1>4 DEF Loaded, node
  <2>2. Unknown(n)
    BY <1>2, <2>1 DEF Unknown, Unlinking
  <2>3. CASE loading[n] = "skipped"
    <3>1. <<Null, n, file[n]>> \in lost'
      BY <2>1, <2>2, <2>3
    <3>2. <<Null, n, file[n]>>[2] = n /\ <<Null, n, file[n]>>[3] = file'[n]
      BY <2>1
    <3>3. QED BY <3>1, <3>2
  <2>4. CASE loading[n] = "done"
    BY <1>1, <2>1, <2>2, <2>4 DEF PurgeInv, AllKnown, Known, Seen
  <2>5. QED BY <1>1, <2>1, <2>3, <2>4 DEF Domains
<1>5. CASE ~Restart /\ ~Loaded
  <2>1. Seen(n)
    BY <1>1, <1>2, <1>5 DEF Effects
  <2>2. file'[n] \in {0, file[n]} /\ storing'[n] \in {0, storing[n]}
    <3>1. storing'[n] # stores + 2
      BY <1>1, <1>2, ExactPurgeAssumption DEF Domains
    <3>2. QED BY <1>1, <3>1 DEF Effects
  <2>3. file'[n] = file[n] /\ file[n] # 0
    BY <1>2, <2>2
  <2>4. CASE exists[n]
    BY <1>1, <1>2, <1>5, <2>4 DEF Effects
  <2>5. CASE ~exists[n]
    <3>1. storing[n] = 0
      BY <1>1, <1>2, <1>5 DEF Effects
    <3>2. CASE \E p \in Purgers : Unlinking(p, n)
      <4>1. PICK p \in Purgers : <<p, n, file[n]>> \in lost'
        BY <1>1, <1>2, <2>3, <3>2 DEF Effects
      <4>2. <<p, n, file[n]>>[2] = n /\ <<p, n, file[n]>>[3] = file'[n]
        BY <2>3
      <4>3. QED BY <4>1, <4>2
    <3>3. CASE \A p \in Purgers : ~Unlinking(p, n)
      <4>1. Unknown(n)
        BY <2>3, <2>5, <3>1, <3>3 DEF Unknown
      <4>2. QED BY <1>1, <2>1, <2>3, <4>1 DEF PurgeInv, AllKnown, Known
    <3>4. QED BY <3>2, <3>3
  <2>6. QED BY <2>4, <2>5
<1>6. QED BY <1>3, <1>4, <1>5

\* Numbers stay apart if purges learn of nothing but what is there.
LEMMA NumbersKept ==
  ASSUME PurgeInv, Globals, \A n \in Nodes : Effects(n), Domains',
         \A p \in Purgers : req'[p].old \subseteq req[p].old \cup Present
  PROVE  Numbered'
<1>1. Domains /\ Numbered /\ MaxStores \in Nat
  BY ExactPurgeAssumption DEF PurgeInv
<1>2. stores \in Nat /\ stores' \in Nat /\ stores' >= stores
  BY <1>1 DEF Domains, Globals
<1>3. ASSUME NEW n \in Nodes
      PROVE  file'[n] <= stores' + 1 /\ (storing'[n] # 0 => file'[n] \in {0, storing'[n]})
  <2>1. file[n] <= stores + 1 /\ (storing[n] # 0 => file[n] \in {0, storing[n]}) /\ Effects(n)
        /\ file[n] \in Nat
    BY <1>1 DEF Numbered, Domains
  <2>2. CASE file'[n] \in {0, file[n]} /\ storing'[n] \in {0, storing[n]}
    BY <1>2, <2>1, <2>2
  <2>3. CASE stores' = stores + 1 /\ file'[n] = stores + 2 /\ storing'[n] = stores + 2
    BY <1>2, <2>3
  <2>4. QED BY <2>1, <2>2, <2>3 DEF Effects
<1>4. ASSUME NEW p \in Purgers, NEW x \in req'[p].old PROVE Old(x[1], x[2])'
  <2>1. x[1] \in Nodes /\ x[2] \in Nat \ {0}
    BY <1>4 DEF Domains, Purges
  <2>2. Old(x[1], x[2])
    <3>1. CASE x \in req[p].old
      BY <1>1, <3>1 DEF Numbered
    <3>2. CASE x \in Present
      <4>1. PICK m \in Nodes : file[m] # 0 /\ storing[m] = 0 /\ x = <<m, file[m]>>
        BY <3>2 DEF Present
      <4>2. QED BY <1>1, <4>1 DEF Numbered, Old
    <3>3. QED BY <1>4, <3>1, <3>2
  <2>3. QED BY <1>1, <2>1, <2>2, OldKept
<1>5. QED BY <1>3, <1>4 DEF Numbered

-----------------------------------------------------------------------------
(* The steps of a purge *)

\* What x = <<p, n, f>> promises.
Promise(x) ==
    /\ x[1] \in Purgers /\ x[2] \in Nodes /\ x[3] \in Nat \ {0}
    /\ req[x[1]].pc = "done" /\ req[x[1]].answer \in {"purged", "no_match"}
    /\ Old(x[2], x[3]) /\ Gone(x[1], x[2], x[3])

\* Purge p becomes q; entries are cleared only by a purge that goes on to
\* unlink the file, and get back only in a cold cache; a purge that gives up a
\* file it had cleared says so.
Moves(p, q) ==
    /\ q \in Purges /\ Located(q)
    /\ req' = [req EXCEPT ![p] = q]
    /\ NodeKept
    /\ UNCHANGED <<nginx, vary, cold, storing, stores, restarts>>
    /\ file' \in [Nodes -> 0..MaxStores + 1] /\ \A n \in Nodes : file'[n] \in {0, file[n]}
    /\ \A n \in Nodes : exists'[n] => exists[n] \/ cold
    /\ \A n \in Nodes : exists[n] /\ ~exists'[n] =>
           q.pc \in {"unlink", "unlinkVariant"} /\ q.at = n
    /\ \A n \in Nodes : Unlinking(p, n) /\ file'[n] = file[n] /\ file[n] # 0 =>
           \/ q.pc \in {"unlink", "unlinkVariant"} /\ q.at = n
           \/ <<p, n, file[n]>> \in lost'
    /\ q.old \subseteq req[p].old \cup Present
    /\ lost \subseteq lost' /\ \A x \in lost' : x \in lost \/ (x[1] = p /\ Spoilt(q))
    /\ Spoilt(req[p]) => Spoilt(q)
    /\ req[p].pc # "done"

\* The parts of the invariant that the step of a purge keeps for all others.
LEMMA MovesKeep ==
  ASSUME PurgeInv, NEW p \in Purgers, NEW q, Moves(p, q)
  PROVE  /\ Domains' /\ AllKnown' /\ Numbered' /\ Blamed'
         /\ \A n \in Nodes : Effects(n)
         /\ Globals /\ ~Restart
         /\ req'[p] = q /\ \A o \in Purgers \ {p} : req'[o] = req[o]
         /\ \A o \in Purgers \ {p} : Opened(o)' /\ Passed(o)'
         /\ \A x \in promised : Promise(x)'
<1>1. Domains /\ Kept
  BY DEF PurgeInv
<1>2. req'[p] = q /\ \A o \in Purgers \ {p} : req'[o] = req[o]
  BY <1>1 DEF Moves, Domains
<1>3. Domains'
  <2>1. req' \in [Purgers -> Purges]
    BY <1>1 DEF Moves, Domains
  <2>2. ASSUME NEW o \in Purgers PROVE Located(req'[o])
    <3>1. CASE o = p
      BY <1>2, <3>1 DEF Moves
    <3>2. CASE o # p
      <4>1. req'[o] = req[o] /\ Located(req[o])
        BY <1>1, <1>2, <3>2 DEF Domains
      <4>2. QED BY <4>1
    <3>3. QED BY <3>1, <3>2
  <2>3. \A o \in Purgers : Located(req[o])'
    BY <2>2 DEF Located, Moves
  <2>4. /\ evicting' = evicting /\ loading' = loading
    BY DEF Moves, nginx
  <2>5. /\ vary' \in BOOLEAN /\ cold' \in BOOLEAN
        /\ exists' \in [Nodes -> BOOLEAN] /\ size' \in [Nodes -> 0..MaxStores + 1]
        /\ file' \in [Nodes -> 0..MaxStores + 1] /\ storing' \in [Nodes -> 0..MaxStores + 1]
        /\ stores' \in 0..MaxStores /\ restarts' \in Nat /\ (cold' => restarts' > 0)
    BY <1>1 DEF Moves, NodeKept, Domains
  <2>6. QED BY <1>1, <2>1, <2>3, <2>4, <2>5 DEF Domains
<1>4. Globals /\ ~Restart
  <2>1. ~Restart
    <3>1. restarts' = restarts /\ restarts \in Nat
      BY <1>1 DEF Moves, Domains
    <3>2. QED BY <3>1 DEF Restart
  <2>2. QED BY <1>1, <2>1 DEF Moves, Globals, Domains
<1>5. ASSUME NEW n \in Nodes PROVE Effects(n)
  <2>1. file'[n] \in {0, file[n]} /\ storing'[n] \in {0, storing[n]}
        /\ ~(storing[n] # 0 /\ storing'[n] = 0)
    BY DEF Moves
  <2>2. exists'[n] => exists[n] \/ cold \/ storing[n] # 0
    BY DEF Moves
  <2>3. exists[n] /\ ~exists'[n] => \E o \in Purgers : Unlinking(o, n)'
    BY <1>2 DEF Moves, Unlinking
  <2>4. ASSUME NEW o \in Purgers, Unlinking(o, n), file'[n] = file[n], file[n] # 0
        PROVE  Unlinking(o, n)' \/ <<o, n, file[n]>> \in lost'
    <3>1. CASE o = p
      BY <1>2, <2>4, <3>1 DEF Moves, Unlinking
    <3>2. CASE o # p
      BY <1>2, <2>4, <3>2 DEF Unlinking
    <3>3. QED BY <3>1, <3>2
  <2>5. Seen(n)' => Seen(n)
    BY DEF Moves, nginx, Seen
  <2>6. QED BY <2>1, <2>2, <2>3, <2>4, <2>5 DEF Effects
<1>6. AllKnown'
  BY <1>4, <1>5, FilesKept
<1>7. Numbered'
  <2>1. \A o \in Purgers : req'[o].old \subseteq req[o].old \cup Present
    BY <1>2 DEF Moves
  <2>2. QED BY <1>3, <1>4, <1>5, <2>1, NumbersKept
<1>8. Blamed'
  <2> SUFFICES ASSUME NEW x \in lost', x[1] # Null
               PROVE  x[1] \in Purgers /\ Spoilt(req'[x[1]])
    BY DEF Blamed, Spoilt
  <2>1. CASE x \in lost
    <3>1. x[1] \in Purgers /\ Spoilt(req[x[1]])
      BY <2>1 DEF PurgeInv, Blamed
    <3>2. CASE x[1] = p
      BY <1>2, <3>1, <3>2 DEF Moves
    <3>3. CASE x[1] # p
      <4>1. req'[x[1]] = req[x[1]]
        BY <1>2, <3>1, <3>3
      <4>2. QED BY <3>1, <4>1
    <3>4. QED BY <3>2, <3>3
  <2>2. CASE x \notin lost
    <3>1. x[1] = p /\ Spoilt(q)
      BY <2>2 DEF Moves
    <3>2. QED BY <1>2, <3>1
  <2>3. QED BY <2>1, <2>2
<1>9. ASSUME NEW o \in Purgers \ {p} PROVE Opened(o)'
  <2> SUFFICES ASSUME req'[o].pc = "section", NEW x \in req'[o].old,
                      x[1] = req'[o].target, file'[x[1]] = x[2]
               PROVE  exists'[x[1]] \/ Left(o, x[1], x[2])'
    BY DEF Opened
  <2>1. req'[o] = req[o]
    BY <1>2
  <2>2. x[1] \in Nodes /\ x[2] \in Nat \ {0} /\ Old(x[1], x[2])
    <3>1. x \in req[o].old /\ req[o] \in Purges
      BY <1>1, <2>1 DEF Domains
    <3>2. QED BY <3>1 DEF PurgeInv, Numbered, Purges
  <2>3. file[x[1]] = x[2] /\ Effects(x[1])
    BY <1>1, <1>4, <1>5, <2>2, OldKept
  <2>4. exists[x[1]] \/ Left(o, x[1], x[2])
    BY <2>1, <2>3 DEF PurgeInv, Opened
  <2>5. CASE Left(o, x[1], x[2])
    BY <1>1, <1>4, <2>2, <2>3, <2>5, LeftKept
  <2>6. CASE exists[x[1]] /\ ~exists'[x[1]]
    <3>1. q.pc \in {"unlink", "unlinkVariant"} /\ q.at = x[1]
      BY <2>2, <2>6 DEF Moves
    <3>2. Unlinking(p, x[1])' /\ p \in Purgers \ {o}
      BY <1>2, <3>1 DEF Unlinking
    <3>3. QED BY <3>2 DEF Left
  <2>7. QED BY <2>4, <2>5, <2>6
<1>10. ASSUME NEW o \in Purgers \ {p} PROVE Passed(o)'
  <2> SUFFICES ASSUME (req[o].pc \in Walking /\ ~req[o].deleteErrors /\ ~req[o].scanErrors)',
                      NEW x \in req'[o].old,
                      (x[1] \notin req[o].todo /\ x[1] # req[o].at)'
               PROVE  Gone(o, x[1], x[2])'
    BY DEF Passed
  <2>1. req'[o] = req[o]
    BY <1>2
  <2>2. x \in req[o].old
    BY <2>1
  <2>3. x[1] \in Nodes /\ x[2] \in Nat \ {0} /\ Old(x[1], x[2])
    <3>1. req[o] \in Purges
      BY <1>1 DEF Domains
    <3>2. QED BY <2>2, <3>1 DEF PurgeInv, Numbered, Purges
  <2>4. Gone(o, x[1], x[2])
    BY <2>1, <2>2 DEF PurgeInv, Passed
  <2>5. QED BY <1>4, <1>5, <2>3, <2>4, GoneKept
<1>11. ASSUME NEW x \in promised PROVE Promise(x)'
  <2>1. Promise(x)
    BY <1>1 DEF Kept, Promise
  <2>2. x[1] # p /\ req'[x[1]] = req[x[1]] /\ x[1] \in Purgers /\ x[2] \in Nodes
        /\ x[3] \in Nat \ {0} /\ Old(x[2], x[3]) /\ Gone(x[1], x[2], x[3]) /\ Effects(x[2])
    BY <1>2, <1>5, <2>1 DEF Promise, Moves
  <2>3. Gone(x[1], x[2], x[3])'
    BY <1>4, <2>2, GoneKept
  <2>4. Old(x[2], x[3])'
    BY <1>1, <1>4, <2>2, OldKept
  <2>5. QED BY <2>1, <2>2, <2>3, <2>4 DEF Promise
<1>12. QED BY <1>2, <1>3, <1>4, <1>5, <1>6, <1>7, <1>8, <1>9, <1>10, <1>11

\* What is left to show of a step of a purge.
LEMMA MovesInv ==
  ASSUME PurgeInv, NEW p \in Purgers, NEW q, Moves(p, q), Opened(p)', Passed(p)',
         \A x \in promised' : x \in promised \/ Promise(x)'
  PROVE  PurgeInv'
<1>1. Kept'
  BY MovesKeep DEF Kept, Promise
<1>2. \A o \in Purgers : Opened(o)' /\ Passed(o)'
  BY MovesKeep
<1>3. QED BY <1>1, <1>2, MovesKeep DEF PurgeInv

\* The types that the steps of a purge start from.
LEMMA PurgeTypes ==
  ASSUME PurgeInv, NEW p \in Purgers
  PROVE  /\ Domains /\ Null \notin Nodes
         /\ req \in [Purgers -> Purges] /\ req[p] \in Purges /\ Located(req[p])
         /\ file \in [Nodes -> 0..MaxStores + 1] /\ \A n \in Nodes : file[n] \in 0..MaxStores + 1
         /\ vary \in BOOLEAN /\ cold \in BOOLEAN
         /\ exists \in [Nodes -> BOOLEAN]
         /\ Present \in SUBSET (Nodes \X (Nat \ {0}))
<1>1. Domains /\ Null \notin Nodes
  BY ExactPurgeAssumption DEF PurgeInv
<1>2. \A n \in Nodes : file[n] \in Nat
  BY <1>1, ExactPurgeAssumption DEF Domains
<1>3. Present \in SUBSET (Nodes \X (Nat \ {0}))
  BY <1>2 DEF Present
<1>4. QED BY <1>1, <1>3 DEF Domains

\* The purge opens its entry; in a cold cache it may give it one.
LEMMA OpenInv ==
  ASSUME PurgeInv, NEW p \in Purgers, NEW n \in Nodes, Open(p, n)
  PROVE  PurgeInv'
<1> DEFINE r == [req[p] EXCEPT !.target = n, !.old = Covered(n)]
           q1 == Handled(r, "declined")
           q2 == [r EXCEPT !.pc = "section"]
           q3 == [r EXCEPT !.pc = "reading", !.opened = file[n]]
<1>1. /\ Domains /\ Null \notin Nodes
      /\ req \in [Purgers -> Purges] /\ req[p] \in Purges /\ Located(req[p])
      /\ file \in [Nodes -> 0..MaxStores + 1] /\ file[n] \in 0..MaxStores + 1
      /\ vary \in BOOLEAN /\ cold \in BOOLEAN
      /\ Present \in SUBSET (Nodes \X (Nat \ {0}))
  BY PurgeTypes
<1>2. /\ req[p].pc = "new"
      /\ UNCHANGED <<nginx, vary, cold, file, storing, stores, restarts, promised, lost>>
      /\ \/ ~Servable(n) /\ req' = [req EXCEPT ![p] = q1] /\ UNCHANGED node
         \/ Servable(n) /\ req' = [req EXCEPT ![p] = q2] /\ Adopt(n, file[n])
         \/ Servable(n) /\ req' = [req EXCEPT ![p] = q3] /\ UNCHANGED node
  BY DEF Open
<1>0. /\ Covered(n) \subseteq Present /\ Covered(n) \in SUBSET (Nodes \X (Nat \ {0}))
      /\ vary \/ \A x \in Covered(n) : x[1] = n
  BY <1>1 DEF Covered, Present
<1>3. /\ r \in Purges /\ r.target = n /\ r.old = Covered(n) /\ r.at = Null /\ r.pc = "new"
  BY <1>0, <1>1, <1>2 DEF Purges, Located
<1>4. ~Spoilt(req[p]) /\ \A m \in Nodes : ~Unlinking(p, m)
  BY <1>2 DEF Spoilt, Walking, Unlinking
<1>5. \A x \in Covered(n) : x[1] \in Nodes
  BY <1>0
<1> HIDE DEF r
<1>6. CASE ~Servable(n) /\ req' = [req EXCEPT ![p] = q1] /\ UNCHANGED node
  <2>1. /\ q1 \in Purges /\ Located(q1) /\ q1.old = Covered(n) /\ q1.target = n
        /\ q1.pc = "walk" /\ q1.at = Null /\ q1.todo = IF vary THEN Nodes ELSE {}
    BY <1>0, <1>1, <1>3, HandledFacts
  <2> HIDE DEF q1
  <2>2. NodeKept /\ exists' = exists
    BY <1>1, <1>6, SameNodes
  <2>3. Moves(p, q1)
    BY <1>0, <1>1, <1>2, <1>4, <1>6, <2>1, <2>2 DEF Moves
  <2>4. req'[p] = q1
    BY <2>3, MovesKeep
  <2>5. Opened(p)'
    BY <2>1, <2>4 DEF Opened
  <2>6. Passed(p)'
    <3> SUFFICES ASSUME NEW x \in q1.old, x[1] \notin q1.todo
                 PROVE  Gone(p, x[1], x[2])'
      BY <2>4 DEF Passed
    <3>1. x[1] = n
      BY <1>0, <1>5, <2>1
    <3>2. ~Servable(n)'
      BY <1>2, <1>6, <2>2 DEF Servable
    <3>3. QED BY <3>1, <3>2 DEF Gone
  <2>7. QED BY <1>2, <2>3, <2>5, <2>6, MovesInv
<1>7. CASE Servable(n) /\ req' = [req EXCEPT ![p] = q2] /\ Adopt(n, file[n])
  <2>1. /\ q2 \in Purges /\ Located(q2) /\ q2.old = Covered(n) /\ q2.target = n
        /\ q2.pc = "section"
    BY <1>0, <1>1, <1>3 DEF Purges, Located
  <2> HIDE DEF q2
  <2>2. /\ NodeKept
        /\ \A m \in Nodes : exists[m] => exists'[m]
        /\ \A m \in Nodes : exists'[m] => exists[m] \/ cold
        /\ cold => exists'[n]
    BY <1>1, <1>7, AdoptKeeps
  <2>3. Moves(p, q2)
    BY <1>0, <1>1, <1>2, <1>4, <1>7, <2>1, <2>2 DEF Moves
  <2>4. req'[p] = q2
    BY <2>3, MovesKeep
  <2>5. Opened(p)'
    <3>1. exists'[n]
      BY <1>7, <2>2 DEF Servable
    <3>2. QED BY <2>1, <2>4, <3>1 DEF Opened
  <2>6. Passed(p)'
    BY <2>1, <2>4 DEF Passed, Walking
  <2>7. QED BY <1>2, <2>3, <2>5, <2>6, MovesInv
<1>8. CASE Servable(n) /\ req' = [req EXCEPT ![p] = q3] /\ UNCHANGED node
  <2>1. /\ q3 \in Purges /\ Located(q3) /\ q3.old = Covered(n) /\ q3.target = n
        /\ q3.pc = "reading"
    <3>1. q3 \in Purges /\ q3.at = r.at /\ q3.old = r.old /\ q3.target = r.target
          /\ q3.pc = "reading"
      BY <1>1, <1>3 DEF Purges
    <3>2. QED BY <1>0, <1>1, <1>3, <3>1 DEF Located
  <2> HIDE DEF q3
  <2>2. NodeKept /\ exists' = exists
    BY <1>1, <1>8, SameNodes
  <2>3. Moves(p, q3)
    BY <1>0, <1>1, <1>2, <1>4, <1>8, <2>1, <2>2 DEF Moves
  <2>4. req'[p] = q3
    BY <2>3, MovesKeep
  <2>5. Opened(p)' /\ Passed(p)'
    BY <2>1, <2>4 DEF Opened, Passed, Walking
  <2>6. QED BY <1>2, <2>3, <2>5, MovesInv
<1>9. QED BY <1>2, <1>6, <1>7, <1>8

\* The purge comes back from the read; what happened to the entry meanwhile was
\* done by another purge, since the file it read is still there.
LEMMA ReenterInv ==
  ASSUME PurgeInv, NEW p \in Purgers, Reenter(p)
  PROVE  PurgeInv'
<1> DEFINE q == [req[p] EXCEPT !.pc = "section", !.opened = 0]
           n == req[p].target
<1>1. /\ Domains /\ Null \notin Nodes
      /\ req \in [Purgers -> Purges] /\ req[p] \in Purges /\ Located(req[p])
      /\ file \in [Nodes -> 0..MaxStores + 1]
  BY PurgeTypes
<1>2. /\ req[p].pc = "reading" /\ req' = [req EXCEPT ![p] = q] /\ Adopt(n, req[p].opened)
      /\ UNCHANGED <<nginx, vary, cold, file, storing, stores, restarts, promised, lost>>
  BY <1>1 DEF Reenter
<1>3. /\ q \in Purges /\ Located(q) /\ q.old = req[p].old /\ q.target = n
      /\ q.pc = "section" /\ n \in Nodes /\ req[p].opened \in 0..MaxStores + 1
  <2>1. 0 \in 0..MaxStores + 1
    BY ExactPurgeAssumption
  <2>2. QED BY <1>1, <1>2, <2>1 DEF Purges, Located
<1>4. ~Spoilt(req[p]) /\ \A m \in Nodes : ~Unlinking(p, m)
  BY <1>2 DEF Spoilt, Walking, Unlinking
<1>5. PICK m \in Nodes : m = n
  BY <1>3
<1> HIDE DEF q, n
<1>6. /\ NodeKept
      /\ \A o \in Nodes : exists[o] => exists'[o]
      /\ \A o \in Nodes : exists'[o] => exists[o] \/ cold
      /\ cold => exists'[m]
  BY <1>1, <1>2, <1>3, <1>5, AdoptKeeps
<1>7. Moves(p, q)
  BY <1>1, <1>2, <1>3, <1>4, <1>6 DEF Moves
<1>8. /\ req'[p] = q /\ Domains' /\ Numbered' /\ AllKnown' /\ Blamed'
  BY <1>7, MovesKeep
<1>9. Opened(p)'
  <2> SUFFICES ASSUME NEW x \in q.old, x[1] = m, file'[m] = x[2], ~exists'[m]
               PROVE  Left(p, m, x[2])'
    BY <1>3, <1>5, <1>8 DEF Opened
  <2>1. ~cold'
    BY <1>2, <1>6
  <2>2. x[2] # 0 /\ (Old(m, x[2]))'
    <3>1. x[1] \in Nodes /\ x[2] \in Nat \ {0}
      BY <1>3 DEF Purges
    <3>2. QED BY <1>8, <3>1 DEF Numbered
  <2>3. storing'[m] = 0
    <3>1. storing'[m] # 0 => file'[m] \in {0, storing'[m]}
      BY <1>8 DEF Numbered
    <3>2. QED BY <2>2, <3>1 DEF Old
  <2>4. CASE \E o \in Purgers : Unlinking(o, m)'
    <3>1. ~Unlinking(p, m)'
      BY <1>3, <1>8 DEF Unlinking
    <3>2. QED BY <2>4, <3>1 DEF Left
  <2>5. CASE \A o \in Purgers : ~Unlinking(o, m)'
    <3>1. Unknown(m)' /\ Seen(m)'
      BY <2>1, <2>2, <2>3, <2>5 DEF Unknown, Seen
    <3>2. PICK y \in lost' : y[2] = m /\ y[3] = x[2]
      BY <1>8, <3>1 DEF AllKnown, Known
    <3>3. y[1] # p
      <4>1. ~Spoilt(req'[p]) /\ p # Null
        BY <1>3, <1>8, ExactPurgeAssumption DEF Spoilt, Walking
      <4>2. QED BY <1>8, <4>1 DEF Blamed, Spoilt
    <3>4. QED BY <3>2, <3>3 DEF Left, Forsaken
  <2>6. QED BY <2>4, <2>5
<1>10. Passed(p)'
  BY <1>3, <1>8 DEF Passed, Walking
<1>11. QED BY <1>2, <1>7, <1>9, <1>10, MovesInv

\* A purge that cannot read its file fails.
LEMMA OpenFailsInv ==
  ASSUME PurgeInv, NEW p \in Purgers, NEW n \in Nodes, OpenFails(p, n)
  PROVE  PurgeInv'
<1> DEFINE q == Ended("internal_error")
<1>1. /\ Domains /\ Null \notin Nodes
      /\ req \in [Purgers -> Purges] /\ req[p] \in Purges /\ Located(req[p])
      /\ file \in [Nodes -> 0..MaxStores + 1] /\ vary \in BOOLEAN
  BY PurgeTypes
<1>2. /\ req[p].pc \in {"new", "reading"} /\ req' = [req EXCEPT ![p] = q]
      /\ UNCHANGED <<node, nginx, vary, cold, file, storing, stores, restarts, promised, lost>>
  BY DEF OpenFails, Handled
<1>4. q \in Purges /\ Located(q) /\ q.old = {} /\ q.pc = "done"
  BY EndedFacts
<1> HIDE DEF q
<1>5. ~Spoilt(req[p]) /\ \A m \in Nodes : ~Unlinking(p, m)
  BY <1>2 DEF Spoilt, Walking, Unlinking
<1>6. NodeKept /\ exists' = exists
  BY <1>1, <1>2, SameNodes
<1>7. Moves(p, q)
  BY <1>1, <1>2, <1>4, <1>5, <1>6 DEF Moves
<1>8. Opened(p)' /\ Passed(p)'
  BY <1>4, <1>7, MovesKeep DEF Opened, Passed, Walking
<1>9. QED BY <1>2, <1>7, <1>8, MovesInv

\* The section: the entry is cleared, or another purge was there first.
LEMMA SectionInv ==
  ASSUME PurgeInv, NEW p \in Purgers, Section(p)
  PROVE  PurgeInv'
<1> DEFINE r == req[p]
           q1 == [r EXCEPT !.pc = "unlink", !.at = r.target]
           q2 == Handled(r, "declined")
<1>1. /\ Domains /\ Null \notin Nodes
      /\ req \in [Purgers -> Purges] /\ r \in Purges /\ Located(r)
      /\ file \in [Nodes -> 0..MaxStores + 1] /\ vary \in BOOLEAN /\ cold \in BOOLEAN
  BY PurgeTypes
<1>2. /\ r.pc = "section"
      /\ UNCHANGED <<nginx, vary, cold, file, storing, stores, restarts, promised, lost>>
      /\ \/ exists[r.target] /\ Clear(r.target) /\ req' = [req EXCEPT ![p] = q1]
         \/ ~exists[r.target] /\ req' = [req EXCEPT ![p] = q2] /\ UNCHANGED node
  BY <1>1 DEF Section
<1>3. r.target \in Nodes
  BY <1>1, <1>2 DEF Located
<1>4. ~Spoilt(r) /\ \A m \in Nodes : ~Unlinking(p, m)
  BY <1>2 DEF Spoilt, Walking, Unlinking
<1>5. PICK n \in Nodes : n = r.target
  BY <1>3
<1>6. CASE exists[r.target] /\ Clear(r.target) /\ req' = [req EXCEPT ![p] = q1]
  <2>1. /\ q1 \in Purges /\ Located(q1) /\ q1.old = r.old
        /\ q1.pc = "unlink" /\ q1.at = n
    BY <1>1, <1>3, <1>5 DEF Purges, Located
  <2> HIDE DEF q1
  <2>2. NodeKept /\ \A m \in Nodes : exists'[m] <=> (exists[m] /\ m # n)
    <3>1. Clear(n)
      BY <1>5, <1>6
    <3>2. QED BY <1>1, <3>1, ClearKeeps
  <2>3. Moves(p, q1)
    BY <1>1, <1>2, <1>4, <1>6, <2>1, <2>2 DEF Moves
  <2>4. Opened(p)' /\ Passed(p)'
    BY <2>1, <2>3, MovesKeep DEF Opened, Passed, Walking
  <2>5. QED BY <1>2, <2>3, <2>4, MovesInv
<1>7. CASE ~exists[r.target] /\ req' = [req EXCEPT ![p] = q2] /\ UNCHANGED node
  <2>1. /\ q2 \in Purges /\ Located(q2) /\ q2.old = r.old /\ q2.target = n
        /\ q2.pc = "walk" /\ q2.at = Null /\ q2.todo = IF vary THEN Nodes ELSE {}
    BY <1>1, <1>3, <1>5, HandledFacts DEF Located
  <2> HIDE DEF q2
  <2>2. NodeKept /\ exists' = exists
    BY <1>1, <1>7, SameNodes
  <2>3. Moves(p, q2)
    BY <1>1, <1>2, <1>4, <1>7, <2>1, <2>2 DEF Moves
  <2>4. /\ req'[p] = q2 /\ \A o \in Purgers \ {p} : req'[o] = req[o]
    BY <2>3, MovesKeep
  <2>5. Opened(p)'
    BY <2>1, <2>4 DEF Opened
  <2>6. Passed(p)'
    <3> SUFFICES ASSUME NEW x \in q2.old, x[1] \notin q2.todo,
                        file'[x[1]] = x[2], Servable(x[1])'
                 PROVE  \/ Forsaken(p, x[1], x[2])'
                        \/ restarts' > 0 /\ \E o \in Purgers \ {p} : Unlinking(o, x[1])'
      BY <2>4 DEF Passed, Gone
    <3>1. x \in r.old /\ x[1] = n /\ file[n] = x[2]
      <4>1. x \in r.old /\ x[1] \in Nodes
        BY <1>1, <2>1 DEF Purges
      <4>2. x[1] = n
        BY <1>1, <1>5, <2>1, <4>1 DEF Located
      <4>3. QED BY <1>2, <4>1, <4>2
    <3>2. cold /\ restarts > 0
      <4>1. cold
        BY <1>2, <1>5, <1>7, <2>2, <3>1 DEF Servable
      <4>2. QED BY <1>1, <4>1 DEF Domains
    <3>3. Left(p, n, x[2])
      BY <1>2, <1>5, <1>7, <3>1 DEF PurgeInv, Opened
    <3>4. CASE Forsaken(p, n, x[2])
      BY <1>2, <3>1, <3>4 DEF Forsaken
    <3>5. CASE \E o \in Purgers \ {p} : Unlinking(o, n)
      <4>1. PICK o \in Purgers \ {p} : Unlinking(o, n)
        BY <3>5
      <4>2. Unlinking(o, n)'
        BY <2>4, <4>1 DEF Unlinking
      <4>3. QED BY <1>2, <3>1, <3>2, <4>2
    <3>6. QED BY <3>3, <3>4, <3>5 DEF Left
  <2>7. QED BY <1>2, <2>3, <2>5, <2>6, MovesInv
<1>8. QED BY <1>2, <1>6, <1>7

\* The unlink of the purge's own entry.
LEMMA UnlinkInv ==
  ASSUME PurgeInv, NEW p \in Purgers, Unlink(p)
  PROVE  PurgeInv'
<1> DEFINE r == req[p]
           q1 == Handled(r, IF file[r.at] # 0 THEN "ok" ELSE "declined")
           q2 == Handled(r, "busy")
<1>1. /\ Domains /\ Null \notin Nodes
      /\ req \in [Purgers -> Purges] /\ r \in Purges /\ Located(r)
      /\ file \in [Nodes -> 0..MaxStores + 1] /\ vary \in BOOLEAN /\ cold \in BOOLEAN
  BY PurgeTypes
<1>2. /\ r.pc = "unlink"
      /\ UNCHANGED <<node, nginx, vary, cold, storing, stores, restarts, promised>>
      /\ \/ /\ file' = [file EXCEPT ![r.at] = 0] /\ req' = [req EXCEPT ![p] = q1]
            /\ lost' = lost
         \/ /\ req' = [req EXCEPT ![p] = q2] /\ file' = file
            /\ lost' = lost \cup {<<p, r.at, file[r.at]>>}
  BY <1>1 DEF Unlink, UnlinkError
<1>3. r.target \in Nodes /\ r.at = r.target
  BY <1>1, <1>2 DEF Located
<1>4. ~Spoilt(r) /\ \A m \in Nodes : Unlinking(p, m) => m = r.at
  BY <1>2 DEF Spoilt, Walking, Unlinking
<1>5. NodeKept /\ exists' = exists
  BY <1>1, <1>2, SameNodes
<1>6. PICK n \in Nodes : n = r.at
  BY <1>3
<1>7. CASE /\ file' = [file EXCEPT ![r.at] = 0] /\ req' = [req EXCEPT ![p] = q1]
           /\ lost' = lost
  <2>1. /\ q1 \in Purges /\ Located(q1) /\ q1.old = r.old /\ q1.target = n
        /\ q1.pc = "walk" /\ q1.at = Null /\ q1.todo = IF vary THEN Nodes ELSE {}
    BY <1>1, <1>3, <1>6, HandledFacts DEF Located
  <2> HIDE DEF q1
  <2>2. /\ file' \in [Nodes -> 0..MaxStores + 1] /\ file'[n] = 0
        /\ \A m \in Nodes : file'[m] \in {0, file[m]}
    BY <1>1, <1>6, <1>7, ExactPurgeAssumption
  <2>3. Moves(p, q1)
    BY <1>1, <1>2, <1>4, <1>5, <1>6, <1>7, <2>1, <2>2 DEF Moves
  <2>4. req'[p] = q1
    BY <2>3, MovesKeep
  <2>5. Opened(p)'
    BY <2>1, <2>4 DEF Opened
  <2>6. Passed(p)'
    <3> SUFFICES ASSUME NEW x \in q1.old, x[1] \notin q1.todo
                 PROVE  Gone(p, x[1], x[2])'
      BY <2>4 DEF Passed
    <3>1. x \in r.old /\ x[1] \in Nodes /\ x[2] # 0
      BY <1>1, <2>1 DEF Purges
    <3>2. x[1] = n
      BY <1>1, <1>3, <1>6, <2>1, <3>1 DEF Located
    <3>3. file'[x[1]] # x[2]
      BY <2>2, <3>1, <3>2
    <3>4. QED BY <3>3 DEF Gone
  <2>7. QED BY <1>2, <2>3, <2>5, <2>6, MovesInv
<1>8. CASE /\ req' = [req EXCEPT ![p] = q2] /\ file' = file
           /\ lost' = lost \cup {<<p, r.at, file[r.at]>>}
  <2>1. /\ q2 \in Purges /\ Located(q2) /\ q2.old = {} /\ q2.pc = "done"
        /\ q2.answer \notin {"purged", "no_match"}
    BY <1>1, <1>3, HandledFacts DEF Located
  <2> HIDE DEF q2
  <2>2. Spoilt(q2)
    BY <2>1 DEF Spoilt
  <2>3. Moves(p, q2)
    BY <1>1, <1>2, <1>4, <1>5, <1>6, <1>8, <2>1, <2>2 DEF Moves
  <2>4. Opened(p)' /\ Passed(p)'
    BY <2>1, <2>3, MovesKeep DEF Opened, Passed, Walking
  <2>5. QED BY <1>2, <2>3, <2>4, MovesInv
<1>9. QED BY <1>2, <1>7, <1>8

\* What is left to show of a step in which the walk of p goes on without errors:
\* that p is done with what it got over in this step.
LEMMA WalkGoesOn ==
  ASSUME PurgeInv, NEW p \in Purgers, NEW q, Moves(p, q), req[p].pc \in Walking,
         q.pc # "section", UNCHANGED promised,
         q.old = req[p].old, q.target = req[p].target,
         ~q.deleteErrors => ~req[p].deleteErrors, ~q.scanErrors => ~req[p].scanErrors,
         \A x \in q.old :
             /\ ~q.deleteErrors /\ ~q.scanErrors /\ x[1] \notin q.todo /\ x[1] # q.at
             /\ x[1] \in req[p].todo \/ x[1] = req[p].at
             => file'[x[1]] # x[2]
  PROVE  PurgeInv'
<1>1. /\ req'[p] = q /\ Domains /\ Globals /\ ~Restart /\ \A n \in Nodes : Effects(n)
  BY MovesKeep DEF PurgeInv
<1>2. Opened(p)'
  BY <1>1 DEF Opened
<1>3. Passed(p)'
  <2> SUFFICES ASSUME ~q.deleteErrors, ~q.scanErrors, NEW x \in q.old,
                      x[1] \notin q.todo, x[1] # q.at
               PROVE  Gone(p, x[1], x[2])'
    BY <1>1 DEF Passed
  <2>1. x \in req[p].old
    OBVIOUS
  <2>2. CASE x[1] \in req[p].todo \/ x[1] = req[p].at
    <3>1. file'[x[1]] # x[2]
      BY <2>1, <2>2
    <3>2. QED BY <3>1 DEF Gone
  <2>3. CASE ~(x[1] \in req[p].todo \/ x[1] = req[p].at)
    <3>1. x[1] \in Nodes /\ x[2] \in Nat \ {0} /\ Old(x[1], x[2])
      <4>1. req[p] \in Purges
        BY <1>1 DEF Domains
      <4>2. QED BY <2>1, <4>1 DEF PurgeInv, Numbered, Purges
    <3>2. Gone(p, x[1], x[2])
      BY <2>1, <2>3 DEF PurgeInv, Passed
    <3>3. QED BY <1>1, <3>1, <3>2, GoneKept
  <2>4. QED BY <2>2, <2>3
<1>4. QED BY <1>2, <1>3, MovesInv

\* The walk comes to a file.
LEMMA ReadInv ==
  ASSUME PurgeInv, NEW p \in Purgers, NEW n \in Nodes, Read(p, n)
  PROVE  PurgeInv'
<1> DEFINE r == req[p]
           q1 == [r EXCEPT !.todo = @ \ {n}]
           q2 == [r EXCEPT !.todo = @ \ {n}, !.pc = "invalidate", !.at = n]
           q3 == [r EXCEPT !.todo = @ \ {n}, !.scanErrors = TRUE]
<1>1. /\ Domains /\ Null \notin Nodes
      /\ req \in [Purgers -> Purges] /\ r \in Purges /\ Located(r)
      /\ file \in [Nodes -> 0..MaxStores + 1] /\ \A m \in Nodes : file[m] \in 0..MaxStores + 1
  BY PurgeTypes
<1>2. /\ r.pc = "walk" /\ n \in r.todo
      /\ UNCHANGED <<node, nginx, vary, cold, file, storing, stores, restarts, promised, lost>>
      /\ \/ file[n] = 0 /\ req' = [req EXCEPT ![p] = q1]
         \/ req' = [req EXCEPT ![p] = q2]
         \/ req' = [req EXCEPT ![p] = q3]
  BY <1>1 DEF Read
<1>3. r.at = Null /\ r.target \in Nodes
  BY <1>1, <1>2 DEF Located, Purges
<1>4. \A m \in Nodes : ~Unlinking(p, m)
  BY <1>2 DEF Unlinking
<1>5. NodeKept /\ exists' = exists
  BY <1>1, <1>2, SameNodes
<1>6. \A x \in r.old : x[1] \in Nodes /\ x[2] # 0
  BY <1>1 DEF Purges
<1>7. CASE file[n] = 0 /\ req' = [req EXCEPT ![p] = q1]
  <2>1. /\ q1 \in Purges /\ Located(q1) /\ q1.old = r.old /\ q1.target = r.target
        /\ q1.pc = "walk" /\ q1.at = r.at /\ q1.todo = r.todo \ {n}
        /\ q1.deleteErrors = r.deleteErrors /\ q1.scanErrors = r.scanErrors
    BY <1>1, <1>2 DEF Purges, Located
  <2> HIDE DEF q1
  <2>2. Spoilt(r) => Spoilt(q1)
    BY <1>2, <2>1 DEF Spoilt, Walking
  <2>3. Moves(p, q1)
    BY <1>1, <1>2, <1>4, <1>5, <1>7, <2>1, <2>2 DEF Moves
  <2>4. \A x \in q1.old : x[1] \notin q1.todo /\ (x[1] \in r.todo \/ x[1] = r.at)
                              => file'[x[1]] # x[2]
    BY <1>1, <1>2, <1>3, <1>6, <1>7, <2>1
  <2>5. QED BY <1>2, <2>1, <2>3, <2>4, WalkGoesOn DEF Walking
<1>8. CASE req' = [req EXCEPT ![p] = q2]
  <2>1. /\ q2 \in Purges /\ Located(q2) /\ q2.old = r.old /\ q2.target = r.target
        /\ q2.pc = "invalidate" /\ q2.at = n /\ q2.todo = r.todo \ {n}
        /\ q2.deleteErrors = r.deleteErrors /\ q2.scanErrors = r.scanErrors
    BY <1>1, <1>2, <1>3 DEF Purges, Located
  <2> HIDE DEF q2
  <2>2. Spoilt(r) => Spoilt(q2)
    BY <1>2, <2>1 DEF Spoilt, Walking
  <2>3. Moves(p, q2)
    BY <1>1, <1>2, <1>4, <1>5, <1>8, <2>1, <2>2 DEF Moves
  <2>4. \A x \in q2.old : ~(x[1] \notin q2.todo /\ x[1] # q2.at
                              /\ (x[1] \in r.todo \/ x[1] = r.at))
    BY <1>1, <1>3, <1>6, <2>1
  <2>5. QED BY <1>2, <2>1, <2>3, <2>4, WalkGoesOn DEF Walking
<1>9. CASE req' = [req EXCEPT ![p] = q3]
  <2>1. /\ q3 \in Purges /\ Located(q3) /\ q3.old = r.old /\ q3.target = r.target
        /\ q3.pc = "walk" /\ q3.deleteErrors = r.deleteErrors /\ q3.scanErrors = TRUE
    BY <1>1, <1>2 DEF Purges, Located
  <2> HIDE DEF q3
  <2>2. Spoilt(r) => Spoilt(q3)
    BY <1>2, <2>1 DEF Spoilt, Walking
  <2>3. Moves(p, q3)
    BY <1>1, <1>2, <1>4, <1>5, <1>9, <2>1, <2>2 DEF Moves
  <2>4. Opened(p)' /\ Passed(p)'
    BY <2>1, <2>3, MovesKeep DEF Opened, Passed
  <2>5. QED BY <1>2, <2>3, <2>4, MovesInv
<1>10. QED BY <1>2, <1>7, <1>8, <1>9

\* The entry of a variant is cleared.
LEMMA InvalidateNodeInv ==
  ASSUME PurgeInv, NEW p \in Purgers, InvalidateNode(p)
  PROVE  PurgeInv'
<1> DEFINE r == req[p]
           q == [r EXCEPT !.pc = "unlinkVariant"]
<1>1. /\ Domains /\ Null \notin Nodes
      /\ req \in [Purgers -> Purges] /\ r \in Purges /\ Located(r)
      /\ file \in [Nodes -> 0..MaxStores + 1]
  BY PurgeTypes
<1>2. /\ r.pc = "invalidate" /\ req' = [req EXCEPT ![p] = q]
      /\ UNCHANGED <<nginx, vary, cold, file, storing, stores, restarts, promised, lost>>
      /\ \/ Clear(r.at)
         \/ UNCHANGED node
  BY <1>1 DEF InvalidateNode
<1>3. r.at \in Nodes
  BY <1>1, <1>2 DEF Located
<1>4. \A m \in Nodes : ~Unlinking(p, m)
  BY <1>2 DEF Unlinking
<1>5. PICK n \in Nodes : n = r.at
  BY <1>3
<1>6. /\ NodeKept /\ \A m \in Nodes : exists'[m] => exists[m]
      /\ \A m \in Nodes : exists[m] /\ ~exists'[m] => m = n
  <2>1. CASE Clear(r.at)
    <3>1. Clear(n)
      BY <1>5, <2>1
    <3>2. QED BY <1>1, <3>1, ClearKeeps
  <2>2. CASE UNCHANGED node
    BY <1>1, <2>2, SameNodes
  <2>3. QED BY <1>2, <2>1, <2>2
<1>7. /\ q \in Purges /\ Located(q) /\ q.old = r.old /\ q.target = r.target
      /\ q.pc = "unlinkVariant" /\ q.at = r.at /\ q.todo = r.todo
      /\ q.deleteErrors = r.deleteErrors /\ q.scanErrors = r.scanErrors
  BY <1>1, <1>2 DEF Purges, Located
<1> HIDE DEF q
<1>8. Spoilt(r) => Spoilt(q)
  BY <1>2, <1>7 DEF Spoilt, Walking
<1>9. Moves(p, q)
  BY <1>1, <1>2, <1>4, <1>5, <1>6, <1>7, <1>8 DEF Moves
<1>10. QED BY <1>2, <1>7, <1>9, WalkGoesOn DEF Walking

\* The file of a variant is unlinked, or the purge will say that it is not.
LEMMA UnlinkVariantInv ==
  ASSUME PurgeInv, NEW p \in Purgers, UnlinkVariant(p)
  PROVE  PurgeInv'
<1> DEFINE r == req[p]
           q1 == [r EXCEPT !.pc = "walk", !.at = Null, !.deleted = @ \/ file[r.at] # 0]
           q2 == [r EXCEPT !.pc = "walk", !.at = Null, !.deleteErrors = TRUE]
<1>1. /\ Domains /\ Null \notin Nodes
      /\ req \in [Purgers -> Purges] /\ r \in Purges /\ Located(r)
      /\ file \in [Nodes -> 0..MaxStores + 1]
  BY PurgeTypes
<1>2. /\ r.pc = "unlinkVariant"
      /\ UNCHANGED <<node, nginx, vary, cold, storing, stores, restarts, promised>>
      /\ \/ /\ file' = [file EXCEPT ![r.at] = 0] /\ req' = [req EXCEPT ![p] = q1]
            /\ lost' = lost
         \/ /\ req' = [req EXCEPT ![p] = q2] /\ file' = file
            /\ lost' = lost \cup {<<p, r.at, file[r.at]>>}
  BY <1>1 DEF UnlinkVariant
<1>3. r.at \in Nodes /\ r.target \in Nodes
  BY <1>1, <1>2 DEF Located
<1>4. \A m \in Nodes : Unlinking(p, m) => m = r.at
  BY <1>2 DEF Unlinking
<1>5. NodeKept /\ exists' = exists
  BY <1>1, <1>2, SameNodes
<1>6. PICK n \in Nodes : n = r.at
  BY <1>3
<1>7. \A x \in r.old : x[1] \in Nodes /\ x[2] # 0
  BY <1>1 DEF Purges
<1>8. CASE /\ file' = [file EXCEPT ![r.at] = 0] /\ req' = [req EXCEPT ![p] = q1]
           /\ lost' = lost
  <2>0. (r.deleted \/ file[r.at] # 0) \in BOOLEAN
    OBVIOUS
  <2>1. /\ q1 \in Purges /\ Located(q1) /\ q1.old = r.old /\ q1.target = r.target
        /\ q1.pc = "walk" /\ q1.at = Null /\ q1.todo = r.todo
        /\ q1.deleteErrors = r.deleteErrors /\ q1.scanErrors = r.scanErrors
    BY <1>1, <1>3, <2>0 DEF Purges, Located
  <2> HIDE DEF q1
  <2>2. /\ file' \in [Nodes -> 0..MaxStores + 1] /\ file'[n] = 0
        /\ \A m \in Nodes : file'[m] \in {0, file[m]}
    BY <1>1, <1>6, <1>8, ExactPurgeAssumption
  <2>3. Spoilt(r) => Spoilt(q1)
    BY <1>2, <2>1 DEF Spoilt, Walking
  <2>4. Moves(p, q1)
    BY <1>1, <1>2, <1>4, <1>5, <1>6, <1>8, <2>1, <2>2, <2>3 DEF Moves
  <2>5. \A x \in q1.old : x[1] \notin q1.todo /\ (x[1] \in r.todo \/ x[1] = r.at)
                              => file'[x[1]] # x[2]
    BY <1>6, <1>7, <2>1, <2>2
  <2>6. QED BY <1>2, <2>1, <2>4, <2>5, WalkGoesOn DEF Walking
<1>9. CASE /\ req' = [req EXCEPT ![p] = q2] /\ file' = file
           /\ lost' = lost \cup {<<p, r.at, file[r.at]>>}
  <2>1. /\ q2 \in Purges /\ Located(q2) /\ q2.old = r.old /\ q2.pc = "walk"
        /\ q2.deleteErrors = TRUE
    BY <1>1, <1>3 DEF Purges, Located
  <2> HIDE DEF q2
  <2>2. Spoilt(q2)
    BY <2>1 DEF Spoilt, Walking
  <2>3. Moves(p, q2)
    BY <1>1, <1>2, <1>4, <1>5, <1>6, <1>9, <2>1, <2>2 DEF Moves
  <2>4. Opened(p)' /\ Passed(p)'
    BY <2>1, <2>3, MovesKeep DEF Opened, Passed
  <2>5. QED BY <1>2, <2>3, <2>4, MovesInv
<1>10. QED BY <1>2, <1>8, <1>9

\* The answer: what the walk got over without errors is what is promised.
LEMMA AnswerInv ==
  ASSUME PurgeInv, NEW p \in Purgers, Answer(p)
  PROVE  PurgeInv'
<1> DEFINE r == req[p]
           q == Ended(Reply(r))
<1>1. /\ Domains /\ Null \notin Nodes
      /\ req \in [Purgers -> Purges] /\ r \in Purges /\ Located(r)
      /\ file \in [Nodes -> 0..MaxStores + 1] /\ \A m \in Nodes : file[m] \in 0..MaxStores + 1
  BY PurgeTypes
<1>2. /\ r.pc = "walk" /\ r.todo = {} /\ req' = [req EXCEPT ![p] = q]
      /\ UNCHANGED <<node, nginx, vary, cold, file, storing, stores, faults, restarts, lost>>
      /\ promised' = IF Reply(r) \in {"purged", "no_match"}
                     THEN promised \cup {<<p, x[1], x[2]>> : x \in r.old} ELSE promised
  BY <1>1 DEF Answer
<1>3. r.at = Null
  BY <1>1, <1>2 DEF Located, Purges
<1>4. \A m \in Nodes : ~Unlinking(p, m)
  BY <1>2 DEF Unlinking
<1>5. NodeKept /\ exists' = exists
  BY <1>1, <1>2, SameNodes
<1>6. r.deleteErrors \in BOOLEAN /\ r.scanErrors \in BOOLEAN /\ r.deleted \in BOOLEAN
  BY <1>1 DEF Purges
<1>7. /\ r.deleteErrors => Reply(r) = "delete_failed"
      /\ ~r.deleteErrors /\ r.scanErrors => Reply(r) = "scan_failed"
      /\ ~r.deleteErrors /\ ~r.scanErrors => Reply(r) \in {"purged", "no_match"}
  BY <1>6 DEF Reply
<1>8. Reply(r) \in {"purged", "no_match", "delete_failed", "scan_failed"}
  BY <1>6, <1>7
<1>9. /\ q \in Purges /\ Located(q) /\ q.old = {} /\ q.pc = "done" /\ q.answer = Reply(r)
  BY <1>8, EndedFacts
<1> HIDE DEF q
<1>10. Spoilt(r) => Spoilt(q)
  <2>1. Spoilt(r) => r.deleteErrors
    BY <1>2 DEF Spoilt, Walking
  <2>2. r.deleteErrors => Spoilt(q)
    BY <1>7, <1>9 DEF Spoilt
  <2>3. QED BY <2>1, <2>2
<1>11. Moves(p, q)
  BY <1>1, <1>2, <1>4, <1>5, <1>9, <1>10 DEF Moves
<1>12. /\ req'[p] = q /\ Globals /\ ~Restart /\ \A n \in Nodes : Effects(n)
  BY <1>11, MovesKeep
<1>13. Opened(p)' /\ Passed(p)'
  BY <1>9, <1>12 DEF Opened, Passed, Walking
<1>14. ASSUME NEW y \in promised', y \notin promised PROVE Promise(y)'
  <2>1. Reply(r) \in {"purged", "no_match"} /\ \E x \in r.old : y = <<p, x[1], x[2]>>
    BY <1>2, <1>14
  <2>2. PICK x \in r.old : y = <<p, x[1], x[2]>>
    BY <2>1
  <2>3. y[1] = p /\ y[2] = x[1] /\ y[3] = x[2]
    BY <2>2
  <2>4. x \in r.old /\ x[1] \in Nodes /\ x[2] \in Nat \ {0} /\ Old(x[1], x[2])
    BY <1>1, <2>2 DEF Purges, PurgeInv, Numbered
  <2>5. ~r.deleteErrors /\ ~r.scanErrors
    BY <1>7, <2>1
  <2>6. x[1] \notin r.todo /\ x[1] # r.at
    BY <1>1, <1>2, <1>3, <2>4
  <2>7. Gone(p, x[1], x[2])
    BY <1>2, <2>5, <2>6 DEF PurgeInv, Passed, Walking
  <2>8. Gone(p, x[1], x[2])' /\ Old(x[1], x[2])'
    BY <1>1, <1>12, <2>4, <2>7, GoneKept, OldKept
  <2>9. req'[p].pc = "done" /\ req'[p].answer \in {"purged", "no_match"}
    BY <1>9, <1>12, <2>1
  <2>10. QED BY <2>3, <2>4, <2>8, <2>9 DEF Promise
<1>15. QED BY <1>11, <1>13, <1>14, MovesInv

\* What dead purges leave behind are the files they were about to unlink.
LEMMA AbandonedFacts ==
  ASSUME NEW D \in SUBSET Purgers
  PROVE  /\ \A p \in D, n \in Nodes : Unlinking(p, n) => <<p, n, file[n]>> \in Abandoned(D)
         /\ \A x \in Abandoned(D) : \E p \in D, n \in Nodes :
               Unlinking(p, n) /\ x = <<p, n, file[n]>>
<1>1. ASSUME NEW p \in D, NEW n \in Nodes, Unlinking(p, n)
      PROVE  <<p, n, file[n]>> \in Abandoned(D)
  <2>1. <<p, n>> \in {y \in D \X Nodes : Unlinking(y[1], y[2])}
    BY <1>1
  <2>2. QED BY <2>1 DEF Abandoned
<1>2. ASSUME NEW x \in Abandoned(D)
      PROVE  \E p \in D, n \in Nodes : Unlinking(p, n) /\ x = <<p, n, file[n]>>
  <2>1. PICK y \in D \X Nodes : Unlinking(y[1], y[2]) /\ x = <<y[1], y[2], file[y[2]]>>
    BY DEF Abandoned
  <2>2. QED BY <2>1
<1>3. QED BY <1>1, <1>2

\* The record of a purge that died, with or without the reference it had.
LEMMA DeadFacts ==
  ASSUME NEW t \in Nodes \cup {Null},
         NEW q \in {[Fresh EXCEPT !.pc = "dead"], [Fresh EXCEPT !.pc = "dead", !.target = t]}
  PROVE  q \in Purges /\ Located(q) /\ q.old = {} /\ q.pc = "dead"
<1>1. Null \notin Nodes /\ MaxStores \in Nat
  BY ExactPurgeAssumption
<1>2. /\ Fresh.old = {} /\ Fresh.at = Null /\ Fresh \in Purges
  <2>1. 0 \in 0..MaxStores + 1
    BY <1>1
  <2>2. {} \in SUBSET (Nodes \X (Nat \ {0})) /\ {} \in SUBSET Nodes
    OBVIOUS
  <2>3. QED BY <2>1, <2>2, Zenon DEF Fresh, Purges
<1>3. q \in Purges /\ q.pc = "dead" /\ q.old = {} /\ q.at = Null
  BY <1>2 DEF Purges
<1>4. Located(q)
  BY <1>1, <1>3 DEF Located
<1>5. QED BY <1>3, <1>4

\* A dead purge has given up what it had cleared, and promises nothing.
LEMMA DieInv ==
  ASSUME PurgeInv, NEW p \in Purgers, Die(p)
  PROVE  PurgeInv'
<1> DEFINE q == [Fresh EXCEPT !.pc = "dead", !.target = req[p].target]
<1>1. /\ Domains /\ Null \notin Nodes /\ MaxStores \in Nat
      /\ req \in [Purgers -> Purges] /\ req[p] \in Purges /\ Located(req[p])
      /\ file \in [Nodes -> 0..MaxStores + 1]
  BY PurgeTypes, ExactPurgeAssumption
<1>2. /\ req[p].pc \notin {"new", "done", "dead"} /\ req' = [req EXCEPT ![p] = q]
      /\ lost' = lost \cup Abandoned({p})
      /\ UNCHANGED <<node, nginx, vary, cold, file, storing, stores, restarts, promised>>
  BY DEF Die
<1>3. NodeKept /\ exists' = exists
  BY <1>1, <1>2, SameNodes
<1>4. /\ q \in Purges /\ Located(q) /\ q.old = {} /\ q.pc = "dead"
  <2>1. req[p].target \in Nodes \cup {Null}
    BY <1>1 DEF Purges
  <2>2. QED BY <2>1, DeadFacts
<1> HIDE DEF q
<1>5. Spoilt(q)
  BY <1>4 DEF Spoilt
<1>6. \A n \in Nodes : Unlinking(p, n) => <<p, n, file[n]>> \in lost'
  BY <1>2, AbandonedFacts
<1>7. \A x \in Abandoned({p}) : x[1] = p
  <2>1. \A x \in Abandoned({p}) : \E o \in {p}, n \in Nodes : x = <<o, n, file[n]>>
    BY AbandonedFacts
  <2>2. QED BY <2>1
<1>8. Moves(p, q)
  BY <1>1, <1>2, <1>3, <1>4, <1>5, <1>6, <1>7 DEF Moves
<1>9. Opened(p)' /\ Passed(p)'
  BY <1>4, <1>8, MovesKeep DEF Opened, Passed, Walking
<1>10. QED BY <1>2, <1>8, <1>9, MovesInv

-----------------------------------------------------------------------------
(* The steps of nginx *)

\* Steps in which no purge takes part.
LEMMA BystandersKeep ==
  ASSUME PurgeInv, Domains', \A n \in Nodes : Effects(n), Globals, ~Restart,
         UNCHANGED <<vary, req, promised>>, \A x \in lost' : x \in lost \/ x[1] = Null,
         \A n \in Nodes : exists[n] /\ ~exists'[n] =>
             file'[n] = 0 \/ \E x \in lost' : x[1] = Null /\ x[2] = n /\ x[3] = file'[n]
  PROVE  PurgeInv'
<1>1. Domains /\ Kept
  BY DEF PurgeInv
<1>2. AllKnown'
  BY FilesKept
<1>3. Numbered'
  BY NumbersKept
<1>4. Blamed'
  BY DEF PurgeInv, Blamed
<1>5. ASSUME NEW o \in Purgers, NEW x \in req[o].old
      PROVE  /\ x[1] \in Nodes /\ x[2] \in Nat \ {0} /\ Old(x[1], x[2])
  <2>1. req[o] \in Purges
    BY <1>1 DEF Domains
  <2>2. QED BY <2>1 DEF PurgeInv, Numbered, Purges
<1>6. ASSUME NEW o \in Purgers PROVE Opened(o)'
  <2> SUFFICES ASSUME req[o].pc = "section", NEW x \in req[o].old,
                      x[1] = req[o].target, file'[x[1]] = x[2], ~exists'[x[1]]
               PROVE  Left(o, x[1], x[2])'
    BY DEF Opened
  <2>1. file[x[1]] = x[2] /\ x[1] \in Nodes /\ x[2] \in Nat \ {0}
    BY <1>1, <1>5, OldKept
  <2>2. CASE exists[x[1]]
    <3>1. PICK y \in lost' : y[1] = Null /\ y[2] = x[1] /\ y[3] = x[2]
      BY <2>1, <2>2
    <3>2. o # Null
      BY ExactPurgeAssumption
    <3>3. QED BY <3>1, <3>2 DEF Left, Forsaken
  <2>3. CASE ~exists[x[1]]
    <3>1. Left(o, x[1], x[2])
      BY <2>1, <2>3 DEF PurgeInv, Opened
    <3>2. QED BY <1>1, <2>1, <3>1, LeftKept
  <2>4. QED BY <2>2, <2>3
<1>7. ASSUME NEW o \in Purgers PROVE Passed(o)'
  <2> SUFFICES ASSUME req[o].pc \in Walking, ~req[o].deleteErrors, ~req[o].scanErrors,
                      NEW x \in req[o].old,
                      x[1] \notin req[o].todo, x[1] # req[o].at
               PROVE  Gone(o, x[1], x[2])'
    BY DEF Passed
  <2>1. x[1] \in Nodes /\ x[2] \in Nat \ {0} /\ Old(x[1], x[2])
    BY <1>5
  <2>2. Gone(o, x[1], x[2])
    BY DEF PurgeInv, Passed
  <2>3. QED BY <2>1, <2>2, GoneKept
<1>8. Kept'
  <2> SUFFICES ASSUME NEW x \in promised PROVE Promise(x)'
    BY DEF Kept, Promise
  <2>1. Promise(x) /\ x[1] \in Purgers /\ x[2] \in Nodes /\ x[3] \in Nat \ {0}
        /\ Old(x[2], x[3]) /\ Gone(x[1], x[2], x[3])
    BY <1>1 DEF Kept, Promise
  <2>2. Gone(x[1], x[2], x[3])' /\ Old(x[2], x[3])'
    BY <1>1, <2>1, GoneKept, OldKept
  <2>3. QED BY <2>1, <2>2 DEF Promise
<1>9. QED BY <1>2, <1>3, <1>4, <1>6, <1>7, <1>8 DEF PurgeInv

\* Stores, the cache manager, the cache loader and other walks.
LEMMA NginxInv ==
  ASSUME PurgeInv, NEW m \in Nodes,
         \/ Store(m) \/ Account(m) \/ BulkUnlink(m) \/ Load(m)
         \/ EvictBegin(m) \/ EvictUnlink(m) \/ EvictEnd(m)
  PROVE  PurgeInv'
<1>1. /\ Domains /\ MaxStores \in Nat
      /\ file \in [Nodes -> 0..MaxStores + 1] /\ storing \in [Nodes -> 0..MaxStores + 1]
      /\ exists \in [Nodes -> BOOLEAN] /\ size \in [Nodes -> 0..MaxStores + 1]
      /\ evicting \in [Nodes -> {"no", "marked", "unlinked"}]
      /\ loading \in [Nodes -> {"todo", "skipped", "done"}]
      /\ stores \in 0..MaxStores /\ restarts \in Nat /\ cold \in BOOLEAN
  BY ExactPurgeAssumption DEF PurgeInv, Domains
<1>2. /\ UNCHANGED <<vary, cold, req, restarts, promised>> /\ lost \subseteq lost'
      /\ \A x \in lost' : x \in lost \/ x[1] = Null
  <2>1. CASE Store(m) \/ Account(m) \/ BulkUnlink(m) \/ Load(m) \/ EvictBegin(m) \/ EvictUnlink(m)
    BY <2>1 DEF Store, Account, BulkUnlink, Load, EvictBegin, EvictUnlink
  <2>2. CASE EvictEnd(m)
    BY <2>2 DEF EvictEnd
  <2>3. QED BY <2>1, <2>2
<1>3. /\ file' \in [Nodes -> 0..MaxStores + 1] /\ storing' \in [Nodes -> 0..MaxStores + 1]
      /\ stores' \in 0..MaxStores /\ stores' \in {stores, stores + 1}
      /\ \A n \in Nodes :
            \/ file'[n] \in {0, file[n]} /\ storing'[n] \in {0, storing[n]}
            \/ stores' = stores + 1 /\ file'[n] = stores + 2 /\ storing'[n] = stores + 2
  <2>1. CASE Store(m)
    <3>1. /\ stores < MaxStores /\ stores' = stores + 1
          /\ file' = [file EXCEPT ![m] = stores + 2]
          /\ storing' = [storing EXCEPT ![m] = stores + 2]
      BY <2>1 DEF Store
    <3>2. stores + 2 \in 0..MaxStores + 1 /\ stores + 1 \in 0..MaxStores
      BY <1>1, <3>1
    <3>3. QED BY <1>1, <3>1, <3>2
  <2>2. CASE Account(m)
    <3>1. file' = file /\ stores' = stores /\ storing' = [storing EXCEPT ![m] = 0]
      BY <2>2 DEF Account
    <3>2. QED BY <1>1, <3>1
  <2>3. CASE BulkUnlink(m) \/ EvictUnlink(m)
    <3>1. /\ file' = [file EXCEPT ![m] = 0] \/ file' = file
          /\ stores' = stores /\ storing' = storing
      BY <2>3 DEF BulkUnlink, EvictUnlink
    <3>2. 0 \in 0..MaxStores + 1
      BY <1>1
    <3>3. QED BY <1>1, <3>1, <3>2
  <2>4. CASE Load(m) \/ EvictBegin(m) \/ EvictEnd(m)
    BY <1>1, <2>4 DEF Load, EvictBegin, EvictEnd
  <2>5. QED BY <2>1, <2>2, <2>3, <2>4
<1>4. /\ NodeKept
      /\ \A n \in Nodes : exists'[n] => exists[n] \/ cold \/ storing[n] # 0
      /\ \A n \in Nodes : exists[n] /\ ~exists'[n] =>
             file'[n] = 0 \/ \E x \in lost' : x[1] = Null /\ x[2] = n /\ x[3] = file'[n]
      /\ \A n \in Nodes : storing[n] # 0 /\ storing'[n] = 0 => exists'[n]
  <2>1. CASE Store(m) \/ BulkUnlink(m) \/ EvictUnlink(m)
    <3>1. UNCHANGED node
      BY <2>1 DEF Store, BulkUnlink, EvictUnlink
    <3>2. NodeKept /\ exists' = exists
      BY <1>1, <3>1, SameNodes
    <3>3. \A n \in Nodes : storing[n] # 0 => storing'[n] # 0
      <4>1. CASE Store(m)
        <5>1. storing' = [storing EXCEPT ![m] = stores + 2] /\ stores + 2 # 0
          BY <1>1, <4>1 DEF Store
        <5>2. QED BY <1>1, <5>1
      <4>2. CASE BulkUnlink(m) \/ EvictUnlink(m)
        BY <4>2 DEF BulkUnlink, EvictUnlink
      <4>3. QED BY <2>1, <4>1, <4>2
    <3>4. QED BY <3>2, <3>3
  <2>2. CASE Account(m)
    <3>1. /\ storing[m] # 0 /\ storing[m] \in 0..MaxStores + 1 /\ Set(m, storing[m])
          /\ storing' = [storing EXCEPT ![m] = 0]
      BY <1>1, <2>2 DEF Account
    <3>2. NodeKept /\ \A n \in Nodes : exists'[n] <=> (exists[n] \/ n = m)
      BY <1>1, <3>1, SetKeeps
    <3>3. QED BY <1>1, <3>1, <3>2
  <2>3. CASE EvictBegin(m)
    <3>1. exists' = exists /\ size' = size /\ storing' = storing
      BY <2>3 DEF EvictBegin
    <3>2. QED BY <1>1, <3>1 DEF NodeKept
  <2>4. CASE EvictEnd(m) /\ Referenced(m)
    <3>1. exists' = exists /\ size' = size /\ storing' = storing
      BY <2>4 DEF EvictEnd
    <3>2. QED BY <1>1, <3>1 DEF NodeKept
  <2>5. CASE EvictEnd(m) /\ ~Referenced(m)
    <3>1. /\ exists' = [exists EXCEPT ![m] = FALSE] /\ size' = [size EXCEPT ![m] = 0]
          /\ storing' = storing /\ file' = file
          /\ exists[m] /\ file[m] # 0 => <<Null, m, file[m]>> \in lost'
      BY <2>5 DEF EvictEnd
    <3>2. NodeKept
      BY <1>1, <3>1 DEF NodeKept
    <3>3. ASSUME NEW n \in Nodes, exists[n], ~exists'[n], file'[n] # 0
          PROVE  \E x \in lost' : x[1] = Null /\ x[2] = n /\ x[3] = file'[n]
      <4>1. n = m
        BY <1>1, <3>1, <3>3
      <4>2. <<Null, n, file'[n]>> \in lost'
        BY <3>1, <3>3, <4>1
      <4>3. /\ <<Null, n, file'[n]>>[1] = Null /\ <<Null, n, file'[n]>>[2] = n
            /\ <<Null, n, file'[n]>>[3] = file'[n]
        OBVIOUS
      <4>4. QED BY <4>2, <4>3
    <3>4. QED BY <1>1, <3>1, <3>2, <3>3
  <2>6. CASE Load(m)
    <3>1. /\ cold /\ file[m] \in 0..MaxStores + 1 /\ storing' = storing
          /\ Set(m, file[m]) \/ UNCHANGED node
      BY <1>1, <2>6 DEF Load
    <3>2. CASE Set(m, file[m])
      <4>1. NodeKept /\ \A n \in Nodes : exists'[n] <=> (exists[n] \/ n = m)
        BY <1>1, <3>1, <3>2, SetKeeps
      <4>2. QED BY <3>1, <4>1
    <3>3. CASE UNCHANGED node
      <4>1. NodeKept /\ exists' = exists
        BY <1>1, <3>3, SameNodes
      <4>2. QED BY <3>1, <4>1
    <3>4. QED BY <3>1, <3>2, <3>3
  <2>7. QED BY <2>1, <2>2, <2>3, <2>4, <2>5, <2>6
<1>5. Globals /\ ~Restart
  <2>1. ~Restart
    BY <1>1, <1>2 DEF Restart
  <2>2. QED BY <1>1, <1>2, <1>3, <2>1 DEF Globals
<1>6. /\ evicting' \in [Nodes -> {"no", "marked", "unlinked"}]
      /\ loading' \in [Nodes -> {"todo", "skipped", "done"}]
      /\ \A n \in Nodes : loading'[n] = "done" =>
             loading[n] = "done" \/ file'[n] = 0 \/ exists'[n]
  <2>1. CASE Store(m) \/ Account(m) \/ BulkUnlink(m)
    BY <1>1, <2>1 DEF Store, Account, BulkUnlink, nginx
  <2>2. CASE EvictBegin(m) \/ EvictUnlink(m) \/ EvictEnd(m)
    BY <1>1, <2>2 DEF EvictBegin, EvictUnlink, EvictEnd
  <2>3. CASE Load(m)
    <3>1. /\ evicting' = evicting /\ file' = file
          /\ \/ /\ loading' = [loading EXCEPT ![m] = "done"]
                /\ exists'[m] \/ file[m] = 0
             \/ loading' = [loading EXCEPT ![m] = "skipped"]
      BY <1>1, <2>3 DEF Load, Set, node
    <3>2. QED BY <1>1, <3>1
  <2>4. QED BY <2>1, <2>2, <2>3
<1>7. ASSUME NEW n \in Nodes PROVE Effects(n)
  <2>1. \A q \in Purgers : Unlinking(q, n) => Unlinking(q, n)'
    BY <1>2 DEF Unlinking
  <2>2. exists[n] /\ ~exists'[n] =>
           file'[n] = 0 \/ \E x \in lost' : x[1] = Null /\ x[2] = n /\ x[3] = file'[n]
    BY <1>4
  <2>3. Seen(n)' => Seen(n) \/ file'[n] = 0 \/ exists'[n]
    BY <1>2, <1>6 DEF Seen
  <2>4. QED BY <1>3, <1>4, <2>1, <2>2, <2>3 DEF Effects
<1>8. Domains'
  <2>1. (\A p \in Purgers : Located(req[p]))'
    BY <1>1, <1>2 DEF Domains, Located
  <2>2. QED BY <1>1, <1>2, <1>3, <1>4, <1>6, <2>1 DEF Domains, NodeKept
<1>9. QED BY <1>2, <1>4, <1>5, <1>7, <1>8, BystandersKeep

\* The loader is done, or nothing happens.
LEMMA QuietInv ==
  ASSUME PurgeInv, Loaded \/ UNCHANGED vars
  PROVE  PurgeInv'
<1>1. Domains /\ storing \in [Nodes -> 0..MaxStores + 1]
      /\ stores \in Nat /\ restarts \in Nat /\ cold \in BOOLEAN
  BY ExactPurgeAssumption DEF PurgeInv, Domains
<1>2. /\ UNCHANGED <<node, evicting, vary, file, storing, req, stores, restarts, promised>>
      /\ cold' = FALSE \/ cold' = cold
      /\ lost \subseteq lost' /\ \A x \in lost' : x \in lost \/ x[1] = Null
      /\ loading' \in [Nodes -> {"todo", "skipped", "done"}]
  <2>1. CASE Loaded
    <3>1. lost' = lost \cup {<<Null, k, file[k]>> : k \in {m \in Nodes : loading[m] = "skipped"
                                                                     /\ Unknown(m)}}
      BY <2>1 DEF Loaded
    <3>2. loading' = [n \in Nodes |-> "done"]
      BY <2>1 DEF Loaded
    <3>3. \A x \in lost' : x \in lost \/ x[1] = Null
      BY <3>1
    <3>4. /\ UNCHANGED <<node, evicting, vary, file, storing, req, stores, restarts, promised>>
          /\ cold' = FALSE /\ lost \subseteq lost'
      BY <2>1 DEF Loaded
    <3>5. QED BY <3>2, <3>3, <3>4
  <2>2. CASE UNCHANGED vars
    BY <2>2 DEF vars, node, PurgeInv, Domains
  <2>3. QED BY <2>1, <2>2
<1>3. NodeKept /\ exists' = exists
  BY <1>1, <1>2, SameNodes
<1>4. Globals /\ ~Restart
  <2>1. ~Restart
    BY <1>1, <1>2 DEF Restart
  <2>2. QED BY <1>1, <1>2, <2>1 DEF Globals
<1>5. ASSUME NEW n \in Nodes PROVE Effects(n)
  <2>1. Seen(n)' => Seen(n) \/ Loaded
    BY DEF Seen, vars
  <2>2. QED BY <1>2, <1>3, <2>1 DEF Effects, Unlinking
<1>6. Domains'
  <2>1. (\A p \in Purgers : Located(req[p]))'
    BY <1>1, <1>2 DEF Domains, Located
  <2>2. /\ evicting' \in [Nodes -> {"no", "marked", "unlinked"}] /\ vary' \in BOOLEAN /\ file' \in [Nodes -> 0..MaxStores + 1]
        /\ storing' \in [Nodes -> 0..MaxStores + 1] /\ req' \in [Purgers -> Purges]
        /\ stores' \in 0..MaxStores /\ restarts' \in Nat
    BY <1>1, <1>2 DEF Domains
  <2>3. cold' \in BOOLEAN /\ (cold' => restarts' > 0)
    <3>1. (cold => restarts > 0) /\ restarts' = restarts
      BY <1>1, <1>2 DEF Domains
    <3>2. CASE cold' = FALSE
      BY <3>2
    <3>3. CASE cold' = cold
      BY <1>1, <3>1, <3>3, Zenon
    <3>4. QED BY <1>2, <3>2, <3>3
  <2>4. QED BY <1>2, <1>3, <2>1, <2>2, <2>3 DEF Domains, NodeKept
<1>7. \A n \in Nodes : exists[n] /\ ~exists'[n] => file'[n] = 0
  BY <1>3
<1>8. QED BY <1>2, <1>4, <1>5, <1>6, <1>7, BystandersKeep

\* A restart: what was cleared and is still on disk is given up, and no entry
\* is left.
LEMMA RestartInv ==
  ASSUME PurgeInv, Restart
  PROVE  PurgeInv'
<1> DEFINE q == [Fresh EXCEPT !.pc = "dead"]
<1>1. /\ Domains /\ MaxStores \in Nat /\ restarts \in Nat
      /\ req \in [Purgers -> Purges] /\ \A p \in Purgers : Located(req[p])
  BY ExactPurgeAssumption DEF PurgeInv, Domains
<1>2. q \in Purges /\ Located(q) /\ q.old = {} /\ q.pc = "dead"
  BY DeadFacts
<1> HIDE DEF q
<1>3. /\ restarts' = restarts + 1 /\ cold' = TRUE
      /\ exists' = [n \in Nodes |-> FALSE] /\ size' = [n \in Nodes |-> 0]
      /\ storing' = [n \in Nodes |-> 0]
      /\ evicting' = [n \in Nodes |-> "no"] /\ loading' = [n \in Nodes |-> "todo"]
      /\ lost' = lost \cup Abandoned(Purgers)
      /\ UNCHANGED <<vary, file, stores, promised>>
  BY DEF Restart
<1>4. req' = [p \in Purgers |-> IF req[p].pc \in {"new", "done"} THEN req[p] ELSE q]
  BY DEF Restart, q
<1>5. ASSUME NEW p \in Purgers
      PROVE  /\ req'[p] \in Purges /\ Located(req'[p]) /\ req'[p].old \subseteq req[p].old
             /\ req'[p].pc \in {"new", "done", "dead"}
             /\ req[p].pc = "done" => req'[p] = req[p]
             /\ Spoilt(req[p]) \/ (\E n \in Nodes : Unlinking(p, n)) => Spoilt(req'[p])
  <2>1. CASE req[p].pc \in {"new", "done"}
    <3>1. req'[p] = req[p]
      BY <1>4, <2>1
    <3>2. \A n \in Nodes : ~Unlinking(p, n)
      BY <2>1 DEF Unlinking
    <3>3. QED BY <1>1, <2>1, <3>1, <3>2
  <2>2. CASE req[p].pc \notin {"new", "done"}
    <3>1. req'[p] = q
      BY <1>4, <2>2
    <3>2. Spoilt(q)
      BY <1>2 DEF Spoilt
    <3>3. QED BY <1>2, <2>2, <3>1, <3>2
  <2>3. QED BY <2>1, <2>2
<1>6. Domains'
  <2>1. req' \in [Purgers -> Purges]
    <3>1. \A p \in Purgers : req'[p] \in Purges
      BY <1>5
    <3>2. QED BY <1>4, <3>1
  <2>2. (\A p \in Purgers : Located(req[p]))'
    BY <1>3, <1>5 DEF Located
  <2>3. /\ exists' \in [Nodes -> BOOLEAN] /\ size' \in [Nodes -> 0..MaxStores + 1]
        /\ storing' \in [Nodes -> 0..MaxStores + 1]
        /\ evicting' \in [Nodes -> {"no", "marked", "unlinked"}]
        /\ loading' \in [Nodes -> {"todo", "skipped", "done"}]
    BY <1>1, <1>3
  <2>4. restarts' \in Nat /\ restarts' > 0 /\ cold' \in BOOLEAN
    BY <1>1, <1>3
  <2>5. /\ vary' \in BOOLEAN /\ stores' \in 0..MaxStores
        /\ file' \in [Nodes -> 0..MaxStores + 1]
    BY <1>1, <1>3 DEF Domains
  <2>6. QED BY <2>1, <2>2, <2>3, <2>4, <2>5 DEF Domains
<1>8. Globals
  BY <1>1, <1>3 DEF Globals, Domains
<1>9. ASSUME NEW n \in Nodes PROVE Effects(n)
  <2>1. \A p \in Purgers : Unlinking(p, n) => <<p, n, file[n]>> \in lost'
    BY <1>3, AbandonedFacts
  <2>2. file'[n] = file[n] /\ storing'[n] = 0 /\ ~exists'[n]
    BY <1>3
  <2>3. ~Seen(n)'
    BY <1>3 DEF Seen
  <2>4. QED BY <2>1, <2>2, <2>3 DEF Effects
<1>10. AllKnown'
  BY <1>8, <1>9, FilesKept
<1>11. Numbered'
  <2>1. \A p \in Purgers : req'[p].old \subseteq req[p].old \cup Present
    BY <1>5
  <2>2. QED BY <1>6, <1>8, <1>9, <2>1, NumbersKept
<1>12. Blamed'
  <2> SUFFICES ASSUME NEW x \in lost', x[1] # Null
               PROVE  x[1] \in Purgers /\ Spoilt(req'[x[1]])
    BY DEF Blamed, Spoilt
  <2>1. CASE x \in lost
    BY <1>5, <2>1 DEF PurgeInv, Blamed
  <2>2. CASE x \in Abandoned(Purgers)
    <3>1. PICK p \in Purgers, n \in Nodes : Unlinking(p, n) /\ x = <<p, n, file[n]>>
      BY <2>2, AbandonedFacts
    <3>2. QED BY <1>5, <3>1
  <2>3. QED BY <1>3, <2>1, <2>2
<1>13. \A p \in Purgers : Opened(p)' /\ Passed(p)'
  BY <1>5 DEF Opened, Passed, Walking
<1>14. Kept'
  <2> SUFFICES ASSUME NEW x \in promised PROVE Promise(x)'
    BY <1>3 DEF Kept, Promise
  <2>1. Promise(x) /\ x[1] \in Purgers /\ x[2] \in Nodes /\ x[3] \in Nat \ {0}
        /\ Old(x[2], x[3]) /\ Gone(x[1], x[2], x[3])
    BY DEF PurgeInv, Kept, Promise
  <2>2. ~Unlinking(x[1], x[2]) /\ ~Spoilt(req[x[1]])
    BY <2>1 DEF Promise, Unlinking, Spoilt, Walking
  <2>3. Gone(x[1], x[2], x[3])' /\ Old(x[2], x[3])'
    BY <1>1, <1>8, <1>9, <2>1, <2>2, GoneKept, OldKept
  <2>4. req'[x[1]] = req[x[1]]
    BY <1>5, <2>1 DEF Promise
  <2>5. QED BY <2>1, <2>3, <2>4 DEF Promise
<1>15. QED BY <1>6, <1>10, <1>11, <1>12, <1>13, <1>14 DEF PurgeInv

-----------------------------------------------------------------------------
(* The theorems *)

\* The invariant holds initially.
LEMMA PurgeInit == Init => PurgeInv
<1> SUFFICES ASSUME Init PROVE PurgeInv
  OBVIOUS
<1>1. /\ vary \in BOOLEAN /\ cold = FALSE /\ file \in [Nodes -> {0, 1}]
      /\ exists = [n \in Nodes |-> file[n] # 0] /\ size = file
      /\ storing = [n \in Nodes |-> 0] /\ req = [p \in Purgers |-> Fresh]
      /\ evicting = [n \in Nodes |-> "no"] /\ loading = [n \in Nodes |-> "done"]
      /\ stores = 0 /\ restarts = 0 /\ promised = {} /\ lost = {}
  BY DEF Init
<1>2. MaxStores \in Nat /\ Null \notin Nodes
  BY ExactPurgeAssumption
<1>3. /\ Fresh.pc = "new" /\ Fresh.at = Null /\ Fresh.old = {}
  BY DEF Fresh
<1>4. Fresh \in Purges
  <2>1. 0 \in 0..MaxStores + 1
    BY <1>2
  <2>2. {} \in SUBSET (Nodes \X (Nat \ {0})) /\ {} \in SUBSET Nodes
    OBVIOUS
  <2>3. QED BY <2>1, <2>2, Zenon DEF Fresh, Purges
<1>5. Located(Fresh)
  BY <1>2, <1>3 DEF Located
<1>6. Domains
  <2>1. exists \in [Nodes -> BOOLEAN]
    BY <1>1
  <2>2. /\ size \in [Nodes -> 0..MaxStores + 1] /\ file \in [Nodes -> 0..MaxStores + 1]
        /\ storing \in [Nodes -> 0..MaxStores + 1] /\ stores \in 0..MaxStores
        /\ evicting \in [Nodes -> {"no", "marked", "unlinked"}]
        /\ loading \in [Nodes -> {"todo", "skipped", "done"}]
    BY <1>1, <1>2
  <2>3. req \in [Purgers -> Purges] /\ \A p \in Purgers : Located(req[p])
    BY <1>1, <1>4, <1>5
  <2>4. QED BY <1>1, <2>1, <2>2, <2>3 DEF Domains
<1>8. AllKnown
  BY <1>1 DEF AllKnown, Known, Unknown
<1>9. Numbered
  BY <1>1, <1>3 DEF Numbered
<1>10. Blamed /\ Kept
  BY <1>1 DEF Blamed, Kept
<1>11. \A p \in Purgers : Opened(p) /\ Passed(p)
  BY <1>1, <1>3 DEF Opened, Passed, Walking
<1>12. QED BY <1>6, <1>8, <1>9, <1>10, <1>11 DEF PurgeInv

\* Every step keeps it.
LEMMA PurgeStep == PurgeInv /\ [Next]_vars => PurgeInv'
<1> SUFFICES ASSUME PurgeInv, [Next]_vars PROVE PurgeInv'
  OBVIOUS
<1>1. ASSUME NEW p \in Purgers, NEW n \in Nodes, Open(p, n) \/ OpenFails(p, n) \/ Read(p, n)
      PROVE  PurgeInv'
  BY <1>1, OpenInv, OpenFailsInv, ReadInv
<1>2. ASSUME NEW p \in Purgers,
             \/ Reenter(p) \/ Section(p) \/ Unlink(p) \/ InvalidateNode(p)
             \/ UnlinkVariant(p) \/ Answer(p) \/ Die(p)
      PROVE  PurgeInv'
  BY <1>2, ReenterInv, SectionInv, UnlinkInv, InvalidateNodeInv, UnlinkVariantInv,
     AnswerInv, DieInv
<1>3. ASSUME NEW n \in Nodes,
             \/ Store(n) \/ Account(n) \/ BulkUnlink(n) \/ Load(n)
             \/ EvictBegin(n) \/ EvictUnlink(n) \/ EvictEnd(n)
      PROVE  PurgeInv'
  BY <1>3, NginxInv
<1>4. CASE Loaded \/ UNCHANGED vars
  BY <1>4, QuietInv
<1>5. CASE Restart
  BY <1>5, RestartInv
<1>6. QED BY <1>1, <1>2, <1>3, <1>4, <1>5 DEF Next

\* The invariant holds throughout.
LEMMA PurgeAlways == Spec => []PurgeInv
BY PurgeInit, PurgeStep, PTL DEF Spec

\* The types, and that a purge is at an entry exactly while it has it in hand.
THEOREM PurgeTypesCorrect == Spec => []TypeOK
<1>1. PurgeInv => TypeOK
  <2> SUFFICES ASSUME PurgeInv PROVE TypeOK
    OBVIOUS
  <2>1. Domains
    BY DEF PurgeInv
  <2>2. \A n \in Nodes : {size[n], file[n], storing[n]} \subseteq 0..MaxStores + 1
    BY <2>1 DEF Domains
  <2>3. ASSUME NEW p \in Purgers
        PROVE  /\ req[p].pc \in {"new", "reading", "section", "unlink", "walk", "invalidate",
                                 "unlinkVariant", "done", "dead"}
               /\ req[p].at \in Nodes <=> req[p].pc \in {"unlink", "invalidate", "unlinkVariant"}
    BY <2>1 DEF Domains, Located, Purges
  <2>4. QED BY <2>1, <2>2, <2>3 DEF TypeOK, Domains
<1>2. QED BY PurgeAlways, <1>1, PTL

\* A warm cache knows of every file, or somebody is about to store or unlink
\* it, or a purge that did not get to it did not succeed, or nginx itself has
\* left it.
THEOREM FilesAlwaysAccounted == Spec => []FilesAccounted
<1>1. PurgeInv => FilesAccounted
  BY DEF PurgeInv, AllKnown, Known, Seen, FilesAccounted
<1>2. QED BY PurgeAlways, <1>1, PTL

\* What a successful purge was to remove is never served again, nor after a
\* restart, but for files that nginx or another purge did not unlink.
THEOREM PurgedAlwaysGone == Spec => []PurgedStaysGone
<1>1. PurgeInv => PurgedStaysGone
  BY DEF PurgeInv, Kept, Gone, PurgedStaysGone
<1>2. QED BY PurgeAlways, <1>1, PTL
-----------------------------------------------------------------------------
(* The size of the cache *)

\* A sum over the entries changes by the term that changes.
LEMMA SizeChange ==
  ASSUME NEW f \in [Nodes -> Nat], NEW g \in [Nodes -> Nat], NEW x \in Nodes,
         \A n \in Nodes \ {x} : g[n] = f[n]
  PROVE  SumOf(f) \in Nat /\ SumOf(g) = SumOf(f) - f[x] + g[x]
<1>1. SumOf(f) = Sum(f, Nodes) /\ SumOf(g) = Sum(g, Nodes)
  BY DEF SumOf, Sum
<1>2. Sum(f, Nodes) \in Nat /\ Sum(g, Nodes) = Sum(f, Nodes) - f[x] + g[x]
  BY SumChange, ExactPurgeAssumption
<1>3. QED BY <1>1, <1>2, Zenon

\* The types of what is counted.
LEMMA CountedTypes ==
  ASSUME Domains
  PROVE  Counted \in [Nodes -> Nat] /\ size \in [Nodes -> Nat]
BY ExactPurgeAssumption DEF Counted, Domains

\* A step that changes what one entry counts, and the size with it.
LEMMA OneSize ==
  ASSUME Domains, Domains', SizeExact, NEW n \in Nodes,
         met' = {} => /\ met = {}
                      /\ \A m \in Nodes \ {n} : Counted'[m] = Counted[m]
                      /\ total' = total - Counted[n] + Counted'[n]
  PROVE  SizeExact'
<1> SUFFICES ASSUME met' = {} PROVE total' = SumOf(Counted')
  BY DEF SizeExact
<1>1. Counted \in [Nodes -> Nat]
  BY CountedTypes
<1>2. Counted' \in [Nodes -> Nat]
  BY ExactPurgeAssumption DEF Counted, Domains
<1>3. SumOf(Counted) \in Nat /\ SumOf(Counted') = SumOf(Counted) - Counted[n] + Counted'[n]
  BY <1>1, <1>2, SizeChange
<1>4. total = SumOf(Counted)
  BY DEF SizeExact
<1>5. QED BY <1>3, <1>4

\* An entry is cleared.
LEMMA ClearSize ==
  ASSUME Domains, Domains', SizeExact, NEW n \in Nodes, Clear(n), evicting' = evicting
  PROVE  SizeExact'
<1>1. size \in [Nodes -> Nat] /\ size' = [size EXCEPT ![n] = 0] /\ total' = total - size[n]
  BY CountedTypes DEF Clear
<1>2. ASSUME met' = {} PROVE met = {} /\ evicting[n] = "no"
  BY <1>2 DEF Clear, Met
<1>3. \A m \in Nodes \ {n} : Counted'[m] = Counted[m]
  BY <1>1 DEF Counted
<1>4. ASSUME met' = {} PROVE total' = total - Counted[n] + Counted'[n]
  <2>1. Counted[n] = size[n] /\ Counted'[n] = 0
    BY <1>1, <1>2, <1>4 DEF Counted
  <2>2. met = {} /\ total = SumOf(Counted) /\ SumOf(Counted) \in Nat
    BY <1>2, <1>4, CountedTypes, SizeChange DEF SizeExact
  <2>3. QED BY <1>1, <2>1, <2>2
<1>5. QED BY <1>2, <1>3, <1>4, OneSize

\* An entry is that of a response.
LEMMA SetSize ==
  ASSUME Domains, Domains', SizeExact, NEW n \in Nodes, NEW f \in Nat, Set(n, f),
         evicting' = evicting
  PROVE  SizeExact'
<1>1. size \in [Nodes -> Nat] /\ size' = [size EXCEPT ![n] = f] /\ total' = total + f - size[n]
  BY CountedTypes DEF Set
<1>2. ASSUME met' = {} PROVE met = {} /\ evicting[n] = "no"
  BY <1>2 DEF Set, Met
<1>3. \A m \in Nodes \ {n} : Counted'[m] = Counted[m]
  BY <1>1 DEF Counted
<1>4. ASSUME met' = {} PROVE total' = total - Counted[n] + Counted'[n]
  <2>1. Counted[n] = size[n] /\ Counted'[n] = f
    BY <1>1, <1>2, <1>4 DEF Counted
  <2>2. met = {} /\ total = SumOf(Counted) /\ SumOf(Counted) \in Nat
    BY <1>2, <1>4, CountedTypes, SizeChange DEF SizeExact
  <2>3. QED BY <1>1, <2>1, <2>2
<1>5. QED BY <1>2, <1>3, <1>4, OneSize

\* Nothing changes the size.
LEMMA SameSize ==
  ASSUME SizeExact, UNCHANGED node, evicting' = evicting
  PROVE  SizeExact'
<1>1. Counted' = Counted /\ total' = total /\ met' = met
  BY DEF Counted, node
<1>2. QED BY <1>1 DEF SizeExact

\* The manager takes the size off, and removes the entry.
LEMMA EvictSize ==
  ASSUME Domains, Domains', SizeExact, NEW n \in Nodes, EvictBegin(n) \/ EvictEnd(n)
  PROVE  SizeExact'
<1>1. CASE EvictBegin(n)
  <2>1. /\ size \in [Nodes -> Nat] /\ evicting \in [Nodes -> {"no", "marked", "unlinked"}]
        /\ size' = size /\ met' = met /\ total' = total - size[n]
        /\ evicting[n] = "no" /\ evicting' = [evicting EXCEPT ![n] = "marked"]
    BY <1>1, CountedTypes DEF EvictBegin, Domains
  <2>2. /\ Counted[n] = size[n] /\ Counted'[n] = 0
        /\ \A m \in Nodes \ {n} : Counted'[m] = Counted[m]
    BY <2>1 DEF Counted
  <2>3. ASSUME met = {} PROVE total' = total - Counted[n] + Counted'[n]
    <3>1. total = SumOf(Counted) /\ SumOf(Counted) \in Nat
      BY <2>3, CountedTypes, SizeChange DEF SizeExact
    <3>2. QED BY <2>1, <2>2, <3>1
  <2>4. QED BY <2>1, <2>2, <2>3, OneSize
<1>2. CASE EvictEnd(n)
  <2>1. /\ size \in [Nodes -> Nat] /\ evicting \in [Nodes -> {"no", "marked", "unlinked"}]
        /\ total' = total /\ evicting[n] = "unlinked"
        /\ evicting' = [evicting EXCEPT ![n] = "no"]
    BY <1>2, CountedTypes DEF EvictEnd, Domains
  <2>2. ASSUME met' = {} PROVE met = {} /\ size' = [size EXCEPT ![n] = 0]
    BY <1>2, <2>1, <2>2 DEF EvictEnd, Met
  <2>3. ASSUME met' = {}
        PROVE  /\ Counted[n] = 0 /\ Counted'[n] = 0
               /\ \A m \in Nodes \ {n} : Counted'[m] = Counted[m]
    BY <2>1, <2>2, <2>3 DEF Counted
  <2>4. ASSUME met' = {} PROVE total' = total - Counted[n] + Counted'[n]
    <3>1. total = SumOf(Counted) /\ SumOf(Counted) \in Nat
      BY <2>2, <2>4, CountedTypes, SizeChange DEF SizeExact
    <3>2. QED BY <2>1, <2>3, <2>4, <3>1
  <2>5. QED BY <2>2, <2>3, <2>4, OneSize
<1>3. QED BY <1>1, <1>2

\* A restart forgets all sizes.
LEMMA RestartSize ==
  ASSUME Restart
  PROVE  SizeExact'
<1>1. total' = 0 /\ \A n \in Nodes : Counted'[n] = 0
  BY DEF Restart, Counted
<1>2. SumOf(Counted') = Sum(Counted', Nodes)
  BY DEF SumOf, Sum
<1>3. Sum(Counted', Nodes) = 0
  BY <1>1, SumZero, ExactPurgeAssumption
<1>4. QED BY <1>1, <1>2, <1>3 DEF SizeExact

\* Every step keeps the size of the cache.
LEMMA SizeStep ==
  ASSUME Domains, Domains', SizeExact, [Next]_vars
  PROVE  SizeExact'
<1>1. \A n \in Nodes : file[n] \in Nat /\ storing[n] \in Nat
  BY ExactPurgeAssumption DEF Domains
<1>2. ASSUME NEW p \in Purgers, req[p].pc = "reading"
      PROVE  req[p].opened \in Nat /\ req[p].target \in Nodes
  BY <1>2, ExactPurgeAssumption DEF Domains, Purges, Located
<1>3. ASSUME NEW p \in Purgers, NEW n \in Nodes, Open(p, n)
      PROVE  SizeExact'
  <2>1. UNCHANGED node \/ Set(n, file[n])
    BY <1>3 DEF Open, Adopt
  <2>2. evicting' = evicting
    BY <1>3 DEF Open, nginx
  <2>3. QED BY <1>1, <2>1, <2>2, SetSize, SameSize
<1>4. ASSUME NEW p \in Purgers, Reenter(p)
      PROVE  SizeExact'
  <2>1. UNCHANGED node \/ Set(req[p].target, req[p].opened)
    BY <1>4 DEF Reenter, Adopt
  <2>2. evicting' = evicting /\ req[p].pc = "reading"
    BY <1>4 DEF Reenter, nginx
  <2>3. QED BY <1>2, <2>1, <2>2, SetSize, SameSize
<1>5. ASSUME NEW p \in Purgers, Section(p)
      PROVE  SizeExact'
  <2>1. UNCHANGED node \/ Clear(req[p].target)
    BY <1>5 DEF Section
  <2>2. evicting' = evicting /\ req[p].target \in Nodes
    BY <1>5 DEF Section, nginx, Domains, Located
  <2>3. QED BY <2>1, <2>2, ClearSize, SameSize
<1>6. ASSUME NEW p \in Purgers, InvalidateNode(p)
      PROVE  SizeExact'
  <2>1. UNCHANGED node \/ Clear(req[p].at)
    BY <1>6 DEF InvalidateNode
  <2>2. evicting' = evicting /\ req[p].at \in Nodes
    BY <1>6 DEF InvalidateNode, nginx, Domains, Located
  <2>3. QED BY <2>1, <2>2, ClearSize, SameSize
<1>7. ASSUME NEW p \in Purgers,
             \/ \E n \in Nodes : OpenFails(p, n) \/ Read(p, n)
             \/ Unlink(p) \/ UnlinkVariant(p) \/ Answer(p) \/ Die(p)
      PROVE  SizeExact'
  <2>1. UNCHANGED node /\ evicting' = evicting
    BY <1>7 DEF OpenFails, Read, Unlink, UnlinkVariant, Answer, Die, nginx
  <2>2. QED BY <2>1, SameSize
<1>8. ASSUME NEW n \in Nodes, Account(n)
      PROVE  SizeExact'
  <2>1. Set(n, storing[n]) /\ evicting' = evicting
    BY <1>8 DEF Account, nginx
  <2>2. QED BY <1>1, <2>1, SetSize
<1>9. ASSUME NEW n \in Nodes, Load(n)
      PROVE  SizeExact'
  <2>1. UNCHANGED node \/ Set(n, file[n])
    BY <1>9 DEF Load
  <2>2. evicting' = evicting
    BY <1>9 DEF Load
  <2>3. QED BY <1>1, <2>1, <2>2, SetSize, SameSize
<1>10. ASSUME NEW n \in Nodes, Store(n) \/ BulkUnlink(n)
       PROVE  SizeExact'
  <2>1. UNCHANGED node /\ evicting' = evicting
    BY <1>10 DEF Store, BulkUnlink, nginx
  <2>2. QED BY <2>1, SameSize
<1>11. ASSUME NEW n \in Nodes, EvictUnlink(n)
       PROVE  SizeExact'
  <2>1. /\ UNCHANGED node /\ evicting[n] = "marked"
        /\ evicting' = [evicting EXCEPT ![n] = "unlinked"]
        /\ evicting \in [Nodes -> {"no", "marked", "unlinked"}]
    BY <1>11 DEF EvictUnlink, Domains
  <2>2. Counted' = Counted
    BY <2>1 DEF Counted, node
  <2>3. total' = total /\ met' = met
    BY <2>1 DEF node
  <2>4. QED BY <2>2, <2>3 DEF SizeExact
<1>12. CASE Loaded \/ UNCHANGED vars
  <2>1. UNCHANGED node /\ evicting' = evicting
    BY <1>12 DEF Loaded, vars, node
  <2>2. QED BY <2>1, SameSize
<1>13. QED
  BY <1>3, <1>4, <1>5, <1>6, <1>7, <1>8, <1>9, <1>10, <1>11, <1>12, EvictSize, RestartSize
  DEF Next

\* In whatever order purges, stores, the loader and the manager come to an
\* entry its size is counted once, as long as nobody comes to one between the
\* two sections of its eviction.
THEOREM SizeAlwaysExact == Spec => []SizeExact
<1>1. Init => SizeExact
  <2> SUFFICES ASSUME Init PROVE SizeExact
    OBVIOUS
  <2>1. Counted = file
    BY DEF Init, Counted
  <2>2. QED BY <2>1 DEF Init, SizeExact
<1>2. PurgeInv /\ PurgeInv' /\ SizeExact /\ [Next]_vars => SizeExact'
  BY SizeStep DEF PurgeInv
<1>3. QED BY PurgeAlways, <1>1, <1>2, PTL DEF Spec
=============================================================================
