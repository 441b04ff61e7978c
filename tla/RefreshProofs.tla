--------------------------- MODULE RefreshProofs ---------------------------
(***************************************************************************)
(* Proofs about Refresh, for every set of entries, clients and slots and   *)
(* every value of the limits and the bounds.                               *)
(*                                                                         *)
(* Three invariants, each on top of the first: PlaceInv says where a page  *)
(* is worked on and what it has of its worker, CreditInv counts the HEAD   *)
(* requests, and OwedInv says where an entry is that is still owed.        *)
(***************************************************************************)
EXTENDS Refresh, SetProofs

-----------------------------------------------------------------------------
(* The first invariant *)

Held(j) == j.state \in {"live", "detached"}

\* A page, j, of client c fits workers w and what they scan, cur: a page that is
\* held has a worker that works; when its scan was created it is the current
\* page there, and it was if it has a thread, which runs until the scan ends;
\* only a page somebody waits for has a HEAD; and if there are more entries than
\* it keeps, it keeps a batch.
Fits(c, j, w, cur) ==
    /\ Held(j) => j.at \in Slots /\ w[j.at] \in {"up", "quitting"}
    /\ Held(j) /\ j.scan # "no" => cur[j.at] = c
    /\ j.thread # "idle" => Held(j) /\ j.scan # "no"
    /\ j.thread = "running" => j.scan = "open"
    /\ j.active => j.state = "live"
    /\ Cardinality(j.entries) <= Batch
    /\ j.more => Cardinality(j.entries) = Batch

Types ==
    /\ files \subseteq Hashes /\ valid \subseteq Hashes
    /\ worker \in [Slots -> {"none", "up", "quitting", "dead", "reused"}]
    /\ current \in [Slots -> Clients \cup {Null}]
    /\ job \in [Clients -> Jobs]
    /\ cursor \in [Clients -> Hashes \cup {0}]
    /\ owed \in [Clients -> SUBSET Hashes]
    /\ pages \in [Clients -> Nat]

PlaceInv == Types /\ \A c \in Clients : Fits(c, job[c], worker, current)

-----------------------------------------------------------------------------
(* Pages *)

\* A page nobody works on.
LEMMA IdleFits ==
  ASSUME NEW state \in {"none", "more", "complete", "gone"}
  PROVE  /\ Idle(state) \in Jobs
         /\ \A c, w, cur : Fits(c, Idle(state), w, cur)
         /\ Idle(state).state = state /\ Idle(state).active = FALSE
         /\ Idle(state).thread = "idle"
<1>1. Idle(state) \in Jobs
  BY DEF Idle, Jobs
<1>2. Cardinality({}) = 0 /\ Batch \in Nat
  BY FS_EmptySet, RefreshAssumption
<1>3. /\ Idle(state).state = state /\ Idle(state).thread = "idle"
      /\ Idle(state).active = FALSE /\ Idle(state).more = FALSE
      /\ Idle(state).entries = {}
  BY DEF Idle
<1>4. \A c, w, cur : Fits(c, Idle(state), w, cur)
  BY <1>2, <1>3 DEF Fits, Held
<1>5. QED BY <1>1, <1>3, <1>4

\* What the scan keeps of a page when it sees one more entry.
LEMMA KeptFacts ==
  ASSUME PlaceInv, NEW c \in Clients, NEW h \in Hashes
  PROVE  LET all == job[c].entries \cup {h}
         IN /\ all \subseteq Hashes /\ Cardinality(all) \in Nat
            /\ Cardinality(all) <= Batch => Kept(c, h) = all
            /\ Cardinality(all) > Batch =>
                  /\ Kept(c, h) = all \ {Max(all)} /\ Max(all) \in all
                  /\ \A e \in all : e <= Max(all)
                  /\ Cardinality(Kept(c, h)) = Batch
            /\ Kept(c, h) \subseteq Hashes /\ Cardinality(Kept(c, h)) <= Batch
            /\ h \in job[c].entries => Kept(c, h) = job[c].entries
            /\ Cardinality(job[c].entries) \in Nat
            /\ h \notin job[c].entries => Cardinality(all) = Cardinality(job[c].entries) + 1
<1> DEFINE E == job[c].entries
           all == E \cup {h}
<1>1. /\ E \subseteq Hashes /\ Cardinality(E) <= Batch /\ IsFiniteSet(Hashes)
      /\ Hashes \subseteq Nat /\ Batch \in Nat
  BY RefreshAssumption DEF PlaceInv, Types, Jobs, Fits
<1> HIDE DEF E
<1>2. IsFiniteSet(E) /\ Cardinality(E) \in Nat
  BY <1>1, FS_Subset, FS_CardinalityType
<1>3. /\ IsFiniteSet(all)
      /\ Cardinality(all) = IF h \in E THEN Cardinality(E) ELSE Cardinality(E) + 1
  BY <1>2, FS_AddElement
<1>4. all \subseteq Hashes /\ all # {}
  BY <1>1
<1>5. Max(all) \in all /\ \A e \in all : Max(all) >= e
  <2> HIDE DEF all
  <2>1. all \in SUBSET Int
    BY <1>1, <1>4
  <2>2. QED BY <1>3, <1>4, <2>1, MaxFacts
<1>6. Cardinality(all \ {Max(all)}) = Cardinality(all) - 1
  <2> HIDE DEF all
  <2>1. QED BY <1>3, <1>5, FS_RemoveElement
<1>7. Kept(c, h) = IF Cardinality(all) <= Batch THEN all ELSE all \ {Max(all)}
  BY Zenon DEF Kept, E
<1>8. h \in E => all = E
  OBVIOUS
<1> DEFINE top == Max(all)
<1>9. \A e \in all : e \in Nat /\ top \in Nat /\ e <= top
  <2> HIDE DEF all
  <2>1. QED BY <1>1, <1>4, <1>5
<1> HIDE DEF all, top
<1>10. Cardinality(all) \in Nat
  BY <1>2, <1>3
<1>11. Cardinality(all) > Batch =>
         Kept(c, h) = all \ {top} /\ Cardinality(Kept(c, h)) = Batch
  BY <1>1, <1>2, <1>3, <1>6, <1>7, <1>10 DEF top
<1>12. Cardinality(all) <= Batch => Kept(c, h) = all
  BY <1>7
<1>13. Cardinality(Kept(c, h)) <= Batch
  BY <1>1, <1>10, <1>11, <1>12
<1>14. Kept(c, h) \subseteq Hashes
  BY <1>4, <1>7
<1>15. h \in E => Kept(c, h) = E
  BY <1>1, <1>7, <1>8
<1>16. /\ all \subseteq Hashes /\ Cardinality(all) \in Nat
       /\ Cardinality(all) <= Batch => Kept(c, h) = all
       /\ Cardinality(all) > Batch =>
             /\ Kept(c, h) = all \ {top} /\ top \in all
             /\ \A e \in all : e <= top
             /\ Cardinality(Kept(c, h)) = Batch
       /\ Kept(c, h) \subseteq Hashes /\ Cardinality(Kept(c, h)) <= Batch
       /\ h \in E => Kept(c, h) = E
       /\ Cardinality(E) \in Nat
       /\ h \notin E => Cardinality(all) = Cardinality(E) + 1
  BY <1>2, <1>3, <1>4, <1>5, <1>9, <1>10, <1>11, <1>12, <1>13, <1>14, <1>15 DEF top
<1>17. QED BY <1>16, Zenon DEF all, E, top

\* One page changes, and no other was the current one of a worker for which
\* another is now.
LEMMA OneJob ==
  ASSUME PlaceInv, NEW c \in Clients, NEW j \in Jobs, job' = [job EXCEPT ![c] = j],
         worker' = worker, Fits(c, j, worker, current'),
         current' \in [Slots -> Clients \cup {Null}],
         \A s \in Slots : current'[s] = current[s] \/ current[s] \in {Null, c}
  PROVE  /\ job' \in [Clients -> Jobs]
         /\ \A d \in Clients : Fits(d, job'[d], worker', current')
<1>1. job' \in [Clients -> Jobs]
  BY DEF PlaceInv, Types
<1>2. ASSUME NEW d \in Clients PROVE Fits(d, job'[d], worker', current')
  <2>1. CASE d = c
    <3>1. job'[d] = j
      BY <2>1 DEF PlaceInv, Types
    <3>2. QED BY <2>1, <3>1
  <2>2. CASE d # c
    <3>1. job'[d] = job[d] /\ Fits(d, job[d], worker, current)
      BY <2>2 DEF PlaceInv, Types
    <3>2. d # Null
      BY RefreshAssumption
    <3>3. QED BY <2>2, <3>1, <3>2 DEF Fits
  <2>3. QED BY <2>1, <2>2
<1>3. QED BY <1>1, <1>2

\* The end of a page leaves its worker to others, and theirs to them.
LEMMA ForgottenFacts ==
  ASSUME PlaceInv, NEW c \in Clients
  PROVE  /\ Forgotten(c) \in [Slots -> Clients \cup {Null}]
         /\ \A s \in Slots : Forgotten(c)[s] = current[s] \/ current[s] \in {Null, c}
<1>1. current \in [Slots -> Clients \cup {Null}]
  BY DEF PlaceInv, Types
<1>2. QED BY <1>1 DEF Forgotten

-----------------------------------------------------------------------------
(* What the scan makes of a page *)

SamePlace(j, k) ==
    /\ j.state = k.state /\ j.at = k.at /\ j.after = k.after
    /\ j.thread = k.thread /\ j.active = k.active

\* An entry the walk comes to.
LEMMA CollectedFacts ==
  ASSUME PlaceInv, NEW c \in Clients, NEW h \in files
  PROVE  /\ Collected(c, h) \in Jobs /\ SamePlace(Collected(c, h), job[c])
         /\ Collected(c, h).scan = job[c].scan
         /\ Collected(c, h).unseen = job[c].unseen \ {h}
         /\ h > job[c].after /\ h \in valid =>
               /\ Collected(c, h).entries = Kept(c, h)
               /\ Collected(c, h).more =
                     (job[c].more \/ Cardinality(job[c].entries \cup {h}) > Batch)
         /\ ~(h > job[c].after /\ h \in valid) =>
               /\ Collected(c, h).entries = job[c].entries
               /\ Collected(c, h).more = job[c].more
         /\ Cardinality(Collected(c, h).entries) <= Batch
         /\ Collected(c, h).more => Cardinality(Collected(c, h).entries) = Batch
<1> DEFINE r == Collected(c, h)
           full == Cardinality(job[c].entries \cup {h}) > Batch
           u == job[c].unseen \ {h}
           m == job[c].more \/ full
<1>1. job[c] \in Jobs /\ h \in Hashes
  BY DEF PlaceInv, Types
<1>2. /\ Cardinality(job[c].entries) <= Batch
      /\ job[c].more => Cardinality(job[c].entries) = Batch
  BY DEF PlaceInv, Fits
<1>3. CASE h > job[c].after /\ h \in valid
  <2>1. r = [job[c] EXCEPT !.unseen = u, !.entries = Kept(c, h), !.more = m]
    BY <1>3, Zenon DEF Collected
  <2>2. Kept(c, h) \subseteq Hashes /\ Cardinality(Kept(c, h)) <= Batch
    BY <1>1, KeptFacts
  <2>3. m => Cardinality(Kept(c, h)) = Batch
    <3>1. CASE full
      BY <1>1, <3>1, KeptFacts
    <3>2. CASE job[c].more /\ ~full
      <4>1. h \in job[c].entries
        <5>1. h \notin job[c].entries =>
                Cardinality(job[c].entries \cup {h}) = Cardinality(job[c].entries) + 1
          BY <1>1, KeptFacts
        <5>2. Cardinality(job[c].entries) = Batch /\ Batch \in Nat
          BY <1>2, <3>2, RefreshAssumption
        <5>3. QED BY <3>2, <5>1, <5>2
      <4>2. Kept(c, h) = job[c].entries
        BY <1>1, <4>1, KeptFacts
      <4>3. QED BY <1>2, <3>2, <4>2
    <3>3. QED BY <3>1, <3>2
  <2>4. u \in SUBSET Hashes /\ m \in BOOLEAN
    BY <1>1 DEF Jobs
  <2> HIDE DEF r, u, m
  <2>5. /\ r \in Jobs /\ SamePlace(r, job[c])
        /\ r.scan = job[c].scan /\ r.unseen = u /\ r.entries = Kept(c, h) /\ r.more = m
    BY <1>1, <2>1, <2>2, <2>4 DEF Jobs, SamePlace
  <2>6. QED BY <1>3, <2>2, <2>3, <2>5 DEF r, u, m
<1>4. CASE ~(h > job[c].after /\ h \in valid)
  <2>1. r = [job[c] EXCEPT !.unseen = u]
    BY <1>4, Zenon DEF Collected
  <2>2. u \in SUBSET Hashes
    BY <1>1 DEF Jobs
  <2> HIDE DEF r, u
  <2>3. /\ r \in Jobs /\ SamePlace(r, job[c]) /\ r.scan = job[c].scan /\ r.unseen = u
        /\ r.entries = job[c].entries /\ r.more = job[c].more
    BY <1>1, <2>1, <2>2 DEF Jobs, SamePlace
  <2>4. QED BY <1>2, <1>4, <2>3 DEF r, u
<1>5. QED BY <1>3, <1>4

\* A step of the scan: an entry, or the end of the scan.
LEMMA SliceFacts ==
  ASSUME PlaceInv, NEW c \in Clients, job[c].scan = "open", NEW j \in Slice(c)
  PROVE  /\ j \in Jobs /\ SamePlace(j, job[c]) /\ j.scan # "no"
         /\ Cardinality(j.entries) <= Batch
         /\ j.more => Cardinality(j.entries) = Batch
         /\ \/ j.scan = "open" /\ \E h \in files : j = Collected(c, h)
            \/ /\ j.entries = job[c].entries /\ j.more = job[c].more
               /\ \/ j.scan \in {"failed", "late"}
                  \/ j.scan = "complete" /\ job[c].unseen \cap files = {}
<1>1. job[c] \in Jobs
  BY DEF PlaceInv, Types
<1>2. /\ Cardinality(job[c].entries) <= Batch
      /\ job[c].more => Cardinality(job[c].entries) = Batch
  BY DEF PlaceInv, Fits
<1>3. ASSUME NEW h \in files, j = Collected(c, h)
      PROVE  /\ j \in Jobs /\ SamePlace(j, job[c]) /\ j.scan = "open"
             /\ Cardinality(j.entries) <= Batch
             /\ j.more => Cardinality(j.entries) = Batch
  BY <1>3, CollectedFacts
<1>4. ASSUME NEW x \in {"complete", "failed", "late"}, j = [job[c] EXCEPT !.scan = x]
      PROVE  /\ j \in Jobs /\ SamePlace(j, job[c]) /\ j.scan = x
             /\ j.entries = job[c].entries /\ j.more = job[c].more
  BY <1>1, <1>4 DEF Jobs, SamePlace
<1>5. \/ \E h \in files : j = Collected(c, h)
      \/ \E x \in {"failed", "late"} : j = [job[c] EXCEPT !.scan = x]
      \/ j = [job[c] EXCEPT !.scan = "complete"] /\ job[c].unseen \cap files = {}
  BY DEF Slice
<1>6. CASE \E h \in files : j = Collected(c, h)
  BY <1>3, <1>6
<1>7. CASE \E x \in {"failed", "late"} : j = [job[c] EXCEPT !.scan = x]
  BY <1>2, <1>4, <1>7
<1>8. CASE j = [job[c] EXCEPT !.scan = "complete"] /\ job[c].unseen \cap files = {}
  BY <1>2, <1>4, <1>8
<1>9. QED BY <1>5, <1>6, <1>7, <1>8

-----------------------------------------------------------------------------
(* The steps preserve the first invariant *)

\* What a step of one page has to show.
LEMMA PlaceOne ==
  ASSUME PlaceInv, NEW c \in Clients, NEW j \in Jobs, job' = [job EXCEPT ![c] = j],
         worker' = worker, Fits(c, j, worker, current'),
         current' \in [Slots -> Clients \cup {Null}],
         \A s \in Slots : current'[s] = current[s] \/ current[s] \in {Null, c},
         files' \subseteq Hashes, valid' \subseteq Hashes,
         cursor' \in [Clients -> Hashes \cup {0}],
         owed' \in [Clients -> SUBSET Hashes], pages' \in [Clients -> Nat]
  PROVE  PlaceInv'
<1>1. /\ job' \in [Clients -> Jobs]
      /\ \A d \in Clients : Fits(d, job'[d], worker', current')
  BY OneJob
<1>2. worker' \in [Slots -> {"none", "up", "quitting", "dead", "reused"}]
  BY DEF PlaceInv, Types
<1>3. QED BY <1>1, <1>2 DEF PlaceInv, Types

\* A page starts.
LEMMA StartPlace ==
  ASSUME PlaceInv, NEW c \in Clients, NEW s \in Slots, Start(c, s)
  PROVE  /\ PlaceInv' /\ job[c].active = FALSE
         /\ \E j \in Jobs : /\ job' = [job EXCEPT ![c] = j]
                            /\ j.active = FALSE /\ j.scan = "no" /\ j.after = cursor[c]
                            /\ j.state = "live"
<1> DEFINE j == [Idle("live") EXCEPT !.at = s, !.after = cursor[c]]
<1>1. /\ worker[s] = "up" /\ pages' = [pages EXCEPT ![c] = @ + 1]
      /\ job' = [job EXCEPT ![c] = j]
      /\ owed' = IF pages[c] = 0 THEN [owed EXCEPT ![c] = files \cap valid] ELSE owed
      /\ UNCHANGED <<files, valid, worker, probes, current, cursor>>
  BY DEF Start
<1>2. Types
  BY DEF PlaceInv
<1>3. cursor[c] \in Hashes \cup {0}
  BY <1>2 DEF Types
<1>4. /\ j \in Jobs /\ j.active = FALSE /\ j.scan = "no" /\ j.after = cursor[c]
      /\ j.state = "live" /\ j.at = s /\ j.thread = "idle" /\ j.more = FALSE
      /\ j.entries = {}
  BY <1>3 DEF Idle, Jobs
<1> HIDE DEF j
<1>5. Cardinality({}) = 0 /\ Batch \in Nat
  BY FS_EmptySet, RefreshAssumption
<1>6. Fits(c, j, worker, current')
  BY <1>1, <1>4, <1>5 DEF Fits, Held
<1>7. owed' \in [Clients -> SUBSET Hashes] /\ pages' \in [Clients -> Nat]
  BY <1>1, <1>2 DEF Types
<1>8. PlaceInv'
  BY <1>1, <1>2, <1>4, <1>6, <1>7, PlaceOne DEF Types
<1>9. job[c].active = FALSE
  <2>1. job[c] \in Jobs /\ Fits(c, job[c], worker, current) /\ job[c].state # "live"
    BY DEF PlaceInv, Types, Start
  <2>2. QED BY <2>1 DEF Fits, Jobs
<1>10. QED BY <1>1, <1>4, <1>8, <1>9

\* A page ends and is answered, or its client gets nothing.
LEMMA EndPlace ==
  ASSUME PlaceInv, NEW c \in Clients, Failed(c) \/ Reply(c)
  PROVE  /\ PlaceInv'
         /\ \E state \in {"more", "complete", "gone"} : job' = [job EXCEPT ![c] = Idle(state)]
<1>1. PICK state \in {"more", "complete", "gone"} : job' = [job EXCEPT ![c] = Idle(state)]
  BY DEF Failed, Reply
<1>2. /\ current' = Forgotten(c)
      /\ UNCHANGED <<files, valid, worker, owed, pages>>
  BY DEF Failed, Reply
<1>3. Types /\ job[c] \in Jobs
  BY DEF PlaceInv, Types
<1>4. cursor' \in [Clients -> Hashes \cup {0}]
  <2>1. job[c].after \in Hashes \cup {0}
    BY <1>3 DEF Jobs
  <2>2. QED BY <1>3, <2>1 DEF Failed, Reply, Types
<1>5. Idle(state) \in Jobs /\ Fits(c, Idle(state), worker, current')
  BY IdleFits
<1>6. PlaceInv'
  BY <1>1, <1>2, <1>3, <1>4, <1>5, ForgottenFacts, PlaceOne DEF Types
<1>7. QED BY <1>1, <1>6

\* The thread's job is destroyed when nobody waits for it.
LEMMA DetachedPlace ==
  ASSUME PlaceInv, NEW c \in Clients, job' = [job EXCEPT ![c] = Idle("gone")],
         current' = Forgotten(c),
         UNCHANGED <<files, valid, worker, probes, cursor, owed, pages>>
  PROVE  PlaceInv'
<1>1. Idle("gone") \in Jobs /\ Fits(c, Idle("gone"), worker, current')
  BY IdleFits
<1>2. Types
  BY DEF PlaceInv
<1>3. QED BY <1>1, <1>2, ForgottenFacts, PlaceOne DEF Types

\* The client goes.
LEMMA DisconnectPlace ==
  ASSUME PlaceInv, NEW c \in Clients, Disconnect(c)
  PROVE  /\ PlaceInv'
         /\ \E j \in Jobs : /\ job' = [job EXCEPT ![c] = j] /\ j.active = FALSE
                            /\ j.state \in {"detached", "gone"}
<1>1. Types /\ job[c] \in Jobs /\ Fits(c, job[c], worker, current)
  BY DEF PlaceInv, Types
<1>2. /\ job[c].state = "live"
      /\ UNCHANGED <<files, valid, worker, cursor, owed, pages>>
  BY DEF Disconnect, Live
<1>3. CASE Outlives(c)
  <2> DEFINE j == [job[c] EXCEPT !.state = "detached", !.active = FALSE, !.cancelled = TRUE]
  <2>1. job' = [job EXCEPT ![c] = j] /\ UNCHANGED current
    BY <1>1, <1>3 DEF Disconnect, Types
  <2>2. /\ j \in Jobs /\ j.active = FALSE /\ j.state = "detached" /\ j.at = job[c].at
        /\ j.scan = job[c].scan /\ j.thread = job[c].thread /\ j.entries = job[c].entries
        /\ j.more = job[c].more
    BY <1>1 DEF Jobs
  <2> HIDE DEF j
  <2>3. Fits(c, j, worker, current')
    BY <1>1, <1>2, <2>1, <2>2 DEF Fits, Held
  <2>4. PlaceInv'
    BY <1>1, <1>2, <2>1, <2>2, <2>3, PlaceOne DEF Types
  <2>5. QED BY <2>1, <2>2, <2>4
<1>4. CASE ~Outlives(c)
  <2> DEFINE j == [Idle("gone") EXCEPT !.thread = job[c].thread, !.at = job[c].at]
  <2>1. job' = [job EXCEPT ![c] = j] /\ current' = Forgotten(c) /\ job[c].thread = "idle"
    BY <1>4 DEF Disconnect, Outlives
  <2>2. Cardinality({}) = 0 /\ Batch \in Nat
    BY FS_EmptySet, RefreshAssumption
  <2>3. /\ j \in Jobs /\ j.active = FALSE /\ j.state = "gone" /\ j.thread = "idle"
        /\ j.entries = {} /\ j.more = FALSE
    BY <1>1, <2>1 DEF Jobs, Idle
  <2> HIDE DEF j
  <2>4. Fits(c, j, worker, current')
    BY <2>2, <2>3 DEF Fits, Held
  <2>5. PlaceInv'
    BY <1>1, <1>2, <2>1, <2>3, <2>4, ForgottenFacts, PlaceOne DEF Types
  <2>6. QED BY <2>1, <2>3, <2>5
<1>5. QED BY <1>3, <1>4

SameScan(j, k) ==
    /\ j.state = k.state /\ j.at = k.at /\ j.after = k.after /\ j.scan = k.scan
    /\ j.unseen = k.unseen /\ j.entries = k.entries /\ j.more = k.more

\* A step that leaves the scan and the place of a page alone.
LEMMA SamePlaced ==
  ASSUME PlaceInv, NEW c \in Clients, NEW j \in Jobs, job' = [job EXCEPT ![c] = j],
         SameScan(j, job[c]),
         \/ j.thread = "idle"
         \/ j.thread = "running" /\ Held(j) /\ j.scan = "open"
         \/ j.thread = "finished" /\ Held(j) /\ j.scan # "no",
         j.active => j.state = "live",
         UNCHANGED <<files, valid, worker, current, cursor, pages>>,
         owed' \in [Clients -> SUBSET Hashes]
  PROVE  PlaceInv'
<1>1. Types /\ Fits(c, job[c], worker, current)
  BY DEF PlaceInv
<1>2. Fits(c, j, worker, current')
  BY <1>1 DEF Fits, Held, SameScan
<1>3. QED BY <1>1, <1>2, PlaceOne DEF Types

\* The thread scans.
LEMMA ThreadPlace ==
  ASSUME PlaceInv, NEW c \in Clients, ThreadSlice(c)
  PROVE  /\ PlaceInv'
         /\ job[c].scan = "open"
         /\ \E j \in Jobs : \E k \in Slice(c) :
               /\ job' = [job EXCEPT ![c] = j]
               /\ SameScan(j, k) /\ j.active = job[c].active
<1>1. Types /\ job[c] \in Jobs /\ Fits(c, job[c], worker, current)
  BY DEF PlaceInv, Types
<1>2. /\ job[c].thread = "running"
      /\ UNCHANGED <<files, valid, worker, probes, current, cursor, owed, pages>>
  BY DEF ThreadSlice
<1>3. Held(job[c]) /\ job[c].scan = "open"
  BY <1>1, <1>2 DEF Fits
<1>4. PICK k \in Slice(c) :
        job' = [job EXCEPT ![c] = [k EXCEPT !.thread = IF k.scan = "open" THEN @
                                                       ELSE "finished"]]
  BY DEF ThreadSlice
<1> DEFINE t == IF k.scan = "open" THEN k.thread ELSE "finished"
           j == [k EXCEPT !.thread = t]
<1>5. job' = [job EXCEPT ![c] = j]
  BY <1>4
<1>6. QED
  <2>1. /\ k \in Jobs /\ SamePlace(k, job[c]) /\ k.scan # "no"
        /\ Cardinality(k.entries) <= Batch
        /\ k.more => Cardinality(k.entries) = Batch
    BY <1>3, SliceFacts
  <2>2. t \in {"running", "finished"} /\ (t = "running" => k.scan = "open")
    BY <1>2, <2>1 DEF SamePlace
  <2> HIDE DEF t
  <2>3. /\ j \in Jobs /\ SameScan(j, k) /\ j.active = k.active /\ j.thread = t
    BY <2>1, <2>2 DEF Jobs, SameScan
  <2> HIDE DEF j
  <2>4. Fits(c, j, worker, current')
    <3>1. /\ j.state = job[c].state /\ j.at = job[c].at /\ j.active = job[c].active
          /\ j.scan = k.scan /\ j.entries = k.entries /\ j.more = k.more
      BY <2>1, <2>3 DEF SamePlace, SameScan
    <3>2. Held(j) /\ j.scan # "no"
      BY <1>3, <2>1, <3>1 DEF Held
    <3>3. j.at \in Slots /\ worker[j.at] \in {"up", "quitting"} /\ current'[j.at] = c
      BY <1>1, <1>2, <1>3, <3>1 DEF Fits
    <3>4. j.active => j.state = "live"
      BY <1>1, <3>1 DEF Fits
    <3>5. j.thread = "running" => j.scan = "open"
      BY <2>2, <2>3, <3>1
    <3>6. QED BY <2>1, <3>1, <3>2, <3>3, <3>4, <3>5 DEF Fits
  <2>5. PlaceInv'
    BY <1>1, <1>2, <1>5, <2>3, <2>4, PlaceOne DEF Types
  <2>6. j.active = job[c].active
    BY <2>1, <2>3 DEF SamePlace
  <2>7. QED BY <1>3, <1>5, <2>3, <2>5, <2>6

\* The scan is created.
LEMMA OpenPlace ==
  ASSUME PlaceInv, NEW c \in Clients, Live(c), current[job[c].at] \in {Null, c},
         Open(c), UNCHANGED <<worker, pages>>
  PROVE  /\ PlaceInv'
         /\ \E j \in Jobs : /\ job' = [job EXCEPT ![c] = j] /\ j.active = job[c].active
                            /\ j.at = job[c].at
                            /\ j.state = "live" /\ j.after = job[c].after
                            /\ j.scan = "open" /\ j.unseen = files
<1>1. Types /\ job[c] \in Jobs /\ Fits(c, job[c], worker, current) /\ job[c].state = "live"
  BY DEF PlaceInv, Types, Live
<1>2. job[c].at \in Slots
  BY <1>1 DEF Fits, Held
<1>3. /\ current' = [current EXCEPT ![job[c].at] = c]
      /\ UNCHANGED <<files, valid, probes, cursor, owed>>
  BY DEF Open
<1>4. PICK posted \in {"running", "idle"} :
        job' = [job EXCEPT ![c].scan = "open", ![c].unseen = files, ![c].thread = posted]
  BY DEF Open
<1> DEFINE j == [job[c] EXCEPT !.scan = "open", !.unseen = files, !.thread = posted]
<1>5. job' = [job EXCEPT ![c] = j]
  BY <1>1, <1>4 DEF Types
<1>6. files \in SUBSET Hashes
  BY <1>1 DEF Types
<1>7. /\ j \in Jobs /\ j.active = job[c].active /\ j.state = "live"
      /\ j.after = job[c].after /\ j.scan = "open" /\ j.unseen = files
      /\ j.at = job[c].at /\ j.thread = posted /\ j.entries = job[c].entries
      /\ j.more = job[c].more
  BY <1>1, <1>6 DEF Jobs
<1> HIDE DEF j
<1>8. /\ current' \in [Slots -> Clients \cup {Null}] /\ current'[job[c].at] = c
      /\ \A s \in Slots : current'[s] = current[s] \/ current[s] \in {Null, c}
  BY <1>1, <1>2, <1>3 DEF Types
<1>9. Fits(c, j, worker, current')
  BY <1>1, <1>2, <1>7, <1>8 DEF Fits, Held
<1>10. PlaceInv'
  BY <1>1, <1>3, <1>5, <1>7, <1>8, <1>9, PlaceOne DEF Types
<1>11. QED BY <1>5, <1>7, <1>10

\* The scan is posted again, or the event loop walks.
LEMMA ScanPlace ==
  ASSUME PlaceInv, NEW c \in Clients, Live(c), job[c].thread # "running", Scan(c), UNCHANGED <<worker, pages>>
  PROVE  /\ PlaceInv'
         /\ job[c].scan = "open"
         /\ \E j \in Jobs : /\ job' = [job EXCEPT ![c] = j] /\ j.active = job[c].active
                            /\ \/ SameScan(j, job[c])
                               \/ \E k \in Slice(c) : SameScan(j, k)
<1>1. Types /\ job[c] \in Jobs /\ Fits(c, job[c], worker, current) /\ job[c].state = "live"
  BY DEF PlaceInv, Types, Live
<1>2. job[c].scan = "open" /\ UNCHANGED <<files, valid, probes, current, cursor, owed>>
  BY DEF Scan
<1>3. CASE job[c].at \in Pooled
  <2> DEFINE j == [job[c] EXCEPT !.thread = "running"]
  <2>1. job' = [job EXCEPT ![c] = j]
    BY <1>1, <1>3 DEF Scan, Types
  <2>2. /\ j \in Jobs /\ SameScan(j, job[c]) /\ j.active = job[c].active
        /\ j.thread = "running"
    BY <1>1 DEF Jobs, SameScan
  <2> HIDE DEF j
  <2>3. Held(j) /\ j.scan = "open" /\ (j.active => j.state = "live")
    BY <1>1, <1>2, <2>2 DEF SameScan, Held
  <2>4. PlaceInv'
    BY <1>1, <1>2, <2>1, <2>2, <2>3, SamePlaced DEF Types
  <2>5. QED BY <1>2, <2>1, <2>2, <2>4
<1>4. CASE job[c].at \notin Pooled
  <2>1. PICK k \in Slice(c) : job' = [job EXCEPT ![c] = k]
    BY <1>4 DEF Scan
  <2>2. /\ k \in Jobs /\ SamePlace(k, job[c]) /\ k.scan # "no"
        /\ Cardinality(k.entries) <= Batch
        /\ k.more => Cardinality(k.entries) = Batch
        /\ k.thread # "running"
    BY <1>2, SliceFacts DEF SamePlace
  <2>3. Fits(c, k, worker, current')
    BY <1>1, <1>2, <2>2 DEF Fits, Held, SamePlace
  <2>4. PlaceInv'
    BY <1>1, <1>2, <2>1, <2>2, <2>3, PlaceOne DEF Types
  <2>5. SameScan(k, k) /\ k.active = job[c].active
    BY <2>2 DEF SameScan, SamePlace
  <2>6. QED BY <1>2, <2>1, <2>2, <2>4, <2>5
<1>5. QED BY <1>3, <1>4

\* The page is done with an entry.
LEMMA AdvancePlace ==
  ASSUME PlaceInv, NEW c \in Clients, NEW h \in Hashes, Live(c), Advance(c, h),
         valid' \subseteq valid, owed' = StillOwed(c, h),
         UNCHANGED <<files, worker, current, cursor, pages>>
  PROVE  /\ PlaceInv'
         /\ \E j \in Jobs : /\ job' = [job EXCEPT ![c] = j] /\ j.active = job[c].active
                            /\ j.at = job[c].at
                            /\ j.state = "live" /\ j.after = h /\ j.scan = job[c].scan
                            /\ j.entries = job[c].entries /\ j.more = job[c].more
<1>1. Types /\ job[c] \in Jobs /\ Fits(c, job[c], worker, current) /\ job[c].state = "live"
  BY DEF PlaceInv, Types, Live
<1> DEFINE j == [job[c] EXCEPT !.after = h, !.decision = FALSE, !.settled = FALSE,
                               !.thread = "idle"]
<1>2. job' = [job EXCEPT ![c] = j]
  BY <1>1 DEF Advance, Types
<1>3. /\ j \in Jobs /\ j.active = job[c].active /\ j.state = "live" /\ j.after = h
      /\ j.scan = job[c].scan /\ j.entries = job[c].entries /\ j.more = job[c].more
      /\ j.at = job[c].at /\ j.thread = "idle"
  BY <1>1 DEF Jobs
<1> HIDE DEF j
<1>4. Fits(c, j, worker, current')
  BY <1>1, <1>3 DEF Fits, Held
<1>5. owed' \in [Clients -> SUBSET Hashes]
  BY <1>1 DEF StillOwed, Types
<1>6. valid' \subseteq Hashes
  BY <1>1 DEF Types
<1>7. PlaceInv'
  BY <1>1, <1>2, <1>3, <1>4, <1>5, <1>6, PlaceOne DEF Types
<1>8. QED BY <1>2, <1>3, <1>7

\* A step that changes nothing of a page but its flags.
Flags(c) ==
    \E j \in Jobs : /\ job' = [job EXCEPT ![c] = j] /\ SameScan(j, job[c])
                    /\ j.active => j.state = "live"
                    /\ \/ j.thread = "idle"
                       \/ j.thread = job[c].thread

\* It keeps the invariant.
LEMMA FlagsPlace ==
  ASSUME PlaceInv, NEW c \in Clients, Flags(c),
         UNCHANGED <<files, valid, worker, current, cursor, owed, pages>>
  PROVE  PlaceInv'
<1>1. Types /\ job[c] \in Jobs /\ Fits(c, job[c], worker, current)
  BY DEF PlaceInv, Types
<1>2. PICK j \in Jobs : /\ job' = [job EXCEPT ![c] = j] /\ SameScan(j, job[c])
                        /\ j.active => j.state = "live"
                        /\ j.thread = "idle" \/ j.thread = job[c].thread
  BY DEF Flags
<1>3. \/ j.thread = "idle"
      \/ j.thread = "running" /\ Held(j) /\ j.scan = "open"
      \/ j.thread = "finished" /\ Held(j) /\ j.scan # "no"
  BY <1>1, <1>2 DEF Fits, Held, SameScan, Jobs
<1>4. QED BY <1>1, <1>2, <1>3, SamePlaced DEF Types

\* The steps that do: a HEAD is sent or waits for a credit.
LEMMA ProbeFlags ==
  ASSUME PlaceInv, NEW c \in Clients, Live(c), NEW a \in BOOLEAN,
         job' = [job EXCEPT ![c].active = a, ![c].thread = "idle"]
  PROVE  Flags(c) /\ job'[c].active = a /\ job'[c].at = job[c].at
<1>1. job \in [Clients -> Jobs] /\ job[c] \in Jobs /\ job[c].state = "live"
  BY DEF PlaceInv, Types, Live
<1> DEFINE j == [job[c] EXCEPT !.active = a, !.thread = "idle"]
<1>2. job' = [job EXCEPT ![c] = j]
  BY <1>1
<1>3. /\ j \in Jobs /\ SameScan(j, job[c]) /\ j.thread = "idle" /\ j.active = a
      /\ j.state = "live" /\ j.at = job[c].at
  BY <1>1 DEF Jobs, SameScan
<1> HIDE DEF j
<1>4. job'[c] = j
  BY <1>1, <1>2
<1>5. QED BY <1>2, <1>3, <1>4 DEF Flags

\* The timer stops a scan.
LEMMA CancelFlags ==
  ASSUME PlaceInv, NEW c \in Clients, Cancel(c)
  PROVE  Flags(c) /\ job'[c].active = job[c].active
<1>1. /\ job \in [Clients -> Jobs] /\ job[c] \in Jobs
      /\ Fits(c, job[c], worker, current)
  BY DEF PlaceInv, Types
<1> DEFINE j == [job[c] EXCEPT !.cancelled = TRUE]
<1>2. job' = [job EXCEPT ![c] = j]
  BY <1>1 DEF Cancel
<1>3. /\ j \in Jobs /\ SameScan(j, job[c]) /\ j.thread = job[c].thread
      /\ j.active = job[c].active /\ j.state = job[c].state
  BY <1>1 DEF Jobs, SameScan
<1> HIDE DEF j
<1>4. job'[c] = j
  BY <1>1, <1>2
<1>5. QED BY <1>1, <1>2, <1>3, <1>4 DEF Flags, Fits

\* A HEAD is over.
LEMMA AnsweredFlags ==
  ASSUME PlaceInv, NEW c \in Clients, Answered(c)
  PROVE  Flags(c) /\ job'[c].active = FALSE
<1>1. job \in [Clients -> Jobs] /\ job[c] \in Jobs
  BY DEF PlaceInv, Types
<1>2. PICK b \in BOOLEAN :
        job' = [job EXCEPT ![c] = [job[c] EXCEPT !.active = FALSE,
                                                 !.settled = IF b THEN TRUE ELSE @,
                                                 !.decision = IF b THEN @ ELSE TRUE]]
  <2>1. CASE job' = [job EXCEPT ![c].active = FALSE, ![c].settled = TRUE]
    <3>1. job' = [job EXCEPT ![c] = [job[c] EXCEPT !.active = FALSE, !.settled = TRUE,
                                                   !.decision = job[c].decision]]
      BY <1>1, <2>1 DEF Jobs
    <3>2. WITNESS TRUE \in BOOLEAN
    <3>3. QED BY <1>1, <3>1
  <2>2. CASE job' = [job EXCEPT ![c].active = FALSE, ![c].decision = TRUE]
    <3>1. job' = [job EXCEPT ![c] = [job[c] EXCEPT !.active = FALSE, !.decision = TRUE,
                                                   !.settled = job[c].settled]]
      BY <1>1, <2>2 DEF Jobs
    <3>2. WITNESS FALSE \in BOOLEAN
    <3>3. QED BY <1>1, <3>1
  <2>3. QED BY <2>1, <2>2 DEF Answered
<1> DEFINE st == IF b THEN TRUE ELSE job[c].settled
           de == IF b THEN job[c].decision ELSE TRUE
           j == [job[c] EXCEPT !.active = FALSE, !.settled = st, !.decision = de]
<1>3. job' = [job EXCEPT ![c] = j]
  BY <1>2
<1>4. st \in BOOLEAN /\ de \in BOOLEAN
  BY <1>1 DEF Jobs
<1> HIDE DEF st, de
<1>5. /\ j \in Jobs /\ SameScan(j, job[c]) /\ j.thread = job[c].thread
      /\ j.active = FALSE
  BY <1>1, <1>4 DEF Jobs, SameScan
<1> HIDE DEF j
<1>6. job'[c] = j
  BY <1>1, <1>3
<1>7. QED BY <1>3, <1>5, <1>6 DEF Flags

\* The deadline passes.
LEMMA ExpireFlags ==
  ASSUME PlaceInv, NEW c \in Clients, Expire(c)
  PROVE  Flags(c) /\ job'[c].active = job[c].active
<1>1. /\ job \in [Clients -> Jobs] /\ job[c] \in Jobs
      /\ Fits(c, job[c], worker, current)
  BY DEF PlaceInv, Types
<1> DEFINE j == [job[c] EXCEPT !.late = TRUE]
<1>2. job' = [job EXCEPT ![c] = j]
  BY <1>1 DEF Expire
<1>3. /\ j \in Jobs /\ SameScan(j, job[c]) /\ j.thread = job[c].thread
      /\ j.active = job[c].active /\ j.state = job[c].state
  BY <1>1 DEF Jobs, SameScan
<1> HIDE DEF j
<1>4. job'[c] = j
  BY <1>1, <1>2
<1>5. QED BY <1>1, <1>2, <1>3, <1>4 DEF Flags, Fits

\* What a worker loses when it goes.
LEMMA LosePlace ==
  ASSUME PlaceInv, NEW s \in Slots, NEW x \in {"dead", "none"},
         worker' = [worker EXCEPT ![s] = x], Lose(s)
  PROVE  PlaceInv'
<1>1. Types
  BY DEF PlaceInv
<1>2. /\ job' = [c \in Clients |-> IF job[c].at = s THEN Idle("gone") ELSE job[c]]
      /\ current' = [current EXCEPT ![s] = Null]
      /\ UNCHANGED <<files, valid, cursor, owed, pages>>
  BY DEF Lose
<1>3. ASSUME NEW d \in Clients
      PROVE  job'[d] \in Jobs /\ Fits(d, job'[d], worker', current')
  <2>1. CASE job[d].at = s
    <3>1. job'[d] = Idle("gone")
      BY <1>2, <2>1
    <3>2. QED BY <3>1, IdleFits
  <2>2. CASE job[d].at # s
    <3>1. job'[d] = job[d] /\ job[d] \in Jobs /\ Fits(d, job[d], worker, current)
      BY <1>1, <1>2, <2>2 DEF PlaceInv, Types
    <3>2. \A t \in Slots : t # s => worker'[t] = worker[t] /\ current'[t] = current[t]
      BY <1>1, <1>2 DEF Types
    <3>3. QED BY <2>2, <3>1, <3>2 DEF Fits
  <2>3. QED BY <2>1, <2>2
<1>4. job' \in [Clients -> Jobs]
  BY <1>2, <1>3
<1>5. /\ worker' \in [Slots -> {"none", "up", "quitting", "dead", "reused"}]
      /\ current' \in [Slots -> Clients \cup {Null}]
  BY <1>1, <1>2 DEF Types
<1>6. QED BY <1>1, <1>2, <1>3, <1>4, <1>5 DEF PlaceInv, Types

\* A worker is told to exit, another process has the slot or its number.
LEMMA WorkerPlace ==
  ASSUME PlaceInv, NEW s \in Slots,
         NEW x \in {"none", "up", "quitting", "dead", "reused"},
         worker' = [worker EXCEPT ![s] = x],
         worker[s] \in {"up", "quitting"} => x \in {"up", "quitting"},
         UNCHANGED <<files, valid, current, job, cursor, owed, pages>>
  PROVE  PlaceInv'
<1>1. Types
  BY DEF PlaceInv
<1>2. worker' \in [Slots -> {"none", "up", "quitting", "dead", "reused"}]
  BY <1>1 DEF Types
<1>3. \A t \in Slots : worker[t] \in {"up", "quitting"} => worker'[t] \in {"up", "quitting"}
  BY <1>1 DEF Types
<1>4. ASSUME NEW d \in Clients PROVE Fits(d, job'[d], worker', current')
  <2>1. Fits(d, job[d], worker, current)
    BY DEF PlaceInv
  <2>2. QED BY <1>3, <2>1 DEF Fits
<1>5. QED BY <1>1, <1>2, <1>4 DEF PlaceInv, Types

\* Others change the directory or the generations.
LEMMA ChangePlace ==
  ASSUME PlaceInv, NEW h \in Hashes, Change(h)
  PROVE  /\ PlaceInv'
         /\ UNCHANGED <<worker, probes, current, cursor, pages>>
         /\ \A c \in Clients :
               /\ job'[c].unseen = job[c].unseen \/ job'[c].unseen = job[c].unseen \ {h}
               /\ job'[c].state = job[c].state /\ job'[c].at = job[c].at
               /\ job'[c].after = job[c].after /\ job'[c].scan = job[c].scan
               /\ job'[c].entries = job[c].entries /\ job'[c].more = job[c].more
               /\ job'[c].active = job[c].active
<1>1. Types
  BY DEF PlaceInv
<1>2. UNCHANGED <<worker, probes, current, cursor, pages>>
  BY DEF Change
<1>3. /\ files' \subseteq Hashes /\ valid' \subseteq Hashes
      /\ owed' \in [Clients -> SUBSET Hashes]
  BY <1>1 DEF Change, Fill, Evict, Purge, Types
<1>4. ASSUME NEW c \in Clients
      PROVE  \E u \in SUBSET Hashes : /\ job'[c] = [job[c] EXCEPT !.unseen = u]
                                      /\ u = job[c].unseen \/ u = job[c].unseen \ {h}
  <2>1. job[c] \in Jobs
    BY <1>1 DEF Types
  <2>2. job' = job \/ job' = [d \in Clients |-> [job[d] EXCEPT !.unseen = @ \ {h}]]
    BY DEF Change, Fill, Evict, Purge
  <2>3. CASE job' = job
    <3>1. job[c] = [job[c] EXCEPT !.unseen = job[c].unseen] /\ job[c].unseen \in SUBSET Hashes
      BY <2>1 DEF Jobs
    <3>2. QED BY <2>3, <3>1
  <2>4. CASE job' = [d \in Clients |-> [job[d] EXCEPT !.unseen = @ \ {h}]]
    <3>1. job[c].unseen \ {h} \in SUBSET Hashes
      BY <2>1 DEF Jobs
    <3>2. QED BY <2>4, <3>1
  <2>5. QED BY <2>2, <2>3, <2>4
<1>5. job' \in [Clients -> Jobs]
  <2>1. job' = [c \in Clients |-> job'[c]]
    <3>1. job' = job \/ job' = [d \in Clients |-> [job[d] EXCEPT !.unseen = @ \ {h}]]
      BY DEF Change, Fill, Evict, Purge
    <3>2. QED BY <1>1, <3>1 DEF Types
  <2>2. ASSUME NEW c \in Clients PROVE job'[c] \in Jobs
    <3>1. job[c] \in Jobs
      BY <1>1 DEF Types
    <3>2. QED BY <1>4, <3>1, ZenonT(40) DEF Jobs
  <2>3. QED BY <2>1, <2>2
<1>6. ASSUME NEW c \in Clients
      PROVE  /\ job'[c].unseen = job[c].unseen \/ job'[c].unseen = job[c].unseen \ {h}
             /\ job'[c].state = job[c].state /\ job'[c].at = job[c].at
             /\ job'[c].after = job[c].after /\ job'[c].scan = job[c].scan
             /\ job'[c].entries = job[c].entries /\ job'[c].more = job[c].more
             /\ job'[c].active = job[c].active /\ job'[c].thread = job[c].thread
  <2>1. job[c] \in Jobs
    BY <1>1 DEF Types
  <2>2. QED BY <1>4, <2>1 DEF Jobs
<1>7. ASSUME NEW c \in Clients PROVE Fits(c, job'[c], worker', current')
  <2>1. Fits(c, job[c], worker, current)
    BY DEF PlaceInv
  <2>2. QED BY <1>2, <1>6, <2>1 DEF Fits, Held
<1>8. PlaceInv'
  BY <1>1, <1>2, <1>3, <1>5, <1>7 DEF PlaceInv, Types
<1>9. QED BY <1>2, <1>6, <1>8

\* The entry that is next lies after the cursor of the page, and no other between.
LEMMA NextFacts ==
  ASSUME PlaceInv, NEW c \in Clients, Rest(c) # {}
  PROVE  /\ NextEntry(c) \in Rest(c) /\ NextEntry(c) \in Hashes
         /\ NextEntry(c) \in job[c].entries /\ NextEntry(c) > job[c].after
         /\ \A e \in job[c].entries : e > job[c].after => NextEntry(c) <= e
<1>1. /\ job[c].entries \subseteq Hashes /\ Hashes \subseteq Nat /\ IsFiniteSet(Hashes)
  BY RefreshAssumption DEF PlaceInv, Types, Jobs
<1>2. Rest(c) \subseteq Hashes /\ Rest(c) \subseteq job[c].entries
  BY <1>1 DEF Rest
<1> DEFINE R == Rest(c)
<1>3. Min(R) \in R /\ \A y \in R : Min(R) <= y
  <2>1. R \in SUBSET Int /\ IsFiniteSet(R) /\ R # {}
    <3>1. R \subseteq Hashes /\ R # {}
      BY <1>2
    <3> HIDE DEF R
    <3>2. IsFiniteSet(R)
      BY <1>1, <3>1, FS_Subset
    <3>3. R \in SUBSET Int
      BY <1>1, <3>1
    <3>4. QED BY <3>1, <3>2, <3>3
  <2> HIDE DEF R
  <2>2. QED BY <2>1, MinFacts
<1>4. QED BY <1>2, <1>3 DEF NextEntry, Rest

\* The callback of a page: it ends, or it goes on while no HEAD is under way, with
\* the next entry of the page if it has its entries.
LEMMA ProceedCases ==
  ASSUME PlaceInv, NEW c \in Clients, Proceed(c)
  PROVE  /\ Live(c) /\ job[c].active = FALSE
         /\ \/ Failed(c) \/ Reply(c)
            \/ /\ current[job[c].at] \in {Null, c}
               /\ UNCHANGED <<worker, pages>>
               /\ \/ Open(c)
                  \/ Scan(c)
                  \/ \E h \in Hashes :
                        /\ job[c].scan = "complete" /\ h = NextEntry(c) /\ Rest(c) # {}
                        /\ Probe(c, h) \/ Skip(c, h) \/ Decide(c, h)
<1>1. Live(c) /\ job[c].active = FALSE
  <2>1. job[c] \in Jobs
    BY DEF PlaceInv, Types
  <2>2. QED BY <2>1 DEF Proceed, Jobs
<1>2. CASE Failed(c) \/ Reply(c)
  BY <1>1, <1>2
<1>3. CASE ~(Failed(c) \/ Reply(c))
  <2>1. /\ current[job[c].at] \in {Null, c} /\ UNCHANGED <<worker, pages>>
        /\ \/ Open(c) \/ Scan(c)
           \/ /\ job[c].scan = "complete" /\ Rest(c) # {}
              /\ \/ Probe(c, NextEntry(c)) \/ Skip(c, NextEntry(c))
                 \/ Decide(c, NextEntry(c))
    BY <1>3 DEF Proceed
  <2>2. Rest(c) # {} => NextEntry(c) \in Hashes
    BY NextFacts
  <2>3. QED BY <1>1, <2>1, <2>2
<1>4. QED BY <1>2, <1>3

\* A step with an entry is a HEAD that is sent, or one that waits for a credit, or
\* the page is done with the entry.
LEMMA EntryCases ==
  ASSUME PlaceInv, NEW c \in Clients, Live(c), NEW h \in Hashes,
         Probe(c, h) \/ Skip(c, h) \/ Decide(c, h)
  PROVE  /\ UNCHANGED <<files, current, cursor>>
         /\ \/ /\ Advance(c, h) /\ valid' \subseteq valid /\ owed' = StillOwed(c, h)
               /\ probes' = probes \/ probes' = Cleared
            \/ /\ CreditLeft /\ probes' = [Cleared EXCEPT ![job[c].at] = @ + 1]
               /\ job' = [job EXCEPT ![c].active = TRUE, ![c].thread = "idle"]
               /\ UNCHANGED <<valid, owed>>
            \/ /\ probes' = Cleared
               /\ job' = [job EXCEPT ![c].thread = "idle"]
               /\ UNCHANGED <<valid, owed>>
<1>1. CASE Probe(c, h)
  BY <1>1 DEF Probe
<1>2. CASE Skip(c, h)
  BY <1>2 DEF Skip
<1>3. CASE Decide(c, h)
  BY <1>3 DEF Decide
<1>4. QED BY <1>1, <1>2, <1>3

\* The page waits for a credit.
LEMMA WaitFlags ==
  ASSUME PlaceInv, NEW c \in Clients, Live(c), job' = [job EXCEPT ![c].thread = "idle"]
  PROVE  Flags(c) /\ job'[c].active = job[c].active
<1>1. /\ job \in [Clients -> Jobs] /\ job[c] \in Jobs /\ job[c].state = "live"
  BY DEF PlaceInv, Types, Live
<1> DEFINE j == [job[c] EXCEPT !.thread = "idle"]
<1>2. job' = [job EXCEPT ![c] = j]
  BY <1>1
<1>3. /\ j \in Jobs /\ SameScan(j, job[c]) /\ j.thread = "idle"
      /\ j.active = job[c].active /\ j.state = "live"
  BY <1>1 DEF Jobs, SameScan
<1> HIDE DEF j
<1>4. job'[c] = j
  BY <1>1, <1>2
<1>5. QED BY <1>2, <1>3, <1>4 DEF Flags

\* The callback keeps the first invariant.
LEMMA ProceedPlace ==
  ASSUME PlaceInv, NEW c \in Clients, job[c].thread # "running", Proceed(c)
  PROVE  PlaceInv'
<1>1. Live(c) /\ job[c].active = FALSE
  BY ProceedCases
<1>2. CASE Failed(c) \/ Reply(c)
  BY <1>2, EndPlace
<1>3. CASE /\ current[job[c].at] \in {Null, c} /\ UNCHANGED <<worker, pages>>
           /\ Open(c) \/ Scan(c)
  BY <1>1, <1>3, OpenPlace, ScanPlace
<1>4. ASSUME NEW h \in Hashes, UNCHANGED <<worker, pages>>,
             Probe(c, h) \/ Skip(c, h) \/ Decide(c, h)
      PROVE  PlaceInv'
  <2>1. UNCHANGED <<files, current, cursor, worker, pages>>
    BY <1>1, <1>4, EntryCases
  <2>2. CASE Advance(c, h) /\ valid' \subseteq valid /\ owed' = StillOwed(c, h)
    BY <1>1, <2>1, <2>2, AdvancePlace
  <2>3. CASE /\ job' = [job EXCEPT ![c].active = TRUE, ![c].thread = "idle"]
             /\ UNCHANGED <<valid, owed>>
    BY <1>1, <2>1, <2>3, ProbeFlags, FlagsPlace
  <2>4. CASE job' = [job EXCEPT ![c].thread = "idle"] /\ UNCHANGED <<valid, owed>>
    BY <1>1, <2>1, <2>4, WaitFlags, FlagsPlace
  <2>5. QED BY <1>1, <1>4, <2>2, <2>3, <2>4, EntryCases
<1>5. QED BY <1>2, <1>3, <1>4, ProceedCases

\* So does every step.
LEMMA PlaceStep ==
  ASSUME PlaceInv, [Next]_vars
  PROVE  PlaceInv'
<1>1. ASSUME NEW c \in Clients, NEW s \in Slots, Start(c, s) PROVE PlaceInv'
  BY <1>1, StartPlace
<1>2. ASSUME NEW c \in Clients, Timer(c) PROVE PlaceInv'
  <2>1. CASE job[c].thread = "idle" /\ Proceed(c)
    BY <2>1, ProceedPlace
  <2>2. CASE Cancel(c)
    <3>1. UNCHANGED <<files, valid, worker, current, cursor, owed, pages>>
      BY <2>2 DEF Cancel
    <3>2. QED BY <2>2, <3>1, CancelFlags, FlagsPlace
  <2>3. QED BY <1>2, <2>1, <2>2 DEF Timer
<1>3. ASSUME NEW c \in Clients, ThreadSlice(c) PROVE PlaceInv'
  BY <1>3, ThreadPlace
<1>4. ASSUME NEW c \in Clients, ThreadDone(c) PROVE PlaceInv'
  <2>1. CASE Proceed(c)
    BY <1>4, <2>1, ProceedPlace DEF ThreadDone
  <2>2. CASE ~Proceed(c)
    BY <1>4, <2>2, DetachedPlace DEF ThreadDone
  <2>3. QED BY <2>1, <2>2
<1>5. ASSUME NEW c \in Clients, Answered(c) PROVE PlaceInv'
  <2>1. UNCHANGED <<files, valid, worker, current, cursor, owed, pages>>
    BY <1>5 DEF Answered
  <2>2. QED BY <1>5, <2>1, AnsweredFlags, FlagsPlace
<1>6. ASSUME NEW c \in Clients, Disconnect(c) PROVE PlaceInv'
  BY <1>6, DisconnectPlace
<1>7. ASSUME NEW c \in Clients, Expire(c) PROVE PlaceInv'
  <2>1. UNCHANGED <<files, valid, worker, current, cursor, owed, pages>>
    BY <1>7 DEF Expire
  <2>2. QED BY <1>7, <2>1, ExpireFlags, FlagsPlace
<1>8. ASSUME NEW s \in Slots, Crash(s) \/ ExitWorker(s) PROVE PlaceInv'
  <2>1. PICK x \in {"dead", "none"} : worker' = [worker EXCEPT ![s] = x]
    BY <1>8 DEF Crash, ExitWorker
  <2>2. Lose(s)
    BY <1>8 DEF Crash, ExitWorker
  <2>3. QED BY <2>1, <2>2, LosePlace
<1>9. ASSUME NEW s \in Slots, Quit(s) \/ InitWorker(s) \/ Other(s) PROVE PlaceInv'
  <2>1. UNCHANGED <<files, valid, current, job, cursor, owed, pages>>
    BY <1>9 DEF Quit, InitWorker, Other
  <2>2. PICK x \in {"none", "up", "quitting", "dead", "reused"} :
          /\ worker' = [worker EXCEPT ![s] = x]
          /\ worker[s] \in {"up", "quitting"} => x \in {"up", "quitting"}
    BY <1>9 DEF Quit, InitWorker, Other
  <2>3. QED BY <2>1, <2>2, WorkerPlace
<1>10. ASSUME NEW h \in Hashes, Change(h) PROVE PlaceInv'
  BY <1>10, ChangePlace
<1>11. CASE UNCHANGED vars
  BY <1>11 DEF vars, PlaceInv, Types
<1>12. QED
  BY <1>1, <1>2, <1>3, <1>4, <1>5, <1>6, <1>7, <1>8, <1>9, <1>10, <1>11 DEF Next

\* The invariant holds at first.
LEMMA PlaceInit == Init => PlaceInv
<1> SUFFICES ASSUME Init PROVE PlaceInv
  OBVIOUS
<1>1. Idle("none") \in Jobs /\ \A c \in Clients : Fits(c, Idle("none"), worker, current)
  BY IdleFits
<1>2. Types
  BY <1>1 DEF Init, Types
<1>3. QED BY <1>1, <1>2 DEF PlaceInv, Init

-----------------------------------------------------------------------------
(* The second invariant: the HEAD requests and their credits *)

\* The pages that wait for a HEAD, and those of one worker.
Active == {c \in Clients : job[c].active}
ActiveAt(s) == {c \in Clients : job[c].at = s /\ job[c].active}

CreditInv ==
    /\ PlaceInv
    /\ probes \in [Slots -> Nat]
    /\ \A s \in Slots : probes[s] <= Probes
    /\ IsFiniteSet(Active)
    /\ ProbesAccounted

\* The pages of a worker that wait for a HEAD are counted, and a page that does
\* has a worker that works.
LEMMA ActiveFacts ==
  ASSUME CreditInv
  PROVE  /\ \A s \in Slots : IsFiniteSet(ActiveAt(s)) /\ Cardinality(ActiveAt(s)) \in Nat
         /\ \A s \in Slots : Working(s) => probes[s] = Cardinality(ActiveAt(s))
         /\ \A c \in Active : job[c].at \in Slots /\ Working(job[c].at)
         /\ Cardinality(Active) \in Nat /\ Cardinality(Active) <= Probes
         /\ Probes \in Nat
<1>1. ASSUME NEW s \in Slots
      PROVE  IsFiniteSet(ActiveAt(s)) /\ Cardinality(ActiveAt(s)) \in Nat
  <2>1. ActiveAt(s) \subseteq Active /\ IsFiniteSet(Active)
    BY DEF Active, ActiveAt, CreditInv
  <2>2. QED BY <2>1, FS_Subset, FS_CardinalityType
<1>2. ASSUME NEW c \in Active PROVE job[c].at \in Slots /\ Working(job[c].at)
  <2>1. c \in Clients /\ job[c].active /\ Fits(c, job[c], worker, current)
    BY DEF Active, CreditInv, PlaceInv
  <2>2. QED BY <2>1 DEF Fits, Held, Working
<1>3. \A s \in Slots : Working(s) => probes[s] = Cardinality(ActiveAt(s))
  BY DEF CreditInv, ProbesAccounted, CreditsBalanced, ActiveAt
<1>4. Cardinality(Active) <= Probes /\ Cardinality(Active) \in Nat /\ Probes \in Nat
  BY FS_CardinalityType, RefreshAssumption DEF CreditInv, ProbesAccounted, ProbeLimit, Active
<1>5. QED BY <1>1, <1>2, <1>3, <1>4

\* What a step has to show.
LEMMA CreditNext ==
  ASSUME PlaceInv', probes' \in [Slots -> Nat], \A s \in Slots : probes'[s] <= Probes,
         NEW A, A = {c \in Clients : job'[c].active}, IsFiniteSet(A),
         Cardinality(A) <= Probes,
         \A s \in Slots : worker'[s] \in {"up", "quitting"} =>
            probes'[s] = Cardinality({c \in Clients : job'[c].at = s /\ job'[c].active})
  PROVE  CreditInv'
<1>1. Active' = A
  BY DEF Active
<1>2. ProbeLimit'
  BY DEF ProbeLimit
<1>3. CreditsBalanced'
  BY DEF CreditsBalanced, Working
<1>4. QED BY <1>1, <1>2, <1>3 DEF CreditInv, ProbesAccounted

\* The credits that are left once those of processes that are gone are cleared.
LEMMA ClearedFacts ==
  ASSUME CreditInv
  PROVE  /\ Cleared \in [Slots -> Nat]
         /\ \A s \in Slots : Cleared[s] <= Probes
         /\ \A s \in Slots : Working(s) => Cleared[s] = probes[s]
<1>1. Probes \in Nat
  BY RefreshAssumption
<1>2. QED BY <1>1 DEF Cleared, Counted, Working, CreditInv

\* A step that neither starts nor ends a HEAD.
LEMMA CreditSame ==
  ASSUME CreditInv, PlaceInv', probes' = probes \/ probes' = Cleared,
         \A c \in Clients : /\ job'[c].active = job[c].active
                            /\ job[c].active => job'[c].at = job[c].at,
         \A s \in Slots : worker'[s] \in {"up", "quitting"} => Working(s)
  PROVE  CreditInv'
<1>1. /\ probes' \in [Slots -> Nat]
      /\ \A s \in Slots : probes'[s] <= Probes
      /\ \A s \in Slots : Working(s) => probes'[s] = probes[s]
  BY ClearedFacts DEF CreditInv
<1>2. Active = {c \in Clients : job'[c].active}
  BY DEF Active
<1>3. \A s \in Slots : ActiveAt(s) = {c \in Clients : job'[c].at = s /\ job'[c].active}
  BY DEF ActiveAt
<1>4. \A s \in Slots : worker'[s] \in {"up", "quitting"} =>
         probes'[s] = Cardinality({c \in Clients : job'[c].at = s /\ job'[c].active})
  <2>1. SUFFICES ASSUME NEW s \in Slots, worker'[s] \in {"up", "quitting"}
                 PROVE  probes'[s] = Cardinality({c \in Clients : job'[c].at = s /\ job'[c].active})
    OBVIOUS
  <2>2. Working(s) /\ probes'[s] = Cardinality(ActiveAt(s))
    BY <1>1, <2>1, ActiveFacts
  <2>3. QED BY <1>3, <2>2
<1>5. IsFiniteSet(Active) /\ Cardinality(Active) <= Probes
  BY ActiveFacts DEF CreditInv
<1>6. QED BY <1>1, <1>2, <1>4, <1>5, CreditNext

\* A HEAD is over: its page gives its credit back.
LEMMA CreditBack ==
  ASSUME CreditInv, PlaceInv', NEW c \in Clients, probes' = Returned(c),
         worker' = worker, job'[c].active = FALSE,
         \A d \in Clients \ {c} : job'[d] = job[d]
  PROVE  CreditInv'
<1>1. job[c].active \in BOOLEAN
  BY DEF CreditInv, PlaceInv, Types, Jobs
<1>2. CASE job[c].active = FALSE
  <2>1. probes' = probes
    BY <1>2 DEF Returned
  <2>2. QED BY <1>2, <2>1, CreditSame DEF Working
<1>3. CASE job[c].active
  <2> DEFINE s == job[c].at
  <2>1. c \in Active /\ s \in Slots /\ Working(s)
    BY <1>3, ActiveFacts DEF Active
  <2>2. c \in ActiveAt(s) /\ probes[s] = Cardinality(ActiveAt(s))
    BY <1>3, <2>1, ActiveFacts DEF ActiveAt
  <2>3. PICK t \in Slots : t = s
    BY <2>1
  <2>4. /\ IsFiniteSet(ActiveAt(t)) /\ c \in ActiveAt(t) /\ Cardinality(ActiveAt(t)) \in Nat
        /\ probes[t] = Cardinality(ActiveAt(t)) /\ Working(t)
    BY <2>1, <2>2, <2>3, ActiveFacts
  <2>5. Cardinality(ActiveAt(t) \ {c}) = Cardinality(ActiveAt(t)) - 1
    BY <2>4, FS_RemoveElement
  <2>6. Cardinality(ActiveAt(t)) # 0
    BY <2>4, FS_EmptySet
  <2>7. probes' = [probes EXCEPT ![t] = probes[t] - 1]
    BY <1>3, <2>3, <2>4, <2>6 DEF Returned
  <2> HIDE DEF s
  <2>8. /\ probes \in [Slots -> Nat] /\ \A u \in Slots : probes[u] <= Probes
        /\ Probes \in Nat
    BY RefreshAssumption DEF CreditInv
  <2>9. /\ probes' \in [Slots -> Nat] /\ \A u \in Slots : probes'[u] <= Probes
        /\ probes'[t] = probes[t] - 1 /\ \A u \in Slots : u # t => probes'[u] = probes[u]
    BY <2>4, <2>6, <2>7, <2>8
  <2>10. Active \ {c} = {d \in Clients : job'[d].active}
    BY DEF Active
  <2>11. /\ IsFiniteSet(Active \ {c})
         /\ Cardinality(Active \ {c}) <= Probes
    <3>1. IsFiniteSet(Active) /\ Cardinality(Active) \in Nat /\ Cardinality(Active) <= Probes
      BY ActiveFacts DEF CreditInv
    <3>2. IsFiniteSet(Active \ {c}) /\ Cardinality(Active \ {c}) <= Cardinality(Active)
      BY <3>1, FS_Subset
    <3>3. Cardinality(Active \ {c}) \in Nat
      BY <3>2, FS_CardinalityType
    <3>4. QED BY <2>8, <3>1, <3>2, <3>3
  <2>12. \A u \in Slots : worker'[u] \in {"up", "quitting"} =>
           probes'[u] = Cardinality({d \in Clients : job'[d].at = u /\ job'[d].active})
    <3>1. SUFFICES ASSUME NEW u \in Slots, worker'[u] \in {"up", "quitting"}
                   PROVE  probes'[u] = Cardinality({d \in Clients : job'[d].at = u /\ job'[d].active})
      OBVIOUS
    <3>2. CASE u = t
      <4>1. ActiveAt(t) \ {c} = {d \in Clients : job'[d].at = t /\ job'[d].active}
        BY DEF ActiveAt
      <4>2. QED BY <2>4, <2>5, <2>9, <3>2, <4>1
    <3>3. CASE u # t
      <4>1. job[c].at # u
        BY <2>3, <3>3 DEF s
      <4>2. ActiveAt(u) = {d \in Clients : job'[d].at = u /\ job'[d].active}
        BY <4>1 DEF ActiveAt
      <4>3. probes[u] = Cardinality(ActiveAt(u))
        BY <3>1, ActiveFacts DEF Working
      <4>4. QED BY <2>9, <3>3, <4>2, <4>3
    <3>4. QED BY <3>2, <3>3
  <2>13. QED BY <2>9, <2>10, <2>11, <2>12, CreditNext
<1>4. QED BY <1>1, <1>2, <1>3

\* A credit that is left means a HEAD may be sent, and that every slot may have it.
LEMMA CreditLeftFacts ==
  ASSUME CreditInv, CreditLeft
  PROVE  /\ Cardinality(Active) + 1 <= Probes
         /\ \A s \in Slots : Cleared[s] + 1 <= Probes
<1> DEFINE f == Cleared
           p == [a \in Active |-> job[a].at]
<1>1. IsFiniteSet(Slots) /\ IsFiniteSet(Active) /\ Probes \in Nat
  BY RefreshAssumption DEF CreditInv
<1>2. f \in [Slots -> Nat] /\ p \in [Active -> Slots]
  BY ClearedFacts, ActiveFacts
<1>3. ASSUME NEW s \in Slots PROVE Cardinality({a \in Active : p[a] = s}) <= f[s]
  <2>1. {a \in Active : p[a] = s} = ActiveAt(s)
    BY DEF Active, ActiveAt
  <2>2. PICK n \in Nat : n = Cardinality(ActiveAt(s))
    BY ActiveFacts
  <2>3. n <= f[s]
    <3>1. CASE Working(s)
      <4>1. f[s] = n
        BY <2>2, <3>1, ClearedFacts, ActiveFacts
      <4>2. QED BY <4>1
    <3>2. CASE ~Working(s)
      <4>1. ActiveAt(s) = {}
        BY <3>2, ActiveFacts DEF ActiveAt, Active
      <4>2. n = 0
        BY <2>2, <4>1, FS_EmptySet
      <4>3. QED BY <1>2, <4>2
    <3>3. QED BY <3>1, <3>2
  <2>4. QED BY <2>1, <2>2, <2>3, Zenon
<1>4. Total(f) = Sum(f, Slots)
  BY DEF Total, Sum
<1>5. Total(f) < Probes
  BY DEF CreditLeft
<1>6. Cardinality(Active) \in Nat
  BY ActiveFacts
<1> HIDE DEF f, p
<1>7. Cardinality(Active) <= Sum(f, Slots) /\ Sum(f, Slots) \in Nat
  BY <1>1, <1>2, <1>3, SumCounts
<1>8. ASSUME NEW s \in Slots PROVE f[s] <= Sum(f, Slots) /\ f[s] \in Nat
  BY <1>1, <1>2, SumChange
<1>9. Cardinality(Active) + 1 <= Probes
  BY <1>1, <1>4, <1>5, <1>6, <1>7
<1>10. \A s \in Slots : f[s] + 1 <= Probes
  BY <1>1, <1>4, <1>5, <1>7, <1>8
<1>11. QED BY <1>9, <1>10 DEF f

\* A HEAD is sent: its page takes a credit.
LEMMA CreditTaken ==
  ASSUME CreditInv, PlaceInv', NEW c \in Clients, Live(c), job[c].active = FALSE,
         CreditLeft, probes' = [Cleared EXCEPT ![job[c].at] = @ + 1],
         worker' = worker, job'[c].active, job'[c].at = job[c].at,
         \A d \in Clients \ {c} : job'[d] = job[d]
  PROVE  CreditInv'
<1>1. job[c].at \in Slots /\ Working(job[c].at)
  BY DEF CreditInv, PlaceInv, Fits, Held, Live, Working
<1>2. PICK t \in Slots : t = job[c].at
  BY <1>1
<1>3. Working(t) /\ probes' = [Cleared EXCEPT ![t] = Cleared[t] + 1]
  BY <1>1, <1>2
<1>4. /\ Cleared \in [Slots -> Nat] /\ \A s \in Slots : Cleared[s] <= Probes
      /\ Cleared[t] + 1 <= Probes
  BY ClearedFacts, CreditLeftFacts
<1>5. /\ probes' \in [Slots -> Nat] /\ \A s \in Slots : probes'[s] <= Probes
      /\ probes'[t] = Cleared[t] + 1 /\ \A s \in Slots : s # t => probes'[s] = Cleared[s]
  BY <1>3, <1>4
<1>6. c \notin Active /\ c \notin ActiveAt(t)
  BY DEF Active, ActiveAt
<1>7. Active \cup {c} = {d \in Clients : job'[d].active}
  BY DEF Active
<1>8. /\ IsFiniteSet(Active \cup {c})
      /\ Cardinality(Active \cup {c}) <= Probes
  <2>1. IsFiniteSet(Active)
    BY DEF CreditInv
  <2>2. IsFiniteSet(Active \cup {c}) /\ Cardinality(Active \cup {c}) = Cardinality(Active) + 1
    BY <1>6, <2>1, FS_AddElement
  <2>3. QED BY <2>2, CreditLeftFacts
<1>9. \A u \in Slots : worker'[u] \in {"up", "quitting"} =>
        probes'[u] = Cardinality({d \in Clients : job'[d].at = u /\ job'[d].active})
  <2>1. SUFFICES ASSUME NEW u \in Slots, worker'[u] \in {"up", "quitting"}
                 PROVE  probes'[u] = Cardinality({d \in Clients : job'[d].at = u /\ job'[d].active})
    OBVIOUS
  <2>2. Working(u) /\ Cleared[u] = Cardinality(ActiveAt(u)) /\ IsFiniteSet(ActiveAt(u))
    BY <2>1, ActiveFacts, ClearedFacts DEF Working
  <2>3. CASE u = t
    <3>1. ActiveAt(t) \cup {c} = {d \in Clients : job'[d].at = t /\ job'[d].active}
      BY <1>2 DEF ActiveAt
    <3>2. Cardinality(ActiveAt(t) \cup {c}) = Cardinality(ActiveAt(t)) + 1
      BY <1>6, <2>2, <2>3, FS_AddElement
    <3>3. QED BY <1>5, <2>2, <2>3, <3>1, <3>2
  <2>4. CASE u # t
    <3>1. ActiveAt(u) = {d \in Clients : job'[d].at = u /\ job'[d].active}
      BY <1>2, <2>4 DEF ActiveAt
    <3>2. QED BY <1>5, <2>2, <2>4, <3>1
  <2>5. QED BY <2>3, <2>4
<1>10. QED BY <1>5, <1>7, <1>8, <1>9, CreditNext

\* A worker goes or comes: no page there waits any more, and nobody else's credits
\* change.
LEMMA CreditSlot ==
  ASSUME CreditInv, PlaceInv', NEW s \in Slots, probes' \in [Slots -> Nat],
         \A t \in Slots \ {s} : worker'[t] = worker[t] /\ probes'[t] = probes[t],
         probes'[s] <= Probes,
         worker'[s] \in {"up", "quitting"} => probes'[s] = 0,
         \A c \in Clients : job[c].at = s => job'[c].active = FALSE,
         \A c \in Clients : job[c].at # s => job'[c] = job[c],
         \A c \in Clients : job'[c].active => job[c].active
  PROVE  CreditInv'
<1> DEFINE A == {c \in Clients : job'[c].active}
<1>1. A \subseteq Active
  BY DEF Active
<1>2. IsFiniteSet(A) /\ Cardinality(A) <= Probes
  <2> HIDE DEF A
  <2>1. IsFiniteSet(Active) /\ Cardinality(Active) \in Nat /\ Cardinality(Active) <= Probes
        /\ Probes \in Nat
    BY ActiveFacts DEF CreditInv
  <2>2. IsFiniteSet(A) /\ Cardinality(A) <= Cardinality(Active)
    BY <1>1, <2>1, FS_Subset
  <2>3. Cardinality(A) \in Nat
    BY <2>2, FS_CardinalityType
  <2>4. QED BY <2>1, <2>2, <2>3
<1>3. \A t \in Slots : probes'[t] <= Probes
  BY DEF CreditInv
<1>4. \A t \in Slots : worker'[t] \in {"up", "quitting"} =>
        probes'[t] = Cardinality({d \in Clients : job'[d].at = t /\ job'[d].active})
  <2>1. SUFFICES ASSUME NEW t \in Slots, worker'[t] \in {"up", "quitting"}
                 PROVE  probes'[t] = Cardinality({d \in Clients : job'[d].at = t /\ job'[d].active})
    OBVIOUS
  <2>2. CASE t = s
    <3>1. ASSUME NEW d \in Clients, job'[d].at = s, job'[d].active PROVE FALSE
      <4>1. job[d].at # s
        BY <3>1
      <4>2. job'[d] = job[d]
        BY <4>1
      <4>3. QED BY <3>1, <4>1, <4>2
    <3>2. {d \in Clients : job'[d].at = t /\ job'[d].active} = {}
      BY <2>2, <3>1
    <3>3. QED BY <2>1, <2>2, <3>2, FS_EmptySet
  <2>3. CASE t # s
    <3>1. ASSUME NEW d \in Clients
          PROVE  job'[d].at = t /\ job'[d].active <=> job[d].at = t /\ job[d].active
      <4>1. CASE job[d].at = s
        <5>1. job'[d].active = FALSE
          BY <4>1
        <5>2. QED BY <2>3, <4>1, <5>1
      <4>2. CASE job[d].at # s
        BY <4>2
      <4>3. QED BY <4>1, <4>2
    <3>2. ActiveAt(t) = {d \in Clients : job'[d].at = t /\ job'[d].active}
      BY <3>1 DEF ActiveAt
    <3>3. worker'[t] = worker[t] /\ probes'[t] = probes[t]
      BY <2>3
    <3>4. probes[t] = Cardinality(ActiveAt(t))
      BY <2>1, <3>3, ActiveFacts DEF Working
    <3>5. QED BY <3>2, <3>3, <3>4
  <2>4. QED BY <2>2, <2>3
<1>5. QED BY <1>2, <1>3, <1>4, CreditNext

\* A step of one page that neither starts nor ends a HEAD.
LEMMA CreditOne ==
  ASSUME CreditInv, PlaceInv', NEW c \in Clients, NEW j \in Jobs,
         job' = [job EXCEPT ![c] = j], j.active = job[c].active,
         job[c].active => j.at = job[c].at,
         probes' = probes \/ probes' = Cleared, worker' = worker
  PROVE  CreditInv'
<1>1. job \in [Clients -> Jobs]
  BY DEF CreditInv, PlaceInv, Types
<1>2. job'[c] = j /\ \A d \in Clients \ {c} : job'[d] = job[d]
  BY <1>1
<1>3. \A d \in Clients : /\ job'[d].active = job[d].active
                         /\ job[d].active => job'[d].at = job[d].at
  BY <1>2
<1>4. \A s \in Slots : worker'[s] \in {"up", "quitting"} => Working(s)
  BY DEF Working
<1>5. QED BY <1>3, <1>4, CreditSame

\* So is one of its flags.
LEMMA CreditFlags ==
  ASSUME CreditInv, PlaceInv', NEW c \in Clients, Flags(c),
         job'[c].active = job[c].active,
         probes' = probes \/ probes' = Cleared, worker' = worker
  PROVE  CreditInv'
<1>1. job \in [Clients -> Jobs]
  BY DEF CreditInv, PlaceInv, Types
<1>2. PICK j \in Jobs : job' = [job EXCEPT ![c] = j] /\ SameScan(j, job[c])
  BY DEF Flags
<1>3. j.active = job[c].active /\ j.at = job[c].at
  BY <1>1, <1>2 DEF SameScan
<1>4. QED BY <1>2, <1>3, CreditOne

\* The callback of a page.
LEMMA ProceedCredit ==
  ASSUME CreditInv, NEW c \in Clients, job[c].thread # "running", Proceed(c)
  PROVE  CreditInv'
<1>1. PlaceInv /\ Live(c) /\ job[c].active = FALSE /\ PlaceInv'
  BY ProceedCases, ProceedPlace DEF CreditInv
<1>2. CASE Failed(c) \/ Reply(c)
  <2>1. PICK state \in {"more", "complete", "gone"} : job' = [job EXCEPT ![c] = Idle(state)]
    BY <1>1, <1>2, EndPlace
  <2>2. Idle(state) \in Jobs /\ Idle(state).active = FALSE
    BY IdleFits
  <2>3. probes' = probes /\ worker' = worker
    BY <1>2 DEF Failed, Reply
  <2>4. QED BY <1>1, <2>1, <2>2, <2>3, CreditOne
<1>3. CASE current[job[c].at] \in {Null, c} /\ UNCHANGED <<worker, pages>> /\ Open(c)
  <2>1. \E j \in Jobs : job' = [job EXCEPT ![c] = j] /\ j.active = job[c].active
    BY <1>1, <1>3, OpenPlace
  <2>2. probes' = probes
    BY <1>3 DEF Open
  <2>3. QED BY <1>1, <1>3, <2>1, <2>2, CreditOne
<1>4. CASE UNCHANGED <<worker, pages>> /\ Scan(c)
  <2>1. \E j \in Jobs : job' = [job EXCEPT ![c] = j] /\ j.active = job[c].active
    BY <1>1, <1>4, ScanPlace
  <2>2. probes' = probes
    BY <1>4 DEF Scan
  <2>3. QED BY <1>1, <1>4, <2>1, <2>2, CreditOne
<1>5. ASSUME NEW h \in Hashes, UNCHANGED <<worker, pages>>,
             Probe(c, h) \/ Skip(c, h) \/ Decide(c, h)
      PROVE  CreditInv'
  <2>1. UNCHANGED <<files, current, cursor>>
    BY <1>1, <1>5, EntryCases
  <2>2. CASE /\ Advance(c, h) /\ valid' \subseteq valid /\ owed' = StillOwed(c, h)
             /\ probes' = probes \/ probes' = Cleared
    <3>1. \E j \in Jobs : job' = [job EXCEPT ![c] = j] /\ j.active = job[c].active
      BY <1>1, <1>5, <2>1, <2>2, AdvancePlace
    <3>2. QED BY <1>1, <1>5, <2>2, <3>1, CreditOne
  <2>3. CASE /\ CreditLeft /\ probes' = [Cleared EXCEPT ![job[c].at] = @ + 1]
             /\ job' = [job EXCEPT ![c].active = TRUE, ![c].thread = "idle"]
    <3>1. job'[c].active = TRUE /\ job'[c].at = job[c].at
      BY <1>1, <2>3, ProbeFlags
    <3>2. \A d \in Clients \ {c} : job'[d] = job[d]
      BY <1>1, <2>3 DEF PlaceInv, Types
    <3>3. QED BY <1>1, <1>5, <2>3, <3>1, <3>2, CreditTaken
  <2>4. CASE probes' = Cleared /\ job' = [job EXCEPT ![c].thread = "idle"]
    BY <1>1, <1>5, <2>4, WaitFlags, CreditFlags
  <2>5. QED BY <1>1, <1>5, <2>2, <2>3, <2>4, EntryCases
<1>6. QED BY <1>1, <1>2, <1>3, <1>4, <1>5, ProceedCases

\* Every step keeps the second invariant.
LEMMA CreditStep ==
  ASSUME CreditInv, [Next]_vars
  PROVE  CreditInv'
<1>1. PlaceInv /\ PlaceInv'
  BY PlaceStep DEF CreditInv
<1>2. ASSUME NEW c \in Clients, NEW s \in Slots, Start(c, s) PROVE CreditInv'
  <2>1. /\ job[c].active = FALSE
        /\ \E j \in Jobs : job' = [job EXCEPT ![c] = j] /\ j.active = FALSE
    BY <1>1, <1>2, StartPlace
  <2>2. probes' = probes /\ worker' = worker
    BY <1>2 DEF Start
  <2>3. QED BY <1>1, <2>1, <2>2, CreditOne
<1>3. ASSUME NEW c \in Clients, Timer(c) PROVE CreditInv'
  <2>1. CASE job[c].thread = "idle" /\ Proceed(c)
    BY <2>1, ProceedCredit
  <2>2. CASE Cancel(c)
    <3>1. worker' = worker /\ probes' = probes
      BY <2>2 DEF Cancel
    <3>2. QED BY <1>1, <2>2, <3>1, CancelFlags, CreditFlags
  <2>3. QED BY <1>3, <2>1, <2>2 DEF Timer
<1>4. ASSUME NEW c \in Clients, ThreadSlice(c) PROVE CreditInv'
  <2>1. PICK j \in Jobs, k \in Slice(c) :
          /\ job[c].scan = "open" /\ job' = [job EXCEPT ![c] = j]
          /\ SameScan(j, k) /\ j.active = job[c].active
    BY <1>1, <1>4, ThreadPlace
  <2>2. j.at = job[c].at
    BY <1>1, <2>1, SliceFacts DEF SameScan, SamePlace
  <2>3. probes' = probes /\ worker' = worker
    BY <1>4 DEF ThreadSlice
  <2>4. QED BY <1>1, <2>1, <2>2, <2>3, CreditOne
<1>5. ASSUME NEW c \in Clients, ThreadDone(c) PROVE CreditInv'
  <2>1. CASE Proceed(c)
    BY <1>5, <2>1, ProceedCredit DEF ThreadDone
  <2>2. CASE ~Proceed(c)
    <3>1. /\ job[c].state = "detached" /\ job' = [job EXCEPT ![c] = Idle("gone")]
          /\ probes' = probes /\ worker' = worker
      BY <1>5, <2>2 DEF ThreadDone
    <3>2. job[c] \in Jobs /\ Fits(c, job[c], worker, current)
      BY <1>1 DEF PlaceInv, Types
    <3>3. job[c].active = FALSE
      BY <3>1, <3>2 DEF Fits, Jobs
    <3>4. Idle("gone") \in Jobs /\ Idle("gone").active = FALSE
      BY IdleFits
    <3>5. QED BY <1>1, <3>1, <3>3, <3>4, CreditOne
  <2>3. QED BY <2>1, <2>2
<1>6. ASSUME NEW c \in Clients, Answered(c) PROVE CreditInv'
  <2>1. probes' = Returned(c) /\ worker' = worker
    BY <1>6 DEF Answered
  <2>2. job'[c].active = FALSE /\ \A d \in Clients \ {c} : job'[d] = job[d]
    BY <1>1, <1>6, AnsweredFlags DEF Flags, PlaceInv, Types
  <2>3. QED BY <1>1, <2>1, <2>2, CreditBack
<1>7. ASSUME NEW c \in Clients, Disconnect(c) PROVE CreditInv'
  <2>1. probes' = Returned(c) /\ worker' = worker
    BY <1>7 DEF Disconnect
  <2>2. \E j \in Jobs : job' = [job EXCEPT ![c] = j] /\ j.active = FALSE
    BY <1>1, <1>7, DisconnectPlace
  <2>3. job'[c].active = FALSE /\ \A d \in Clients \ {c} : job'[d] = job[d]
    BY <1>1, <2>2 DEF PlaceInv, Types
  <2>4. QED BY <1>1, <2>1, <2>3, CreditBack
<1>8. ASSUME NEW c \in Clients, Expire(c) PROVE CreditInv'
  <2>1. worker' = worker /\ probes' = probes
    BY <1>8 DEF Expire
  <2>2. QED BY <1>1, <1>8, <2>1, ExpireFlags, CreditFlags
<1>9. ASSUME NEW s \in Slots, Crash(s) \/ ExitWorker(s) PROVE CreditInv'
  <2>1. /\ probes \in [Slots -> Nat] /\ \A t \in Slots : probes[t] <= Probes
        /\ Probes \in Nat /\ worker \in [Slots -> {"none", "up", "quitting", "dead", "reused"}]
    BY RefreshAssumption DEF CreditInv, PlaceInv, Types
  <2>2. /\ \E x \in {"dead", "none"} : worker' = [worker EXCEPT ![s] = x]
        /\ probes' = probes \/ probes' = [probes EXCEPT ![s] = 0]
        /\ job' = [c \in Clients |-> IF job[c].at = s THEN Idle("gone") ELSE job[c]]
    BY <1>9 DEF Crash, ExitWorker, Lose
  <2>3. Idle("gone").active = FALSE
    BY IdleFits
  <2>4. /\ probes' \in [Slots -> Nat] /\ probes'[s] <= Probes
        /\ \A t \in Slots \ {s} : worker'[t] = worker[t] /\ probes'[t] = probes[t]
        /\ worker'[s] \notin {"up", "quitting"}
    BY <2>1, <2>2
  <2>5. /\ \A c \in Clients : job[c].at = s => job'[c].active = FALSE
        /\ \A c \in Clients : job[c].at # s => job'[c] = job[c]
    BY <2>2, <2>3
  <2>6. \A c \in Clients : job'[c].active => job[c].active
    BY <2>5
  <2>7. QED BY <1>1, <2>4, <2>5, <2>6, CreditSlot
<1>10. ASSUME NEW s \in Slots, InitWorker(s) PROVE CreditInv'
  <2>1. /\ probes \in [Slots -> Nat] /\ \A t \in Slots : probes[t] <= Probes
        /\ Probes \in Nat /\ worker \in [Slots -> {"none", "up", "quitting", "dead", "reused"}]
        /\ job \in [Clients -> Jobs]
    BY RefreshAssumption DEF CreditInv, PlaceInv, Types
  <2>2. /\ ~Working(s) /\ worker' = [worker EXCEPT ![s] = "up"]
        /\ probes' = [probes EXCEPT ![s] = 0] /\ job' = job
    BY <1>10 DEF InitWorker, NewCredits
  <2>3. /\ probes' \in [Slots -> Nat] /\ probes'[s] = 0 /\ probes'[s] <= Probes
        /\ \A t \in Slots \ {s} : worker'[t] = worker[t] /\ probes'[t] = probes[t]
    BY <2>1, <2>2
  <2>4. ASSUME NEW c \in Clients, job[c].at = s PROVE job'[c].active = FALSE
    <3>1. ~job[c].active
      BY <2>2, <2>4, ActiveFacts DEF Active
    <3>2. job[c].active \in BOOLEAN
      BY <2>1 DEF Jobs
    <3>3. QED BY <2>2, <3>1, <3>2
  <2>5. QED BY <1>1, <2>2, <2>3, <2>4, CreditSlot
<1>11. ASSUME NEW s \in Slots, Quit(s) \/ Other(s) PROVE CreditInv'
  <2>1. job' = job /\ probes' = probes
    BY <1>11 DEF Quit, Other
  <2>2. \A t \in Slots : worker'[t] \in {"up", "quitting"} => Working(t)
    BY <1>1, <1>11 DEF Quit, Other, Working, PlaceInv, Types
  <2>3. QED BY <1>1, <2>1, <2>2, CreditSame
<1>12. ASSUME NEW h \in Hashes, Change(h) PROVE CreditInv'
  <2>1. /\ probes' = probes /\ worker' = worker
        /\ \A c \in Clients : job'[c].active = job[c].active /\ job'[c].at = job[c].at
    BY <1>1, <1>12, ChangePlace
  <2>2. QED BY <1>1, <2>1, CreditSame DEF Working
<1>13. CASE UNCHANGED vars
  BY <1>1, <1>13, CreditSame DEF vars, Working
<1>14. QED
  BY <1>2, <1>3, <1>4, <1>5, <1>6, <1>7, <1>8, <1>9, <1>10, <1>11, <1>12, <1>13 DEF Next

\* It holds at first.
LEMMA CreditInit == Init => CreditInv
<1> SUFFICES ASSUME Init PROVE CreditInv
  OBVIOUS
<1>1. \A c \in Clients : job[c].active = FALSE
  BY IdleFits DEF Init
<1>2. Active = {} /\ \A s \in Slots : ActiveAt(s) = {}
  BY <1>1 DEF Active, ActiveAt
<1>3. IsFiniteSet({}) /\ Cardinality({}) = 0 /\ Probes \in Nat
  BY FS_EmptySet, RefreshAssumption
<1>4. probes \in [Slots -> Nat] /\ \A s \in Slots : probes[s] = 0
  BY DEF Init
<1>5. ProbeLimit
  <2>1. 0 <= Probes
    BY <1>3
  <2>2. Cardinality(Active) = 0
    BY <1>2, <1>3, Zenon
  <2>3. Cardinality(Active) <= Probes
    BY <2>1, <2>2, Zenon
  <2>4. QED BY <2>3, Zenon DEF ProbeLimit, Active
<1>6. CreditsBalanced
  BY <1>2, <1>3, <1>4 DEF CreditsBalanced, ActiveAt
<1>7. QED BY <1>2, <1>3, <1>4, <1>5, <1>6, PlaceInit DEF CreditInv, ProbesAccounted

\* Both invariants hold in every state.
THEOREM CreditInvariant == Spec => []CreditInv
<1>1. CreditInv /\ [Next]_vars => CreditInv'
  BY CreditStep
<1>2. QED BY <1>1, CreditInit, PTL DEF Spec

\* The HEAD requests under way are never more than the limit, and the credits a
\* living worker has in the zone are those its pages use, whatever workers die,
\* whoever gets their process ids and whichever clients disconnect.
THEOREM ProbesAlwaysAccounted == Spec => []ProbesAccounted
<1>1. CreditInv => ProbesAccounted
  BY DEF CreditInv
<1>2. QED BY <1>1, CreditInvariant, PTL

\* A worker works on one batch at a time, no batch holds more than its limit, and
\* no thread scans into a job that was destroyed.
THEOREM JobsAlwaysConsistent == Spec => []JobsConsistent
<1>1. ASSUME CreditInv PROVE JobsConsistent
  <2>1. Types /\ \A c \in Clients : Fits(c, job[c], worker, current)
    BY <1>1 DEF CreditInv, PlaceInv
  <2>2. probes \in [Slots -> 0..Probes]
    BY <1>1, RefreshAssumption DEF CreditInv
  <2>3. TypeOK
    BY <2>1, <2>2 DEF TypeOK, Types, Fits
  <2>4. OneBatchPerWorker
    BY <2>1 DEF OneBatchPerWorker, Fits, Held
  <2>5. ThreadKeepsJob
    BY <2>1 DEF ThreadKeepsJob, Fits, Held
  <2>6. QED BY <2>3, <2>4, <2>5 DEF JobsConsistent
<1>2. QED BY <1>1, CreditInvariant, PTL

-----------------------------------------------------------------------------
(* The third invariant: where an entry is that is still owed *)

\* It is not kept because the page is full and all it keeps comes first.
Beyond(j, h) == j.more /\ \A e \in j.entries : e < h

\* The entry lies after the cursor; while its client waits for a page, it is still
\* to be seen by the scan, or kept, or beyond what the page keeps.
Pending(j, received, h) ==
    /\ h > received
    /\ j.state # "complete"
    /\ j.state = "live" => h > j.after
    /\ j.state = "live" /\ j.scan = "open" =>
          h \in j.unseen \/ h \in j.entries \/ Beyond(j, h)
    /\ j.state = "live" /\ j.scan = "complete" => h \in j.entries \/ Beyond(j, h)

OwedInv ==
    /\ PlaceInv
    /\ \A c \in Clients :
          /\ owed[c] \subseteq files /\ owed[c] \subseteq valid
          /\ pages[c] = 0 => cursor[c] = 0 /\ ~Live(c)
          /\ \A h \in owed[c] : Pending(job[c], cursor[c], h)

\* What a step of one page has to show.
LEMMA OwedOne ==
  ASSUME OwedInv, PlaceInv', NEW c \in Clients, NEW j \in Jobs,
         job' = [job EXCEPT ![c] = j], j.state = "live" => Live(c),
         cursor' = cursor \/ Live(c), pages' = pages,
         \A d \in Clients \ {c} : cursor'[d] = cursor[d],
         \A d \in Clients : /\ owed'[d] \subseteq owed[d]
                            /\ owed'[d] \subseteq files' /\ owed'[d] \subseteq valid',
         \A h \in owed'[c] : Pending(j, cursor'[c], h)
  PROVE  OwedInv'
<1>1. job \in [Clients -> Jobs]
  BY DEF OwedInv, PlaceInv, Types
<1>2. job'[c] = j /\ \A d \in Clients \ {c} : job'[d] = job[d]
  BY <1>1
<1>3. ASSUME NEW d \in Clients
      PROVE  /\ pages'[d] = 0 => cursor'[d] = 0 /\ ~(job'[d].state = "live")
             /\ \A h \in owed'[d] : Pending(job'[d], cursor'[d], h)
  <2>1. CASE d = c
    BY <1>2, <2>1 DEF OwedInv, Live
  <2>2. CASE d # c
    BY <1>2, <2>2 DEF OwedInv, Live
  <2>3. QED BY <2>1, <2>2
<1>4. QED BY <1>3 DEF OwedInv, Live

\* A step that leaves the scan of a page alone.
LEMMA OwedFlags ==
  ASSUME OwedInv, PlaceInv', NEW c \in Clients, Flags(c),
         UNCHANGED <<files, valid, cursor, owed, pages>>
  PROVE  OwedInv'
<1>1. PICK j \in Jobs : job' = [job EXCEPT ![c] = j] /\ SameScan(j, job[c])
  BY DEF Flags
<1>2. \A h \in owed[c] : Pending(j, cursor[c], h)
  BY <1>1 DEF OwedInv, Pending, Beyond, SameScan
<1>3. j.state = "live" => Live(c)
  BY <1>1 DEF SameScan, Live
<1>4. \A d \in Clients : owed[d] \subseteq files /\ owed[d] \subseteq valid
  BY DEF OwedInv
<1>5. QED BY <1>1, <1>2, <1>3, <1>4, OwedOne

\* A page that no longer waits: nothing is owed by it.
LEMMA OwedIdle ==
  ASSUME OwedInv, PlaceInv', NEW c \in Clients, NEW j \in Jobs,
         job' = [job EXCEPT ![c] = j], j.state \in {"detached", "gone"},
         UNCHANGED <<files, valid, cursor, owed, pages>>
  PROVE  OwedInv'
<1>1. \A h \in owed[c] : Pending(j, cursor[c], h)
  BY DEF OwedInv, Pending
<1>2. \A d \in Clients : owed[d] \subseteq files /\ owed[d] \subseteq valid
  BY DEF OwedInv
<1>3. QED BY <1>1, <1>2, OwedOne

\* A full page keeps an entry it had or sees, or all it keeps comes before it.
LEMMA KeptOrBeyond ==
  ASSUME PlaceInv, NEW c \in Clients, NEW x \in Hashes, NEW h \in Hashes,
         h \in job[c].entries \/ h = x \/ Beyond(job[c], h)
  PROVE  \/ h \in Kept(c, x)
         \/ /\ job[c].more \/ Cardinality(job[c].entries \cup {x}) > Batch
            /\ \A e \in Kept(c, x) : e < h
<1> DEFINE E == job[c].entries
           all == E \cup {x}
<1>1. /\ E \subseteq Hashes /\ Hashes \subseteq Nat /\ Batch \in Nat
      /\ job[c].more => Cardinality(E) = Batch
  BY RefreshAssumption DEF PlaceInv, Types, Jobs, Fits
<1>2. /\ all \subseteq Hashes /\ Cardinality(all) \in Nat
      /\ Cardinality(all) <= Batch => Kept(c, x) = all
      /\ Cardinality(all) > Batch =>
            /\ Kept(c, x) = all \ {Max(all)} /\ Max(all) \in all
            /\ \A e \in all : e <= Max(all)
      /\ x \in E => Kept(c, x) = E
      /\ x \notin E => Cardinality(all) = Cardinality(E) + 1
  BY KeptFacts
<1>3. CASE h \in all
  <2>1. CASE Cardinality(all) <= Batch
    BY <1>2, <1>3, <2>1
  <2>2. CASE Cardinality(all) > Batch
    <3>1. CASE h # Max(all)
      BY <1>2, <1>3, <2>2, <3>1
    <3>2. CASE h = Max(all)
      <4>1. \A e \in Kept(c, x) : e \in all /\ e # h
        BY <1>2, <2>2, <3>2
      <4>2. \A e \in all : e <= h /\ e \in Nat /\ h \in Nat
        BY <1>1, <1>2, <2>2, <3>2
      <4>3. \A e \in Kept(c, x) : e < h
        <5> HIDE DEF all
        <5>1. QED BY <4>1, <4>2
      <4>4. QED BY <2>2, <4>3
    <3>3. QED BY <3>1, <3>2
  <2>3. QED BY <1>1, <1>2, <2>1, <2>2
<1>4. CASE h \notin all
  <2>1. job[c].more /\ \A e \in E : e < h
    BY <1>4 DEF Beyond
  <2>2. CASE x \in E
    BY <1>2, <2>1, <2>2
  <2>3. CASE x \notin E
    <3>1. Cardinality(all) = Batch + 1 /\ Cardinality(all) > Batch
      BY <1>1, <1>2, <2>1, <2>3
    <3>2. /\ Kept(c, x) = all \ {Max(all)} /\ Max(all) \in all
          /\ \A e \in all : e <= Max(all)
      BY <1>2, <3>1
    <3>3. h # x /\ x \in Nat /\ h \in Nat
      BY <1>1, <1>4
    <3>4. CASE x < h
      <4>1. \A e \in all : e < h
        BY <2>1, <3>4
      <4>2. QED BY <2>1, <3>2, <4>1
    <3>5. CASE x > h
      <4>1. Max(all) = x
        <5>1. \A e \in E : e \in Nat /\ e < h
          BY <1>1, <2>1
        <5>2. Max(all) \in E \/ Max(all) = x
          BY <3>2
        <5>3. x <= Max(all)
          BY <3>2
        <5> DEFINE top == Max(all)
        <5>4. top \in E => top \in Nat /\ top < h
          BY <5>1
        <5> HIDE DEF top
        <5>5. ~(top \in E)
          BY <3>3, <3>5, <5>3, <5>4 DEF top
        <5>6. QED BY <5>2, <5>5 DEF top
      <4>2. QED BY <2>1, <3>2, <4>1
    <3>6. QED BY <3>3, <3>4, <3>5
  <2>4. QED BY <2>2, <2>3
<1>5. QED BY <1>3, <1>4

\* A step of the scan loses no entry that is owed.
LEMMA SlicePending ==
  ASSUME OwedInv, NEW c \in Clients, job[c].scan = "open", NEW k \in Slice(c),
         NEW h \in owed[c]
  PROVE  Pending(k, cursor[c], h)
<1>1. /\ PlaceInv /\ h \in files /\ h \in valid /\ Pending(job[c], cursor[c], h)
      /\ h \in Hashes /\ files \subseteq Hashes
  BY DEF OwedInv, PlaceInv, Types
<1>2. SamePlace(k, job[c])
  BY <1>1, SliceFacts
<1>3. CASE job[c].state # "live"
  BY <1>1, <1>2, <1>3 DEF Pending, SamePlace
<1>4. CASE job[c].state = "live"
  <2>1. h > job[c].after /\ (h \in job[c].unseen \/ h \in job[c].entries \/ Beyond(job[c], h))
    BY <1>1, <1>4 DEF Pending
  <2>2. ASSUME NEW x \in files, k = Collected(c, x), k.scan = "open"
        PROVE  h \in k.unseen \/ h \in k.entries \/ Beyond(k, h)
    <3>1. x \in Hashes
      BY <1>1, <2>2
    <3>2. k.unseen = job[c].unseen \ {x}
      BY <1>1, <2>2, CollectedFacts
    <3>3. CASE x > job[c].after /\ x \in valid
      <4>1. /\ k.entries = Kept(c, x)
            /\ k.more = (job[c].more \/ Cardinality(job[c].entries \cup {x}) > Batch)
        BY <1>1, <2>2, <3>3, CollectedFacts
      <4>2. CASE h \in job[c].entries \/ h = x \/ Beyond(job[c], h)
        BY <1>1, <3>1, <4>1, <4>2, KeptOrBeyond DEF Beyond
      <4>3. CASE h \in job[c].unseen /\ h # x
        BY <3>2, <4>3
      <4>4. QED BY <2>1, <4>2, <4>3
    <3>4. CASE ~(x > job[c].after /\ x \in valid)
      <4>1. k.entries = job[c].entries /\ k.more = job[c].more
        BY <1>1, <2>2, <3>4, CollectedFacts
      <4>2. h # x
        BY <1>1, <2>1, <3>4
      <4>3. QED BY <2>1, <3>2, <4>1, <4>2 DEF Beyond
    <3>5. QED BY <3>3, <3>4
  <2>3. ASSUME k.entries = job[c].entries, k.more = job[c].more, k.scan = "complete",
               job[c].unseen \cap files = {}
        PROVE  h \in k.entries \/ Beyond(k, h)
    BY <1>1, <2>1, <2>3 DEF Beyond
  <2>4. /\ k.scan = "open" => h \in k.unseen \/ h \in k.entries \/ Beyond(k, h)
        /\ k.scan = "complete" => h \in k.entries \/ Beyond(k, h)
    <3>1. \/ k.scan = "open" /\ \E x \in files : k = Collected(c, x)
          \/ k.scan \in {"failed", "late"}
          \/ /\ k.entries = job[c].entries /\ k.more = job[c].more
             /\ k.scan = "complete" /\ job[c].unseen \cap files = {}
      BY <1>1, SliceFacts
    <3>2. QED BY <2>2, <2>3, <3>1
  <2>5. QED BY <1>1, <1>2, <1>4, <2>1, <2>4 DEF Pending, SamePlace
<1>5. QED BY <1>3, <1>4

\* The scan goes on.
LEMMA ScanOwed ==
  ASSUME OwedInv, PlaceInv', NEW c \in Clients, NEW j \in Jobs,
         job' = [job EXCEPT ![c] = j], job[c].scan = "open",
         SameScan(j, job[c]) \/ \E k \in Slice(c) : SameScan(j, k),
         UNCHANGED <<files, valid, cursor, owed, pages>>
  PROVE  OwedInv'
<1>1. PICK k \in {job[c]} \cup Slice(c) : SameScan(j, k)
  OBVIOUS
<1>2. ASSUME NEW h \in owed[c] PROVE Pending(k, cursor[c], h)
  BY <1>2, SlicePending DEF OwedInv
<1>3. \A h \in owed[c] : Pending(j, cursor[c], h)
  BY <1>1, <1>2 DEF Pending, Beyond, SameScan
<1>4. k.state = job[c].state
  BY SliceFacts DEF OwedInv, SamePlace
<1>5. j.state = "live" => Live(c)
  BY <1>1, <1>4 DEF SameScan, Live
<1>6. \A d \in Clients : owed[d] \subseteq files /\ owed[d] \subseteq valid
  BY DEF OwedInv
<1>7. QED BY <1>3, <1>5, <1>6, OwedOne

\* The page ends: with its cursor if it is answered, and complete only if nothing
\* is owed.
LEMMA EndOwed ==
  ASSUME OwedInv, PlaceInv', NEW c \in Clients, Live(c), Failed(c) \/ Reply(c)
  PROVE  OwedInv'
<1>1. /\ PlaceInv /\ job[c].state = "live" /\ UNCHANGED <<files, valid, owed, pages>>
  BY DEF OwedInv, Live, Failed, Reply
<1>2. \A d \in Clients : owed[d] \subseteq files /\ owed[d] \subseteq valid
  BY DEF OwedInv
<1>3. CASE Failed(c)
  <2>1. Idle("gone") \in Jobs /\ Idle("gone").state = "gone"
    BY IdleFits
  <2>2. job' = [job EXCEPT ![c] = Idle("gone")] /\ cursor' = cursor
    BY <1>3 DEF Failed
  <2>3. QED BY <1>1, <2>1, <2>2, OwedIdle
<1>4. CASE Reply(c)
  <2>1. PICK state \in {"more", "complete"} :
          /\ job' = [job EXCEPT ![c] = Idle(state)]
          /\ state = "complete" => Complete(c)
    <3>1. CASE Complete(c)
      BY <1>4, <3>1 DEF Reply
    <3>2. CASE ~Complete(c)
      BY <1>4, <3>2 DEF Reply
    <3>3. QED BY <3>1, <3>2
  <2>2. cursor' = [cursor EXCEPT ![c] = job[c].after] /\ cursor \in [Clients -> Hashes \cup {0}]
    BY <1>1, <1>4 DEF Reply, PlaceInv, Types
  <2>3. cursor'[c] = job[c].after /\ \A d \in Clients \ {c} : cursor'[d] = cursor[d]
    BY <2>2
  <2>4. Idle(state) \in Jobs /\ Idle(state).state = state
    BY IdleFits
  <2>5. ASSUME NEW h \in owed[c] PROVE Pending(Idle(state), cursor'[c], h)
    <3>1. /\ h > job[c].after
          /\ job[c].scan = "complete" => h \in job[c].entries \/ Beyond(job[c], h)
      BY <1>1 DEF OwedInv, Pending
    <3>2. ~Complete(c)
      BY <3>1 DEF Complete, Rest, Beyond
    <3>3. state = "more"
      BY <2>1, <3>2
    <3>4. QED BY <2>3, <2>4, <3>1, <3>3 DEF Pending
  <2>6. QED BY <1>1, <1>2, <2>1, <2>3, <2>4, <2>5, OwedOne
<1>5. QED BY <1>3, <1>4

\* The page is done with an entry, the first it keeps after its cursor.
LEMMA AdvanceOwed ==
  ASSUME OwedInv, PlaceInv', NEW c \in Clients, Live(c), NEW n \in Hashes,
         job[c].scan = "complete", n = NextEntry(c), Rest(c) # {}, Advance(c, n),
         valid' \subseteq valid, owed' = StillOwed(c, n),
         UNCHANGED <<files, worker, current, cursor, pages>>
  PROVE  OwedInv'
<1>1. PlaceInv /\ job[c].state = "live"
  BY DEF OwedInv, Live
<1>2. PICK j \in Jobs : /\ job' = [job EXCEPT ![c] = j]
                        /\ j.state = "live" /\ j.after = n /\ j.scan = job[c].scan
                        /\ j.entries = job[c].entries /\ j.more = job[c].more
  BY <1>1, AdvancePlace
<1>3. \A d \in Clients : /\ owed'[d] \subseteq owed[d]
                         /\ owed'[d] \subseteq files' /\ owed'[d] \subseteq valid'
  BY DEF StillOwed
<1>4. n \in job[c].entries /\ \A e \in job[c].entries : e > job[c].after => n <= e
  BY <1>1, NextFacts
<1>5. ASSUME NEW h \in owed'[c] PROVE Pending(j, cursor[c], h)
  <2>1. h \in owed[c] /\ h # n /\ h \in Hashes /\ n \in Nat /\ h \in Nat
    <3>1. h \in owed[c] /\ h # n
      BY DEF StillOwed
    <3>2. owed[c] \subseteq Hashes
      BY <1>1 DEF PlaceInv, Types
    <3>3. QED BY <3>1, <3>2, RefreshAssumption
  <2>2. /\ h > cursor[c] /\ h > job[c].after
        /\ h \in job[c].entries \/ Beyond(job[c], h)
    BY <1>1, <2>1 DEF OwedInv, Pending
  <2>3. h > n
    <3>1. CASE h \in job[c].entries
      BY <1>4, <2>1, <2>2, <3>1
    <3>2. CASE Beyond(job[c], h)
      <4>1. n < h
        BY <1>4, <3>2 DEF Beyond
      <4>2. QED BY <2>1, <4>1
    <3>3. QED BY <2>2, <3>1, <3>2
  <2>4. QED BY <1>2, <2>2, <2>3 DEF Pending, Beyond
<1>6. QED BY <1>2, <1>3, <1>5, OwedOne

\* The callback of a page.
LEMMA ProceedOwed ==
  ASSUME OwedInv, NEW c \in Clients, job[c].thread # "running", Proceed(c)
  PROVE  OwedInv'
<1>1. PlaceInv /\ Live(c) /\ PlaceInv'
  BY ProceedCases, ProceedPlace DEF OwedInv
<1>2. CASE Failed(c) \/ Reply(c)
  BY <1>1, <1>2, EndOwed
<1>3. CASE current[job[c].at] \in {Null, c} /\ UNCHANGED <<worker, pages>> /\ Open(c)
  <2>1. PICK j \in Jobs : /\ job' = [job EXCEPT ![c] = j]
                          /\ j.state = "live" /\ j.after = job[c].after
                          /\ j.scan = "open" /\ j.unseen = files
    BY <1>1, <1>3, OpenPlace
  <2>2. UNCHANGED <<files, valid, cursor, owed, pages>>
    BY <1>3 DEF Open
  <2>3. \A h \in owed[c] : Pending(j, cursor[c], h)
    BY <1>1, <2>1 DEF OwedInv, Pending, Live
  <2>4. \A d \in Clients : owed[d] \subseteq files /\ owed[d] \subseteq valid
    BY DEF OwedInv
  <2>5. QED BY <1>1, <2>1, <2>2, <2>3, <2>4, OwedOne
<1>4. CASE UNCHANGED <<worker, pages>> /\ Scan(c)
  <2>1. /\ job[c].scan = "open"
        /\ \E j \in Jobs : /\ job' = [job EXCEPT ![c] = j]
                           /\ \/ SameScan(j, job[c])
                              \/ \E k \in Slice(c) : SameScan(j, k)
    BY <1>1, <1>4, ScanPlace
  <2>2. UNCHANGED <<files, valid, cursor, owed, pages>>
    BY <1>4 DEF Scan
  <2>3. QED BY <1>1, <2>1, <2>2, ScanOwed
<1>5. ASSUME NEW h \in Hashes, UNCHANGED <<worker, pages>>, job[c].scan = "complete",
             h = NextEntry(c), Rest(c) # {},
             Probe(c, h) \/ Skip(c, h) \/ Decide(c, h)
      PROVE  OwedInv'
  <2>1. UNCHANGED <<files, current, cursor, worker, pages>>
    BY <1>1, <1>5, EntryCases
  <2>2. CASE Advance(c, h) /\ valid' \subseteq valid /\ owed' = StillOwed(c, h)
    BY <1>1, <1>5, <2>1, <2>2, AdvanceOwed
  <2>3. CASE /\ job' = [job EXCEPT ![c].active = TRUE, ![c].thread = "idle"]
             /\ UNCHANGED <<valid, owed>>
    BY <1>1, <2>1, <2>3, ProbeFlags, OwedFlags
  <2>4. CASE job' = [job EXCEPT ![c].thread = "idle"] /\ UNCHANGED <<valid, owed>>
    BY <1>1, <2>1, <2>4, WaitFlags, OwedFlags
  <2>5. QED BY <1>1, <1>5, <2>2, <2>3, <2>4, EntryCases
<1>6. QED BY <1>1, <1>2, <1>3, <1>4, <1>5, ProceedCases

\* A page starts after the cursor its client received last.
LEMMA StartOwed ==
  ASSUME OwedInv, PlaceInv', NEW c \in Clients, NEW s \in Slots, Start(c, s)
  PROVE  OwedInv'
<1>1. PlaceInv /\ Types
  BY DEF OwedInv, PlaceInv
<1>2. PICK j \in Jobs : /\ job' = [job EXCEPT ![c] = j] /\ j.scan = "no"
                        /\ j.after = cursor[c] /\ j.state = "live"
  BY <1>1, StartPlace
<1>3. /\ pages' = [pages EXCEPT ![c] = @ + 1]
      /\ owed' = IF pages[c] = 0 THEN [owed EXCEPT ![c] = files \cap valid] ELSE owed
      /\ UNCHANGED <<files, valid, cursor>>
  BY DEF Start
<1>4. ASSUME NEW d \in Clients, d # c
      PROVE  job'[d] = job[d] /\ pages'[d] = pages[d] /\ owed'[d] = owed[d]
  BY <1>1, <1>2, <1>3, <1>4 DEF Types
<1>5. job'[c] = j /\ pages'[c] # 0
  BY <1>1, <1>2, <1>3 DEF Types
<1>6. owed'[c] \subseteq files /\ owed'[c] \subseteq valid /\ \A h \in owed'[c] : h > cursor[c]
  <2>1. CASE pages[c] = 0
    <3>1. owed'[c] = files \cap valid /\ cursor[c] = 0
      BY <1>1, <1>3, <2>1 DEF OwedInv, Types
    <3>2. \A h \in files : h > 0
      BY <1>1, RefreshAssumption DEF Types
    <3>3. QED BY <3>1, <3>2
  <2>2. CASE pages[c] # 0
    BY <1>3, <2>2 DEF OwedInv, Pending
  <2>3. QED BY <2>1, <2>2
<1>7. ASSUME NEW d \in Clients
      PROVE  /\ owed'[d] \subseteq files' /\ owed'[d] \subseteq valid'
             /\ pages'[d] = 0 => cursor'[d] = 0 /\ job'[d].state # "live"
             /\ \A h \in owed'[d] : Pending(job'[d], cursor'[d], h)
  <2>1. CASE d = c
    BY <1>2, <1>3, <1>5, <1>6, <2>1 DEF Pending
  <2>2. CASE d # c
    BY <1>3, <1>4, <2>2 DEF OwedInv, Live
  <2>3. QED BY <2>1, <2>2
<1>8. QED BY <1>7 DEF OwedInv, Live

\* A worker takes its pages with it.
LEMMA LoseOwed ==
  ASSUME OwedInv, PlaceInv', NEW s \in Slots, Lose(s)
  PROVE  OwedInv'
<1>1. /\ job' = [c \in Clients |-> IF job[c].at = s THEN Idle("gone") ELSE job[c]]
      /\ UNCHANGED <<files, valid, cursor, owed, pages>>
  BY DEF Lose
<1>2. Idle("gone").state = "gone"
  BY IdleFits
<1>3. ASSUME NEW d \in Clients
      PROVE  /\ job'[d].state = "live" => job[d].state = "live"
             /\ \A h \in owed[d] : Pending(job'[d], cursor[d], h)
  <2>1. CASE job[d].at = s
    <3>1. job'[d].state = "gone"
      BY <1>1, <1>2, <2>1
    <3>2. QED BY <3>1 DEF OwedInv, Pending
  <2>2. CASE job[d].at # s
    <3>1. job'[d] = job[d]
      BY <1>1, <2>2
    <3>2. QED BY <3>1 DEF OwedInv
  <2>3. QED BY <2>1, <2>2
<1>4. QED BY <1>1, <1>3 DEF OwedInv, Live

\* Nobody owes what is gone or obsolete.
LEMMA ChangeOwed ==
  ASSUME OwedInv, NEW h \in Hashes, Change(h)
  PROVE  OwedInv'
<1>1. PlaceInv /\ Types
  BY DEF OwedInv, PlaceInv
<1>2. PlaceInv' /\ UNCHANGED <<cursor, pages>>
  BY <1>1, ChangePlace
<1>3. \/ owed' = owed /\ files \subseteq files' /\ valid' = valid /\ job' = job
      \/ /\ owed' = [c \in Clients |-> owed[c] \ {h}]
         /\ files \ {h} \subseteq files' /\ valid \ {h} \subseteq valid'
  BY DEF Change, Fill, Evict, Purge
<1>4. ASSUME NEW d \in Clients, NEW g \in owed'[d]
      PROVE  g \in files' /\ g \in valid' /\ Pending(job'[d], cursor[d], g)
  <2>1. g \in owed[d] /\ g \in files' /\ g \in valid' /\ (g # h \/ job' = job)
    BY <1>3 DEF OwedInv
  <2>2. Pending(job[d], cursor[d], g)
    BY <2>1 DEF OwedInv
  <2>3. CASE job' = job
    BY <2>1, <2>2, <2>3
  <2>4. CASE g # h
    <3>1. /\ job'[d].unseen = job[d].unseen \/ job'[d].unseen = job[d].unseen \ {h}
          /\ job'[d].state = job[d].state
          /\ job'[d].after = job[d].after /\ job'[d].scan = job[d].scan
          /\ job'[d].entries = job[d].entries /\ job'[d].more = job[d].more
      BY <1>1, ChangePlace
    <3>2. g \in job[d].unseen => g \in job'[d].unseen
      BY <2>4, <3>1
    <3>3. QED BY <2>1, <2>2, <3>1, <3>2 DEF Pending, Beyond
  <2>5. QED BY <2>1, <2>3, <2>4
<1>5. \A d \in Clients : job'[d].state = job[d].state
  BY <1>1, ChangePlace
<1>6. QED BY <1>2, <1>4, <1>5 DEF OwedInv, Live

\* Every step keeps the third invariant.
LEMMA OwedStep ==
  ASSUME OwedInv, [Next]_vars
  PROVE  OwedInv'
<1>1. PlaceInv /\ PlaceInv'
  BY PlaceStep DEF OwedInv
<1>2. ASSUME NEW c \in Clients, NEW s \in Slots, Start(c, s) PROVE OwedInv'
  BY <1>1, <1>2, StartOwed
<1>3. ASSUME NEW c \in Clients, Timer(c) PROVE OwedInv'
  <2>1. CASE job[c].thread = "idle" /\ Proceed(c)
    BY <2>1, ProceedOwed
  <2>2. CASE Cancel(c)
    <3>1. UNCHANGED <<files, valid, cursor, owed, pages>>
      BY <2>2 DEF Cancel
    <3>2. QED BY <1>1, <2>2, <3>1, CancelFlags, OwedFlags
  <2>3. QED BY <1>3, <2>1, <2>2 DEF Timer
<1>4. ASSUME NEW c \in Clients, ThreadSlice(c) PROVE OwedInv'
  <2>1. /\ job[c].scan = "open"
        /\ \E j \in Jobs : \E k \in Slice(c) : job' = [job EXCEPT ![c] = j] /\ SameScan(j, k)
    BY <1>1, <1>4, ThreadPlace
  <2>2. UNCHANGED <<files, valid, cursor, owed, pages>>
    BY <1>4 DEF ThreadSlice
  <2>3. QED BY <1>1, <2>1, <2>2, ScanOwed
<1>5. ASSUME NEW c \in Clients, ThreadDone(c) PROVE OwedInv'
  <2>1. CASE Proceed(c)
    BY <1>5, <2>1, ProceedOwed DEF ThreadDone
  <2>2. CASE ~Proceed(c)
    <3>1. /\ job' = [job EXCEPT ![c] = Idle("gone")]
          /\ UNCHANGED <<files, valid, cursor, owed, pages>>
      BY <1>5, <2>2 DEF ThreadDone
    <3>2. Idle("gone") \in Jobs /\ Idle("gone").state = "gone"
      BY IdleFits
    <3>3. QED BY <1>1, <3>1, <3>2, OwedIdle
  <2>3. QED BY <2>1, <2>2
<1>6. ASSUME NEW c \in Clients, Answered(c) PROVE OwedInv'
  <2>1. UNCHANGED <<files, valid, cursor, owed, pages>>
    BY <1>6 DEF Answered
  <2>2. QED BY <1>1, <1>6, <2>1, AnsweredFlags, OwedFlags
<1>7. ASSUME NEW c \in Clients, Disconnect(c) PROVE OwedInv'
  <2>1. \E j \in Jobs : job' = [job EXCEPT ![c] = j] /\ j.state \in {"detached", "gone"}
    BY <1>1, <1>7, DisconnectPlace
  <2>2. UNCHANGED <<files, valid, cursor, owed, pages>>
    BY <1>7 DEF Disconnect
  <2>3. QED BY <1>1, <2>1, <2>2, OwedIdle
<1>8. ASSUME NEW c \in Clients, Expire(c) PROVE OwedInv'
  <2>1. UNCHANGED <<files, valid, cursor, owed, pages>>
    BY <1>8 DEF Expire
  <2>2. QED BY <1>1, <1>8, <2>1, ExpireFlags, OwedFlags
<1>9. ASSUME NEW s \in Slots, Crash(s) \/ ExitWorker(s) PROVE OwedInv'
  BY <1>1, <1>9, LoseOwed DEF Crash, ExitWorker
<1>10. ASSUME NEW s \in Slots, Quit(s) \/ InitWorker(s) \/ Other(s) PROVE OwedInv'
  <2>1. UNCHANGED <<files, valid, cursor, owed, pages, job>>
    BY <1>10 DEF Quit, InitWorker, Other
  <2>2. QED BY <1>1, <2>1 DEF OwedInv, Live
<1>11. ASSUME NEW h \in Hashes, Change(h) PROVE OwedInv'
  BY <1>11, ChangeOwed
<1>12. CASE UNCHANGED vars
  BY <1>1, <1>12 DEF vars, OwedInv, Live
<1>13. QED
  BY <1>2, <1>3, <1>4, <1>5, <1>6, <1>7, <1>8, <1>9, <1>10, <1>11, <1>12 DEF Next

\* It holds at first.
LEMMA OwedInit == Init => OwedInv
<1> SUFFICES ASSUME Init PROVE OwedInv
  OBVIOUS
<1>1. \A c \in Clients : owed[c] = {} /\ cursor[c] = 0 /\ job[c].state = "none"
  BY IdleFits DEF Init
<1>2. QED BY <1>1, PlaceInit DEF OwedInv, Live

\* An entry that was current ever since the client's first page lies after the
\* cursor until some page dealt with it, and no page is complete before: whatever
\* order the scan sees the files in, however many do not fit on the page, whatever
\* others fill, evict and purge, and whoever dies.
THEOREM ContinuationNeverSkips == Spec => []ContinuationSkipsNothing
<1>1. OwedInv /\ [Next]_vars => OwedInv'
  BY OwedStep
<1>2. OwedInv => ContinuationSkipsNothing
  BY DEF OwedInv, Pending, ContinuationSkipsNothing, Live
<1>3. QED BY <1>1, <1>2, OwedInit, PTL DEF Spec
=============================================================================
