--------------------------- MODULE AdmissionProofs ---------------------------
(***************************************************************************)
(* Proofs about Admission, for every finite set of requests, every set of  *)
(* workers and tasks and every value of the bounds; and about Metrics, for *)
(* any number of slots and every width of a word.                          *)
(*                                                                         *)
(* WaitInv is inductive by itself: what a request's record may be, who may *)
(* hold the lock, and the gauge against the set it counts.  PassInv ties   *)
(* the retries of a task to the passes that failed.  AnswerInv and         *)
(* SweepInv say on top of them what has been published at each point of    *)
(* the section, and what of it the sweep has seen.                         *)
(*                                                                         *)
(* CounterInv relates a slot to the update its writer is in and to what    *)
(* the reader has taken; SumInv relates the counters, with the updates     *)
(* under way, to the tasks; QuietInv is about a sample during which        *)
(* nothing happens.                                                        *)
(***************************************************************************)
EXTENDS Admission, Metrics, SetProofs, TLAPS

Results == {"ok", "error", "closed", "disconnected", "died"}
Records == [phase : {"new", "deferred", "replied", "freed"}, timer : BOOLEAN,
            armed : BOOLEAN, count : {1}, result : Results \cup {Null}]

\* A record whose cleanup handler is armed while it waits, with no other timer,
\* and which has a result once it has an answer.
RecordConsistent(q) ==
    /\ q \in Records
    /\ q.armed <=> q.phase = "deferred"
    /\ q.timer => q.phase = "deferred"
    /\ q.result = Null <=> q.phase \in {"new", "deferred"}

Domains ==
    /\ req \in [Requests -> Records]
    /\ gauge \in [Workers -> 0..Cardinality(Requests)]
    /\ life \in [Workers -> {"up", "quitting", "down"}]
    /\ task \in [Tasks -> {"none", "pending", "running", "rerun"}]
    /\ gen \in [Tasks -> Nat]
    /\ pub \in [Requests -> Nat]

\* The lock is held for a request that has no answer, by a worker that lives.
SectionConsistent ==
    \/ section = Null
    \/ /\ section \in [r : Requests, at : 1..3]
       /\ req[section.r].phase \in {"new", "deferred"}
       /\ Running(Worker[section.r])

\* The gauge of a worker that lives is exact, and nobody waits in another.
GaugeConsistent(w) ==
    IF Running(w) THEN gauge[w] = Cardinality(Waiting(w)) ELSE Waiting(w) = {}

WaitInv ==
    /\ Domains
    /\ \A r \in Requests : RecordConsistent(req[r])
    /\ SectionConsistent
    /\ \A w \in Workers : GaugeConsistent(w)

-----------------------------------------------------------------------------
(* What becomes of one request, and of the gauge of its worker *)

\* The requests that wait are a finite set.
LEMMA WaitingFinite ==
  ASSUME NEW w
  PROVE  /\ IsFiniteSet(Waiting(w))
         /\ Cardinality(Waiting(w)) \in 0..Cardinality(Requests)
<1>1. IsFiniteSet(Requests) /\ Waiting(w) \subseteq Requests
  BY AdmissionAssumption DEF Waiting
<1>2. IsFiniteSet(Waiting(w)) /\ Cardinality(Waiting(w)) <= Cardinality(Requests)
  BY <1>1, FS_Subset
<1>3. QED BY <1>1, <1>2, FS_CardinalityType

\* A change of one record, with the gauge of its worker changed as its phase is,
\* keeps records and gauges consistent.
LEMMA OneRecord ==
  ASSUME WaitInv, NEW r \in Requests, NEW q, RecordConsistent(q),
         Running(Worker[r]),
         req' = [req EXCEPT ![r] = q],
         life' = life,
         \/ req[r].phase = "deferred" /\ q.phase = "deferred" /\ gauge' = gauge
         \/ req[r].phase # "deferred" /\ q.phase # "deferred" /\ gauge' = gauge
         \/ /\ req[r].phase = "deferred" /\ q.phase # "deferred"
            /\ gauge' = [gauge EXCEPT ![Worker[r]] = Lowered(@)]
         \/ /\ req[r].phase # "deferred" /\ q.phase = "deferred"
            /\ gauge' = [gauge EXCEPT ![Worker[r]] = @ + 1]
  PROVE  /\ req' \in [Requests -> Records]
         /\ gauge' \in [Workers -> 0..Cardinality(Requests)]
         /\ \A o \in Requests : RecordConsistent(req'[o])
         /\ \A w \in Workers : GaugeConsistent(w)'
<1> DEFINE w == Worker[r]
           n == Cardinality(Waiting(w))
<1>1. /\ req \in [Requests -> Records] /\ w \in Workers /\ Worker \in [Requests -> Workers]
      /\ gauge \in [Workers -> 0..Cardinality(Requests)]
      /\ \A o \in Requests : RecordConsistent(req[o])
      /\ \A v \in Workers : GaugeConsistent(v)
  BY AdmissionAssumption DEF WaitInv, Domains
<1>2. q \in Records
  BY DEF RecordConsistent
<1>3. req' \in [Requests -> Records] /\ \A o \in Requests : req'[o] = IF o = r THEN q ELSE req[o]
  BY <1>1, <1>2
<1>4. \A o \in Requests : RecordConsistent(req'[o])
  BY <1>1, <1>3
<1>5. \A v \in Workers : Running(v)' <=> Running(v)
  BY DEF Running
<1>6. \A v \in Workers \ {w} : Waiting(v)' = Waiting(v)
  BY <1>3 DEF Waiting
<1>7. /\ IsFiniteSet(Waiting(w)) /\ n \in 0..Cardinality(Requests) /\ gauge[w] = n
      /\ Cardinality(Waiting(w)') \in 0..Cardinality(Requests)
      /\ Cardinality(Requests) \in Nat
  <2>1. IsFiniteSet(Waiting(w)) /\ n \in 0..Cardinality(Requests)
    BY WaitingFinite
  <2>2. gauge[w] = n
    BY <1>1 DEF GaugeConsistent
  <2>3. IsFiniteSet(Requests) /\ Waiting(w)' \subseteq Requests
    BY AdmissionAssumption DEF Waiting
  <2>4. IsFiniteSet(Waiting(w)') /\ Cardinality(Waiting(w)') <= Cardinality(Requests)
    BY <2>3, FS_Subset
  <2>5. QED BY <2>1, <2>2, <2>3, <2>4, FS_CardinalityType
<1>8. r \in Waiting(w) <=> req[r].phase = "deferred"
  BY DEF Waiting
<1>9. Waiting(w)' = IF q.phase = "deferred" THEN Waiting(w) \cup {r} ELSE Waiting(w) \ {r}
  BY <1>3 DEF Waiting
<1>10. /\ Cardinality(Waiting(w) \cup {r})
             = IF req[r].phase = "deferred" THEN n ELSE n + 1
       /\ Cardinality(Waiting(w) \ {r})
             = IF req[r].phase = "deferred" THEN n - 1 ELSE n
  BY <1>7, <1>8, FS_AddElement, FS_RemoveElement
<1>11. Cardinality(Waiting(w)') =
          IF q.phase = "deferred" THEN Cardinality(Waiting(w) \cup {r})
                                  ELSE Cardinality(Waiting(w) \ {r})
  BY <1>9, Zenon
<1> HIDE DEF n
<1>12. gauge'[w] = Cardinality(Waiting(w)') /\ \A v \in Workers \ {w} : gauge'[v] = gauge[v]
  BY <1>1, <1>7, <1>10, <1>11 DEF Lowered
<1>13. gauge' \in [Workers -> 0..Cardinality(Requests)]
  <2>1. gauge' = gauge \/ \E m : gauge' = [gauge EXCEPT ![w] = m]
    OBVIOUS
  <2>2. DOMAIN gauge' = Workers /\ gauge' = [v \in Workers |-> gauge'[v]]
    BY <1>1, <2>1
  <2>3. \A v \in Workers : gauge'[v] \in 0..Cardinality(Requests)
    BY <1>1, <1>7, <1>12
  <2>4. QED BY <2>2, <2>3
<1>14. ASSUME NEW v \in Workers PROVE GaugeConsistent(v)'
  <2>1. CASE v = w
    BY <1>5, <1>12, <2>1 DEF GaugeConsistent
  <2>2. CASE v # w
    <3>1. Waiting(v)' = Waiting(v) /\ gauge'[v] = gauge[v] /\ (Running(v)' <=> Running(v))
      BY <1>5, <1>6, <1>12, <2>2
    <3>2. GaugeConsistent(v)
      BY <1>1
    <3>3. Cardinality(Waiting(v)') = Cardinality(Waiting(v))
      BY <3>1, Zenon
    <3>4. QED BY <3>1, <3>2, <3>3 DEF GaugeConsistent
  <2>3. QED BY <2>1, <2>2
<1>15. QED BY <1>3, <1>4, <1>13, <1>14

\* What a step that ends or defers request r leaves consistent.
Kept ==
    /\ req' \in [Requests -> Records]
    /\ gauge' \in [Workers -> 0..Cardinality(Requests)]
    /\ \A o \in Requests : RecordConsistent(req'[o])
    /\ \A w \in Workers : GaugeConsistent(w)'

\* A request that gets its answer leaves the gauge if it waited.
LEMMA SettleKeeps ==
  ASSUME WaitInv, NEW r \in Requests, NEW result \in Results, Settle(r, result),
         Running(Worker[r]), life' = life
  PROVE  Kept /\ req'[r].result = result /\ \A o \in Requests \ {r} : req'[o] = req[o]
<1> DEFINE q == [req[r] EXCEPT !.armed = FALSE, !.phase = "replied", !.timer = FALSE,
                               !.result = result]
<1>1. req \in [Requests -> Records] /\ req[r] \in Records
  BY DEF WaitInv, Domains
<1>2. RecordConsistent(q) /\ q.phase = "replied" /\ q.result = result
  <2>1. result # Null
    BY AdmissionAssumption DEF Results
  <2>2. QED BY <1>1, <2>1 DEF Records, RecordConsistent
<1>3. req' = [req EXCEPT ![r] = q]
      /\ gauge' = IF req[r].phase = "deferred"
                  THEN [gauge EXCEPT ![Worker[r]] = Lowered(@)] ELSE gauge
  BY <1>1 DEF Settle, Disarmed, Records
<1>4. req'[r] = q /\ \A o \in Requests \ {r} : req'[o] = req[o]
  BY <1>1, <1>3
<1> HIDE DEF q
<1>5. Kept
  BY <1>2, <1>3, OneRecord DEF Kept
<1>6. QED BY <1>2, <1>4, <1>5

\* A request that is tried again later is counted once, however often it is.
LEMMA WaitKeeps ==
  ASSUME WaitInv, NEW r \in Requests, Wait(r), req[r].phase \in {"new", "deferred"},
         Running(Worker[r]), life' = life
  PROVE  /\ Kept /\ req'[r].result \in {Null, "error"}
         /\ \A o \in Requests \ {r} : req'[o] = req[o]
<1>1. req \in [Requests -> Records] /\ req[r] \in Records /\ RecordConsistent(req[r])
  BY DEF WaitInv, Domains
<1>2. CASE req[r].phase = "deferred" /\ req' = [req EXCEPT ![r].timer = TRUE] /\ UNCHANGED gauge
  <2> DEFINE q == [req[r] EXCEPT !.timer = TRUE]
  <2>1. RecordConsistent(q) /\ q.phase = "deferred" /\ q.result = Null
    BY <1>1, <1>2 DEF Records, RecordConsistent
  <2>2. req' = [req EXCEPT ![r] = q]
    BY <1>1, <1>2
  <2>3. req'[r] = q /\ \A o \in Requests \ {r} : req'[o] = req[o]
    BY <1>1, <2>2
  <2> HIDE DEF q
  <2>4. Kept
    BY <1>2, <2>1, <2>2, OneRecord DEF Kept
  <2>5. QED BY <2>1, <2>3, <2>4
<1>3. CASE /\ req[r].phase = "new" /\ req' = [req EXCEPT ![r] = Deferred(@)]
           /\ gauge' = [gauge EXCEPT ![Worker[r]] = @ + 1]
  <2> DEFINE q == Deferred(req[r])
  <2>1. RecordConsistent(q) /\ q.phase = "deferred" /\ q.result = Null
    <3>1. req[r].count = 1 /\ Retained(req[r].count) - 1 = 1 /\ req[r].result = Null
      BY <1>1, <1>3 DEF Records, RecordConsistent, Retained
    <3>2. q = [req[r] EXCEPT !.phase = "deferred", !.timer = TRUE, !.armed = TRUE, !.count = 1]
      BY <1>1, <3>1 DEF Deferred
    <3>3. q \in Records /\ q.phase = "deferred" /\ q.result = Null /\ q.armed = TRUE
      BY <1>1, <3>1, <3>2 DEF Records
    <3> HIDE DEF q
    <3>4. QED BY <3>3 DEF RecordConsistent
  <2>2. req' = [req EXCEPT ![r] = q]
    BY <1>1, <1>3
  <2>3. req'[r] = q /\ \A o \in Requests \ {r} : req'[o] = req[o]
    BY <1>1, <2>2
  <2> HIDE DEF q
  <2>4. Kept
    BY <1>3, <2>1, <2>2, OneRecord DEF Kept
  <2>5. QED BY <2>1, <2>3, <2>4
<1>4. CASE Settle(r, "error")
  BY <1>4, SettleKeeps DEF Results
<1>5. QED BY <1>2, <1>3, <1>4 DEF Wait

\* A request that is freed takes its handler and its timer with it.
LEMMA FreedKeeps ==
  ASSUME WaitInv, NEW r \in Requests, NEW result \in Results, Freed(r, result),
         req[r].phase \in {"deferred", "replied"}, Running(Worker[r]), life' = life
  PROVE  Kept /\ req'[r].result = result /\ \A o \in Requests \ {r} : req'[o] = req[o]
<1> DEFINE q == [req[r] EXCEPT !.timer = FALSE, !.phase = "freed", !.armed = FALSE,
                               !.result = result]
<1>1. req \in [Requests -> Records] /\ req[r] \in Records /\ RecordConsistent(req[r])
  BY DEF WaitInv, Domains
<1>2. RecordConsistent(q) /\ q.phase = "freed" /\ q.result = result
  <2>1. result # Null
    BY AdmissionAssumption DEF Results
  <2>2. QED BY <1>1, <2>1 DEF Records, RecordConsistent
<1>3. req[r].armed \in BOOLEAN /\ (req[r].armed <=> req[r].phase = "deferred")
  BY <1>1 DEF RecordConsistent, Records
<1>4. req' = [req EXCEPT ![r] = q]
  <2>1. CASE req[r].armed
    BY <1>1, <2>1 DEF Freed, Stopped, Records
  <2>2. CASE ~req[r].armed
    <3>1. req[r].timer = FALSE
      BY <1>1, <1>3, <2>2 DEF RecordConsistent, Records
    <3>2. [req[r] EXCEPT !.phase = "freed", !.armed = FALSE, !.result = result] = q
      BY <1>1, <3>1 DEF Records
    <3>3. QED BY <2>2, <3>2 DEF Freed
  <2>3. QED BY <2>1, <2>2
<1>5. gauge' = IF req[r].phase = "deferred"
               THEN [gauge EXCEPT ![Worker[r]] = Lowered(@)] ELSE gauge
  BY <1>3 DEF Freed
<1>6. req'[r] = q /\ \A o \in Requests \ {r} : req'[o] = req[o]
  BY <1>1, <1>4
<1> HIDE DEF q
<1>7. Kept
  BY <1>2, <1>4, <1>5, OneRecord DEF Kept
<1>8. QED BY <1>2, <1>6, <1>7

-----------------------------------------------------------------------------
(* Records, lock and gauges *)

\* The rest of what WaitInv asks of a step of a request.
LEMMA RequestStep ==
  ASSUME WaitInv, Kept, UNCHANGED life,
         task' \in [Tasks -> {"none", "pending", "running", "rerun"}],
         gen' \in [Tasks -> Nat], pub' \in [Requests -> Nat],
         SectionConsistent'
  PROVE  WaitInv'
<1>1. Domains'
  BY DEF Kept, WaitInv, Domains
<1>2. QED BY <1>1 DEF Kept, WaitInv

\* A step that leaves the records and the lock alone.
LEMMA OtherStep ==
  ASSUME WaitInv, UNCHANGED <<req, gauge, life, section>>,
         task' \in [Tasks -> {"none", "pending", "running", "rerun"}],
         gen' \in [Tasks -> Nat], pub' \in [Requests -> Nat]
  PROVE  WaitInv'
<1>1. Domains'
  BY DEF WaitInv, Domains
<1>2. SectionConsistent'
  BY DEF WaitInv, SectionConsistent, Running
<1>3. \A w \in Workers : GaugeConsistent(w)'
  BY DEF WaitInv, GaugeConsistent, Running, Waiting
<1>4. QED BY <1>1, <1>2, <1>3 DEF WaitInv

\* Who holds the lock is due, and its worker lives.
LEMMA HolderFacts ==
  ASSUME WaitInv, section # Null
  PROVE  /\ section \in [r : Requests, at : 1..3] /\ section.r \in Requests
         /\ section.at \in 1..3
         /\ req[section.r].phase \in {"new", "deferred"}
         /\ Running(Worker[section.r])
         /\ At("allocate") <=> section.at = 1
         /\ At("publish") <=> section.at = 2
         /\ At("insert") <=> section.at = 3
<1>1. /\ section \in [r : Requests, at : 1..3]
      /\ req[section.r].phase \in {"new", "deferred"} /\ Running(Worker[section.r])
  BY DEF WaitInv, SectionConsistent
<1>2. section.r \in Requests /\ section.at \in 1..3
  BY <1>1
<1>3. Steps[1] = "allocate" /\ Steps[2] = "publish" /\ Steps[3] = "insert"
  BY DEF Steps
<1>4. section.at = 1 \/ section.at = 2 \/ section.at = 3
  BY <1>2
<1>5. QED BY <1>1, <1>2, <1>3, <1>4 DEF At

\* The step of the section after this one, with nothing else changed.
LEMMA ProceedKeeps ==
  ASSUME WaitInv, section # Null, section.at \in 1..2, Proceed, UNCHANGED life
  PROVE  SectionConsistent' /\ Kept /\ section'.r = section.r /\ section'.at = section.at + 1
<1>1. section' = [section EXCEPT !.at = @ + 1] /\ UNCHANGED <<req, gauge>>
  BY DEF Proceed
<1>2. /\ section \in [r : Requests, at : 1..3] /\ section.r \in Requests
      /\ req[section.r].phase \in {"new", "deferred"} /\ Running(Worker[section.r])
  BY HolderFacts
<1>3. section' \in [r : Requests, at : 1..3] /\ section'.r = section.r
      /\ section'.at = section.at + 1
  BY <1>1, <1>2
<1>4. SectionConsistent'
  BY <1>1, <1>2, <1>3 DEF SectionConsistent, Running
<1>5. Kept
  BY <1>1 DEF Kept, WaitInv, Domains, GaugeConsistent, Running, Waiting
<1>6. QED BY <1>3, <1>4, <1>5

\* The lock is given back.
LEMMA GiveBackKeeps == section' = Null => SectionConsistent'
BY DEF SectionConsistent

\* Who holds the lock is not disturbed by a step of a request of another worker.
LEMMA BystanderKeeps ==
  ASSUME WaitInv, NEW r \in Requests, ~Busy(Worker[r]), UNCHANGED <<section, life>>,
         \A o \in Requests \ {r} : req'[o] = req[o]
  PROVE  SectionConsistent'
<1>1. CASE section = Null
  BY <1>1 DEF SectionConsistent
<1>2. CASE section # Null
  <2>1. /\ section \in [r : Requests, at : 1..3] /\ section.r \in Requests
        /\ req[section.r].phase \in {"new", "deferred"} /\ Running(Worker[section.r])
    BY <1>2, HolderFacts
  <2>2. section.r # r
    BY <1>2 DEF Busy
  <2>3. req'[section.r] = req[section.r]
    BY <2>1, <2>2
  <2>4. QED BY <2>1, <2>3 DEF SectionConsistent, Running
<1>3. QED BY <1>1, <1>2

\* Initially all requests are to come.
LEMMA WaitInit == Init => WaitInv
<1> SUFFICES ASSUME Init PROVE WaitInv
  OBVIOUS
<1>1. Cardinality(Requests) \in Nat /\ Cardinality({}) = 0
  BY AdmissionAssumption, FS_CardinalityType, FS_EmptySet
<1>2. Domains
  BY <1>1 DEF Init, Domains, Records
<1>3. \A r \in Requests : RecordConsistent(req[r])
  BY DEF Init, RecordConsistent, Records
<1>4. SectionConsistent
  BY DEF Init, SectionConsistent
<1>5. ASSUME NEW w \in Workers PROVE GaugeConsistent(w)
  <2>1. Waiting(w) = {} /\ gauge[w] = 0
    BY DEF Init, Waiting
  <2>2. QED BY <1>1, <2>1, Zenon DEF GaugeConsistent
<1>6. QED BY <1>2, <1>3, <1>4, <1>5 DEF WaitInv

\* A request takes the lock.
LEMMA EnterKeeps ==
  ASSUME WaitInv, NEW r \in Requests, Enter(r)
  PROVE  /\ Kept /\ SectionConsistent'
         /\ \A o \in Requests : req'[o].result = req[o].result
<1> DEFINE q == [req[r] EXCEPT !.timer = FALSE]
<1>1. /\ req[r].phase \in {"new", "deferred"} /\ Running(Worker[r])
      /\ section' = [r |-> r, at |-> 1]
      /\ req' = [req EXCEPT ![r].timer = FALSE]
      /\ UNCHANGED <<gauge, life, lives, task, gen, sweep, pub>>
  BY DEF Enter, Due
<1>2. req \in [Requests -> Records] /\ RecordConsistent(req[r])
  BY DEF WaitInv, Domains
<1>3. RecordConsistent(q) /\ q.phase = req[r].phase /\ q.result = req[r].result
  BY <1>2 DEF RecordConsistent, Records
<1>4. req' = [req EXCEPT ![r] = q]
  BY <1>1, <1>2
<1>5. \A o \in Requests : req'[o] = IF o = r THEN q ELSE req[o]
  BY <1>2, <1>4
<1> HIDE DEF q
<1>6. Kept
  BY <1>1, <1>3, <1>4, OneRecord DEF Kept
<1>7. SectionConsistent'
  <2>1. section' \in [r : Requests, at : 1..3] /\ section'.r = r
    BY <1>1
  <2>2. QED BY <1>1, <1>3, <1>5, <2>1 DEF SectionConsistent, Running
<1>8. QED BY <1>3, <1>5, <1>6, <1>7

\* Every step of the section keeps WaitInv.
LEMMA SectionWait ==
  ASSUME WaitInv, Section
  PROVE  WaitInv'
<1> DEFINE r == section.r
<1>1. section # Null
  BY DEF Section, Allocate, Publish, Insert, At
<1>2. /\ r \in Requests /\ section.at \in 1..3 /\ Running(Worker[r])
      /\ req[r].phase \in {"new", "deferred"}
      /\ At("allocate") <=> section.at = 1
      /\ At("publish") <=> section.at = 2
  BY <1>1, HolderFacts
<1>3. Target[r] \in Tasks
  BY <1>2, AdmissionAssumption
<1>4. /\ task \in [Tasks -> {"none", "pending", "running", "rerun"}]
      /\ gen \in [Tasks -> Nat] /\ pub \in [Requests -> Nat]
  BY DEF WaitInv, Domains
<1>5. CASE Allocate
  <2>1. UNCHANGED <<life, lives, task, gen, sweep, pub>> /\ section.at = 1
        /\ (Proceed \/ (GiveBack /\ Wait(r)))
    BY <1>2, <1>5 DEF Allocate
  <2>2. Kept /\ SectionConsistent'
    <3>1. CASE Proceed
      BY <1>1, <2>1, <3>1, ProceedKeeps
    <3>2. CASE GiveBack /\ Wait(r)
      BY <1>2, <2>1, <3>2, WaitKeeps, GiveBackKeeps DEF GiveBack
    <3>3. QED BY <2>1, <3>1, <3>2
  <2>3. QED BY <1>4, <2>1, <2>2, RequestStep
<1>6. CASE Publish
  <2>1. UNCHANGED <<life, lives, task, sweep>> /\ section.at = 2
        /\ (Proceed \/ (GiveBack /\ (Wait(r) \/ Settle(r, "error"))))
    BY <1>2, <1>6 DEF Publish
  <2>2. gen' \in [Tasks -> Nat] /\ pub' \in [Requests -> Nat]
    <3>1. \/ gen' = gen /\ pub' = pub
          \/ /\ gen' = [gen EXCEPT ![Target[r]] = @ + 1]
             /\ pub' = [pub EXCEPT ![r] = @ + 1]
      BY <1>6 DEF Publish
    <3>2. QED BY <1>2, <1>3, <1>4, <3>1
  <2>3. Kept /\ SectionConsistent'
    <3>1. CASE Proceed
      BY <1>1, <2>1, <3>1, ProceedKeeps
    <3>2. CASE GiveBack /\ Wait(r)
      BY <1>2, <2>1, <3>2, WaitKeeps, GiveBackKeeps DEF GiveBack
    <3>3. CASE GiveBack /\ Settle(r, "error")
      BY <1>2, <2>1, <3>3, SettleKeeps, GiveBackKeeps DEF GiveBack, Results
    <3>4. QED BY <2>1, <3>1, <3>2, <3>3
  <2>4. QED BY <1>4, <2>1, <2>2, <2>3, RequestStep
<1>7. CASE Insert
  <2>1. /\ task' = [task EXCEPT ![Target[r]] = Noted(@)]
        /\ GiveBack /\ Settle(r, "ok") /\ UNCHANGED <<life, lives, gen, pub>>
    BY <1>7 DEF Insert
  <2>2. task' \in [Tasks -> {"none", "pending", "running", "rerun"}]
    BY <1>3, <1>4, <2>1 DEF Noted
  <2>3. Kept /\ SectionConsistent'
    BY <1>2, <2>1, SettleKeeps, GiveBackKeeps DEF GiveBack, Results
  <2>4. QED BY <1>4, <2>1, <2>2, <2>3, RequestStep
<1>8. QED BY <1>5, <1>6, <1>7 DEF Section

\* Every step of a worker's life keeps WaitInv.
LEMMA LifeWait ==
  ASSUME WaitInv, NEW w \in Workers, Quit(w) \/ Exit(w) \/ Die(w) \/ Takeover(w)
  PROVE  WaitInv'
<1>1. /\ req \in [Requests -> Records]
      /\ gauge \in [Workers -> 0..Cardinality(Requests)]
      /\ life \in [Workers -> {"up", "quitting", "down"}]
      /\ \A r \in Requests : RecordConsistent(req[r])
      /\ \A v \in Workers : GaugeConsistent(v)
  BY DEF WaitInv, Domains
<1>2. UNCHANGED <<section, task, gen, sweep, pub>>
  BY DEF Quit, Exit, Die, Takeover
<1>3. section' = section
  BY <1>2
<1>4. Cardinality(Requests) \in Nat /\ Cardinality({}) = 0
  BY AdmissionAssumption, FS_CardinalityType, FS_EmptySet
<1>5. \E l \in {"up", "quitting", "down"} : life' = [life EXCEPT ![w] = l]
  BY DEF Quit, Exit, Die, Takeover
<1>6. life' \in [Workers -> {"up", "quitting", "down"}]
  BY <1>1, <1>5
<1>7. \A v \in Workers \ {w} : Running(v)' <=> Running(v)
  BY <1>1, <1>5 DEF Running
<1>8. section # Null => section.r \in Requests /\ Worker[section.r] \in Workers
  BY HolderFacts, AdmissionAssumption
<1>9. CASE Quit(w) \/ Exit(w)
  <2>1. UNCHANGED <<req, gauge>>
    BY <1>9 DEF Quit, Exit
  <2>2. Domains'
    BY <1>2, <1>3, <1>6, <2>1 DEF WaitInv, Domains
  <2>3. Exit(w) => ~Busy(w)
    BY DEF Exit
  <2>4. Quit(w) => Running(w)'
    BY <1>1 DEF Quit, Running
  <2>5. ASSUME section # Null, Running(Worker[section.r])
        PROVE  life'[Worker[section.r]] \in {"up", "quitting"}
    <3>1. CASE Worker[section.r] = w
      BY <1>9, <2>3, <2>4, <2>5, <3>1 DEF Busy, Running
    <3>2. CASE Worker[section.r] # w
      BY <1>7, <1>8, <2>5, <3>2 DEF Running
    <3>3. QED BY <3>1, <3>2
  <2>6. SectionConsistent'
    <3>1. CASE section = Null
      BY <1>3, <3>1 DEF SectionConsistent
    <3>2. CASE section # Null
      BY <1>3, <2>1, <2>5, <3>2 DEF WaitInv, SectionConsistent, Running
    <3>3. QED BY <3>1, <3>2
  <2>7. ASSUME NEW v \in Workers PROVE GaugeConsistent(v)'
    <3>1. Waiting(v)' = Waiting(v) /\ gauge' = gauge
      BY <2>1 DEF Waiting
    <3>2. CASE v # w
      BY <1>1, <1>7, <3>1, <3>2, Zenon DEF GaugeConsistent
    <3>3. CASE v = w /\ Quit(w)
      <4>1. Running(v) /\ Running(v)'
        BY <1>1, <3>3 DEF Quit, Running
      <4>2. QED BY <1>1, <3>1, <4>1, Zenon DEF GaugeConsistent
    <3>4. CASE v = w /\ Exit(w)
      <4>1. ~Running(v)'
        BY <1>1, <3>4 DEF Exit, Running
      <4>2. Waiting(v) = {}
        BY <3>4 DEF Exit, Waiting
      <4>3. QED BY <3>1, <4>1, <4>2, Zenon DEF GaugeConsistent
    <3>5. QED BY <1>9, <3>2, <3>3, <3>4
  <2>8. QED BY <1>1, <2>1, <2>2, <2>6, <2>7 DEF WaitInv
<1>10. CASE Die(w)
  <2> DEFINE gone(q) == [q EXCEPT !.phase = "freed", !.timer = FALSE, !.armed = FALSE,
                                  !.result = "died"]
             dies(r) == Worker[r] = w /\ req[r].phase \in {"deferred", "replied"}
  <2>1. /\ req' = [r \in Requests |-> IF dies(r) THEN gone(req[r]) ELSE req[r]]
        /\ UNCHANGED gauge /\ ~Busy(w) /\ life' = [life EXCEPT ![w] = "down"]
    BY <1>10 DEF Die
  <2>2. ASSUME NEW q, RecordConsistent(q)
        PROVE  RecordConsistent(gone(q)) /\ gone(q) \in Records /\ gone(q).phase = "freed"
    <3>1. "died" # Null
      BY AdmissionAssumption
    <3>2. QED BY <2>2, <3>1 DEF RecordConsistent, Records, Results
  <2>3. \A r \in Requests : req'[r] = IF dies(r) THEN gone(req[r]) ELSE req[r]
    BY <2>1
  <2> HIDE DEF gone
  <2>4. \A r \in Requests : RecordConsistent(req'[r]) /\ req'[r] \in Records
    BY <1>1, <2>2, <2>3
  <2>5. req' \in [Requests -> Records]
    BY <2>1, <2>4
  <2>6. Domains'
    BY <1>2, <1>3, <1>6, <2>1, <2>5 DEF WaitInv, Domains
  <2>7. SectionConsistent'
    <3>1. CASE section = Null
      BY <1>3, <3>1 DEF SectionConsistent
    <3>2. CASE section # Null
      <4>1. Worker[section.r] # w
        BY <2>1, <3>2 DEF Busy
      <4>2. /\ req'[section.r] = req[section.r]
            /\ Running(Worker[section.r]) => life'[Worker[section.r]] \in {"up", "quitting"}
        BY <1>7, <1>8, <2>3, <3>2, <4>1 DEF Running
      <4>3. QED BY <1>3, <3>2, <4>2 DEF WaitInv, SectionConsistent, Running
    <3>3. QED BY <3>1, <3>2
  <2>8. ASSUME NEW v \in Workers PROVE GaugeConsistent(v)'
    <3>1. CASE v # w
      <4>1. Waiting(v)' = Waiting(v)
        BY <2>3, <3>1 DEF Waiting
      <4>2. QED BY <1>1, <1>7, <2>1, <3>1, <4>1, Zenon DEF GaugeConsistent
    <3>2. CASE v = w
      <4>1. ~Running(v)'
        BY <1>1, <2>1, <3>2 DEF Running
      <4>2. Waiting(v)' = {}
        BY <1>1, <2>2, <2>3, <3>2 DEF Waiting
      <4>3. QED BY <4>1, <4>2, Zenon DEF GaugeConsistent
    <3>3. QED BY <3>1, <3>2
  <2>9. QED BY <2>4, <2>6, <2>7, <2>8 DEF WaitInv
<1>11. CASE Takeover(w)
  <2>1. /\ section = Null /\ life[w] = "down" /\ UNCHANGED req
        /\ gauge' = [gauge EXCEPT ![w] = 0] /\ life' = [life EXCEPT ![w] = "up"]
    BY <1>11 DEF Takeover, FreshGauge
  <2>2. Domains'
    BY <1>1, <1>2, <1>3, <1>4, <1>6, <2>1 DEF WaitInv, Domains
  <2>3. SectionConsistent'
    BY <1>3, <2>1 DEF SectionConsistent
  <2>4. ASSUME NEW v \in Workers PROVE GaugeConsistent(v)'
    <3>1. Waiting(v)' = Waiting(v)
      BY <2>1 DEF Waiting
    <3>2. CASE v # w
      <4>1. gauge'[v] = gauge[v]
        BY <1>1, <2>1, <3>2
      <4>2. QED BY <1>1, <1>7, <3>1, <3>2, <4>1, Zenon DEF GaugeConsistent
    <3>3. CASE v = w
      <4>1. ~Running(v) /\ gauge'[v] = 0
        BY <1>1, <2>1, <3>3 DEF Running
      <4>2. Waiting(v) = {}
        BY <1>1, <4>1 DEF GaugeConsistent
      <4>3. Cardinality(Waiting(v)') = 0 /\ Waiting(v)' = {}
        BY <1>4, <3>1, <4>2, Zenon
      <4>4. QED BY <4>1, <4>3, Zenon DEF GaugeConsistent
    <3>4. QED BY <3>2, <3>3
  <2>5. QED BY <1>1, <2>1, <2>2, <2>3, <2>4 DEF WaitInv
<1>12. QED BY <1>9, <1>10, <1>11

\* What the sections of the sweep leave alone.
LEMMA PassEffect ==
  ASSUME NEW t, Pass(t)
  PROVE  /\ section = Null /\ UNCHANGED <<req, gauge, life, lives, section, gen, pub>>
         /\ \E state \in {"none", "pending", "running"} : task' = [task EXCEPT ![t] = state]
<1>1. CASE Claim(t)
  BY <1>1 DEF Claim
<1>2. CASE Release(t) \/ FailPass(t) \/ HandOver(t) \/ Recover(t)
  <2>1. Ends(t)
    BY <1>2 DEF Release, FailPass, HandOver, Recover
  <2>2. Retire(t) \/ \E n : Replay(t, n)
    BY <1>2 DEF Release, FailPass, HandOver, Recover
  <2>3. QED BY <2>1, <2>2 DEF Ends, Retire, Replay
<1>3. QED BY <1>1, <1>2 DEF Pass

\* Every step keeps WaitInv.
LEMMA WaitStep == WaitInv /\ [Next]_vars => WaitInv'
<1> SUFFICES ASSUME WaitInv, [Next]_vars PROVE WaitInv'
  OBVIOUS
<1>1. Domains
  BY DEF WaitInv
<1>2. ASSUME NEW r \in Requests, Abort(r) PROVE WaitInv'
  <2>1. /\ Running(Worker[r]) /\ ~Busy(Worker[r]) /\ Settle(r, "closed")
        /\ UNCHANGED <<life, lives, section, task, gen, sweep, pub>>
    BY <1>2 DEF Abort, Due
  <2>2. Kept /\ \A o \in Requests \ {r} : req'[o] = req[o]
    BY <2>1, SettleKeeps DEF Results
  <2>3. SectionConsistent'
    BY <2>1, <2>2, BystanderKeeps
  <2>4. QED BY <1>1, <2>1, <2>2, <2>3, RequestStep DEF Domains
<1>3. ASSUME NEW r \in Requests, LockBusy(r) PROVE WaitInv'
  <2>1. /\ Running(Worker[r]) /\ ~Busy(Worker[r]) /\ Wait(r)
        /\ req[r].phase \in {"new", "deferred"}
        /\ UNCHANGED <<life, lives, section, task, gen, sweep, pub>>
    BY <1>3 DEF LockBusy, Due
  <2>2. Kept /\ \A o \in Requests \ {r} : req'[o] = req[o]
    BY <2>1, WaitKeeps
  <2>3. SectionConsistent'
    BY <2>1, <2>2, BystanderKeeps
  <2>4. QED BY <1>1, <2>1, <2>2, <2>3, RequestStep DEF Domains
<1>4. ASSUME NEW r \in Requests, Enter(r) PROVE WaitInv'
  <2>1. UNCHANGED <<gauge, life, lives, task, gen, sweep, pub>>
    BY <1>4 DEF Enter
  <2>2. QED BY <1>1, <1>4, <2>1, EnterKeeps, RequestStep DEF Domains
<1>5. ASSUME Section PROVE WaitInv'
  BY <1>5, SectionWait
<1>6. ASSUME NEW r \in Requests, Free(r) \/ Disconnect(r) PROVE WaitInv'
  <2>1. RecordConsistent(req[r])
    BY DEF WaitInv
  <2>2. \E result \in Results : Freed(r, result) /\ req[r].phase \in {"deferred", "replied"}
    <3>1. CASE Free(r)
      <4>1. req[r].phase = "replied" /\ Freed(r, req[r].result)
        BY <2>1, <3>1 DEF Free, RecordConsistent, Records
      <4>2. req[r].result \in Results
        BY <2>1, <4>1 DEF RecordConsistent, Records
      <4>3. QED BY <4>1, <4>2
    <3>2. CASE Disconnect(r)
      BY <3>2 DEF Disconnect, Results
    <3>3. QED BY <1>6, <3>1, <3>2
  <2>3. /\ Running(Worker[r]) /\ ~Busy(Worker[r])
        /\ UNCHANGED <<life, lives, section, task, gen, sweep, pub>>
    BY <1>6 DEF Free, Disconnect
  <2>4. Kept /\ \A o \in Requests \ {r} : req'[o] = req[o]
    BY <2>2, <2>3, FreedKeeps
  <2>5. SectionConsistent'
    BY <2>3, <2>4, BystanderKeeps
  <2>6. QED BY <1>1, <2>3, <2>4, <2>5, RequestStep DEF Domains
<1>7. ASSUME NEW w \in Workers, Quit(w) \/ Exit(w) \/ Die(w) \/ Takeover(w) PROVE WaitInv'
  BY <1>7, LifeWait
<1>8. ASSUME NEW t \in Tasks, Pass(t) PROVE WaitInv'
  <2>1. /\ UNCHANGED <<req, gauge, life, section>> /\ gen' = gen /\ pub' = pub
        /\ \E state \in {"none", "pending", "running"} : task' = [task EXCEPT ![t] = state]
    BY <1>8, PassEffect
  <2>2. task' \in [Tasks -> {"none", "pending", "running", "rerun"}]
    BY <1>1, <2>1 DEF Domains
  <2>3. QED BY <1>1, <2>1, <2>2, OtherStep DEF Domains
<1>9. CASE UNCHANGED vars
  <2>1. UNCHANGED <<req, gauge, life, section>>
        /\ task' = task /\ gen' = gen /\ pub' = pub
    BY <1>9 DEF vars
  <2>2. QED BY <1>1, <2>1, OtherStep DEF Domains
<1>10. QED
  BY <1>2, <1>3, <1>4, <1>5, <1>6, <1>7, <1>8, <1>9 DEF Next, Serve

-----------------------------------------------------------------------------
(* The passes of a task *)

\* As long as there is a task its retries are the passes that failed, one after
\* the other, since the last request, none of them if there is to be another
\* pass anyway; the walk of a pass that is not over has not failed yet.
PassInv ==
    /\ passGen \in [Tasks -> Nat]
    /\ walk \in [Tasks -> {"clean", "failed", "unknown"}]
    /\ retries \in [Tasks -> 0..MaxRetries] /\ failed \in [Tasks -> 0..MaxRetries + 1]
    /\ \A t \in Tasks :
          /\ task[t] # "none" => failed[t] = retries[t]
          /\ task[t] = "rerun" => retries[t] = 0
          /\ task[t] \in {"running", "rerun"} => walk[t] # "failed"

\* Nothing has failed initially.
LEMMA PassInit == Init => PassInv
BY AdmissionAssumption DEF Init, PassInv

\* A section of the sweep keeps PassInv; so few passes have failed that it may.
LEMMA PassKeeps ==
  ASSUME WaitInv, PassInv, NEW x \in Tasks, Pass(x)
  PROVE  PassInv'
<1>1. /\ passGen \in [Tasks -> Nat] /\ gen \in [Tasks -> Nat]
      /\ walk \in [Tasks -> {"clean", "failed", "unknown"}]
      /\ retries \in [Tasks -> 0..MaxRetries] /\ failed \in [Tasks -> 0..MaxRetries + 1]
      /\ task \in [Tasks -> {"none", "pending", "running", "rerun"}]
      /\ \A t \in Tasks : /\ task[t] # "none" => failed[t] = retries[t]
                          /\ task[t] = "rerun" => retries[t] = 0
                          /\ task[t] \in {"running", "rerun"} => walk[t] # "failed"
      /\ MaxRetries \in Nat
  BY AdmissionAssumption DEF WaitInv, Domains, PassInv
<1>2. CASE Claim(x)
  BY <1>1, <1>2 DEF Claim, tries, PassInv
<1>3. CASE Release(x)
  <2>1. /\ passGen' = passGen /\ failed' = [failed EXCEPT ![x] = 0]
        /\ walk' = walk \/ walk' = [walk EXCEPT ![x] = "clean"]
        /\ retries' = [retries EXCEPT ![x] = 0] /\ task[x] \in {"running", "rerun"}
        /\ task' = [task EXCEPT ![x] = IF task[x] = "rerun" THEN "pending" ELSE "none"]
    BY <1>3 DEF Release, Ends, Replay, Retire
  <2>2. QED BY <1>1, <2>1 DEF PassInv
<1>4. CASE FailPass(x)
  BY <1>1, <1>4 DEF FailPass, Ends, Replay, Retire, MayRetry, PassInv
<1>5. CASE HandOver(x)
  BY <1>1, <1>5 DEF HandOver, Ends, Replay, PassInv
<1>6. CASE Recover(x)
  BY <1>1, <1>6 DEF Recover, Ends, Replay, PassInv
<1>7. QED BY <1>2, <1>3, <1>4, <1>5, <1>6 DEF Pass

\* The insertion of a task opens its window of retries anew.
LEMMA InsertKeepsPasses ==
  ASSUME WaitInv, PassInv, Insert
  PROVE  PassInv'
<1> DEFINE x == Target[section.r]
<1>1. x \in Tasks
  BY HolderFacts, AdmissionAssumption DEF Insert, At
<1>2. /\ task' = [task EXCEPT ![x] = Noted(@)]
      /\ retries' = [retries EXCEPT ![x] = 0] /\ failed' = [failed EXCEPT ![x] = 0]
      /\ passGen' = passGen /\ walk' = walk
  BY DEF Insert, Window
<1>3. task \in [Tasks -> {"none", "pending", "running", "rerun"}] /\ MaxRetries \in Nat
  BY AdmissionAssumption DEF WaitInv, Domains
<1> HIDE DEF x
<1>4. QED BY <1>1, <1>2, <1>3 DEF PassInv, Noted

\* Every step keeps PassInv.
LEMMA PassStep == WaitInv /\ PassInv /\ [Next]_vars => PassInv'
<1> SUFFICES ASSUME WaitInv, PassInv, [Next]_vars PROVE PassInv'
  OBVIOUS
<1>1. ASSUME UNCHANGED <<task, sweep>> PROVE PassInv'
  BY <1>1 DEF PassInv, sweep, tries
<1>2. ASSUME NEW r \in Requests, Serve(r) \/ Free(r) \/ Disconnect(r) PROVE PassInv'
  BY <1>1, <1>2 DEF Serve, Abort, LockBusy, Enter, Free, Disconnect
<1>3. CASE Section
  BY <1>1, <1>3, InsertKeepsPasses DEF Section, Allocate, Publish
<1>4. ASSUME NEW w \in Workers, Quit(w) \/ Exit(w) \/ Die(w) \/ Takeover(w) PROVE PassInv'
  BY <1>1, <1>4 DEF Quit, Exit, Die, Takeover
<1>5. ASSUME NEW t \in Tasks, Pass(t) PROVE PassInv'
  BY <1>5, PassKeeps
<1>6. CASE UNCHANGED vars
  BY <1>1, <1>6 DEF vars
<1>7. QED BY <1>2, <1>3, <1>4, <1>5, <1>6 DEF Next

\* The gauge of a worker that lives counts exactly the requests it has deferred,
\* whichever way each of them ends, and a timer belongs to one of them.
THEOREM WaitersAlwaysConsistent == Spec => []WaitersConsistent
<1>1. WaitInv /\ PassInv => WaitersConsistent
  <2> SUFFICES ASSUME WaitInv, PassInv PROVE TypeOK /\ GaugeExact
    BY DEF WaitersConsistent
  <2>1. TypeOK
    <3>1. \A r \in Requests :
             /\ req[r].phase \in {"new", "deferred", "replied", "freed"}
             /\ req[r].timer => req[r].phase = "deferred"
             /\ req[r].count \in {0, 1}
      BY DEF WaitInv, RecordConsistent, Records
    <3>2. \A w \in Workers : gauge[w] \in 0..Cardinality(Requests)
      BY DEF WaitInv, Domains
    <3>3. section = Null \/ (section.r \in Requests /\ section.at \in DOMAIN Steps)
      <4>1. DOMAIN Steps = 1..3
        BY DEF Steps
      <4>2. QED BY <4>1, HolderFacts
    <3>4. \A t \in Tasks : /\ task[t] \in {"none", "pending", "running", "rerun"}
                            /\ retries[t] \in 0..MaxRetries /\ failed[t] \in 0..MaxRetries + 1
                            /\ walk[t] \in {"clean", "failed", "unknown"}
      BY DEF WaitInv, Domains, PassInv
    <3>5. QED BY <3>1, <3>2, <3>3, <3>4 DEF TypeOK
  <2>2. GaugeExact
    BY DEF WaitInv, GaugeConsistent, GaugeExact
  <2>3. QED BY <2>1, <2>2
<1>2. QED BY WaitInit, PassInit, WaitStep, PassStep, <1>1, PTL DEF Spec

-----------------------------------------------------------------------------
(* Answers and invalidations *)

InSection(r) == section # Null /\ section.r = r

\* What request r has published: nothing until the section has got to the
\* insertion of its task, and from then on once, if the task is a namespace's.
\* What became of a request that died with its worker is not known.
Published(r) ==
    LET due == IF Target[r] \in Logical THEN 1 ELSE 0
    IN  /\ pub[r] \in {0, 1}
        /\ InSection(r) => pub[r] = IF section.at = 3 THEN due ELSE 0
        /\ ~InSection(r) /\ req[r].result # "died"
              => pub[r] = IF req[r].result = "ok" THEN due ELSE 0

AnswerInv == \A r \in Requests : Published(r)

\* A request without an answer whose turn it is not has published nothing.
LEMMA Unpublished ==
  ASSUME WaitInv, NEW r \in Requests, Published(r), ~InSection(r),
         req[r].phase \in {"new", "deferred"}
  PROVE  pub[r] = 0
<1>1. req[r].result = Null
  BY DEF WaitInv, RecordConsistent
<1>2. req[r].result # "died" /\ req[r].result # "ok"
  BY <1>1, AdmissionAssumption
<1>3. QED BY <1>2 DEF Published

\* The requests that a step does not concern.
LEMMA PublishedKept ==
  ASSUME NEW o \in Requests, Published(o), req'[o].result = req[o].result,
         pub'[o] = pub[o],
         \/ section' = section
         \/ ~InSection(o) /\ ~InSection(o)'
  PROVE  Published(o)'
<1>1. CASE section' = section
  BY <1>1 DEF Published, InSection
<1>2. CASE ~InSection(o) /\ ~InSection(o)'
  BY <1>2 DEF Published
<1>3. QED BY <1>1, <1>2

\* The request of a step that gave the lock back, or never had it.
LEMMA PublishedUntold ==
  ASSUME NEW r \in Requests, pub'[r] = 0, ~InSection(r)',
         req'[r].result \in {Null, "error", "closed", "disconnected"}
  PROVE  Published(r)'
<1>1. req'[r].result # "died" /\ req'[r].result # "ok"
  BY AdmissionAssumption
<1>2. QED BY <1>1 DEF Published

\* Nothing is published initially.
LEMMA AnswerInit == Init => AnswerInv
<1> SUFFICES ASSUME Init, NEW r \in Requests PROVE Published(r)
  BY DEF AnswerInv
<1>1. ~InSection(r) /\ pub[r] = 0 /\ req[r].result = Null
  BY DEF Init, InSection
<1>2. Null # "died" /\ Null # "ok"
  BY AdmissionAssumption
<1>3. QED BY <1>1, <1>2 DEF Published

\* Every step of the section of request r keeps AnswerInv.
LEMMA SectionAnswers ==
  ASSUME WaitInv, AnswerInv, Section, NEW r \in Requests, InSection(r)
  PROVE  AnswerInv'
<1>1. section # Null /\ section.r = r
  BY DEF InSection
<1>2. /\ section \in [r : Requests, at : 1..3]
      /\ section.r = r /\ section.at \in 1..3 /\ Running(Worker[r])
      /\ req[r].phase \in {"new", "deferred"}
      /\ At("allocate") <=> section.at = 1
      /\ At("publish") <=> section.at = 2
      /\ At("insert") <=> section.at = 3
  BY <1>1, HolderFacts, Zenon
<1>3. InSection(r) /\ section # Null /\ \A o \in Requests \ {r} : ~InSection(o)
  BY <1>1 DEF InSection
<1>4. Published(r) /\ \A o \in Requests : Published(o)
  BY <1>2 DEF AnswerInv
<1>5. UNCHANGED life
  BY DEF Section, Allocate, Publish, Insert
<1>6. pub \in [Requests -> Nat]
  BY DEF WaitInv, Domains
<1>7. ASSUME section' = Null PROVE \A o \in Requests : ~InSection(o)'
  BY <1>7 DEF InSection
<1>8. ASSUME Proceed, section.at \in 1..2
      PROVE  /\ InSection(r)' /\ section'.at = section.at + 1
             /\ \A o \in Requests \ {r} : ~InSection(o)'
             /\ \A o \in Requests : req'[o] = req[o]
  <2>1. section' = [section EXCEPT !.at = @ + 1] /\ UNCHANGED req
    BY <1>8 DEF Proceed
  <2>2. section' \in [r : Requests, at : 1..3] /\ section'.r = r /\ section'.at = section.at + 1
    BY <1>2, <1>8, <2>1
  <2>3. section' # Null
    BY <2>2, AdmissionAssumption
  <2>4. QED BY <2>1, <2>2, <2>3 DEF InSection
<1>9. ASSUME GiveBack, Wait(r) \/ Settle(r, "error"), section.at \in 1..2, pub' = pub
      PROVE  AnswerInv'
  <2>1. /\ req'[r].result \in {Null, "error"}
        /\ \A o \in Requests \ {r} : req'[o] = req[o]
    BY <1>2, <1>5, <1>9, WaitKeeps, SettleKeeps DEF Results
  <2>2. pub[r] = 0
    BY <1>3, <1>4, <1>9 DEF Published
  <2>3. \A o \in Requests : ~InSection(o)'
    BY <1>7, <1>9 DEF GiveBack
  <2>4. Published(r)'
    BY <1>2, <1>9, <2>1, <2>2, <2>3, PublishedUntold
  <2>5. ASSUME NEW o \in Requests \ {r} PROVE Published(o)'
    BY <1>3, <1>4, <1>9, <2>1, <2>3, PublishedKept
  <2>6. QED BY <2>4, <2>5 DEF AnswerInv
<1>10. CASE Allocate
  <2>1. section.at = 1 /\ pub' = pub /\ (Proceed \/ (GiveBack /\ Wait(r)))
    BY <1>2, <1>10, Zenon DEF Allocate, GiveBack
  <2>2. CASE Proceed
    <3>1. Published(r)'
      <4>1. pub'[r] = 0 /\ section'.at = 2 /\ InSection(r)'
        BY <1>3, <1>4, <1>8, <2>1, <2>2 DEF Published
      <4>2. section'.r = r
        BY <4>1 DEF InSection
      <4>3. QED BY <4>1 DEF Published
    <3>2. ASSUME NEW o \in Requests \ {r} PROVE Published(o)'
      BY <1>3, <1>4, <1>8, <2>1, <2>2, PublishedKept
    <3>3. QED BY <3>1, <3>2 DEF AnswerInv
  <2>3. QED BY <1>9, <2>1, <2>2
<1>11. CASE Publish
  <2>1. /\ section.at = 2
        /\ \/ Proceed /\ Target[r] \notin Logical /\ pub' = pub
           \/ Proceed /\ Target[r] \in Logical /\ pub' = [pub EXCEPT ![r] = @ + 1]
           \/ GiveBack /\ (Wait(r) \/ Settle(r, "error")) /\ pub' = pub
    BY <1>2, <1>11, Zenon DEF Publish
  <2>2. CASE Proceed
    <3>1. pub[r] = 0
      BY <1>3, <1>4, <2>1 DEF Published
    <3>2. /\ pub'[r] = (IF Target[r] \in Logical THEN 1 ELSE 0)
          /\ \A o \in Requests \ {r} : pub'[o] = pub[o]
      <4>1. CASE Target[r] \notin Logical /\ pub' = pub
        BY <3>1, <4>1
      <4>2. CASE Target[r] \in Logical /\ pub' = [pub EXCEPT ![r] = @ + 1]
        BY <1>2, <1>6, <3>1, <4>2
      <4>3. CASE GiveBack
        <5>1. section' # Null
          BY <1>8, <2>1, <2>2 DEF InSection
        <5>2. QED BY <4>3, <5>1 DEF GiveBack
      <4>4. QED BY <2>1, <4>1, <4>2, <4>3
    <3>3. Published(r)'
      <4>1. InSection(r)' /\ section'.at = 3
        BY <1>8, <2>1, <2>2
      <4>2. QED BY <3>2, <4>1 DEF Published
    <3>4. ASSUME NEW o \in Requests \ {r} PROVE Published(o)'
      BY <1>3, <1>4, <1>8, <2>1, <2>2, <3>2, PublishedKept
    <3>5. QED BY <3>3, <3>4 DEF AnswerInv
  <2>3. QED BY <1>9, <2>1, <2>2
<1>12. CASE Insert
  <2>1. section.at = 3 /\ pub' = pub /\ section' = Null /\ Settle(r, "ok")
    BY <1>2, <1>12, Zenon DEF Insert, GiveBack
  <2>2. req'[r].result = "ok" /\ \A o \in Requests \ {r} : req'[o] = req[o]
    BY <1>2, <1>5, <2>1, SettleKeeps DEF Results
  <2>3. pub[r] = IF Target[r] \in Logical THEN 1 ELSE 0
    BY <1>3, <1>4, <2>1 DEF Published
  <2>4. \A o \in Requests : ~InSection(o)'
    BY <1>7, <2>1
  <2>5. Published(r)'
    BY <1>2, <2>1, <2>2, <2>3, <2>4 DEF Published
  <2>6. ASSUME NEW o \in Requests \ {r} PROVE Published(o)'
    BY <1>3, <1>4, <2>1, <2>2, <2>4, PublishedKept
  <2>7. QED BY <2>5, <2>6 DEF AnswerInv
<1>13. QED BY <1>10, <1>11, <1>12 DEF Section

\* The requests of a worker that dies without the lock: what it had told them
\* is lost, what it had published stays.
LEMMA DeathAnswers ==
  ASSUME AnswerInv, NEW w \in Workers, Die(w)
  PROVE  AnswerInv'
<1> SUFFICES ASSUME NEW o \in Requests PROVE Published(o)'
  BY DEF AnswerInv
<1>1. Published(o) /\ UNCHANGED <<section, pub>> /\ ~Busy(w)
  BY DEF AnswerInv, Die
<1>2. req' = [x \in Requests |->
                 IF Worker[x] = w /\ req[x].phase \in {"deferred", "replied"}
                 THEN [req[x] EXCEPT !.phase = "freed", !.timer = FALSE, !.armed = FALSE,
                                     !.result = "died"]
                 ELSE req[x]]
  BY DEF Die
<1>3. CASE Worker[o] = w /\ req[o].phase \in {"deferred", "replied"}
  <2>1. ~InSection(o)'
    BY <1>1, <1>3 DEF Busy, InSection
  <2>2. req'[o] = [req[o] EXCEPT !.phase = "freed", !.timer = FALSE, !.armed = FALSE,
                                 !.result = "died"]
    BY <1>2, <1>3
  <2>3. pub'[o] = pub[o] /\ pub[o] \in {0, 1}
    BY <1>1 DEF Published
  <2>4. req'[o].result = "died"
    BY <2>2
  <2>5. QED BY <2>1, <2>3, <2>4 DEF Published
<1>4. CASE ~(Worker[o] = w /\ req[o].phase \in {"deferred", "replied"})
  <2>1. req'[o] = req[o]
    BY <1>2, <1>4
  <2>2. QED BY <1>1, <2>1, PublishedKept
<1>5. QED BY <1>3, <1>4

\* A step in which one request outside of the section, which has published
\* nothing that its client does not know of, changes.
LEMMA OneAnswers ==
  ASSUME AnswerInv, NEW r \in Requests, Published(r)', UNCHANGED <<section, pub>>,
         \A o \in Requests \ {r} : req'[o] = req[o]
  PROVE  AnswerInv'
<1> SUFFICES ASSUME NEW o \in Requests \ {r} PROVE Published(o)'
  BY DEF AnswerInv
<1>1. QED BY PublishedKept DEF AnswerInv

\* Every step keeps AnswerInv.
LEMMA AnswerStep == WaitInv /\ AnswerInv /\ [Next]_vars => AnswerInv'
<1> SUFFICES ASSUME WaitInv, AnswerInv, [Next]_vars PROVE AnswerInv'
  OBVIOUS
<1>1. \A r \in Requests : Published(r)
  BY DEF AnswerInv
<1>2. ASSUME NEW r \in Requests, ~Busy(Worker[r]) PROVE ~InSection(r)
  BY <1>2 DEF Busy, InSection
<1>3. ASSUME NEW r \in Requests, Abort(r) \/ LockBusy(r) PROVE AnswerInv'
  <2>1. /\ Running(Worker[r]) /\ ~InSection(r)
        /\ req[r].phase \in {"new", "deferred"} /\ UNCHANGED <<life, section, pub>>
        /\ Settle(r, "closed") \/ Wait(r)
    BY <1>2, <1>3 DEF Abort, LockBusy, Due
  <2>2. /\ req'[r].result \in {Null, "error", "closed"}
        /\ \A o \in Requests \ {r} : req'[o] = req[o]
    BY <2>1, WaitKeeps, SettleKeeps DEF Results
  <2>3. pub'[r] = 0
    BY <1>1, <2>1, Unpublished
  <2>4. ~InSection(r)'
    BY <2>1 DEF InSection
  <2>5. Published(r)'
    BY <2>2, <2>3, <2>4, PublishedUntold
  <2>6. QED BY <2>1, <2>2, <2>5, OneAnswers
<1>4. ASSUME NEW r \in Requests, Enter(r) PROVE AnswerInv'
  <2>1. /\ req[r].phase \in {"new", "deferred"} /\ section = Null
        /\ section' = [r |-> r, at |-> 1] /\ pub' = pub
    BY <1>4 DEF Enter, Due
  <2>2. \A o \in Requests : req'[o].result = req[o].result
    BY <1>4, EnterKeeps
  <2>3. ASSUME NEW o \in Requests PROVE Published(o)'
    <3>1. ~InSection(o) /\ Published(o)
      BY <1>1, <2>1 DEF InSection
    <3>2. CASE o = r
      <4>1. pub'[o] = 0
        BY <2>1, <3>1, <3>2, Unpublished
      <4>2. InSection(o)' /\ section'.at # 3
        <5>1. section'.r = o /\ section'.at = 1 /\ section' \in [r : Requests, at : 1..3]
          BY <2>1, <3>2
        <5>2. section' # Null
          BY <5>1, AdmissionAssumption
        <5>3. QED BY <5>1, <5>2 DEF InSection
      <4>3. QED BY <4>1, <4>2 DEF Published
    <3>3. CASE o # r
      <4>1. ~InSection(o)'
        BY <2>1, <3>3 DEF InSection
      <4>2. QED BY <2>1, <2>2, <3>1, <4>1, PublishedKept
    <3>4. QED BY <3>2, <3>3
  <2>4. QED BY <2>3 DEF AnswerInv
<1>5. CASE Section
  <2>1. section # Null
    BY <1>5 DEF Section, Allocate, Publish, Insert, At
  <2>2. section.r \in Requests /\ InSection(section.r)
    BY <2>1, HolderFacts DEF InSection
  <2>3. QED BY <1>5, <2>2, SectionAnswers
<1>6. ASSUME NEW r \in Requests, Free(r) PROVE AnswerInv'
  <2>1. RecordConsistent(req[r])
    BY DEF WaitInv
  <2>2. req[r].phase = "replied" /\ Freed(r, req[r].result)
    BY <1>6, <2>1 DEF Free, RecordConsistent, Records
  <2>3. /\ Running(Worker[r]) /\ ~InSection(r) /\ UNCHANGED <<life, section, pub>>
        /\ req[r].result \in Results
    BY <1>2, <1>6, <2>1, <2>2 DEF Free, RecordConsistent, Records
  <2>4. /\ req'[r].result = req[r].result
        /\ \A o \in Requests \ {r} : req'[o] = req[o]
    BY <2>2, <2>3, FreedKeeps
  <2>5. Published(r)'
    BY <1>1, <2>3, <2>4, PublishedKept
  <2>6. QED BY <2>3, <2>4, <2>5, OneAnswers
<1>7. ASSUME NEW r \in Requests, Disconnect(r) PROVE AnswerInv'
  <2>1. /\ Running(Worker[r]) /\ ~InSection(r) /\ UNCHANGED <<life, section, pub>>
        /\ req[r].phase = "deferred" /\ Freed(r, "disconnected")
    BY <1>2, <1>7 DEF Disconnect
  <2>2. /\ req'[r].result = "disconnected"
        /\ \A o \in Requests \ {r} : req'[o] = req[o]
    BY <2>1, FreedKeeps DEF Results
  <2>3. pub'[r] = 0
    BY <1>1, <2>1, Unpublished
  <2>4. ~InSection(r)'
    BY <2>1 DEF InSection
  <2>5. Published(r)'
    BY <2>2, <2>3, <2>4, PublishedUntold
  <2>6. QED BY <2>1, <2>2, <2>5, OneAnswers
<1>8. ASSUME NEW w \in Workers, Die(w) PROVE AnswerInv'
  BY <1>8, DeathAnswers
<1>9. ASSUME UNCHANGED <<req, section, pub>> PROVE AnswerInv'
  BY <1>1, <1>9, PublishedKept DEF AnswerInv
<1>10. ASSUME NEW w \in Workers, Quit(w) \/ Exit(w) \/ Takeover(w) PROVE AnswerInv'
  BY <1>9, <1>10 DEF Quit, Exit, Takeover
<1>11. ASSUME NEW t \in Tasks, Pass(t) PROVE AnswerInv'
  BY <1>9, <1>11, PassEffect
<1>12. CASE UNCHANGED vars
  BY <1>9, <1>12 DEF vars
<1>13. QED
  BY <1>3, <1>4, <1>5, <1>6, <1>7, <1>8, <1>10, <1>11, <1>12 DEF Next, Serve

\* A client is told of its purge what is true: each request has its answer
\* when it ends, has published at most once, and has published exactly if it
\* was admitted to the task of a namespace.
THEOREM AnswersAlwaysTrue == Spec => []AnswersAreTrue
<1>1. WaitInv /\ AnswerInv => AnswersAreTrue
  <2> SUFFICES ASSUME WaitInv, AnswerInv, NEW r \in Requests
               PROVE  /\ req[r].phase = "freed" => req[r].result # Null
                      /\ pub[r] <= 1
                      /\ (section = Null \/ section.r # r) /\ req[r].result # "died"
                            => (pub[r] = 1 <=> (req[r].result = "ok" /\ Target[r] \in Logical))
    BY DEF AnswersAreTrue
  <2>1. RecordConsistent(req[r]) /\ Published(r)
    BY DEF WaitInv, AnswerInv
  <2>2. req[r].phase = "freed" => req[r].result # Null
    BY <2>1 DEF RecordConsistent
  <2>3. pub[r] <= 1
    BY <2>1 DEF Published
  <2>4. ASSUME section = Null \/ section.r # r, req[r].result # "died"
        PROVE  pub[r] = 1 <=> (req[r].result = "ok" /\ Target[r] \in Logical)
    <3>1. pub[r] = IF req[r].result = "ok"
                   THEN (IF Target[r] \in Logical THEN 1 ELSE 0) ELSE 0
      BY <2>1, <2>4 DEF Published, InSection
    <3>2. QED BY <3>1
  <2>5. QED BY <2>2, <2>3, <2>4
<1>2. QED BY WaitInit, AnswerInit, WaitStep, AnswerStep, <1>1, PTL DEF Spec

-----------------------------------------------------------------------------
(* The sweep of a namespace *)

\* An invalidation that the task does not know of yet: the section is between
\* the two.
Untold(t) == section # Null /\ Target[section.r] = t /\ section.at = 3

\* What is known of a namespace without a task, or whose pass may be the last.
Followed(t) ==
    /\ task[t] \in {"none", "running"} => passGen[t] = gen[t]
    /\ task[t] = "none" /\ walk[t] = "failed" => failed[t] = MaxRetries + 1

\* SweepFollows exempts the namespace of a request anywhere in the section; it
\* is needed that nothing has happened to it before the task is inserted, for a
\* section that is given up there.
SweepInv == \A t \in Logical : ~Untold(t) => Followed(t)

\* Nothing is invalidated initially.
LEMMA SweepInit == Init => SweepInv
BY AdmissionAssumption DEF Init, SweepInv, Followed

\* A namespace that a step leaves alone.
LEMMA FollowedKept ==
  ASSUME NEW t \in Logical, Followed(t), task'[t] = task[t], gen'[t] = gen[t],
         passGen'[t] = passGen[t], walk'[t] = walk[t], failed'[t] = failed[t]
  PROVE  Followed(t)'
BY DEF Followed

\* Every step of the section of request r keeps SweepInv.
LEMMA SectionSweeps ==
  ASSUME WaitInv, PassInv, SweepInv, Section, NEW r \in Requests, InSection(r)
  PROVE  SweepInv'
<1> SUFFICES ASSUME NEW t \in Logical, ~Untold(t)' PROVE Followed(t)'
  BY DEF SweepInv
<1>1. section # Null /\ section.r = r /\ (~Untold(t) => Followed(t))
  BY DEF InSection, SweepInv
<1>2. /\ section \in [r : Requests, at : 1..3] /\ section.at \in 1..3
      /\ At("allocate") <=> section.at = 1
      /\ At("publish") <=> section.at = 2
      /\ At("insert") <=> section.at = 3
  BY <1>1, HolderFacts, Zenon
<1>3. /\ gen \in [Tasks -> Nat] /\ task \in [Tasks -> {"none", "pending", "running", "rerun"}]
      /\ failed \in [Tasks -> 0..MaxRetries + 1] /\ Target[r] \in Tasks /\ t \in Tasks
  BY AdmissionAssumption DEF WaitInv, Domains, PassInv
<1>4. CASE Allocate
  <2>1. section.at = 1 /\ UNCHANGED <<task, gen, passGen, walk, failed>>
    BY <1>2, <1>4 DEF Allocate, sweep, tries
  <2>2. ~Untold(t)
    BY <2>1 DEF Untold
  <2>3. QED BY <1>1, <2>1, <2>2, FollowedKept
<1>5. CASE Publish
  <2>1. section.at = 2 /\ UNCHANGED <<task, passGen, walk, failed>>
    BY <1>2, <1>5 DEF Publish, sweep, tries
  <2>2. Followed(t)
    BY <1>1, <2>1 DEF Untold
  <2>3. gen' = gen \/ (Proceed /\ gen' = [gen EXCEPT ![Target[r]] = @ + 1])
    BY <1>1, <1>5, Zenon DEF Publish, InSection
  <2>4. CASE gen' = gen
    BY <2>1, <2>2, <2>4, FollowedKept
  <2>5. CASE Proceed /\ gen' = [gen EXCEPT ![Target[r]] = @ + 1]
    <3>1. section' = [section EXCEPT !.at = @ + 1]
      BY <2>5 DEF Proceed
    <3>2. section' \in [r : Requests, at : 1..3] /\ section'.r = r /\ section'.at = 3
      BY <1>1, <1>2, <2>1, <3>1
    <3>3. section' # Null
      BY <3>2, AdmissionAssumption
    <3>4. t # Target[r]
      BY <3>2, <3>3 DEF Untold
    <3>5. gen'[t] = gen[t]
      BY <1>3, <2>5, <3>4
    <3>6. QED BY <2>1, <2>2, <3>5, FollowedKept
  <2>6. QED BY <2>3, <2>4, <2>5
<1>6. CASE Insert
  <2>1. /\ task' = [task EXCEPT ![Target[r]] = Noted(@)]
        /\ failed' = [failed EXCEPT ![Target[r]] = 0]
        /\ UNCHANGED <<gen, passGen, walk>>
    BY <1>1, <1>6, Zenon DEF Insert, InSection
  <2>2. CASE t = Target[r]
    <3>1. task'[t] = Noted(task[t])
      BY <1>3, <2>1, <2>2
    <3>2. task'[t] \in {"pending", "rerun"}
      BY <3>1 DEF Noted
    <3>3. QED BY <3>2 DEF Followed
  <2>3. CASE t # Target[r]
    <3>1. Followed(t)
      BY <1>1, <2>3 DEF Untold
    <3>2. task'[t] = task[t] /\ failed'[t] = failed[t]
      BY <1>3, <2>1, <2>3
    <3>3. QED BY <2>1, <3>1, <3>2, FollowedKept
  <2>4. QED BY <2>2, <2>3
<1>7. QED BY <1>4, <1>5, <1>6 DEF Section

\* The sections of the sweep keep SweepInv.
LEMMA PassSweeps ==
  ASSUME WaitInv, PassInv, SweepInv, NEW x \in Tasks, Pass(x)
  PROVE  SweepInv'
<1> SUFFICES ASSUME NEW t \in Logical PROVE Followed(t)'
  BY DEF SweepInv
<1>1. section = Null /\ gen' = gen
  BY PassEffect
<1>2. Followed(t)
  BY <1>1 DEF SweepInv, Untold
<1>3. /\ task \in [Tasks -> {"none", "pending", "running", "rerun"}]
      /\ passGen \in [Tasks -> Nat] /\ walk \in [Tasks -> {"clean", "failed", "unknown"}]
      /\ retries \in [Tasks -> 0..MaxRetries] /\ failed \in [Tasks -> 0..MaxRetries + 1]
      /\ task[t] # "none" => failed[t] = retries[t]
      /\ task[t] \in {"running", "rerun"} => walk[t] # "failed"
      /\ t \in Tasks /\ MaxRetries \in Nat
  BY AdmissionAssumption DEF WaitInv, Domains, PassInv
<1>4. CASE t # x
  <2>1. task'[t] = task[t] /\ passGen'[t] = passGen[t] /\ walk'[t] = walk[t] /\ failed'[t] = failed[t]
    <3>1. CASE Claim(x)
      BY <1>3, <1>4, <3>1 DEF Claim, tries
    <3>2. CASE Release(x) \/ FailPass(x) \/ HandOver(x) \/ Recover(x)
      BY <1>3, <1>4, <3>2 DEF Release, FailPass, HandOver, Recover, Ends, Replay, Retire
    <3>3. QED BY <3>1, <3>2 DEF Pass
  <2>2. QED BY <1>1, <1>2, <2>1, FollowedKept
<1>5. CASE t = x /\ Claim(x)
  BY <1>1, <1>3, <1>5 DEF Claim, Followed
<1>6. CASE t = x /\ (HandOver(x) \/ Recover(x))
  BY <1>3, <1>6 DEF HandOver, Recover, Replay, Followed
<1>7. CASE t = x /\ Release(x)
  <2>1. /\ passGen' = passGen /\ task[t] \in {"running", "rerun"}
        /\ task'[t] = "none" => task[t] = "running" /\ walk' = walk
        /\ task'[t] \in {"none", "pending"}
    BY <1>3, <1>7 DEF Release, Ends, Replay, Retire
  <2>2. QED BY <1>1, <1>2, <1>3, <2>1 DEF Followed
<1>8. CASE t = x /\ FailPass(x)
  <2>1. CASE task'[t] = "pending"
    BY <2>1 DEF Followed
  <2>2. CASE task'[t] # "pending"
    <3>1. /\ task[t] = "running" /\ ~(retries[t] < MaxRetries) /\ passGen' = passGen
          /\ task'[t] = "none" /\ failed'[t] = failed[t] + 1
      BY <1>3, <1>8, <2>2 DEF FailPass, Ends, Replay, Retire, MayRetry
    <3>2. failed'[t] = MaxRetries + 1
      BY <1>3, <3>1
    <3>3. QED BY <1>1, <1>2, <3>1, <3>2 DEF Followed
  <2>3. QED BY <2>1, <2>2
<1>9. QED BY <1>4, <1>5, <1>6, <1>7, <1>8 DEF Pass

\* Every step keeps SweepInv.
LEMMA SweepStep == WaitInv /\ PassInv /\ SweepInv /\ [Next]_vars => SweepInv'
<1> SUFFICES ASSUME WaitInv, PassInv, SweepInv, [Next]_vars PROVE SweepInv'
  OBVIOUS
<1>1. ASSUME UNCHANGED <<task, gen, sweep>>, section' = section \/ section = Null
      PROVE  SweepInv'
  <2> SUFFICES ASSUME NEW t \in Logical, ~Untold(t)' PROVE Followed(t)'
    BY DEF SweepInv
  <2>1. ~Untold(t)
    BY <1>1 DEF Untold
  <2>2. Followed(t)
    BY <2>1 DEF SweepInv
  <2>3. QED BY <1>1, <2>2 DEF Followed, sweep, tries
<1>2. ASSUME NEW r \in Requests, Serve(r) \/ Free(r) \/ Disconnect(r) PROVE SweepInv'
  BY <1>1, <1>2 DEF Serve, Abort, LockBusy, Enter, Free, Disconnect
<1>3. CASE Section
  <2>1. section # Null
    BY <1>3 DEF Section, Allocate, Publish, Insert, At
  <2>2. section.r \in Requests /\ InSection(section.r)
    BY <2>1, HolderFacts DEF InSection
  <2>3. QED BY <1>3, <2>2, SectionSweeps
<1>4. ASSUME NEW w \in Workers, Quit(w) \/ Exit(w) \/ Die(w) \/ Takeover(w) PROVE SweepInv'
  BY <1>1, <1>4 DEF Quit, Exit, Die, Takeover
<1>5. ASSUME NEW t \in Tasks, Pass(t) PROVE SweepInv'
  BY <1>5, PassSweeps
<1>6. CASE UNCHANGED vars
  BY <1>1, <1>6 DEF vars
<1>7. QED BY <1>2, <1>3, <1>4, <1>5, <1>6 DEF Next

\* Outside of a section the task of a namespace has ended with a pass that began
\* after its last invalidation, and a pass that began before it will run again.
\* That pass was without errors, or the last of MaxRetries + 1 that failed one
\* after the other since the last request, or that of a worker without the
\* namespace.
THEOREM SweepAlwaysFollows == Spec => []SweepFollows
<1>1. SweepInv => SweepFollows
  BY DEF SweepInv, SweepFollows, Untold, Followed
<1>2. QED BY WaitInit, PassInit, SweepInit, WaitStep, PassStep, SweepStep, <1>1, PTL DEF Spec

-----------------------------------------------------------------------------
(* The counters of a slot, and who reads them *)

Digits == 0..Base - 1
Pairs == [{1, 2} -> Digits]
Ops == [field : FieldSet, how : {"add", "take", "reset"}]

\* The update that is the first of a script is that of a new worker.
Resetting(s) == script[s] # <<>> /\ Head(script[s]).how = "reset"

CounterTypes ==
    /\ narrow \in BOOLEAN
    /\ mem \in [Slots -> [FieldSet -> Pairs]]
    /\ seq \in [Slots -> Nat]
    /\ script \in [Slots -> Seq(Ops)]
    /\ next \in [Slots -> {None} \cup [words : Pairs, todo : SUBSET {1, 2}]]
    /\ complete \in [Slots -> [FieldSet -> Nat]]
    /\ alive \subseteq Slots
    /\ lock = None \/ lock \in alive

\* The worker of a slot in its updates.  Only the first update of a worker's life
\* is a reset; the words it has stored are those it wants to store.  In a build of
\* 32 bits the number is odd during an update, even while a worker that has done its
\* reset does none, and with an even number the counters are as after the last update.
WriterConsistent(s) ==
    /\ Begun(s) => script[s] # <<>>
    /\ s \notin alive => script[s] = <<>>
    /\ \A i \in 2..Len(script[s]) : script[s][i].how # "reset"
    /\ Begun(s) => \A i \in {1, 2} \ next[s].todo :
                      mem[s][Head(script[s]).field][i] = next[s].words[i]
    /\ narrow => /\ Begun(s) => seq[s] % 2 = 1
                 /\ s \in alive /\ ~Begun(s) /\ ~Resetting(s) => seq[s] % 2 = 0
                 /\ seq[s] % 2 = 0 => complete[s] = Values(s)

\* The words g are those of counters w, as far as they go.
Matched(g, w) ==
    \A i \in 1..5 : /\ Len(g) >= 2 * i - 1 => g[2 * i - 1] = w[Fields[i]][1]
                    /\ Len(g) >= 2 * i => g[2 * i] = w[Fields[i]][2]

Readers == [phase : {"idle", "slot", "words", "done"}, slot : 1..NSlots + 1, try : 0..MaxTries - 1,
            seq : Nat, got : Seq(Digits), begun : {None} \cup [FieldSet -> Nat],
            taken : [Slots -> {None} \cup [FieldSet -> Nat]],
            from : [Slots -> {None} \cup [FieldSet -> Nat]]]

\* The reader at a slot began with an even number.  As long as it is the same the
\* slot was not written, and what the reader has of it is of one moment.
ReaderConsistent ==
    /\ reader \in Readers
    /\ reader.phase # "done" => reader.slot \in Slots
    /\ reader.phase = "words" => /\ Len(reader.got) \in 0..WordsOf
                                 /\ narrow \/ Len(reader.got) % 2 = 0
    /\ narrow /\ reader.phase = "words" =>
          /\ reader.seq % 2 = 0 /\ seq[reader.slot] >= reader.seq
          /\ seq[reader.slot] = reader.seq => /\ reader.begun = Values(reader.slot)
                                              /\ Matched(reader.got, mem[reader.slot])
    /\ narrow => reader.taken = reader.from

CounterInv ==
    /\ CounterTypes
    /\ \A s \in Slots : WriterConsistent(s)
    /\ ReaderConsistent

-----------------------------------------------------------------------------
(* Words and updates *)

\* The fields, and where they are in the order they are read.
LEMMA FieldFacts ==
  /\ Len(Fields) = 5 /\ DOMAIN Fields = 1..5 /\ WordsOf = 10
  /\ \A i \in 1..5 : Fields[i] \in FieldSet
  /\ \A f \in FieldSet : \E i \in 1..5 : Fields[i] = f
  /\ \A i, j \in 1..5 : Fields[i] = Fields[j] => i = j
  /\ "deduplicated" \in FieldSet /\ "waiting" \in FieldSet
  /\ "enqueued" \in FieldSet /\ "started" \in FieldSet /\ "finished" \in FieldSet
<1>1. Len(Fields) = 5 /\ DOMAIN Fields = 1..5 /\ WordsOf = 10
  BY DEF Fields, WordsOf
<1>2. /\ Fields[1] = "enqueued" /\ Fields[2] = "started" /\ Fields[3] = "finished"
      /\ Fields[4] = "deduplicated" /\ Fields[5] = "waiting"
  BY DEF Fields
<1>3. \A i \in 1..5 : i = 1 \/ i = 2 \/ i = 3 \/ i = 4 \/ i = 5
  OBVIOUS
<1>4. \A i \in 1..5 : Fields[i] \in FieldSet
  BY <1>1 DEF FieldSet
<1>5. \A f \in FieldSet : \E i \in 1..5 : Fields[i] = f
  BY <1>1 DEF FieldSet
<1>6. \A i, j \in 1..5 : Fields[i] = Fields[j] => i = j
  BY <1>2, <1>3
<1>7. 1 \in 1..5 /\ 2 \in 1..5 /\ 3 \in 1..5 /\ 4 \in 1..5 /\ 5 \in 1..5
  OBVIOUS
<1>8. QED BY <1>1, <1>2, <1>4, <1>5, <1>6, <1>7

\* The largest value is a number, and each value up to it fits into two words.
LEMMA SplitFacts ==
  /\ Largest \in Nat /\ Base \in Nat /\ Base > 1
  /\ \A v \in 0..Largest : Split(v) \in Pairs /\ Value(Split(v)) = v
  /\ \A w \in Pairs : Value(w) \in 0..Largest
<1>1. Base \in Nat /\ Base > 1
  BY MetricsAssumption
<1>2. Largest \in Nat /\ Largest = Base * Base - 1
  BY <1>1 DEF Largest
<1>3. ASSUME NEW v \in 0..Largest PROVE Split(v) \in Pairs /\ Value(Split(v)) = v
  <2>1. v \in Nat /\ v < Base * Base
    BY <1>1, <1>2
  <2>2. v % Base \in Digits /\ v \div Base \in Nat /\ v = Base * (v \div Base) + (v % Base)
    BY <1>1, <2>1 DEF Digits
  <2>3. v \div Base \in Digits
    <3>1. SUFFICES ASSUME v \div Base >= Base PROVE FALSE
      BY <1>1, <2>2 DEF Digits
    <3>2. PICK q \in Nat : q = v \div Base
      BY <2>2
    <3>3. Base * q >= Base * Base
      BY <1>1, <3>1, <3>2
    <3>4. v % Base \in Nat /\ Base * q \in Nat /\ Base * Base \in Nat
      BY <1>1, <2>2, <3>2 DEF Digits
    <3>5. QED BY <2>1, <2>2, <3>2, <3>3, <3>4
  <2>4. Split(v) = <<v % Base, v \div Base>>
    BY DEF Split
  <2>5. Split(v) \in Pairs
    BY <2>2, <2>3, <2>4 DEF Pairs
  <2>6. Value(Split(v)) = (v % Base) + Base * (v \div Base)
    BY <2>4 DEF Value
  <2>7. (v % Base) + Base * (v \div Base) = Base * (v \div Base) + (v % Base)
    BY <1>1, <2>2 DEF Digits
  <2>8. QED BY <2>2, <2>5, <2>6, <2>7
<1>4. ASSUME NEW w \in Pairs PROVE Value(w) \in 0..Largest
  <2>1. PICK a \in Digits, b \in Digits : w[1] = a /\ w[2] = b
    BY DEF Pairs
  <2>2. a \in Nat /\ b \in Nat /\ a <= Base - 1 /\ b <= Base - 1
    BY <1>1, <2>1 DEF Digits
  <2>3. Base * b <= Base * (Base - 1) /\ Base * (Base - 1) = Base * Base - Base /\ Base * b \in Nat
    BY <1>1, <2>2
  <2>4. Value(w) = a + Base * b
    BY <2>1 DEF Value
  <2>5. QED BY <1>1, <1>2, <2>2, <2>3, <2>4
<1>5. QED BY <1>1, <1>2, <1>3, <1>4

\* An update makes a value of a value.
LEMMA UpdatedFacts ==
  ASSUME NEW op \in Ops, NEW v \in 0..Largest
  PROVE  /\ Updated(op, v) \in 0..Largest
         /\ op.how = "add" => Updated(op, v) = Saturated(v)
         /\ v # Largest => Saturated(v) = v + 1
         /\ op.how = "take" /\ v # 0 => Updated(op, v) = v - 1
         /\ op.how = "reset" => Updated(op, v) = 0
<1>1. Largest \in Nat
  BY SplitFacts
<1>2. Saturated(v) \in 0..Largest /\ (v # Largest => Saturated(v) = v + 1)
  BY <1>1 DEF Saturated
<1>3. op.how \in {"add", "take", "reset"}
  BY DEF Ops
<1>4. CASE op.how = "add"
  BY <1>2, <1>4 DEF Updated
<1>5. CASE op.how = "take"
  BY <1>1, <1>2, <1>5 DEF Updated
<1>6. CASE op.how = "reset"
  BY <1>1, <1>2, <1>6 DEF Updated
<1>7. QED BY <1>3, <1>4, <1>5, <1>6

-----------------------------------------------------------------------------
(* Steps of a writer *)

\* At a slot where nothing changes the worker stays as it is.
LEMMA WriterElsewhere ==
  ASSUME NEW s, UNCHANGED narrow, mem'[s] = mem[s], seq'[s] = seq[s], script'[s] = script[s],
         next'[s] = next[s], complete'[s] = complete[s], s \in alive' <=> s \in alive
  PROVE  WriterConsistent(s)' <=> WriterConsistent(s)
BY DEF WriterConsistent, Begun, Resetting, Values

\* What is known of a slot.
LEMMA SlotFacts ==
  ASSUME CounterTypes, NEW s \in Slots
  PROVE  /\ mem[s] \in [FieldSet -> Pairs] /\ seq[s] \in Nat /\ script[s] \in Seq(Ops)
         /\ Begun(s) => next[s] \in [words : Pairs, todo : SUBSET {1, 2}]
         /\ script[s] # <<>> => /\ Head(script[s]) \in Ops /\ Head(script[s]).field \in FieldSet
                                /\ Len(script[s]) >= 1 /\ Head(script[s]) = script[s][1]
                                /\ Tail(script[s]) \in Seq(Ops)
<1>1. mem[s] \in [FieldSet -> Pairs] /\ seq[s] \in Nat /\ script[s] \in Seq(Ops)
      /\ next[s] \in {None} \cup [words : Pairs, todo : SUBSET {1, 2}]
  BY DEF CounterTypes
<1>2. Begun(s) => next[s] \in [words : Pairs, todo : SUBSET {1, 2}]
  BY <1>1 DEF Begun
<1>3. ASSUME script[s] # <<>>
      PROVE  /\ Head(script[s]) \in Ops
             /\ Len(script[s]) >= 1 /\ Head(script[s]) = script[s][1] /\ Tail(script[s]) \in Seq(Ops)
  BY <1>1, <1>3
<1>4. script[s] # <<>> => Head(script[s]).field \in FieldSet
  BY <1>3 DEF Ops
<1>5. QED BY <1>1, <1>2, <1>3, <1>4

\* The number of an update that begins: odd, and not lower.
LEMMA OpenedFacts ==
  ASSUME NEW op, NEW n \in Nat, n % 2 = 0 \/ op.how = "reset"
  PROVE  /\ Opened(op, n) \in Nat /\ Opened(op, n) >= n /\ Opened(op, n) % 2 = 1
         /\ Opened(op, n) = n => n % 2 = 1
<1>1. CASE op.how = "reset" /\ n % 2 = 1
  BY <1>1 DEF Opened
<1>2. CASE ~(op.how = "reset" /\ n % 2 = 1)
  <2>1. Opened(op, n) = n + 1
    BY <1>2 DEF Opened
  <2>2. n % 2 = 0
    BY <1>2
  <2>3. (n + 1) % 2 = 1
    BY <2>2
  <2>4. QED BY <2>1, <2>2, <2>3
<1>3. QED BY <1>1, <1>2

\* The first step of an update.
LEMMA OpenStep ==
  ASSUME CounterTypes, \A s \in Slots : WriterConsistent(s),
         NEW s \in Slots, Open(s)
  PROVE  /\ CounterTypes' /\ \A t \in Slots : WriterConsistent(t)'
         /\ UNCHANGED <<mem, script, complete>>
         /\ \A t \in Slots : seq'[t] >= seq[t]
         /\ ~Begun(s) /\ script[s] # <<>>
         /\ next'[s].words = Split(Updated(Head(script[s]), Value(mem[s][Head(script[s]).field])))
         /\ next'[s] # None /\ \A t \in Slots \ {s} : next'[t] = next[t]
<1> DEFINE op == Head(script[s])
           now == [words |-> Split(Updated(op, Value(mem[s][op.field]))), todo |-> {1, 2}]
<1>1. /\ script[s] # <<>> /\ ~Begun(s)
      /\ next' = [next EXCEPT ![s] = now]
      /\ seq' = IF narrow \/ op.how = "reset" THEN [seq EXCEPT ![s] = Opened(op, @)] ELSE seq
      /\ UNCHANGED <<mem, script, alive, lock, complete, narrow>>
  BY DEF Open
<1>2. /\ mem[s] \in [FieldSet -> Pairs] /\ seq[s] \in Nat /\ op \in Ops /\ op.field \in FieldSet
  BY <1>1, SlotFacts
<1>3. now \in [words : Pairs, todo : SUBSET {1, 2}]
  <2>1. mem[s][op.field] \in Pairs
    BY <1>2
  <2>2. Value(mem[s][op.field]) \in 0..Largest
    BY <2>1, SplitFacts
  <2>3. Updated(op, Value(mem[s][op.field])) \in 0..Largest
    BY <1>2, <2>2, UpdatedFacts
  <2>4. Split(Updated(op, Value(mem[s][op.field]))) \in Pairs
    BY <2>3, SplitFacts
  <2>5. QED BY <2>4
<1>4. now # None
  BY <1>3, MetricsAssumption DEF Pairs, Digits
<1> HIDE DEF now
<1>5. next'[s] = now /\ \A t \in Slots \ {s} : next'[t] = next[t]
  BY <1>1 DEF CounterTypes
<1>6. narrow => seq[s] % 2 = 0 \/ op.how = "reset"
  BY <1>1 DEF WriterConsistent, Resetting
<1>7. /\ narrow => seq' = [seq EXCEPT ![s] = Opened(op, seq[s])]
      /\ seq' = seq \/ seq' = [seq EXCEPT ![s] = Opened(op, seq[s])]
      /\ ~narrow /\ op.how # "reset" => seq' = seq
  BY <1>1
<1>8. seq[s] % 2 = 0 \/ op.how = "reset"
      => /\ Opened(op, seq[s]) \in Nat /\ Opened(op, seq[s]) >= seq[s]
         /\ Opened(op, seq[s]) % 2 = 1
  BY <1>2, OpenedFacts
<1>9. /\ \A t \in Slots : seq'[t] \in Nat /\ seq'[t] >= seq[t]
      /\ seq' \in [Slots -> Nat] /\ \A t \in Slots \ {s} : seq'[t] = seq[t]
      /\ narrow => seq'[s] % 2 = 1
  <2>1. seq \in [Slots -> Nat] /\ narrow \in BOOLEAN
    BY DEF CounterTypes
  <2>2. CASE seq' = seq /\ ~narrow
    BY <2>1, <2>2
  <2>3. CASE seq' = [seq EXCEPT ![s] = Opened(op, seq[s])] /\ (narrow \/ op.how = "reset")
    <3>1. /\ Opened(op, seq[s]) \in Nat /\ Opened(op, seq[s]) >= seq[s]
          /\ Opened(op, seq[s]) % 2 = 1
      BY <1>6, <1>8, <2>3
    <3>2. /\ seq' \in [Slots -> Nat]
          /\ \A t \in Slots : seq'[t] = IF t = s THEN Opened(op, seq[s]) ELSE seq[t]
      BY <2>1, <2>3, <3>1
    <3>3. \A t \in Slots : seq[t] >= seq[t]
      BY <2>1
    <3>4. QED BY <3>1, <3>2, <3>3
  <2>4. QED BY <1>1, <2>2, <2>3
<1>10. CounterTypes'
  <2>1. next' \in [Slots -> {None} \cup [words : Pairs, todo : SUBSET {1, 2}]]
    BY <1>1, <1>3 DEF CounterTypes
  <2>2. QED BY <1>1, <1>9, <2>1 DEF CounterTypes
<1>11. ASSUME NEW t \in Slots \ {s} PROVE WriterConsistent(t)'
  BY <1>1, <1>5, <1>9, WriterElsewhere
<1>12. WriterConsistent(s)'
  <2>1. s \notin alive => script[s] = <<>>
    BY DEF WriterConsistent
  <2>2. \A i \in 2..Len(script[s]) : script[s][i].how # "reset"
    BY DEF WriterConsistent
  <2>3. Begun(s)' /\ next'[s].todo = {1, 2}
    BY <1>4, <1>5 DEF Begun, now
  <2>4. narrow' => seq'[s] % 2 = 1
    BY <1>1, <1>9
  <2>5. QED BY <1>1, <2>1, <2>2, <2>3, <2>4 DEF WriterConsistent
<1>13. next'[s].words = Split(Updated(op, Value(mem[s][op.field])))
  BY <1>5 DEF now
<1>14. QED BY <1>1, <1>4, <1>5, <1>9, <1>10, <1>11, <1>12, <1>13

\* A step that stores: a word that is stored is one that was to be stored.
LEMMA StoreStep ==
  ASSUME CounterTypes, \A s \in Slots : WriterConsistent(s),
         NEW s \in Slots, Store(s)
  PROVE  /\ CounterTypes' /\ \A t \in Slots : WriterConsistent(t)'
         /\ UNCHANGED <<seq, script, complete>>
         /\ narrow => seq[s] % 2 = 1
         /\ Begun(s) /\ Begun(s)' /\ next'[s].words = next[s].words
         /\ \A t \in Slots \ {s} : mem'[t] = mem[t] /\ next'[t] = next[t]
         /\ \A f \in FieldSet \ {Head(script[s]).field} : mem'[s][f] = mem[s][f]
<1> DEFINE field == Head(script[s]).field
<1>1. PICK words :
        /\ words \in IF narrow THEN {{i} : i \in next[s].todo} ELSE {next[s].todo}
        /\ words # {}
        /\ mem' = [mem EXCEPT ![s][field] =
                      [i \in {1, 2} |-> IF i \in words THEN next[s].words[i] ELSE @[i]]]
        /\ next' = [next EXCEPT ![s].todo = @ \ words]
  BY DEF Store
<1>2. /\ Begun(s) /\ UNCHANGED <<seq, script, alive, lock, complete, narrow>>
  BY DEF Store
<1>3. /\ script[s] # <<>> /\ s \in alive
      /\ \A i \in 2..Len(script[s]) : script[s][i].how # "reset"
      /\ \A i \in {1, 2} \ next[s].todo : mem[s][field][i] = next[s].words[i]
      /\ narrow => seq[s] % 2 = 1
  BY <1>2 DEF WriterConsistent
<1>4. /\ mem[s] \in [FieldSet -> Pairs] /\ field \in FieldSet
      /\ next[s] \in [words : Pairs, todo : SUBSET {1, 2}]
  BY <1>2, <1>3, SlotFacts
<1>5. words \subseteq {1, 2} /\ words \subseteq next[s].todo
  BY <1>1, <1>4
<1> DEFINE pair == [i \in {1, 2} |-> IF i \in words THEN next[s].words[i] ELSE mem[s][field][i]]
           now == [next[s] EXCEPT !.todo = @ \ words]
<1>6. /\ pair \in Pairs
      /\ \A i \in {1, 2} : pair[i] = IF i \in words THEN next[s].words[i] ELSE mem[s][field][i]
  BY <1>4 DEF Pairs
<1>7. now \in [words : Pairs, todo : SUBSET {1, 2}] /\ now.words = next[s].words
      /\ now.todo = next[s].todo \ words
  BY <1>4
<1>8. mem' = [mem EXCEPT ![s] = [mem[s] EXCEPT ![field] = pair]]
  BY <1>1
<1>9. next' = [next EXCEPT ![s] = now]
  BY <1>1
<1> HIDE DEF pair, now
<1>10. /\ mem' \in [Slots -> [FieldSet -> Pairs]] /\ mem'[s] = [mem[s] EXCEPT ![field] = pair]
       /\ \A t \in Slots \ {s} : mem'[t] = mem[t]
  BY <1>4, <1>6, <1>8 DEF CounterTypes
<1>11. mem'[s][field] = pair /\ \A f \in FieldSet \ {field} : mem'[s][f] = mem[s][f]
  BY <1>4, <1>10
<1>12. /\ next' \in [Slots -> {None} \cup [words : Pairs, todo : SUBSET {1, 2}]]
       /\ next'[s] = now /\ \A t \in Slots \ {s} : next'[t] = next[t]
  BY <1>7, <1>9 DEF CounterTypes
<1>13. CounterTypes'
  BY <1>2, <1>10, <1>12 DEF CounterTypes
<1>14. now # None
  BY <1>7, MetricsAssumption DEF Pairs, Digits
<1>15. ASSUME NEW t \in Slots \ {s} PROVE WriterConsistent(t)'
  <2>1. WriterConsistent(t)
    OBVIOUS
  <2>2. mem'[t] = mem[t] /\ next'[t] = next[t]
    BY <1>10, <1>12
  <2>3. QED BY <1>2, <2>1, <2>2, WriterElsewhere
<1>16. WriterConsistent(s)'
  <2>1. Begun(s)' /\ next'[s] = now
    BY <1>12, <1>14 DEF Begun
  <2>2. ASSUME NEW i \in {1, 2} \ now.todo PROVE mem'[s][field][i] = now.words[i]
    <3>1. i \in words \/ i \in {1, 2} \ next[s].todo
      BY <1>7, <2>2
    <3>2. mem'[s][field][i] = IF i \in words THEN next[s].words[i] ELSE mem[s][field][i]
      BY <1>6, <1>11
    <3>3. QED BY <1>3, <1>7, <3>1, <3>2
  <2>3. narrow' => seq'[s] % 2 = 1
    BY <1>2, <1>3
  <2>4. ~(narrow' /\ seq'[s] % 2 = 0)
    BY <2>3
  <2>5. QED BY <1>2, <1>3, <2>1, <2>2, <2>3, <2>4 DEF WriterConsistent
<1>17. Begun(s)' /\ next'[s].words = next[s].words
  BY <1>7, <1>12, <1>14 DEF Begun
<1>18. QED BY <1>2, <1>3, <1>10, <1>11, <1>12, <1>13, <1>15, <1>16, <1>17, SMTT(30)

\* The last step of an update: the number is even, the counters those of now.
LEMMA CloseStep ==
  ASSUME CounterTypes, \A s \in Slots : WriterConsistent(s),
         NEW s \in Slots, Close(s)
  PROVE  /\ CounterTypes' /\ \A t \in Slots : WriterConsistent(t)'
         /\ UNCHANGED mem
         /\ \A t \in Slots : seq'[t] >= seq[t]
         /\ Begun(s) /\ ~Begun(s)' /\ script[s] # <<>> /\ script'[s] = Tail(script[s])
         /\ \A t \in Slots \ {s} : script'[t] = script[t] /\ next'[t] = next[t]
         /\ mem[s][Head(script[s]).field] = next[s].words
<1>1. /\ Begun(s) /\ next[s].todo = {}
      /\ seq' = IF narrow \/ Head(script[s]).how = "reset" THEN [seq EXCEPT ![s] = @ + 1] ELSE seq
      /\ script' = [script EXCEPT ![s] = Tail(@)]
      /\ next' = [next EXCEPT ![s] = None]
      /\ lock' = IF lock = s /\ Len(script[s]) = 1 THEN None ELSE lock
      /\ complete' = [complete EXCEPT ![s] = Values(s)]
      /\ UNCHANGED <<mem, alive, narrow>>
  BY DEF Close
<1>2. /\ script[s] # <<>> /\ s \in alive
      /\ \A i \in 2..Len(script[s]) : script[s][i].how # "reset"
      /\ \A i \in {1, 2} : mem[s][Head(script[s]).field][i] = next[s].words[i]
      /\ narrow => seq[s] % 2 = 1
  BY <1>1 DEF WriterConsistent
<1>3. /\ mem[s] \in [FieldSet -> Pairs] /\ seq[s] \in Nat /\ script[s] \in Seq(Ops)
      /\ next[s] \in [words : Pairs, todo : SUBSET {1, 2}]
      /\ Head(script[s]).field \in FieldSet /\ Tail(script[s]) \in Seq(Ops)
      /\ Len(script[s]) >= 1
  BY <1>1, <1>2, SlotFacts
<1>4. mem[s][Head(script[s]).field] = next[s].words
  BY <1>2, <1>3 DEF Pairs
<1>5. /\ script' \in [Slots -> Seq(Ops)] /\ script'[s] = Tail(script[s])
      /\ \A t \in Slots \ {s} : script'[t] = script[t]
  BY <1>1, <1>3 DEF CounterTypes
<1>6. /\ next' \in [Slots -> {None} \cup [words : Pairs, todo : SUBSET {1, 2}]]
      /\ next'[s] = None /\ \A t \in Slots \ {s} : next'[t] = next[t]
  BY <1>1 DEF CounterTypes
<1>7. Values(s) \in [FieldSet -> Nat]
  <2>1. \A f \in FieldSet : Value(mem[s][f]) \in Nat
    BY <1>3, SplitFacts
  <2>2. QED BY <2>1 DEF Values
<1>8. /\ complete' \in [Slots -> [FieldSet -> Nat]] /\ complete'[s] = Values(s)
      /\ \A t \in Slots \ {s} : complete'[t] = complete[t]
  BY <1>1, <1>7 DEF CounterTypes
<1>9. /\ seq' \in [Slots -> Nat] /\ \A t \in Slots \ {s} : seq'[t] = seq[t]
      /\ \A t \in Slots : seq'[t] >= seq[t]
      /\ narrow => seq'[s] = seq[s] + 1
  <2>1. seq \in [Slots -> Nat]
    BY DEF CounterTypes
  <2>2. seq' = seq \/ seq' = [seq EXCEPT ![s] = seq[s] + 1]
    BY <1>1
  <2>3. narrow => seq' = [seq EXCEPT ![s] = seq[s] + 1]
    BY <1>1
  <2>4. \A t \in Slots : seq[t] \in Nat /\ seq[t] + 1 >= seq[t] /\ seq[t] >= seq[t] /\ seq[t] + 1 \in Nat
    BY <2>1
  <2>5. QED BY <2>1, <2>2, <2>3, <2>4
<1>10. lock' = None \/ lock' = lock
  BY <1>1
<1>11. CounterTypes'
  BY <1>1, <1>5, <1>6, <1>8, <1>9, <1>10 DEF CounterTypes
<1>12. ASSUME NEW t \in Slots \ {s} PROVE WriterConsistent(t)'
  <2>1. WriterConsistent(t)
    OBVIOUS
  <2>2. /\ script'[t] = script[t] /\ next'[t] = next[t] /\ complete'[t] = complete[t]
        /\ seq'[t] = seq[t] /\ mem'[t] = mem[t] /\ (t \in alive' <=> t \in alive)
    BY <1>1, <1>5, <1>6, <1>8, <1>9
  <2>3. QED BY <1>1, <2>1, <2>2, WriterElsewhere
<1>13. /\ Len(Tail(script[s])) = Len(script[s]) - 1
       /\ \A i \in 1..Len(script[s]) - 1 : Tail(script[s])[i] = script[s][i + 1]
  BY <1>2, <1>3
<1>14. PICK n \in Nat : Len(script[s]) = n + 1
  <2>1. Len(script[s]) \in Nat
    BY <1>3
  <2>2. Len(script[s]) - 1 \in Nat /\ Len(script[s]) = (Len(script[s]) - 1) + 1
    BY <1>3, <2>1
  <2>3. QED BY <2>2
<1>15. \A i \in 1..n : Tail(script[s])[i].how # "reset"
  <2>1. \A i \in 1..n : i + 1 \in 2..Len(script[s])
    BY <1>14
  <2>2. QED BY <1>2, <1>13, <1>14, <2>1
<1>16. Len(Tail(script[s])) = n
  BY <1>13, <1>14
<1>17. ~Resetting(s)'
  <2>1. ASSUME Tail(script[s]) # <<>>
        PROVE  Head(Tail(script[s])) = Tail(script[s])[1] /\ 1 \in 1..n
    <3>1. PICK rest \in Seq(Ops) : rest = Tail(script[s])
      BY <1>3
    <3>2. rest # <<>> /\ Len(rest) = n
      BY <1>16, <2>1, <3>1
    <3>3. Len(rest) >= 1 /\ Head(rest) = rest[1]
      BY <3>1, <3>2
    <3>4. QED BY <1>14, <3>1, <3>2, <3>3
  <2>2. Tail(script[s]) # <<>> => Head(Tail(script[s])).how # "reset"
    BY <1>15, <2>1
  <2>3. QED BY <1>5, <2>2 DEF Resetting
<1>18. WriterConsistent(s)'
  <2>1. ~Begun(s)'
    BY <1>6 DEF Begun
  <2>2. narrow => seq'[s] % 2 = 0
    BY <1>2, <1>3, <1>9
  <2>3. complete'[s] = Values(s)'
    BY <1>1, <1>8 DEF Values
  <2>4. \A i \in 2..Len(script'[s]) : script'[s][i].how # "reset"
    <3>1. \A i \in 2..n : i \in 1..n
      OBVIOUS
    <3>2. QED BY <1>5, <1>15, <1>16, <3>1
  <2>5. s \in alive'
    BY <1>1, <1>2
  <2>6. QED BY <1>1, <2>1, <2>2, <2>3, <2>4, <2>5 DEF WriterConsistent
<1>19. ~Begun(s)'
  BY <1>6 DEF Begun
<1>20. QED BY <1>1, <1>2, <1>4, <1>5, <1>6, <1>9, <1>11, <1>12, <1>18, <1>19

\* What an event counts: a script without a reset.
Scripts == {ops \in Seq(Ops) : ops # <<>> /\ \A i \in 1..Len(ops) : ops[i].how # "reset"}

Counting(s) ==
    \/ Admit(s) \/ Deduplicate(s) \/ StartPass(s) \/ FinishPass(s) \/ RecoverPass(s)
    \/ Defer(s) \/ Undefer(s)

\* One update, and two, are scripts.
LEMMA ScriptFacts ==
  /\ \A f \in FieldSet : \A how \in {"add", "take"} : <<Op(f, how)>> \in Scripts
  /\ \A f, g \in FieldSet : <<Op(f, "add"), Op(g, "add")>> \in Scripts
<1>1. \A f \in FieldSet : \A how \in {"add", "take"} : Op(f, how) \in Ops /\ Op(f, how).how # "reset"
  BY DEF Op, Ops
<1>2. ASSUME NEW x \in Ops, x.how # "reset" PROVE <<x>> \in Scripts
  <2>1. <<x>> \in Seq(Ops) /\ Len(<<x>>) = 1 /\ <<x>>[1] = x /\ <<x>> # <<>>
    OBVIOUS
  <2>2. QED BY <1>2, <2>1 DEF Scripts
<1>3. ASSUME NEW x \in Ops, NEW y \in Ops, x.how # "reset", y.how # "reset"
      PROVE  <<x, y>> \in Scripts
  <2>1. /\ <<x, y>> \in Seq(Ops) /\ Len(<<x, y>>) = 2
        /\ <<x, y>>[1] = x /\ <<x, y>>[2] = y /\ <<x, y>> # <<>>
    OBVIOUS
  <2>2. \A i \in 1..2 : i = 1 \/ i = 2
    OBVIOUS
  <2>3. QED BY <1>3, <2>1, <2>2 DEF Scripts
<1>4. QED BY <1>1, <1>2, <1>3

\* Every event that is counted gives its worker a script.
LEMMA CountingSteps ==
  ASSUME NEW s, Counting(s)
  PROVE  \E ops \in Scripts : Count(s, ops) /\ (lock' = lock \/ lock' = s)
<1>1. CASE Admit(s)
  <2>1. Count(s, <<Op("enqueued", "add")>>) /\ lock' = s
    BY <1>1 DEF Admit, InLock
  <2>2. QED BY <2>1, ScriptFacts, FieldFacts
<1>2. CASE Deduplicate(s)
  <2>1. Count(s, <<Op("deduplicated", "add")>>) /\ lock' = lock
    BY <1>2 DEF Deduplicate, NoLock
  <2>2. QED BY <2>1, ScriptFacts, FieldFacts
<1>3. CASE StartPass(s)
  <2>1. Count(s, <<Op("started", "add")>>) /\ lock' = s
    BY <1>3 DEF StartPass, InLock
  <2>2. QED BY <2>1, ScriptFacts, FieldFacts
<1>4. CASE FinishPass(s)
  <2>1. /\ \/ Count(s, <<Op("finished", "add")>>)
           \/ Count(s, <<Op("finished", "add"), Op("enqueued", "add")>>)
        /\ lock' = s
    BY <1>4 DEF FinishPass, InLock
  <2>2. QED BY <2>1, ScriptFacts, FieldFacts
<1>5. CASE RecoverPass(s)
  <2>1. Count(s, <<Op("finished", "add"), Op("enqueued", "add")>>) /\ lock' = s
    BY <1>5 DEF RecoverPass, Recovered, InLock
  <2>2. QED BY <2>1, ScriptFacts, FieldFacts
<1>6. CASE Defer(s)
  <2>1. Count(s, <<Op("waiting", "add")>>) /\ lock' = lock
    BY <1>6 DEF Defer, NoLock
  <2>2. QED BY <2>1, ScriptFacts, FieldFacts
<1>7. CASE Undefer(s)
  <2>1. Count(s, <<Op("waiting", "take")>>) /\ lock' = lock
    BY <1>7 DEF Undefer, NoLock
  <2>2. QED BY <2>1, ScriptFacts, FieldFacts
<1>8. QED BY <1>1, <1>2, <1>3, <1>4, <1>5, <1>6, <1>7 DEF Counting

\* A worker that gets a script writes nothing yet.
LEMMA CountStep ==
  ASSUME CounterTypes, \A s \in Slots : WriterConsistent(s),
         NEW s \in Slots, NEW ops \in Scripts, Count(s, ops), lock' = lock \/ lock' = s
  PROVE  /\ CounterTypes' /\ \A t \in Slots : WriterConsistent(t)'
         /\ UNCHANGED <<mem, seq, next, complete, reader, narrow, alive>>
         /\ script[s] = <<>> /\ script' = [script EXCEPT ![s] = ops] /\ s \in alive
         /\ ~Begun(s)
<1>1. /\ s \in alive /\ script[s] = <<>>
      /\ script' = [script EXCEPT ![s] = ops]
      /\ UNCHANGED <<mem, seq, next, alive, reader, complete, narrow>>
  BY DEF Count, Idle
<1>2. ops \in Seq(Ops) /\ ops # <<>> /\ \A i \in 1..Len(ops) : ops[i].how # "reset"
  BY DEF Scripts
<1>3. /\ script' \in [Slots -> Seq(Ops)] /\ script'[s] = ops
      /\ \A t \in Slots \ {s} : script'[t] = script[t]
  BY <1>1, <1>2 DEF CounterTypes
<1>4. CounterTypes'
  BY <1>1, <1>3 DEF CounterTypes
<1>5. ASSUME NEW t \in Slots \ {s} PROVE WriterConsistent(t)'
  <2>1. WriterConsistent(t)
    OBVIOUS
  <2>2. QED BY <1>1, <1>3, <2>1, WriterElsewhere
<1>6. ~Begun(s) /\ ~Resetting(s)
  BY <1>1 DEF WriterConsistent, Resetting
<1>7. WriterConsistent(s)'
  <2>1. ~Begun(s)'
    BY <1>1, <1>6 DEF Begun
  <2>2. \A i \in 2..Len(ops) : i \in 1..Len(ops)
    BY <1>2
  <2>3. narrow => seq[s] % 2 = 0 /\ complete[s] = Values(s)
    BY <1>1, <1>6 DEF WriterConsistent
  <2>4. Values(s)' = Values(s)
    BY <1>1 DEF Values
  <2>5. QED BY <1>1, <1>2, <1>3, <2>1, <2>2, <2>3, <2>4 DEF WriterConsistent
<1>8. QED BY <1>1, <1>4, <1>5, <1>6, <1>7

\* A worker that dies leaves the slot as it is.
LEMMA DieStep ==
  ASSUME CounterTypes, \A s \in Slots : WriterConsistent(s), NEW s \in Slots, WorkerDies(s)
  PROVE  /\ CounterTypes' /\ \A t \in Slots : WriterConsistent(t)'
         /\ UNCHANGED <<mem, seq, complete, reader, narrow>>
         /\ script' = [script EXCEPT ![s] = <<>>] /\ next' = [next EXCEPT ![s] = None]
<1>1. /\ s \in alive /\ alive' = alive \ {s}
      /\ script' = [script EXCEPT ![s] = <<>>] /\ next' = [next EXCEPT ![s] = None]
      /\ lock' = IF lock = s THEN None ELSE lock
      /\ UNCHANGED <<mem, seq, reader, complete, narrow>>
  BY DEF WorkerDies
<1>2. <<>> \in Seq(Ops)
  OBVIOUS
<1>3. /\ script' \in [Slots -> Seq(Ops)] /\ script'[s] = <<>>
      /\ next' \in [Slots -> {None} \cup [words : Pairs, todo : SUBSET {1, 2}]] /\ next'[s] = None
      /\ \A t \in Slots \ {s} : script'[t] = script[t] /\ next'[t] = next[t]
  BY <1>1, <1>2 DEF CounterTypes
<1>4. CounterTypes'
  <2>1. lock' = None \/ lock' \in alive'
    BY <1>1 DEF CounterTypes
  <2>2. QED BY <1>1, <1>3, <2>1 DEF CounterTypes
<1>5. ASSUME NEW t \in Slots \ {s} PROVE WriterConsistent(t)'
  <2>1. WriterConsistent(t)
    OBVIOUS
  <2>2. t \in alive' <=> t \in alive
    BY <1>1
  <2>3. QED BY <1>1, <1>3, <2>1, <2>2, WriterElsewhere
<1>6. WriterConsistent(s)'
  <2>1. ~Begun(s)' /\ s \notin alive'
    BY <1>1, <1>3 DEF Begun
  <2>2. narrow => (seq[s] % 2 = 0 => complete[s] = Values(s))
    BY DEF WriterConsistent
  <2>3. Values(s)' = Values(s)
    BY <1>1 DEF Values
  <2>4. \A i \in 2..Len(<<>>) : FALSE
    OBVIOUS
  <2>5. QED BY <1>1, <1>3, <2>1, <2>2, <2>3, <2>4 DEF WriterConsistent
<1>7. QED BY <1>1, <1>4, <1>5, <1>6

\* A new worker first resets the number of those that wait.
LEMMA TakeoverStep ==
  ASSUME CounterTypes, \A s \in Slots : WriterConsistent(s), NEW s \in Slots, InitWorker(s)
  PROVE  /\ CounterTypes' /\ \A t \in Slots : WriterConsistent(t)'
         /\ UNCHANGED <<mem, seq, next, complete, reader, narrow>>
         /\ script' = [script EXCEPT ![s] = <<Op("waiting", "reset")>>]
         /\ ~Begun(s) /\ script[s] = <<>>
<1> DEFINE ops == <<Op("waiting", "reset")>>
<1>1. /\ s \notin alive /\ alive' = alive \cup {s} /\ lock' = s
      /\ script' = [script EXCEPT ![s] = ops]
      /\ UNCHANGED <<mem, seq, next, reader, complete, narrow>>
  BY DEF InitWorker
<1>2. /\ ops \in Seq(Ops) /\ Len(ops) = 1 /\ ops # <<>> /\ Head(ops) = ops[1]
      /\ ops[1].how = "reset"
  <2>1. Op("waiting", "reset") \in Ops /\ Op("waiting", "reset").how = "reset"
    BY FieldFacts DEF Op, Ops
  <2>2. QED BY <2>1
<1> HIDE DEF ops
<1>3. /\ script' \in [Slots -> Seq(Ops)] /\ script'[s] = ops
      /\ \A t \in Slots \ {s} : script'[t] = script[t]
  BY <1>1, <1>2 DEF CounterTypes
<1>4. CounterTypes'
  BY <1>1, <1>3 DEF CounterTypes
<1>5. ASSUME NEW t \in Slots \ {s} PROVE WriterConsistent(t)'
  <2>1. WriterConsistent(t)
    OBVIOUS
  <2>2. t \in alive' <=> t \in alive
    BY <1>1
  <2>3. QED BY <1>1, <1>3, <2>1, <2>2, WriterElsewhere
<1>6. script[s] = <<>> /\ ~Begun(s) /\ (narrow => (seq[s] % 2 = 0 => complete[s] = Values(s)))
  BY <1>1 DEF WriterConsistent
<1>7. WriterConsistent(s)'
  <2>1. ~Begun(s)' /\ Resetting(s)' /\ s \in alive'
    BY <1>1, <1>2, <1>3, <1>6 DEF Begun, Resetting
  <2>2. Values(s)' = Values(s)
    BY <1>1 DEF Values
  <2>3. \A i \in 2..Len(ops) : FALSE
    BY <1>2
  <2>4. QED BY <1>1, <1>3, <1>6, <2>1, <2>2, <2>3 DEF WriterConsistent
<1>8. QED BY <1>1, <1>4, <1>5, <1>6, <1>7 DEF ops

-----------------------------------------------------------------------------
(* Steps of the reader *)

\* A pair of words is a sequence of two.
LEMMA PairFacts ==
  ASSUME NEW w \in Pairs
  PROVE  w = <<w[1], w[2]>> /\ w[1] \in Digits /\ w[2] \in Digits
<1>1. {1, 2} = 1..2
  OBVIOUS
<1>2. w \in [1..2 -> Digits]
  BY <1>1 DEF Pairs
<1>3. QED BY <1>2

\* A member is appended.
LEMMA OneAppended ==
  ASSUME NEW S, NEW g \in Seq(S), NEW a \in S
  PROVE  g \o <<a>> \in Seq(S) /\ Len(g \o <<a>>) = Len(g) + 1
OBVIOUS

\* Where a word stands: its counter, and which of its two it is.
LEMMA PositionFacts ==
  ASSUME NEW k \in Nat, k < 10
  PROVE  (k \div 2) + 1 \in 1..5 /\ (k % 2) + 1 \in {1, 2}
OBVIOUS

\* One word more.
LEMMA OneWordMore ==
  ASSUME NEW S, NEW g \in Seq(S), NEW w, Matched(g, w), Len(g) < 10,
         w[Fields[(Len(g) \div 2) + 1]][(Len(g) % 2) + 1] \in S
  PROVE  /\ g \o <<w[Fields[(Len(g) \div 2) + 1]][(Len(g) % 2) + 1]>> \in Seq(S)
         /\ Len(g \o <<w[Fields[(Len(g) \div 2) + 1]][(Len(g) % 2) + 1]>>) = Len(g) + 1
         /\ Matched(g \o <<w[Fields[(Len(g) \div 2) + 1]][(Len(g) % 2) + 1]>>, w)
<1>1. PICK x \in S : x = w[Fields[(Len(g) \div 2) + 1]][(Len(g) % 2) + 1]
  OBVIOUS
<1>2. PICK k \in Nat : Len(g) = k /\ k < 10
  OBVIOUS
<1> DEFINE h == g \o <<x>>
<1>3. h \in Seq(S) /\ Len(h) = k + 1 /\ h[k + 1] = x /\ \A i \in 1..k : h[i] = g[i]
  BY <1>1, <1>2
<1> HIDE DEF h
<1>4. ASSUME NEW i \in 1..5
      PROVE  /\ k + 1 >= 2 * i - 1 => h[2 * i - 1] = w[Fields[i]][1]
             /\ k + 1 >= 2 * i => h[2 * i] = w[Fields[i]][2]
  <2>1. /\ k >= 2 * i - 1 => g[2 * i - 1] = w[Fields[i]][1]
        /\ k >= 2 * i => g[2 * i] = w[Fields[i]][2]
    BY <1>2 DEF Matched
  <2>2. k >= 2 * i - 1 => 2 * i - 1 \in 1..k
    BY <1>2
  <2>3. k >= 2 * i => 2 * i \in 1..k
    BY <1>2
  <2>4. ASSUME k + 1 = 2 * i - 1 PROVE h[2 * i - 1] = w[Fields[i]][1]
    <3>1. k = 2 * (i - 1)
      BY <1>2, <2>4
    <3>2. (k \div 2) + 1 = i /\ (k % 2) + 1 = 1
      BY <3>1
    <3>3. QED BY <1>1, <1>2, <1>3, <2>4, <3>2
  <2>5. ASSUME k + 1 = 2 * i PROVE h[2 * i] = w[Fields[i]][2]
    <3>1. k = 2 * (i - 1) + 1
      BY <1>2, <2>5
    <3>2. (k \div 2) + 1 = i /\ (k % 2) + 1 = 2
      BY <3>1
    <3>3. QED BY <1>1, <1>2, <1>3, <2>5, <3>2
  <2>6. /\ k + 1 >= 2 * i - 1 => k >= 2 * i - 1 \/ k + 1 = 2 * i - 1
        /\ k + 1 >= 2 * i => k >= 2 * i \/ k + 1 = 2 * i
    BY <1>2
  <2>7. QED BY <1>3, <2>1, <2>2, <2>3, <2>4, <2>5, <2>6
<1>5. Matched(h, w)
  BY <1>3, <1>4 DEF Matched
<1>6. QED BY <1>1, <1>2, <1>3, <1>5 DEF h

\* Two members are appended.
LEMMA TwoAppended ==
  ASSUME NEW S, NEW g \in Seq(S), NEW a \in S, NEW b \in S
  PROVE  /\ g \o <<a, b>> \in Seq(S) /\ Len(g \o <<a, b>>) = Len(g) + 2
         /\ \A i \in 1..Len(g) : (g \o <<a, b>>)[i] = g[i]
         /\ (g \o <<a, b>>)[Len(g) + 1] = a /\ (g \o <<a, b>>)[Len(g) + 2] = b
OBVIOUS

\* Two words more, where every counter is read at once.
LEMMA TwoWordsMore ==
  ASSUME NEW g \in Seq(Digits), NEW w, Len(g) < 10, Len(g) % 2 = 0,
         w[Fields[(Len(g) \div 2) + 1]] \in Pairs
  PROVE  /\ g \o w[Fields[(Len(g) \div 2) + 1]] \in Seq(Digits)
         /\ Len(g \o w[Fields[(Len(g) \div 2) + 1]]) = Len(g) + 2
         /\ Len(g) + 2 <= 10 /\ (Len(g) + 2) % 2 = 0
         /\ Matched(g, w) => Matched(g \o w[Fields[(Len(g) \div 2) + 1]], w)
<1>1. PICK x \in Pairs : x = w[Fields[(Len(g) \div 2) + 1]]
  OBVIOUS
<1>2. PICK k \in Nat : Len(g) = k /\ k < 10 /\ k % 2 = 0
  OBVIOUS
<1>3. PICK m \in 0..4 : k = 2 * m
  <2>1. k = 0 \/ k = 2 \/ k = 4 \/ k = 6 \/ k = 8
    BY <1>2
  <2>2. /\ 0 \in 0..4 /\ 1 \in 0..4 /\ 2 \in 0..4 /\ 3 \in 0..4 /\ 4 \in 0..4
        /\ 0 = 2 * 0 /\ 2 = 2 * 1 /\ 4 = 2 * 2 /\ 6 = 2 * 3 /\ 8 = 2 * 4
    OBVIOUS
  <2>3. QED BY <2>1, <2>2
<1>4. PICK a \in Digits, b \in Digits : x = <<a, b>>
  BY PairFacts
<1> DEFINE h == g \o x
<1>5. /\ h \in Seq(Digits) /\ Len(h) = k + 2 /\ \A i \in 1..k : h[i] = g[i]
      /\ h[k + 1] = x[1] /\ h[k + 2] = x[2]
  <2>1. x[1] = a /\ x[2] = b /\ h = g \o <<a, b>>
    BY <1>4
  <2> HIDE DEF h
  <2>2. /\ h \in Seq(Digits) /\ Len(h) = Len(g) + 2 /\ \A i \in 1..Len(g) : h[i] = g[i]
        /\ h[Len(g) + 1] = a /\ h[Len(g) + 2] = b
    BY <2>1, TwoAppended
  <2>3. QED BY <1>2, <2>1, <2>2
<1>6. (k \div 2) + 1 = m + 1 /\ k + 2 <= 10 /\ (k + 2) % 2 = 0
  BY <1>3
<1> HIDE DEF h
<1>7. ASSUME Matched(g, w), NEW i \in 1..5
      PROVE  /\ k + 2 >= 2 * i - 1 => h[2 * i - 1] = w[Fields[i]][1]
             /\ k + 2 >= 2 * i => h[2 * i] = w[Fields[i]][2]
  <2>1. CASE i <= m
    <3>1. k >= 2 * i - 1 /\ k >= 2 * i /\ 2 * i - 1 \in 1..k /\ 2 * i \in 1..k
      BY <1>3, <2>1
    <3>2. g[2 * i - 1] = w[Fields[i]][1] /\ g[2 * i] = w[Fields[i]][2]
      BY <1>2, <1>7, <3>1 DEF Matched
    <3>3. QED BY <1>5, <3>1, <3>2
  <2>2. CASE i = m + 1
    <3>1. 2 * i - 1 = k + 1 /\ 2 * i = k + 2
      BY <1>3, <2>2
    <3>2. x = w[Fields[i]]
      BY <1>1, <1>2, <1>6, <2>2
    <3>3. QED BY <1>5, <3>1, <3>2
  <2>3. CASE i > m + 1
    <3>1. ~(k + 2 >= 2 * i - 1) /\ ~(k + 2 >= 2 * i)
      BY <1>3, <2>3
    <3>2. QED BY <3>1
  <2>4. QED BY <1>3, <2>1, <2>2, <2>3
<1>8. Matched(g, w) => Matched(h, w)
  BY <1>5, <1>7 DEF Matched
<1>9. QED BY <1>1, <1>2, <1>5, <1>6, <1>8 DEF h

\* What one step of the reader adds, in either build.
LEMMA WordsMore ==
  ASSUME NEW g \in Seq(Digits), Len(g) < 10, NEW w \in [FieldSet -> Pairs],
         NEW n \in BOOLEAN, n \/ Len(g) % 2 = 0, NEW more,
         more = IF n THEN <<w[Fields[(Len(g) \div 2) + 1]][(Len(g) % 2) + 1]>>
                     ELSE w[Fields[(Len(g) \div 2) + 1]]
  PROVE  /\ g \o more \in Seq(Digits) /\ Len(g \o more) \in 0..WordsOf
         /\ n \/ Len(g \o more) % 2 = 0
         /\ Matched(g, w) => Matched(g \o more, w)
<1>1. Len(g) \in Nat /\ WordsOf = 10
  BY FieldFacts
<1>2. (Len(g) \div 2) + 1 \in 1..5 /\ (Len(g) % 2) + 1 \in {1, 2}
  BY <1>1, PositionFacts
<1>3. w[Fields[(Len(g) \div 2) + 1]] \in Pairs
  BY <1>2, FieldFacts
<1>4. w[Fields[(Len(g) \div 2) + 1]][(Len(g) % 2) + 1] \in Digits
  BY <1>2, <1>3, PairFacts
<1>5. CASE n
  <2>1. PICK x \in Digits : x = w[Fields[(Len(g) \div 2) + 1]][(Len(g) % 2) + 1]
    BY <1>4
  <2>2. more = <<x>>
    BY <1>5, <2>1
  <2>3. g \o more \in Seq(Digits) /\ Len(g \o more) = Len(g) + 1
    <3>1. g \o <<x>> \in Seq(Digits) /\ Len(g \o <<x>>) = Len(g) + 1
      BY <2>1, OneAppended
    <3>2. QED BY Zenon, <2>2, <3>1
  <2>4. Matched(g, w) => Matched(g \o more, w)
    BY <1>4, <2>1, <2>2, OneWordMore
  <2>5. Len(g \o more) \in 0..WordsOf
    BY <1>1, <2>3
  <2>6. QED BY <1>5, <2>3, <2>4, <2>5
<1>6. CASE ~n
  <2>1. more = w[Fields[(Len(g) \div 2) + 1]] /\ Len(g) % 2 = 0
    BY <1>6
  <2>2. /\ g \o more \in Seq(Digits) /\ Len(g \o more) = Len(g) + 2
        /\ Len(g) + 2 <= 10 /\ (Len(g) + 2) % 2 = 0
        /\ Matched(g, w) => Matched(g \o more, w)
    BY <1>3, <2>1, TwoWordsMore
  <2>3. PICK k \in Nat : k = Len(g) + 2
    BY <1>1
  <2>4. k \in 0..WordsOf /\ k % 2 = 0 /\ Len(g \o more) = k
    BY <1>1, <2>2, <2>3, SMTT(30)
  <2>5. QED BY <2>2, <2>4
<1>7. QED BY <1>5, <1>6

\* All words of a slot are its counters.
LEMMA AllWords ==
  ASSUME reader.got \in Seq(Digits), Len(reader.got) = 10
  PROVE  /\ Got \in [FieldSet -> Nat]
         /\ \A s : Matched(reader.got, mem[s]) => Got = Values(s)
<1> DEFINE Place(f) == CHOOSE j \in DOMAIN Fields : Fields[j] = f
<1>1. ASSUME NEW f \in FieldSet PROVE Place(f) \in 1..5 /\ Fields[Place(f)] = f
  BY FieldFacts
<1>2. Got = [f \in FieldSet |-> Value(<<reader.got[2 * Place(f) - 1], reader.got[2 * Place(f)]>>)]
  BY DEF Got
<1> HIDE DEF Place
<1>3. ASSUME NEW f \in FieldSet
      PROVE  /\ reader.got[2 * Place(f) - 1] \in Digits /\ reader.got[2 * Place(f)] \in Digits
             /\ 10 >= 2 * Place(f) - 1 /\ 10 >= 2 * Place(f)
  <2>1. 2 * Place(f) - 1 \in 1..10 /\ 2 * Place(f) \in 1..10
    BY <1>1
  <2>2. QED BY <2>1
<1>4. ASSUME NEW f \in FieldSet
      PROVE  Value(<<reader.got[2 * Place(f) - 1], reader.got[2 * Place(f)]>>) \in Nat
  <2>1. <<reader.got[2 * Place(f) - 1], reader.got[2 * Place(f)]>> \in Pairs
    BY <1>3 DEF Pairs
  <2>2. QED BY <2>1, SplitFacts
<1>5. Got \in [FieldSet -> Nat]
  BY <1>2, <1>4
<1>6. ASSUME NEW s, Matched(reader.got, mem[s]) PROVE Got = Values(s)
  <2>1. ASSUME NEW f \in FieldSet
        PROVE  Value(<<reader.got[2 * Place(f) - 1], reader.got[2 * Place(f)]>>) = Value(mem[s][f])
    <3>1. PICK i \in 1..5 : i = Place(f) /\ Fields[i] = f
      BY <1>1
    <3>2. Len(reader.got) >= 2 * i - 1 /\ Len(reader.got) >= 2 * i
      BY <1>3, <3>1
    <3>3. reader.got[2 * i - 1] = mem[s][f][1] /\ reader.got[2 * i] = mem[s][f][2]
      BY <1>6, <3>1, <3>2 DEF Matched
    <3>4. QED BY <3>1, <3>3 DEF Value
  <2>2. QED BY <1>2, <2>1 DEF Values
<1>7. QED BY <1>5, <1>6

\* Where the reader goes from a slot.
LEMMA NextSlotFacts ==
  ASSUME NEW r \in Readers, r.slot \in Slots
  PROVE  /\ ToNextSlot(r) \in Readers /\ ToNextSlot(r).phase \in {"slot", "done"}
         /\ ToNextSlot(r).phase # "done" => ToNextSlot(r).slot \in Slots
         /\ ToNextSlot(r).slot = r.slot + 1
         /\ ToNextSlot(r).phase = "done" <=> r.slot = NSlots
         /\ ToNextSlot(r).taken = r.taken /\ ToNextSlot(r).from = r.from
<1>1. NSlots \in Nat /\ NSlots > 0 /\ MaxTries \in Nat /\ MaxTries > 0 /\ r.slot \in 1..NSlots
  BY MetricsAssumption DEF Slots
<1>2. /\ r.slot + 1 \in 1..NSlots + 1 /\ 0 \in 0..MaxTries - 1
      /\ r.slot # NSlots => r.slot + 1 \in Slots
  BY <1>1 DEF Slots
<1> DEFINE p == IF r.slot = NSlots THEN "done" ELSE "slot"
<1>3. p \in {"slot", "done"} /\ (p = "done" <=> r.slot = NSlots)
  OBVIOUS
<1>4. ToNextSlot(r) = [r EXCEPT !.slot = r.slot + 1, !.try = 0, !.phase = p]
  BY DEF ToNextSlot
<1> HIDE DEF p
<1>5. /\ ToNextSlot(r) \in Readers /\ ToNextSlot(r).slot = r.slot + 1 /\ ToNextSlot(r).phase = p
      /\ ToNextSlot(r).taken = r.taken /\ ToNextSlot(r).from = r.from
  <2>1. PICK n : n = ToNextSlot(r) /\ n = [r EXCEPT !.slot = r.slot + 1, !.try = 0, !.phase = p]
    BY <1>4
  <2>2. n.slot = r.slot + 1 /\ n.phase = p /\ n.taken = r.taken /\ n.from = r.from
    BY <2>1 DEF Readers
  <2>3. p \in {"idle", "slot", "words", "done"}
    BY <1>3
  <2>4. n \in Readers
    BY <1>2, <2>1, <2>3 DEF Readers
  <2>5. QED BY <2>1, <2>2, <2>4
<1>6. ToNextSlot(r).phase # "done" => ToNextSlot(r).slot \in Slots
  <2>1. SUFFICES ASSUME ToNextSlot(r).phase # "done" PROVE ToNextSlot(r).slot \in Slots
    OBVIOUS
  <2>2. r.slot # NSlots
    BY <1>3, <1>5, <2>1
  <2>3. r.slot + 1 \in Slots
    BY <1>2, <2>2
  <2>4. QED BY <1>5, <2>3
<1>7. ToNextSlot(r).phase \in {"slot", "done"} /\ (ToNextSlot(r).phase = "done" <=> r.slot = NSlots)
  BY <1>3, <1>5
<1>8. QED BY <1>5, <1>6, <1>7

\* And where, when the slot was busy.
LEMMA AgainFacts ==
  ASSUME NEW r \in Readers, r.slot \in Slots
  PROVE  /\ Again(r) \in Readers /\ Again(r).phase \in {"slot", "done"}
         /\ Again(r).phase # "done" => Again(r).slot \in Slots
         /\ Again(r).taken = r.taken /\ Again(r).from = r.from
<1>1. CASE r.try + 1 = MaxTries
  BY <1>1, NextSlotFacts DEF Again
<1>2. CASE r.try + 1 # MaxTries
  <2>1. MaxTries \in Nat /\ r.try \in 0..MaxTries - 1
    BY MetricsAssumption DEF Readers
  <2>2. r.try + 1 \in 0..MaxTries - 1
    BY <1>2, <2>1
  <2>3. Again(r) = [r EXCEPT !.phase = "slot", !.try = r.try + 1]
    BY <1>2 DEF Again
  <2>4. /\ Again(r) \in Readers /\ Again(r).phase = "slot" /\ Again(r).slot = r.slot
        /\ Again(r).taken = r.taken /\ Again(r).from = r.from
    BY <2>2, <2>3 DEF Readers
  <2>5. QED BY <2>4
<1>3. QED BY <1>1, <1>2

\* A reader that goes to another slot, or to the same again, has nothing of it yet.
LEMMA ReaderMoves ==
  ASSUME reader' \in Readers, reader'.phase \in {"idle", "slot", "done"},
         reader'.phase # "done" => reader'.slot \in Slots,
         narrow' => reader'.taken = reader'.from
  PROVE  ReaderConsistent'
BY DEF ReaderConsistent

\* The writers do not disturb the reader: while the number it began with is the
\* number of the slot, the words of the slot do not change.
LEMMA ReaderKept ==
  ASSUME CounterTypes, CounterTypes', ReaderConsistent, UNCHANGED <<reader, narrow>>,
         \A s \in Slots : seq'[s] >= seq[s],
         narrow => \A s \in Slots : seq'[s] = seq[s] /\ seq[s] % 2 = 0 => mem'[s] = mem[s]
  PROVE  ReaderConsistent'
<1>1. /\ reader \in Readers
      /\ reader.phase # "done" => reader.slot \in Slots
      /\ reader.phase = "words" => /\ Len(reader.got) \in 0..WordsOf
                                   /\ narrow \/ Len(reader.got) % 2 = 0
      /\ narrow => reader.taken = reader.from
  BY DEF ReaderConsistent
<1>2. ASSUME narrow, reader.phase = "words"
      PROVE  /\ reader.seq % 2 = 0 /\ seq'[reader.slot] >= reader.seq
             /\ seq'[reader.slot] = reader.seq => /\ reader.begun = Values(reader.slot)'
                                                  /\ Matched(reader.got, mem'[reader.slot])
  <2>1. /\ reader.slot \in Slots /\ reader.seq % 2 = 0 /\ seq[reader.slot] >= reader.seq
        /\ seq[reader.slot] = reader.seq => /\ reader.begun = Values(reader.slot)
                                            /\ Matched(reader.got, mem[reader.slot])
    BY <1>2 DEF ReaderConsistent
  <2>2. PICK s \in Slots : s = reader.slot
    BY <2>1
  <2>3. seq[s] \in Nat /\ seq'[s] \in Nat /\ reader.seq \in Nat /\ seq'[s] >= seq[s]
    BY <1>1 DEF CounterTypes, Readers
  <2>4. seq'[s] >= reader.seq
    BY <2>1, <2>2, <2>3
  <2>5. ASSUME seq'[s] = reader.seq PROVE seq[s] = reader.seq /\ mem'[s] = mem[s]
    <3>1. seq[s] = reader.seq
      BY <2>1, <2>2, <2>3, <2>5
    <3>2. QED BY <1>2, <2>1, <2>5, <3>1
  <2>6. seq'[s] = reader.seq => Values(s)' = Values(s)
    BY <2>5 DEF Values
  <2>7. QED BY <2>1, <2>2, <2>4, <2>5, <2>6
<1>3. reader' = reader /\ narrow' = narrow /\ (narrow' <=> narrow)
  OBVIOUS
<1>4. /\ reader' \in Readers
      /\ reader'.phase # "done" => reader'.slot \in Slots
      /\ reader'.phase = "words" => /\ Len(reader'.got) \in 0..WordsOf
                                    /\ narrow' \/ Len(reader'.got) % 2 = 0
      /\ narrow' => reader'.taken = reader'.from
  BY <1>1, <1>3
<1>5. narrow' /\ reader'.phase = "words" =>
         /\ reader'.seq % 2 = 0 /\ seq'[reader'.slot] >= reader'.seq
         /\ seq'[reader'.slot] = reader'.seq => /\ reader'.begun = Values(reader.slot)'
                                                /\ Matched(reader'.got, mem'[reader'.slot])
  BY <1>2, <1>3
<1>6. Matched(reader.got, mem[reader.slot])' <=> Matched(reader'.got, mem'[reader'.slot])
  BY DEF Matched
<1>7. QED BY <1>4, <1>5, <1>6 DEF ReaderConsistent

\* The steps of the reader.
LEMMA ReaderStep ==
  ASSUME CounterInv, Reader
  PROVE  CounterInv'
<1>1. CounterTypes /\ (\A s \in Slots : WriterConsistent(s)) /\ ReaderConsistent
  BY DEF CounterInv
<1>2. UNCHANGED <<mem, seq, script, next, alive, lock, complete, narrow>>
  BY Zenon DEF Reader, StartSample, ReadSequence, ReadWord, Accept, Steady
<1>3. CounterTypes' /\ \A s \in Slots : WriterConsistent(s)'
  <2>1. CounterTypes'
    BY <1>1, <1>2 DEF CounterTypes
  <2>2. ASSUME NEW s \in Slots PROVE WriterConsistent(s)'
    BY <1>1, <1>2, WriterElsewhere
  <2>3. QED BY <2>1, <2>2
<1>4. /\ reader \in Readers
      /\ reader.phase # "done" => reader.slot \in Slots
      /\ narrow => reader.taken = reader.from
  BY <1>1 DEF ReaderConsistent
<1>5. CASE StartSample
  <2>1. reader.phase = "idle" /\ reader' = [reader EXCEPT !.phase = "slot"]
    BY <1>5 DEF StartSample
  <2>2. /\ reader' \in Readers /\ reader'.phase = "slot" /\ reader'.slot = reader.slot
        /\ reader'.taken = reader.taken /\ reader'.from = reader.from
    BY <1>4, <2>1 DEF Readers
  <2>3. ReaderConsistent'
    BY <1>2, <1>4, <2>1, <2>2, ReaderMoves
  <2>4. QED BY <1>3, <2>3 DEF CounterInv
<1>6. CASE ReadSequence
  <2>1. /\ reader.phase = "slot"
        /\ reader' = IF narrow /\ seq[reader.slot] % 2 = 1 THEN Again(reader)
                     ELSE [reader EXCEPT !.phase = "words", !.seq = seq[reader.slot], !.got = <<>>,
                                         !.begun = complete[reader.slot]]
    BY <1>6 DEF ReadSequence
  <2>2. reader.slot \in Slots
    BY <1>4, <2>1
  <2>3. CASE narrow /\ seq[reader.slot] % 2 = 1
    <3>1. reader' = Again(reader)
      BY <2>1, <2>3
    <3>2. ReaderConsistent'
      BY <1>2, <1>4, <2>2, <3>1, AgainFacts, ReaderMoves
    <3>3. QED BY <1>3, <3>2 DEF CounterInv
  <2>4. CASE ~(narrow /\ seq[reader.slot] % 2 = 1)
    <3>1. PICK s \in Slots : s = reader.slot
      BY <2>2
    <3>2. seq[s] \in Nat /\ complete[s] \in [FieldSet -> Nat] /\ <<>> \in Seq(Digits) /\ Len(<<>>) = 0
      BY <1>1 DEF CounterTypes
    <3>3. reader' = [reader EXCEPT !.phase = "words", !.seq = seq[s], !.got = <<>>,
                                   !.begun = complete[s]]
      BY <2>1, <2>4, <3>1
    <3>4. /\ reader' \in Readers /\ reader'.phase = "words" /\ reader'.seq = seq[s]
          /\ reader'.got = <<>> /\ reader'.begun = complete[s] /\ reader'.slot = s
          /\ reader'.taken = reader.taken /\ reader'.from = reader.from
      BY <1>4, <3>1, <3>2, <3>3 DEF Readers
    <3>5. Len(reader'.got) \in 0..WordsOf /\ Len(reader'.got) % 2 = 0
      BY <3>2, <3>4, FieldFacts
    <3>6. Matched(reader'.got, mem'[s])
      <4>1. \A i \in 1..5 : ~(0 >= 2 * i - 1) /\ ~(0 >= 2 * i)
        OBVIOUS
      <4>2. QED BY <3>2, <3>4, <4>1 DEF Matched
    <3>7. narrow => seq[s] % 2 = 0 /\ complete[s] = Values(s) /\ Values(s)' = Values(s)
      <4>1. narrow => seq[s] % 2 = 0
        BY <2>4, <3>1, <3>2
      <4>2. narrow /\ seq[s] % 2 = 0 => complete[s] = Values(s)
        BY <1>1 DEF WriterConsistent
      <4>3. Values(s)' = Values(s)
        BY <1>2 DEF Values
      <4>4. QED BY <4>1, <4>2, <4>3
    <3>8. seq'[s] >= seq[s] /\ seq'[s] = seq[s]
      BY <1>2, <3>2
    <3>9. ReaderConsistent'
      BY <1>2, <1>4, <3>4, <3>5, <3>6, <3>7, <3>8 DEF ReaderConsistent
    <3>10. QED BY <1>3, <3>9 DEF CounterInv
  <2>5. QED BY <2>3, <2>4
<1>7. CASE ReadWord
  <2>1. PICK s \in Slots : s = reader.slot /\ reader.phase = "words"
    BY <1>4, <1>7 DEF ReadWord
  <2> DEFINE words == mem[s][Fields[(Len(reader.got) \div 2) + 1]]
             more == IF narrow THEN <<words[(Len(reader.got) % 2) + 1]>> ELSE words
  <2>2. Len(reader.got) < WordsOf /\ reader' = [reader EXCEPT !.got = reader.got \o more]
    BY <1>7, <2>1 DEF ReadWord
  <2>3. reader.got \in Seq(Digits) /\ Len(reader.got) \in Nat /\ Len(reader.got) < 10
    BY <1>4, <2>2, FieldFacts DEF Readers
  <2>4. narrow \in BOOLEAN /\ mem[s] \in [FieldSet -> Pairs] /\ (narrow \/ Len(reader.got) % 2 = 0)
    BY <1>1, <2>1, SlotFacts DEF CounterTypes, ReaderConsistent
  <2>5. more = IF narrow THEN <<mem[s][Fields[(Len(reader.got) \div 2) + 1]][(Len(reader.got) % 2) + 1]>>
                         ELSE mem[s][Fields[(Len(reader.got) \div 2) + 1]]
    OBVIOUS
  <2> HIDE DEF words, more
  <2>7. /\ reader.got \o more \in Seq(Digits) /\ Len(reader.got \o more) \in 0..WordsOf
        /\ narrow \/ Len(reader.got \o more) % 2 = 0
        /\ Matched(reader.got, mem[s]) => Matched(reader.got \o more, mem[s])
    BY <2>3, <2>4, <2>5, WordsMore
  <2>8. /\ reader' \in Readers /\ reader'.got = reader.got \o more
        /\ reader'.phase = reader.phase /\ reader'.seq = reader.seq
        /\ reader'.begun = reader.begun /\ reader'.slot = reader.slot
        /\ reader'.taken = reader.taken /\ reader'.from = reader.from
    BY <1>4, <2>2, <2>7 DEF Readers
  <2>9. narrow => /\ reader.seq % 2 = 0 /\ seq[s] >= reader.seq
                  /\ seq[s] = reader.seq => reader.begun = Values(s) /\ Matched(reader.got, mem[s])
    BY <1>1, <2>1 DEF ReaderConsistent
  <2>10. Values(s)' = Values(s)
    BY <1>2 DEF Values
  <2>11. ReaderConsistent'
    BY <1>2, <1>4, <2>1, <2>7, <2>8, <2>9, <2>10 DEF ReaderConsistent
  <2>12. QED BY <1>3, <2>11 DEF CounterInv
<1>8. CASE Accept
  <2>1. /\ reader.phase = "words" /\ Len(reader.got) = WordsOf
        /\ reader' = IF UnchangedSequence
                     THEN ToNextSlot([reader EXCEPT !.taken[reader.slot] = Got,
                                                    !.from[reader.slot] = reader.begun])
                     ELSE Again(reader)
    BY <1>8 DEF Accept
  <2>2. reader.slot \in Slots /\ reader.got \in Seq(Digits) /\ Len(reader.got) = 10
    BY <1>4, <2>1, FieldFacts DEF Readers
  <2>3. CASE ~UnchangedSequence
    <3>1. reader' = Again(reader)
      BY <2>1, <2>3
    <3>2. ReaderConsistent'
      BY <1>2, <1>4, <2>2, <3>1, AgainFacts, ReaderMoves
    <3>3. QED BY <1>3, <3>2 DEF CounterInv
  <2>4. CASE UnchangedSequence
    <3> DEFINE r == [reader EXCEPT !.taken[reader.slot] = Got, !.from[reader.slot] = reader.begun]
    <3>1. Got \in [FieldSet -> Nat]
      BY <2>2, AllWords
    <3>2. /\ reader.begun \in {None} \cup [FieldSet -> Nat]
          /\ reader.taken \in [Slots -> {None} \cup [FieldSet -> Nat]]
          /\ reader.from \in [Slots -> {None} \cup [FieldSet -> Nat]]
      BY <1>4 DEF Readers
    <3>3. /\ [reader.taken EXCEPT ![reader.slot] = Got] \in [Slots -> {None} \cup [FieldSet -> Nat]]
          /\ [reader.from EXCEPT ![reader.slot] = reader.begun]
                \in [Slots -> {None} \cup [FieldSet -> Nat]]
      BY <3>1, <3>2
    <3>4. r = [reader EXCEPT !.taken = [reader.taken EXCEPT ![reader.slot] = Got],
                             !.from = [reader.from EXCEPT ![reader.slot] = reader.begun]]
      BY <1>4 DEF Readers
    <3>5. /\ r \in Readers /\ r.slot = reader.slot
          /\ r.taken = [reader.taken EXCEPT ![reader.slot] = Got]
          /\ r.from = [reader.from EXCEPT ![reader.slot] = reader.begun]
      <4> HIDE DEF r
      <4>1. QED BY <1>4, <3>3, <3>4 DEF Readers
    <3>6. narrow => Got = reader.begun
      <4>1. ASSUME narrow PROVE Got = reader.begun
        <5>1. seq[reader.slot] = reader.seq
          BY <2>4, <4>1 DEF UnchangedSequence
        <5>2. reader.begun = Values(reader.slot) /\ Matched(reader.got, mem[reader.slot])
          BY <1>1, <2>1, <4>1, <5>1 DEF ReaderConsistent
        <5>3. QED BY <2>2, <5>2, AllWords
      <4>2. QED BY <4>1
    <3>7. narrow => r.taken = r.from
      BY <1>4, <3>5, <3>6
    <3>8. reader' = ToNextSlot(r)
      BY <2>1, <2>4
    <3> HIDE DEF r
    <3>9. ReaderConsistent'
      BY <1>2, <2>2, <3>5, <3>7, <3>8, NextSlotFacts, ReaderMoves
    <3>10. QED BY <1>3, <3>9 DEF CounterInv
  <2>5. QED BY <2>3, <2>4
<1>9. QED BY <1>5, <1>6, <1>7, <1>8 DEF Reader

-----------------------------------------------------------------------------
(* Counters and samples *)

\* Counters that have run for long are values of their words.
LEMMA AgedFacts ==
  ASSUME NEW s, NEW f
  PROVE  Aged(s, f) \in 0..Largest
<1>1. Base \in Nat /\ Base > 1 /\ Largest \in Nat /\ Largest = Base * Base - 1
  BY SplitFacts DEF Largest
<1>2. Base * Base >= Base /\ Base * Base \in Nat
  BY <1>1
<1>3. 0 \in 0..Largest /\ Largest \in 0..Largest /\ Base - 2 \in 0..Largest /\ Base - 1 \in 0..Largest
  BY <1>1, <1>2
<1>4. QED BY <1>3 DEF Aged

\* At the beginning nothing is updated and nothing read.
LEMMA CounterInit == MetricsInit => CounterInv
<1> SUFFICES ASSUME MetricsInit PROVE CounterInv
  OBVIOUS
<1>1. /\ mem = [s \in Slots |-> [f \in FieldSet |-> Split(Aged(s, f))]]
      /\ narrow \in Narrows
      /\ seq = [s \in Slots |-> 0]
      /\ script = [s \in Slots |-> <<>>] /\ next = [s \in Slots |-> None]
      /\ alive = Slots /\ lock = None
      /\ reader = [phase |-> "idle", slot |-> 1, try |-> 0, seq |-> 0, got |-> <<>>,
                   begun |-> None, taken |-> [s \in Slots |-> None], from |-> [s \in Slots |-> None]]
      /\ complete = [s \in Slots |-> Values(s)]
  BY DEF MetricsInit
<1>2. ASSUME NEW s \in Slots, NEW f \in FieldSet
      PROVE  mem[s][f] = Split(Aged(s, f)) /\ mem[s][f] \in Pairs /\ Value(mem[s][f]) \in Nat
  <2>1. mem[s][f] = Split(Aged(s, f))
    BY <1>1
  <2>2. Aged(s, f) \in 0..Largest
    BY AgedFacts
  <2>3. mem[s][f] \in Pairs
    BY <2>1, <2>2, SplitFacts
  <2>4. Value(mem[s][f]) \in 0..Largest /\ Largest \in Nat
    BY <2>3, SplitFacts
  <2>5. QED BY <2>1, <2>3, <2>4
<1>3. mem \in [Slots -> [FieldSet -> Pairs]]
  <2>1. mem = [s \in Slots |-> [f \in FieldSet |-> mem[s][f]]]
    BY <1>1
  <2>2. QED BY <1>2, <2>1
<1>4. ASSUME NEW s \in Slots PROVE Values(s) \in [FieldSet -> Nat]
  BY <1>2 DEF Values
<1>5. narrow \in BOOLEAN /\ <<>> \in Seq(Ops) /\ <<>> \in Seq(Digits) /\ Len(<<>>) = 0
  BY <1>1, MetricsAssumption
<1>6. complete \in [Slots -> [FieldSet -> Nat]]
  BY <1>1, <1>4
<1>7. CounterTypes
  BY <1>1, <1>3, <1>5, <1>6 DEF CounterTypes
<1>8. ASSUME NEW s \in Slots PROVE WriterConsistent(s)
  <2>1. /\ seq[s] = 0 /\ script[s] = <<>> /\ ~Begun(s) /\ s \in alive /\ complete[s] = Values(s)
    BY <1>1 DEF Begun
  <2>2. seq[s] % 2 = 0
    BY <2>1
  <2>3. \A i \in 2..Len(script[s]) : FALSE
    BY <1>5, <2>1
  <2>4. QED BY <2>1, <2>2, <2>3 DEF WriterConsistent
<1>9. ReaderConsistent
  <2>1. /\ NSlots \in Nat /\ NSlots > 0 /\ MaxTries \in Nat /\ MaxTries > 0
    BY MetricsAssumption
  <2>2. 1 \in 1..NSlots + 1 /\ 0 \in 0..MaxTries - 1 /\ 1 \in Slots
    BY <2>1 DEF Slots
  <2>3. reader \in Readers
    BY <1>1, <1>5, <2>2 DEF Readers
  <2>4. reader.phase = "idle" /\ reader.slot = 1 /\ reader.taken = reader.from
    BY <1>1
  <2>5. QED BY <2>2, <2>3, <2>4 DEF ReaderConsistent
<1>10. QED BY <1>7, <1>8, <1>9 DEF CounterInv

\* The steps of the model: of a writer, of its events, of its life, of the reader.
LEMMA NextSteps ==
  ASSUME MetricsNext
  PROVE  \/ Reader
         \/ \E s \in Slots : \/ Open(s) \/ Store(s) \/ Close(s)
                             \/ Counting(s) \/ WorkerDies(s) \/ InitWorker(s)
BY DEF MetricsNext, Writer, Counting

\* Every step keeps the invariant.
LEMMA CounterStep ==
  ASSUME CounterInv, [MetricsNext]_metricsVars
  PROVE  CounterInv'
<1>1. CounterTypes /\ (\A s \in Slots : WriterConsistent(s)) /\ ReaderConsistent
  BY DEF CounterInv
<1>2. \A s \in Slots : seq[s] \in Nat /\ seq[s] >= seq[s]
  BY <1>1 DEF CounterTypes
<1>3. CASE Reader
  BY <1>3, ReaderStep
<1>4. ASSUME NEW s \in Slots, Open(s) PROVE CounterInv'
  <2>1. /\ CounterTypes' /\ \A t \in Slots : WriterConsistent(t)'
        /\ mem' = mem /\ \A t \in Slots : seq'[t] >= seq[t]
    BY <1>1, <1>4, OpenStep
  <2>2. UNCHANGED <<reader, narrow>>
    BY <1>4 DEF Open
  <2>3. ReaderConsistent'
    BY <1>1, <2>1, <2>2, ReaderKept
  <2>4. QED BY <2>1, <2>3 DEF CounterInv
<1>5. ASSUME NEW s \in Slots, Store(s) PROVE CounterInv'
  <2>1. /\ CounterTypes' /\ \A t \in Slots : WriterConsistent(t)'
        /\ seq' = seq
        /\ narrow => seq[s] % 2 = 1
        /\ \A t \in Slots \ {s} : mem'[t] = mem[t]
    BY <1>1, <1>5, StoreStep
  <2>2. UNCHANGED <<reader, narrow>>
    BY <1>5 DEF Store
  <2>3. narrow => \A t \in Slots : seq[t] % 2 = 0 => mem'[t] = mem[t]
    BY <1>2, <2>1
  <2>4. ReaderConsistent'
    BY <1>1, <1>2, <2>1, <2>2, <2>3, ReaderKept
  <2>5. QED BY <2>1, <2>4 DEF CounterInv
<1>6. ASSUME NEW s \in Slots, Close(s) PROVE CounterInv'
  <2>1. /\ CounterTypes' /\ \A t \in Slots : WriterConsistent(t)'
        /\ mem' = mem /\ \A t \in Slots : seq'[t] >= seq[t]
    BY <1>1, <1>6, CloseStep
  <2>2. UNCHANGED <<reader, narrow>>
    BY <1>6 DEF Close
  <2>3. ReaderConsistent'
    BY <1>1, <2>1, <2>2, ReaderKept
  <2>4. QED BY <2>1, <2>3 DEF CounterInv
<1>7. ASSUME NEW s \in Slots, Counting(s) PROVE CounterInv'
  <2>1. PICK ops \in Scripts : Count(s, ops) /\ (lock' = lock \/ lock' = s)
    BY <1>7, CountingSteps
  <2>2. /\ CounterTypes' /\ \A t \in Slots : WriterConsistent(t)'
        /\ UNCHANGED <<mem, seq, reader, narrow>>
    BY <1>1, <2>1, CountStep
  <2>3. ReaderConsistent'
    BY <1>1, <1>2, <2>2, ReaderKept
  <2>4. QED BY <2>2, <2>3 DEF CounterInv
<1>8. ASSUME NEW s \in Slots, WorkerDies(s) PROVE CounterInv'
  <2>1. /\ CounterTypes' /\ \A t \in Slots : WriterConsistent(t)'
        /\ UNCHANGED <<mem, seq, reader, narrow>>
    BY <1>1, <1>8, DieStep
  <2>2. ReaderConsistent'
    BY <1>1, <1>2, <2>1, ReaderKept
  <2>3. QED BY <2>1, <2>2 DEF CounterInv
<1>9. ASSUME NEW s \in Slots, InitWorker(s) PROVE CounterInv'
  <2>1. /\ CounterTypes' /\ \A t \in Slots : WriterConsistent(t)'
        /\ UNCHANGED <<mem, seq, reader, narrow>>
    BY <1>1, <1>9, TakeoverStep
  <2>2. ReaderConsistent'
    BY <1>1, <1>2, <2>1, ReaderKept
  <2>3. QED BY <2>1, <2>2 DEF CounterInv
<1>10. CASE UNCHANGED metricsVars
  <2>1. UNCHANGED <<mem, seq, script, next, alive, lock, reader, complete, narrow>>
    BY <1>10 DEF metricsVars
  <2>2. CounterTypes'
    BY <1>1, <2>1 DEF CounterTypes
  <2>3. ASSUME NEW s \in Slots PROVE WriterConsistent(s)'
    BY <1>1, <2>1, WriterElsewhere
  <2>4. ReaderConsistent'
    BY <1>1, <1>2, <2>1, <2>2, ReaderKept
  <2>5. QED BY <2>2, <2>3, <2>4 DEF CounterInv
<1>11. QED BY <1>3, <1>4, <1>5, <1>6, <1>7, <1>8, <1>9, <1>10, NextSteps

\* The invariant holds throughout.
LEMMA CounterInvariant == MetricsSpec => []CounterInv
<1>1. MetricsInit => CounterInv
  BY CounterInit
<1>2. CounterInv /\ [MetricsNext]_metricsVars => CounterInv'
  BY CounterStep
<1>3. QED BY <1>1, <1>2, PTL DEF MetricsSpec

\* In a build of 32 bits a sample has of every slot what its counters were between
\* two updates, whoever writes or dies while it is taken.
THEOREM SampleIsWhole == MetricsSpec => []SampleWhole
<1>1. CounterInv => SampleWhole
  BY DEF CounterInv, ReaderConsistent, SampleWhole, Shards
<1>2. QED BY <1>1, CounterInvariant, PTL

\* Counters stay in their words, and a slot whose worker updates nothing can be
\* read, whatever the worker before it left.
THEOREM CountersAreConsistent == MetricsSpec => []CountersConsistent
<1>1. CounterInv => CountersConsistent
  <2> SUFFICES ASSUME CounterInv PROVE CountersConsistent
    OBVIOUS
  <2>1. CounterTypes /\ (\A s \in Slots : WriterConsistent(s)) /\ reader \in Readers
    BY DEF CounterInv, ReaderConsistent
  <2>2. ASSUME NEW s \in Slots, NEW f \in FieldSet, NEW i \in {1, 2}
        PROVE  mem[s][f][i] \in 0..Base - 1
    BY <2>1 DEF CounterTypes, Pairs, Digits
  <2>3. lock = None \/ lock \in alive
    BY <2>1 DEF CounterTypes
  <2>4. reader.slot \in 1..NSlots + 1 /\ reader.try \in 0..MaxTries - 1
    BY <2>1 DEF Readers
  <2>5. ASSUME narrow, NEW s \in Slots, Idle(s) PROVE seq[s] % 2 = 0
    <3>1. s \in alive /\ script[s] = <<>>
      BY <2>5 DEF Idle
    <3>2. ~Begun(s) /\ ~Resetting(s)
      BY <2>1, <3>1 DEF WriterConsistent, Resetting
    <3>3. QED BY <2>1, <2>5, <3>1, <3>2 DEF WriterConsistent
  <2>6. QED BY <2>2, <2>3, <2>4, <2>5 DEF CountersConsistent, MetricsTypeOK, ReadableWhenIdle
<1>2. QED BY <1>1, CounterInvariant, PTL

-----------------------------------------------------------------------------
(* What the counters will be *)

\* Counters that tell of the tasks: only who holds the mutex counts them.
Shared == {"enqueued", "started", "finished"}

\* The value of a counter with words w once the updates ops are done, of which the
\* first may have begun.
Coming(ops, step, w, f) ==
    IF \E i \in 1..Len(ops) : ops[i].field = f
    THEN LET i == CHOOSE j \in 1..Len(ops) : ops[j].field = f
         IN  IF i = 1 /\ step # None THEN Value(step.words) ELSE Updated(ops[i], Value(w))
    ELSE Value(w)

Final(s, f) == Coming(script[s], next[s], mem[s][f], f)

Finals(f) == [s \in Slots |-> Final(s, f)]

\* A script counts nothing twice, and what it counts of the tasks it counts for
\* the holder of the mutex.
Distinct(ops) ==
    \A i \in 1..Len(ops) : \A j \in 1..Len(ops) : ops[i].field = ops[j].field => i = j

ScriptConsistent(s) ==
    /\ Distinct(script[s])
    /\ \A i \in 1..Len(script[s]) : script[s][i].field \in Shared => lock = s

\* The value of a counter that has no update to come, and of one that has.
LEMMA ComingFacts ==
  ASSUME NEW ops, NEW step, NEW w, NEW f
  PROVE  /\ (\A i \in 1..Len(ops) : ops[i].field # f) => Coming(ops, step, w, f) = Value(w)
         /\ \A i \in 1..Len(ops) :
               Distinct(ops) /\ ops[i].field = f =>
                  Coming(ops, step, w, f) = IF i = 1 /\ step # None THEN Value(step.words)
                                            ELSE Updated(ops[i], Value(w))
<1>1. ASSUME NEW i \in 1..Len(ops), Distinct(ops), ops[i].field = f
      PROVE  i = CHOOSE j \in 1..Len(ops) : ops[j].field = f
  <2> DEFINE c == CHOOSE j \in 1..Len(ops) : ops[j].field = f
  <2>1. c \in 1..Len(ops) /\ ops[c].field = f
    BY <1>1
  <2> HIDE DEF c
  <2>2. c = i
    BY <1>1, <2>1 DEF Distinct
  <2>3. QED BY <2>2 DEF c
<1>2. ASSUME NEW i \in 1..Len(ops), Distinct(ops), ops[i].field = f
      PROVE  Coming(ops, step, w, f) = IF i = 1 /\ step # None THEN Value(step.words)
                                       ELSE Updated(ops[i], Value(w))
  <2>1. Coming(ops, step, w, f) = LET j == CHOOSE k \in 1..Len(ops) : ops[k].field = f
                                  IN  IF j = 1 /\ step # None THEN Value(step.words)
                                      ELSE Updated(ops[j], Value(w))
    BY <1>2 DEF Coming
  <2>2. QED BY <1>1, <1>2, <2>1
<1>3. ASSUME \A i \in 1..Len(ops) : ops[i].field # f
      PROVE  Coming(ops, step, w, f) = Value(w)
  BY <1>3 DEF Coming
<1>4. QED BY <1>2, <1>3

\* An update that has begun matters to its own counter only.
LEMMA ComingApart ==
  ASSUME NEW ops, NEW before, NEW after, NEW w, NEW f, Distinct(ops), ops[1].field # f
  PROVE  Coming(ops, before, w, f) = Coming(ops, after, w, f)
<1>1. CASE \A i \in 1..Len(ops) : ops[i].field # f
  BY <1>1, ComingFacts
<1>2. CASE \E i \in 1..Len(ops) : ops[i].field = f
  <2>1. PICK i \in 1..Len(ops) : ops[i].field = f
    BY <1>2
  <2>2. i # 1
    BY <2>1
  <2>3. QED BY <2>1, <2>2, ComingFacts
<1>3. QED BY <1>1, <1>2

\* It is a value.
LEMMA ComingValue ==
  ASSUME NEW ops \in Seq(Ops), Distinct(ops), NEW w \in Pairs, NEW f \in FieldSet,
         NEW step, step # None => step \in [words : Pairs, todo : SUBSET {1, 2}]
  PROVE  Coming(ops, step, w, f) \in 0..Largest
<1>1. Value(w) \in 0..Largest
  BY SplitFacts
<1>2. step # None => Value(step.words) \in 0..Largest
  BY SplitFacts
<1>3. ASSUME NEW i \in 1..Len(ops), ops[i].field = f
      PROVE  Coming(ops, step, w, f) \in 0..Largest
  <2>1. ops[i] \in Ops
    BY <1>3
  <2>2. Updated(ops[i], Value(w)) \in 0..Largest
    BY <1>1, <2>1, UpdatedFacts
  <2>3. QED BY <1>2, <1>3, <2>2, ComingFacts
<1>4. QED BY <1>1, <1>3, ComingFacts

\* A counter will have a value.
LEMMA FinalValue ==
  ASSUME CounterTypes, NEW s \in Slots, Distinct(script[s]), NEW f \in FieldSet
  PROVE  Final(s, f) \in 0..Largest
<1>1. /\ mem[s] \in [FieldSet -> Pairs] /\ script[s] \in Seq(Ops)
      /\ next[s] # None => next[s] \in [words : Pairs, todo : SUBSET {1, 2}]
  BY SlotFacts DEF Begun
<1>2. QED BY <1>1, ComingValue DEF Final

\* The rest of a script, as the first of its updates is done.
LEMMA ComingRest ==
  ASSUME NEW ops \in Seq(Ops), ops # <<>>, Distinct(ops)
  PROVE  /\ Distinct(Tail(ops)) /\ Len(Tail(ops)) = Len(ops) - 1
         /\ \A i \in 1..Len(Tail(ops)) : i + 1 \in 1..Len(ops) /\ Tail(ops)[i] = ops[i + 1]
         /\ 1 \in 1..Len(ops)
         /\ \A i \in 1..Len(Tail(ops)) : Tail(ops)[i].field # ops[1].field
         /\ \A f, w, step : ops[1].field # f =>
               Coming(Tail(ops), None, w, f) = Coming(ops, step, w, f)
<1>1. PICK n \in Nat : Len(ops) = n + 1
  <2>1. Len(ops) \in Nat /\ Len(ops) > 0
    OBVIOUS
  <2>2. QED BY <2>1
<1>2. /\ Len(Tail(ops)) = n
      /\ \A i \in 1..n : Tail(ops)[i] = ops[i + 1]
  BY <1>1
<1>3. (\A i \in 1..n : i + 1 \in 1..n + 1 /\ i + 1 # 1) /\ 1 \in 1..n + 1
  OBVIOUS
<1>4. Distinct(Tail(ops))
  <2>1. ASSUME NEW i \in 1..n, NEW j \in 1..n, Tail(ops)[i].field = Tail(ops)[j].field
        PROVE  i = j
    <3>1. i + 1 = j + 1
      BY <1>1, <1>2, <1>3, <2>1 DEF Distinct
    <3>2. QED BY <3>1
  <2>2. QED BY <1>2, <2>1 DEF Distinct
<1>5. \A i \in 1..n : Tail(ops)[i].field # ops[1].field
  BY <1>1, <1>2, <1>3 DEF Distinct
<1>6. ASSUME NEW f, NEW w, NEW step, ops[1].field # f
      PROVE  Coming(Tail(ops), None, w, f) = Coming(ops, step, w, f)
  <2>1. CASE \A i \in 1..n : Tail(ops)[i].field # f
    <3>1. \A i \in 1..n + 1 : i = 1 \/ \E j \in 1..n : i = j + 1
      <4>1. ASSUME NEW i \in 1..n + 1, i # 1 PROVE i - 1 \in 1..n /\ i = (i - 1) + 1
        BY <4>1
      <4>2. QED BY <4>1
    <3>2. \A i \in 1..Len(ops) : ops[i].field # f
      BY <1>1, <1>2, <1>6, <2>1, <3>1
    <3>3. Coming(ops, step, w, f) = Value(w)
      BY <3>2, ComingFacts
    <3>4. \A i \in 1..Len(Tail(ops)) : Tail(ops)[i].field # f
      BY <1>2, <2>1
    <3>5. Coming(Tail(ops), None, w, f) = Value(w)
      <4>1. PICK rest : rest = Tail(ops)
        OBVIOUS
      <4>2. QED BY <3>4, <4>1, ComingFacts
    <3>6. QED BY <3>3, <3>5
  <2>2. CASE \E i \in 1..n : Tail(ops)[i].field = f
    <3>1. PICK i \in 1..n : Tail(ops)[i].field = f
      BY <2>2
    <3>2. i + 1 \in 1..Len(ops) /\ i + 1 # 1 /\ ops[i + 1].field = f
      BY <1>1, <1>2, <1>3, <3>1
    <3>3. Coming(ops, step, w, f) = Updated(ops[i + 1], Value(w))
      BY <3>2, ComingFacts
    <3>4. Coming(Tail(ops), None, w, f) = Updated(Tail(ops)[i], Value(w))
      BY <1>2, <1>4, <3>1, ComingFacts
    <3>5. QED BY <1>2, <3>3, <3>4
  <2>3. QED BY <2>1, <2>2
<1>7. QED BY <1>1, <1>2, <1>3, <1>4, <1>5, <1>6

\* The steps of an update do not change what a counter will be.
LEMMA WriterKeepsFinal ==
  ASSUME CounterTypes, \A t \in Slots : WriterConsistent(t),
         NEW s \in Slots, Distinct(script[s]), Open(s) \/ Store(s) \/ Close(s),
         NEW t \in Slots, NEW f \in FieldSet
  PROVE  Final(t, f)' = Final(t, f)
<1>1. CASE t # s
  <2>1. mem'[t] = mem[t] /\ script'[t] = script[t] /\ next'[t] = next[t]
    BY <1>1, OpenStep, StoreStep, CloseStep
  <2>2. QED BY <2>1 DEF Final
<1> SUFFICES ASSUME t = s PROVE Final(s, f)' = Final(s, f)
  BY <1>1
<1> DEFINE op == Head(script[s])
<1>3. /\ script[s] # <<>> /\ script[s] \in Seq(Ops) /\ op \in Ops /\ op = script[s][1]
      /\ 1 \in 1..Len(script[s]) /\ op.field \in FieldSet
      /\ mem[s] \in [FieldSet -> Pairs]
  <2>1. script[s] # <<>>
    BY OpenStep, StoreStep, CloseStep, Zenon DEF Store, WriterConsistent
  <2>2. /\ script[s] \in Seq(Ops) /\ op \in Ops /\ op = script[s][1] /\ Len(script[s]) >= 1
        /\ op.field \in FieldSet /\ mem[s] \in [FieldSet -> Pairs]
    BY <2>1, SlotFacts
  <2>3. 1 \in 1..Len(script[s])
    BY <2>2
  <2>4. QED BY <2>1, <2>2, <2>3
<1> HIDE DEF op
<1>4. Final(s, f)' = Coming(script'[s], next'[s], mem'[s][f], f)
  BY DEF Final
<1>5. CASE Open(s)
  <2>1. /\ UNCHANGED <<mem, script>> /\ ~Begun(s) /\ next'[s] # None
        /\ next'[s].words = Split(Updated(op, Value(mem[s][op.field])))
    BY <1>5, OpenStep DEF op
  <2>2. CASE op.field = f
    <3>1. Final(s, f) = Updated(op, Value(mem[s][f]))
      BY <1>3, <2>1, <2>2, ComingFacts DEF Final, Begun
    <3>2. Final(s, f)' = Value(next'[s].words)
      BY <1>3, <1>4, <2>1, <2>2, ComingFacts
    <3>3. Value(mem[s][f]) \in 0..Largest
      BY <1>3, SplitFacts
    <3>4. Updated(op, Value(mem[s][f])) \in 0..Largest
      BY <1>3, <3>3, UpdatedFacts
    <3>5. QED BY <2>1, <2>2, <3>1, <3>2, <3>4, SplitFacts
  <2>3. CASE op.field # f
    BY <1>3, <1>4, <2>1, <2>3, ComingApart DEF Final
  <2>4. QED BY <2>2, <2>3
<1>6. CASE Store(s)
  <2>1. /\ script' = script /\ Begun(s) /\ Begun(s)' /\ next'[s].words = next[s].words
        /\ op.field # f => mem'[s][f] = mem[s][f]
    BY <1>6, StoreStep DEF op
  <2>2. next[s] # None /\ next'[s] # None
    BY <2>1 DEF Begun
  <2>3. CASE op.field = f
    <3>1. Final(s, f) = Value(next[s].words)
      BY <1>3, <2>2, <2>3, ComingFacts DEF Final
    <3>2. Final(s, f)' = Value(next'[s].words)
      BY <1>3, <1>4, <2>1, <2>2, <2>3, ComingFacts
    <3>3. QED BY <2>1, <3>1, <3>2
  <2>4. CASE op.field # f
    BY <1>3, <1>4, <2>1, <2>4, ComingApart DEF Final
  <2>5. QED BY <2>3, <2>4
<1>7. CASE Close(s)
  <2>1. /\ mem' = mem /\ script'[s] = Tail(script[s]) /\ next'[s] = None /\ Begun(s)
        /\ mem[s][op.field] = next[s].words
    <3>1. /\ mem' = mem /\ script'[s] = Tail(script[s]) /\ Begun(s) /\ ~Begun(s)'
          /\ mem[s][op.field] = next[s].words
      BY <1>7, CloseStep DEF op
    <3>2. QED BY <3>1 DEF Begun
  <2>2. CASE op.field = f
    <3>1. Final(s, f) = Value(next[s].words)
      BY <1>3, <2>1, <2>2, ComingFacts DEF Final, Begun
    <3>2. \A i \in 1..Len(Tail(script[s])) : Tail(script[s])[i].field # f
      BY <1>3, <2>2, ComingRest
    <3>3. Final(s, f)' = Value(mem[s][f])
      <4>1. PICK rest : rest = Tail(script[s])
        OBVIOUS
      <4>2. Coming(rest, None, mem[s][f], f) = Value(mem[s][f])
        BY <3>2, <4>1, ComingFacts
      <4>3. QED BY <1>4, <2>1, <4>1, <4>2
    <3>4. QED BY <2>1, <2>2, <3>1, <3>3
  <2>3. CASE op.field # f
    BY <1>3, <1>4, <2>1, <2>3, ComingRest DEF Final
  <2>4. QED BY <2>2, <2>3
<1>8. QED BY <1>5, <1>6, <1>7

\* It depends on the slot alone.
LEMMA FinalElsewhere ==
  ASSUME NEW s, NEW f, mem'[s] = mem[s], script'[s] = script[s], next'[s] = next[s]
  PROVE  Final(s, f)' = Final(s, f)
BY DEF Final

\* With nothing to do it is the value of the counter.
LEMMA FinalIdle ==
  ASSUME NEW s, NEW f, script[s] = <<>>
  PROVE  Final(s, f) = Value(mem[s][f])
<1>1. \A i \in 1..Len(<<>>) : FALSE
  OBVIOUS
<1>2. QED BY <1>1, ComingFacts DEF Final

\* Scripts stay as they should be in the steps of an update.
LEMMA WriterKeepsScripts ==
  ASSUME CounterTypes, \A t \in Slots : WriterConsistent(t),
         \A t \in Slots : ScriptConsistent(t),
         NEW s \in Slots, Open(s) \/ Store(s) \/ Close(s), NEW t \in Slots
  PROVE  ScriptConsistent(t)'
<1>1. CASE Open(s) \/ Store(s)
  <2>1. script' = script
    BY <1>1, OpenStep, StoreStep
  <2>2. lock' = lock
    BY <1>1, Zenon DEF Open, Store
  <2>3. QED BY <2>1, <2>2 DEF ScriptConsistent
<1>2. CASE Close(s)
  <2>1. /\ script[s] # <<>> /\ script'[s] = Tail(script[s])
        /\ \A r \in Slots \ {s} : script'[r] = script[r]
    BY <1>2, CloseStep
  <2>2. lock' = IF lock = s /\ Len(script[s]) = 1 THEN None ELSE lock
    BY <1>2 DEF Close
  <2>3. script[s] \in Seq(Ops) /\ Distinct(script[s])
    BY SlotFacts DEF ScriptConsistent
  <2>4. CASE t = s
    <3>1. PICK rest : rest = Tail(script[s])
      OBVIOUS
    <3>2. /\ Distinct(rest) /\ Len(rest) = Len(script[s]) - 1
          /\ \A i \in 1..Len(rest) : i + 1 \in 1..Len(script[s]) /\ rest[i] = script[s][i + 1]
      BY <2>1, <2>3, <3>1, ComingRest
    <3>3. ASSUME NEW i \in 1..Len(rest), rest[i].field \in Shared PROVE lock' = s
      <4>1. lock = s
        BY <3>2, <3>3 DEF ScriptConsistent
      <4>2. Len(script[s]) # 1
        BY <3>2, <3>3
      <4>3. QED BY <2>2, <4>1, <4>2
    <3>4. QED BY <2>1, <2>4, <3>1, <3>2, <3>3 DEF ScriptConsistent
  <2>5. CASE t # s
    <3>1. script'[t] = script[t]
      BY <2>1, <2>5
    <3>2. lock = t => lock' = t
      BY <2>2, <2>5
    <3>3. QED BY <3>1, <3>2 DEF ScriptConsistent
  <2>6. QED BY <2>4, <2>5
<1>3. QED BY <1>1, <1>2

\* An event that is counted lets the counters of its script go on.
LEMMA CountFinal ==
  ASSUME CounterTypes, \A t \in Slots : WriterConsistent(t),
         NEW s \in Slots, NEW ops \in Scripts, Count(s, ops), lock' = lock \/ lock' = s,
         Distinct(ops)
  PROVE  /\ \A t \in Slots \ {s} : \A f \in FieldSet : Final(t, f)' = Final(t, f)
         /\ \A i \in 1..Len(ops) : Final(s, ops[i].field)' = Updated(ops[i], Final(s, ops[i].field))
         /\ \A f \in FieldSet : (\A i \in 1..Len(ops) : ops[i].field # f) => Final(s, f)' = Final(s, f)
<1>1. /\ UNCHANGED <<mem, next>> /\ script[s] = <<>> /\ ~Begun(s)
      /\ script' = [script EXCEPT ![s] = ops]
  BY CountStep
<1>2. script'[s] = ops /\ \A t \in Slots \ {s} : script'[t] = script[t]
  BY <1>1 DEF CounterTypes
<1>3. next[s] = None
  BY <1>1 DEF Begun
<1>4. \A f : Final(s, f) = Value(mem[s][f])
  BY <1>1, FinalIdle
<1>5. \A f : Final(s, f)' = Coming(ops, None, mem[s][f], f)
  BY <1>1, <1>2, <1>3 DEF Final
<1>6. ASSUME NEW i \in 1..Len(ops)
      PROVE  Final(s, ops[i].field)' = Updated(ops[i], Final(s, ops[i].field))
  BY <1>4, <1>5, ComingFacts
<1>7. ASSUME NEW f \in FieldSet, \A i \in 1..Len(ops) : ops[i].field # f
      PROVE  Final(s, f)' = Final(s, f)
  BY <1>4, <1>5, <1>7, ComingFacts
<1>8. QED BY <1>1, <1>2, <1>6, <1>7, FinalElsewhere

\* So do the scripts: only who takes the mutex counts what the mutex protects.
LEMMA CountScripts ==
  ASSUME CounterTypes, \A t \in Slots : WriterConsistent(t),
         \A t \in Slots : ScriptConsistent(t),
         NEW s \in Slots, NEW ops \in Scripts, Count(s, ops), Distinct(ops),
         \/ lock' = lock /\ \A i \in 1..Len(ops) : ops[i].field \notin Shared
         \/ lock = None /\ lock' = s
  PROVE  \A t \in Slots : ScriptConsistent(t)'
<1>1. script' = [script EXCEPT ![s] = ops] /\ script[s] = <<>>
  BY CountStep
<1>2. script'[s] = ops /\ \A t \in Slots \ {s} : script'[t] = script[t]
  BY <1>1 DEF CounterTypes
<1>3. None \notin Slots
  BY MetricsAssumption DEF Slots
<1>4. ASSUME NEW t \in Slots \ {s} PROVE ScriptConsistent(t)'
  <2>1. lock = t => lock' = t
    BY <1>3
  <2>2. script'[t] = script[t]
    BY <1>2
  <2>3. QED BY <2>1, <2>2 DEF ScriptConsistent
<1>5. ScriptConsistent(s)'
  BY <1>2 DEF ScriptConsistent
<1>6. QED BY <1>4, <1>5

-----------------------------------------------------------------------------
(* What the counters tell *)

\* The slots are finite, and a sum over them is the one of the library's fold.
LEMMA SumFacts == IsFiniteSet(Slots) /\ \A f, S : SumOf(f, S) = Sum(f, S)
<1>1. IsFiniteSet(Slots)
  BY FS_Interval, MetricsAssumption DEF Slots
<1>2. ASSUME NEW f, NEW S PROVE SumOf(f, S) = Sum(f, S)
  BY DEF SumOf, Sum, MapThenSumSet, MapThenFoldSet
<1>3. QED BY <1>1, <1>2

\* When the term of one slot goes up by one, so does the sum.
LEMMA OneMore ==
  ASSUME NEW f \in [Slots -> Nat], NEW g \in [Slots -> Nat], NEW s \in Slots,
         NEW k \in Nat, g[s] = f[s] + k, \A t \in Slots \ {s} : g[t] = f[t]
  PROVE  /\ SumOf(f, Slots) \in Nat /\ SumOf(g, Slots) = SumOf(f, Slots) + k
<1>1. IsFiniteSet(Slots) /\ SumOf(f, Slots) = Sum(f, Slots) /\ SumOf(g, Slots) = Sum(g, Slots)
  BY SumFacts
<1>2. Sum(f, Slots) \in Nat /\ Sum(g, Slots) = Sum(f, Slots) - f[s] + g[s]
  BY <1>1, SumChange
<1>3. PICK n \in Nat : n = f[s]
  OBVIOUS
<1>4. PICK m \in Nat : m = Sum(f, Slots)
  BY <1>2
<1>5. QED BY <1>1, <1>2, <1>3, <1>4

\* No counter is as high as it can be: each was far from it, and the bound of the
\* updates is not as far.
Roomy == Base - 1 + MaxUpdates <= Largest

SumTypes ==
    /\ pending \in Nat /\ orphans \in Nat /\ held \subseteq alive
    /\ deferred \in [Slots -> Nat] /\ updates \in 0..MaxUpdates

\* A worker's own counter will be the number of its deferred requests; that of a
\* worker that is gone is left to its successor, which resets it.
WaitsConsistent ==
    \A s \in Slots : /\ deferred[s] <= updates
                     /\ s \in alive => Final(s, "waiting") = deferred[s]
                     /\ s \notin alive => deferred[s] = 0

\* All slots together, the counters will tell of the tasks: one that came is pending
\* or was begun, one that was begun is held, left behind or was finished.
TasksConsistent ==
    /\ \A s \in Slots : \A f \in Shared : Final(s, f) <= Base - 1 + updates
    /\ SumOf(Finals("enqueued"), Slots) = SumOf(Finals("started"), Slots) + pending
    /\ SumOf(Finals("started"), Slots)
              = SumOf(Finals("finished"), Slots) + Cardinality(held) + orphans

SumInv ==
    /\ SumTypes
    /\ \A s \in Slots : ScriptConsistent(s)
    /\ WaitsConsistent
    /\ ~broken => TasksConsistent

\* The counters will be as they were when those of the slots will.
LEMMA TasksKept ==
  ASSUME TasksConsistent, \A s \in Slots : \A f \in Shared : Final(s, f)' = Final(s, f),
         updates' = updates, pending' = pending,
         Cardinality(held') + orphans' = Cardinality(held) + orphans,
         Cardinality(held) \in Nat, Cardinality(held') \in Nat, orphans \in Nat, orphans' \in Nat,
         \A f \in Shared : SumOf(Finals(f), Slots) \in Nat
  PROVE  TasksConsistent'
<1>1. \A f \in Shared : Finals(f)' = Finals(f)
  BY DEF Finals
<1>2. "enqueued" \in Shared /\ "started" \in Shared /\ "finished" \in Shared
  BY DEF Shared
<1>3. \A f \in Shared : SumOf(Finals(f), Slots)' = SumOf(Finals(f), Slots)
  BY <1>1
<1>4. PICK a \in Nat, b \in Nat, c \in Nat :
         /\ a = SumOf(Finals("enqueued"), Slots) /\ b = SumOf(Finals("started"), Slots)
         /\ c = SumOf(Finals("finished"), Slots)
  BY <1>2
<1>5. /\ a = b + pending /\ b = c + Cardinality(held) + orphans
  BY <1>4 DEF TasksConsistent
<1>6. /\ SumOf(Finals("enqueued"), Slots)' = a /\ SumOf(Finals("started"), Slots)' = b
      /\ SumOf(Finals("finished"), Slots)' = c
  BY <1>2, <1>3, <1>4
<1>7. a = b + pending' /\ b = c + Cardinality(held') + orphans'
  BY <1>5
<1>8. \A s \in Slots : \A f \in Shared : (Final(s, f) <= Base - 1 + updates)'
  BY DEF TasksConsistent
<1>9. QED BY <1>6, <1>7, <1>8 DEF TasksConsistent

\* The sums are sums of numbers.
LEMMA FinalsFacts ==
  ASSUME CounterTypes, \A t \in Slots : ScriptConsistent(t), NEW f \in FieldSet
  PROVE  /\ Finals(f) \in [Slots -> Nat] /\ SumOf(Finals(f), Slots) \in Nat
         /\ \A s \in Slots : Finals(f)[s] = Final(s, f) /\ Final(s, f) \in 0..Largest
<1>1. \A s \in Slots : Final(s, f) \in 0..Largest
  BY FinalValue DEF ScriptConsistent
<1>2. Largest \in Nat
  BY SplitFacts
<1>3. \A s \in Slots : Final(s, f) \in Nat
  BY <1>1, <1>2
<1>4. Finals(f) \in [Slots -> Nat] /\ \A s \in Slots : Finals(f)[s] = Final(s, f)
  BY <1>3 DEF Finals
<1>5. 1 \in Slots
  BY MetricsAssumption DEF Slots
<1>6. PICK n \in Nat : n = Finals(f)[1]
  BY <1>4, <1>5
<1>7. Finals(f)[1] = Finals(f)[1] + 0
  BY <1>6
<1>8. SumOf(Finals(f), Slots) \in Nat
  BY <1>4, <1>5, <1>7, OneMore
<1>9. QED BY <1>1, <1>4, <1>8

\* What an event that is counted makes of the sums.
LEMMA CountSums ==
  ASSUME Roomy, CounterInv, SumTypes, \A t \in Slots : ScriptConsistent(t),
         TasksConsistent,
         NEW s \in Slots, NEW ops \in Scripts, Count(s, ops), lock' = lock \/ lock' = s,
         Distinct(ops), \A t \in Slots : ScriptConsistent(t)',
         \A i \in 1..Len(ops) : ops[i].field \in Shared => ops[i].how = "add",
         NEW f \in Shared
  PROVE  /\ SumOf(Finals(f), Slots) \in Nat
         /\ (\E i \in 1..Len(ops) : ops[i].field = f)
               => SumOf(Finals(f), Slots)' = SumOf(Finals(f), Slots) + 1
         /\ (\A i \in 1..Len(ops) : ops[i].field # f)
               => SumOf(Finals(f), Slots)' = SumOf(Finals(f), Slots)
         /\ \A t \in Slots : (Final(t, f) <= Base - 1 + updates)'
<1>1. CounterTypes /\ (\A t \in Slots : WriterConsistent(t)) /\ CounterTypes'
  <2>1. CounterTypes /\ (\A t \in Slots : WriterConsistent(t))
    BY DEF CounterInv
  <2>2. QED BY <2>1, CountStep
<1>2. f \in FieldSet
  BY FieldFacts DEF Shared
<1>3. /\ Finals(f) \in [Slots -> Nat] /\ SumOf(Finals(f), Slots) \in Nat
      /\ \A t \in Slots : Finals(f)[t] = Final(t, f) /\ Final(t, f) \in 0..Largest
  BY <1>1, <1>2, FinalsFacts
<1>4. /\ Finals(f)' \in [Slots -> Nat]
      /\ \A t \in Slots : Finals(f)'[t] = Final(t, f)' /\ Final(t, f)' \in 0..Largest
  <2>1. ASSUME NEW t \in Slots PROVE Final(t, f)' \in 0..Largest
    <3>1. /\ mem'[t] \in [FieldSet -> Pairs] /\ script'[t] \in Seq(Ops)
          /\ next'[t] \in {None} \cup [words : Pairs, todo : SUBSET {1, 2}]
      BY <1>1 DEF CounterTypes
    <3>2. Distinct(script'[t])
      BY DEF ScriptConsistent
    <3>3. mem'[t][f] \in Pairs
      BY <1>2, <3>1
    <3>4. Coming(script'[t], next'[t], mem'[t][f], f) \in 0..Largest
      BY <1>2, <3>1, <3>2, <3>3, ComingValue
    <3>5. QED BY <3>4 DEF Final
  <2>2. Largest \in Nat
    BY SplitFacts
  <2>3. \A t \in Slots : Final(t, f)' \in Nat
    BY <2>1, <2>2
  <2>4. QED BY <2>1, <2>3 DEF Finals
<1>5. /\ Base \in Nat /\ Base > 1 /\ MaxUpdates \in Nat /\ Largest \in Nat
      /\ updates \in Nat /\ updates < MaxUpdates /\ updates' = updates + 1
      /\ Base - 1 + MaxUpdates <= Largest
  BY SplitFacts, MetricsAssumption DEF SumTypes, Count, Roomy
<1>6. \A t \in Slots : Final(t, f) <= Base - 1 + updates
  BY DEF TasksConsistent
<1>7. /\ \A t \in Slots \ {s} : Final(t, f)' = Final(t, f)
      /\ \A i \in 1..Len(ops) : Final(s, ops[i].field)' = Updated(ops[i], Final(s, ops[i].field))
      /\ (\A i \in 1..Len(ops) : ops[i].field # f) => Final(s, f)' = Final(s, f)
  BY <1>1, <1>2, CountFinal
<1>8. ASSUME NEW i \in 1..Len(ops), ops[i].field = f PROVE Final(s, f)' = Final(s, f) + 1
  <2>1. ops[i] \in Ops /\ ops[i].how = "add"
    BY <1>8 DEF Scripts
  <2>2. PICK v \in 0..Largest : v = Final(s, f)
    BY <1>3
  <2>3. v # Largest
    BY <1>5, <1>6, <2>2
  <2>4. Updated(ops[i], v) = v + 1
    BY <2>1, <2>3, UpdatedFacts
  <2>5. QED BY <1>7, <1>8, <2>2, <2>4
<1>9. ASSUME NEW t \in Slots PROVE (Final(t, f) <= Base - 1 + updates)'
  <2>1. Final(t, f)' = Final(t, f) \/ Final(t, f)' = Final(t, f) + 1
    BY <1>7, <1>8
  <2>2. PICK v \in Nat : v = Final(t, f) /\ v <= Base - 1 + updates
    BY <1>3, <1>5, <1>6
  <2>3. PICK w : w = Final(t, f)'
    OBVIOUS
  <2>4. w <= Base - 1 + updates'
    BY <1>5, <2>1, <2>2, <2>3
  <2>5. QED BY <2>3, <2>4
<1>10. PICK F \in [Slots -> Nat] : F = Finals(f)
  BY <1>3
<1>11. PICK G \in [Slots -> Nat] : G = Finals(f)'
  BY <1>4
<1>12. F[s] \in Nat /\ \A t \in Slots : F[t] = Final(t, f) /\ G[t] = Final(t, f)'
  BY <1>3, <1>4, <1>10, <1>11
<1>13. SumOf(Finals(f), Slots)' = SumOf(G, Slots)
  BY <1>11
<1>14. CASE \E i \in 1..Len(ops) : ops[i].field = f
  <2>1. G[s] = F[s] + 1 /\ (\A t \in Slots \ {s} : G[t] = F[t]) /\ 1 \in Nat
    <3>1. G[s] = F[s] + 1
      BY <1>8, <1>12, <1>14
    <3>2. \A t \in Slots \ {s} : G[t] = F[t]
      BY <1>7, <1>12
    <3>3. QED BY <3>1, <3>2
  <2>2. SumOf(G, Slots) = SumOf(F, Slots) + 1
    BY <2>1, OneMore
  <2>3. QED BY <1>3, <1>9, <1>10, <1>13, <1>14, <2>2
<1>15. CASE \A i \in 1..Len(ops) : ops[i].field # f
  <2>1. \A t \in Slots : G[t] = F[t]
    BY <1>7, <1>12, <1>15
  <2>2. G = F
    BY <2>1
  <2>3. QED BY <1>3, <1>9, <1>10, <1>13, <1>15, <2>2
<1>16. QED BY <1>14, <1>15

\* One update, and two of different counters, and what they count.
LEMMA OpsFacts ==
  /\ \A f, how : LET ops == <<Op(f, how)>>
                 IN  /\ Distinct(ops) /\ Len(ops) = 1 /\ 1 \in 1..Len(ops)
                     /\ ops[1].field = f /\ ops[1].how = how
                     /\ \A i \in 1..Len(ops) : ops[i].field = f /\ ops[i].how = how
  /\ \A f, g : f # g =>
        LET ops == <<Op(f, "add"), Op(g, "add")>>
        IN  /\ Distinct(ops) /\ 1 \in 1..Len(ops) /\ 2 \in 1..Len(ops)
            /\ ops[1].field = f /\ ops[2].field = g
            /\ \A i \in 1..Len(ops) : ops[i].field \in {f, g} /\ ops[i].how = "add"
<1>1. \A f, how : Op(f, how).field = f /\ Op(f, how).how = how
  BY DEF Op
<1>2. ASSUME NEW x, NEW ops, ops = <<x>>
      PROVE  /\ Distinct(ops) /\ Len(ops) = 1 /\ 1 \in 1..Len(ops) /\ ops[1] = x
             /\ \A i \in 1..Len(ops) : ops[i] = x
  BY <1>2 DEF Distinct
<1>3. ASSUME NEW x, NEW y, NEW ops, ops = <<x, y>>, x.field # y.field
      PROVE  /\ Distinct(ops) /\ 1 \in 1..Len(ops) /\ 2 \in 1..Len(ops)
             /\ ops[1] = x /\ ops[2] = y
             /\ \A i \in 1..Len(ops) : ops[i] \in {x, y}
  <2>1. Len(ops) = 2 /\ ops[1] = x /\ ops[2] = y
    BY <1>3
  <2>2. \A i \in 1..2 : i = 1 \/ i = 2
    OBVIOUS
  <2>3. 1 \in 1..2 /\ 2 \in 1..2
    OBVIOUS
  <2>4. Distinct(ops)
    BY <1>3, <2>1, <2>2 DEF Distinct
  <2>5. \A i \in 1..Len(ops) : ops[i] \in {x, y}
    BY <2>1, <2>2
  <2>6. QED BY <2>1, <2>3, <2>4, <2>5
<1>4. ASSUME NEW f, NEW how
      PROVE  LET ops == <<Op(f, how)>>
             IN  /\ Distinct(ops) /\ Len(ops) = 1 /\ 1 \in 1..Len(ops)
                 /\ ops[1].field = f /\ ops[1].how = how
                 /\ \A i \in 1..Len(ops) : ops[i].field = f /\ ops[i].how = how
  <2>1. PICK ops : ops = <<Op(f, how)>>
    OBVIOUS
  <2>2. /\ Distinct(ops) /\ Len(ops) = 1 /\ 1 \in 1..Len(ops) /\ ops[1] = Op(f, how)
        /\ \A i \in 1..Len(ops) : ops[i] = Op(f, how)
    BY <1>2, <2>1
  <2>3. QED BY <1>1, <2>1, <2>2
<1>5. ASSUME NEW f, NEW g, f # g
      PROVE  LET ops == <<Op(f, "add"), Op(g, "add")>>
             IN  /\ Distinct(ops) /\ 1 \in 1..Len(ops) /\ 2 \in 1..Len(ops)
                 /\ ops[1].field = f /\ ops[2].field = g
                 /\ \A i \in 1..Len(ops) : ops[i].field \in {f, g} /\ ops[i].how = "add"
  <2>1. PICK x, y : x = Op(f, "add") /\ y = Op(g, "add")
    OBVIOUS
  <2>2. x.field = f /\ y.field = g /\ x.how = "add" /\ y.how = "add"
    BY <1>1, <2>1
  <2>3. PICK ops : ops = <<x, y>>
    OBVIOUS
  <2>4. /\ Distinct(ops) /\ 1 \in 1..Len(ops) /\ 2 \in 1..Len(ops)
        /\ ops[1] = x /\ ops[2] = y
        /\ \A i \in 1..Len(ops) : ops[i] \in {x, y}
    BY <1>3, <1>5, <2>2, <2>3
  <2>5. \A i \in 1..Len(ops) : ops[i].field \in {f, g} /\ ops[i].how = "add"
    BY <2>2, <2>4
  <2>6. QED BY <2>1, <2>2, <2>3, <2>4, <2>5
<1>6. QED BY <1>4, <1>5

\* An event that counts no waiting request leaves the rest as it should be, and its
\* counters one higher.
LEMMA TaskEvent ==
  ASSUME Roomy, CounterInv, SumInv,
         NEW s \in Slots, NEW ops \in Scripts, Count(s, ops), Distinct(ops),
         \/ lock' = lock /\ \A i \in 1..Len(ops) : ops[i].field \notin Shared
         \/ lock = None /\ lock' = s,
         \A i \in 1..Len(ops) : ops[i].field # "waiting" /\ ops[i].how = "add",
         deferred' = deferred
  PROVE  /\ (\A t \in Slots : ScriptConsistent(t))' /\ WaitsConsistent'
         /\ alive' = alive /\ s \in alive /\ broken' = broken /\ updates' \in 0..MaxUpdates
         /\ ~broken =>
              /\ \A t \in Slots : \A f \in Shared : (Final(t, f) <= Base - 1 + updates)'
              /\ \A f \in Shared :
                    /\ SumOf(Finals(f), Slots) \in Nat
                    /\ (\E i \in 1..Len(ops) : ops[i].field = f)
                          => SumOf(Finals(f), Slots)' = SumOf(Finals(f), Slots) + 1
                    /\ (\A i \in 1..Len(ops) : ops[i].field # f)
                          => SumOf(Finals(f), Slots)' = SumOf(Finals(f), Slots)
<1>1. CounterTypes /\ \A t \in Slots : WriterConsistent(t)
  BY DEF CounterInv
<1>2. SumTypes /\ (\A t \in Slots : ScriptConsistent(t)) /\ WaitsConsistent
  BY DEF SumInv
<1>3. \A t \in Slots : ScriptConsistent(t)'
  BY <1>1, <1>2, CountScripts
<1>4. alive' = alive /\ s \in alive /\ broken' = broken /\ updates' = updates + 1 /\ updates < MaxUpdates
  BY DEF Count, Idle
<1>5. updates \in Nat /\ MaxUpdates \in Nat /\ deferred \in [Slots -> Nat]
  BY <1>2, MetricsAssumption DEF SumTypes
<1>6. ASSUME NEW t \in Slots PROVE Final(t, "waiting")' = Final(t, "waiting")
  <2>1. "waiting" \in FieldSet
    BY FieldFacts
  <2>2. QED BY <1>1, <2>1, CountFinal
<1>7. WaitsConsistent'
  <2>1. ASSUME NEW t \in Slots PROVE deferred'[t] <= updates'
    <3>1. deferred[t] \in Nat /\ deferred[t] <= updates
      BY <1>2, <1>5 DEF WaitsConsistent
    <3>2. QED BY <1>4, <1>5, <3>1
  <2>2. QED BY <1>2, <1>4, <1>6, <2>1 DEF WaitsConsistent
<1>8. ASSUME ~broken, NEW f \in Shared
      PROVE  /\ \A t \in Slots : (Final(t, f) <= Base - 1 + updates)'
             /\ SumOf(Finals(f), Slots) \in Nat
             /\ (\E i \in 1..Len(ops) : ops[i].field = f)
                   => SumOf(Finals(f), Slots)' = SumOf(Finals(f), Slots) + 1
             /\ (\A i \in 1..Len(ops) : ops[i].field # f)
                   => SumOf(Finals(f), Slots)' = SumOf(Finals(f), Slots)
  <2>1. TasksConsistent
    BY <1>8 DEF SumInv
  <2>2. QED BY <1>2, <1>3, <2>1, CountSums
<1>9. QED BY <1>3, <1>4, <1>5, <1>7, <1>8

\* The sums as numbers, before and after a step.
LEMMA TasksCounted ==
  ASSUME ~broken => TasksConsistent,
         \A f \in Shared : ~broken => SumOf(Finals(f), Slots) \in Nat,
         pending \in Nat, orphans \in Nat, Cardinality(held) \in Nat,
         pending' \in Nat, orphans' \in Nat, Cardinality(held') \in Nat,
         broken' = broken,
         NEW e \in Nat, NEW b \in Nat, NEW d \in Nat,
         ~broken => /\ \A t \in Slots : \A f \in Shared : (Final(t, f) <= Base - 1 + updates)'
                    /\ SumOf(Finals("enqueued"), Slots)' = SumOf(Finals("enqueued"), Slots) + e
                    /\ SumOf(Finals("started"), Slots)' = SumOf(Finals("started"), Slots) + b
                    /\ SumOf(Finals("finished"), Slots)' = SumOf(Finals("finished"), Slots) + d,
         pending' = pending + e - b,
         Cardinality(held') + orphans' = Cardinality(held) + orphans + b - d
  PROVE  (~broken => TasksConsistent)'
<1> SUFFICES ASSUME ~broken PROVE TasksConsistent'
  OBVIOUS
<1>1. "enqueued" \in Shared /\ "started" \in Shared /\ "finished" \in Shared
  BY DEF Shared
<1>2. PICK x \in Nat, y \in Nat, z \in Nat :
         /\ x = SumOf(Finals("enqueued"), Slots) /\ y = SumOf(Finals("started"), Slots)
         /\ z = SumOf(Finals("finished"), Slots)
  BY <1>1
<1>3. x = y + pending /\ y = z + Cardinality(held) + orphans
  BY <1>2 DEF TasksConsistent
<1>4. /\ SumOf(Finals("enqueued"), Slots)' = x + e /\ SumOf(Finals("started"), Slots)' = y + b
      /\ SumOf(Finals("finished"), Slots)' = z + d
  BY <1>2
<1>5. x + e = y + b + pending' /\ y + b = z + d + Cardinality(held') + orphans'
  <2>1. PICK h \in Nat, k \in Nat : h = Cardinality(held) /\ k = Cardinality(held')
    OBVIOUS
  <2>2. QED BY <1>3, <2>1
<1>6. QED BY <1>4, <1>5 DEF TasksConsistent

\* The tasks that workers hold are as many as there are numbers to count them.
LEMMA HeldFacts ==
  ASSUME CounterTypes, SumTypes
  PROVE  /\ IsFiniteSet(held) /\ Cardinality(held) \in Nat
         /\ \A s : s \in held => /\ Cardinality(held \ {s}) = Cardinality(held) - 1
                                 /\ Cardinality(held \ {s}) \in Nat
         /\ \A s : s \notin held => /\ Cardinality(held \cup {s}) = Cardinality(held) + 1
                                    /\ Cardinality(held \cup {s}) \in Nat
<1>1. IsFiniteSet(Slots)
  BY SumFacts
<1>2. held \subseteq Slots
  BY DEF CounterTypes, SumTypes
<1>3. IsFiniteSet(held)
  BY <1>1, <1>2, FS_Subset
<1>4. Cardinality(held) \in Nat
  BY <1>3, FS_CardinalityType
<1>5. ASSUME NEW s, s \in held
      PROVE  Cardinality(held \ {s}) = Cardinality(held) - 1 /\ Cardinality(held \ {s}) \in Nat
  BY <1>3, <1>5, FS_RemoveElement, FS_CardinalityType
<1>6. ASSUME NEW s, s \notin held
      PROVE  Cardinality(held \cup {s}) = Cardinality(held) + 1 /\ Cardinality(held \cup {s}) \in Nat
  BY <1>3, <1>4, <1>6, FS_AddElement
<1>7. QED BY <1>3, <1>4, <1>5, <1>6

\* Each event tells the counters what it does to the tasks.
LEMMA CountingKeepsSums ==
  ASSUME Roomy, CounterInv, SumInv, NEW s \in Slots, Counting(s)
  PROVE  SumInv'
<1>1. SumTypes /\ (~broken => TasksConsistent) /\ (\A t \in Slots : ScriptConsistent(t))
      /\ CounterTypes /\ (\A t \in Slots : WriterConsistent(t)) /\ WaitsConsistent
  BY DEF SumInv, CounterInv
<1>2. /\ pending \in Nat /\ orphans \in Nat /\ held \subseteq alive
      /\ deferred \in [Slots -> Nat] /\ updates \in 0..MaxUpdates /\ MaxUpdates \in Nat
  BY <1>1, MetricsAssumption DEF SumTypes
<1>3. Cardinality(held) \in Nat
  BY <1>1, HeldFacts
<1>4. /\ "enqueued" \in Shared /\ "started" \in Shared /\ "finished" \in Shared
      /\ "waiting" \notin Shared /\ "deduplicated" \notin Shared
  BY DEF Shared
<1>5. /\ "enqueued" \in FieldSet /\ "started" \in FieldSet /\ "finished" \in FieldSet
      /\ "deduplicated" \in FieldSet /\ "waiting" \in FieldSet
  BY FieldFacts
<1>6. \A f \in Shared : SumOf(Finals(f), Slots) \in Nat
  <2>1. \A f \in Shared : f \in FieldSet
    BY <1>5 DEF Shared
  <2>2. QED BY <1>1, <2>1, FinalsFacts
<1>7. CASE Admit(s)
  <2>1. PICK ops : ops = <<Op("enqueued", "add")>>
    OBVIOUS
  <2>2. /\ Count(s, ops) /\ lock = None /\ lock' = s /\ pending' = pending + 1
        /\ held' = held /\ orphans' = orphans /\ deferred' = deferred
    BY <1>7, <2>1 DEF Admit, InLock
  <2>3. ops \in Scripts
    BY <1>5, <2>1, ScriptFacts
  <2>4. /\ Distinct(ops) /\ 1 \in 1..Len(ops) /\ ops[1].field = "enqueued"
        /\ \A i \in 1..Len(ops) : ops[i].field = "enqueued" /\ ops[i].how = "add"
    BY <2>1, OpsFacts
  <2>5. /\ (\A t \in Slots : ScriptConsistent(t))' /\ WaitsConsistent'
        /\ alive' = alive /\ s \in alive /\ broken' = broken /\ updates' \in 0..MaxUpdates
        /\ ~broken =>
             /\ \A t \in Slots : \A f \in Shared : (Final(t, f) <= Base - 1 + updates)'
             /\ SumOf(Finals("enqueued"), Slots)' = SumOf(Finals("enqueued"), Slots) + 1
             /\ SumOf(Finals("started"), Slots)' = SumOf(Finals("started"), Slots)
             /\ SumOf(Finals("finished"), Slots)' = SumOf(Finals("finished"), Slots)
    <3>1. /\ (\A t \in Slots : ScriptConsistent(t))' /\ WaitsConsistent'
          /\ alive' = alive /\ s \in alive /\ broken' = broken /\ updates' \in 0..MaxUpdates
          /\ ~broken =>
               /\ \A t \in Slots : \A f \in Shared : (Final(t, f) <= Base - 1 + updates)'
               /\ \A f \in Shared :
                     /\ (\E i \in 1..Len(ops) : ops[i].field = f)
                           => SumOf(Finals(f), Slots)' = SumOf(Finals(f), Slots) + 1
                     /\ (\A i \in 1..Len(ops) : ops[i].field # f)
                           => SumOf(Finals(f), Slots)' = SumOf(Finals(f), Slots)
      BY <2>2, <2>3, <2>4, TaskEvent
    <3>2. /\ \E i \in 1..Len(ops) : ops[i].field = "enqueued"
          /\ \A i \in 1..Len(ops) : ops[i].field # "started" /\ ops[i].field # "finished"
      BY <2>4
    <3>3. QED BY <1>4, <3>1, <3>2, SMTT(30)
  <2>6. ~broken => /\ SumOf(Finals("started"), Slots)' = SumOf(Finals("started"), Slots) + 0
                   /\ SumOf(Finals("finished"), Slots)' = SumOf(Finals("finished"), Slots) + 0
    BY <1>4, <1>6, <2>5
  <2>7. pending' \in Nat /\ pending' = pending + 1 - 0
        /\ Cardinality(held') + orphans' = Cardinality(held) + orphans + 0 - 0
    BY <1>2, <1>3, <2>2
  <2>8. (~broken => TasksConsistent)'
    BY <1>1, <1>2, <1>3, <1>6, <2>2, <2>5, <2>6, <2>7, TasksCounted
  <2>9. QED BY <1>2, <2>2, <2>5, <2>7, <2>8 DEF SumInv, SumTypes
<1>8. CASE Deduplicate(s)
  <2>1. PICK ops : ops = <<Op("deduplicated", "add")>>
    OBVIOUS
  <2>2. /\ Count(s, ops) /\ lock' = lock /\ pending' = pending
        /\ held' = held /\ orphans' = orphans /\ deferred' = deferred
    BY <1>8, <2>1 DEF Deduplicate, NoLock, queue
  <2>3. ops \in Scripts
    BY <1>5, <2>1, ScriptFacts
  <2>4. /\ Distinct(ops)
        /\ \A i \in 1..Len(ops) : ops[i].field = "deduplicated" /\ ops[i].how = "add"
    BY <2>1, OpsFacts
  <2>5. /\ (\A t \in Slots : ScriptConsistent(t))' /\ WaitsConsistent'
        /\ alive' = alive /\ s \in alive /\ broken' = broken /\ updates' \in 0..MaxUpdates
        /\ ~broken =>
             /\ \A t \in Slots : \A f \in Shared : (Final(t, f) <= Base - 1 + updates)'
             /\ SumOf(Finals("enqueued"), Slots)' = SumOf(Finals("enqueued"), Slots)
             /\ SumOf(Finals("started"), Slots)' = SumOf(Finals("started"), Slots)
             /\ SumOf(Finals("finished"), Slots)' = SumOf(Finals("finished"), Slots)
    BY <1>4, <2>2, <2>3, <2>4, TaskEvent
  <2>6. ~broken => /\ SumOf(Finals("enqueued"), Slots)' = SumOf(Finals("enqueued"), Slots) + 0
                   /\ SumOf(Finals("started"), Slots)' = SumOf(Finals("started"), Slots) + 0
                   /\ SumOf(Finals("finished"), Slots)' = SumOf(Finals("finished"), Slots) + 0
    BY <1>4, <1>6, <2>5
  <2>7. pending' \in Nat /\ pending' = pending + 0 - 0
        /\ Cardinality(held') + orphans' = Cardinality(held) + orphans + 0 - 0
    BY <1>2, <1>3, <2>2
  <2>8. (~broken => TasksConsistent)'
    BY <1>1, <1>2, <1>3, <1>6, <2>2, <2>5, <2>6, <2>7, TasksCounted
  <2>9. QED BY <1>2, <2>2, <2>5, <2>7, <2>8 DEF SumInv, SumTypes
<1>9. CASE StartPass(s)
  <2>1. PICK ops : ops = <<Op("started", "add")>>
    OBVIOUS
  <2>2. /\ Count(s, ops) /\ lock = None /\ lock' = s /\ pending' = pending - 1 /\ pending > 0
        /\ s \notin held /\ held' = held \cup {s} /\ orphans' = orphans /\ deferred' = deferred
    BY <1>9, <2>1 DEF StartPass, InLock
  <2>3. ops \in Scripts
    BY <1>5, <2>1, ScriptFacts
  <2>4. /\ Distinct(ops) /\ 1 \in 1..Len(ops) /\ ops[1].field = "started"
        /\ \A i \in 1..Len(ops) : ops[i].field = "started" /\ ops[i].how = "add"
    BY <2>1, OpsFacts
  <2>5. /\ (\A t \in Slots : ScriptConsistent(t))' /\ WaitsConsistent'
        /\ alive' = alive /\ s \in alive /\ broken' = broken /\ updates' \in 0..MaxUpdates
        /\ ~broken =>
             /\ \A t \in Slots : \A f \in Shared : (Final(t, f) <= Base - 1 + updates)'
             /\ SumOf(Finals("enqueued"), Slots)' = SumOf(Finals("enqueued"), Slots)
             /\ SumOf(Finals("started"), Slots)' = SumOf(Finals("started"), Slots) + 1
             /\ SumOf(Finals("finished"), Slots)' = SumOf(Finals("finished"), Slots)
    BY <1>4, <2>2, <2>3, <2>4, TaskEvent
  <2>6. ~broken => /\ SumOf(Finals("enqueued"), Slots)' = SumOf(Finals("enqueued"), Slots) + 0
                   /\ SumOf(Finals("finished"), Slots)' = SumOf(Finals("finished"), Slots) + 0
    BY <1>4, <1>6, <2>5
  <2>7. /\ pending' \in Nat /\ pending' = pending + 0 - 1
        /\ Cardinality(held') \in Nat
        /\ Cardinality(held') + orphans' = Cardinality(held) + orphans + 1 - 0
    <3>1. Cardinality(held') = Cardinality(held) + 1
      BY <1>1, <2>2, HeldFacts
    <3>2. QED BY <1>2, <1>3, <2>2, <3>1
  <2>8. (~broken => TasksConsistent)'
    BY <1>1, <1>2, <1>3, <1>6, <2>2, <2>5, <2>6, <2>7, TasksCounted
  <2>9. QED BY <1>2, <2>2, <2>5, <2>7, <2>8 DEF SumInv, SumTypes
<1>10. CASE FinishPass(s) /\ Count(s, <<Op("finished", "add")>>) /\ pending' = pending
  <2>1. PICK ops : ops = <<Op("finished", "add")>>
    OBVIOUS
  <2>2. /\ Count(s, ops) /\ lock = None /\ lock' = s /\ pending' = pending
        /\ s \in held /\ held' = held \ {s} /\ orphans' = orphans /\ deferred' = deferred
    BY <1>10, <2>1 DEF FinishPass, InLock
  <2>3. ops \in Scripts
    BY <1>5, <2>1, ScriptFacts
  <2>4. /\ Distinct(ops) /\ 1 \in 1..Len(ops) /\ ops[1].field = "finished"
        /\ \A i \in 1..Len(ops) : ops[i].field = "finished" /\ ops[i].how = "add"
    BY <2>1, OpsFacts
  <2>5. /\ (\A t \in Slots : ScriptConsistent(t))' /\ WaitsConsistent'
        /\ alive' = alive /\ s \in alive /\ broken' = broken /\ updates' \in 0..MaxUpdates
        /\ ~broken =>
             /\ \A t \in Slots : \A f \in Shared : (Final(t, f) <= Base - 1 + updates)'
             /\ SumOf(Finals("enqueued"), Slots)' = SumOf(Finals("enqueued"), Slots)
             /\ SumOf(Finals("started"), Slots)' = SumOf(Finals("started"), Slots)
             /\ SumOf(Finals("finished"), Slots)' = SumOf(Finals("finished"), Slots) + 1
    BY <1>4, <2>2, <2>3, <2>4, TaskEvent
  <2>6. ~broken => /\ SumOf(Finals("enqueued"), Slots)' = SumOf(Finals("enqueued"), Slots) + 0
                   /\ SumOf(Finals("started"), Slots)' = SumOf(Finals("started"), Slots) + 0
    BY <1>4, <1>6, <2>5
  <2>7. /\ pending' \in Nat /\ pending' = pending + 0 - 0
        /\ Cardinality(held') \in Nat
        /\ Cardinality(held') + orphans' = Cardinality(held) + orphans + 0 - 1
    <3>1. Cardinality(held') = Cardinality(held) - 1 /\ Cardinality(held') \in Nat
      BY <1>1, <2>2, HeldFacts
    <3>2. QED BY <1>2, <1>3, <2>2, <3>1
  <2>8. (~broken => TasksConsistent)'
    BY <1>1, <1>2, <1>3, <1>6, <2>2, <2>5, <2>6, <2>7, TasksCounted
  <2>9. QED BY <1>2, <2>2, <2>5, <2>7, <2>8 DEF SumInv, SumTypes
<1>11. CASE /\ FinishPass(s) /\ Count(s, <<Op("finished", "add"), Op("enqueued", "add")>>)
            /\ pending' = pending + 1
  <2>1. PICK ops : ops = <<Op("finished", "add"), Op("enqueued", "add")>>
    OBVIOUS
  <2>2. /\ Count(s, ops) /\ lock = None /\ lock' = s /\ pending' = pending + 1
        /\ s \in held /\ held' = held \ {s} /\ orphans' = orphans /\ deferred' = deferred
    BY <1>11, <2>1 DEF FinishPass, InLock
  <2>3. ops \in Scripts
    BY <1>5, <2>1, ScriptFacts
  <2>4. /\ Distinct(ops) /\ 1 \in 1..Len(ops) /\ 2 \in 1..Len(ops)
        /\ ops[1].field = "finished" /\ ops[2].field = "enqueued"
        /\ \A i \in 1..Len(ops) : ops[i].field \in {"finished", "enqueued"} /\ ops[i].how = "add"
    BY <2>1, OpsFacts
  <2>5. /\ (\A t \in Slots : ScriptConsistent(t))' /\ WaitsConsistent'
        /\ alive' = alive /\ s \in alive /\ broken' = broken /\ updates' \in 0..MaxUpdates
        /\ ~broken =>
             /\ \A t \in Slots : \A f \in Shared : (Final(t, f) <= Base - 1 + updates)'
             /\ SumOf(Finals("enqueued"), Slots)' = SumOf(Finals("enqueued"), Slots) + 1
             /\ SumOf(Finals("started"), Slots)' = SumOf(Finals("started"), Slots)
             /\ SumOf(Finals("finished"), Slots)' = SumOf(Finals("finished"), Slots) + 1
    <3>1. \A i \in 1..Len(ops) : ops[i].field # "waiting" /\ ops[i].how = "add"
      BY <2>4
    <3>2. /\ (\A t \in Slots : ScriptConsistent(t))' /\ WaitsConsistent'
          /\ alive' = alive /\ s \in alive /\ broken' = broken /\ updates' \in 0..MaxUpdates
          /\ ~broken =>
               /\ \A t \in Slots : \A f \in Shared : (Final(t, f) <= Base - 1 + updates)'
               /\ \A f \in Shared :
                     /\ (\E i \in 1..Len(ops) : ops[i].field = f)
                           => SumOf(Finals(f), Slots)' = SumOf(Finals(f), Slots) + 1
                     /\ (\A i \in 1..Len(ops) : ops[i].field # f)
                           => SumOf(Finals(f), Slots)' = SumOf(Finals(f), Slots)
      BY <2>2, <2>3, <2>4, <3>1, TaskEvent
    <3>3. /\ \E i \in 1..Len(ops) : ops[i].field = "enqueued"
          /\ \E i \in 1..Len(ops) : ops[i].field = "finished"
          /\ \A i \in 1..Len(ops) : ops[i].field # "started"
      BY <2>4
    <3>4. QED BY <1>4, <3>2, <3>3
  <2>6. ~broken => SumOf(Finals("started"), Slots)' = SumOf(Finals("started"), Slots) + 0
    BY <1>4, <1>6, <2>5
  <2>7. /\ pending' \in Nat /\ pending' = pending + 1 - 0
        /\ Cardinality(held') \in Nat
        /\ Cardinality(held') + orphans' = Cardinality(held) + orphans + 0 - 1
    <3>1. Cardinality(held') = Cardinality(held) - 1 /\ Cardinality(held') \in Nat
      BY <1>1, <2>2, HeldFacts
    <3>2. QED BY <1>2, <1>3, <2>2, <3>1
  <2>8. (~broken => TasksConsistent)'
    BY <1>1, <1>2, <1>3, <1>6, <2>2, <2>5, <2>6, <2>7, TasksCounted
  <2>9. QED BY <1>2, <2>2, <2>5, <2>7, <2>8 DEF SumInv, SumTypes
<1>12. CASE RecoverPass(s)
  <2>1. PICK ops : ops = <<Op("finished", "add"), Op("enqueued", "add")>>
    OBVIOUS
  <2>2. /\ Count(s, ops) /\ lock = None /\ lock' = s /\ pending' = pending + 1
        /\ held' = held /\ orphans > 0 /\ orphans' = orphans - 1 /\ deferred' = deferred
    BY <1>12, <2>1 DEF RecoverPass, Recovered, InLock
  <2>3. ops \in Scripts
    BY <1>5, <2>1, ScriptFacts
  <2>4. /\ Distinct(ops) /\ 1 \in 1..Len(ops) /\ 2 \in 1..Len(ops)
        /\ ops[1].field = "finished" /\ ops[2].field = "enqueued"
        /\ \A i \in 1..Len(ops) : ops[i].field \in {"finished", "enqueued"} /\ ops[i].how = "add"
    BY <2>1, OpsFacts
  <2>5. /\ (\A t \in Slots : ScriptConsistent(t))' /\ WaitsConsistent'
        /\ alive' = alive /\ s \in alive /\ broken' = broken /\ updates' \in 0..MaxUpdates
        /\ ~broken =>
             /\ \A t \in Slots : \A f \in Shared : (Final(t, f) <= Base - 1 + updates)'
             /\ SumOf(Finals("enqueued"), Slots)' = SumOf(Finals("enqueued"), Slots) + 1
             /\ SumOf(Finals("started"), Slots)' = SumOf(Finals("started"), Slots)
             /\ SumOf(Finals("finished"), Slots)' = SumOf(Finals("finished"), Slots) + 1
    <3>1. \A i \in 1..Len(ops) : ops[i].field # "waiting" /\ ops[i].how = "add"
      BY <2>4
    <3>2. /\ (\A t \in Slots : ScriptConsistent(t))' /\ WaitsConsistent'
          /\ alive' = alive /\ s \in alive /\ broken' = broken /\ updates' \in 0..MaxUpdates
          /\ ~broken =>
               /\ \A t \in Slots : \A f \in Shared : (Final(t, f) <= Base - 1 + updates)'
               /\ \A f \in Shared :
                     /\ (\E i \in 1..Len(ops) : ops[i].field = f)
                           => SumOf(Finals(f), Slots)' = SumOf(Finals(f), Slots) + 1
                     /\ (\A i \in 1..Len(ops) : ops[i].field # f)
                           => SumOf(Finals(f), Slots)' = SumOf(Finals(f), Slots)
      BY <2>2, <2>3, <2>4, <3>1, TaskEvent
    <3>3. /\ \E i \in 1..Len(ops) : ops[i].field = "enqueued"
          /\ \E i \in 1..Len(ops) : ops[i].field = "finished"
          /\ \A i \in 1..Len(ops) : ops[i].field # "started"
      BY <2>4
    <3>4. QED BY <1>4, <3>2, <3>3
  <2>6. ~broken => SumOf(Finals("started"), Slots)' = SumOf(Finals("started"), Slots) + 0
    BY <1>4, <1>6, <2>5
  <2>7. /\ pending' \in Nat /\ pending' = pending + 1 - 0 /\ orphans' \in Nat
        /\ Cardinality(held') + orphans' = Cardinality(held) + orphans + 0 - 1
    BY <1>2, <1>3, <2>2
  <2>8. (~broken => TasksConsistent)'
    BY <1>1, <1>2, <1>3, <1>6, <2>2, <2>5, <2>6, <2>7, TasksCounted
  <2>9. QED BY <1>2, <2>2, <2>5, <2>7, <2>8 DEF SumInv, SumTypes
<1>13. CASE Defer(s) \/ Undefer(s)
  <2>0. PICK how \in {"add", "take"} :
           /\ Count(s, <<Op("waiting", how)>>)
           /\ how = "add" => deferred' = [deferred EXCEPT ![s] = deferred[s] + 1]
           /\ how = "take" => deferred' = [deferred EXCEPT ![s] = deferred[s] - 1] /\ deferred[s] > 0
    BY <1>13 DEF Defer, Undefer
  <2>1. PICK ops :
           /\ ops = <<Op("waiting", how)>> /\ Count(s, ops)
           /\ how = "add" => deferred' = [deferred EXCEPT ![s] = deferred[s] + 1]
           /\ how = "take" => deferred' = [deferred EXCEPT ![s] = deferred[s] - 1] /\ deferred[s] > 0
    BY <2>0
  <2>2. lock' = lock /\ pending' = pending /\ held' = held /\ orphans' = orphans
    BY <1>13 DEF Defer, Undefer, NoLock
  <2>3. ops \in Scripts
    BY <1>5, <2>1, ScriptFacts
  <2>4. /\ Distinct(ops) /\ 1 \in 1..Len(ops) /\ ops[1].field = "waiting" /\ ops[1].how = how
        /\ \A i \in 1..Len(ops) : ops[i].field = "waiting" /\ ops[i].how = how
    BY <2>1, OpsFacts
  <2>5. \A t \in Slots : ScriptConsistent(t)'
    BY <1>1, <1>4, <2>1, <2>2, <2>3, <2>4, CountScripts
  <2>6. /\ alive' = alive /\ s \in alive /\ broken' = broken
        /\ updates' = updates + 1 /\ updates < MaxUpdates
    BY <2>1 DEF Count, Idle
  <2>7. /\ \A t \in Slots \ {s} : Final(t, "waiting")' = Final(t, "waiting")
        /\ Final(s, "waiting")' = Updated(ops[1], Final(s, "waiting"))
        /\ \A t \in Slots : \A f \in Shared : Final(t, f)' = Final(t, f)
    <3>1. \A f \in Shared : f \in FieldSet /\ f # "waiting"
      BY <1>5 DEF Shared
    <3>2. /\ \A t \in Slots \ {s} : \A f \in FieldSet : Final(t, f)' = Final(t, f)
          /\ \A i \in 1..Len(ops) : Final(s, ops[i].field)' = Updated(ops[i], Final(s, ops[i].field))
          /\ \A f \in FieldSet : (\A i \in 1..Len(ops) : ops[i].field # f) => Final(s, f)' = Final(s, f)
      BY <1>1, <2>1, <2>2, <2>3, <2>4, CountFinal
    <3>3. \A f \in Shared : Final(s, f)' = Final(s, f)
      BY <2>4, <3>1, <3>2
    <3>4. Final(s, "waiting")' = Updated(ops[1], Final(s, "waiting"))
      BY <2>4, <3>2
    <3>5. QED BY <1>5, <3>1, <3>2, <3>3, <3>4
  <2>8. deferred'[s] \in Nat /\ deferred'[s] <= updates' /\ Final(s, "waiting")' = deferred'[s]
    <3>1. PICK v \in Nat : v = deferred[s] /\ v <= updates /\ Final(s, "waiting") = v
      BY <1>1, <1>2, <2>6 DEF WaitsConsistent
    <3>2. Largest \in Nat /\ Base \in Nat /\ Base > 1 /\ Base - 1 + MaxUpdates <= Largest
      BY SplitFacts DEF Roomy
    <3>3. v \in 0..Largest /\ v # Largest /\ updates \in Nat
      BY <1>2, <2>6, <3>1, <3>2
    <3>4. ops[1] \in Ops
      BY <2>3, <2>4 DEF Scripts
    <3>5. CASE how = "add"
      <4>1. Updated(ops[1], v) = v + 1
        BY <2>4, <3>3, <3>4, <3>5, UpdatedFacts
      <4>2. deferred'[s] = v + 1
        BY <1>2, <2>1, <3>1, <3>5
      <4>3. QED BY <2>6, <2>7, <3>1, <3>3, <4>1, <4>2
    <3>6. CASE how = "take"
      <4>1. v > 0
        BY <2>1, <3>1, <3>6
      <4>2. Updated(ops[1], v) = v - 1
        BY <2>4, <3>3, <3>4, <3>6, <4>1, UpdatedFacts
      <4>3. deferred'[s] = v - 1
        BY <1>2, <2>1, <3>1, <3>6
      <4>4. QED BY <2>6, <2>7, <3>1, <3>3, <4>1, <4>2, <4>3
    <3>7. QED BY <2>1, <3>5, <3>6
  <2>9. deferred' \in [Slots -> Nat] /\ \A t \in Slots \ {s} : deferred'[t] = deferred[t]
    <3>1. \E v : deferred' = [deferred EXCEPT ![s] = v]
      BY <2>1
    <3>2. PICK v : deferred' = [deferred EXCEPT ![s] = v]
      BY <3>1
    <3>3. v = deferred'[s]
      BY <1>2, <3>2
    <3>4. QED BY <1>2, <2>8, <3>2, <3>3
  <2>10. WaitsConsistent'
    <3>1. ASSUME NEW t \in Slots \ {s}
          PROVE  deferred'[t] <= updates' /\ (t \in alive => Final(t, "waiting")' = deferred'[t])
                 /\ (t \notin alive => deferred'[t] = 0)
      <4>1. deferred[t] \in Nat /\ deferred[t] <= updates /\ updates \in Nat
        BY <1>1, <1>2 DEF WaitsConsistent
      <4>2. deferred[t] <= updates'
        BY <2>6, <4>1
      <4>3. QED BY <1>1, <2>7, <2>9, <4>2 DEF WaitsConsistent
    <3>2. QED BY <2>6, <2>8, <3>1 DEF WaitsConsistent
  <2>11. (~broken => TasksConsistent)'
    <3>1. SUFFICES ASSUME ~broken PROVE TasksConsistent'
      BY <2>6
    <3>2. \A f \in Shared : Finals(f)' = Finals(f)
      BY <2>7 DEF Finals
    <3>3. \A f \in Shared : SumOf(Finals(f), Slots)' = SumOf(Finals(f), Slots)
      BY <3>2
    <3>4. TasksConsistent
      BY <1>1, <3>1
    <3>5. ASSUME NEW t \in Slots, NEW f \in Shared PROVE Final(t, f)' <= Base - 1 + updates'
      <4>1. f \in FieldSet
        BY <1>5 DEF Shared
      <4>2. Final(t, f) \in 0..Largest /\ Largest \in Nat
        BY <1>1, <4>1, FinalsFacts, SplitFacts
      <4>3. PICK v \in Nat : v = Final(t, f)
        BY <4>2
      <4>4. v <= Base - 1 + updates /\ Base \in Nat /\ updates \in Nat
        BY <1>2, <3>4, <4>3, SplitFacts DEF TasksConsistent
      <4>5. v <= Base - 1 + updates'
        BY <2>6, <4>4
      <4>6. QED BY <2>7, <4>3, <4>5
    <3>6. QED BY <1>4, <2>2, <3>3, <3>4, <3>5 DEF TasksConsistent
  <2>12. SumTypes'
    BY <1>2, <2>2, <2>6, <2>9 DEF SumTypes
  <2>13. QED BY <2>5, <2>10, <2>11, <2>12 DEF SumInv
<1>14. FinishPass(s) => \/ Count(s, <<Op("finished", "add")>>) /\ pending' = pending
                        \/ /\ Count(s, <<Op("finished", "add"), Op("enqueued", "add")>>)
                           /\ pending' = pending + 1
  BY DEF FinishPass
<1>15. QED BY <1>7, <1>8, <1>9, <1>10, <1>11, <1>12, <1>13, <1>14 DEF Counting

\* The three counters of the tasks are counters.
LEMMA SharedFacts ==
  /\ "enqueued" \in Shared /\ "started" \in Shared /\ "finished" \in Shared
  /\ "waiting" \notin Shared /\ \A f \in Shared : f \in FieldSet
BY FieldFacts DEF Shared

\* At the beginning one task is held, begun and not finished.
LEMMA SumInit == ASSUME MetricsInit PROVE SumInv
<1>1. CounterTypes
  BY CounterInit DEF CounterInv
<1>2. /\ mem = [s \in Slots |-> [f \in FieldSet |-> Split(Aged(s, f))]]
      /\ script = [s \in Slots |-> <<>>] /\ alive = Slots
      /\ pending = 0 /\ held = {1} /\ orphans = 0 /\ deferred = [s \in Slots |-> 0] /\ updates = 0
  BY DEF MetricsInit
<1>3. /\ Base \in Nat /\ Base > 1 /\ MaxUpdates \in Nat /\ 1 \in Slots /\ Largest \in Nat
  BY SplitFacts, MetricsAssumption DEF Slots
<1>4. ASSUME NEW s \in Slots, NEW f \in FieldSet PROVE Final(s, f) = Aged(s, f)
  <2>1. mem[s][f] = Split(Aged(s, f)) /\ script[s] = <<>>
    BY <1>2
  <2>2. Value(Split(Aged(s, f))) = Aged(s, f)
    BY AgedFacts, SplitFacts
  <2>3. QED BY <2>1, <2>2, FinalIdle
<1>5. \A s \in Slots : ScriptConsistent(s)
  <2>1. \A i \in 1..Len(<<>>) : FALSE
    OBVIOUS
  <2>2. QED BY <1>2, <2>1 DEF ScriptConsistent, Distinct
<1>6. SumTypes
  BY <1>2, <1>3 DEF SumTypes
<1>7. WaitsConsistent
  <2>1. \A s \in Slots : Aged(s, "waiting") = 0
    BY DEF Aged
  <2>2. 0 <= 0 /\ "waiting" \in FieldSet
    BY FieldFacts
  <2>3. QED BY <1>2, <1>4, <2>1, <2>2 DEF WaitsConsistent
<1>8. \A s \in Slots : /\ Aged(s, "enqueued") = Base - 1 /\ Aged(s, "started") = Base - 1
                       /\ Aged(s, "finished") = IF s = 1 THEN Base - 2 ELSE Base - 1
  BY DEF Aged
<1>9. ASSUME NEW s \in Slots, NEW f \in Shared PROVE Final(s, f) <= Base - 1 + updates
  <2>1. Final(s, f) = Base - 1 \/ Final(s, f) = Base - 2
    BY <1>4, <1>8, SharedFacts DEF Shared
  <2>2. QED BY <1>2, <1>3, <2>1
<1>10. Finals("enqueued") = Finals("started")
  BY <1>4, <1>8, SharedFacts DEF Finals
<1>11. PICK F \in [Slots -> Nat] : F = Finals("finished")
  BY <1>1, <1>5, FinalsFacts, SharedFacts
<1>12. PICK G \in [Slots -> Nat] : G = Finals("started")
  BY <1>1, <1>5, FinalsFacts, SharedFacts
<1>13. G[1] = F[1] + 1 /\ \A t \in Slots \ {1} : G[t] = F[t]
  <2>1. \A t \in Slots : F[t] = Final(t, "finished") /\ G[t] = Final(t, "started")
    BY <1>11, <1>12 DEF Finals
  <2>2. Base - 1 = (Base - 2) + 1
    BY <1>3
  <2>3. QED BY <1>3, <1>4, <1>8, <2>1, <2>2, SharedFacts
<1>14. SumOf(F, Slots) \in Nat /\ SumOf(G, Slots) = SumOf(F, Slots) + 1
  <2>1. 1 \in Nat
    OBVIOUS
  <2>2. QED BY <1>3, <1>13, <2>1, OneMore
<1>15. Cardinality(held) = 1
  BY <1>2, FS_Singleton
<1>16. TasksConsistent
  <2>1. SumOf(Finals("started"), Slots) \in Nat /\ pending = 0 /\ orphans = 0
    BY <1>2, <1>12, <1>14
  <2>2. SumOf(Finals("enqueued"), Slots) = SumOf(Finals("started"), Slots) + pending
    BY <1>10, <2>1
  <2>3. SumOf(Finals("started"), Slots) = SumOf(Finals("finished"), Slots) + Cardinality(held) + orphans
    BY <1>11, <1>12, <1>14, <1>15, <2>1
  <2>4. QED BY <1>9, <2>2, <2>3 DEF TasksConsistent
<1>17. QED BY <1>5, <1>6, <1>7, <1>16 DEF SumInv

\* The sums are those of before if no counter of the tasks changes and no task moves.
LEMMA SumsKept ==
  ASSUME CounterTypes, SumInv, SumTypes',
         \A t \in Slots : ScriptConsistent(t)',
         \A t \in Slots : \A f \in Shared : Final(t, f)' = Final(t, f),
         UNCHANGED <<pending, held, orphans, updates>>, broken' => broken, broken => broken'
  PROVE  (~broken => TasksConsistent)'
<1>1. SumTypes /\ (\A t \in Slots : ScriptConsistent(t))
  BY DEF SumInv
<1>2. Cardinality(held) \in Nat /\ orphans \in Nat
  BY <1>1, HeldFacts DEF SumTypes
<1>3. \A f \in Shared : SumOf(Finals(f), Slots) \in Nat
  BY <1>1, SharedFacts, FinalsFacts
<1>4. ~broken => TasksConsistent
  BY DEF SumInv
<1>5. held' = held /\ orphans' = orphans /\ pending' = pending /\ updates' = updates
  OBVIOUS
<1>6. Cardinality(held') + orphans' = Cardinality(held) + orphans /\ Cardinality(held') \in Nat
  BY <1>2, <1>5
<1>7. TasksConsistent => TasksConsistent'
  BY <1>2, <1>3, <1>5, <1>6, TasksKept
<1>8. QED BY <1>4, <1>7

\* The writers keep the sums.
LEMMA WriterKeepsSums ==
  ASSUME CounterInv, SumInv, NEW s \in Slots, Open(s) \/ Store(s) \/ Close(s)
  PROVE  SumInv'
<1>1. CounterTypes /\ (\A t \in Slots : WriterConsistent(t))
      /\ SumTypes /\ (\A t \in Slots : ScriptConsistent(t)) /\ WaitsConsistent
  BY SMTT(30) DEF CounterInv, SumInv
<1>2. UNCHANGED <<pending, held, orphans, deferred, alive, updates, broken>>
  BY DEF Open, Store, Close, queue, bounds
<1>3. \A t \in Slots : ScriptConsistent(t)'
  BY <1>1, WriterKeepsScripts
<1>4. \A t \in Slots : \A f \in FieldSet : Final(t, f)' = Final(t, f)
  <2>1. Distinct(script[s])
    BY <1>1 DEF ScriptConsistent
  <2>2. QED BY <1>1, <2>1, WriterKeepsFinal
<1>5. SumTypes'
  BY <1>1, <1>2 DEF SumTypes
<1>6. WaitsConsistent'
  BY <1>1, <1>2, <1>4, FieldFacts DEF WaitsConsistent
<1>7. \A t \in Slots : \A f \in Shared : Final(t, f)' = Final(t, f)
  BY <1>4, SharedFacts
<1>8. (~broken => TasksConsistent)'
  BY <1>1, <1>2, <1>3, <1>5, <1>7, SumsKept
<1>9. QED BY <1>3, <1>5, <1>6, <1>8 DEF SumInv

\* A step that changes no slot, queue or counter keeps the sums.
LEMMA OthersKeepSums ==
  ASSUME CounterInv, SumInv,
         UNCHANGED <<mem, script, next, alive, lock, queue, broken, updates>>
  PROVE  SumInv'
<1>1. CounterTypes /\ SumTypes /\ (\A t \in Slots : ScriptConsistent(t)) /\ WaitsConsistent
  BY DEF CounterInv, SumInv
<1>2. UNCHANGED <<pending, held, orphans, deferred>>
  BY DEF queue
<1>3. \A t : \A f : Final(t, f)' = Final(t, f)
  BY FinalElsewhere
<1>4. \A t \in Slots : ScriptConsistent(t)'
  BY <1>1 DEF ScriptConsistent
<1>5. SumTypes' /\ WaitsConsistent'
  BY <1>1, <1>2, <1>3 DEF SumTypes, WaitsConsistent
<1>6. (~broken => TasksConsistent)'
  BY <1>1, <1>2, <1>3, <1>4, <1>5, SumsKept
<1>7. QED BY <1>4, <1>5, <1>6 DEF SumInv

\* A worker that dies, unless in a section, has told of its tasks.
LEMMA DieKeepsSums ==
  ASSUME CounterInv, SumInv, NEW s \in Slots, WorkerDies(s)
  PROVE  SumInv'
<1>1. CounterTypes /\ (\A t \in Slots : WriterConsistent(t))
      /\ SumTypes /\ (\A t \in Slots : ScriptConsistent(t)) /\ WaitsConsistent
  BY DEF CounterInv, SumInv
<1>2. /\ alive' = alive \ {s} /\ lock' = (IF lock = s THEN None ELSE lock)
      /\ broken' = (broken \/ lock = s)
      /\ held' = held \ {s} /\ orphans' = (IF s \in held THEN orphans + 1 ELSE orphans)
      /\ deferred' = [deferred EXCEPT ![s] = 0] /\ pending' = pending /\ updates' = updates
  BY DEF WorkerDies
<1>3. /\ mem' = mem /\ script' = [script EXCEPT ![s] = <<>>] /\ next' = [next EXCEPT ![s] = None]
  BY <1>1, DieStep
<1>4. /\ script'[s] = <<>> /\ \A t \in Slots \ {s} : script'[t] = script[t] /\ next'[t] = next[t]
  BY <1>1, <1>3 DEF CounterTypes
<1>5. \A i \in 1..Len(<<>>) : FALSE
  OBVIOUS
<1>6. \A t \in Slots : ScriptConsistent(t)'
  <2>1. ASSUME NEW t \in Slots \ {s} PROVE ScriptConsistent(t)'
    <3>1. lock = t => lock' = t
      BY <1>2
    <3>2. QED BY <1>1, <1>4, <3>1 DEF ScriptConsistent
  <2>2. ScriptConsistent(s)'
    BY <1>4, <1>5 DEF ScriptConsistent, Distinct
  <2>3. QED BY <2>1, <2>2
<1>7. /\ pending \in Nat /\ orphans \in Nat /\ held \subseteq alive
      /\ deferred \in [Slots -> Nat] /\ updates \in 0..MaxUpdates
  BY <1>1 DEF SumTypes
<1>8. SumTypes'
  BY <1>2, <1>7 DEF SumTypes
<1>9. \A t \in Slots \ {s} : \A f : Final(t, f)' = Final(t, f)
  BY <1>3, <1>4, FinalElsewhere
<1>10. WaitsConsistent'
  <2>1. deferred'[s] = 0 /\ \A t \in Slots \ {s} : deferred'[t] = deferred[t]
    BY <1>2, <1>7
  <2>2. 0 <= updates'
    BY <1>2, <1>7
  <2>3. QED BY <1>1, <1>2, <1>9, <2>1, <2>2 DEF WaitsConsistent
<1>11. (~broken => TasksConsistent)'
  <2> SUFFICES ASSUME ~broken' PROVE TasksConsistent'
    OBVIOUS
  <2>1. lock # s /\ TasksConsistent
    BY <1>2 DEF SumInv
  <2>2. ASSUME NEW f \in Shared PROVE Final(s, f)' = Final(s, f)
    <3>1. \A i \in 1..Len(script[s]) : script[s][i].field # f
      BY <1>1, <2>1 DEF ScriptConsistent
    <3>2. Final(s, f) = Value(mem[s][f])
      BY <3>1, ComingFacts DEF Final
    <3>3. Coming(<<>>, next'[s], mem[s][f], f) = Value(mem[s][f])
      BY <1>5, ComingFacts
    <3>4. QED BY <1>3, <1>4, <3>2, <3>3 DEF Final
  <2>3. \A t \in Slots : \A f \in Shared : Final(t, f)' = Final(t, f)
    BY <1>9, <2>2
  <2>4. /\ Cardinality(held) \in Nat /\ Cardinality(held') \in Nat /\ orphans' \in Nat
        /\ Cardinality(held') + orphans' = Cardinality(held) + orphans
    <3>1. CASE s \in held
      <4>1. /\ Cardinality(held') = Cardinality(held) - 1 /\ Cardinality(held) \in Nat
            /\ Cardinality(held') \in Nat
        BY <1>1, <1>2, <3>1, HeldFacts
      <4>2. orphans' = orphans + 1
        BY <1>2, <3>1
      <4>3. PICK h \in Nat, k \in Nat : h = Cardinality(held) /\ k = Cardinality(held')
        BY <4>1
      <4>4. QED BY <1>7, <4>1, <4>2, <4>3
    <3>2. CASE s \notin held
      <4>1. held' = held /\ orphans' = orphans
        BY <1>2, <3>2
      <4>2. QED BY <1>1, <1>7, <4>1, HeldFacts
    <3>3. QED BY <3>1, <3>2
  <2>5. \A f \in Shared : SumOf(Finals(f), Slots) \in Nat
    BY <1>1, SharedFacts, FinalsFacts
  <2>6. QED BY <1>2, <1>7, <2>1, <2>3, <2>4, <2>5, TasksKept
<1>12. QED BY <1>6, <1>8, <1>10, <1>11 DEF SumInv

\* A new worker has no deferred request, and is to say so.
LEMMA TakeoverKeepsSums ==
  ASSUME CounterInv, SumInv, NEW s \in Slots, InitWorker(s)
  PROVE  SumInv'
<1>1. CounterTypes /\ (\A t \in Slots : WriterConsistent(t))
      /\ SumTypes /\ (\A t \in Slots : ScriptConsistent(t)) /\ WaitsConsistent
  BY DEF CounterInv, SumInv
<1>2. /\ alive' = alive \cup {s} /\ lock = None /\ lock' = s /\ s \notin alive
      /\ UNCHANGED <<pending, held, orphans, deferred, updates, broken>>
  BY DEF InitWorker, queue, bounds
<1>3. PICK ops : ops = <<Op("waiting", "reset")>>
  OBVIOUS
<1>4. /\ mem' = mem /\ next' = next /\ script' = [script EXCEPT ![s] = ops]
      /\ ~Begun(s) /\ script[s] = <<>>
  BY <1>1, <1>3, TakeoverStep
<1>5. script'[s] = ops /\ next[s] = None /\ \A t \in Slots \ {s} : script'[t] = script[t]
  BY <1>1, <1>4 DEF CounterTypes, Begun
<1>6. /\ Distinct(ops) /\ Len(ops) = 1 /\ 1 \in 1..Len(ops)
      /\ ops[1].field = "waiting" /\ ops[1].how = "reset"
      /\ \A i \in 1..Len(ops) : ops[i].field = "waiting"
  BY <1>3, OpsFacts
<1>7. \A t \in Slots : ScriptConsistent(t)'
  <2>1. None \notin Slots
    BY MetricsAssumption DEF Slots
  <2>2. ASSUME NEW t \in Slots \ {s} PROVE ScriptConsistent(t)'
    <3>1. lock = t => lock' = t
      BY <1>2, <2>1
    <3>2. QED BY <1>1, <1>5, <3>1 DEF ScriptConsistent
  <2>3. ScriptConsistent(s)'
    BY <1>2, <1>5, <1>6 DEF ScriptConsistent
  <2>4. QED BY <2>2, <2>3
<1>8. SumTypes'
  BY <1>1, <1>2 DEF SumTypes
<1>9. \A t \in Slots \ {s} : \A f : Final(t, f)' = Final(t, f)
  BY <1>4, <1>5, FinalElsewhere
<1>10. Final(s, "waiting")' = 0
  <2>1. PICK v \in 0..Largest : v = Value(mem[s]["waiting"])
    BY <1>1, SlotFacts, FieldFacts, SplitFacts, SMTT(30)
  <2>2. ops[1] \in Ops
    BY <1>3, FieldFacts DEF Op, Ops
  <2>3. Updated(ops[1], v) = 0
    BY <1>6, <2>2, UpdatedFacts
  <2>4. Coming(ops, None, mem[s]["waiting"], "waiting") = Updated(ops[1], v)
    BY <1>6, <2>1, ComingFacts
  <2>5. QED BY <1>4, <1>5, <2>3, <2>4 DEF Final
<1>11. WaitsConsistent'
  BY <1>1, <1>2, <1>9, <1>10 DEF WaitsConsistent
<1>12. ASSUME NEW f \in Shared PROVE Final(s, f)' = Final(s, f)
  <2>1. \A i \in 1..Len(ops) : ops[i].field # f
    BY <1>6, <1>12, SharedFacts
  <2>2. Coming(ops, None, mem[s][f], f) = Value(mem[s][f])
    BY <2>1, ComingFacts
  <2>3. QED BY <1>4, <1>5, <2>2, FinalIdle DEF Final
<1>13. (~broken => TasksConsistent)'
  BY <1>1, <1>2, <1>7, <1>8, <1>9, <1>12, SumsKept
<1>14. QED BY <1>7, <1>8, <1>11, <1>13 DEF SumInv

\* Every step keeps the sums.
LEMMA SumStep ==
  ASSUME Roomy, CounterInv, SumInv, [MetricsNext]_metricsVars
  PROVE  SumInv'
<1>1. CASE Reader
  <2>1. UNCHANGED <<mem, script, next, alive, lock, queue, broken, updates>>
    BY <1>1, Zenon DEF Reader, StartSample, ReadSequence, ReadWord, Accept, Steady, bounds
  <2>2. QED BY <2>1, OthersKeepSums
<1>2. CASE UNCHANGED metricsVars
  <2>1. UNCHANGED <<mem, script, next, alive, lock, queue, broken, updates>>
    BY <1>2 DEF metricsVars, bounds
  <2>2. QED BY <2>1, OthersKeepSums
<1>3. QED BY <1>1, <1>2, NextSteps, WriterKeepsSums, CountingKeepsSums, DieKeepsSums, TakeoverKeepsSums

-----------------------------------------------------------------------------
(* A sample during which nothing happens *)

\* While nothing is updated, what the reader has of the slots before it is what is
\* there, so far as the slot it is at.
Undisturbed ==
    alive = Slots =>
        /\ \A s \in 1..reader.slot - 1 : reader.taken[s] = Values(s)
        /\ reader.phase = "words" => /\ Matched(reader.got, mem[reader.slot])
                                     /\ narrow => seq[reader.slot] = reader.seq

QuietInv ==
    /\ reader.phase = "idle" => reader.slot = 1
    /\ reader.phase = "done" => reader.slot = NSlots + 1
    /\ quiet => (\A s \in Slots : script[s] = <<>>) /\ Undisturbed

\* At the beginning no sample is taken.
LEMMA QuietInit == ASSUME MetricsInit PROVE QuietInv
BY DEF MetricsInit, QuietInv

\* No update begins that is not one of an event, which ends the quiet.
LEMMA WritersAreLoud ==
  ASSUME CounterInv, QuietInv, [MetricsNext]_metricsVars, quiet'
  PROVE  Reader \/ UNCHANGED metricsVars
<1>1. \A s \in Slots : WriterConsistent(s)
  BY DEF CounterInv
<1>2. ASSUME NEW s \in Slots, Open(s) \/ Store(s) \/ Close(s) PROVE FALSE
  <2>1. quiet
    BY <1>2 DEF Open, Store, Close
  <2>2. script[s] = <<>>
    BY <2>1 DEF QuietInv
  <2>3. ~Begun(s)
    BY <1>1, <2>2 DEF WriterConsistent
  <2>4. QED BY <1>2, <2>2, <2>3 DEF Open, Store, Close
<1>3. ASSUME NEW s \in Slots, Counting(s) PROVE ~quiet'
  <2>1. PICK ops : Count(s, ops)
    BY <1>3, CountingSteps
  <2>2. QED BY <2>1 DEF Count
<1>4. ASSUME NEW s \in Slots, WorkerDies(s) \/ InitWorker(s) PROVE ~quiet'
  BY <1>4 DEF WorkerDies, InitWorker
<1>5. QED BY <1>2, <1>3, <1>4, NextSteps

\* The reader at its slot, when nothing happens.
LEMMA QuietReader ==
  ASSUME CounterInv, QuietInv, Reader
  PROVE  QuietInv'
<1>1. CounterTypes /\ (\A s \in Slots : WriterConsistent(s)) /\ ReaderConsistent
  BY DEF CounterInv
<1>2. /\ UNCHANGED <<mem, seq, script, next, alive, narrow>>
      /\ reader \in Readers
      /\ reader.phase # "done" => reader.slot \in Slots
  BY <1>1, Zenon DEF Reader, StartSample, ReadSequence, ReadWord, Accept, Steady, ReaderConsistent
<1>3. \A s \in Slots : Values(s)' = Values(s)
  BY <1>2 DEF Values
<1>4. NSlots \in Nat /\ Slots = 1..NSlots /\ 1 \in Slots
  BY MetricsAssumption DEF Slots
<1>5. CASE StartSample
  <2>1. /\ reader.phase = "idle" /\ reader' = [reader EXCEPT !.phase = "slot"]
        /\ quiet' = \A s \in Slots : script[s] = <<>>
    BY <1>5 DEF StartSample
  <2>2. reader'.phase = "slot" /\ reader'.slot = 1 /\ reader'.taken = reader.taken
    BY <1>2, <2>1 DEF Readers, QuietInv
  <2>3. \A s \in 1..1 - 1 : FALSE
    OBVIOUS
  <2>4. QED BY <1>2, <2>1, <2>2, <2>3 DEF QuietInv, Undisturbed
<1>6. ASSUME reader.phase \in {"slot", "words"}, quiet' = quiet,
             reader'.phase \in {"slot", "words", "done"},
             reader'.phase = "done" => reader'.slot = NSlots + 1,
             quiet /\ alive = Slots => /\ \A s \in 1..reader'.slot - 1 : reader'.taken[s] = Values(s)
                                       /\ reader'.phase = "words" =>
                                             /\ Matched(reader'.got, mem[reader'.slot])
                                             /\ narrow => seq[reader'.slot] = reader'.seq
      PROVE  QuietInv'
  <2>1. NSlots + 1 \in Nat
    BY <1>4
  <2>2. quiet /\ alive = Slots => \A s \in 1..reader'.slot - 1 : reader'.taken[s] = Values(s)'
    BY <1>2, <1>6 DEF Values
  <2>3. quiet' => Undisturbed'
    BY <1>2, <1>6, <2>2 DEF Undisturbed
  <2>4. QED BY <1>2, <1>6, <2>3 DEF QuietInv
<1>7. CASE ReadSequence
  <2>1. reader.phase = "slot" /\ quiet' = quiet
    BY <1>7 DEF ReadSequence, Steady
  <2>2. PICK s \in Slots : s = reader.slot
    BY <1>2, <2>1
  <2>3. reader' = IF narrow /\ seq[s] % 2 = 1 THEN Again(reader)
                  ELSE [reader EXCEPT !.phase = "words", !.seq = seq[s], !.got = <<>>,
                                      !.begun = complete[s]]
    BY <1>7, <2>2 DEF ReadSequence
  <2>4. CASE narrow /\ seq[s] % 2 = 1
    <3>1. /\ reader' = Again(reader)
          /\ reader'.phase \in {"slot", "done"}
      BY <1>2, <2>2, <2>3, <2>4, AgainFacts
    <3>2. reader'.phase = "done" => reader'.slot = NSlots + 1
      <4>1. reader.phase # "done" => (ToNextSlot(reader).phase = "done" <=> reader.slot = NSlots)
            /\ ToNextSlot(reader).slot = reader.slot + 1
        BY <1>2, NextSlotFacts
      <4>2. reader' = ToNextSlot(reader) \/ reader'.phase = "slot"
        BY <1>2, <3>1 DEF Again, Readers
      <4>3. QED BY <2>1, <4>1, <4>2
    <3>3. ~(quiet /\ alive = Slots)
      <4>1. SUFFICES ASSUME quiet, alive = Slots PROVE FALSE
        OBVIOUS
      <4>2. script[s] = <<>> /\ s \in alive
        BY <4>1 DEF QuietInv
      <4>3. ~Begun(s) /\ ~Resetting(s)
        BY <1>1, <4>2 DEF WriterConsistent, Resetting
      <4>4. seq[s] % 2 = 0
        BY <1>1, <2>4, <4>2, <4>3 DEF WriterConsistent
      <4>5. QED BY <2>4, <4>4
    <3>4. QED BY <1>6, <2>1, <3>1, <3>2, <3>3
  <2>5. CASE ~(narrow /\ seq[s] % 2 = 1)
    <3>1. /\ reader'.phase = "words" /\ reader'.seq = seq[s] /\ reader'.got = <<>>
          /\ reader'.slot = s /\ reader'.taken = reader.taken
      BY <1>2, <2>2, <2>3, <2>5 DEF Readers
    <3>2. Matched(<<>>, mem[s])
      <4>1. \A i \in 1..5 : ~(0 >= 2 * i - 1) /\ ~(0 >= 2 * i)
        OBVIOUS
      <4>2. Len(<<>>) = 0
        OBVIOUS
      <4>3. QED BY <4>1, <4>2 DEF Matched
    <3>3. quiet /\ alive = Slots => \A t \in 1..s - 1 : reader.taken[t] = Values(t)
      BY <2>2 DEF QuietInv, Undisturbed
    <3>4. QED BY <1>6, <2>1, <3>1, <3>2, <3>3
  <2>6. QED BY <2>4, <2>5
<1>8. CASE ReadWord
  <2>1. reader.phase = "words" /\ quiet' = quiet
    BY <1>8 DEF ReadWord, Steady
  <2>2. PICK s \in Slots : s = reader.slot
    BY <1>2, <2>1
  <2> DEFINE words == mem[s][Fields[(Len(reader.got) \div 2) + 1]]
             more == IF narrow THEN <<words[(Len(reader.got) % 2) + 1]>> ELSE words
  <2>3. Len(reader.got) < WordsOf /\ reader' = [reader EXCEPT !.got = reader.got \o more]
    BY <1>8, <2>1, <2>2 DEF ReadWord
  <2>4. reader.got \in Seq(Digits) /\ Len(reader.got) \in Nat /\ Len(reader.got) < 10
    BY <1>2, <2>3, FieldFacts DEF Readers
  <2>5. narrow \in BOOLEAN /\ mem[s] \in [FieldSet -> Pairs] /\ (narrow \/ Len(reader.got) % 2 = 0)
    BY <1>1, <2>1, SlotFacts DEF CounterTypes, ReaderConsistent
  <2>6. more = IF narrow THEN <<mem[s][Fields[(Len(reader.got) \div 2) + 1]][(Len(reader.got) % 2) + 1]>>
                         ELSE mem[s][Fields[(Len(reader.got) \div 2) + 1]]
    OBVIOUS
  <2> HIDE DEF words, more
  <2>7. Matched(reader.got, mem[s]) => Matched(reader.got \o more, mem[s])
    BY <2>4, <2>5, <2>6, WordsMore
  <2>8. /\ reader'.got = reader.got \o more /\ reader'.phase = "words" /\ reader'.seq = reader.seq
        /\ reader'.slot = s /\ reader'.taken = reader.taken
    BY <1>2, <2>1, <2>2, <2>3 DEF Readers
  <2>9. quiet /\ alive = Slots => /\ \A t \in 1..s - 1 : reader.taken[t] = Values(t)
                                  /\ Matched(reader.got, mem[s])
                                  /\ narrow => seq[s] = reader.seq
    BY <2>1, <2>2 DEF QuietInv, Undisturbed
  <2>10. QED BY <1>6, <2>1, <2>7, <2>8, <2>9
<1>9. CASE Accept
  <2>1. /\ reader.phase = "words" /\ Len(reader.got) = WordsOf /\ quiet' = quiet
        /\ reader' = IF UnchangedSequence
                     THEN ToNextSlot([reader EXCEPT !.taken[reader.slot] = Got,
                                                    !.from[reader.slot] = reader.begun])
                     ELSE Again(reader)
    BY <1>9 DEF Accept, Steady
  <2>2. PICK s \in Slots : s = reader.slot
    BY <1>2, <2>1
  <2>3. reader.got \in Seq(Digits) /\ Len(reader.got) = 10
    BY <1>2, <2>1, FieldFacts DEF Readers
  <2>4. quiet /\ alive = Slots => /\ \A t \in 1..s - 1 : reader.taken[t] = Values(t)
                                  /\ Matched(reader.got, mem[s])
                                  /\ narrow => seq[s] = reader.seq
    BY <2>1, <2>2 DEF QuietInv, Undisturbed
  <2>5. CASE ~UnchangedSequence
    <3>1. /\ reader' = Again(reader)
          /\ reader'.phase \in {"slot", "done"}
      BY <1>2, <2>1, <2>2, <2>5, AgainFacts
    <3>2. reader'.phase = "done" => reader'.slot = NSlots + 1
      <4>1. reader.phase # "done" => (ToNextSlot(reader).phase = "done" <=> reader.slot = NSlots)
            /\ ToNextSlot(reader).slot = reader.slot + 1
        BY <1>2, NextSlotFacts
      <4>2. reader' = ToNextSlot(reader) \/ reader'.phase = "slot"
        BY <1>2, <3>1 DEF Again, Readers
      <4>3. QED BY <2>1, <4>1, <4>2
    <3>3. ~(quiet /\ alive = Slots)
      BY <2>2, <2>4, <2>5 DEF UnchangedSequence
    <3>4. QED BY <1>6, <2>1, <3>1, <3>2, <3>3
  <2>6. CASE UnchangedSequence
    <3> DEFINE r == [reader EXCEPT !.taken[reader.slot] = Got, !.from[reader.slot] = reader.begun]
    <3>1. Got \in [FieldSet -> Nat] /\ (Matched(reader.got, mem[s]) => Got = Values(s))
      BY <2>3, AllWords
    <3>2. /\ reader.begun \in {None} \cup [FieldSet -> Nat]
          /\ reader.taken \in [Slots -> {None} \cup [FieldSet -> Nat]]
          /\ reader.from \in [Slots -> {None} \cup [FieldSet -> Nat]]
      BY <1>2 DEF Readers
    <3>3. /\ [reader.taken EXCEPT ![s] = Got] \in [Slots -> {None} \cup [FieldSet -> Nat]]
          /\ [reader.from EXCEPT ![s] = reader.begun] \in [Slots -> {None} \cup [FieldSet -> Nat]]
      BY <3>1, <3>2
    <3>4. r = [reader EXCEPT !.taken = [reader.taken EXCEPT ![s] = Got],
                             !.from = [reader.from EXCEPT ![s] = reader.begun]]
      BY <1>2, <2>2 DEF Readers
    <3>5. /\ r \in Readers /\ r.slot = s /\ r.taken = [reader.taken EXCEPT ![s] = Got]
      <4> HIDE DEF r
      <4>1. QED BY <1>2, <2>2, <3>3, <3>4 DEF Readers
    <3>6. reader' = ToNextSlot(r)
      BY <2>1, <2>6
    <3> HIDE DEF r
    <3>7. /\ reader'.phase \in {"slot", "done"} /\ reader'.slot = s + 1
          /\ reader'.phase = "done" => s = NSlots
          /\ reader'.taken = [reader.taken EXCEPT ![s] = Got]
      BY <3>5, <3>6, NextSlotFacts
    <3>8. quiet /\ alive = Slots => \A t \in 1..reader'.slot - 1 : reader'.taken[t] = Values(t)
      <4>1. SUFFICES ASSUME quiet, alive = Slots, NEW t \in 1..reader'.slot - 1
                     PROVE  reader'.taken[t] = Values(t)
        OBVIOUS
      <4>2. s \in Nat /\ s <= NSlots /\ (s + 1) - 1 = s
        BY <1>4
      <4>3. t \in 1..s
        BY <3>7, <4>1, <4>2
      <4>4. t \in Slots /\ (t = s \/ t \in 1..s - 1)
        BY <1>4, <4>2, <4>3
      <4>5. QED BY <2>4, <3>1, <3>2, <3>7, <4>1, <4>4
    <3>9. QED BY <1>6, <2>1, <3>7, <3>8
  <2>7. QED BY <2>5, <2>6
<1>10. QED BY <1>5, <1>7, <1>8, <1>9 DEF Reader

\* Every step keeps the invariant: only the reader's are quiet.
LEMMA QuietStep ==
  ASSUME CounterInv, QuietInv, [MetricsNext]_metricsVars
  PROVE  QuietInv'
<1>1. CASE Reader
  BY <1>1, QuietReader
<1>2. CASE UNCHANGED metricsVars
  <2>1. UNCHANGED <<mem, seq, script, alive, reader, quiet, narrow>>
    BY <1>2 DEF metricsVars
  <2>2. \A s : Values(s)' = Values(s)
    BY <2>1 DEF Values
  <2>3. Undisturbed' <=> Undisturbed
    BY <2>1, <2>2 DEF Undisturbed
  <2>4. QED BY <2>1, <2>3 DEF QuietInv
<1>3. CASE ~Reader /\ ~UNCHANGED metricsVars
  <2>1. ~quiet'
    BY <1>3, WritersAreLoud
  <2>2. reader' = reader
    BY <1>3, NextSteps DEF Open, Store, Close, Counting, Admit, Deduplicate, StartPass, FinishPass,
                           RecoverPass, Defer, Undefer, Count, WorkerDies, InitWorker
  <2>3. QED BY <2>1, <2>2 DEF QuietInv
<1>4. QED BY <1>1, <1>2, <1>3

\* The smaller of two numbers.
LEMMA SmallerFirst ==
  ASSUME NEW x \in Nat, NEW y \in Nat, y <= x
  PROVE  Min({y, x}) = y
<1>1. {y, x} \in SUBSET Int /\ {y, x} # {} /\ IsFiniteSet({y, x})
  <2>1. IsFiniteSet({y})
    BY FS_Singleton
  <2>2. IsFiniteSet({y} \cup {x}) /\ {y, x} = {y} \cup {x}
    BY <2>1, FS_AddElement
  <2>3. QED BY <2>2
<1>2. Min({y, x}) \in {y, x} /\ \A z \in {y, x} : Min({y, x}) <= z
  BY <1>1, MinFacts
<1>3. QED BY <1>2

\* The difference of two counters of a sample, as the status shows it.
LEMMA DifferenceShown ==
  ASSUME NEW x \in Nat, NEW y \in Nat, NEW d \in Nat, x = y + d
  PROVE  x - Min({y, x}) = d
<1>1. y <= x
  OBVIOUS
<1>2. QED BY <1>1, SmallerFirst

\* A sample during which nothing happens tells the truth about the tasks, however
\* many workers counted them (ngx_http_cache_purge_queue_status_snapshot).  The
\* counters of all slots have room for what they hold at first and what is counted:
\* a counter or a sum that has reached the largest value stays there.
THEOREM QuietSamplesAreExact ==
  ASSUME NSlots * (Base - 1 + MaxUpdates) <= Largest
  PROVE  MetricsSpec => []QuietSampleExact
<1> DEFINE Inv == CounterInv /\ SumInv /\ QuietInv
           room == Base - 1 + MaxUpdates
<1>0. /\ Roomy /\ room \in Nat /\ MaxUpdates <= room
      /\ NSlots * room <= Largest /\ Largest \in Nat
  <2>1. PICK n \in Nat, r \in Nat : n + 1 = NSlots /\ r = room /\ MaxUpdates <= r
    BY MetricsAssumption
  <2>2. Largest \in Nat
    BY SplitFacts
  <2>3. (n + 1) * r = n * r + r /\ n * r \in Nat
    BY <2>1
  <2>4. (n + 1) * r <= Largest
    BY <2>1
  <2>5. r <= Largest
    <3>1. PICK m \in Nat : m = n * r
      BY <2>3
    <3>2. m + r <= Largest
      BY <2>3, <2>4, <3>1
    <3>3. QED BY <2>1, <2>2, <3>1, <3>2
  <2>6. QED BY <2>1, <2>2, <2>4, <2>5 DEF Roomy
<1>1. MetricsInit => Inv
  BY CounterInit, SumInit, QuietInit
<1>2. Inv /\ [MetricsNext]_metricsVars => Inv'
  BY <1>0, CounterStep, SumStep, QuietStep
<1>3. Inv => QuietSampleExact
  <2> SUFFICES ASSUME CounterInv, SumInv, QuietInv,
                      reader.phase = "done", quiet, ~broken, alive = Slots
               PROVE  Sample = [pending |-> pending, active |-> Cardinality(held) + orphans,
                                waiting |-> SumOf(deferred, Slots)]
    BY DEF QuietSampleExact
  <2>1. CounterTypes /\ SumTypes /\ (\A t \in Slots : ScriptConsistent(t)) /\ WaitsConsistent
        /\ TasksConsistent
    BY DEF CounterInv, SumInv
  <2>2. \A s \in Slots : reader.taken[s] = Values(s) /\ script[s] = <<>>
    <3>1. reader.slot = NSlots + 1 /\ NSlots \in Nat /\ (NSlots + 1) - 1 = NSlots
      BY MetricsAssumption DEF QuietInv
    <3>2. \A s \in Slots : reader.taken[s] = Values(s)
      BY <3>1 DEF QuietInv, Undisturbed, Slots
    <3>3. QED BY <3>2 DEF QuietInv
  <2>3. ASSUME NEW s \in Slots, NEW f \in FieldSet
        PROVE  Values(s) # None /\ Values(s)[f] = Final(s, f)
    <3>1. mem[s] \in [FieldSet -> Pairs]
      BY <2>1, SlotFacts
    <3>2. \A g \in FieldSet : Value(mem[s][g]) \in Nat
      BY <3>1, SplitFacts
    <3>3. Values(s) \in [FieldSet -> Nat] /\ Values(s)[f] = Value(mem[s][f])
      BY <3>2 DEF Values
    <3>4. QED BY <2>2, <3>3, FinalIdle, MetricsAssumption
  <2>4. Shards = Slots
    <3>1. \A s \in Slots : reader.taken[s] # None
      BY <2>2, <2>3, FieldFacts
    <3>2. QED BY <3>1 DEF Shards
  <2>5. ASSUME NEW f \in FieldSet, \A s \in Slots : Final(s, f) <= room
        PROVE  Total(f) = SumOf(Finals(f), Slots)
    <3>1. [s \in Shards |-> reader.taken[s][f]] = Finals(f)
      BY <2>2, <2>3, <2>4 DEF Finals
    <3>2. Total(f) = Min({SumOf(Finals(f), Slots), Largest})
      BY <2>4, <3>1 DEF Total
    <3>3. Finals(f) \in [Slots -> Nat] /\ \A s \in Slots : Finals(f)[s] <= room
      BY <2>1, <2>5, FinalsFacts
    <3>4. IsFiniteSet(Slots) /\ Cardinality(Slots) = NSlots
      BY SumFacts, FS_Interval, MetricsAssumption DEF Slots
    <3> HIDE DEF room
    <3>5. /\ SumOf(Finals(f), Slots) \in Nat
          /\ SumOf(Finals(f), Slots) <= NSlots * room
      BY <1>0, <3>3, <3>4, SumBound, SumFacts
    <3>6. PICK t \in Nat : t = SumOf(Finals(f), Slots) /\ t <= Largest
      BY <1>0, <3>5, MetricsAssumption
    <3>7. Min({t, Largest}) = t
      BY <1>0, <3>6, SmallerFirst
    <3>8. QED BY <3>2, <3>6, <3>7
  <2>6. Finals("waiting") = deferred
    <3>1. \A s \in Slots : Final(s, "waiting") = deferred[s]
      BY <2>1 DEF WaitsConsistent
    <3>2. QED BY <2>1, <3>1 DEF Finals, SumTypes
  <2>7. PICK x \in Nat, y \in Nat, z \in Nat, c \in Nat :
           /\ x = SumOf(Finals("enqueued"), Slots) /\ y = SumOf(Finals("started"), Slots)
           /\ z = SumOf(Finals("finished"), Slots) /\ c = Cardinality(held) + orphans
    <3>1. \A f \in Shared : SumOf(Finals(f), Slots) \in Nat
      BY <2>1, FinalsFacts, SharedFacts
    <3>2. Cardinality(held) + orphans \in Nat
      BY <2>1, HeldFacts DEF SumTypes
    <3>3. QED BY <3>1, <3>2, SharedFacts
  <2>8. x = y + pending /\ y = z + c /\ pending \in Nat
    <3>1. Cardinality(held) \in Nat /\ orphans \in Nat
      BY <2>1, HeldFacts DEF SumTypes
    <3>2. QED BY <2>1, <2>7, <3>1 DEF TasksConsistent, SumTypes
  <2>9. Total("enqueued") = x /\ Total("started") = y /\ Total("finished") = z
        /\ Total("waiting") = SumOf(deferred, Slots)
    <3>1. updates \in 0..MaxUpdates
      BY <2>1 DEF SumTypes
    <3>2. \A f \in Shared : \A s \in Slots : Final(s, f) <= room
      <4>1. SUFFICES ASSUME NEW f \in Shared, NEW s \in Slots PROVE Final(s, f) <= room
        OBVIOUS
      <4>2. Final(s, f) <= Base - 1 + updates
        BY <2>1 DEF TasksConsistent
      <4>3. Final(s, f) \in 0..Largest
        BY <2>1, FinalsFacts, SharedFacts
      <4>4. QED BY <1>0, <3>1, <4>2, <4>3, MetricsAssumption
    <3>3. \A s \in Slots : Final(s, "waiting") <= room
      <4>1. SUFFICES ASSUME NEW s \in Slots PROVE Final(s, "waiting") <= room
        OBVIOUS
      <4>2. Final(s, "waiting") = deferred[s] /\ deferred[s] <= updates /\ deferred[s] \in Nat
        BY <2>1 DEF WaitsConsistent, SumTypes
      <4> HIDE DEF room
      <4>3. QED BY <1>0, <3>1, <4>2, MetricsAssumption
    <3> HIDE DEF room
    <3>4. \A f \in Shared : f \in FieldSet
      BY SharedFacts
    <3>5. QED BY <2>5, <2>6, <2>7, <3>2, <3>3, <3>4, FieldFacts, SharedFacts
  <2>10. x - Min({y, x}) = pending /\ y - Min({z, y}) = c
    BY <2>8, DifferenceShown
  <2>11. QED BY <2>7, <2>9, <2>10 DEF Sample
<1> HIDE DEF Inv
<1>4. QED BY <1>1, <1>2, <1>3, PTL DEF MetricsSpec
=============================================================================

