------------------------------- MODULE Metrics -------------------------------
(***************************************************************************)
(* The counters behind the status endpoint.  Each process slot has its     *)
(* own, written by the event loop of its worker and read by whoever serves *)
(* the status, without a lock.  In a build of 32 bits a counter is two     *)
(* words and a sequence number tells readers of an update under way; in    *)
(* one of 64 bits a counter is one word and there is none.                 *)
(*                                                                         *)
(* Loads and stores are steps, in the order the barriers of the code       *)
(* force.  Of the queue there is the number of its tasks.                  *)
(***************************************************************************)
EXTENDS Naturals, Sequences, FiniteSetsExt

CONSTANTS
    NSlots,      \* NGX_MAX_PROCESSES
    Narrows,     \* TRUE for a build of 32 bits, FALSE for one of 64
    Base,        \* values of a word
    MaxTries,    \* attempts of a reader at a slot (4)
    MaxUpdates,  \* bound: updates of counters
    MaxDeaths,   \* bound: deaths of workers
    None

\* In the order they are read.
Fields == <<"enqueued", "started", "finished", "deduplicated", "waiting">>
FieldSet == {Fields[i] : i \in DOMAIN Fields}

ASSUME MetricsAssumption ==
    /\ NSlots \in Nat \ {0} /\ Base \in Nat \ {0, 1} /\ MaxTries \in Nat \ {0}
    /\ MaxUpdates \in Nat
    /\ Narrows \subseteq BOOLEAN
    /\ None \notin 1..NSlots /\ None \notin [FieldSet -> Nat]
    /\ None \notin [words : [{1, 2} -> 0..Base - 1], todo : SUBSET {1, 2}]

VARIABLES
    narrow,      \* the build is one of 32 bits
    mem,         \* the words of the counters of a slot
    seq,         \* stats->sequence
    script,      \* updates a worker has still to do, the first perhaps begun
    next,        \* words the update under way has still to store
    alive,       \* slots with a worker
    lock,        \* slot of the worker that holds the mutex of the queue, or Null
    pending, held, orphans,  \* tasks that are pending, held by workers, left behind
    deferred,    \* requests a worker has deferred
    reader,      \* the sample that is taken
    \* history
    complete,    \* counters of a slot between two updates
    broken,      \* a worker died between a change of the queue and its counters
    quiet,       \* nothing was updated since the sample began
    updates, deaths

queue == <<pending, held, orphans, deferred>>
bounds == <<updates, deaths>>
metricsVars == <<mem, seq, script, next, alive, lock, queue, reader, complete, broken, quiet, narrow, bounds>>

Slots == 1..NSlots

Largest == Base * Base - 1
Value(words) == words[1] + Base * words[2]
Split(value) == <<value % Base, value \div Base>>
Values(s) == [f \in FieldSet |-> Value(mem[s][f])]

\* Counters that have run for long: the first update carries into the upper
\* word, and one counter has reached its end.  The worker in slot 1 has begun
\* a pass and not finished it.
Aged(s, f) ==
    CASE f = "waiting" -> 0
      [] f = "deduplicated" -> Largest
      [] f = "finished" /\ s = 1 -> Base - 2
      [] OTHER -> Base - 1

MetricsInit ==
    /\ mem = [s \in Slots |-> [f \in FieldSet |-> Split(Aged(s, f))]]
    /\ narrow \in Narrows
    /\ seq = [s \in Slots |-> 0]
    /\ script = [s \in Slots |-> <<>>] /\ next = [s \in Slots |-> None]
    /\ alive = Slots /\ lock = None
    /\ pending = 0 /\ held = {1} /\ orphans = 0
    /\ deferred = [s \in Slots |-> 0]
    /\ reader = [phase |-> "idle", slot |-> 1, try |-> 0, seq |-> 0, got |-> <<>>,
                 begun |-> None, taken |-> [s \in Slots |-> None], from |-> [s \in Slots |-> None]]
    /\ complete = [s \in Slots |-> Values(s)]
    /\ broken = FALSE /\ quiet = FALSE
    /\ updates = 0 /\ deaths = 0

-----------------------------------------------------------------------------
(* Updates of counters: stat_add, stat_wait and the reset of init_worker *)

Op(field, how) == [field |-> field, how |-> how]

\* Fault: an update that does not stop at the largest value.
SaturatedMutant(v) == v + 1

Saturated(v) == IF v = Largest THEN v ELSE v + 1

Updated(op, v) ==
    CASE op.how = "add" -> Saturated(v)
      [] op.how = "take" /\ v # 0 -> v - 1
      [] OTHER -> 0

\* Fault: a successor goes on counting where its predecessor died.
OpenedMutant(op, n) == n + 1

\* The number is odd during an update; init_worker makes it odd whatever the
\* worker before left.
Opened(op, n) == IF op.how = "reset" /\ n % 2 = 1 THEN n ELSE n + 1

Idle(s) == s \in alive /\ script[s] = <<>>

Begun(s) == next[s] # None

\* The number goes up, and the old value is read.
Open(s) ==
    /\ script[s] # <<>> /\ ~Begun(s)
    /\ LET op == Head(script[s])
       IN  /\ next' = [next EXCEPT ![s] =
                          [words |-> Split(Updated(op, Value(mem[s][op.field]))), todo |-> {1, 2}]]
           /\ seq' = IF narrow \/ op.how = "reset"
                     THEN [seq EXCEPT ![s] = Opened(op, @)] ELSE seq
    /\ UNCHANGED <<mem, script, alive, lock, queue, reader, complete, broken, quiet, narrow, bounds>>

\* One word is stored, in a build of 64 bits both.
Store(s) ==
    /\ Begun(s)
    /\ LET field == Head(script[s]).field
       IN  \E words \in IF narrow THEN {{i} : i \in next[s].todo} ELSE {next[s].todo} :
              /\ words # {}
              /\ mem' = [mem EXCEPT ![s][field] =
                            [i \in {1, 2} |-> IF i \in words THEN next[s].words[i] ELSE @[i]]]
              /\ next' = [next EXCEPT ![s].todo = @ \ words]
    /\ UNCHANGED <<seq, script, alive, lock, queue, reader, complete, broken, quiet, narrow, bounds>>

\* The number is even again; the last update of a section releases the lock.
Close(s) ==
    /\ Begun(s) /\ next[s].todo = {}
    /\ seq' = IF narrow \/ Head(script[s]).how = "reset" THEN [seq EXCEPT ![s] = @ + 1] ELSE seq
    /\ script' = [script EXCEPT ![s] = Tail(@)]
    /\ next' = [next EXCEPT ![s] = None]
    /\ lock' = IF lock = s /\ Len(script[s]) = 1 THEN None ELSE lock
    /\ complete' = [complete EXCEPT ![s] = Values(s)]
    /\ UNCHANGED <<mem, alive, queue, reader, broken, quiet, narrow, bounds>>

Writer(s) == Open(s) \/ Store(s) \/ Close(s)

-----------------------------------------------------------------------------
(* What is counted *)

Count(s, ops) ==
    /\ Idle(s) /\ updates < MaxUpdates
    /\ script' = [script EXCEPT ![s] = ops]
    /\ updates' = updates + 1 /\ quiet' = FALSE
    /\ UNCHANGED <<mem, seq, next, alive, reader, complete, broken, narrow, deaths>>

InLock(s) == lock = None /\ lock' = s
NoLock == UNCHANGED lock

Admit(s) ==
    /\ Count(s, <<Op("enqueued", "add")>>) /\ InLock(s)
    /\ pending' = pending + 1
    /\ UNCHANGED <<held, orphans, deferred>>

\* The task was there; counted after the lock is given back.
Deduplicate(s) ==
    /\ Count(s, <<Op("deduplicated", "add")>>) /\ NoLock
    /\ UNCHANGED queue

\* A worker claims a task.
StartPass(s) ==
    /\ Count(s, <<Op("started", "add")>>) /\ InLock(s)
    /\ pending > 0 /\ s \notin held
    /\ pending' = pending - 1 /\ held' = held \cup {s}
    /\ UNCHANGED <<orphans, deferred>>

\* The pass is over; the task goes, or comes again.
FinishPass(s) ==
    /\ InLock(s) /\ s \in held /\ held' = held \ {s}
    /\ \/ Count(s, <<Op("finished", "add")>>) /\ UNCHANGED pending
       \/ /\ Count(s, <<Op("finished", "add"), Op("enqueued", "add")>>)
          /\ pending' = pending + 1
    /\ UNCHANGED <<orphans, deferred>>

\* Fault: a task that is recovered counts as enqueued only.
RecoveredMutant == <<Op("enqueued", "add")>>

\* For the worker that is gone the recovering one counts the end of its pass.
Recovered == <<Op("finished", "add"), Op("enqueued", "add")>>

\* A task whose worker is gone comes again.
RecoverPass(s) ==
    /\ Count(s, Recovered) /\ InLock(s)
    /\ orphans > 0
    /\ orphans' = orphans - 1 /\ pending' = pending + 1
    /\ UNCHANGED <<held, deferred>>

Defer(s) ==
    /\ Count(s, <<Op("waiting", "add")>>) /\ NoLock
    /\ deferred' = [deferred EXCEPT ![s] = @ + 1]
    /\ UNCHANGED <<pending, held, orphans>>

Undefer(s) ==
    /\ Count(s, <<Op("waiting", "take")>>) /\ NoLock
    /\ deferred[s] > 0 /\ deferred' = [deferred EXCEPT ![s] = @ - 1]
    /\ UNCHANGED <<pending, held, orphans>>

\* A worker dies, if need be inside a section or an update.
WorkerDies(s) ==
    /\ s \in alive /\ deaths < MaxDeaths /\ deaths' = deaths + 1
    /\ alive' = alive \ {s}
    /\ script' = [script EXCEPT ![s] = <<>>] /\ next' = [next EXCEPT ![s] = None]
    /\ lock' = IF lock = s THEN None ELSE lock
    /\ broken' = (broken \/ lock = s)
    /\ held' = held \ {s} /\ orphans' = IF s \in held THEN orphans + 1 ELSE orphans
    /\ deferred' = [deferred EXCEPT ![s] = 0]
    /\ quiet' = FALSE
    /\ UNCHANGED <<mem, seq, pending, reader, complete, narrow, updates>>

\* init_worker
InitWorker(s) ==
    /\ s \notin alive /\ lock = None
    /\ alive' = alive \cup {s} /\ lock' = s
    /\ script' = [script EXCEPT ![s] = <<Op("waiting", "reset")>>]
    /\ quiet' = FALSE
    /\ UNCHANGED <<mem, seq, next, queue, reader, complete, broken, narrow, bounds>>

-----------------------------------------------------------------------------
(* queue_status_snapshot *)

StartSample ==
    /\ reader.phase = "idle"
    /\ reader' = [reader EXCEPT !.phase = "slot"]
    /\ quiet' = \A s \in Slots : script[s] = <<>>
    /\ UNCHANGED <<mem, seq, script, next, alive, lock, queue, complete, broken, narrow, bounds>>

ToNextSlot(r) == [r EXCEPT !.slot = @ + 1, !.try = 0,
                           !.phase = IF r.slot = NSlots THEN "done" ELSE "slot"]

\* A slot that is busy too often is left out.
Again(r) == IF r.try + 1 = MaxTries THEN ToNextSlot(r)
            ELSE [r EXCEPT !.phase = "slot", !.try = @ + 1]

Steady == UNCHANGED <<mem, seq, script, next, alive, lock, queue, complete, broken, quiet, narrow, bounds>>

ReadSequence ==
    /\ reader.phase = "slot"
    /\ reader' = IF narrow /\ seq[reader.slot] % 2 = 1 THEN Again(reader)
                 ELSE [reader EXCEPT !.phase = "words", !.seq = seq[reader.slot], !.got = <<>>,
                                     !.begun = complete[reader.slot]]
    /\ Steady

WordsOf == 2 * Len(Fields)

ReadWord ==
    /\ reader.phase = "words" /\ Len(reader.got) < WordsOf
    /\ LET k == Len(reader.got)
           words == mem[reader.slot][Fields[(k \div 2) + 1]]
       IN  reader' = [reader EXCEPT !.got =
                         @ \o (IF narrow THEN <<words[(k % 2) + 1]>> ELSE words)]
    /\ Steady

\* What was read, by field.
Got == [f \in FieldSet |->
          LET i == CHOOSE j \in DOMAIN Fields : Fields[j] = f
          IN  Value(<<reader.got[2 * i - 1], reader.got[2 * i]>>)]

\* Fault: the number is not looked at again.
UnchangedSequenceMutant == TRUE

UnchangedSequence == ~narrow \/ seq[reader.slot] = reader.seq

Accept ==
    /\ reader.phase = "words" /\ Len(reader.got) = WordsOf
    /\ reader' = IF UnchangedSequence
                 THEN ToNextSlot([reader EXCEPT !.taken[reader.slot] = Got,
                                                !.from[reader.slot] = reader.begun])
                 ELSE Again(reader)
    /\ Steady

Reader == StartSample \/ ReadSequence \/ ReadWord \/ Accept

SumOf(f, S) == MapThenSumSet(LAMBDA s : f[s], S)

\* Slots the sample has.
Shards == {s \in Slots : reader.taken[s] # None}

\* The sum stops at the largest value, as a counter does.
Total(f) == Min({SumOf([s \in Shards |-> reader.taken[s][f]], Shards), Largest})

Sample == [pending |-> Total("enqueued") - Min({Total("started"), Total("enqueued")}),
           active  |-> Total("started") - Min({Total("finished"), Total("started")}),
           waiting |-> Total("waiting")]

-----------------------------------------------------------------------------

MetricsNext ==
    \/ \E s \in Slots : Writer(s) \/ Admit(s) \/ Deduplicate(s) \/ StartPass(s) \/ FinishPass(s)
                        \/ RecoverPass(s) \/ Defer(s) \/ Undefer(s) \/ WorkerDies(s) \/ InitWorker(s)
    \/ Reader

MetricsSpec == MetricsInit /\ [][MetricsNext]_metricsVars

-----------------------------------------------------------------------------
(* Properties *)

\* The type invariant: no counter leaves its words.
MetricsTypeOK ==
    /\ \A s \in Slots : \A f \in FieldSet : \A i \in {1, 2} : mem[s][f][i] \in 0..Base - 1
    /\ lock = None \/ lock \in alive
    /\ reader.slot \in 1..NSlots + 1 /\ reader.try \in 0..MaxTries - 1

\* In a build of 32 bits, what is taken from a slot is what its counters were
\* between two updates, never a mixture, whoever writes or dies meanwhile.
SampleWhole == narrow => \A s \in Shards : reader.taken[s] = reader.from[s]

\* While its worker updates nothing a slot can be read, even if the worker
\* before died in an update.
ReadableWhenIdle == narrow => \A s \in Slots : Idle(s) => seq[s] % 2 = 0

\* Counters stay in their words, and readable while nobody writes them.
CountersConsistent == MetricsTypeOK /\ ReadableWhenIdle

\* The counters of all slots together tell how many tasks are pending and
\* running, although one worker counts the end of what another began: a sample
\* during which nothing happens tells the truth, unless a worker that died in
\* an update has no successor.
QuietSampleExact ==
    reader.phase = "done" /\ quiet /\ ~broken /\ alive = Slots =>
        Sample = [pending |-> pending, active |-> Cardinality(held) + orphans,
                  waiting |-> SumOf(deferred, Slots)]
=============================================================================
