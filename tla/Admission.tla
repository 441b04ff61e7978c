------------------------------ MODULE Admission ------------------------------
(***************************************************************************)
(* The admission of PURGE requests to the queue: a request that finds no   *)
(* room, no memory or a lock held is deferred in its worker, tried again   *)
(* by a timer, counted in a gauge, and ends by admission, by refusal, by a *)
(* disconnect or with its worker.  Admission to the task of a namespace    *)
(* publishes an invalidation first, in the same section under the lock of  *)
(* the queue; the sections of the sweep are steps, with the ends a pass    *)
(* can have.                                                               *)
(*                                                                         *)
(* A worker that dies inside a section is not modelled (README).           *)
(***************************************************************************)
EXTENDS Naturals, FiniteSets, Sequences

CONSTANTS
    Requests,    \* PURGE requests
    Workers,     \* slots of workers
    Worker,      \* Worker[r]: the slot whose worker has request r
    Tasks,       \* index keys of tasks
    Target,      \* Target[r]: the task request r asks for
    Logical,     \* the tasks that sweep a namespace
    MaxTasks,    \* cache_purge_queue_size
    MaxRetries,  \* failed passes that are tried again (3)
    MaxLives,    \* bound: workers that ever fill a slot
    Null

ASSUME AdmissionAssumption ==
    /\ Worker \in [Requests -> Workers] /\ Target \in [Requests -> Tasks]
    /\ Logical \subseteq Tasks
    /\ MaxTasks \in Nat \ {0} /\ MaxRetries \in Nat
    /\ IsFiniteSet(Requests)
    /\ Null \notin {"ok", "error", "closed", "disconnected", "died"}
    /\ Null \notin [r : Requests, at : 1..3]

VARIABLES
    req,         \* requests: phase, timer, armed, count, result
    gauge,       \* NGX_PURGE_WAITING of a slot
    life, lives, \* life of the worker in a slot, workers it had
    section,     \* the request that holds the lock and where it is, or Null
    task,        \* state of a task
    gen,         \* last invalidation published for a namespace
    passGen,     \* the one the running or last pass began with
    walk,        \* of that pass: clean, failed, or of a namespace unknown
    retries,     \* of a task
    failed,      \* history: passes that failed one after the other since the last request
    pub          \* invalidations a request has published

tries == <<retries, failed>>
sweep == <<passGen, walk, tries>>
vars == <<req, gauge, life, lives, section, task, gen, sweep, pub>>

Running(w) == life[w] \in {"up", "quitting"}

\* The event loop of a worker runs one handler at a time.
Busy(w) == section # Null /\ Worker[section.r] = w

Init ==
    /\ req = [r \in Requests |-> [phase |-> "new", timer |-> FALSE, armed |-> FALSE,
                                  count |-> 1, result |-> Null]]
    /\ gauge = [w \in Workers |-> 0]
    /\ life = [w \in Workers |-> "up"] /\ lives = [w \in Workers |-> 1]
    /\ section = Null
    /\ task = [t \in Tasks |-> "none"]
    /\ gen = [t \in Tasks |-> 0] /\ passGen = gen /\ retries = gen /\ failed = gen
    /\ walk = [t \in Tasks |-> "clean"]
    /\ pub = [r \in Requests |-> 0]

-----------------------------------------------------------------------------
(* What becomes of a request *)

\* stat_wait with -1.
Lowered(g) == IF g # 0 THEN g - 1 ELSE 0

\* Fault: the cleanup handler stays when the request has its answer.
DisarmedMutant(q) == q

Disarmed(q) == [q EXCEPT !.armed = FALSE]

\* The request has its answer, or its connection is closed.
Settle(r, result) ==
    /\ req' = [req EXCEPT ![r] = [Disarmed(@) EXCEPT
                    !.phase = "replied", !.timer = FALSE, !.result = result]]
    /\ gauge' = IF req[r].phase = "deferred"
                THEN [gauge EXCEPT ![Worker[r]] = Lowered(@)] ELSE gauge

\* Fault: the request is not kept for the timer.
RetainedMutant(count) == count

Retained(count) == count + 1

\* The core takes its reference back when the handler has returned.
Deferred(q) == [q EXCEPT !.phase = "deferred", !.timer = TRUE, !.armed = TRUE,
                         !.count = Retained(@) - 1]

\* NGX_AGAIN: the request waits for its timer, if there is memory for that.
Wait(r) ==
    \/ /\ req[r].phase = "deferred"
       /\ req' = [req EXCEPT ![r].timer = TRUE]
       /\ UNCHANGED gauge
    \/ /\ req[r].phase = "new"
       /\ req' = [req EXCEPT ![r] = Deferred(@)]
       /\ gauge' = [gauge EXCEPT ![Worker[r]] = @ + 1]
    \/ req[r].phase = "new" /\ Settle(r, "error")

\* Fault: the cleanup handler forgets the timer.
StoppedMutant(q) == q

Stopped(q) == [q EXCEPT !.timer = FALSE]

\* The request is freed; a handler that is armed runs.
Freed(r, result) ==
    /\ req' = [req EXCEPT ![r] = [(IF @.armed THEN Stopped(@) ELSE @) EXCEPT
                    !.phase = "freed", !.armed = FALSE, !.result = result]]
    /\ gauge' = IF req[r].armed THEN [gauge EXCEPT ![Worker[r]] = Lowered(@)] ELSE gauge

-----------------------------------------------------------------------------
(* ngx_http_cache_purge_enqueue, called for a new request and by the timer *)

Due(r) ==
    /\ req[r].phase = "new" \/ (req[r].phase = "deferred" /\ req[r].timer)
    /\ Running(Worker[r]) /\ ~Busy(Worker[r])

\* Fault: a worker that is to exit goes on trying.
AbortsMutant(w) == FALSE

Aborts(w) == life[w] = "quitting"

Abort(r) ==
    /\ Due(r) /\ Aborts(Worker[r])
    /\ Settle(r, "closed")
    /\ UNCHANGED <<life, lives, section, task, gen, sweep, pub>>

LockBusy(r) ==
    /\ Due(r) /\ ~Aborts(Worker[r])
    /\ section # Null
    /\ Wait(r)
    /\ UNCHANGED <<life, lives, section, task, gen, sweep, pub>>

\* The mutex of the queue is taken.
Enter(r) ==
    /\ Due(r) /\ ~Aborts(Worker[r])
    /\ section = Null
    /\ section' = [r |-> r, at |-> 1]
    /\ req' = [req EXCEPT ![r].timer = FALSE]
    /\ UNCHANGED <<gauge, life, lives, task, gen, sweep, pub>>

Serve(r) == Abort(r) \/ LockBusy(r) \/ Enter(r)

\* Fault: the invalidation comes before the task it needs.
StepsMutant == <<"publish", "allocate", "insert">>

\* What happens in the section, in order.
Steps == <<"allocate", "publish", "insert">>

At(step) == section # Null /\ Steps[section.at] = step
Proceed == section' = [section EXCEPT !.at = @ + 1] /\ UNCHANGED <<req, gauge>>
GiveBack == section' = Null

HasCredit == Cardinality({t \in Tasks : task[t] # "none"}) < MaxTasks

\* The task is there, or there are a credit and memory for it.
Allocate ==
    LET r == section.r
        there == task[Target[r]] # "none"
    IN  /\ At("allocate")
        /\ \/ (there \/ HasCredit) /\ Proceed
           \/ ~there /\ GiveBack /\ Wait(r)
        /\ UNCHANGED <<life, lives, task, gen, sweep, pub>>

\* The invalidation of a namespace; its lock may be busy, its zone used up.
Publish ==
    LET r == section.r
        t == Target[r]
    IN  /\ At("publish")
        /\ \/ /\ t \notin Logical /\ Proceed
              /\ UNCHANGED <<gen, pub>>
           \/ /\ t \in Logical /\ Proceed
              /\ gen' = [gen EXCEPT ![t] = @ + 1]
              /\ pub' = [pub EXCEPT ![r] = @ + 1]
           \/ /\ t \in Logical /\ GiveBack
              /\ Wait(r) \/ Settle(r, "error")
              /\ UNCHANGED <<gen, pub>>
        /\ UNCHANGED <<life, lives, task, sweep>>

\* Fault: a running pass is taken to do what is asked for now.
NotedMutant(state) == IF state = "none" THEN "pending" ELSE state

\* A new task is pending, a running one will run again.
Noted(state) == IF state \in {"none", "pending"} THEN "pending" ELSE "rerun"

\* Fault: a request that joins a task has what is left of its retries.
WindowMutant(n) == n

\* "A fresh request starts a fresh bounded retry window."
Window(n) == 0

Insert ==
    LET r == section.r
        t == Target[r]
    IN  /\ At("insert")
        /\ task' = [task EXCEPT ![t] = Noted(@)]
        /\ retries' = [retries EXCEPT ![t] = Window(@)]
        /\ failed' = [failed EXCEPT ![t] = 0]
        /\ GiveBack /\ Settle(r, "ok")
        /\ UNCHANGED <<life, lives, gen, passGen, walk, pub>>

Section == Allocate \/ Publish \/ Insert

-----------------------------------------------------------------------------
(* The core: the answer is sent, or the client or the worker is gone *)

Free(r) ==
    /\ Running(Worker[r]) /\ ~Busy(Worker[r])
    /\ req[r].phase = "replied" \/ (req[r].phase = "deferred" /\ req[r].count = 0)
    /\ Freed(r, req[r].result)
    /\ UNCHANGED <<life, lives, section, task, gen, sweep, pub>>

Disconnect(r) ==
    /\ Running(Worker[r]) /\ ~Busy(Worker[r])
    /\ req[r].phase = "deferred"
    /\ Freed(r, "disconnected")
    /\ UNCHANGED <<life, lives, section, task, gen, sweep, pub>>

Quit(w) ==
    /\ life[w] = "up"
    /\ life' = [life EXCEPT ![w] = "quitting"]
    /\ UNCHANGED <<req, gauge, lives, section, task, gen, sweep, pub>>

\* A worker exits when no request and no timer of one is left.
Exit(w) ==
    /\ life[w] = "quitting" /\ ~Busy(w)
    /\ \A r \in Requests : Worker[r] = w => req[r].phase \in {"new", "freed"}
    /\ life' = [life EXCEPT ![w] = "down"]
    /\ UNCHANGED <<req, gauge, lives, section, task, gen, sweep, pub>>

\* A worker dies, and its requests with it.
Die(w) ==
    /\ Running(w) /\ ~Busy(w)
    /\ life' = [life EXCEPT ![w] = "down"]
    /\ req' = [r \in Requests |->
                  IF Worker[r] = w /\ req[r].phase \in {"deferred", "replied"}
                  THEN [req[r] EXCEPT !.phase = "freed", !.timer = FALSE, !.armed = FALSE,
                                      !.result = "died"]
                  ELSE req[r]]
    /\ UNCHANGED <<gauge, lives, section, task, gen, sweep, pub>>

\* Fault: a slot keeps the gauge of the worker it had.
FreshGaugeMutant(g) == g

FreshGauge(g) == 0

\* init_worker
Takeover(w) ==
    /\ life[w] = "down" /\ lives[w] < MaxLives /\ section = Null
    /\ life' = [life EXCEPT ![w] = "up"] /\ lives' = [lives EXCEPT ![w] = @ + 1]
    /\ gauge' = [gauge EXCEPT ![w] = FreshGauge(@)]
    /\ UNCHANGED <<req, section, task, gen, sweep, pub>>

-----------------------------------------------------------------------------
(* The sweep; a section each *)

\* A worker of a configuration without the namespace, before or after a
\* reload, may be the one to claim it; its pass is complete without a walk.
Claim(t) ==
    /\ section = Null /\ task[t] = "pending"
    /\ task' = [task EXCEPT ![t] = "running"]
    /\ passGen' = [passGen EXCEPT ![t] = gen[t]]
    /\ \/ walk' = [walk EXCEPT ![t] = "clean"]
       \/ t \in Logical /\ walk' = [walk EXCEPT ![t] = "unknown"]
    /\ UNCHANGED <<req, gauge, life, lives, section, gen, tries, pub>>

\* The pass of a task is over.
Ends(t) ==
    /\ section = Null /\ task[t] \in {"running", "rerun"}
    /\ UNCHANGED <<req, gauge, life, lives, section, gen, passGen, pub>>

Replay(t, n) ==
    /\ task' = [task EXCEPT ![t] = "pending"]
    /\ retries' = [retries EXCEPT ![t] = n]
    /\ walk' = [walk EXCEPT ![t] = "clean"]

Retire(t) ==
    /\ task' = [task EXCEPT ![t] = "none"]
    /\ retries' = [retries EXCEPT ![t] = 0]

\* A complete pass without errors.
Release(t) ==
    /\ Ends(t)
    /\ IF task[t] = "rerun" THEN Replay(t, 0) ELSE Retire(t) /\ UNCHANGED walk
    /\ failed' = [failed EXCEPT ![t] = 0]

MayRetry(t) == retries[t] < MaxRetries

\* A complete pass with errors.
FailPass(t) ==
    /\ Ends(t) /\ walk[t] = "clean"
    /\ \/ task[t] = "rerun" /\ Replay(t, 0) /\ UNCHANGED failed
       \/ /\ task[t] = "running"
          /\ IF MayRetry(t) THEN Replay(t, retries[t] + 1)
             ELSE Retire(t) /\ walk' = [walk EXCEPT ![t] = "failed"]
          /\ failed' = [failed EXCEPT ![t] = @ + 1]

\* A worker that is to exit at once gives back what it has not walked.
HandOver(t) ==
    /\ Ends(t) /\ walk[t] = "clean"
    /\ Replay(t, 0)
    /\ failed' = [failed EXCEPT ![t] = 0]

\* The worker of the pass is gone.
Recover(t) ==
    /\ Ends(t)
    /\ Replay(t, retries[t])
    /\ UNCHANGED failed

Pass(t) == Claim(t) \/ Release(t) \/ FailPass(t) \/ HandOver(t) \/ Recover(t)

-----------------------------------------------------------------------------

Next ==
    \/ \E r \in Requests : Serve(r) \/ Free(r) \/ Disconnect(r)
    \/ Section
    \/ \E w \in Workers : Quit(w) \/ Exit(w) \/ Die(w) \/ Takeover(w)
    \/ \E t \in Tasks : Pass(t)

\* Timers fire, sections end, answers are sent or time out, and a worker
\* without work exits.  Nothing is assumed of the sweep or of clients.
Fairness ==
    /\ WF_vars(Section)
    /\ \A r \in Requests :
          WF_vars(req[r].phase = "deferred" /\ Serve(r)) /\ WF_vars(Free(r))
    /\ \A w \in Workers : WF_vars(Exit(w))

Spec == Init /\ [][Next]_vars
FairSpec == Spec /\ Fairness

-----------------------------------------------------------------------------
(* Properties *)

\* The type invariant; a timer belongs to a deferred request, never to the
\* memory of a request that was freed.
TypeOK ==
    /\ \A r \in Requests :
          /\ req[r].phase \in {"new", "deferred", "replied", "freed"}
          /\ req[r].timer => req[r].phase = "deferred"
          /\ req[r].count \in {0, 1}
    /\ \A w \in Workers : gauge[w] \in 0..Cardinality(Requests)
    /\ section = Null \/ (section.r \in Requests /\ section.at \in DOMAIN Steps)
    /\ \A t \in Tasks : /\ task[t] \in {"none", "pending", "running", "rerun"}
                       /\ retries[t] \in 0..MaxRetries /\ failed[t] \in 0..MaxRetries + 1
                       /\ walk[t] \in {"clean", "failed", "unknown"}

Waiting(w) == {r \in Requests : Worker[r] = w /\ req[r].phase = "deferred"}

\* The gauge of a worker that lives counts its deferred requests: each is
\* taken off once, whether it was admitted, refused, closed or disconnected,
\* and none survives the worker.
GaugeExact == \A w \in Workers : Running(w) => gauge[w] = Cardinality(Waiting(w))

\* Every deferred request, and no other, has a timer and is counted by the
\* worker that has it.
WaitersConsistent == TypeOK /\ GaugeExact

\* No request ends without an answer while its client and its worker live;
\* one publishes its invalidation once, however often it is tried, and exactly
\* if its client is told so; a refused or abandoned one never does.
AnswersAreTrue ==
    \A r \in Requests :
        /\ req[r].phase = "freed" => req[r].result # Null
        /\ pub[r] <= 1
        /\ (section = Null \/ section.r # r) /\ req[r].result # "died"
              => (pub[r] = 1 <=> (req[r].result = "ok" /\ Target[r] \in Logical))

\* Outside of a section the task of a namespace has not ended before a pass
\* that began after its last invalidation, and a pass that began before it
\* will run again.  That last pass was without errors, or it was the last of
\* MaxRetries + 1 that failed one after the other since the last request,
\* whatever had failed before that; or it was that of a worker without the
\* namespace, which walks nothing.
SweepFollows ==
    \A t \in Logical :
        section = Null \/ Target[section.r] # t =>
            /\ task[t] \in {"none", "running"} => passGen[t] = gen[t]
            /\ task[t] = "none" /\ walk[t] = "failed" => failed[t] = MaxRetries + 1

\* A worker that is told to quit is not held up by requests that wait for
\* room, even if the sweep never makes any.
QuitEnds == \A w \in Workers : life[w] = "quitting" ~> life[w] = "down"
=============================================================================
