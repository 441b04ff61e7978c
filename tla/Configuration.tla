---------------------------- MODULE Configuration ---------------------------
(***************************************************************************)
(* Reading a configuration, at the start and at a reload: the main         *)
(* settings, the blocks one inside the other, and what the shared zones    *)
(* make of it.  A configuration is refused, and the one before it stays,   *)
(* or its workers start while those before it drain.  The zones live as    *)
(* long as nginx runs; a restart ends them.                                *)
(***************************************************************************)
EXTENDS Locations

CONSTANTS
    Files,        \* main settings that may be read
    Blocks(_, _), \* Blocks(f, kind): what a block of the kind may hold in f
    Caches,       \* cache paths
    Namespaces,
    Page, MinPages,   \* sizes of zones, in units of a task or a cache
    MaxSerial     \* bound: invalidations in a namespace

Kinds == {"http", "server", "location", "nested", "if", "limit_except"}

\* What a block holds: a content handler, purge directives, the namespace and
\* the profile of REFRESH, and the path a status endpoint names.
Switches == [Protocols -> {Unset, "on", "off"}]
Handlers ==
    {NoHandler, RefreshEndpoint, Status} \cup {Is(k, p) : k \in {"pass", "purge"}, p \in Protocols}
Written ==
    [content : Handlers, purge : Switches, key : Namespaces \cup {Null},
     profile : BOOLEAN, status : Caches \cup {Null}]

\* What it becomes when it is merged.
Settings ==
    [enable : Switches, conf : {NoConf, NullConf} \cup {Is("set", p) : p \in Protocols},
     handler : {NoHandler} \cup {Is("purge", p) : p \in Protocols}, original : Handlers,
     zone : BOOLEAN, refresh : BOOLEAN, status : Caches \cup {Null},
     key : Namespaces \cup {Null}, profile : BOOLEAN]
MergedBlocks ==
    [kind : Kinds, conf : Settings, content : Handlers \cup {Gate},
     pass : Protocols \cup {Null}, asked : SUBSET Protocols,
     endpoint : Handlers, cut : SUBSET Protocols, foreign : BOOLEAN]

Declarations == {f.namespace[ns] : f \in Files, ns \in Namespaces} \ {Null}

ASSUME ConfigurationAssumption ==
    /\ IsFiniteSet(Caches) /\ IsFiniteSet(Namespaces)
    /\ {Page, MinPages, MaxSerial} \subseteq Nat \ {0}
    /\ Null \notin Files \cup MergedBlocks
    /\ \A f \in Files : /\ f.background \in BOOLEAN /\ f.capacity \in Nat
                        /\ f.caches \subseteq Caches
                        /\ \A kind \in Kinds : Blocks(f, kind) \subseteq Written
    /\ \A d \in Declarations : d = [size |-> d.size, path |-> d.path]

\* What a block may hold: handlers are of locations, a status endpoint names its
\* path, and a nameless block holds no directive of this module.
Allowed(kind, own) ==
    /\ own.content = Status => own.status # Null
    /\ own.status # Null => own.content = Status \/ Separate(own)
    /\ kind \in {"http", "server"} => own.content = NoHandler
    /\ kind \in {"if", "limit_except"} =>
          /\ own.content = NoHandler \/ own.content.kind = "pass"
          /\ \A p \in Protocols : own.purge[p] = Unset

ASSUME BlocksAssumption ==
    \A f \in Files : \A kind \in Kinds : \A own \in Blocks(f, kind) : Allowed(kind, own)

VARIABLES
    file,      \* the main settings being read, or Null
    block,     \* the block that was merged last
    statuses,  \* cmcf->queue_status_locations: the paths they name
    running,   \* the configuration of the workers, or Null
    draining,  \* the configurations of workers that exit
    queue,     \* the zone of the queue, or Null
    zone,      \* zone[ns]: the zone of a namespace, or Null
    accepted,  \* caches with an accepted task that has not ended
    raised     \* raised[ns]: invalidations since the start

reading == <<file, block, statuses>>
shared == <<queue, zone>>
vars == <<file, block, statuses, running, draining, queue, zone, accepted, raised>>

Idle == /\ file' = Null /\ block' = Null /\ statuses' = {}

Init ==
    /\ file = Null /\ block = Null /\ statuses = {}
    /\ running = Null /\ draining = {}
    /\ queue = Null /\ zone = [ns \in Namespaces |-> Null]
    /\ accepted = {} /\ raised = [ns \in Namespaces |-> 0]

-----------------------------------------------------------------------------
(* The main settings and the zones *)

Rounded(n) == ((n + Page - 1) \div Page) * Page
ZoneSize(f) == Max({Rounded(f.capacity + Cardinality(f.caches)), MinPages * Page})

\* What a zone of the queue and one of a namespace hold.
QueueZones ==
    [size : {ZoneSize(f) : f \in Files}, capacity : Nat, paths : SUBSET Caches,
     protections : SUBSET {f.temporary : f \in Files}, tasks : SUBSET Caches]
NamespaceZones ==
    [size : {d.size : d \in Declarations}, path : {d.path : d \in Declarations}, serial : Nat]

ASSUME ZonesAssumption == Null \notin QueueZones \cup NamespaceZones

\* Fault: the size of a namespace may change.
NamespaceRefusedMutant(f) == FALSE
NamespaceRefused(f) ==
    \E ns \in Namespaces : /\ f.namespace[ns] # Null /\ zone[ns] # Null
                           /\ f.namespace[ns].size # zone[ns].size

Declared(f) == {ns \in Namespaces : f.namespace[ns] # Null}

\* Fault: the zone of the configuration before is not kept for its tasks.
WantsQueueMutant(f) == f.background \/ Declared(f) # {} \/ statuses # {}
WantsQueue(f) == f.background \/ Declared(f) # {} \/ statuses # {} \/ queue # Null

\* Fault: the zone may have another size.
MainRefusedMutant(f) == f.capacity = 0
MainRefused(f) ==
    \/ f.capacity = 0
    \/ WantsQueue(f) /\ queue # Null /\ queue.size # ZoneSize(f)

\* Fault: a namespace may be removed.
RemovalMutant(f) == FALSE
Removal(f) == \E ns \in Namespaces : zone[ns] # Null /\ ns \notin Declared(f)

PostRefused(f) == Removal(f) \/ ~(statuses \subseteq f.caches)

\* What the core gives a zone that a configuration names: the old one if the
\* size is the same.
QueueGiven(f) ==
    IF queue # Null /\ queue.size = ZoneSize(f) THEN queue
    ELSE [size |-> ZoneSize(f), capacity |-> 0, paths |-> {}, protections |-> {},
          tasks |-> {}]

\* Fault: the zone is used whatever its capacity.
CapacityRefusedMutant(f, q) == FALSE
CapacityRefused(f, q) == q.capacity # 0 /\ q.capacity # f.capacity

\* Fault: only the paths of status locations get a record.
BindsMutant(f) == statuses
Binds(f) == f.caches \cup statuses

\* What is left in the zone if it has no memory for one of its records.
Exhausted(f, q) ==
    LET missing == Binds(f) \ q.paths
    IN (IF f.temporary \in q.protections THEN {} ELSE {q})
         \cup {[q EXCEPT !.protections = @ \cup {f.temporary}, !.paths = @ \cup some] :
                  some \in SUBSET missing \ {missing}}

Bound(f, q) ==
    [q EXCEPT !.protections = @ \cup {f.temporary}, !.paths = @ \cup Binds(f),
              !.capacity = f.capacity]

\* Fault: the state path of a namespace may change.
StateRefusedMutant(f) == FALSE
StateRefused(f) ==
    \E ns \in Declared(f) : zone[ns] # Null /\ zone[ns].path # f.namespace[ns].path

ZoneGiven(f, ns) ==
    IF ns \notin Declared(f) THEN Null
    ELSE IF zone[ns] # Null /\ zone[ns].size = f.namespace[ns].size THEN zone[ns]
    ELSE [size |-> f.namespace[ns].size, path |-> f.namespace[ns].path, serial |-> 0]

-----------------------------------------------------------------------------
(* Reading *)

Refused == Idle /\ UNCHANGED <<running, draining, queue, zone, accepted, raised>>

\* The http block: its settings are read, and it is not merged with another.
ReadHttp(f, own) ==
    /\ file = Null
    /\ IF NamespaceRefused(f) \/ ParseRefused(own) \/ own.key \notin Declared(f) \cup {Null}
       THEN Refused
       ELSE /\ file' = f
            /\ block' = [kind |-> "http", conf |-> Parsed(own), content |-> NoHandler,
                         pass |-> Null, endpoint |-> NoHandler, foreign |-> FALSE,
                         asked |-> {p \in Protocols : own.purge[p] = "on"}, cut |-> {}]
            /\ UNCHANGED <<statuses, running, draining, queue, zone, accepted, raised>>

Around(kind) ==
    CASE kind = "server" -> {"http"}
      [] kind = "location" -> {"server"}
      [] OTHER -> {"location"}

Nameless(kind) == kind \in {"if", "limit_except"}

\* What the parser or, below a pass, the core has set as the content handler.
Given(kind, own) ==
    IF kind = "limit_except" /\ own.content = NoHandler /\ block.pass # Null
    THEN Is("pass", block.pass) ELSE own.content

\* A request in a nameless block without a handler keeps the one around it.
Content(kind, content) ==
    IF Nameless(kind) /\ content = NoHandler THEN block.content ELSE content

\* What a block is, seen from its directives: the pass that answers it, the
\* protocols whose purge is in force, and the endpoint it is.
PassOf(kind, own) ==
    IF own.content.kind = "pass" THEN own.content.of
    ELSE IF Nameless(kind) THEN block.pass ELSE Null

AskedOf(own) ==
    {p \in Protocols : \/ own.purge[p] = "on"
                       \/ Parsed(own).enable[p] = Unset /\ p \in block.asked}

\* Of those, the ones whose merge a block around has skipped.
CutOf(own) ==
    {p \in Protocols : /\ Parsed(own).enable[p] = Unset
                       /\ p \in block.asked
                       /\ p \in block.cut \/ block.conf.enable[p] = Unset}

EndpointOf(kind, own) ==
    IF Separate(own) \/ own.content = Status THEN own.content
    ELSE IF own.content.kind = "pass" THEN NoHandler
    ELSE IF \/ Nameless(kind)
            \/ block.endpoint = RefreshEndpoint /\ own.purge[Proxy] = Unset
            \/ block.endpoint = Status /\ \A p \in Protocols : own.purge[p] # "on"
    THEN block.endpoint ELSE NoHandler

\* A block in the one that was merged last.  A limit_except is read only where a
\* pass gives it a handler.
ReadBlock(kind, own) ==
    LET given == Given(kind, own)
        merged == Merged(own, block.conf, Nameless(kind), given)
    IN /\ block.kind \in Around(kind)
       /\ kind = "limit_except" => block.pass # Null
       /\ IF \/ ParseRefused(own) \/ own.key \notin Declared(file) \cup {Null}
             \/ MergeRefused(Inherited(Parsed(own), block.conf))
          THEN Refused
          ELSE /\ block' =
                    [kind |-> kind, conf |-> merged.conf,
                     content |-> Content(kind, merged.content),
                     pass |-> PassOf(kind, own), asked |-> AskedOf(own),
                     endpoint |-> EndpointOf(kind, own),
                     cut |-> CutOf(own),
                     foreign |-> /\ Nameless(kind) /\ own.content.kind = "pass"
                                 /\ own.content.of # block.pass]
               /\ statuses' = statuses \cup ({merged.conf.status} \ {Null})
               /\ UNCHANGED <<file, running, draining, queue, zone, accepted, raised>>

Refusal(f) ==
    \/ MainRefused(f) \/ PostRefused(f) \/ StateRefused(f)
    \/ WantsQueue(f) /\ CapacityRefused(f, QueueGiven(f))

\* The end of the file: the main settings are checked, the zones are prepared,
\* and the workers before are told to exit.  Memory may run out on the way.
ReadEnd ==
    /\ file # Null /\ block.kind \notin {"http", "server"}
    /\ \/ Refusal(file) /\ Refused
       \/ /\ ~Refusal(file) /\ WantsQueue(file)
          /\ queue' \in IF queue = Null THEN {Null} ELSE Exhausted(file, queue)
          /\ Idle /\ UNCHANGED <<running, draining, zone, accepted, raised>>
       \/ /\ ~Refusal(file)
          /\ queue' = IF WantsQueue(file) THEN Bound(file, QueueGiven(file)) ELSE Null
          /\ zone' = [ns \in Namespaces |-> ZoneGiven(file, ns)]
          /\ running' = [main |-> file, statuses |-> statuses, queue |-> WantsQueue(file)]
          /\ draining' = draining \cup ({running} \ {Null})
          /\ Idle /\ UNCHANGED <<accepted, raised>>

-----------------------------------------------------------------------------
(* Running *)

Workers == draining \cup ({running} \ {Null})

Drained(c) ==
    /\ c \in draining
    /\ draining' = draining \ {c}
    /\ UNCHANGED <<reading, running, queue, zone, accepted, raised>>

\* A worker of any configuration accepts a purge for a cache.
Accept(c, path) ==
    /\ c \in Workers /\ c.main.background /\ path \in c.main.caches
    /\ queue # Null /\ path \in queue.paths
    /\ Cardinality(queue.tasks) < queue.capacity
    /\ queue' = [queue EXCEPT !.tasks = @ \cup {path}]
    /\ accepted' = accepted \cup {path}
    /\ UNCHANGED <<reading, running, draining, zone, raised>>

\* A worker ends a task, of this configuration or of one before it.
Finish(path) ==
    /\ running # Null /\ running.queue /\ queue # Null /\ path \in queue.tasks
    /\ queue' = [queue EXCEPT !.tasks = @ \ {path}]
    /\ accepted' = accepted \ {path}
    /\ UNCHANGED <<reading, running, draining, zone, raised>>

Invalidate(c, ns) ==
    /\ c \in Workers /\ ns \in Declared(c.main) /\ zone[ns] # Null
    /\ raised[ns] < MaxSerial
    /\ zone' = [zone EXCEPT ![ns].serial = @ + 1]
    /\ raised' = [raised EXCEPT ![ns] = @ + 1]
    /\ UNCHANGED <<reading, running, draining, queue, accepted>>

\* nginx stops, and starts with a file.
Restart ==
    /\ running # Null
    /\ Idle
    /\ running' = Null /\ draining' = {} /\ queue' = Null
    /\ zone' = [ns \in Namespaces |-> Null]
    /\ accepted' = {} /\ raised' = [ns \in Namespaces |-> 0]

Next ==
    \/ \E f \in Files : \E own \in Blocks(f, "http") : ReadHttp(f, own)
    \/ /\ file # Null
       /\ \E kind \in Kinds \ {"http"} : \E own \in Blocks(file, kind) : ReadBlock(kind, own)
    \/ ReadEnd
    \/ \E c \in draining : Drained(c)
    \/ \E c \in Workers, path \in Caches : Accept(c, path)
    \/ \E path \in Caches : Finish(path)
    \/ \E c \in Workers, ns \in Namespaces : Invalidate(c, ns)
    \/ Restart

Spec == Init /\ [][Next]_vars

-----------------------------------------------------------------------------
(* Properties *)

TypeOK ==
    /\ file \in Files \cup {Null}
    /\ (file = Null) <=> (block = Null)
    /\ statuses \subseteq Caches /\ accepted \subseteq Caches
    /\ queue # Null => /\ queue.tasks \subseteq Caches
                       /\ Cardinality(queue.tasks) <= queue.capacity
    /\ raised \in [Namespaces -> 0 .. MaxSerial]

\* A purge that was accepted outlives every reload, also one that turns the
\* background queue off, renames the caches or is refused half way, and there is
\* a worker to end it: the configuration of the new workers has the queue
\* (init_main_conf, init_shm_zone).
BacklogKept ==
    accepted # {} => queue # Null /\ accepted \subseteq queue.tasks /\ running.queue

\* An invalidation outlives every reload: the namespace has the zone it was
\* raised in, and all workers, those that drain too, see the same one
\* (namespace_create, generation_init, postconfiguration).
GenerationsKept ==
    /\ \A ns \in Namespaces : raised[ns] > 0 => zone[ns] # Null /\ zone[ns].serial = raised[ns]
    /\ \A c \in Workers : \A ns \in Declared(c.main) :
          zone[ns] # Null /\ c.main.namespace[ns] = [size |-> zone[ns].size, path |-> zone[ns].path]

\* Workers of every configuration that needs the queue have it, agree on its
\* capacity, and find in it the record of each of their caches and status
\* locations and their list of protected paths (init_main_conf, bind_queue_status,
\* protection_get).
QueueCovers ==
    /\ TypeOK
    /\ \A c \in Workers :
          /\ c.main.background \/ Declared(c.main) # {} \/ c.statuses # {} => c.queue
          /\ c.queue =>
                /\ queue # Null /\ queue.capacity = c.main.capacity
                /\ c.main.caches \cup c.statuses \subseteq queue.paths
                /\ c.main.temporary \in queue.protections

Answer(method) == Outcome(block.content, block.conf, method)

InForce == block.asked \ block.cut

\* Ordinary traffic reaches the content handler of its location, whatever purge
\* directives the blocks around it hold.  Two cases differ: an `if` with a pass of
\* another protocol where a purge is in force is ignored, and a location without
\* a pass where one is inherited answers 405.
TrafficReaches ==
    block # Null /\ block.kind # "http" =>
        /\ block.pass # Null =>
              \/ Answer("GET") = Is("origin", block.pass)
              \/ block.foreign /\ InForce # {}
        /\ block.pass = Null /\ block.endpoint = NoHandler =>
              \/ Answer("GET") = Is("static", Null)
              \/ InForce # {} /\ Answer("GET") = Is("not_allowed", Null)

\* A request purges only where a directive in force asks for it, refreshes only
\* at an endpoint of REFRESH and by that method, and the method of an inline
\* directive does purge.  The first protocol in force is the one that purges,
\* and what a block around did not merge, because it was taken by an earlier
\* protocol or is an endpoint, is not in force.  A purge directive of another
\* protocol in a location nested in an endpoint of REFRESH starts a refresh
\* (astray).
PurgesWhereAsked ==
    block # Null /\ block.kind # "http" =>
        LET plain == block.endpoint = NoHandler
            endpoint == block.endpoint.kind = "purge"
            ignored == block.foreign /\ InForce # {}
            astray == block.conf.refresh /\ block.endpoint # RefreshEndpoint
        IN /\ \A m \in {"GET", "PURGE", "REFRESH"} :
                 /\ Answer(m).kind = "purge" => endpoint \/ ignored \/ (m = "PURGE" /\ InForce # {})
                 /\ Answer(m).kind = "refresh" =>
                       \/ m = "REFRESH" /\ block.endpoint = RefreshEndpoint
                       \/ astray /\ (endpoint \/ (m = "PURGE" /\ InForce # {}))
                 /\ endpoint /\ ~astray => Answer(m).kind = "purge"
                 /\ Answer(m).kind # "error"
           /\ block.endpoint = RefreshEndpoint => Answer("REFRESH").kind = "refresh"
           /\ \A i \in DOMAIN Order :
                 /\ plain /\ ~astray
                 /\ Order[i] \in InForce
                 /\ \A j \in 1 .. (i - 1) : Order[j] \notin InForce
                 => Answer("PURGE") = Is("purge", Order[i])
=============================================================================
