------------------------ MODULE ConfigurationProofs ------------------------
(***************************************************************************)
(* Proofs about Configuration, for every set of main settings and blocks   *)
(* that a file may hold, every order of the protocols, and every number of *)
(* caches and namespaces.                                                  *)
(*                                                                         *)
(* ReloadInv is about the zones and the workers over any number of         *)
(* reloads.  BlockInv relates what the merge has made of a block to what   *)
(* its directives ask for; who answers a request follows from it.          *)
(***************************************************************************)
EXTENDS Configuration, SetProofs

-----------------------------------------------------------------------------
(* Blocks *)

\* A set of places in the order of the protocols has a first one.
LEMMA FirstPlace ==
  ASSUME NEW S \in SUBSET DOMAIN Order, S # {}
  PROVE  Min(S) \in S /\ \A i \in S : Min(S) <= i
<1>1. PICK T : Order \in Seq(T)
  BY LocationsAssumption
<1>2. DOMAIN Order = 1 .. Len(Order) /\ Len(Order) \in Nat
  BY <1>1
<1>3. IsFiniteSet(1 .. Len(Order))
  BY <1>2, FS_Interval
<1>4. S \in SUBSET Int /\ S \subseteq 1 .. Len(Order)
  BY <1>2
<1>5. IsFiniteSet(S)
  BY <1>3, <1>4, FS_Subset
<1>6. QED BY <1>4, <1>5, MinFacts

\* What a handler is made of.
LEMMA HandlerParts ==
  ASSUME NEW h \in Handlers
  PROVE  /\ h = Is(h.kind, h.of)
         /\ h.kind \in {"pass", "purge"} => h.of \in Protocols
         /\ h.kind \in {"none", "refresh", "status", "pass", "purge"}
         /\ h.kind \in {"none", "refresh", "status"} => h.of = Null
BY DEF Handlers, Is, NoHandler, RefreshEndpoint, Status

\* The protocol of a separate directive.
LEMMA SeparateProtocol ==
  ASSUME NEW own \in Written, Separate(own)
  PROVE  SeparateOf(own) \in Protocols
<1>1. own.content \in Handlers
  BY DEF Written
<1>2. CASE own.content = RefreshEndpoint
  BY <1>2, LocationsAssumption DEF SeparateOf, Protocols
<1>3. CASE own.content # RefreshEndpoint
  BY <1>1, <1>3, HandlerParts DEF Separate, SeparateOf
<1>4. QED BY <1>2, <1>3

\* Parsing makes settings of a block.
LEMMA ParsedType ==
  ASSUME NEW own \in Written
  PROVE  Parsed(own) \in Settings
<1> DEFINE enable == [p \in Protocols |->
                        IF Separate(own) /\ p = SeparateOf(own) THEN "off" ELSE own.purge[p]]
           conf == IF Separate(own) THEN Is("set", SeparateOf(own)) ELSE NoConf
<1>1. own.purge \in Switches /\ own.profile \in BOOLEAN
      /\ own.status \in Caches \cup {Null} /\ own.key \in Namespaces \cup {Null}
  BY DEF Written
<1>2. enable \in Switches
  BY <1>1 DEF Switches
<1>3. conf \in {NoConf, NullConf} \cup {Is("set", p) : p \in Protocols}
  BY SeparateProtocol
<1>4. NoHandler \in Handlers
  BY DEF Handlers
<1> DEFINE zoned == Separate(own) /\ SeparateOf(own) = Proxy
           refreshes == own.content = RefreshEndpoint
<1>5. zoned \in BOOLEAN /\ refreshes \in BOOLEAN
  OBVIOUS
<1>6. Parsed(own) =
        [enable |-> enable, conf |-> conf, handler |-> NoHandler, original |-> NoHandler,
         zone |-> zoned, refresh |-> refreshes, status |-> own.status, key |-> own.key,
         profile |-> own.profile]
  BY Zenon DEF Parsed
<1> HIDE DEF enable, conf, zoned, refreshes
<1>7. QED BY <1>1, <1>2, <1>3, <1>4, <1>5, <1>6 DEF Settings

\* What a block takes from the one around it are settings again.
LEMMA InheritedType ==
  ASSUME NEW conf \in Settings, NEW prev \in Settings
  PROVE  /\ Inherited(conf, prev) \in Settings
         /\ Inherited(conf, prev).enable = conf.enable
         /\ Inherited(conf, prev).conf = conf.conf
         /\ Inherited(conf, prev).handler = conf.handler
         /\ Inherited(conf, prev).original = conf.original
         /\ Inherited(conf, prev).status = conf.status
<1> DEFINE takes == conf.enable[Proxy] = Unset /\ ~conf.zone
           key == IF conf.key = Null THEN prev.key ELSE conf.key
           zoned == conf.zone \/ (takes /\ prev.zone)
           refreshes == IF takes THEN prev.refresh ELSE conf.refresh
           profiled == conf.profile \/ prev.profile
<1>1. Inherited(conf, prev) =
        [conf EXCEPT !.key = key, !.zone = zoned, !.refresh = refreshes, !.profile = profiled]
  BY Zenon DEF Inherited
<1>2. /\ key \in Namespaces \cup {Null} /\ zoned \in BOOLEAN
      /\ refreshes \in BOOLEAN /\ profiled \in BOOLEAN
  BY DEF Settings
<1> HIDE DEF takes, key, zoned, refreshes, profiled
<1>3. QED BY <1>1, <1>2 DEF Settings

\* The first protocol in force.
LEMMA FirstProtocol ==
  ASSUME NEW on \in SUBSET DOMAIN Order, on # {}
  PROVE  Order[Min(on)] \in Protocols
<1>1. Min(on) \in DOMAIN Order
  BY FirstPlace
<1>2. QED BY <1>1 DEF Protocols, Range

\* Merging the protocols makes settings and a content handler.
LEMMA MergeProtocolsType ==
  ASSUME NEW conf \in Settings, NEW prev \in Settings, NEW noname \in BOOLEAN,
         NEW content \in Handlers
  PROVE  /\ MergeProtocols(conf, prev, noname, content).conf \in Settings
         /\ MergeProtocols(conf, prev, noname, content).conf.status = conf.status
         /\ MergeProtocols(conf, prev, noname, content).content \in Handlers \cup {Gate}
<1> DEFINE on == {i \in DOMAIN Order : Enabled(conf, prev, Order[i])}
           first == Min(on)
           all == MergeProtocols(conf, prev, noname, content)
<1>1. CASE on = {}
  <2> DEFINE off == [p \in Protocols |-> "off"]
             c == IF conf.conf = NoConf
                  THEN IF prev.conf = NoConf THEN NullConf ELSE prev.conf ELSE conf.conf
             h == IF conf.handler = NoHandler THEN prev.handler ELSE conf.handler
             o == IF conf.original = NoHandler THEN prev.original ELSE conf.original
  <2>1. /\ all.conf = [conf EXCEPT !.enable = off, !.conf = c, !.handler = h, !.original = o]
        /\ all.content = content
    BY <1>1, Zenon DEF MergeProtocols
  <2>2. off \in Switches
    BY DEF Switches
  <2>3. /\ c \in {NoConf, NullConf} \cup {Is("set", p) : p \in Protocols}
        /\ h \in {NoHandler} \cup {Is("purge", p) : p \in Protocols}
        /\ o \in Handlers
    BY DEF Settings
  <2> HIDE DEF off, c, h, o, all
  <2>4. /\ all.conf \in Settings /\ all.conf.status = conf.status
        /\ all.content \in Handlers \cup {Gate}
    BY <2>1, <2>2, <2>3 DEF Settings
  <2>5. QED BY <2>4 DEF all
<1>2. CASE on # {}
  <2> DEFINE e == [p \in Protocols |->
                     IF \E i \in DOMAIN Order : i > first /\ Order[i] = p
                     THEN conf.enable[p] ELSE IF p = Order[first] THEN "on" ELSE "off"]
             o == Original(conf, prev, noname, content, Order[first])
  <2>1. /\ all.conf = [conf EXCEPT !.enable = e, !.conf = Is("set", Order[first]),
                                   !.handler = Is("purge", Order[first]), !.original = o]
        /\ all.content = Gate
    BY <1>2, Zenon DEF MergeProtocols
  <2>2. e \in Switches
    <3>1. conf.enable \in Switches
      BY DEF Settings
    <3>2. QED BY <3>1 DEF Switches
  <2>3. o \in Handlers
    BY DEF Original, Settings
  <2>4. Order[first] \in Protocols
    BY <1>2, FirstProtocol
  <2> DEFINE k == Is("set", Order[first])
             g == Is("purge", Order[first])
  <2>7. /\ k \in {NoConf, NullConf} \cup {Is("set", p) : p \in Protocols}
        /\ g \in {NoHandler} \cup {Is("purge", p) : p \in Protocols}
    BY <2>4
  <2>8. /\ all.conf = [conf EXCEPT !.enable = e, !.conf = k, !.handler = g, !.original = o]
        /\ all.content = Gate
    BY <2>1
  <2> HIDE DEF e, o, k, g, all, first, on
  <2>5. /\ all.conf \in Settings /\ all.conf.status = conf.status
        /\ all.content \in Handlers \cup {Gate}
    BY <2>2, <2>3, <2>7, <2>8 DEF Settings
  <2>6. QED BY <2>5 DEF all
<1>3. QED BY <1>1, <1>2

\* Merging makes settings and a content handler.
LEMMA MergedType ==
  ASSUME NEW own \in Written, NEW prev \in Settings, NEW noname \in BOOLEAN,
         NEW content \in Handlers
  PROVE  /\ Merged(own, prev, noname, content).conf \in Settings
         /\ Merged(own, prev, noname, content).content \in Handlers \cup {Gate}
<1> DEFINE conf == Inherited(Parsed(own), prev)
           all == Merged(own, prev, noname, content)
<1>1. conf \in Settings
  BY ParsedType, InheritedType
<1>2. /\ conf.status \in Caches \cup {Null} /\ prev.status \in Caches \cup {Null}
      /\ conf.enable \in Switches
  BY <1>1 DEF Settings
<1>3. CASE IsStatus(conf, prev, content)
  <2> DEFINE s == IF conf.status = Null THEN prev.status ELSE conf.status
  <2>1. all.conf = [conf EXCEPT !.status = s] /\ all.content = Status
    BY <1>3, Zenon DEF Merged
  <2>2. s \in Caches \cup {Null} /\ Status \in Handlers
    BY <1>2 DEF Handlers
  <2> HIDE DEF conf, all, s
  <2>3. all.conf \in Settings /\ all.content \in Handlers \cup {Gate}
    BY <1>1, <2>1, <2>2 DEF Settings
  <2>4. QED BY <2>3 DEF all
<1>4. CASE ~IsStatus(conf, prev, content) /\ IsRefresh(conf, content)
  <2>1. /\ all.conf = [conf EXCEPT !.enable[Proxy] = "off", !.conf = Is("set", Proxy)]
        /\ all.content = RefreshEndpoint
    BY <1>4, Zenon DEF Merged
  <2> DEFINE e == [conf.enable EXCEPT ![Proxy] = "off"]
  <2>2. e \in Switches
    BY <1>2 DEF Switches
  <2>3. all.conf = [conf EXCEPT !.enable = e, !.conf = Is("set", Proxy)]
    BY <1>1, <2>1 DEF Settings
  <2>4. RefreshEndpoint \in Handlers /\ Proxy \in Protocols
    BY LocationsAssumption DEF Handlers, Protocols
  <2> DEFINE k == Is("set", Proxy)
  <2>7. k \in {NoConf, NullConf} \cup {Is("set", p) : p \in Protocols}
    BY <2>4
  <2>8. all.conf = [conf EXCEPT !.enable = e, !.conf = k] /\ all.content = RefreshEndpoint
    BY <2>1, <2>3
  <2> HIDE DEF conf, all, e, k
  <2>5. all.conf \in Settings /\ all.content \in Handlers \cup {Gate}
    BY <1>1, <2>2, <2>4, <2>7, <2>8 DEF Settings
  <2>6. QED BY <2>5 DEF all
<1>5. CASE ~IsStatus(conf, prev, content) /\ ~IsRefresh(conf, content)
  <2>1. all = MergeProtocols(conf, prev, noname, content)
    BY <1>5, Zenon DEF Merged
  <2> HIDE DEF conf, all
  <2>2. all.conf \in Settings /\ all.content \in Handlers \cup {Gate}
    BY <1>1, <2>1, MergeProtocolsType
  <2>3. QED BY <2>2 DEF all
<1>6. QED BY <1>3, <1>4, <1>5

-----------------------------------------------------------------------------
(* The invariant *)

Configurations == [main : Files, statuses : SUBSET Caches, queue : BOOLEAN]

\* What is being read: settings and a block of them, or nothing.  A namespace
\* that the settings declare has the size of its zone, if it has one: that was
\* checked when they were read, and no reload was under way since.
ReadingInv ==
    /\ file \in Files \cup {Null} /\ block \in MergedBlocks \cup {Null}
    /\ (file = Null) <=> (block = Null)
    /\ statuses \subseteq Caches
    /\ file # Null => ~NamespaceRefused(file)

\* What the zones and the workers are.
ZonesInv ==
    /\ running \in Configurations \cup {Null} /\ draining \subseteq Configurations
    /\ queue \in QueueZones \cup {Null}
    /\ zone \in [Namespaces -> NamespaceZones \cup {Null}]
    /\ accepted \subseteq Caches
    /\ raised \in [Namespaces -> 0 .. MaxSerial]

\* A zone of the queue has a configuration that uses it, holds the accepted
\* tasks, and has a capacity, which a reload compares with its own.
QueueInv ==
    /\ queue = Null => accepted = {}
    /\ queue # Null => /\ running.queue /\ accepted \subseteq queue.tasks
                       /\ queue.capacity # 0
                       /\ Cardinality(queue.tasks) <= queue.capacity

\* Only a namespace with a zone has been invalidated, and its zone counts that.
SerialInv ==
    \A ns \in Namespaces : /\ zone[ns] = Null => raised[ns] = 0
                           /\ zone[ns] # Null => zone[ns].serial = raised[ns]

SeesNamespaces(c) ==
    \A ns \in Declared(c.main) :
        zone[ns] # Null /\ c.main.namespace[ns] = [size |-> zone[ns].size, path |-> zone[ns].path]

SeesQueue(c) ==
    /\ c.main.background \/ Declared(c.main) # {} \/ c.statuses # {} => c.queue
    /\ c.queue => /\ queue # Null /\ queue.capacity = c.main.capacity
                  /\ c.main.caches \cup c.statuses \subseteq queue.paths
                  /\ c.main.temporary \in queue.protections

\* Workers of every configuration see what they need.
WorkersInv == \A c \in Workers : SeesNamespaces(c) /\ SeesQueue(c)

ReloadInv == ReadingInv /\ ZonesInv /\ QueueInv /\ SerialInv /\ WorkersInv

-----------------------------------------------------------------------------
(* Reading preserves it *)

\* The start.
LEMMA ReloadInit == Init => ReloadInv
<1> SUFFICES ASSUME Init PROVE ReloadInv
  OBVIOUS
<1>1. 0 \in 0 .. MaxSerial
  BY ConfigurationAssumption
<1>2. ReadingInv
  BY DEF Init, ReadingInv
<1>3. ZonesInv
  BY <1>1 DEF Init, ZonesInv
<1>4. QueueInv /\ SerialInv
  BY DEF Init, QueueInv, SerialInv
<1>5. WorkersInv
  BY DEF Init, WorkersInv, Workers
<1>6. QED BY <1>2, <1>3, <1>4, <1>5 DEF ReloadInv

\* A step that changes neither zones nor workers keeps what is said of them.
LEMMA SharedSame ==
  ASSUME ZonesInv, QueueInv, SerialInv, WorkersInv,
         UNCHANGED <<running, draining, queue, zone, accepted, raised>>
  PROVE  ZonesInv' /\ QueueInv' /\ SerialInv' /\ WorkersInv'
<1>1. ZonesInv' /\ QueueInv' /\ SerialInv'
  BY DEF ZonesInv, QueueInv, SerialInv
<1>2. WorkersInv'
  BY DEF WorkersInv, Workers, SeesNamespaces, SeesQueue
<1>3. QED BY <1>1, <1>2

\* Nothing is being read.
LEMMA IdleReads ==
  ASSUME Idle
  PROVE  ReadingInv'
BY DEF Idle, ReadingInv

\* The http block.
LEMMA ReadHttpReload ==
  ASSUME ReloadInv, NEW f \in Files, NEW own \in Blocks(f, "http"), ReadHttp(f, own)
  PROVE  ReloadInv'
<1>1. ReadingInv /\ ZonesInv /\ QueueInv /\ SerialInv /\ WorkersInv
  BY DEF ReloadInv
<1>2. UNCHANGED <<running, draining, queue, zone, accepted, raised>>
  BY DEF ReadHttp, Refused
<1>3. ZonesInv' /\ QueueInv' /\ SerialInv' /\ WorkersInv'
  BY <1>1, <1>2, SharedSame
<1>4. CASE Refused
  BY <1>3, <1>4, IdleReads DEF Refused, ReloadInv
<1>5. CASE ~Refused
  <2> DEFINE b == [kind |-> "http", conf |-> Parsed(own), content |-> NoHandler,
                   pass |-> Null, endpoint |-> NoHandler, foreign |-> FALSE,
                   asked |-> {p \in Protocols : own.purge[p] = "on"}, cut |-> {}]
  <2>1. ~NamespaceRefused(f) /\ file' = f /\ block' = b /\ statuses' = statuses
    BY <1>5, Zenon DEF ReadHttp
  <2>2. own \in Written
    BY ConfigurationAssumption DEF Kinds
  <2>3. b \in MergedBlocks
    <3>1. Parsed(own) \in Settings
      BY <2>2, ParsedType
    <3>2. NoHandler \in Handlers
      BY DEF Handlers
    <3>3. {p \in Protocols : own.purge[p] = "on"} \in SUBSET Protocols
      OBVIOUS
    <3>4. QED BY <3>1, <3>2, <3>3 DEF MergedBlocks, Kinds
  <2>4. f # Null /\ b # Null
    BY <2>3, ConfigurationAssumption
  <2> HIDE DEF b
  <2>5. ~NamespaceRefused(f)'
    BY <1>2, <2>1 DEF NamespaceRefused
  <2>6. ReadingInv'
    BY <1>1, <2>1, <2>3, <2>4, <2>5 DEF ReadingInv
  <2>7. QED BY <1>3, <2>6 DEF ReloadInv
<1>6. QED BY <1>4, <1>5

\* What the merge makes of a block is a block.
LEMMA BlockType ==
  ASSUME block \in MergedBlocks, NEW kind \in Kinds, NEW own \in Written,
         kind = "limit_except" => block.pass # Null
  PROVE  LET given == Given(kind, own)
             merged == Merged(own, block.conf, Nameless(kind), given)
         IN /\ given \in Handlers
            /\ merged.conf.status \in Caches \cup {Null}
            /\ [kind |-> kind, conf |-> merged.conf,
                content |-> Content(kind, merged.content),
                pass |-> PassOf(kind, own), asked |-> AskedOf(own),
                endpoint |-> EndpointOf(kind, own), cut |-> CutOf(own),
                foreign |-> /\ Nameless(kind) /\ own.content.kind = "pass"
                            /\ own.content.of # block.pass] \in MergedBlocks
<1> DEFINE given == Given(kind, own)
           merged == Merged(own, block.conf, Nameless(kind), given)
           foreign == /\ Nameless(kind) /\ own.content.kind = "pass"
                      /\ own.content.of # block.pass
<1>1. /\ block.conf \in Settings /\ block.pass \in Protocols \cup {Null}
      /\ block.content \in Handlers \cup {Gate} /\ block.endpoint \in Handlers
  BY DEF MergedBlocks
<1>2. own.content \in Handlers
  BY DEF Written
<1>3. given \in Handlers
  BY <1>1, <1>2 DEF Given, Handlers
<1>4. Nameless(kind) \in BOOLEAN /\ foreign \in BOOLEAN
  BY DEF Nameless
<1>5. merged.conf \in Settings /\ merged.content \in Handlers \cup {Gate}
  <2> HIDE DEF given
  <2>1. QED BY <1>1, <1>3, <1>4, MergedType
<1> HIDE DEF given, merged, foreign
<1>6. merged.conf.status \in Caches \cup {Null}
  BY <1>5 DEF Settings
<1>7. Content(kind, merged.content) \in Handlers \cup {Gate}
  BY <1>1, <1>5 DEF Content
<1>8. PassOf(kind, own) \in Protocols \cup {Null}
  BY <1>1, <1>2, HandlerParts DEF PassOf
<1>9. AskedOf(own) \in SUBSET Protocols /\ CutOf(own) \in SUBSET Protocols
  BY DEF AskedOf, CutOf
<1>10. EndpointOf(kind, own) \in Handlers
  <2>1. NoHandler \in Handlers
    BY DEF Handlers
  <2>2. QED BY <1>1, <1>2, <2>1 DEF EndpointOf
<1>11. [kind |-> kind, conf |-> merged.conf,
        content |-> Content(kind, merged.content),
        pass |-> PassOf(kind, own), asked |-> AskedOf(own),
        endpoint |-> EndpointOf(kind, own), cut |-> CutOf(own),
        foreign |-> foreign] \in MergedBlocks
  BY <1>4, <1>5, <1>7, <1>8, <1>9, <1>10 DEF MergedBlocks
<1>12. QED BY <1>3, <1>6, <1>11 DEF given, merged, foreign

\* A block in the one that was merged last.
LEMMA ReadBlockReload ==
  ASSUME ReloadInv, file # Null, NEW kind \in Kinds, NEW own \in Blocks(file, kind),
         ReadBlock(kind, own)
  PROVE  ReloadInv'
<1> DEFINE merged == Merged(own, block.conf, Nameless(kind), Given(kind, own))
           b == [kind |-> kind, conf |-> merged.conf,
                 content |-> Content(kind, merged.content),
                 pass |-> PassOf(kind, own), asked |-> AskedOf(own),
                 endpoint |-> EndpointOf(kind, own), cut |-> CutOf(own),
                 foreign |-> /\ Nameless(kind) /\ own.content.kind = "pass"
                             /\ own.content.of # block.pass]
<1>1. ReadingInv /\ ZonesInv /\ QueueInv /\ SerialInv /\ WorkersInv
  BY DEF ReloadInv
<1>2. UNCHANGED <<running, draining, queue, zone, accepted, raised>>
  BY DEF ReadBlock, Refused
<1>3. ZonesInv' /\ QueueInv' /\ SerialInv' /\ WorkersInv'
  BY <1>1, <1>2, SharedSame
<1>4. CASE Refused
  BY <1>3, <1>4, IdleReads DEF Refused, ReloadInv
<1>5. CASE ~Refused
  <2>1. /\ block' = b /\ statuses' = statuses \cup ({merged.conf.status} \ {Null})
        /\ UNCHANGED file
    BY <1>5, Zenon DEF ReadBlock
  <2>2. file \in Files /\ block \in MergedBlocks /\ statuses \subseteq Caches
    BY <1>1 DEF ReadingInv
  <2>3. own \in Written
    BY <2>2, ConfigurationAssumption
  <2>4. kind = "limit_except" => block.pass # Null
    BY DEF ReadBlock
  <2>5. b \in MergedBlocks /\ merged.conf.status \in Caches \cup {Null}
    BY <2>2, <2>3, <2>4, BlockType
  <2>6. b # Null
    BY <2>5, ConfigurationAssumption
  <2> HIDE DEF b, merged
  <2>7. ~NamespaceRefused(file)'
    BY <1>1, <1>2, <2>1 DEF NamespaceRefused, ReadingInv
  <2>8. ReadingInv'
    BY <2>1, <2>2, <2>5, <2>6, <2>7 DEF ReadingInv
  <2>9. QED BY <1>3, <2>8 DEF ReloadInv
<1>6. QED BY <1>4, <1>5

-----------------------------------------------------------------------------
(* A reload preserves it *)

\* A worker sees the same of a queue that has kept its capacity and more.
LEMMA QueueSeen ==
  ASSUME NEW c, SeesQueue(c), queue' # Null,
         queue # Null => /\ queue'.capacity = queue.capacity
                         /\ queue.paths \subseteq queue'.paths
                         /\ queue.protections \subseteq queue'.protections
  PROVE  SeesQueue(c)'
BY DEF SeesQueue, Declared

\* What a reload that runs out of memory leaves in the zone.
LEMMA ExhaustedQueue ==
  ASSUME NEW f \in Files, NEW s \in SUBSET Caches, statuses = s, NEW q \in QueueZones,
         NEW r \in Exhausted(f, q)
  PROVE  /\ r \in QueueZones /\ r.capacity = q.capacity /\ r.tasks = q.tasks
         /\ q.paths \subseteq r.paths /\ q.protections \subseteq r.protections
<1>1. CASE r = q
  BY <1>1
<1>2. CASE r # q
  <2> DEFINE missing == Binds(f) \ q.paths
             ps == q.protections \cup {f.temporary}
  <2>1. PICK some \in SUBSET missing \ {missing} :
           r = [q EXCEPT !.protections = q.protections \cup {f.temporary},
                         !.paths = q.paths \cup some]
    BY <1>2 DEF Exhausted, QueueZones
  <2>2. some \subseteq Caches
    BY <2>1, ConfigurationAssumption DEF Binds
  <2>3. ps \in SUBSET {g.temporary : g \in Files}
    BY DEF QueueZones
  <2>4. q.paths \cup some \in SUBSET Caches
    BY <2>2 DEF QueueZones
  <2>5. r = [q EXCEPT !.protections = ps, !.paths = q.paths \cup some]
    BY <2>1
  <2> HIDE DEF ps, missing
  <2>6. r \in QueueZones
    BY <2>3, <2>4, <2>5 DEF QueueZones
  <2>7. r.capacity = q.capacity /\ r.tasks = q.tasks /\ q.paths \subseteq r.paths
    BY <2>5 DEF QueueZones
  <2>8. r.protections = ps
    BY <2>5 DEF QueueZones
  <2>9. QED BY <2>6, <2>7, <2>8 DEF ps
<1>3. QED BY <1>1, <1>2

\* The end of a file for which there is no memory.
LEMMA ExhaustedReload ==
  ASSUME ReloadInv, file # Null, Idle,
         queue' \in IF queue = Null THEN {Null} ELSE Exhausted(file, queue),
         UNCHANGED <<running, draining, zone, accepted, raised>>
  PROVE  ReloadInv'
<1>1. ReadingInv /\ ZonesInv /\ QueueInv /\ SerialInv /\ WorkersInv
  BY DEF ReloadInv
<1>2. ReadingInv'
  BY IdleReads
<1>3. CASE queue = Null
  <2>1. queue' = queue
    BY <1>3
  <2>2. QED BY <1>1, <1>2, <2>1, SharedSame DEF ReloadInv
<1>4. CASE queue # Null
  <2>1. file \in Files /\ queue \in QueueZones /\ statuses \in SUBSET Caches
    BY <1>1, <1>4 DEF ReadingInv, ZonesInv
  <2>2. queue' \in Exhausted(file, queue)
    BY <1>4
  <2>3. /\ queue' \in QueueZones /\ queue'.capacity = queue.capacity
        /\ queue'.tasks = queue.tasks
        /\ queue.paths \subseteq queue'.paths /\ queue.protections \subseteq queue'.protections
    <3>1. PICK q : q = queue'
      OBVIOUS
    <3>2. PICK s : s = statuses
      OBVIOUS
    <3>3. QED BY <2>1, <2>2, <3>1, <3>2, ExhaustedQueue
  <2>4. queue' # Null
    BY <2>3, ZonesAssumption
  <2>5. ZonesInv'
    BY <1>1, <2>3 DEF ZonesInv
  <2>6. QueueInv'
    BY <1>1, <1>4, <2>3, <2>4 DEF QueueInv
  <2>7. SerialInv'
    BY <1>1 DEF SerialInv
  <2>8. WorkersInv'
    <3>1. SUFFICES ASSUME NEW c \in Workers PROVE SeesNamespaces(c)' /\ SeesQueue(c)'
      BY DEF WorkersInv, Workers
    <3>2. SeesNamespaces(c) /\ SeesQueue(c)
      BY <1>1 DEF WorkersInv
    <3>3. SeesNamespaces(c)'
      BY <3>2 DEF SeesNamespaces, Declared
    <3>4. QED BY <2>3, <2>4, <3>2, <3>3, QueueSeen
  <2>9. QED BY <1>2, <2>5, <2>6, <2>7, <2>8 DEF ReloadInv
<1>5. QED BY <1>3, <1>4

\* What a reload that is not refused makes of the queue.  It has the records of
\* the new configuration, and of a queue that was there it has the tasks, the
\* records and the capacity.
LEMMA QueueMade ==
  ASSUME ReadingInv, ZonesInv, QueueInv, file # Null, ~Refusal(file), WantsQueue(file),
         NEW q, q = Bound(file, QueueGiven(file))
  PROVE  /\ q \in QueueZones
         /\ q.capacity = file.capacity /\ q.capacity # 0
         /\ file.caches \cup statuses \subseteq q.paths /\ file.temporary \in q.protections
         /\ Cardinality(q.tasks) <= q.capacity
         /\ queue # Null => /\ q.capacity = queue.capacity /\ q.tasks = queue.tasks
                            /\ queue.paths \subseteq q.paths
                            /\ queue.protections \subseteq q.protections
<1> DEFINE g == QueueGiven(file)
           ps == g.protections \cup {file.temporary}
           bs == g.paths \cup Binds(file)
<1>1. /\ file \in Files /\ statuses \subseteq Caches
      /\ file.capacity \in Nat /\ file.caches \subseteq Caches
  BY ConfigurationAssumption DEF ReadingInv
<1>2. /\ file.capacity # 0 /\ ~CapacityRefused(file, g)
      /\ queue # Null => queue.size = ZoneSize(file)
  BY DEF Refusal, MainRefused
<1>3. CASE queue = Null
  <2>1. g = [size |-> ZoneSize(file), capacity |-> 0, paths |-> {}, protections |-> {},
             tasks |-> {}]
    BY <1>3 DEF QueueGiven
  <2>2. ZoneSize(file) \in {ZoneSize(f) : f \in Files}
    BY <1>1
  <2>3. g \in QueueZones /\ g.tasks = {}
    BY <2>1, <2>2 DEF QueueZones
  <2>4. Cardinality({}) = 0
    BY FS_EmptySet
  <2>5. q = [g EXCEPT !.protections = ps, !.paths = bs, !.capacity = file.capacity]
    BY <2>3 DEF Bound, QueueZones
  <2>6. ps \in SUBSET {f.temporary : f \in Files} /\ bs \in SUBSET Caches
    BY <1>1, <2>3 DEF QueueZones, Binds
  <2>7. file.caches \cup statuses \subseteq bs /\ file.temporary \in ps
    BY DEF Binds
  <2> HIDE DEF g, ps, bs
  <2>8. /\ q \in QueueZones /\ q.capacity = file.capacity
        /\ q.paths = bs /\ q.protections = ps /\ q.tasks = {}
    BY <1>1, <2>3, <2>5, <2>6 DEF QueueZones
  <2>9. QED BY <1>1, <1>2, <1>3, <2>4, <2>7, <2>8
<1>4. CASE queue # Null
  <2>1. g = queue /\ g \in QueueZones
    BY <1>2, <1>4 DEF QueueGiven, ZonesInv
  <2>2. g.capacity = file.capacity /\ Cardinality(g.tasks) <= g.capacity
    BY <1>2, <1>4, <2>1 DEF CapacityRefused, QueueInv
  <2>3. q = [g EXCEPT !.protections = ps, !.paths = bs, !.capacity = file.capacity]
    BY <2>1 DEF Bound, QueueZones
  <2>4. ps \in SUBSET {f.temporary : f \in Files} /\ bs \in SUBSET Caches
    BY <1>1, <2>1 DEF QueueZones, Binds
  <2>5. /\ file.caches \cup statuses \subseteq bs /\ file.temporary \in ps
        /\ g.paths \subseteq bs /\ g.protections \subseteq ps
    BY DEF Binds
  <2> HIDE DEF g, ps, bs
  <2>6. /\ q \in QueueZones /\ q.capacity = file.capacity
        /\ q.paths = bs /\ q.protections = ps /\ q.tasks = g.tasks
    BY <1>1, <2>1, <2>3, <2>4 DEF QueueZones
  <2>7. QED BY <1>2, <2>1, <2>2, <2>5, <2>6
<1>5. QED BY <1>3, <1>4

\* What it makes of the zone of a namespace: a zone that is there is kept.
LEMMA ZoneMade ==
  ASSUME ReadingInv, ZonesInv, file # Null, ~Refusal(file), NEW ns \in Namespaces
  PROVE  /\ ZoneGiven(file, ns) \in NamespaceZones \cup {Null}
         /\ zone[ns] # Null => ZoneGiven(file, ns) = zone[ns]
         /\ zone[ns] = Null /\ ZoneGiven(file, ns) # Null => ZoneGiven(file, ns).serial = 0
         /\ ns \in Declared(file) =>
               /\ ZoneGiven(file, ns) # Null
               /\ file.namespace[ns] = [size |-> ZoneGiven(file, ns).size,
                                        path |-> ZoneGiven(file, ns).path]
<1> DEFINE d == file.namespace[ns]
           z == [size |-> d.size, path |-> d.path, serial |-> 0]
<1>1. file \in Files /\ ~NamespaceRefused(file) /\ ~Removal(file) /\ ~StateRefused(file)
  BY DEF ReadingInv, Refusal, PostRefused
<1>2. zone[ns] \in NamespaceZones \cup {Null}
  BY DEF ZonesInv
<1>3. CASE ns \notin Declared(file)
  <2>1. ZoneGiven(file, ns) = Null /\ zone[ns] = Null
    BY <1>1, <1>3 DEF ZoneGiven, Removal
  <2>2. QED BY <1>3, <2>1
<1>4. CASE ns \in Declared(file)
  <2>1. d \in Declarations
    BY <1>1, <1>4 DEF Declared, Declarations
  <2>2. d = [size |-> d.size, path |-> d.path]
    BY <2>1, ConfigurationAssumption
  <2>3. CASE zone[ns] # Null
    <3>1. zone[ns].size = d.size /\ zone[ns].path = d.path
      BY <1>1, <1>4, <2>3 DEF NamespaceRefused, StateRefused, Declared
    <3>2. ZoneGiven(file, ns) = zone[ns]
      BY <1>4, <2>3, <3>1 DEF ZoneGiven
    <3>3. QED BY <1>2, <2>2, <2>3, <3>1, <3>2
  <2>4. CASE zone[ns] = Null
    <3>1. ZoneGiven(file, ns) = z
      BY <1>4, <2>4 DEF ZoneGiven
    <3>2. z \in NamespaceZones
      <4>1. d.size \in {e.size : e \in Declarations} /\ d.path \in {e.path : e \in Declarations}
        BY <2>1
      <4> HIDE DEF d
      <4>2. QED BY <4>1 DEF NamespaceZones
    <3>3. z # Null
      BY <3>2, ZonesAssumption
    <3>4. z.size = d.size /\ z.path = d.path /\ z.serial = 0
      OBVIOUS
    <3> HIDE DEF z
    <3>5. QED BY <2>2, <2>4, <3>1, <3>2, <3>3, <3>4
  <2>5. QED BY <2>3, <2>4
<1>5. QED BY <1>3, <1>4

\* The end of a file that is taken.
LEMMA TakenReload ==
  ASSUME ReloadInv, file # Null, Idle, ~Refusal(file),
         queue' = IF WantsQueue(file) THEN Bound(file, QueueGiven(file)) ELSE Null,
         zone' = [ns \in Namespaces |-> ZoneGiven(file, ns)],
         running' = [main |-> file, statuses |-> statuses, queue |-> WantsQueue(file)],
         draining' = draining \cup ({running} \ {Null}),
         UNCHANGED <<accepted, raised>>
  PROVE  ReloadInv'
<1>1. ReadingInv /\ ZonesInv /\ QueueInv /\ SerialInv /\ WorkersInv
  BY DEF ReloadInv
<1>2. ReadingInv'
  BY IdleReads
<1>3. file \in Files /\ statuses \subseteq Caches /\ file.background \in BOOLEAN
  BY <1>1, ConfigurationAssumption DEF ReadingInv
<1>4. WantsQueue(file) \in BOOLEAN
  BY <1>3 DEF WantsQueue
<1>5. /\ running'.main = file /\ running'.statuses = statuses
      /\ running'.queue = WantsQueue(file) /\ running' \in Configurations
  BY <1>3, <1>4 DEF Configurations
<1>6. queue # Null => WantsQueue(file)
  BY DEF WantsQueue
<1>7. WantsQueue(file) =>
        /\ queue' \in QueueZones /\ queue' # Null
        /\ queue'.capacity = file.capacity /\ queue'.capacity # 0
        /\ file.caches \cup statuses \subseteq queue'.paths
        /\ file.temporary \in queue'.protections
        /\ Cardinality(queue'.tasks) <= queue'.capacity
        /\ queue # Null => /\ queue'.capacity = queue.capacity /\ queue'.tasks = queue.tasks
                           /\ queue.paths \subseteq queue'.paths
                           /\ queue.protections \subseteq queue'.protections
  <2> SUFFICES ASSUME WantsQueue(file)
               PROVE  /\ queue' \in QueueZones /\ queue' # Null
                      /\ queue'.capacity = file.capacity /\ queue'.capacity # 0
                      /\ file.caches \cup statuses \subseteq queue'.paths
                      /\ file.temporary \in queue'.protections
                      /\ Cardinality(queue'.tasks) <= queue'.capacity
                      /\ queue # Null =>
                            /\ queue'.capacity = queue.capacity /\ queue'.tasks = queue.tasks
                            /\ queue.paths \subseteq queue'.paths
                            /\ queue.protections \subseteq queue'.protections
    OBVIOUS
  <2>1. PICK q : q = queue'
    OBVIOUS
  <2>2. q = Bound(file, QueueGiven(file))
    BY <2>1
  <2>3. q \in QueueZones
    BY <1>1, <2>2, QueueMade
  <2>4. q # Null
    BY <2>3, ZonesAssumption
  <2>5. QED BY <1>1, <2>1, <2>2, <2>4, QueueMade
<1>8. ~WantsQueue(file) => queue' = Null /\ queue = Null
  BY <1>6
<1>9. \A ns \in Namespaces :
        /\ zone'[ns] \in NamespaceZones \cup {Null}
        /\ zone[ns] # Null => zone'[ns] = zone[ns]
        /\ zone[ns] = Null /\ zone'[ns] # Null => zone'[ns].serial = 0
        /\ ns \in Declared(file) =>
              /\ zone'[ns] # Null
              /\ file.namespace[ns] = [size |-> zone'[ns].size, path |-> zone'[ns].path]
  <2>1. SUFFICES ASSUME NEW ns \in Namespaces
                 PROVE  /\ zone'[ns] \in NamespaceZones \cup {Null}
                        /\ zone[ns] # Null => zone'[ns] = zone[ns]
                        /\ zone[ns] = Null /\ zone'[ns] # Null => zone'[ns].serial = 0
                        /\ ns \in Declared(file) =>
                              /\ zone'[ns] # Null
                              /\ file.namespace[ns] = [size |-> zone'[ns].size,
                                                       path |-> zone'[ns].path]
    OBVIOUS
  <2>2. zone'[ns] = ZoneGiven(file, ns)
    OBVIOUS
  <2>3. QED BY <1>1, <2>2, ZoneMade
<1>10. ZonesInv'
  <2>1. zone' \in [Namespaces -> NamespaceZones \cup {Null}]
    BY <1>9
  <2>2. draining' \subseteq Configurations
    BY <1>1 DEF ZonesInv
  <2>3. queue' \in QueueZones \cup {Null}
    BY <1>7, <1>8
  <2>4. QED BY <1>1, <1>5, <2>1, <2>2, <2>3 DEF ZonesInv
<1>11. QueueInv'
  <2>1. CASE ~WantsQueue(file)
    BY <1>1, <1>8, <2>1 DEF QueueInv
  <2>2. CASE WantsQueue(file)
    <3>1. accepted \subseteq queue'.tasks
      BY <1>1, <1>7, <2>2 DEF QueueInv
    <3>2. QED BY <1>5, <1>7, <2>2, <3>1 DEF QueueInv
  <2>3. QED BY <2>1, <2>2
<1>12. SerialInv'
  BY <1>1, <1>9 DEF SerialInv
<1>13. WorkersInv'
  <2>1. Workers' \subseteq Workers \cup {running'}
    BY DEF Workers
  <2>2. ASSUME NEW c \in Workers PROVE SeesNamespaces(c)' /\ SeesQueue(c)'
    <3>1. SeesNamespaces(c) /\ SeesQueue(c)
      BY <1>1 DEF WorkersInv
    <3>2. SeesNamespaces(c)'
      BY <1>9, <3>1 DEF SeesNamespaces, Declared
    <3>3. SeesQueue(c)'
      <4>1. CASE WantsQueue(file)
        BY <1>7, <3>1, <4>1, QueueSeen
      <4>2. CASE ~WantsQueue(file)
        BY <1>8, <3>1, <4>2 DEF SeesQueue, Declared
      <4>3. QED BY <4>1, <4>2
    <3>4. QED BY <3>2, <3>3
  <2>3. \A c : c = running' => SeesNamespaces(c)' /\ SeesQueue(c)'
    <3>1. SUFFICES ASSUME NEW c, c = running' PROVE SeesNamespaces(c)' /\ SeesQueue(c)'
      OBVIOUS
    <3>2. c.main = file /\ c.statuses = statuses /\ c.queue = WantsQueue(file)
      BY <1>5, <3>1
    <3>3. PICK f : f = file
      OBVIOUS
    <3>4. PICK s : s = statuses
      OBVIOUS
    <3>5. SeesNamespaces(c)'
      BY <1>9, <3>2, <3>3 DEF SeesNamespaces, Declared
    <3>6. f.background \/ Declared(f) # {} \/ s # {} => WantsQueue(file)
      BY <3>3, <3>4 DEF WantsQueue
    <3>7. SeesQueue(c)'
      BY <1>7, <3>2, <3>3, <3>4, <3>6 DEF SeesQueue, Declared
    <3>8. QED BY <3>5, <3>7
  <2>4. QED BY <2>1, <2>2, <2>3 DEF WorkersInv
<1>14. QED BY <1>2, <1>10, <1>11, <1>12, <1>13 DEF ReloadInv

-----------------------------------------------------------------------------
(* The workers preserve it *)

\* The workers of a configuration have drained.
LEMMA DrainedReload ==
  ASSUME ReloadInv, NEW c \in draining, Drained(c)
  PROVE  ReloadInv'
<1>1. ReadingInv /\ ZonesInv /\ QueueInv /\ SerialInv /\ WorkersInv
  BY DEF ReloadInv
<1>2. /\ draining' = draining \ {c}
      /\ UNCHANGED <<file, block, statuses, running, queue, zone, accepted, raised>>
  BY DEF Drained, reading
<1>3. ReadingInv'
  BY <1>1, <1>2 DEF ReadingInv, NamespaceRefused
<1>4. ZonesInv' /\ QueueInv' /\ SerialInv'
  BY <1>1, <1>2 DEF ZonesInv, QueueInv, SerialInv
<1>5. WorkersInv'
  BY <1>1, <1>2 DEF WorkersInv, Workers, SeesNamespaces, SeesQueue
<1>6. QED BY <1>3, <1>4, <1>5 DEF ReloadInv

\* A step that changes only the tasks keeps what is said of the rest.
LEMMA TasksOnly ==
  ASSUME ReloadInv, queue # Null, NEW tasks \in SUBSET Caches,
         queue' = [queue EXCEPT !.tasks = tasks],
         Cardinality(tasks) <= queue.capacity, accepted' \subseteq tasks, running.queue,
         UNCHANGED <<file, block, statuses, running, draining, zone, raised>>
  PROVE  ReloadInv'
<1>1. ReadingInv /\ ZonesInv /\ QueueInv /\ SerialInv /\ WorkersInv
  BY DEF ReloadInv
<1>2. queue \in QueueZones
  BY <1>1 DEF ZonesInv
<1>3. /\ queue' \in QueueZones /\ queue'.tasks = tasks
      /\ queue'.capacity = queue.capacity /\ queue'.paths = queue.paths
      /\ queue'.protections = queue.protections
  BY <1>2 DEF QueueZones
<1>4. queue' # Null
  BY <1>3, ZonesAssumption
<1>5. ReadingInv'
  BY <1>1 DEF ReadingInv, NamespaceRefused
<1>6. ZonesInv'
  BY <1>1, <1>3 DEF ZonesInv
<1>7. QueueInv'
  BY <1>1, <1>3, <1>4 DEF QueueInv
<1>8. SerialInv'
  BY <1>1 DEF SerialInv
<1>9. WorkersInv'
  <2>1. SUFFICES ASSUME NEW c \in Workers PROVE SeesNamespaces(c)' /\ SeesQueue(c)'
    BY DEF WorkersInv, Workers
  <2>2. SeesNamespaces(c) /\ SeesQueue(c)
    BY <1>1 DEF WorkersInv
  <2>3. SeesNamespaces(c)'
    BY <2>2 DEF SeesNamespaces, Declared
  <2>4. QED BY <1>3, <1>4, <2>2, <2>3, QueueSeen
<1>10. QED BY <1>5, <1>6, <1>7, <1>8, <1>9 DEF ReloadInv

\* A worker accepts a purge.
LEMMA AcceptReload ==
  ASSUME ReloadInv, NEW c \in Workers, NEW path \in Caches, Accept(c, path)
  PROVE  ReloadInv'
<1> DEFINE tasks == queue.tasks \cup {path}
<1>1. /\ queue # Null /\ Cardinality(queue.tasks) < queue.capacity
      /\ queue' = [queue EXCEPT !.tasks = tasks] /\ accepted' = accepted \cup {path}
      /\ UNCHANGED <<file, block, statuses, running, draining, zone, raised>>
  BY DEF Accept, reading
<1>2. queue \in QueueZones /\ running.queue /\ accepted \subseteq queue.tasks
  BY <1>1 DEF ReloadInv, ZonesInv, QueueInv
<1>3. queue.tasks \in SUBSET Caches /\ queue.capacity \in Nat
  BY <1>2 DEF QueueZones
<1>4. IsFiniteSet(queue.tasks)
  BY <1>3, FS_Subset, ConfigurationAssumption
<1>5. /\ Cardinality(queue.tasks) \in Nat
      /\ Cardinality(tasks) = IF path \in queue.tasks THEN Cardinality(queue.tasks)
                              ELSE Cardinality(queue.tasks) + 1
  BY <1>4, FS_AddElement, FS_CardinalityType
<1>6. Cardinality(tasks) <= queue.capacity
  <2> HIDE DEF tasks
  <2>1. QED BY <1>1, <1>3, <1>5
<1>7. tasks \in SUBSET Caches /\ accepted' \subseteq tasks
  BY <1>1, <1>2, <1>3
<1> HIDE DEF tasks
<1>8. PICK t : t = tasks
  OBVIOUS
<1>9. QED BY <1>1, <1>2, <1>6, <1>7, <1>8, TasksOnly

\* A worker ends a task.
LEMMA FinishReload ==
  ASSUME ReloadInv, NEW path \in Caches, Finish(path)
  PROVE  ReloadInv'
<1> DEFINE tasks == queue.tasks \ {path}
<1>1. /\ queue # Null /\ running.queue
      /\ queue' = [queue EXCEPT !.tasks = tasks] /\ accepted' = accepted \ {path}
      /\ UNCHANGED <<file, block, statuses, running, draining, zone, raised>>
  BY DEF Finish, reading
<1>2. /\ queue \in QueueZones /\ accepted \subseteq queue.tasks
      /\ Cardinality(queue.tasks) <= queue.capacity
  BY <1>1 DEF ReloadInv, ZonesInv, QueueInv
<1>3. queue.tasks \in SUBSET Caches /\ queue.capacity \in Nat
  BY <1>2 DEF QueueZones
<1>4. IsFiniteSet(queue.tasks)
  BY <1>3, FS_Subset, ConfigurationAssumption
<1>5. tasks \subseteq queue.tasks
  OBVIOUS
<1>6. /\ Cardinality(tasks) \in Nat /\ Cardinality(queue.tasks) \in Nat
      /\ Cardinality(tasks) <= Cardinality(queue.tasks)
  <2>1. IsFiniteSet(tasks) /\ Cardinality(tasks) <= Cardinality(queue.tasks)
    BY <1>4, <1>5, FS_Subset
  <2>2. QED BY <1>4, <2>1, FS_CardinalityType
<1>7. tasks \in SUBSET Caches /\ accepted' \subseteq tasks
  BY <1>1, <1>2, <1>3
<1> HIDE DEF tasks
<1>8. Cardinality(tasks) <= queue.capacity
  BY <1>2, <1>3, <1>6
<1>9. PICK t : t = tasks
  OBVIOUS
<1>10. QED BY <1>1, <1>7, <1>8, <1>9, TasksOnly

\* A worker invalidates a namespace.
LEMMA InvalidateReload ==
  ASSUME ReloadInv, NEW c \in Workers, NEW ns \in Namespaces, Invalidate(c, ns)
  PROVE  ReloadInv'
<1>1. ReadingInv /\ ZonesInv /\ QueueInv /\ SerialInv /\ WorkersInv
  BY DEF ReloadInv
<1>2. /\ zone[ns] # Null /\ raised[ns] < MaxSerial
      /\ zone' = [zone EXCEPT ![ns].serial = @ + 1]
      /\ raised' = [raised EXCEPT ![ns] = @ + 1]
      /\ UNCHANGED <<file, block, statuses, running, draining, queue, accepted>>
  BY DEF Invalidate, reading
<1>3. zone \in [Namespaces -> NamespaceZones \cup {Null}]
      /\ raised \in [Namespaces -> 0 .. MaxSerial] /\ MaxSerial \in Nat
  BY <1>1, ConfigurationAssumption DEF ZonesInv
<1> DEFINE z == [zone[ns] EXCEPT !.serial = @ + 1]
<1>4. zone[ns] \in NamespaceZones /\ raised[ns] \in 0 .. MaxSerial
  BY <1>2, <1>3
<1>5. /\ z \in NamespaceZones /\ z.size = zone[ns].size /\ z.path = zone[ns].path
      /\ z.serial = zone[ns].serial + 1
  BY <1>4 DEF NamespaceZones
<1>6. z # Null
  BY <1>5, ZonesAssumption
<1>7. zone' = [zone EXCEPT ![ns] = z]
  BY <1>2
<1> HIDE DEF z
<1>8. \A m \in Namespaces :
        /\ zone'[m] = Null <=> zone[m] = Null
        /\ zone[m] # Null => zone'[m].size = zone[m].size /\ zone'[m].path = zone[m].path
  BY <1>2, <1>3, <1>5, <1>6, <1>7
<1>9. ReadingInv'
  <2>1. file # Null => ~NamespaceRefused(file)'
    <3>1. file # Null => ~NamespaceRefused(file)
      BY <1>1 DEF ReadingInv
    <3>2. QED BY <1>2, <1>8, <3>1 DEF NamespaceRefused
  <2>2. QED BY <1>1, <1>2, <2>1 DEF ReadingInv
<1>10. ZonesInv'
  <2>1. zone' \in [Namespaces -> NamespaceZones \cup {Null}]
    BY <1>3, <1>5, <1>7
  <2>2. raised' \in [Namespaces -> 0 .. MaxSerial]
    BY <1>2, <1>3, <1>4
  <2>3. QED BY <1>1, <1>2, <2>1, <2>2 DEF ZonesInv
<1>11. QueueInv'
  BY <1>1, <1>2 DEF QueueInv
<1>12. SerialInv'
  <2>1. SUFFICES ASSUME NEW m \in Namespaces
                 PROVE  /\ zone'[m] = Null => raised'[m] = 0
                        /\ zone'[m] # Null => zone'[m].serial = raised'[m]
    BY DEF SerialInv
  <2>2. /\ zone[m] = Null => raised[m] = 0
        /\ zone[m] # Null => zone[m].serial = raised[m]
    BY <1>1 DEF SerialInv
  <2>3. CASE m = ns
    <3>1. zone'[m] = z /\ raised'[m] = raised[m] + 1
      BY <1>2, <1>3, <1>7, <2>3
    <3>2. QED BY <1>2, <1>5, <1>6, <2>2, <2>3, <3>1
  <2>4. CASE m # ns
    <3>1. zone'[m] = zone[m] /\ raised'[m] = raised[m]
      BY <1>2, <1>3, <1>7, <2>4
    <3>2. QED BY <2>2, <3>1
  <2>5. QED BY <2>3, <2>4
<1>13. WorkersInv'
  <2>1. SUFFICES ASSUME NEW e \in Workers PROVE SeesNamespaces(e)' /\ SeesQueue(e)'
    BY <1>2 DEF WorkersInv, Workers
  <2>2. SeesNamespaces(e) /\ SeesQueue(e)
    BY <1>1 DEF WorkersInv
  <2>3. SeesNamespaces(e)'
    BY <1>8, <2>2 DEF SeesNamespaces, Declared
  <2>4. SeesQueue(e)'
    BY <1>2, <2>2 DEF SeesQueue, Declared
  <2>5. QED BY <2>3, <2>4
<1>14. QED BY <1>9, <1>10, <1>11, <1>12, <1>13 DEF ReloadInv

\* nginx stops.
LEMMA RestartReload ==
  ASSUME ReloadInv, Restart
  PROVE  ReloadInv'
<1>1. /\ Idle /\ running' = Null /\ draining' = {} /\ queue' = Null /\ accepted' = {}
      /\ zone' = [ns \in Namespaces |-> Null] /\ raised' = [ns \in Namespaces |-> 0]
  BY DEF Restart
<1>2. 0 \in 0 .. MaxSerial
  BY ConfigurationAssumption
<1>3. ReadingInv'
  BY <1>1, IdleReads
<1>4. ZonesInv'
  BY <1>1, <1>2 DEF ZonesInv
<1>5. QueueInv' /\ SerialInv'
  BY <1>1 DEF QueueInv, SerialInv
<1>6. WorkersInv'
  BY <1>1 DEF WorkersInv, Workers
<1>7. QED BY <1>3, <1>4, <1>5, <1>6 DEF ReloadInv

\* Any step.
LEMMA ReloadStep ==
  ASSUME ReloadInv, [Next]_vars
  PROVE  ReloadInv'
<1>1. ASSUME NEW f \in Files, NEW own \in Blocks(f, "http"), ReadHttp(f, own)
      PROVE  ReloadInv'
  BY <1>1, ReadHttpReload
<1>2. ASSUME file # Null, NEW kind \in Kinds \ {"http"}, NEW own \in Blocks(file, kind),
             ReadBlock(kind, own)
      PROVE  ReloadInv'
  BY <1>2, ReadBlockReload
<1>3. ASSUME ReadEnd PROVE ReloadInv'
  <2>1. file # Null
    BY <1>3 DEF ReadEnd
  <2>2. CASE Refused
    <3>1. Idle /\ UNCHANGED <<running, draining, queue, zone, accepted, raised>>
      BY <2>2 DEF Refused
    <3>2. QED BY <3>1, IdleReads, SharedSame DEF ReloadInv
  <2>3. CASE /\ queue' \in IF queue = Null THEN {Null} ELSE Exhausted(file, queue)
             /\ Idle /\ UNCHANGED <<running, draining, zone, accepted, raised>>
    BY <2>1, <2>3, ExhaustedReload
  <2>4. CASE /\ ~Refusal(file)
             /\ queue' = IF WantsQueue(file) THEN Bound(file, QueueGiven(file)) ELSE Null
             /\ zone' = [ns \in Namespaces |-> ZoneGiven(file, ns)]
             /\ running' = [main |-> file, statuses |-> statuses, queue |-> WantsQueue(file)]
             /\ draining' = draining \cup ({running} \ {Null})
             /\ Idle /\ UNCHANGED <<accepted, raised>>
    BY <2>1, <2>4, TakenReload
  <2>5. QED BY <1>3, <2>2, <2>3, <2>4, Zenon DEF ReadEnd
<1>4. ASSUME NEW c \in draining, Drained(c) PROVE ReloadInv'
  BY <1>4, DrainedReload
<1>5. ASSUME NEW c \in Workers, NEW path \in Caches, Accept(c, path) PROVE ReloadInv'
  BY <1>5, AcceptReload
<1>6. ASSUME NEW path \in Caches, Finish(path) PROVE ReloadInv'
  BY <1>6, FinishReload
<1>7. ASSUME NEW c \in Workers, NEW ns \in Namespaces, Invalidate(c, ns) PROVE ReloadInv'
  BY <1>7, InvalidateReload
<1>8. ASSUME Restart PROVE ReloadInv'
  BY <1>8, RestartReload
<1>9. CASE UNCHANGED vars
  <2>1. UNCHANGED <<file, block, statuses, running, draining, queue, zone, accepted, raised>>
    BY <1>9 DEF vars
  <2>2. ReadingInv'
    BY <2>1 DEF ReloadInv, ReadingInv, NamespaceRefused
  <2>3. QED BY <2>1, <2>2, SharedSame DEF ReloadInv
<1>10. QED
  BY <1>1, <1>2, <1>3, <1>4, <1>5, <1>6, <1>7, <1>8, <1>9, Zenon DEF Next

\* The invariant holds in every state.
THEOREM ReloadInvariant == Spec => []ReloadInv
<1>1. QED BY ReloadInit, ReloadStep, PTL DEF Spec

-----------------------------------------------------------------------------
(* What follows *)

\* A purge that was accepted outlives every reload and every file that is refused
\* or runs out of memory, and the workers that start last have the queue it waits
\* in, whatever the settings say of it (init_main_conf, init_shm_zone).
THEOREM BacklogAlwaysKept == Spec => []BacklogKept
<1>1. ReloadInv => BacklogKept
  BY DEF ReloadInv, QueueInv, BacklogKept
<1>2. QED BY <1>1, ReloadInvariant, PTL

\* The serial of an invalidation outlives every reload, and the workers of all
\* configurations see one zone for a namespace (namespace_create,
\* generation_init, postconfiguration).
THEOREM GenerationsAlwaysKept == Spec => []GenerationsKept
<1>1. ASSUME ReloadInv PROVE GenerationsKept
  <2>1. raised \in [Namespaces -> 0 .. MaxSerial] /\ SerialInv /\ WorkersInv
    BY <1>1 DEF ReloadInv, ZonesInv
  <2>2. \A ns \in Namespaces :
           raised[ns] > 0 => zone[ns] # Null /\ zone[ns].serial = raised[ns]
    BY <2>1 DEF SerialInv
  <2>3. QED BY <2>1, <2>2 DEF GenerationsKept, WorkersInv, SeesNamespaces
<1>2. QED BY <1>1, ReloadInvariant, PTL

\* The workers of every configuration that needs the queue have it, agree on its
\* capacity and find their records in it (init_main_conf, bind_queue_status,
\* protection_get).
THEOREM QueueAlwaysCovers == Spec => []QueueCovers
<1>1. ASSUME ReloadInv PROVE QueueCovers
  <2>1. ReadingInv /\ ZonesInv /\ QueueInv /\ WorkersInv
    BY <1>1 DEF ReloadInv
  <2>2. queue # Null => queue.tasks \subseteq Caches
    BY <2>1 DEF ZonesInv, QueueZones
  <2>3. TypeOK
    BY <2>1, <2>2 DEF ReadingInv, ZonesInv, QueueInv, TypeOK
  <2>4. QED BY <2>1, <2>3 DEF QueueCovers, WorkersInv, SeesQueue
<1>2. QED BY <1>1, ReloadInvariant, PTL

-----------------------------------------------------------------------------
(* How a block is merged with the one around it *)

\* The switches of a block before they are merged, the places of the protocols
\* that the merge finds in force, and whether REFRESH is.
Switch(own) == Parsed(own).enable
Places(own, prev) == {i \in DOMAIN Order : Enabled(Parsed(own), prev, Order[i])}
Refreshes(own, prev) ==
    IF Switch(own)[Proxy] = Unset THEN prev.refresh ELSE own.content = RefreshEndpoint

\* The handlers can be told from each other.
LEMMA HandlerKinds ==
  /\ NoHandler.kind = "none" /\ Gate.kind = "access" /\ Status.kind = "status"
  /\ RefreshEndpoint.kind = "refresh" /\ NoConf.kind = "unset" /\ NullConf.kind = "null"
  /\ \A p : \A k \in {"pass", "purge", "set"} : Is(k, p).kind = k /\ Is(k, p).of = p
BY DEF NoHandler, Gate, Status, RefreshEndpoint, NoConf, NullConf, Is

\* Each of them is known by its kind.
LEMMA KnownHandler ==
  ASSUME NEW h \in Handlers
  PROVE  /\ h.kind \in {"none", "refresh", "status", "pass", "purge"}
         /\ h.kind = "none" <=> h = NoHandler
         /\ h.kind = "status" <=> h = Status
         /\ h.kind = "refresh" <=> h = RefreshEndpoint
         /\ h.kind = "pass" <=> h = Is("pass", h.of)
         /\ h.kind = "purge" <=> h = Is("purge", h.of)
         /\ h.kind \in {"pass", "purge"} => h.of \in Protocols
         /\ h # Gate
<1>1. /\ h = Is(h.kind, h.of)
      /\ h.kind \in {"none", "refresh", "status", "pass", "purge"}
      /\ h.kind \in {"none", "refresh", "status"} => h.of = Null
      /\ h.kind \in {"pass", "purge"} => h.of \in Protocols
  BY HandlerParts
<1>2. QED BY <1>1, HandlerKinds DEF NoHandler, Status, RefreshEndpoint

\* The places of the protocols, and who is where.
LEMMA PlaceFacts ==
  /\ DOMAIN Order \subseteq Nat
  /\ \A p : p \in Protocols <=> \E i \in DOMAIN Order : Order[i] = p
  /\ \A i, j \in DOMAIN Order : Order[i] = Order[j] => i = j
  /\ Proxy \in Protocols
<1>1. PICK T : Order \in Seq(T)
  BY LocationsAssumption
<1>2. DOMAIN Order = 1 .. Len(Order) /\ Len(Order) \in Nat
  BY <1>1
<1>3. QED BY <1>2, LocationsAssumption DEF Protocols, Range, IsInjective

\* What parsing makes of the directives.
LEMMA SwitchFacts ==
  ASSUME NEW own \in Written, ~ParseRefused(own)
  PROVE  /\ Switch(own) \in Switches
         /\ \A p \in Protocols : own.purge[p] = "on" <=> Switch(own)[p] = "on"
         /\ ~Separate(own) => Switch(own) = own.purge
         /\ Separate(own) => Switch(own)[SeparateOf(own)] = "off"
         /\ own.content = RefreshEndpoint => Switch(own)[Proxy] = "off"
<1>1. Parsed(own).enable = [p \in Protocols |->
                              IF Separate(own) /\ p = SeparateOf(own) THEN "off"
                              ELSE own.purge[p]]
  BY Zenon DEF Parsed
<1>2. own.purge \in Switches
  BY DEF Written
<1>3. Switch(own) \in Switches
  BY <1>1, <1>2 DEF Switch, Switches
<1>4. \A p \in Protocols : own.purge[p] = "on" <=> Switch(own)[p] = "on"
  BY <1>1 DEF Switch, ParseRefused, Unset
<1>5. ~Separate(own) => Switch(own) = own.purge
  BY <1>1, <1>2 DEF Switch, Switches
<1>6. Separate(own) => Switch(own)[SeparateOf(own)] = "off"
  BY <1>1, SeparateProtocol DEF Switch
<1>7. own.content = RefreshEndpoint => Separate(own) /\ SeparateOf(own) = Proxy
  BY DEF Separate, SeparateOf
<1>8. QED BY <1>3, <1>4, <1>5, <1>6, <1>7

\* What a block is before its protocols are merged.
LEMMA InheritedFacts ==
  ASSUME NEW own \in Written, ~ParseRefused(own), NEW prev \in Settings,
         NEW conf, conf = Inherited(Parsed(own), prev)
  PROVE  /\ conf \in Settings
         /\ conf.enable = Switch(own) /\ conf.status = own.status
         /\ conf.conf = IF Separate(own) THEN Is("set", SeparateOf(own)) ELSE NoConf
         /\ conf.handler = NoHandler /\ conf.original = NoHandler
         /\ conf.refresh = Refreshes(own, prev)
<1> DEFINE parsed == Parsed(own)
<1>1. parsed \in Settings
  BY ParsedType
<1>2. /\ parsed.status = own.status /\ parsed.handler = NoHandler
      /\ parsed.original = NoHandler
      /\ parsed.conf = IF Separate(own) THEN Is("set", SeparateOf(own)) ELSE NoConf
      /\ parsed.zone = (Separate(own) /\ SeparateOf(own) = Proxy)
      /\ parsed.refresh = (own.content = RefreshEndpoint)
  BY DEF Parsed
<1> HIDE DEF parsed
<1>3. /\ conf \in Settings /\ conf.enable = parsed.enable /\ conf.conf = parsed.conf
      /\ conf.handler = parsed.handler /\ conf.original = parsed.original
      /\ conf.status = parsed.status
  BY <1>1, InheritedType DEF parsed
<1> DEFINE takes == parsed.enable[Proxy] = Unset /\ ~parsed.zone
           key == IF parsed.key = Null THEN prev.key ELSE parsed.key
           zoned == parsed.zone \/ (takes /\ prev.zone)
           refreshes == IF takes THEN prev.refresh ELSE parsed.refresh
           profiled == parsed.profile \/ prev.profile
<1>4. conf = [parsed EXCEPT !.key = key, !.zone = zoned, !.refresh = refreshes,
                            !.profile = profiled]
  BY Zenon DEF Inherited, parsed
<1>5. conf.refresh = refreshes
  <2> HIDE DEF takes, key, zoned, refreshes, profiled
  <2>1. QED BY <1>1, <1>4 DEF Settings
<1>6. takes <=> Switch(own)[Proxy] = Unset
  BY <1>2, SwitchFacts DEF Switch, parsed, Unset
<1>7. refreshes = Refreshes(own, prev)
  BY <1>2, <1>6 DEF Refreshes
<1> HIDE DEF takes, key, zoned, refreshes, profiled
<1>8. QED BY <1>2, <1>3, <1>5, <1>7 DEF Switch, parsed

\* A block takes purging from its own directives.
LEMMA PurgeSetFacts ==
  ASSUME NEW own \in Written, ~ParseRefused(own), NEW prev \in Settings,
         NEW conf, conf = Inherited(Parsed(own), prev)
  PROVE  PurgeSet(conf) <=> \/ Separate(own)
                            \/ \E p \in Protocols : Switch(own)[p] = "on"
<1>1. /\ conf.enable = Switch(own)
      /\ conf.conf = IF Separate(own) THEN Is("set", SeparateOf(own)) ELSE NoConf
  BY InheritedFacts
<1>2. conf.conf # NoConf <=> Separate(own)
  BY <1>1, HandlerKinds
<1>3. QED BY <1>1, <1>2 DEF PurgeSet, WasSet

\* A protocol is in force where it is switched on, or in the block around and
\* not switched here.
LEMMA EnabledFacts ==
  ASSUME NEW own \in Written, ~ParseRefused(own), NEW prev \in Settings,
         NEW conf, conf = Inherited(Parsed(own), prev), NEW p \in Protocols
  PROVE  /\ Enabled(conf, prev, p) <=> Enabled(Parsed(own), prev, p)
         /\ Enabled(Parsed(own), prev, p) <=>
               \/ Switch(own)[p] = "on"
               \/ Switch(own)[p] = Unset /\ prev.enable[p] = "on"
         /\ WasSet(conf, p) <=> Switch(own)[p] = "on"
<1>1. conf.enable = Switch(own)
  BY InheritedFacts
<1>2. QED BY <1>1 DEF Enabled, WasSet, Switch

\* A status endpoint: nothing of it is merged but the path.
LEMMA MergedStatus ==
  ASSUME NEW own \in Written, ~ParseRefused(own), NEW prev \in Settings, NEW noname, NEW content,
         IsStatus(Inherited(Parsed(own), prev), prev, content),
         NEW r, r = Merged(own, prev, noname, content)
  PROVE  /\ r.content = Status /\ r.conf.enable = Switch(own)
         /\ r.conf.status = IF own.status = Null THEN prev.status ELSE own.status
         /\ r.conf.original = NoHandler /\ r.conf.refresh = Refreshes(own, prev)
<1> DEFINE conf == Inherited(Parsed(own), prev)
           s == IF conf.status = Null THEN prev.status ELSE conf.status
<1>1. /\ conf \in Settings /\ conf.enable = Switch(own) /\ conf.status = own.status
      /\ conf.original = NoHandler /\ conf.refresh = Refreshes(own, prev)
  BY InheritedFacts
<1>2. r.conf = [conf EXCEPT !.status = s] /\ r.content = Status
  BY Zenon DEF Merged
<1> HIDE DEF conf
<1>3. QED BY <1>1, <1>2 DEF Settings

\* An endpoint of REFRESH.
LEMMA MergedRefresh ==
  ASSUME NEW own \in Written, ~ParseRefused(own), NEW prev \in Settings, NEW noname, NEW content,
         ~IsStatus(Inherited(Parsed(own), prev), prev, content),
         IsRefresh(Inherited(Parsed(own), prev), content),
         NEW r, r = Merged(own, prev, noname, content)
  PROVE  /\ r.content = RefreshEndpoint /\ r.conf.enable = [Switch(own) EXCEPT ![Proxy] = "off"]
         /\ r.conf.status = own.status /\ r.conf.original = NoHandler
         /\ r.conf.refresh = Refreshes(own, prev)
<1> DEFINE conf == Inherited(Parsed(own), prev)
           e == [conf.enable EXCEPT ![Proxy] = "off"]
           k == Is("set", Proxy)
<1>1. /\ conf \in Settings /\ conf.enable = Switch(own) /\ conf.status = own.status
      /\ conf.original = NoHandler /\ conf.refresh = Refreshes(own, prev)
  BY InheritedFacts
<1>2. r.conf = [conf EXCEPT !.enable[Proxy] = "off", !.conf = Is("set", Proxy)]
      /\ r.content = RefreshEndpoint
  BY Zenon DEF Merged
<1> HIDE DEF conf
<1>3. r.conf = [conf EXCEPT !.enable = e, !.conf = k]
  BY <1>1, <1>2 DEF Settings
<1>4. e = [Switch(own) EXCEPT ![Proxy] = "off"]
  BY <1>1
<1> HIDE DEF e, k
<1>5. QED BY <1>1, <1>2, <1>3, <1>4 DEF Settings

\* A block where no protocol is in force.
LEMMA MergedNone ==
  ASSUME NEW own \in Written, ~ParseRefused(own), NEW prev \in Settings, NEW noname, NEW content,
         ~IsStatus(Inherited(Parsed(own), prev), prev, content),
         ~IsRefresh(Inherited(Parsed(own), prev), content), Places(own, prev) = {},
         NEW r, r = Merged(own, prev, noname, content)
  PROVE  /\ r.content = content /\ r.conf.enable = [p \in Protocols |-> "off"]
         /\ r.conf.status = own.status /\ r.conf.original = prev.original
         /\ r.conf.refresh = Refreshes(own, prev)
<1> DEFINE conf == Inherited(Parsed(own), prev)
           off == [p \in Protocols |-> "off"]
           c == IF conf.conf = NoConf
                THEN IF prev.conf = NoConf THEN NullConf ELSE prev.conf ELSE conf.conf
           h == IF conf.handler = NoHandler THEN prev.handler ELSE conf.handler
           o == IF conf.original = NoHandler THEN prev.original ELSE conf.original
           on == {i \in DOMAIN Order : Enabled(conf, prev, Order[i])}
<1>1. /\ conf \in Settings /\ conf.status = own.status
      /\ conf.original = NoHandler /\ conf.refresh = Refreshes(own, prev)
  BY InheritedFacts
<1>2. on = {}
  BY EnabledFacts, PlaceFacts DEF Places
<1>3. r = MergeProtocols(conf, prev, noname, content)
  BY Zenon DEF Merged
<1> DEFINE all == MergeProtocols(conf, prev, noname, content)
<1>4. /\ r.conf = [conf EXCEPT !.enable = off, !.conf = c, !.handler = h, !.original = o]
      /\ r.content = content
  <2> HIDE DEF conf
  <2>1. /\ all.conf = [conf EXCEPT !.enable = off, !.conf = c, !.handler = h, !.original = o]
        /\ all.content = content
    BY <1>2, Zenon DEF MergeProtocols
  <2> HIDE DEF all
  <2>2. r = all
    BY <1>3 DEF all
  <2>3. QED BY <2>1, <2>2, Zenon
<1>5. o = prev.original
  BY <1>1
<1> HIDE DEF conf, off, c, h, o
<1>6. QED BY <1>1, <1>4, <1>5 DEF Settings, off

\* A block where one is: the first of them takes it.
LEMMA MergedFirst ==
  ASSUME NEW own \in Written, ~ParseRefused(own), NEW prev \in Settings, NEW noname, NEW content,
         ~IsStatus(Inherited(Parsed(own), prev), prev, content),
         ~IsRefresh(Inherited(Parsed(own), prev), content), Places(own, prev) # {},
         NEW r, r = Merged(own, prev, noname, content)
  PROVE  /\ r.content = Gate /\ r.conf.status = own.status
         /\ r.conf.refresh = Refreshes(own, prev)
         /\ \E i \in Places(own, prev) :
               /\ \A j \in Places(own, prev) : i <= j
               /\ r.conf.enable[Order[i]] = "on"
               /\ \A j \in DOMAIN Order : j < i => r.conf.enable[Order[j]] = "off"
               /\ \A j \in DOMAIN Order :
                     i < j => r.conf.enable[Order[j]] = Switch(own)[Order[j]]
               /\ r.conf.conf = Is("set", Order[i]) /\ r.conf.handler = Is("purge", Order[i])
               /\ r.conf.original = IF Switch(own)[Order[i]] = "on" \/ ~noname
                                    THEN content ELSE prev.original
<1> DEFINE conf == Inherited(Parsed(own), prev)
           on == {i \in DOMAIN Order : Enabled(conf, prev, Order[i])}
           first == Min(on)
           e == [p \in Protocols |->
                   IF \E i \in DOMAIN Order : i > first /\ Order[i] = p
                   THEN conf.enable[p] ELSE IF p = Order[first] THEN "on" ELSE "off"]
           k == Is("set", Order[first])
           g == Is("purge", Order[first])
           o == Original(conf, prev, noname, content, Order[first])
<1>1. /\ conf \in Settings /\ conf.status = own.status /\ conf.enable = Switch(own)
      /\ conf.original = NoHandler /\ conf.refresh = Refreshes(own, prev)
  BY InheritedFacts
<1>2. on = Places(own, prev)
  BY EnabledFacts, PlaceFacts DEF Places
<1>3. r = MergeProtocols(conf, prev, noname, content)
  BY Zenon DEF Merged
<1>4. on # {}
  BY <1>2
<1> DEFINE all == MergeProtocols(conf, prev, noname, content)
<1>5. /\ r.conf = [conf EXCEPT !.enable = e, !.conf = k, !.handler = g, !.original = o]
      /\ r.content = Gate
  <2> HIDE DEF conf
  <2>1. /\ all.conf = [conf EXCEPT !.enable = e, !.conf = k, !.handler = g, !.original = o]
        /\ all.content = Gate
    BY <1>4, Zenon DEF MergeProtocols
  <2> HIDE DEF all
  <2>2. r = all
    BY <1>3 DEF all
  <2>3. QED BY <2>1, <2>2, Zenon
<1>6. first \in on /\ \A j \in on : first <= j
  BY <1>4, FirstPlace
<1>7. first \in DOMAIN Order /\ Order[first] \in Protocols
  BY <1>6, PlaceFacts
<1>8. o = IF Switch(own)[Order[first]] = "on" \/ ~noname THEN content ELSE prev.original
  BY <1>7, EnabledFacts DEF Original
<1>9. /\ e[Order[first]] = "on"
      /\ \A j \in DOMAIN Order : j < first => e[Order[j]] = "off"
      /\ \A j \in DOMAIN Order : first < j => e[Order[j]] = Switch(own)[Order[j]]
  <2> HIDE DEF conf, first, on
  <2>1. e[Order[first]] = "on"
    BY <1>7, PlaceFacts
  <2>2. ASSUME NEW j \in DOMAIN Order, j < first PROVE e[Order[j]] = "off"
    BY <1>7, <2>2, PlaceFacts
  <2>3. ASSUME NEW j \in DOMAIN Order, first < j PROVE e[Order[j]] = Switch(own)[Order[j]]
    BY <1>1, <1>7, <2>3, PlaceFacts
  <2>4. QED BY <2>1, <2>2, <2>3
<1> HIDE DEF conf, e, k, g, o, first
<1>10. /\ r.conf.enable = e /\ r.conf.conf = k /\ r.conf.handler = g /\ r.conf.original = o
       /\ r.conf.status = own.status /\ r.conf.refresh = Refreshes(own, prev)
  BY <1>1, <1>5 DEF Settings
<1>11. /\ r.conf.enable[Order[first]] = "on"
       /\ \A j \in DOMAIN Order : j < first => r.conf.enable[Order[j]] = "off"
       /\ \A j \in DOMAIN Order :
             first < j => r.conf.enable[Order[j]] = Switch(own)[Order[j]]
       /\ r.conf.conf = Is("set", Order[first]) /\ r.conf.handler = Is("purge", Order[first])
       /\ r.conf.original = IF Switch(own)[Order[first]] = "on" \/ ~noname
                            THEN content ELSE prev.original
  BY <1>8, <1>9, <1>10 DEF k, g
<1>12. first \in Places(own, prev) /\ \A j \in Places(own, prev) : first <= j
  BY <1>2, <1>6
<1>13. QED BY <1>5, <1>10, <1>11, <1>12, Zenon

-----------------------------------------------------------------------------
(* What is in force in a block, and who answers there *)

\* The protocols whose purge is in force in a block, and the handler of what is
\* not a purge.
Effective(b) == b.asked \ b.cut
Behind(b) == IF b.content = Gate THEN b.conf.original ELSE b.content

\* The switches that are on are of protocols in force, none of those is off, and
\* the protocol of REFRESH is not on where that is in force.
SwitchesMatch(b) ==
    /\ \A p \in Protocols : b.conf.enable[p] = "on" => p \in Effective(b)
    /\ \A p \in Effective(b) : b.conf.enable[p] # "off"
    /\ b.conf.refresh => b.conf.enable[Proxy] # "on"

\* Where a protocol is in force, and the block is no endpoint, the gate answers;
\* it has the switch and the handler of the first of them.
GateMatches(b) ==
    /\ b.content = Gate =>
          \E i \in DOMAIN Order :
              /\ b.conf.enable[Order[i]] = "on"
              /\ \A j \in DOMAIN Order : j < i => Order[j] \notin Effective(b)
              /\ b.conf.conf = Is("set", Order[i]) /\ b.conf.handler = Is("purge", Order[i])
    /\ b.kind # "http" =>
          /\ b.content = Gate \/ Effective(b) = {} \/ b.endpoint \in {Status, RefreshEndpoint}
          /\ \A p \in Protocols :
                b.conf.enable[p] = "on" => b.content \in {Gate, RefreshEndpoint}

\* What is inherited of an endpoint goes with it, but REFRESH goes on to a
\* location nested in its endpoint.
EndpointMatches(b) ==
    /\ b.conf.status # Null <=> b.endpoint = Status
    /\ b.endpoint = RefreshEndpoint => b.conf.refresh
    /\ b.conf.refresh => b.kind \notin {"http", "server"}
    /\ b.conf.refresh /\ b.kind = "location" => b.endpoint = RefreshEndpoint
    /\ b.conf.original.kind \in {"none", "pass", "purge"}

\* Behind the gate or without one, the handler is the one the directives ask for.
HandlerMatches(b) ==
    /\ b.pass # Null => /\ b.endpoint = NoHandler
                        /\ Behind(b) = Is("pass", b.pass) \/ (b.foreign /\ b.content = Gate)
    /\ b.pass = Null => Behind(b) = b.endpoint
    /\ b.foreign => b.pass # Null /\ Nameless(b.kind)

\* An endpoint of REFRESH has nothing behind it, and a block in it that passes
\* elsewhere has not either.
RefreshMatches(b) ==
    /\ b.content = RefreshEndpoint => b.conf.original = NoHandler
    /\ b.foreign /\ b.content = Gate /\ b.conf.refresh => b.conf.original = NoHandler

BlockMatches(b) ==
    /\ SwitchesMatch(b) /\ GateMatches(b) /\ EndpointMatches(b)
    /\ HandlerMatches(b) /\ RefreshMatches(b)

\* The block b is made of the last one and what is written.
Makes(kind, own, b) ==
    /\ block \in MergedBlocks /\ BlockMatches(block)
    /\ kind \in Kinds \ {"http"} /\ own \in Written /\ Allowed(kind, own)
    /\ block.kind \in Around(kind)
    /\ kind = "limit_except" => block.pass # Null
    /\ ~ParseRefused(own) /\ ~MergeRefused(Inherited(Parsed(own), block.conf))
    /\ b \in MergedBlocks
    /\ LET merged == Merged(own, block.conf, Nameless(kind), Given(kind, own))
       IN b = [kind |-> kind, conf |-> merged.conf,
               content |-> Content(kind, merged.content),
               pass |-> PassOf(kind, own), asked |-> AskedOf(own),
               endpoint |-> EndpointOf(kind, own), cut |-> CutOf(own),
               foreign |-> /\ Nameless(kind) /\ own.content.kind = "pass"
                           /\ own.content.of # block.pass]

\* The parts of it.
LEMMA Parts ==
  ASSUME NEW kind, NEW own, NEW b, Makes(kind, own, b)
  PROVE  /\ block.conf \in Settings /\ block.content \in Handlers \cup {Gate}
         /\ block.endpoint \in Handlers /\ block.pass \in Protocols \cup {Null}
         /\ block.asked \subseteq Protocols /\ block.kind \in Kinds
         /\ own.content \in Handlers /\ Given(kind, own) \in Handlers
         /\ b.conf \in Settings
         /\ b.kind = kind /\ b.pass = PassOf(kind, own) /\ b.asked = AskedOf(own)
         /\ b.endpoint = EndpointOf(kind, own) /\ b.cut = CutOf(own)
         /\ b.foreign <=> /\ Nameless(kind) /\ own.content.kind = "pass"
                          /\ own.content.of # block.pass
<1>1. block \in MergedBlocks /\ own \in Written /\ b \in MergedBlocks
  BY DEF Makes
<1>2. /\ block.conf \in Settings /\ block.content \in Handlers \cup {Gate}
      /\ block.endpoint \in Handlers /\ block.pass \in Protocols \cup {Null}
      /\ block.asked \subseteq Protocols /\ block.kind \in Kinds
      /\ own.content \in Handlers /\ b.conf \in Settings
  BY <1>1 DEF MergedBlocks, Written
<1>3. Given(kind, own) \in Handlers
  <2>1. block.pass # Null => Is("pass", block.pass) \in Handlers
    BY <1>2 DEF Handlers
  <2>2. QED BY <1>2, <2>1 DEF Given
<1> DEFINE merged == Merged(own, block.conf, Nameless(kind), Given(kind, own))
           foreign == /\ Nameless(kind) /\ own.content.kind = "pass"
                      /\ own.content.of # block.pass
           made == [kind |-> kind, conf |-> merged.conf,
                    content |-> Content(kind, merged.content),
                    pass |-> PassOf(kind, own), asked |-> AskedOf(own),
                    endpoint |-> EndpointOf(kind, own), cut |-> CutOf(own),
                    foreign |-> foreign]
<1>4. b = made
  BY Zenon DEF Makes
<1>5. /\ made.kind = kind /\ made.pass = PassOf(kind, own) /\ made.asked = AskedOf(own)
      /\ made.endpoint = EndpointOf(kind, own) /\ made.cut = CutOf(own)
      /\ made.foreign = foreign
  <2> HIDE DEF merged, foreign
  <2>1. QED OBVIOUS
<1> HIDE DEF made, foreign
<1>6. /\ b.kind = kind /\ b.pass = PassOf(kind, own) /\ b.asked = AskedOf(own)
      /\ b.endpoint = EndpointOf(kind, own) /\ b.cut = CutOf(own) /\ b.foreign = foreign
  BY <1>4, <1>5
<1>7. b.foreign <=> foreign
  BY <1>6
<1>8. b.foreign <=> /\ Nameless(kind) /\ own.content.kind = "pass"
                    /\ own.content.of # block.pass
  BY <1>7, Zenon DEF foreign
<1>9. QED BY <1>2, <1>3, <1>6, <1>8

\* Its settings and its handler.
LEMMA MergedParts ==
  ASSUME NEW kind, NEW own, NEW b, Makes(kind, own, b),
         NEW merged, merged = Merged(own, block.conf, Nameless(kind), Given(kind, own))
  PROVE  b.conf = merged.conf /\ b.content = Content(kind, merged.content)
BY DEF Makes

\* The protocols in force are the ones that the merge finds.
LEMMA EffectiveFacts ==
  ASSUME NEW kind, NEW own, NEW b, Makes(kind, own, b)
  PROVE  /\ Effective(b) \subseteq Protocols
         /\ \A p \in Protocols : p \in Effective(b) <=> Enabled(Parsed(own), block.conf, p)
         /\ \A i \in DOMAIN Order : i \in Places(own, block.conf) <=> Order[i] \in Effective(b)
         /\ Places(own, block.conf) = {} <=> Effective(b) = {}
<1>1. /\ own \in Written /\ ~ParseRefused(own) /\ SwitchesMatch(block)
  BY DEF Makes, BlockMatches
<1>2. /\ block.conf \in Settings /\ block.asked \subseteq Protocols
      /\ b.asked = AskedOf(own) /\ b.cut = CutOf(own)
  BY Parts
<1>3. block.conf.enable \in Switches /\ Switch(own) \in Switches
  BY <1>1, <1>2, SwitchFacts DEF Settings
<1>4. ASSUME NEW p \in Protocols
      PROVE  p \in Effective(b) <=> Enabled(Parsed(own), block.conf, p)
  <2>1. own.purge[p] = "on" <=> Switch(own)[p] = "on"
    BY <1>1, SwitchFacts
  <2>2. p \in b.asked <=> Switch(own)[p] = "on" \/ (Switch(own)[p] = Unset /\ p \in block.asked)
    BY <1>2, <2>1 DEF AskedOf, Switch
  <2>3. p \in b.cut <=> /\ Switch(own)[p] = Unset /\ p \in block.asked
                        /\ p \in block.cut \/ block.conf.enable[p] = Unset
    BY <1>2 DEF CutOf, Switch
  <2>4. /\ block.conf.enable[p] = "on" => p \in block.asked \ block.cut
        /\ p \in block.asked \ block.cut => block.conf.enable[p] # "off"
        /\ block.conf.enable[p] \in {Unset, "on", "off"}
    BY <1>1, <1>3 DEF SwitchesMatch, Effective, Switches
  <2>5. p \in Effective(b) <=> \/ Switch(own)[p] = "on"
                               \/ Switch(own)[p] = Unset /\ block.conf.enable[p] = "on"
    BY <2>2, <2>3, <2>4 DEF Effective, Unset
  <2>6. QED BY <1>1, <1>2, <2>5, EnabledFacts
<1>5. Effective(b) \subseteq Protocols
  BY <1>2 DEF Effective, AskedOf
<1>6. ASSUME NEW i \in DOMAIN Order
      PROVE  i \in Places(own, block.conf) <=> Order[i] \in Effective(b)
  BY <1>4, PlaceFacts DEF Places
<1>7. Places(own, block.conf) \subseteq DOMAIN Order
  BY DEF Places
<1>8. Places(own, block.conf) = {} <=> Effective(b) = {}
  BY <1>5, <1>6, <1>7, PlaceFacts
<1>9. QED BY <1>4, <1>5, <1>6, <1>8

\* Which way a block is merged.
ForStatus(kind, own) ==
    IsStatus(Inherited(Parsed(own), block.conf), block.conf, Given(kind, own))
ForRefresh(kind, own) ==
    IsRefresh(Inherited(Parsed(own), block.conf), Given(kind, own))

\* What is written of a status endpoint and of an endpoint of REFRESH.
LEMMA OwnFacts ==
  ASSUME NEW kind, NEW own, NEW b, Makes(kind, own, b)
  PROVE  /\ own.status # Null <=> own.content = Status
         /\ own.content = Status => /\ ~Separate(own)
                                    /\ \A p \in Protocols : Switch(own)[p] # "on"
         /\ own.content = RefreshEndpoint => Separate(own) /\ Refreshes(own, block.conf)
         /\ Nameless(kind) => /\ own.content = NoHandler \/ own.content.kind = "pass"
                              /\ ~Separate(own)
                              /\ \A p \in Protocols : Switch(own)[p] = Unset
         /\ kind = "server" => own.content = NoHandler
         /\ Given(kind, own) = own.content
              \/ /\ kind = "limit_except" /\ own.content = NoHandler /\ block.pass # Null
                 /\ Given(kind, own) = Is("pass", block.pass)
<1> DEFINE conf == Inherited(Parsed(own), block.conf)
<1>1. /\ own \in Written /\ Allowed(kind, own) /\ ~ParseRefused(own) /\ ~MergeRefused(conf)
  BY DEF Makes
<1>2. block.conf \in Settings /\ own.content \in Handlers
  BY Parts
<1>3. conf.status = own.status
  BY <1>1, <1>2, InheritedFacts
<1>4. own.status # Null => ~Separate(own) /\ \A p \in Protocols : Switch(own)[p] # "on"
  <2>1. PurgeSet(conf) <=> \/ Separate(own)
                           \/ \E p \in Protocols : Switch(own)[p] = "on"
    BY <1>1, <1>2, PurgeSetFacts
  <2> HIDE DEF conf
  <2>2. QED BY <1>1, <1>3, <2>1 DEF MergeRefused
<1>5. own.status # Null <=> own.content = Status
  BY <1>1, <1>4 DEF Allowed
<1>6. ASSUME own.content = RefreshEndpoint PROVE Separate(own) /\ Refreshes(own, block.conf)
  <2>1. Switch(own)[Proxy] = "off"
    BY <1>1, <1>6, SwitchFacts
  <2>2. QED BY <1>6, <2>1 DEF Separate, Refreshes, Unset
<1>7. ASSUME Nameless(kind)
      PROVE  /\ own.content = NoHandler \/ own.content.kind = "pass"
             /\ ~Separate(own)
             /\ \A p \in Protocols : Switch(own)[p] = Unset
  <2>1. /\ own.content = NoHandler \/ own.content.kind = "pass"
        /\ \A p \in Protocols : own.purge[p] = Unset
    BY <1>1, <1>7 DEF Nameless, Allowed
  <2>2. ~Separate(own)
    BY <2>1, HandlerKinds DEF Separate
  <2>3. Switch(own) = own.purge
    BY <1>1, <2>2, SwitchFacts
  <2>4. QED BY <2>1, <2>2, <2>3
<1>8. kind = "server" => own.content = NoHandler
  BY <1>1 DEF Allowed
<1>9. Given(kind, own) = own.content
        \/ /\ kind = "limit_except" /\ own.content = NoHandler /\ block.pass # Null
           /\ Given(kind, own) = Is("pass", block.pass)
  BY DEF Given
<1>10. QED BY <1>4, <1>5, <1>6, <1>7, <1>8, <1>9

\* When it is a status endpoint, and when one of REFRESH.
LEMMA WayFacts ==
  ASSUME NEW kind, NEW own, NEW b, Makes(kind, own, b)
  PROVE  /\ ForStatus(kind, own) <=>
               \/ own.content = Status
               \/ /\ Given(kind, own) = NoHandler /\ block.endpoint = Status /\ ~Separate(own)
                  /\ \A p \in Protocols : Switch(own)[p] # "on"
         /\ ForRefresh(kind, own) <=>
               \/ own.content = RefreshEndpoint
               \/ Given(kind, own) = NoHandler /\ Refreshes(own, block.conf)
<1> DEFINE conf == Inherited(Parsed(own), block.conf)
           given == Given(kind, own)
<1>1. own \in Written /\ ~ParseRefused(own) /\ EndpointMatches(block)
  BY DEF Makes, BlockMatches
<1>2. block.conf \in Settings
  BY Parts
<1>3. PurgeSet(conf) <=> \/ Separate(own)
                         \/ \E p \in Protocols : Switch(own)[p] = "on"
  BY <1>1, <1>2, PurgeSetFacts
<1>4. conf.refresh = Refreshes(own, block.conf)
  BY <1>1, <1>2, InheritedFacts
<1>5. given = own.content \/ (given = Is("pass", block.pass) /\ own.content = NoHandler)
  BY OwnFacts
<1>6. /\ given = Status <=> own.content = Status
      /\ given = RefreshEndpoint <=> own.content = RefreshEndpoint
  <2>1. /\ NoHandler # Status /\ NoHandler # RefreshEndpoint
        /\ Is("pass", block.pass) # Status /\ Is("pass", block.pass) # RefreshEndpoint
    BY HandlerKinds
  <2> HIDE DEF given
  <2>2. QED BY <1>5, <2>1
<1>7. block.conf.status # Null <=> block.endpoint = Status
  BY <1>1 DEF EndpointMatches
<1>8. own.content = RefreshEndpoint => Refreshes(own, block.conf)
  BY OwnFacts
<1> HIDE DEF conf, given
<1>9. IsStatus(conf, block.conf, given) <=>
        \/ own.content = Status
        \/ /\ given = NoHandler /\ block.endpoint = Status /\ ~Separate(own)
           /\ \A p \in Protocols : Switch(own)[p] # "on"
  BY <1>3, <1>6, <1>7 DEF IsStatus
<1>10. IsRefresh(conf, given) <=>
         \/ own.content = RefreshEndpoint
         \/ given = NoHandler /\ Refreshes(own, block.conf)
  BY <1>4, <1>6, <1>8 DEF IsRefresh
<1>11. QED BY <1>9, <1>10 DEF conf, given, ForStatus, ForRefresh

\* What each way makes of the block.
LEMMA StatusMade ==
  ASSUME NEW kind, NEW own, NEW b, Makes(kind, own, b), ForStatus(kind, own)
  PROVE  /\ b.content = Status /\ b.conf.enable = Switch(own) /\ b.conf.original = NoHandler
         /\ b.conf.status # Null /\ b.conf.refresh = Refreshes(own, block.conf)
<1> DEFINE merged == Merged(own, block.conf, Nameless(kind), Given(kind, own))
<1>1. own \in Written /\ ~ParseRefused(own) /\ EndpointMatches(block)
  BY DEF Makes, BlockMatches
<1>2. block.conf \in Settings
  BY Parts
<1>3. /\ merged.content = Status /\ merged.conf.enable = Switch(own)
      /\ merged.conf.status = IF own.status = Null THEN block.conf.status ELSE own.status
      /\ merged.conf.original = NoHandler /\ merged.conf.refresh = Refreshes(own, block.conf)
  BY <1>1, <1>2, MergedStatus DEF ForStatus
<1>4. b.conf = merged.conf /\ b.content = Content(kind, merged.content)
  BY MergedParts
<1>5. own.status # Null \/ block.conf.status # Null
  BY <1>1, WayFacts, OwnFacts DEF EndpointMatches
<1>6. Status # NoHandler
  BY HandlerKinds
<1> HIDE DEF merged
<1>7. QED BY <1>3, <1>4, <1>5, <1>6 DEF Content

\* An endpoint of REFRESH.
LEMMA RefreshMade ==
  ASSUME NEW kind, NEW own, NEW b, Makes(kind, own, b),
         ~ForStatus(kind, own), ForRefresh(kind, own)
  PROVE  /\ b.content = RefreshEndpoint
         /\ b.conf.original = NoHandler
         /\ b.conf.status = Null
<1> DEFINE merged == Merged(own, block.conf, Nameless(kind), Given(kind, own))
<1>1. own \in Written /\ ~ParseRefused(own)
  BY DEF Makes
<1>2. block.conf \in Settings
  BY Parts
<1>3. /\ merged.content = RefreshEndpoint /\ merged.conf.status = own.status
      /\ merged.conf.enable = [Switch(own) EXCEPT ![Proxy] = "off"]
      /\ merged.conf.original = NoHandler /\ merged.conf.refresh = Refreshes(own, block.conf)
  BY <1>1, <1>2, MergedRefresh DEF ForStatus, ForRefresh
<1>4. b.conf = merged.conf /\ b.content = Content(kind, merged.content)
  BY MergedParts
<1>5. own.status = Null /\ Refreshes(own, block.conf)
  BY WayFacts, OwnFacts
<1>6. RefreshEndpoint # NoHandler
  BY HandlerKinds
<1> HIDE DEF merged
<1>7. QED BY <1>3, <1>4, <1>5, <1>6 DEF Content

\* Its switches.
LEMMA RefreshSwitches ==
  ASSUME NEW kind, NEW own, NEW b, Makes(kind, own, b),
         ~ForStatus(kind, own), ForRefresh(kind, own)
  PROVE  b.conf.enable = [Switch(own) EXCEPT ![Proxy] = "off"] /\ b.conf.refresh
<1> DEFINE merged == Merged(own, block.conf, Nameless(kind), Given(kind, own))
<1>1. own \in Written /\ ~ParseRefused(own)
  BY DEF Makes
<1>2. block.conf \in Settings
  BY Parts
<1>3. /\ merged.content = RefreshEndpoint /\ merged.conf.status = own.status
      /\ merged.conf.enable = [Switch(own) EXCEPT ![Proxy] = "off"]
      /\ merged.conf.original = NoHandler /\ merged.conf.refresh = Refreshes(own, block.conf)
  BY <1>1, <1>2, MergedRefresh DEF ForStatus, ForRefresh
<1>4. b.conf = merged.conf /\ b.content = Content(kind, merged.content)
  BY MergedParts
<1>5. own.status = Null /\ Refreshes(own, block.conf)
  BY WayFacts, OwnFacts
<1>6. RefreshEndpoint # NoHandler
  BY HandlerKinds
<1> HIDE DEF merged
<1>7. QED BY <1>3, <1>4, <1>5, <1>6 DEF Content

\* A block with no protocol in force.
LEMMA NoneMade ==
  ASSUME NEW kind, NEW own, NEW b, Makes(kind, own, b),
         ~ForStatus(kind, own), ~ForRefresh(kind, own), Effective(b) = {}
  PROVE  /\ b.content = Content(kind, Given(kind, own))
         /\ b.conf.enable = [p \in Protocols |-> "off"]
         /\ b.conf.original = block.conf.original
         /\ b.conf.status = Null /\ b.conf.refresh = Refreshes(own, block.conf)
<1> DEFINE merged == Merged(own, block.conf, Nameless(kind), Given(kind, own))
<1>1. own \in Written /\ ~ParseRefused(own)
  BY DEF Makes
<1>2. block.conf \in Settings
  BY Parts
<1>3. Places(own, block.conf) = {}
  BY EffectiveFacts
<1>4. /\ merged.content = Given(kind, own) /\ merged.conf.status = own.status
      /\ merged.conf.enable = [p \in Protocols |-> "off"]
      /\ merged.conf.original = block.conf.original
      /\ merged.conf.refresh = Refreshes(own, block.conf)
  BY <1>1, <1>2, <1>3, MergedNone DEF ForStatus, ForRefresh
<1>5. b.conf = merged.conf /\ b.content = Content(kind, merged.content)
  BY MergedParts
<1>6. own.status = Null
  BY WayFacts, OwnFacts
<1> HIDE DEF merged
<1>7. QED BY <1>4, <1>5, <1>6

\* A block that the first protocol in force takes.
LEMMA FirstMade ==
  ASSUME NEW kind, NEW own, NEW b, Makes(kind, own, b),
         ~ForStatus(kind, own), ~ForRefresh(kind, own), Effective(b) # {}
  PROVE  /\ b.content = Gate
         /\ b.conf.status = Null /\ b.conf.refresh = Refreshes(own, block.conf)
         /\ \E i \in DOMAIN Order :
               /\ Order[i] \in Effective(b)
               /\ \A j \in DOMAIN Order : j < i => Order[j] \notin Effective(b)
               /\ b.conf.enable[Order[i]] = "on"
               /\ \A j \in DOMAIN Order : j < i => b.conf.enable[Order[j]] = "off"
               /\ \A j \in DOMAIN Order :
                     i < j => b.conf.enable[Order[j]] = Switch(own)[Order[j]]
               /\ b.conf.conf = Is("set", Order[i]) /\ b.conf.handler = Is("purge", Order[i])
               /\ b.conf.original = IF Switch(own)[Order[i]] = "on" \/ ~Nameless(kind)
                                    THEN Given(kind, own) ELSE block.conf.original
<1> DEFINE merged == Merged(own, block.conf, Nameless(kind), Given(kind, own))
<1>1. own \in Written /\ ~ParseRefused(own)
  BY DEF Makes
<1>2. block.conf \in Settings
  BY Parts
<1>3. Places(own, block.conf) # {}
  BY EffectiveFacts
<1>4. merged.content = Gate /\ merged.conf.status = own.status
      /\ merged.conf.refresh = Refreshes(own, block.conf)
  BY <1>1, <1>2, <1>3, MergedFirst DEF ForStatus, ForRefresh
<1>5. PICK i \in Places(own, block.conf) :
         /\ \A j \in Places(own, block.conf) : i <= j
         /\ merged.conf.enable[Order[i]] = "on"
         /\ \A j \in DOMAIN Order : j < i => merged.conf.enable[Order[j]] = "off"
         /\ \A j \in DOMAIN Order :
               i < j => merged.conf.enable[Order[j]] = Switch(own)[Order[j]]
         /\ merged.conf.conf = Is("set", Order[i])
         /\ merged.conf.handler = Is("purge", Order[i])
         /\ merged.conf.original = IF Switch(own)[Order[i]] = "on" \/ ~Nameless(kind)
                                   THEN Given(kind, own) ELSE block.conf.original
  BY <1>1, <1>2, <1>3, MergedFirst DEF ForStatus, ForRefresh
<1>6. b.conf = merged.conf /\ b.content = Content(kind, merged.content)
  BY MergedParts
<1>7. own.status = Null
  BY WayFacts, OwnFacts
<1>8. Gate # NoHandler
  BY HandlerKinds
<1>9. i \in DOMAIN Order /\ Order[i] \in Effective(b)
  BY <1>5, EffectiveFacts DEF Places
<1>10. \A j \in DOMAIN Order : j < i => Order[j] \notin Effective(b)
  BY <1>5, <1>9, EffectiveFacts, PlaceFacts
<1> HIDE DEF merged
<1>11. /\ b.content = Gate /\ b.conf.status = Null
       /\ b.conf.refresh = Refreshes(own, block.conf)
  BY <1>4, <1>6, <1>7, <1>8 DEF Content
<1>12. QED BY <1>5, <1>6, <1>9, <1>10, <1>11

-----------------------------------------------------------------------------
(* The merge keeps the parts of the invariant *)

\* Where REFRESH is in force, its protocol is neither switched on nor inherited.
LEMMA RefreshAlone ==
  ASSUME NEW kind, NEW own, NEW b, Makes(kind, own, b), Refreshes(own, block.conf)
  PROVE  Switch(own)[Proxy] # "on" /\ Proxy \notin Effective(b)
<1>1. /\ own \in Written /\ ~ParseRefused(own) /\ SwitchesMatch(block)
  BY DEF Makes, BlockMatches
<1>2. block.conf \in Settings /\ Proxy \in Protocols
  BY Parts, PlaceFacts
<1>3. own.content = RefreshEndpoint => Switch(own)[Proxy] = "off"
  BY <1>1, SwitchFacts
<1>4. block.conf.refresh => block.conf.enable[Proxy] # "on"
  BY <1>1 DEF SwitchesMatch
<1>5. /\ Switch(own)[Proxy] # "on"
      /\ Switch(own)[Proxy] = Unset => block.conf.enable[Proxy] # "on"
  BY <1>3, <1>4 DEF Refreshes, Unset
<1>6. Proxy \in Effective(b) <=> \/ Switch(own)[Proxy] = "on"
                                 \/ Switch(own)[Proxy] = Unset /\ block.conf.enable[Proxy] = "on"
  BY <1>1, <1>2, EffectiveFacts, EnabledFacts
<1>7. QED BY <1>5, <1>6

\* Where a protocol is in force, its switch was on or not set.
LEMMA EffectiveSwitch ==
  ASSUME NEW kind, NEW own, NEW b, Makes(kind, own, b), NEW p \in Protocols
  PROVE  /\ Switch(own)[p] = "on" => p \in Effective(b)
         /\ p \in Effective(b) => Switch(own)[p] # "off"
<1>1. own \in Written /\ ~ParseRefused(own) /\ block.conf \in Settings
  BY Parts DEF Makes
<1>2. p \in Effective(b) <=> \/ Switch(own)[p] = "on"
                             \/ Switch(own)[p] = Unset /\ block.conf.enable[p] = "on"
  BY <1>1, EffectiveFacts, EnabledFacts
<1>3. QED BY <1>2 DEF Unset

\* The switches.
LEMMA SwitchesMade ==
  ASSUME NEW kind, NEW own, NEW b, Makes(kind, own, b)
  PROVE  SwitchesMatch(b)
<1>1. own \in Written /\ ~ParseRefused(own) /\ Proxy \in Protocols
  BY PlaceFacts DEF Makes
<1>2. Switch(own) \in [Protocols -> {Unset, "on", "off"}] /\ Effective(b) \subseteq Protocols
  BY <1>1, SwitchFacts, EffectiveFacts DEF Switches
<1>3. CASE ForStatus(kind, own)
  <2>1. b.conf.enable = Switch(own) /\ b.conf.refresh = Refreshes(own, block.conf)
    BY <1>3, StatusMade
  <2>2. Refreshes(own, block.conf) => Switch(own)[Proxy] # "on"
    BY RefreshAlone
  <2>3. QED BY <1>2, <2>1, <2>2, EffectiveSwitch DEF SwitchesMatch
<1>4. CASE ~ForStatus(kind, own) /\ ForRefresh(kind, own)
  <2>1. b.conf.enable = [Switch(own) EXCEPT ![Proxy] = "off"]
    BY <1>4, RefreshSwitches
  <2>2. Refreshes(own, block.conf)
    BY <1>4, WayFacts, OwnFacts
  <2>3. Proxy \notin Effective(b)
    BY <2>2, RefreshAlone
  <2>4. b.conf.enable[Proxy] = "off" /\ \A p \in Protocols \ {Proxy} :
                                            b.conf.enable[p] = Switch(own)[p]
    BY <1>1, <1>2, <2>1
  <2>5. QED BY <1>2, <2>3, <2>4, EffectiveSwitch DEF SwitchesMatch
<1>5. CASE ~ForStatus(kind, own) /\ ~ForRefresh(kind, own) /\ Effective(b) = {}
  <2>1. b.conf.enable = [p \in Protocols |-> "off"]
    BY <1>5, NoneMade
  <2>2. QED BY <1>1, <1>5, <2>1 DEF SwitchesMatch
<1>6. CASE ~ForStatus(kind, own) /\ ~ForRefresh(kind, own) /\ Effective(b) # {}
  <2>1. PICK i \in DOMAIN Order :
           /\ Order[i] \in Effective(b)
           /\ \A j \in DOMAIN Order : j < i => Order[j] \notin Effective(b)
           /\ b.conf.enable[Order[i]] = "on"
           /\ \A j \in DOMAIN Order : j < i => b.conf.enable[Order[j]] = "off"
           /\ \A j \in DOMAIN Order : i < j => b.conf.enable[Order[j]] = Switch(own)[Order[j]]
    BY <1>6, FirstMade
  <2>2. b.conf.refresh = Refreshes(own, block.conf)
    BY <1>6, FirstMade
  <2>3. ASSUME NEW j \in DOMAIN Order
        PROVE  /\ b.conf.enable[Order[j]] = "on" => Order[j] \in Effective(b)
               /\ Order[j] \in Effective(b) => b.conf.enable[Order[j]] # "off"
    <3>1. CASE j < i
      BY <2>1, <3>1
    <3>2. CASE j = i
      BY <2>1, <3>2
    <3>3. CASE i < j
      <4>1. Order[j] \in Protocols
        BY PlaceFacts
      <4>2. QED BY <2>1, <3>3, <4>1, EffectiveSwitch
    <3>4. i \in Nat /\ j \in Nat
      BY PlaceFacts
    <3>5. QED BY <3>1, <3>2, <3>3, <3>4
  <2>4. \A p \in Protocols : /\ b.conf.enable[p] = "on" => p \in Effective(b)
                             /\ p \in Effective(b) => b.conf.enable[p] # "off"
    BY <2>3, PlaceFacts
  <2>5. b.conf.refresh => Proxy \notin Effective(b)
    BY <2>2, RefreshAlone
  <2>6. QED BY <1>1, <1>2, <2>4, <2>5 DEF SwitchesMatch
<1>7. QED BY <1>3, <1>4, <1>5, <1>6

\* What the endpoint of a block is, by the way it is merged.
LEMMA EndpointWay ==
  ASSUME NEW kind, NEW own, NEW b, Makes(kind, own, b)
  PROVE  /\ ForStatus(kind, own) <=> b.endpoint = Status
         /\ ForRefresh(kind, own) /\ ~ForStatus(kind, own) <=> b.endpoint = RefreshEndpoint
         /\ b.endpoint \in Handlers
<1>1. /\ own \in Written /\ ~ParseRefused(own) /\ EndpointMatches(block)
      /\ block.kind \in Around(kind) /\ kind \in Kinds \ {"http"} /\ HandlerMatches(block)
  BY DEF Makes, BlockMatches
<1>2. /\ b.endpoint = EndpointOf(kind, own) /\ own.content \in Handlers
      /\ block.endpoint \in Handlers /\ Proxy \in Protocols
  BY Parts, PlaceFacts
<1>3. CASE Separate(own) \/ own.content = Status
  <2>1. b.endpoint = own.content
    BY <1>2, <1>3 DEF EndpointOf
  <2>2. Given(kind, own) = own.content
    BY <1>3, OwnFacts DEF Separate, NoHandler, Is, RefreshEndpoint, Status
  <2>3. own.content # NoHandler
    BY <1>3, HandlerKinds DEF Separate
  <2>4. Status # RefreshEndpoint
    BY HandlerKinds
  <2>5. ForStatus(kind, own) <=> own.content = Status
    BY <2>2, <2>3, WayFacts
  <2>6. ForRefresh(kind, own) <=> own.content = RefreshEndpoint
    BY <2>2, <2>3, WayFacts
  <2>7. QED BY <1>2, <2>1, <2>4, <2>5, <2>6
<1>4. CASE ~Separate(own) /\ own.content.kind = "pass"
  <2>1. b.endpoint = NoHandler
    BY <1>2, <1>4, HandlerKinds DEF EndpointOf
  <2>2. own.content # NoHandler /\ own.content # Status /\ own.content # RefreshEndpoint
    BY <1>4, HandlerKinds
  <2>3. Given(kind, own) # NoHandler
    BY <2>2, OwnFacts
  <2>4. ~ForStatus(kind, own) /\ ~ForRefresh(kind, own)
    BY <2>2, <2>3, WayFacts
  <2>5. NoHandler \in Handlers /\ NoHandler # Status /\ NoHandler # RefreshEndpoint
    BY HandlerKinds DEF Handlers
  <2>6. QED BY <2>1, <2>4, <2>5
<1>5. CASE ~Separate(own) /\ own.content = NoHandler
  <2> DEFINE plain == \A p \in Protocols : own.purge[p] # "on"
  <2>1. b.endpoint = IF \/ Nameless(kind)
                        \/ block.endpoint = RefreshEndpoint /\ own.purge[Proxy] = Unset
                        \/ block.endpoint = Status /\ plain
                     THEN block.endpoint ELSE NoHandler
    <3>1. own.content # Status /\ own.content.kind # "pass"
      BY <1>5, HandlerKinds
    <3>2. QED BY <1>2, <1>5, <3>1 DEF EndpointOf
  <2>2. Switch(own) = own.purge
    BY <1>1, <1>5, SwitchFacts
  <2>3. Nameless(kind) => plain /\ own.purge[Proxy] = Unset
    BY <1>2, <2>2, OwnFacts DEF Unset
  <2>4. NoHandler \in Handlers /\ NoHandler # Status /\ NoHandler # RefreshEndpoint
        /\ Status # RefreshEndpoint
    BY HandlerKinds DEF Handlers
  <2>5. Given(kind, own) # NoHandler => block.pass # Null
    BY <1>5, OwnFacts
  <2>6. block.pass # Null => block.endpoint = NoHandler
    BY <1>1 DEF HandlerMatches
  <2>7. Given(kind, own) # NoHandler => Nameless(kind)
    BY <1>5, OwnFacts DEF Nameless
  <2>8. ForStatus(kind, own) <=> block.endpoint = Status /\ plain
    BY <1>5, <2>2, <2>4, <2>5, <2>6, WayFacts
  <2>9. ForStatus(kind, own) <=> b.endpoint = Status
    BY <2>1, <2>3, <2>4, <2>8
  <2>10. ForRefresh(kind, own) <=> /\ Given(kind, own) = NoHandler
                                   /\ own.purge[Proxy] = Unset /\ block.conf.refresh
    BY <1>5, <2>2, <2>4, WayFacts DEF Refreshes
  <2>11. block.conf.refresh /\ kind # "server" => block.endpoint = RefreshEndpoint
    BY <1>1 DEF EndpointMatches, Around, Kinds
  <2>12. kind = "server" => ~block.conf.refresh
    BY <1>1 DEF EndpointMatches, Around
  <2>13. block.endpoint = RefreshEndpoint => block.conf.refresh
    BY <1>1 DEF EndpointMatches
  <2> HIDE DEF plain
  <2>14. ForRefresh(kind, own) <=> block.endpoint = RefreshEndpoint /\ own.purge[Proxy] = Unset
    BY <2>4, <2>5, <2>6, <2>10, <2>11, <2>12, <2>13
  <2>15. ForRefresh(kind, own) /\ ~ForStatus(kind, own) <=> b.endpoint = RefreshEndpoint
    BY <2>1, <2>3, <2>4, <2>8, <2>14
  <2>16. QED BY <1>2, <2>1, <2>4, <2>9, <2>15
<1>6. \/ Separate(own) \/ own.content = Status \/ own.content.kind = "pass"
      \/ own.content = NoHandler
  BY <1>2, KnownHandler DEF Separate
<1>7. QED BY <1>3, <1>4, <1>5, <1>6

\* A nameless block in one with the gate has it again, for the same protocol.
LEMMA GateStays ==
  ASSUME NEW kind, NEW own, NEW b, Makes(kind, own, b), Nameless(kind)
  PROVE  /\ Effective(b) = {} => block.content # Gate
         /\ Effective(b) # {} => block.content \in {Gate, RefreshEndpoint}
<1>1. own \in Written /\ ~ParseRefused(own) /\ GateMatches(block) /\ block.kind = "location"
  BY DEF Makes, BlockMatches, Nameless, Around
<1>2. block.conf \in Settings
  BY Parts
<1>3. \A p \in Protocols : p \in Effective(b) <=> block.conf.enable[p] = "on"
  <2>1. SUFFICES ASSUME NEW p \in Protocols
                 PROVE  p \in Effective(b) <=> block.conf.enable[p] = "on"
    OBVIOUS
  <2>2. Switch(own)[p] = Unset
    BY OwnFacts
  <2>3. p \in Effective(b) <=> \/ Switch(own)[p] = "on"
                               \/ Switch(own)[p] = Unset /\ block.conf.enable[p] = "on"
    BY <1>1, <1>2, EffectiveFacts, EnabledFacts
  <2>4. QED BY <2>2, <2>3 DEF Unset
<1>4. block.content = Gate => \E p \in Protocols : block.conf.enable[p] = "on"
  BY <1>1, PlaceFacts DEF GateMatches
<1>5. \A p \in Protocols : block.conf.enable[p] = "on" => block.content \in {Gate, RefreshEndpoint}
  BY <1>1 DEF GateMatches
<1>6. Effective(b) \subseteq Protocols
  BY EffectiveFacts
<1>7. QED BY <1>3, <1>4, <1>5, <1>6

\* Without a protocol in force there is no gate.
LEMMA NoGate ==
  ASSUME NEW kind, NEW own, NEW b, Makes(kind, own, b),
         ~ForStatus(kind, own), ~ForRefresh(kind, own), Effective(b) = {}
  PROVE  b.content # Gate
<1>1. b.content = Content(kind, Given(kind, own))
  BY NoneMade
<1>2. Given(kind, own) # Gate
  BY Parts, KnownHandler
<1>3. QED BY <1>1, <1>2, GateStays DEF Content

\* The gate.
LEMMA GateMade ==
  ASSUME NEW kind, NEW own, NEW b, Makes(kind, own, b)
  PROVE  GateMatches(b)
<1>1. Gate # Status /\ Gate # RefreshEndpoint
  BY HandlerKinds
<1>2. CASE ForStatus(kind, own)
  <2>1. b.content = Status /\ b.conf.enable = Switch(own) /\ b.endpoint = Status
    BY <1>2, StatusMade, EndpointWay
  <2>2. \A p \in Protocols : Switch(own)[p] # "on"
    BY <1>2, WayFacts, OwnFacts
  <2>3. QED BY <1>1, <2>1, <2>2 DEF GateMatches
<1>3. CASE ~ForStatus(kind, own) /\ ForRefresh(kind, own)
  <2>1. b.content = RefreshEndpoint /\ b.endpoint = RefreshEndpoint
    BY <1>3, RefreshMade, EndpointWay
  <2>2. QED BY <1>1, <2>1 DEF GateMatches
<1>4. CASE ~ForStatus(kind, own) /\ ~ForRefresh(kind, own) /\ Effective(b) = {}
  <2>1. b.content # Gate /\ b.conf.enable = [p \in Protocols |-> "off"]
    BY <1>4, NoneMade, NoGate
  <2>2. QED BY <1>4, <2>1 DEF GateMatches
<1>5. CASE ~ForStatus(kind, own) /\ ~ForRefresh(kind, own) /\ Effective(b) # {}
  BY <1>5, FirstMade DEF GateMatches
<1>6. QED BY <1>2, <1>3, <1>4, <1>5

\* What goes with an endpoint.
LEMMA EndpointMade ==
  ASSUME NEW kind, NEW own, NEW b, Makes(kind, own, b)
  PROVE  EndpointMatches(b)
<1>1. /\ EndpointMatches(block) /\ block.kind \in Around(kind) /\ kind \in Kinds \ {"http"}
  BY DEF Makes, BlockMatches
<1>2. b.kind = kind /\ Given(kind, own) \in Handlers
  BY Parts
<1>3. b.conf.status # Null <=> b.endpoint = Status
  <2>1. CASE ForStatus(kind, own)
    BY <2>1, StatusMade, EndpointWay
  <2>2. CASE ~ForStatus(kind, own)
    <3>1. b.conf.status = Null
      <4>1. CASE ForRefresh(kind, own)
        BY <2>2, <4>1, RefreshMade
      <4>2. CASE ~ForRefresh(kind, own) /\ Effective(b) = {}
        BY <2>2, <4>2, NoneMade
      <4>3. CASE ~ForRefresh(kind, own) /\ Effective(b) # {}
        BY <2>2, <4>3, FirstMade
      <4>4. QED BY <4>1, <4>2, <4>3
    <3>2. QED BY <2>2, <3>1, EndpointWay
  <2>3. QED BY <2>1, <2>2
<1>4. b.endpoint = RefreshEndpoint => b.conf.refresh
  BY RefreshSwitches, EndpointWay
<1>5. b.conf.refresh => Refreshes(own, block.conf)
  BY StatusMade, NoneMade, FirstMade, WayFacts, OwnFacts
<1>6. kind \in {"server", "location"} /\ Refreshes(own, block.conf)
        => own.content = RefreshEndpoint
  <2>1. kind \in {"server", "location"} => ~block.conf.refresh
    BY <1>1 DEF Around, EndpointMatches
  <2>2. QED BY <2>1 DEF Refreshes
<1>7. b.conf.refresh => kind # "server"
  BY <1>5, <1>6, OwnFacts, HandlerKinds
<1>8. ASSUME b.conf.refresh, kind = "location" PROVE b.endpoint = RefreshEndpoint
  <2>1. own.content = RefreshEndpoint
    BY <1>5, <1>6, <1>8
  <2>2. Given(kind, own) # NoHandler /\ own.content # Status
    BY <1>8, <2>1, OwnFacts, HandlerKinds
  <2>3. QED BY <2>1, <2>2, WayFacts, EndpointWay
<1>9. b.conf.original.kind \in {"none", "pass", "purge"}
  <2>1. block.conf.original.kind \in {"none", "pass", "purge"}
    BY <1>1 DEF EndpointMatches
  <2>2. ~ForStatus(kind, own) /\ ~ForRefresh(kind, own)
          => Given(kind, own).kind \in {"none", "pass", "purge"}
    <3>1. SUFFICES ASSUME ~ForStatus(kind, own), ~ForRefresh(kind, own)
                   PROVE  Given(kind, own).kind \in {"none", "pass", "purge"}
      OBVIOUS
    <3>2. own.content # Status /\ own.content # RefreshEndpoint
      BY <3>1, WayFacts
    <3>3. Given(kind, own) = own.content \/ Given(kind, own) = Is("pass", block.pass)
      BY OwnFacts
    <3>4. own.content \in Handlers
      BY Parts
    <3>5. QED BY <3>2, <3>3, <3>4, KnownHandler, HandlerKinds
  <2>3. NoHandler.kind = "none"
    BY HandlerKinds
  <2>4. CASE ForStatus(kind, own)
    BY <2>3, <2>4, StatusMade
  <2>5. CASE ~ForStatus(kind, own) /\ ForRefresh(kind, own)
    BY <2>3, <2>5, RefreshMade
  <2>6. CASE ~ForStatus(kind, own) /\ ~ForRefresh(kind, own) /\ Effective(b) = {}
    BY <2>1, <2>6, NoneMade
  <2>7. CASE ~ForStatus(kind, own) /\ ~ForRefresh(kind, own) /\ Effective(b) # {}
    <3>1. b.conf.original \in {Given(kind, own), block.conf.original}
      BY <2>7, FirstMade
    <3>2. QED BY <2>1, <2>2, <2>7, <3>1
  <2>8. QED BY <2>4, <2>5, <2>6, <2>7
<1>10. b.kind # "http"
  BY <1>1, <1>2
<1>11. b.conf.refresh => b.kind \notin {"http", "server"}
  BY <1>2, <1>7, <1>10
<1>12. b.conf.refresh /\ b.kind = "location" => b.endpoint = RefreshEndpoint
  BY <1>2, <1>8
<1>13. QED BY <1>3, <1>4, <1>9, <1>11, <1>12 DEF EndpointMatches

\* A block with a pass is no endpoint.
LEMMA PassAlone ==
  ASSUME NEW kind, NEW own, NEW b, Makes(kind, own, b)
  PROVE  /\ b.pass # Null => b.endpoint = NoHandler
         /\ own.content.kind = "pass" => /\ own.content = Is("pass", b.pass) /\ b.pass # Null
                                         /\ b.endpoint = NoHandler
                                         /\ Given(kind, own) = own.content
         /\ own.content.kind # "pass" => b.pass = IF Nameless(kind) THEN block.pass ELSE Null
         /\ b.foreign => b.pass # Null /\ Nameless(kind)
<1>1. /\ b.pass = PassOf(kind, own) /\ b.endpoint = EndpointOf(kind, own)
      /\ own.content \in Handlers
      /\ b.foreign <=> /\ Nameless(kind) /\ own.content.kind = "pass"
                       /\ own.content.of # block.pass
  BY Parts
<1>2. HandlerMatches(block)
  BY DEF Makes, BlockMatches
<1>3. ASSUME own.content.kind = "pass"
      PROVE  /\ own.content = Is("pass", b.pass) /\ b.pass # Null
             /\ b.endpoint = NoHandler /\ Given(kind, own) = own.content
  <2>1. own.content = Is("pass", own.content.of) /\ own.content.of \in Protocols
    BY <1>1, <1>3, KnownHandler
  <2>2. b.pass = own.content.of
    BY <1>1, <1>3 DEF PassOf
  <2>3. own.content # Status /\ own.content # NoHandler /\ own.content # RefreshEndpoint
    BY <1>3, HandlerKinds
  <2>4. ~Separate(own)
    BY <1>3, <2>3 DEF Separate
  <2>5. b.endpoint = NoHandler
    BY <1>1, <1>3, <2>3, <2>4 DEF EndpointOf
  <2>6. b.pass # Null
    BY <2>1, <2>2, LocationsAssumption DEF Protocols
  <2>7. QED BY <2>1, <2>2, <2>3, <2>5, <2>6, OwnFacts
<1>4. own.content.kind # "pass" => b.pass = IF Nameless(kind) THEN block.pass ELSE Null
  BY <1>1 DEF PassOf
<1>5. ASSUME b.pass # Null PROVE b.endpoint = NoHandler
  <2>1. CASE own.content.kind = "pass"
    BY <1>3, <2>1
  <2>2. CASE own.content.kind # "pass"
    <3>1. Nameless(kind) /\ block.pass # Null
      BY <1>4, <1>5, <2>2
    <3>2. block.endpoint = NoHandler
      BY <1>2, <3>1 DEF HandlerMatches
    <3>3. own.content = NoHandler
      BY <2>2, <3>1, OwnFacts
    <3>4. ~Separate(own) /\ own.content # Status
      BY <3>3, HandlerKinds DEF Separate
    <3>5. QED BY <1>1, <3>1, <3>2, <3>3, <3>4 DEF EndpointOf
  <2>3. QED BY <2>1, <2>2
<1>6. QED BY <1>1, <1>3, <1>4, <1>5

\* What the block around has behind its gate, if it has one, a nameless block has.
LEMMA AroundNameless ==
  ASSUME NEW kind, NEW own, NEW b, Makes(kind, own, b), Nameless(kind)
  PROVE  /\ block.pass # Null => /\ Behind(block) = Is("pass", block.pass)
                                 /\ block.endpoint = NoHandler
         /\ block.pass = Null => Behind(block) = block.endpoint
         /\ own.content.kind # "pass" => b.endpoint = block.endpoint /\ own.content = NoHandler
<1>1. /\ HandlerMatches(block) /\ block.kind = "location"
  BY DEF Makes, BlockMatches, Nameless, Around
<1>2. ~block.foreign
  BY <1>1 DEF HandlerMatches, Nameless
<1>3. ASSUME own.content.kind # "pass"
      PROVE  b.endpoint = block.endpoint /\ own.content = NoHandler
  <2>1. own.content = NoHandler
    BY <1>3, OwnFacts
  <2>2. ~Separate(own) /\ own.content # Status
    BY <2>1, HandlerKinds DEF Separate
  <2>3. b.endpoint = EndpointOf(kind, own)
    BY Parts
  <2>4. QED BY <1>3, <2>1, <2>2, <2>3 DEF EndpointOf
<1>4. QED BY <1>1, <1>2, <1>3 DEF HandlerMatches

\* The handler that answers.
LEMMA HandlerMade ==
  ASSUME NEW kind, NEW own, NEW b, Makes(kind, own, b)
  PROVE  HandlerMatches(b)
<1>1. /\ own.content \in Handlers /\ b.kind = kind /\ b.endpoint = EndpointOf(kind, own)
      /\ block.content \in Handlers \cup {Gate}
  BY Parts
<1>2. /\ b.pass # Null => b.endpoint = NoHandler
      /\ b.foreign => b.pass # Null /\ Nameless(b.kind)
  BY <1>1, PassAlone
<1>3. /\ NoHandler # Status /\ NoHandler # RefreshEndpoint /\ NoHandler # Gate
      /\ Status # Gate /\ RefreshEndpoint # Gate /\ Status # RefreshEndpoint
  BY HandlerKinds
<1>4. CASE ForStatus(kind, own)
  <2>1. b.content = Status /\ b.endpoint = Status
    BY <1>4, StatusMade, EndpointWay
  <2>2. QED BY <1>2, <1>3, <2>1 DEF HandlerMatches, Behind
<1>5. CASE ~ForStatus(kind, own) /\ ForRefresh(kind, own)
  <2>1. b.content = RefreshEndpoint /\ b.endpoint = RefreshEndpoint
    BY <1>5, RefreshMade, EndpointWay
  <2>2. QED BY <1>2, <1>3, <2>1 DEF HandlerMatches, Behind
<1>6. CASE ~ForStatus(kind, own) /\ ~ForRefresh(kind, own)
  <2>1. b.endpoint # Status /\ b.endpoint # RefreshEndpoint
    BY <1>6, EndpointWay
  <2>2. own.content # Status /\ own.content # RefreshEndpoint
    BY <1>6, WayFacts
  <2>3. CASE own.content.kind = "pass"
    <3>1. /\ own.content = Is("pass", b.pass) /\ b.pass # Null /\ Given(kind, own) = own.content
          /\ own.content # NoHandler /\ own.content # Gate
      BY <2>3, PassAlone, HandlerKinds
    <3>2. CASE Effective(b) = {}
      <4>1. b.content = own.content
        BY <1>6, <3>1, <3>2, NoneMade DEF Content
      <4>2. QED BY <1>2, <3>1, <4>1 DEF HandlerMatches, Behind
    <3>3. CASE Effective(b) # {}
      <4>1. b.content = Gate /\ (b.conf.original = Given(kind, own)
                                   \/ (Nameless(kind) /\ b.conf.original = block.conf.original))
        BY <1>6, <3>3, FirstMade
      <4>2. CASE b.conf.original = Given(kind, own)
        BY <1>2, <3>1, <4>1, <4>2 DEF HandlerMatches, Behind
      <4>3. CASE Nameless(kind) /\ b.conf.original = block.conf.original
        <5>1. CASE b.pass = block.pass
          <6>1. Behind(block) = own.content
            BY <3>1, <4>3, <5>1, AroundNameless
          <6>2. block.content \in {Gate, RefreshEndpoint}
            BY <3>3, <4>3, GateStays
          <6>3. block.content = Gate
            BY <1>3, <2>2, <6>1, <6>2 DEF Behind
          <6>4. QED BY <1>2, <3>1, <4>1, <4>3, <6>1, <6>3 DEF HandlerMatches, Behind
        <5>2. CASE b.pass # block.pass
          <6>1. own.content.of = b.pass
            BY <3>1, HandlerKinds
          <6>2. b.foreign
            BY <2>3, <4>3, <5>2, <6>1, Parts
          <6>3. QED BY <1>2, <3>1, <4>1, <6>2 DEF HandlerMatches
        <5>3. QED BY <5>1, <5>2
      <4>4. QED BY <4>1, <4>2, <4>3
    <3>4. QED BY <3>2, <3>3
  <2>4. CASE own.content.kind # "pass" /\ ~Nameless(kind)
    <3>1. b.pass = Null /\ Given(kind, own) = own.content
      BY <2>4, PassAlone, OwnFacts DEF Nameless
    <3>2. b.endpoint = own.content
      <4>1. CASE Separate(own)
        BY <1>1, <4>1 DEF EndpointOf
      <4>2. CASE ~Separate(own)
        <5>1. own.content = NoHandler
          BY <1>1, <2>2, <2>4, <4>2, KnownHandler DEF Separate
        <5>2. b.endpoint \in {NoHandler, Status, RefreshEndpoint}
          BY <1>1, <1>3, <2>4, <4>2, <5>1 DEF EndpointOf
        <5>3. QED BY <2>1, <5>1, <5>2
      <4>3. QED BY <4>1, <4>2
    <3>3. Behind(b) = own.content
      <4>1. CASE Effective(b) = {}
        <5>1. b.content = own.content
          BY <1>6, <2>4, <3>1, <4>1, NoneMade DEF Content
        <5>2. own.content # Gate
          BY <1>1, KnownHandler
        <5>3. QED BY <5>1, <5>2 DEF Behind
      <4>2. CASE Effective(b) # {}
        <5>1. b.content = Gate /\ b.conf.original = Given(kind, own)
          BY <1>6, <2>4, <4>2, FirstMade
        <5>2. QED BY <3>1, <5>1 DEF Behind
      <4>3. QED BY <4>1, <4>2
    <3>4. QED BY <1>2, <3>1, <3>2, <3>3 DEF HandlerMatches
  <2>5. CASE own.content.kind # "pass" /\ Nameless(kind)
    <3>1. /\ b.pass = block.pass /\ b.endpoint = block.endpoint /\ own.content = NoHandler
          /\ block.pass # Null => Behind(block) = Is("pass", block.pass)
          /\ block.pass = Null => Behind(block) = block.endpoint
      BY <2>5, PassAlone, AroundNameless
    <3>2. Behind(b) = Behind(block)
      <4>1. CASE Effective(b) = {}
        <5>1. b.content = Content(kind, Given(kind, own)) /\ b.content # Gate
          BY <1>6, <4>1, NoneMade, NoGate
        <5>2. block.content # Gate
          BY <2>5, <4>1, GateStays
        <5>3. CASE Given(kind, own) = NoHandler
          BY <2>5, <5>1, <5>2, <5>3 DEF Content, Behind
        <5>4. CASE Given(kind, own) # NoHandler
          <6>1. block.pass # Null /\ Given(kind, own) = Is("pass", block.pass)
            BY <3>1, <5>4, OwnFacts
          <6>2. b.content = Is("pass", block.pass)
            BY <5>1, <5>4, <6>1 DEF Content
          <6>3. QED BY <3>1, <5>1, <6>1, <6>2 DEF Behind
        <5>5. QED BY <5>3, <5>4
      <4>2. CASE Effective(b) # {}
        <5>1. /\ b.content = Gate
              /\ b.conf.original = block.conf.original \/ b.conf.original = Given(kind, own)
          BY <1>6, <4>2, FirstMade
        <5>2. b.conf.original = block.conf.original
          <6>1. PICK i \in DOMAIN Order :
                   b.conf.original = IF Switch(own)[Order[i]] = "on" \/ ~Nameless(kind)
                                     THEN Given(kind, own) ELSE block.conf.original
            BY <1>6, <4>2, FirstMade
          <6>2. Order[i] \in Protocols
            BY PlaceFacts
          <6>3. Switch(own)[Order[i]] # "on"
            BY <2>5, <6>2, OwnFacts DEF Unset
          <6>4. QED BY <2>5, <6>1, <6>3
        <5>3. block.content \in {Gate, RefreshEndpoint}
          BY <2>5, <4>2, GateStays
        <5>4. block.content = Gate
          <6>1. Behind(block) = RefreshEndpoint => block.pass = Null
            BY <3>1, HandlerKinds
          <6>2. Behind(block) # RefreshEndpoint
            BY <2>1, <3>1, <6>1
          <6>3. QED BY <1>3, <5>3, <6>2 DEF Behind
        <5>5. QED BY <5>1, <5>2, <5>4 DEF Behind
      <4>3. QED BY <4>1, <4>2
    <3>3. QED BY <1>2, <3>1, <3>2 DEF HandlerMatches
  <2>6. QED BY <2>3, <2>4, <2>5
<1>7. QED BY <1>4, <1>5, <1>6

\* A handler that a block in an endpoint of REFRESH does not get.
LEMMA RefreshBehind ==
  ASSUME NEW kind, NEW own, NEW b, Makes(kind, own, b)
  PROVE  RefreshMatches(b)
<1>1. /\ EndpointMatches(block) /\ HandlerMatches(block) /\ RefreshMatches(block)
      /\ block.kind \in Around(kind)
  BY DEF Makes, BlockMatches
<1>2. b.content = RefreshEndpoint => b.conf.original = NoHandler
  <2>1. CASE ForStatus(kind, own)
    BY <2>1, StatusMade
  <2>2. CASE ~ForStatus(kind, own) /\ ForRefresh(kind, own)
    BY <2>2, RefreshMade
  <2>3. CASE ~ForStatus(kind, own) /\ ~ForRefresh(kind, own) /\ Effective(b) = {}
    <3>1. b.content = Content(kind, Given(kind, own)) /\ b.conf.original = block.conf.original
      BY <2>3, NoneMade
    <3>2. Given(kind, own) # RefreshEndpoint
      BY <2>3, WayFacts, OwnFacts, HandlerKinds
    <3>3. QED BY <1>1, <3>1, <3>2 DEF Content, RefreshMatches
  <2>4. CASE ~ForStatus(kind, own) /\ ~ForRefresh(kind, own) /\ Effective(b) # {}
    BY <2>4, FirstMade, HandlerKinds
  <2>5. QED BY <2>1, <2>2, <2>3, <2>4
<1>3. ASSUME b.foreign, b.content = Gate, b.conf.refresh
      PROVE  b.conf.original = NoHandler
  <2>1. Nameless(kind) /\ own.content.kind = "pass"
    BY <1>3, Parts
  <2>2. own.content # RefreshEndpoint /\ own.content # Status
    BY <2>1, HandlerKinds
  <2>3. b.endpoint = NoHandler
    BY <2>1, PassAlone
  <2>4. ~ForStatus(kind, own) /\ ~ForRefresh(kind, own)
    BY <2>3, EndpointWay, HandlerKinds
  <2>5. Effective(b) # {}
    BY <1>3, <2>4, NoGate
  <2>6. Refreshes(own, block.conf)
    BY <1>3, <2>4, <2>5, FirstMade
  <2>7. block.conf.refresh
    BY <2>2, <2>6 DEF Refreshes
  <2>8. block.kind = "location" /\ block.endpoint = RefreshEndpoint
    BY <1>1, <2>1, <2>7 DEF EndpointMatches, Nameless, Around
  <2>9. block.pass = Null /\ Behind(block) = RefreshEndpoint
    BY <1>1, <2>8, HandlerKinds DEF HandlerMatches
  <2>10. block.content # Gate
    BY <1>1, <2>9, HandlerKinds DEF EndpointMatches, Behind
  <2>11. block.conf.original = NoHandler
    BY <1>1, <2>9, <2>10 DEF Behind, RefreshMatches
  <2>12. PICK i \in DOMAIN Order :
            b.conf.original = IF Switch(own)[Order[i]] = "on" \/ ~Nameless(kind)
                              THEN Given(kind, own) ELSE block.conf.original
    BY <2>4, <2>5, FirstMade
  <2>13. Switch(own)[Order[i]] # "on"
    BY <2>1, OwnFacts, PlaceFacts DEF Unset
  <2>14. QED BY <2>1, <2>11, <2>12, <2>13
<1>4. QED BY <1>2, <1>3 DEF RefreshMatches

\* A block that is made of the last one matches what its directives ask for.
LEMMA BlockMade ==
  ASSUME NEW kind, NEW own, NEW b, Makes(kind, own, b)
  PROVE  BlockMatches(b)
BY SwitchesMade, GateMade, EndpointMade, HandlerMade, RefreshBehind DEF BlockMatches

\* The block that was merged last does.
BlockInv == block # Null => BlockMatches(block)

\* An http block.
LEMMA ReadHttpBlock ==
  ASSUME NEW f \in Files, NEW own \in Blocks(f, "http"), ReadHttp(f, own)
  PROVE  BlockInv'
<1>1. CASE Refused
  BY <1>1 DEF Refused, Idle, BlockInv
<1>2. CASE ~Refused
  <2> DEFINE b == [kind |-> "http", conf |-> Parsed(own), content |-> NoHandler,
                   pass |-> Null, endpoint |-> NoHandler, foreign |-> FALSE,
                   asked |-> {p \in Protocols : own.purge[p] = "on"}, cut |-> {}]
  <2>1. block' = b /\ ~ParseRefused(own)
    BY <1>2, Zenon DEF ReadHttp
  <2>2. own \in Written /\ Allowed("http", own)
    BY ConfigurationAssumption, BlocksAssumption DEF Kinds
  <2>3. own.content = NoHandler /\ own.status = Null
    BY <2>2, HandlerKinds DEF Allowed, Separate
  <2>4. ~Separate(own)
    BY <2>3, HandlerKinds DEF Separate
  <2>5. /\ Parsed(own).enable = own.purge /\ Parsed(own).refresh = FALSE
        /\ Parsed(own).status = Null /\ Parsed(own).original = NoHandler
    <3>1. Parsed(own).enable = own.purge
      BY <2>1, <2>2, <2>4, SwitchFacts DEF Switch
    <3>2. /\ Parsed(own).refresh = (own.content = RefreshEndpoint)
          /\ Parsed(own).status = own.status /\ Parsed(own).original = NoHandler
      BY DEF Parsed
    <3>3. QED BY <2>3, <3>1, <3>2, HandlerKinds
  <2>6. /\ b.kind = "http" /\ b.conf = Parsed(own) /\ b.content = NoHandler
        /\ b.pass = Null /\ b.endpoint = NoHandler /\ b.foreign = FALSE
        /\ b.asked = {p \in Protocols : own.purge[p] = "on"} /\ b.cut = {}
    OBVIOUS
  <2> HIDE DEF b
  <2>7. SwitchesMatch(b)
    BY <2>5, <2>6 DEF SwitchesMatch, Effective
  <2>8. GateMatches(b)
    BY <2>6, HandlerKinds DEF GateMatches
  <2>9. EndpointMatches(b)
    BY <2>5, <2>6, HandlerKinds DEF EndpointMatches
  <2>10. HandlerMatches(b)
    BY <2>6, HandlerKinds DEF HandlerMatches, Behind
  <2>11. RefreshMatches(b)
    BY <2>6, HandlerKinds DEF RefreshMatches
  <2>12. BlockMatches(b)
    BY <2>7, <2>8, <2>9, <2>10, <2>11 DEF BlockMatches
  <2>13. QED BY <2>1, <2>12 DEF BlockInv
<1>3. QED BY <1>1, <1>2

\* A block in the one that was merged last.
LEMMA ReadBlockBlock ==
  ASSUME ReloadInv, BlockInv, file # Null, NEW kind \in Kinds \ {"http"},
         NEW own \in Blocks(file, kind), ReadBlock(kind, own)
  PROVE  BlockInv'
<1>1. CASE Refused
  BY <1>1 DEF Refused, Idle, BlockInv
<1>2. CASE ~Refused
  <2> DEFINE merged == Merged(own, block.conf, Nameless(kind), Given(kind, own))
             b == [kind |-> kind, conf |-> merged.conf,
                   content |-> Content(kind, merged.content),
                   pass |-> PassOf(kind, own), asked |-> AskedOf(own),
                   endpoint |-> EndpointOf(kind, own), cut |-> CutOf(own),
                   foreign |-> /\ Nameless(kind) /\ own.content.kind = "pass"
                               /\ own.content.of # block.pass]
  <2>1. /\ block' = b /\ block.kind \in Around(kind)
        /\ kind = "limit_except" => block.pass # Null
        /\ ~ParseRefused(own) /\ ~MergeRefused(Inherited(Parsed(own), block.conf))
    BY <1>2, Zenon DEF ReadBlock
  <2>2. file \in Files /\ block \in MergedBlocks /\ block # Null
    BY DEF ReloadInv, ReadingInv
  <2>3. own \in Written /\ Allowed(kind, own)
    BY <2>2, ConfigurationAssumption, BlocksAssumption
  <2>4. b \in MergedBlocks
    BY <2>1, <2>2, <2>3, BlockType
  <2>5. BlockMatches(block)
    BY <2>2 DEF BlockInv
  <2>6. Makes(kind, own, b)
    BY <2>1, <2>2, <2>3, <2>4, <2>5, Zenon DEF Makes
  <2> HIDE DEF b
  <2>7. BlockMatches(b)
    BY <2>6, BlockMade
  <2>8. QED BY <2>1, <2>7 DEF BlockInv
<1>3. QED BY <1>1, <1>2

\* A step that reads nothing, or ends the file.
LEMMA BlockStays ==
  ASSUME BlockInv, UNCHANGED block \/ block' = Null
  PROVE  BlockInv'
BY DEF BlockInv

\* Every step keeps it.
LEMMA BlockStep == ReloadInv /\ BlockInv /\ [Next]_vars => BlockInv'
<1> SUFFICES ASSUME ReloadInv, BlockInv, [Next]_vars PROVE BlockInv'
  OBVIOUS
<1>1. ASSUME NEW f \in Files, NEW own \in Blocks(f, "http"), ReadHttp(f, own)
      PROVE  BlockInv'
  BY <1>1, ReadHttpBlock
<1>2. ASSUME file # Null, NEW kind \in Kinds \ {"http"}, NEW own \in Blocks(file, kind),
             ReadBlock(kind, own)
      PROVE  BlockInv'
  BY <1>2, ReadBlockBlock
<1>3. CASE ReadEnd
  BY <1>3, BlockStays DEF ReadEnd, Refused, Idle
<1>4. ASSUME NEW c \in draining, Drained(c) PROVE BlockInv'
  BY <1>4, BlockStays DEF Drained, reading
<1>5. ASSUME NEW c \in Workers, NEW path \in Caches, Accept(c, path) PROVE BlockInv'
  BY <1>5, BlockStays DEF Accept, reading
<1>6. ASSUME NEW path \in Caches, Finish(path) PROVE BlockInv'
  BY <1>6, BlockStays DEF Finish, reading
<1>7. ASSUME NEW c \in Workers, NEW ns \in Namespaces, Invalidate(c, ns) PROVE BlockInv'
  BY <1>7, BlockStays DEF Invalidate, reading
<1>8. CASE Restart
  BY <1>8, BlockStays DEF Restart, Idle
<1>9. CASE UNCHANGED vars
  BY <1>9, BlockStays DEF vars
<1>10. QED
  BY <1>1, <1>2, <1>3, <1>4, <1>5, <1>6, <1>7, <1>8, <1>9, Zenon DEF Next

\* The last block matches its directives in every state.
THEOREM BlockInvariant == Spec => []BlockInv
<1>1. Init => BlockInv
  BY DEF Init, BlockInv
<1>2. QED BY <1>1, BlockStep, ReloadInvariant, PTL DEF Spec

-----------------------------------------------------------------------------
(* Who answers *)

\* A request to a block that matches its directives: without a gate by its
\* handler, with one PURGE by the first protocol in force and the others by what
\* is behind it.
LEMMA Answers ==
  ASSUME block \in MergedBlocks, BlockMatches(block), NEW m
  PROVE  /\ Behind(block).kind \in {"none", "status", "refresh", "pass", "purge"}
         /\ block.content # Gate => Answer(m) = Run(Behind(block), block.conf, m)
         /\ block.content = Gate /\ m # "PURGE" =>
               Answer(m) = IF Behind(block) = NoHandler THEN Is("not_allowed", Null)
                           ELSE Run(Behind(block), block.conf, m)
         /\ block.content = Gate /\ m = "PURGE" =>
               \E i \in DOMAIN Order :
                  /\ Order[i] \in InForce
                  /\ \A j \in DOMAIN Order : j < i => Order[j] \notin InForce
                  /\ Answer(m) = Dispatch(block.conf, Order[i])
<1>1. /\ block.conf \in Settings /\ block.content \in Handlers \cup {Gate}
      /\ block.conf.original \in Handlers
  BY DEF MergedBlocks, Settings
<1>2. Behind(block).kind \in {"none", "status", "refresh", "pass", "purge"}
  BY <1>1, KnownHandler DEF Behind
<1>3. block.content # Gate => Answer(m) = Run(Behind(block), block.conf, m)
  BY DEF Answer, Outcome, Behind
<1>4. ASSUME block.content = Gate
      PROVE  \E i \in DOMAIN Order :
                /\ Order[i] \in InForce
                /\ \A j \in DOMAIN Order : j < i => Order[j] \notin InForce
                /\ block.conf.conf = Is("set", Order[i])
                /\ block.conf.handler = Is("purge", Order[i])
  <2>1. SwitchesMatch(block) /\ GateMatches(block)
    BY DEF BlockMatches
  <2>2. PICK i \in DOMAIN Order :
           /\ block.conf.enable[Order[i]] = "on"
           /\ \A j \in DOMAIN Order : j < i => Order[j] \notin Effective(block)
           /\ block.conf.conf = Is("set", Order[i])
           /\ block.conf.handler = Is("purge", Order[i])
    BY <1>4, <2>1 DEF GateMatches
  <2>3. Order[i] \in Effective(block)
    BY <2>1, <2>2, PlaceFacts DEF SwitchesMatch
  <2>4. QED BY <2>2, <2>3 DEF InForce, Effective
<1>5. ASSUME block.content = Gate, m # "PURGE"
      PROVE  Answer(m) = IF Behind(block) = NoHandler THEN Is("not_allowed", Null)
                         ELSE Run(Behind(block), block.conf, m)
  <2>1. block.conf.conf.kind = "set"
    BY <1>4, <1>5, HandlerKinds
  <2>2. QED BY <1>5, <2>1 DEF Answer, Outcome, OtherMethod, Behind
<1>6. ASSUME block.content = Gate, m = "PURGE"
      PROVE  \E i \in DOMAIN Order :
                /\ Order[i] \in InForce
                /\ \A j \in DOMAIN Order : j < i => Order[j] \notin InForce
                /\ Answer(m) = Dispatch(block.conf, Order[i])
  <2>1. PICK i \in DOMAIN Order :
           /\ Order[i] \in InForce
           /\ \A j \in DOMAIN Order : j < i => Order[j] \notin InForce
           /\ block.conf.conf = Is("set", Order[i])
           /\ block.conf.handler = Is("purge", Order[i])
    BY <1>4, <1>6
  <2>2. /\ block.conf.conf.kind = "set" /\ block.conf.handler # NoHandler
        /\ block.conf.handler.kind = "purge" /\ block.conf.handler.of = Order[i]
    BY <2>1, HandlerKinds
  <2>3. Answer(m) = Run(block.conf.handler, block.conf, m)
    BY <1>6, <2>2 DEF Answer, Outcome
  <2>4. Run(block.conf.handler, block.conf, m) = Dispatch(block.conf, Order[i])
    BY <2>2 DEF Run
  <2>5. QED BY <2>1, <2>3, <2>4
<1>7. QED BY <1>2, <1>3, <1>5, <1>6

\* What the handlers do.
LEMMA RunFacts ==
  ASSUME NEW conf, NEW m, NEW h
  PROVE  /\ h.kind = "none" => Run(h, conf, m) = Is("static", Null)
         /\ h.kind = "pass" => Run(h, conf, m) = Is("origin", h.of)
         /\ h.kind = "status" => Run(h, conf, m) = Is("status", Null)
         /\ h.kind = "purge" => Run(h, conf, m) = Dispatch(conf, h.of)
         /\ h.kind = "refresh" => Run(h, conf, m) = IF m = "REFRESH" THEN Dispatch(conf, Proxy)
                                                    ELSE Is("not_allowed", Null)
BY DEF Run

\* Ordinary traffic reaches the content handler of its location, whatever purge
\* directives the blocks around it hold, but for an `if` with a pass of another
\* protocol and a location without one (merge_loc_conf, access_handler).
THEOREM TrafficAlwaysReaches == Spec => []TrafficReaches
<1>1. ASSUME ReloadInv, BlockInv PROVE TrafficReaches
  <2> SUFFICES ASSUME block # Null, block.kind # "http"
               PROVE  /\ block.pass # Null =>
                            \/ Answer("GET") = Is("origin", block.pass)
                            \/ block.foreign /\ InForce # {}
                      /\ block.pass = Null /\ block.endpoint = NoHandler =>
                            \/ Answer("GET") = Is("static", Null)
                            \/ InForce # {} /\ Answer("GET") = Is("not_allowed", Null)
    BY DEF TrafficReaches
  <2>1. block \in MergedBlocks /\ BlockMatches(block)
    BY <1>1 DEF ReloadInv, ReadingInv, BlockInv
  <2>2. HandlerMatches(block) /\ GateMatches(block) /\ SwitchesMatch(block)
    BY <2>1 DEF BlockMatches
  <2>3. block.content = Gate => InForce # {}
    BY <2>1, Answers, PlaceFacts, <2>2 DEF GateMatches, SwitchesMatch, InForce, Effective
  <2>4. \/ Answer("GET") = Run(Behind(block), block.conf, "GET")
        \/ /\ block.content = Gate /\ Behind(block) = NoHandler
           /\ Answer("GET") = Is("not_allowed", Null)
    BY <2>1, Answers
  <2>5. ASSUME block.pass # Null
        PROVE  Answer("GET") = Is("origin", block.pass) \/ (block.foreign /\ InForce # {})
    <3>1. CASE Behind(block) = Is("pass", block.pass)
      <4>1. Behind(block).kind = "pass" /\ Behind(block).of = block.pass
        BY <3>1, HandlerKinds
      <4>2. Behind(block) # NoHandler
        BY <4>1, HandlerKinds
      <4>3. QED BY <2>4, <4>1, <4>2, RunFacts
    <3>2. CASE Behind(block) # Is("pass", block.pass)
      BY <2>2, <2>3, <2>5, <3>2 DEF HandlerMatches
    <3>3. QED BY <3>1, <3>2
  <2>6. ASSUME block.pass = Null, block.endpoint = NoHandler
        PROVE  \/ Answer("GET") = Is("static", Null)
               \/ InForce # {} /\ Answer("GET") = Is("not_allowed", Null)
    <3>1. Behind(block).kind = "none"
      BY <2>2, <2>6, HandlerKinds DEF HandlerMatches
    <3>2. QED BY <2>3, <2>4, <3>1, RunFacts
  <2>7. QED BY <2>5, <2>6
<1>2. QED BY <1>1, ReloadInvariant, BlockInvariant, PTL

\* What a purge handler does: it refreshes where REFRESH is in force.
LEMMA DispatchFacts ==
  ASSUME NEW conf, conf.refresh \in BOOLEAN, NEW p
  PROVE  /\ Dispatch(conf, p).kind = "refresh" <=> conf.refresh
         /\ Dispatch(conf, p).kind = "purge" <=> ~conf.refresh
         /\ ~conf.refresh => Dispatch(conf, p) = Is("purge", p)
BY DEF Dispatch, Is

\* A request purges only where a directive in force asks for it, refreshes only
\* at an endpoint of REFRESH and by that method, or where a purge went astray in
\* one, and PURGE purges by the first protocol in force (merge_loc_conf,
\* access_handler, refresh_handler).
THEOREM PurgesAlwaysWhereAsked == Spec => []PurgesWhereAsked
<1>1. ASSUME ReloadInv, BlockInv, block # Null, block.kind # "http"
      PROVE  LET plain == block.endpoint = NoHandler
                 endpoint == block.endpoint.kind = "purge"
                 ignored == block.foreign /\ InForce # {}
                 astray == block.conf.refresh /\ block.endpoint # RefreshEndpoint
             IN /\ \A m \in {"GET", "PURGE", "REFRESH"} :
                      /\ Answer(m).kind = "purge"
                           => endpoint \/ ignored \/ (m = "PURGE" /\ InForce # {})
                      /\ Answer(m).kind = "refresh" =>
                            \/ m = "REFRESH" /\ block.endpoint = RefreshEndpoint
                            \/ astray /\ (endpoint \/ (m = "PURGE" /\ InForce # {}))
                      /\ endpoint /\ ~astray => Answer(m).kind = "purge"
                      /\ Answer(m).kind # "error"
                /\ block.endpoint = RefreshEndpoint => Answer("REFRESH").kind = "refresh"
                /\ \A i \in DOMAIN Order :
                      /\ plain /\ ~astray
                      /\ Order[i] \in InForce
                      /\ \A j \in 1 .. (i - 1) : Order[j] \notin InForce
                      => Answer("PURGE") = Is("purge", Order[i])
  <2> DEFINE endpoint == block.endpoint.kind = "purge"
             ignored == block.foreign /\ InForce # {}
             astray == block.conf.refresh /\ block.endpoint # RefreshEndpoint
             method(m) ==
                 /\ Answer(m).kind = "purge"
                      => endpoint \/ ignored \/ (m = "PURGE" /\ InForce # {})
                 /\ Answer(m).kind = "refresh" =>
                       \/ m = "REFRESH" /\ block.endpoint = RefreshEndpoint
                       \/ astray /\ (endpoint \/ (m = "PURGE" /\ InForce # {}))
                 /\ endpoint /\ ~astray => Answer(m).kind = "purge"
                 /\ Answer(m).kind # "error"
             h == Behind(block)
  <2>1. block \in MergedBlocks /\ BlockMatches(block)
    BY <1>1 DEF ReloadInv, ReadingInv, BlockInv
  <2>2. /\ HandlerMatches(block) /\ GateMatches(block) /\ SwitchesMatch(block)
        /\ EndpointMatches(block) /\ RefreshMatches(block)
    BY <2>1 DEF BlockMatches
  <2>3. block.conf.refresh \in BOOLEAN
    BY <2>1 DEF MergedBlocks, Settings
  <2>4. block.content = Gate => InForce # {}
    BY <2>2, PlaceFacts DEF GateMatches, SwitchesMatch, InForce, Effective
  <2>5. block.content = Gate => h.kind \in {"none", "pass", "purge"}
    BY <2>2 DEF EndpointMatches, Behind
  <2>6. block.content = Gate => block.endpoint # RefreshEndpoint
    BY <2>2, <2>5, HandlerKinds DEF HandlerMatches
  <2>7. h = block.endpoint \/ h.kind = "pass"
          \/ (block.foreign /\ block.content = Gate /\ block.endpoint = NoHandler)
    BY <2>2, HandlerKinds DEF HandlerMatches
  <2>8. block.foreign /\ block.content = Gate /\ block.conf.refresh => h = NoHandler
    BY <2>2 DEF RefreshMatches, Behind
  <2>9. endpoint => h = block.endpoint /\ block.endpoint # RefreshEndpoint
    BY <2>2, HandlerKinds DEF HandlerMatches
  <2>10. h.kind \in {"none", "status", "refresh", "pass", "purge"}
    BY <2>1, Answers
  <2>11. ASSUME NEW m, block.content = Gate, m = "PURGE" PROVE method(m)
    <3>1. PICK i \in DOMAIN Order : Answer(m) = Dispatch(block.conf, Order[i])
      BY <2>1, <2>11, Answers
    <3>2. /\ Answer(m).kind = "refresh" <=> block.conf.refresh
          /\ Answer(m).kind = "purge" <=> ~block.conf.refresh
      BY <2>3, <3>1, DispatchFacts
    <3>3. Answer(m).kind # "error"
      BY <2>3, <3>2
    <3>4. QED BY <2>3, <2>4, <2>6, <2>9, <2>11, <3>2, <3>3
  <2>12. ASSUME NEW m, Answer(m) = Run(h, block.conf, m) PROVE method(m)
    <3>1. CASE h.kind = "purge"
      <4>1. Answer(m) = Dispatch(block.conf, h.of)
        BY <2>12, <3>1, RunFacts
      <4>2. /\ Answer(m).kind = "refresh" <=> block.conf.refresh
            /\ Answer(m).kind = "purge" <=> ~block.conf.refresh
        BY <2>3, <4>1, DispatchFacts
      <4>3. h # NoHandler /\ h # RefreshEndpoint
        BY <3>1, HandlerKinds
      <4>4. Answer(m).kind # "error"
        BY <2>3, <4>2
      <4>5. CASE h = block.endpoint
        BY <2>3, <3>1, <4>2, <4>3, <4>4, <4>5
      <4>6. CASE h # block.endpoint
        <5>1. block.foreign /\ block.content = Gate
          BY <2>7, <3>1, <4>6
        <5>2. ~block.conf.refresh
          BY <2>8, <4>3, <5>1
        <5>3. ignored /\ ~endpoint
          BY <2>4, <2>9, <4>6, <5>1
        <5>4. QED BY <4>2, <4>4, <5>2, <5>3
      <4>7. QED BY <4>5, <4>6
    <3>2. CASE h.kind = "refresh"
      <4>1. h = block.endpoint
        <5>1. block.content # Gate
          BY <2>5, <3>2
        <5>2. QED BY <2>7, <3>2, <5>1
      <4>2. block.endpoint = RefreshEndpoint /\ block.conf.refresh
        <5>1. block.endpoint \in Handlers
          BY <2>1 DEF MergedBlocks
        <5>2. block.endpoint = RefreshEndpoint
          BY <3>2, <4>1, <5>1, KnownHandler
        <5>3. QED BY <2>2, <5>2 DEF EndpointMatches
      <4>3. ~endpoint
        BY <3>2, <4>1
      <4>4. Answer(m) = IF m = "REFRESH" THEN Dispatch(block.conf, Proxy)
                        ELSE Is("not_allowed", Null)
        BY <2>12, <3>2, RunFacts
      <4>5. CASE m = "REFRESH"
        <5>1. Answer(m).kind = "refresh"
          <6>1. Dispatch(block.conf, Proxy).kind = "refresh"
            BY <4>2 DEF Dispatch, Is
          <6>2. QED BY <4>4, <4>5, <6>1
        <5>2. QED BY <4>2, <4>3, <4>5, <5>1
      <4>6. CASE m # "REFRESH"
        <5>1. Answer(m).kind = "not_allowed"
          BY <4>4, <4>6 DEF Is
        <5>2. QED BY <4>3, <5>1
      <4>7. QED BY <4>5, <4>6
    <3>3. CASE h.kind \in {"none", "pass", "status"}
      <4>1. Answer(m).kind \in {"static", "origin", "status"}
        BY <2>12, <3>3, RunFacts DEF Is
      <4>2. ~endpoint
        BY <2>9, <3>3
      <4>3. QED BY <4>1, <4>2
    <3>4. QED BY <2>10, <3>1, <3>2, <3>3
  <2>13. ASSUME NEW m, h = NoHandler, Answer(m) = Is("not_allowed", Null) PROVE method(m)
    <3>1. Answer(m).kind = "not_allowed"
      BY <2>13 DEF Is
    <3>2. ~endpoint
      BY <2>9, <2>13, HandlerKinds
    <3>3. QED BY <3>1, <3>2
  <2>14. ASSUME NEW m PROVE method(m)
    <3>1. CASE block.content = Gate /\ m = "PURGE"
      BY <2>11, <3>1
    <3>2. CASE ~(block.content = Gate /\ m = "PURGE")
      <4>1. \/ Answer(m) = Run(h, block.conf, m)
            \/ h = NoHandler /\ Answer(m) = Is("not_allowed", Null)
        BY <2>1, <3>2, Answers
      <4>2. QED BY <2>12, <2>13, <4>1
    <3>3. QED BY <3>1, <3>2
  <2>15. block.endpoint = RefreshEndpoint => Answer("REFRESH").kind = "refresh"
    <3>1. SUFFICES ASSUME block.endpoint = RefreshEndpoint
                   PROVE  Answer("REFRESH").kind = "refresh"
      OBVIOUS
    <3>2. block.content # Gate /\ h = RefreshEndpoint
      BY <2>2, <2>6, <3>1, HandlerKinds DEF HandlerMatches
    <3>3. block.conf.refresh
      BY <2>2, <3>1 DEF EndpointMatches
    <3>4. Answer("REFRESH") = Run(h, block.conf, "REFRESH")
      BY <2>1, <3>2, Answers
    <3>5. Answer("REFRESH") = Dispatch(block.conf, Proxy)
      BY <3>2, <3>4, RunFacts, HandlerKinds
    <3>6. Dispatch(block.conf, Proxy).kind = "refresh"
      BY <3>3 DEF Dispatch, Is
    <3>7. QED BY <3>5, <3>6
  <2>16. ASSUME NEW i \in DOMAIN Order, block.endpoint = NoHandler, ~astray,
                Order[i] \in InForce, \A j \in 1 .. (i - 1) : Order[j] \notin InForce
         PROVE  Answer("PURGE") = Is("purge", Order[i])
    <3>1. ~block.conf.refresh
      BY <2>3, <2>16, HandlerKinds
    <3>2. block.content = Gate
      BY <1>1, <2>2, <2>16, HandlerKinds DEF GateMatches, InForce, Effective
    <3>3. PICK k \in DOMAIN Order :
             /\ Order[k] \in InForce
             /\ \A j \in DOMAIN Order : j < k => Order[j] \notin InForce
             /\ Answer("PURGE") = Dispatch(block.conf, Order[k])
      BY <2>1, <3>2, Answers
    <3>4. k = i
      <4>1. ~(i < k)
        BY <2>16, <3>3
      <4>2. k \in Nat /\ i \in Nat /\ k >= 1
        <5>1. PICK T : Order \in Seq(T)
          BY LocationsAssumption
        <5>2. QED BY <5>1
      <4>3. ~(k < i)
        BY <2>16, <3>3, <4>2
      <4>4. QED BY <4>1, <4>2, <4>3
    <3>5. QED BY <2>3, <3>1, <3>3, <3>4, DispatchFacts
  <2>17. QED BY <2>14, <2>15, <2>16
<1>2. ASSUME ReloadInv, BlockInv PROVE PurgesWhereAsked
  BY <1>1, <1>2, Zenon DEF PurgesWhereAsked
<1>3. QED BY <1>2, ReloadInvariant, BlockInvariant, PTL
=============================================================================
