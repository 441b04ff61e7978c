----------------------------- MODULE Locations ------------------------------
(***************************************************************************)
(* What a block of the configuration means: http, server, location and the *)
(* nameless blocks in a location, `if` and `limit_except`.  A block is     *)
(* parsed on its own and merged with the block around it, which installs   *)
(* the content handler; a request is answered by that handler.  A block    *)
(* names at most one content handler, and a nameless one only a pass.      *)
(***************************************************************************)
EXTENDS Naturals, FiniteSets, Sequences, SequencesExt

CONSTANTS
    Order,       \* the cache protocols, in the order they are merged
    Proxy,       \* the one of them that REFRESH uses
    Null

ASSUME LocationsAssumption ==
    /\ Order \in Seq(Range(Order)) /\ IsInjective(Order)
    /\ Proxy \in Range(Order) /\ Null \notin Range(Order)

Protocols == Range(Order)
Unset == "unset"

Is(k, p) == [kind |-> k, of |-> p]
NoHandler == Is("none", Null)
Gate == Is("access", Null)             \* ngx_http_cache_purge_access_handler
Status == Is("status", Null)
RefreshEndpoint == Is("refresh", Null)

\* conf->conf, as long as no directive and no merge has set it, and NULL.
NoConf == Is("unset", Null)
NullConf == Is("null", Null)

-----------------------------------------------------------------------------
(* Parsing *)

Separate(own) == own.content.kind = "purge" \/ own.content = RefreshEndpoint
SeparateOf(own) == IF own.content = RefreshEndpoint THEN Proxy ELSE own.content.of

\* The directives that cannot be in one block.
ParseRefused(own) == Separate(own) /\ own.purge[SeparateOf(own)] # Unset

Parsed(own) ==
    [enable   |-> [p \in Protocols |->
                      IF Separate(own) /\ p = SeparateOf(own) THEN "off"
                      ELSE own.purge[p]],
     conf     |-> IF Separate(own) THEN Is("set", SeparateOf(own)) ELSE NoConf,
     handler  |-> NoHandler,
     original |-> NoHandler,
     zone     |-> Separate(own) /\ SeparateOf(own) = Proxy,
     refresh  |-> own.content = RefreshEndpoint,
     status   |-> own.status,
     key      |-> own.key,
     profile  |-> own.profile]

-----------------------------------------------------------------------------
(* Merging *)

\* Settings that are not about a protocol, and what REFRESH needs.
Inherited(conf, prev) ==
    LET takes == conf.enable[Proxy] = Unset /\ ~conf.zone
    IN [conf EXCEPT !.key = IF @ = Null THEN prev.key ELSE @,
                    !.zone = @ \/ (takes /\ prev.zone),
                    !.refresh = IF takes THEN prev.refresh ELSE @,
                    !.profile = @ \/ prev.profile]

WasSet(conf, p) == conf.enable[p] = "on"

\* Fault: a purge directive of its own does not make a location anything else
\* than a status endpoint.
PurgeSetMutant(conf) == conf.conf # NoConf
PurgeSet(conf) == conf.conf # NoConf \/ \E p \in Protocols : WasSet(conf, p)

\* conf is what Inherited returned.
MergeRefused(conf) ==
    \/ conf.refresh /\ (conf.key = Null \/ ~conf.profile)
    \/ conf.status # Null /\ PurgeSet(conf)

IsStatus(conf, prev, content) ==
    \/ content = Status
    \/ content = NoHandler /\ prev.status # Null /\ ~PurgeSet(conf)

\* Fault: REFRESH is inherited by a location that has a handler.
IsRefreshMutant(conf, content) == conf.refresh
IsRefresh(conf, content) == conf.refresh /\ content \in {NoHandler, RefreshEndpoint}

\* Fault: a directive that is `off` here is inherited.
EnabledMutant(conf, prev, p) == WasSet(conf, p) \/ prev.enable[p] = "on"
Enabled(conf, prev, p) ==
    WasSet(conf, p) \/ (conf.enable[p] = Unset /\ prev.enable[p] = "on")

\* Fault: the handler is taken from the block around every block that inherits
\* the directive.
OriginalMutant(conf, prev, noname, content, p) ==
    IF WasSet(conf, p) THEN content ELSE prev.original
Original(conf, prev, noname, content, p) ==
    IF WasSet(conf, p) \/ ~noname THEN content ELSE prev.original

\* The first protocol whose directive is in force takes the location; those
\* after it are not merged.
MergeProtocols(conf, prev, noname, content) ==
    LET on == {i \in DOMAIN Order : Enabled(conf, prev, Order[i])}
        first == Min(on)
    IN IF on = {}
       THEN [conf |-> [conf EXCEPT
                          !.enable = [p \in Protocols |-> "off"],
                          !.conf = IF @ = NoConf
                                   THEN IF prev.conf = NoConf THEN NullConf ELSE prev.conf
                                   ELSE @,
                          !.handler = IF @ = NoHandler THEN prev.handler ELSE @,
                          !.original = IF @ = NoHandler THEN prev.original ELSE @],
             content |-> content]
       ELSE [conf |-> [conf EXCEPT
                          !.enable = [p \in Protocols |->
                              IF \E i \in DOMAIN Order : i > first /\ Order[i] = p
                              THEN @[p] ELSE IF p = Order[first] THEN "on" ELSE "off"],
                          !.conf = Is("set", Order[first]),
                          !.handler = Is("purge", Order[first]),
                          !.original = Original(conf, prev, noname, content, Order[first])],
             content |-> Gate]

\* content is clcf->handler, which the parser or the core has set.
Merged(own, prev, noname, content) ==
    LET conf == Inherited(Parsed(own), prev)
    IN IF IsStatus(conf, prev, content)
       THEN [conf |-> [conf EXCEPT !.status = IF @ = Null THEN prev.status ELSE @],
             content |-> Status]
       ELSE IF IsRefresh(conf, content)
       THEN [conf |-> [conf EXCEPT !.enable[Proxy] = "off", !.conf = Is("set", Proxy)],
             content |-> RefreshEndpoint]
       ELSE MergeProtocols(conf, prev, noname, content)

-----------------------------------------------------------------------------
(* Requests: the result is what happens, and by which protocol *)

Dispatch(conf, p) == IF conf.refresh THEN Is("refresh", p) ELSE Is("purge", p)

\* Fault: every other method is refused.
OtherMethodMutant(conf) == NoHandler
OtherMethod(conf) == conf.original

\* A handler other than the method gate.
Run(handler, conf, method) ==
    CASE handler.kind = "none" -> Is("static", Null)
      [] handler.kind = "pass" -> Is("origin", handler.of)
      [] handler.kind = "status" -> Is("status", Null)
      [] handler.kind = "purge" -> Dispatch(conf, handler.of)
      [] handler.kind = "refresh" ->
            IF method = "REFRESH" THEN Dispatch(conf, Proxy)
            ELSE Is("not_allowed", Null)

\* Inline directives name the method PURGE.
Outcome(handler, conf, method) ==
    IF handler # Gate THEN Run(handler, conf, method)
    ELSE IF conf.conf.kind # "set" THEN Is("error", Null)
    ELSE IF method = "PURGE"
    THEN IF conf.handler = NoHandler THEN Is("error", Null)
         ELSE Run(conf.handler, conf, method)
    ELSE IF OtherMethod(conf) = NoHandler THEN Is("not_allowed", Null)
    ELSE Run(OtherMethod(conf), conf, method)
=============================================================================
