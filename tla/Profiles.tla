------------------------------ MODULE Profiles ------------------------------
(* The evaluation of Connection profiles (src/internal/profiles): for one    *)
(* User, one result per VLESS inbound that lists the User, either a complete *)
(* client view with its share link or the first reason there is none.        *)
EXTENDS Advertisements

CONSTANTS UUID,   \* the UUID each Client ID as written converts to, "" when it does not
          Fold    \* each host as written, without the case of its letters

Vision == "xtls-rprx-vision"

IsVLESS(inbound) == inbound.protocol \in {"vless", "VLESS"}

\* The transports an inbound may name, some by an alias.
CanonicalInboundTransport ==
    [type \in Transports \cup {"", "raw", "websocket", "splithttp"} |->
        IF type \in {"", "raw"} THEN "tcp"
        ELSE IF type = "websocket" THEN "ws"
        ELSE IF type = "splithttp" THEN "xhttp" ELSE type]

SupportedSecurity == {"tls", "reality", "none"}

DefaultNone(value) == IF value = "" THEN "none" ELSE value
CanonicalInboundSecurity == [type \in SupportedSecurity \cup {""} |-> DefaultNone(type)]

NormalizedPath(path) == IF path = "" THEN "/" ELSE path
NormalizedXHTTPMode(mode) == IF mode = "" THEN "auto" ELSE mode

\* Two hosts are compared in their canonical form when both have one, and
\* otherwise as they are written, whatever the case.
EqualHost(left, right) ==
    IF Canonical[left] # "" /\ Canonical[right] # ""
    THEN Canonical[left] = Canonical[right]
    ELSE Fold[left] = Fold[right]
AcceptedHost(inboundHost, advertisedHost) == inboundHost = "" \/ EqualHost(inboundHost, advertisedHost)
ContainsHost(hosts, wanted) == \E host \in hosts : EqualHost(host, wanted)

\* A gRPC service name is a plain name, or /prefix/name|name: the second name
\* is the route of the multi mode.
SplitsGRPC(service) == service.slash /\ service.prefix # ""
AcceptedGRPCService(inbound, advertised, mode) ==
    IF ~inbound.slash THEN inbound = advertised
    ELSE /\ SplitsGRPC(inbound) /\ SplitsGRPC(advertised)
         /\ Len(advertised.names) = 1
         /\ advertised.prefix = inbound.prefix
         /\ advertised.names[1] = inbound.names[IF mode = "multi" /\ Len(inbound.names) > 1 THEN 2 ELSE 1]

UnsupportedDirectTransportFeature(inbound) ==
    \/ inbound.transport.finalMask
    \/ /\ inbound.transport.type \in {"", "raw", "tcp"}
       /\ DefaultNone(inbound.transport.rawHeader) # "none"

EmptyRealityShortIDAccepted(inbound, ad) ==
    ad.security.type = "reality" /\ ad.security.shortID = "" => "" \in inbound.security.shortIDs

CompatibleShape(flow, transport, security) ==
    /\ flow \in {"", Vision}
    /\ security = "reality" => transport \in {"tcp", "grpc", "xhttp"}
    /\ flow = Vision => transport = "tcp" /\ security \in {"tls", "reality"}

MatchesTransport(there, ad) ==
    /\ CanonicalInboundTransport[there.type] = ad.type
    /\ ad.type \in {"ws", "httpupgrade", "xhttp"} =>
          NormalizedPath(there.path) = ad.path /\ AcceptedHost(there.host, ad.host)
    /\ ad.type = "grpc" => AcceptedGRPCService(there.service, ad.service, ad.mode)
    /\ ad.type = "xhttp" => NormalizedXHTTPMode(there.mode) = ad.mode

MatchesSecurityAnyShortID(there, ad) ==
    /\ CanonicalInboundSecurity[there.type] = ad.type
    /\ ad.type = "tls" /\ there.rejectUnknownSNI /\ there.serverName # "" =>
          EqualHost(there.serverName, ad.serverName)
    /\ ad.type = "reality" => ContainsHost(there.serverNames, ad.serverName)

\* A short id stands for its bytes: the code compares the hex digits without
\* their case, as it does the name "none" of the decryption.
MatchesSecurity(there, ad) ==
    /\ CanonicalInboundSecurity[there.type] = ad.type
    /\ ad.type = "tls" /\ there.rejectUnknownSNI /\ there.serverName # "" =>
          EqualHost(there.serverName, ad.serverName)
    /\ ad.type = "reality" =>
          ContainsHost(there.serverNames, ad.serverName) /\ ad.shortID \in there.shortIDs

DirectMatch(inbound, ad) ==
    MatchesTransport(inbound.transport, ad.transport) /\ MatchesSecurity(inbound.security, ad.security)

\* The data classes "bad" stand for values that decode to nothing usable.
InvalidClientValues(ad) ==
    \/ Canonical[ad.host] = ""
    \/ /\ ad.security.type \in {"tls", "reality"}
       /\ Canonical[ad.security.serverName] = ""
    \/ /\ ad.security.type = "tls" /\ ad.security.verifyName # ""
       /\ Canonical[ad.security.verifyName] = ""
    \/ /\ ad.security.type = "reality"
       /\ "bad" \in {ad.security.publicKey, ad.security.shortID,
                     ad.security.postQuantumVerify, ad.security.spiderX}

\* serializeURI: the query fields, in the source's names; empty options are left out.
QueryValue(name, flow, t, s) ==
    CASE name = "type" -> t.type [] name = "encryption" -> "none"
      [] name = "flow" -> flow [] name = "security" -> s.type
      [] name = "path" -> t.path [] name = "host" -> t.host
      [] name = "serviceName" -> t.service [] name = "mode" -> t.mode
      [] name = "authority" -> t.authority [] name = "extra" -> t.extra
      [] name = "fp" -> s.fingerprint [] name = "sni" -> s.serverName [] name = "alpn" -> s.alpn
      [] name = "ech" -> s.ech [] name = "pcs" -> s.certificatePins [] name = "vcn" -> s.verifyName
      [] name = "pbk" -> s.publicKey [] name = "sid" -> s.shortID
      [] name = "pqv" -> s.postQuantumVerify [] name = "spx" -> s.spiderX
QueryNames(flow, t, s) ==
    LET Field(present, names) == IF present THEN names ELSE {}
    IN  {"type", "encryption", "security", "fp", "sni"}
        \cup Field(flow # "", {"flow"})
        \cup Field(t.type \in {"ws", "httpupgrade", "xhttp"}, {"path", "host"})
        \cup Field(t.type = "grpc", {"serviceName"})
        \cup Field(t.type \in {"grpc", "xhttp"}, {"mode"})
        \cup Field(t.type = "grpc" /\ t.authority # "", {"authority"})
        \cup Field(t.type = "xhttp" /\ t.extra # "", {"extra"})
        \cup Field(s.type = "tls" /\ s.alpn # "", {"alpn"})
        \cup Field(s.type = "tls" /\ s.ech # "", {"ech"})
        \cup Field(s.type = "tls" /\ s.certificatePins # "", {"pcs"})
        \cup Field(s.type = "tls" /\ s.verifyName # "", {"vcn"})
        \cup Field(s.type = "reality", {"pbk", "sid"})
        \cup Field(s.type = "reality" /\ s.postQuantumVerify # "", {"pqv"})
        \cup Field(s.type = "reality" /\ s.spiderX # "", {"spx"})
Query(flow, t, s) == [name \in QueryNames(flow, t, s) |-> QueryValue(name, flow, t, s)]

\* The host names of a built profile are canonical.
CanonicalSecurity(s) ==
    [s EXCEPT !.serverName = Canonical[@],
              !.verifyName = IF @ = "" THEN "" ELSE Canonical[@]]

\* External: the canonicalisation library's answer to the extra settings.
Transforms(extra) == extra # "refused"

BuildAvailable(email, clientID, flow, ad) ==
    [status |-> "available", tag |-> ad.id.tag, topology |-> ad.topology,
     uri |-> [id |-> clientID, host |-> Canonical[ad.host], port |-> ad.port,
              query |-> Query(flow, ad.transport, CanonicalSecurity(ad.security)),
              fragment |-> <<email, ad.id.name>>]]

Unavailable(tag, name, reason) ==
    [status |-> "unavailable", tag |-> tag, name |-> name, reason |-> reason]

\* Entries are named by their positions: a list that the code filters is the
\* set of positions that remain.
MatchingUsers(email, inbound) == {k \in DOMAIN inbound.users : inbound.users[k].email = email}
Several(positions) == \E j, k \in positions : j # k

\* The checks that need the one advertisement of the inbound, in their order.
EvaluateAdvertised(email, inbound, user, ad) ==
    LET flow == IF user.flow # "" THEN user.flow ELSE inbound.flow
        direct == ad.topology = "direct"
        Fault(reason) == Unavailable(ad.id.tag, ad.id.name, reason)
    IN  IF ~ad.valid THEN Fault("advertisement_invalid")
        ELSE IF InvalidClientValues(ad) THEN Fault("advertisement_invalid")
        ELSE IF UUID[user.id] = "" THEN Fault("invalid_client_id")
        ELSE IF \/ ad.transport.type \notin Transports
                \/ direct /\ (\/ inbound.transport.type \notin DOMAIN CanonicalInboundTransport
                              \/ UnsupportedDirectTransportFeature(inbound))
             THEN Fault("unsupported_transport")
        ELSE IF \/ ad.security.type \notin SupportedSecurity
                \/ direct /\ inbound.security.type \notin DOMAIN CanonicalInboundSecurity
             THEN Fault("unsupported_security")
        ELSE IF DefaultNone(inbound.decryption) # "none" THEN Fault("unsupported_encryption")
        ELSE IF ad.security.type = "none" THEN Fault("insecure_connection")
        ELSE IF \/ ~CompatibleShape(flow, ad.transport.type, ad.security.type)
                \/ ~EmptyRealityShortIDAccepted(inbound, ad)
                \/ direct /\ ~DirectMatch(inbound, ad)
             THEN Fault("inbound_mismatch")
        ELSE IF ~Transforms(ad.transport.extra) THEN Fault("advertisement_invalid")
        ELSE BuildAvailable(email, UUID[user.id], flow, ad)

\* evaluateInbound. "sharing" are the inbounds that have the inbound's tag, and
\* "selected" the advertisements that do.
EvaluateInbound(email, inbound, sharing, ads, selected, sources) ==
    LET users == MatchingUsers(email, inbound)
        user == inbound.users[CHOOSE k \in users : TRUE]
        ad == ads[CHOOSE k \in selected : TRUE]
        name == IF selected = {} \/ Several(selected) THEN "" ELSE ad.id.name
    IN  IF inbound.tag = "" THEN Unavailable("", "", "inbound_tag_missing")
        ELSE IF Several(sharing) \/ Several(selected)
             THEN Unavailable(inbound.tag, name, "duplicate_inbound_tag")
        ELSE IF Several(users) THEN Unavailable(inbound.tag, name, "duplicate_user")
        ELSE IF user.reverse THEN Unavailable(inbound.tag, name, "reverse_user")
        ELSE IF sources.ads.configured /\ ~sources.ads.loaded
             THEN Unavailable(inbound.tag, "", "source_unavailable")
        ELSE IF ~sources.ads.configured \/ selected = {}
             THEN Unavailable(inbound.tag, "", "advertisement_missing")
        ELSE EvaluateAdvertised(email, inbound, user, ad)

\* sourceState: staleness and the current errors of either source.
SourceState(sources) ==
    [stale |-> sources.xray.stale \/ sources.ads.stale,
     errors |-> {<<s, sources[s].error>> : s \in {t \in DOMAIN sources : sources[t].error # ""}}]

Matching(email, view) ==
    {k \in DOMAIN view : IsVLESS(view[k]) /\ MatchingUsers(email, view[k]) # {}}

Evaluate(email, disabled, sources) ==
    LET view == sources.xray.value.view
        ads == IF sources.ads.loaded THEN sources.ads.value ELSE << >>
        matching == Matching(email, view)
        Item(inbound) ==
            EvaluateInbound(email, inbound, {k \in DOMAIN view : view[k].tag = inbound.tag},
                            ads, {k \in DOMAIN ads : ads[k].id.tag = inbound.tag}, sources)
        Answer(state, items) == [state |-> state, items |-> items, source |-> SourceState(sources)]
    IN  IF disabled THEN Answer("disabled_user", << >>)
        ELSE IF ~sources.xray.loaded THEN Answer("source_unavailable", << >>)
        ELSE IF matching = {} THEN Answer("no_matching_inbound", << >>)
        ELSE Answer("ready", [k \in matching |-> Item(view[k])])
-----------------------------------------------------------------------------
(* External: what xray does with a client that follows a share link.         *)

Read(uri, name, default) == IF name \in DOMAIN uri.query THEN uri.query[name] ELSE default

\* A host asked for is the one named: as written or in the canonical form.
SameHost(asked, named) ==
    Fold[asked] = Fold[named] \/ (Canonical[asked] # "" /\ Canonical[asked] = Canonical[named])

\* The server's own checks on an incoming connection: its transport route, the
\* server name and short id of its security layer (REALITY takes the name only
\* as it is listed), then the user, its encryption and its flow.
RouteServed(there, uri) ==
    /\ CanonicalInboundTransport[there.type] = Read(uri, "type", "tcp")
    /\ there.type \in {"ws", "websocket", "httpupgrade", "xhttp", "splithttp"} =>
          /\ Read(uri, "path", "/") = NormalizedPath(there.path)
          /\ there.host = "" \/ SameHost(Read(uri, "host", ""), there.host)
    /\ there.type \in {"xhttp", "splithttp"} /\ there.mode \notin {"", "auto"} =>
          Read(uri, "mode", "auto") = there.mode
    /\ there.type = "grpc" =>
          LET names == there.service.names
              route == IF Read(uri, "mode", "gun") = "multi" /\ Len(names) > 1 THEN 2 ELSE 1
              asked == Read(uri, "serviceName", there.service)
          IN  asked.prefix = there.service.prefix /\ asked.names = <<names[route]>>

SecurityServed(there, uri) ==
    /\ there.type = Read(uri, "security", "none")
    /\ there.type = "tls" /\ there.rejectUnknownSNI /\ there.serverName # "" =>
          Read(uri, "sni", "") = Canonical[there.serverName]
    /\ there.type = "reality" =>
          /\ Read(uri, "sni", "") \in there.serverNames
          /\ Read(uri, "sid", "unread") \in there.shortIDs

UserServed(email, inbound, uri) ==
    /\ Read(uri, "encryption", "unread") = DefaultNone(inbound.decryption)
    /\ \E u \in {inbound.users[k] : k \in DOMAIN inbound.users} :
          /\ u.email = email /\ UUID[u.id] = uri.id /\ ~u.reverse
          /\ Read(uri, "flow", "") = (IF u.flow # "" THEN u.flow ELSE inbound.flow)
=============================================================================
