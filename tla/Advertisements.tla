--------------------------- MODULE Advertisements ---------------------------
(* The parse of the Advertised connection settings (src/internal/            *)
(* advertisements/parse.go): a strict document root, and records that are    *)
(* validated one by one, so that a bad one is kept and marked.               *)
EXTENDS Naturals, Sequences, FiniteSets

CONSTANTS Canonical,   \* canonical form of each host as written, "" when it has none
          Unset        \* the value of a JSON field that is absent

Transports == {"tcp", "ws", "httpupgrade", "grpc", "xhttp"}
Topologies == {"direct", "fronted"}
Ports == 1 .. 65535

\* stringField: an absent field reads as the empty string.
Value(field) == IF field = Unset THEN "" ELSE field
Given(field) == Value(field) # ""
EmptyWhenPresent(field) == field = ""
OrElse(field, default) == IF Given(field) THEN field ELSE default

ValidAdvertisedHost(host) == Given(host) /\ Canonical[host] # ""

\* objectType, and decodeStrict into the document of that type.
Typed(raw) == raw.object /\ Given(raw.type) /\ raw.strict

\* The extra settings of xhttp, if any, are an object; "refused" is one that
\* passes here and that the canonicalisation library still refuses later.
ValidJCSObject(extra) == extra \in {Unset, "object", "refused"}

TransportValid(raw) ==
    /\ Typed(raw)
    /\ raw.type \in {"ws", "httpupgrade", "xhttp"} => Given(raw.path) /\ Given(raw.host)
    /\ raw.type = "grpc" => raw.service # Unset /\ OrElse(raw.mode, "gun") \in {"gun", "multi", "guna"}
    /\ raw.type = "xhttp" =>
          /\ Value(raw.mode) \in {"auto", "packet-up", "stream-up", "stream-one"}
          /\ ValidJCSObject(raw.extra)

ParseTransport(raw) ==
    [type |-> raw.type,
     path |-> Value(raw.path),
     host |-> Value(raw.host),
     service |-> raw.service,
     mode |-> IF raw.type = "grpc" THEN OrElse(raw.mode, "gun") ELSE Value(raw.mode),
     authority |-> Value(raw.authority),
     extra |-> Value(raw.extra)]

SecurityValid(raw) ==
    /\ Typed(raw)
    /\ raw.type \in {"tls", "reality"} => ~EmptyWhenPresent(raw.fingerprint)
    /\ raw.type = "reality" => Given(raw.serverName) /\ Given(raw.publicKey) /\ raw.shortID # Unset

ParseSecurity(raw, host) ==
    [type |-> raw.type,
     fingerprint |-> OrElse(raw.fingerprint, "chrome"),
     serverName |-> IF raw.type = "tls" THEN OrElse(raw.serverName, host) ELSE Value(raw.serverName),
     alpn |-> Value(raw.alpn),
     ech |-> Value(raw.ech),
     certificatePins |-> Value(raw.certificatePins),
     verifyName |-> Value(raw.verifyName),
     publicKey |-> Value(raw.publicKey),
     shortID |-> Value(raw.shortID),
     postQuantumVerify |-> Value(raw.postQuantumVerify),
     spiderX |-> Value(raw.spiderX)]

Identity(raw) ==
    [tag |-> Value(raw.tag), name |-> OrElse(raw.name, Value(raw.tag))]

NoIdentity == [tag |-> "", name |-> ""]

RecordValid(raw) ==
    /\ Given(raw.tag)
    /\ ~EmptyWhenPresent(raw.name)
    /\ raw.topology \in Topologies
    /\ ValidAdvertisedHost(raw.host)
    /\ raw.port \in Ports
    /\ TransportValid(raw.transport)
    /\ SecurityValid(raw.security)

\* A record that fails any check keeps the tag and the name that could be read.
ParseAdvertisement(raw) ==
    IF raw.strict /\ RecordValid(raw)
    THEN [id |-> Identity(raw), valid |-> TRUE, topology |-> raw.topology,
          host |-> raw.host, port |-> raw.port,
          transport |-> ParseTransport(raw.transport),
          security |-> ParseSecurity(raw.security, raw.host)]
    ELSE [id |-> IF raw.object THEN Identity(raw) ELSE NoIdentity, valid |-> FALSE]

\* Parse: "" for a document that parses, or the reason it does not. The JSON
\* checks on the whole document come before the version.
ParseFault(doc) ==
    IF ~doc.json \/ doc.version = Unset THEN "parse_failed"
    ELSE IF doc.version # 1 THEN "unsupported_version"
    ELSE IF doc.records = Unset THEN "parse_failed"
    ELSE ""

ParseRecords(records) == [k \in DOMAIN records |-> ParseAdvertisement(records[k])]

\* markDuplicates
Duplicate(view, k) ==
    view[k].id.tag # "" /\ \E j \in DOMAIN view \ {k} : view[j].id.tag = view[k].id.tag
=============================================================================
