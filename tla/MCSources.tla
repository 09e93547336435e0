------------------------------ MODULE MCSources -----------------------------
(* Documents for Sources: a few that are edited while the Panel runs, and a  *)
(* corpus of pairs, each a small change of a pair that works.                *)
EXTENDS Sources, TLC

MCCanonical ==
    "a.com" :> "a.com" @@ "A.com" :> "a.com" @@ "b.com" :> "b.com" @@ "1.2" :> ""
    @@ "Host:8443" :> "" @@ "host:8443" :> "" @@ "" :> ""
MCFold ==
    [h \in DOMAIN MCCanonical |->
        CASE h = "A.com" -> "a.com" [] h = "Host:8443" -> "host:8443" [] OTHER -> h]
MCUUID == "i1" :> "u1" @@ "I1" :> "u1" @@ "i2" :> "u2" @@ "long" :> ""

Plain(n) == [slash |-> FALSE, prefix |-> "", names |-> <<n>>]
Custom(names) == [slash |-> TRUE, prefix |-> "/p", names |-> names]

User(id) == [email |-> "u", id |-> id, flow |-> "", reverse |-> FALSE]

Inbound(tag) ==
    [tag |-> tag, protocol |-> "vless", users |-> <<User("i1")>>, flow |-> "", decryption |-> "",
     transport |-> [type |-> "raw", finalMask |-> FALSE, rawHeader |-> "", path |-> "", host |-> "",
                    service |-> Plain("s"), mode |-> ""],
     security |-> [type |-> "tls", serverName |-> "", rejectUnknownSNI |-> FALSE,
                   serverNames |-> {"a.com"}, shortIDs |-> {"aa"}]]

Record(tag) ==
    [object |-> TRUE, strict |-> TRUE, tag |-> tag, name |-> Unset, topology |-> "direct",
     host |-> "A.com", port |-> 443,
     transport |-> [object |-> TRUE, strict |-> TRUE, type |-> "tcp", path |-> "/", host |-> "a.com",
                    service |-> Plain("s"), mode |-> Unset, authority |-> "auth", extra |-> Unset],
     security |-> [object |-> TRUE, strict |-> TRUE, type |-> "tls", fingerprint |-> Unset,
                   serverName |-> Unset, alpn |-> "h2", ech |-> Unset, certificatePins |-> Unset,
                   verifyName |-> Unset, publicKey |-> "good", shortID |-> "aa",
                   postQuantumVerify |-> Unset, spiderX |-> Unset]]

Config(view) == [json |-> TRUE, view |-> view]
Settings(records) == [json |-> TRUE, version |-> 1, records |-> records]
Files(view, records) == [xray |-> Config(view), ads |-> Settings(records)]

\* One field at a time away from the pair that works.
Transported == {[Inbound("t") EXCEPT !.transport.type = n] : n \in {"ws", "grpc", "xhttp", "kcp"}}
Inbounds ==
    {Inbound("t"), [Inbound("t") EXCEPT !.decryption = "mlkem"], [Inbound("t") EXCEPT !.flow = Vision],
     [Inbound("t") EXCEPT !.transport.rawHeader = "http"], [Inbound("t") EXCEPT !.transport.finalMask = TRUE],
     [Inbound("t") EXCEPT !.users = <<User("long")>>], [Inbound("t") EXCEPT !.users = <<User("i1"), User("i2")>>],
     [Inbound("t") EXCEPT !.users = <<[User("i1") EXCEPT !.reverse = TRUE]>>],
     [Inbound("t") EXCEPT !.protocol = "trojan"], [Inbound("t") EXCEPT !.tag = ""],
     [Inbound("t") EXCEPT !.security.type = "none"], [Inbound("t") EXCEPT !.security.type = "quic"],
     [Inbound("t") EXCEPT !.security.type = "reality"],
     [Inbound("t") EXCEPT !.security.type = "reality", !.security.shortIDs = {""}, !.users = <<User("i1"), [User("i2") EXCEPT !.email = "v"]>>],
     [Inbound("t") EXCEPT !.security.rejectUnknownSNI = TRUE, !.security.serverName = "b.com"],
     [Inbound("t") EXCEPT !.security.rejectUnknownSNI = TRUE, !.security.serverName = "a.com"]}
    \cup Transported
    \cup {[i EXCEPT !.transport.path = "/x"] : i \in Transported}
    \cup {[i EXCEPT !.transport.host = h] : i \in Transported, h \in {"b.com", "Host:8443"}}
    \cup {[i EXCEPT !.transport.mode = "stream-up", !.transport.service = Custom(<<"s", "m">>)] : i \in Transported}

Carried == {[Record("t") EXCEPT !.transport.type = n, !.transport.mode = IF n = "xhttp" THEN "auto" ELSE Unset]
                : n \in {"tcp", "ws", "grpc", "xhttp", "kcp"}}
Records ==
    Carried
    \cup {[r EXCEPT !.topology = "fronted"] : r \in Carried}
    \cup {[r EXCEPT !.transport.mode = "multi", !.transport.service = Custom(<<n>>)]
             : n \in {"s", "m"}, r \in {c \in Carried : c.transport.type = "grpc"}}
    \cup {[r EXCEPT !.transport.mode = "stream-up", !.transport.extra = x]
             : x \in {"object", "refused", "list"}, r \in {c \in Carried : c.transport.type = "xhttp"}}
    \cup {[r EXCEPT !.transport.host = h] : r \in Carried, h \in {"b.com", "host:8443"}}
    \cup {[Record("t") EXCEPT !.security.type = "reality", !.security.shortID = s, !.security.serverName = n]
             : s \in {"aa", "", "bad", Unset}, n \in {"A.com", "b.com"}}
    \cup {[Record("t") EXCEPT !.security.type = "reality", !.security.serverName = "a.com", !.security.postQuantumVerify = v]
             : v \in {"good", "bad"}}
    \cup {[Record("t") EXCEPT !.security.type = n] : n \in {"none", "quic"}}
    \cup {[Record("t") EXCEPT !.security.verifyName = n] : n \in {"A.com", "1.2"}}
    \cup {[Record("t") EXCEPT !.security.fingerprint = ""], [Record("t") EXCEPT !.host = "1.2"],
          [Record("t") EXCEPT !.port = 0], [Record("t") EXCEPT !.name = ""], [Record("t") EXCEPT !.tag = Unset],
          [Record("t") EXCEPT !.strict = FALSE], [Record("t") EXCEPT !.object = FALSE, !.strict = FALSE],
          [Record("t") EXCEPT !.security.serverName = "1.2"], [Record("t") EXCEPT !.topology = "other"]}

MCCorpus ==
    {Files(<<i>>, <<r>>) : i \in Inbounds, r \in Records}
    \cup {Files(<<i, [Inbound(tag) EXCEPT !.protocol = p]>>, <<Record("t"), Record(other)>>)
             : i \in {Inbound("t")}, tag \in {"t", "o"}, p \in {"vless", "trojan"}, other \in {"t", "o"}}
    \cup {[Files(<<Inbound("t")>>, << >>) EXCEPT !.ads = Unconfigured]}
    \cup {[Files(<<Inbound("t")>>, << >>) EXCEPT !.ads.version = v] : v \in {1, 2, Unset}}
    \cup {[Files(<<Inbound("t")>>, << >>) EXCEPT !.ads.records = Unset]}

MCBase == {Files(<<Inbound("t")>>, <<Record("t")>>), [xray |-> Gone, ads |-> Gone]}

\* A rotated Client ID, another tag, an edit that leaves the roster alone (the
\* path, another spelling of the transport, an inbound without a protocol), a
\* half-saved file.
MCEdited(s) ==
    IF s = "xray"
    THEN {Gone, [Config(<< >>) EXCEPT !.json = FALSE], Config(<<[Inbound("t") EXCEPT !.users = <<User("i2")>>]>>),
          Config(<<[Inbound("o") EXCEPT !.transport.path = "/x"]>>), 
          Config(<<[Inbound("t") EXCEPT !.transport.path = "/x", !.transport.type = "tcp"],
                   [Inbound("n") EXCEPT !.protocol = ""]>>)}
    ELSE {Gone, [Settings(<< >>) EXCEPT !.version = 2], Settings(<<Record("t")>>), Settings(<<Record("o")>>)}
=============================================================================
