------------------------------- MODULE Sources ------------------------------
(* The two watched sources of the Panel, the xray config and the Advertised  *)
(* connection settings (src/internal/filesource), the goroutines that follow *)
(* their loads, and the user detail request that reads one after the other   *)
(* and evaluates Connection profiles over the pair.                          *)
EXTENDS Profiles, SequencesExt

CONSTANTS Gone,          \* the content of a path that cannot be read
          Unconfigured,  \* the content of an empty path: no file at all
          Corpus,        \* documents that are evaluated and not edited
          Base,          \* documents the watched files begin with when edited
          Edited(_),     \* documents an editor leaves in the file of a source
          Users,         \* the Users a detail page is asked for
          MaxEdits, MaxFailures

Sources == {"xray", "ads"}

ASSUME SourcesAssumption ==
    /\ Gone # Unconfigured
    /\ \A s \in Sources : Unconfigured \notin Edited(s)
    /\ \A f \in Base \cup Corpus : DOMAIN f = Sources
    /\ {MaxEdits, MaxFailures} \subseteq Nat

\* What a path holds at some time.
Documents(s) == {f[s] : f \in Base \cup Corpus} \cup Edited(s)
Readable(s) == Documents(s) \ {Gone, Unconfigured}

\* A gRPC service that is no path is one name.
IsService(service) ==
    service.names \in Seq(STRING) /\ (~service.slash => Len(service.names) = 1)

ASSUME ServicesAssumption ==
    /\ \A d \in Readable("xray") : \A k \in DOMAIN d.view : IsService(d.view[k].transport.service)
    /\ \A d \in Readable("ads") : d.records # Unset =>
          \A k \in DOMAIN d.records :
             d.records[k].transport.service = Unset \/ IsService(d.records[k].transport.service)

\* Host names: their case says nothing about their canonical form, and those a
\* TLS inbound and an advertisement name are among them.
ASSUME HostsAssumption ==
    /\ \A l, r \in DOMAIN Canonical : Fold[l] = Fold[r] => Canonical[l] = Canonical[r]
    /\ \A d \in Readable("xray") : \A k \in DOMAIN d.view :
          d.view[k].security.serverName \in DOMAIN Canonical
    /\ \A d \in Readable("ads") : d.records # Unset =>
          \A k \in DOMAIN d.records :
             {d.records[k].host, d.records[k].security.serverName} \subseteq DOMAIN Canonical \cup {Unset}

\* The server names of a REALITY inbound are written in their canonical form:
\* a link carries that form, and xray compares it with the list as it stands.
ASSUME RealityNamesAssumption ==
    \A d \in Readable("xray") : \A k \in DOMAIN d.view :
        \A n \in d.view[k].security.serverNames : n # "" /\ Canonical[n] = n

VARIABLES files,     \* content of the two paths
          watcher,   \* the goroutine of each filesource.Watcher
          snap,      \* what Snapshot returns
          slots,     \* the one-slot channels of the subscribers
          logger,    \* logRosterChanges
          reporter,  \* reportLoads
          request,
          spent

vars == <<files, watcher, snap, slots, logger, reporter, request, spent>>

NoParse == [roster |-> Unset, version |-> 0, view |-> << >>]
Start(s) == files[s] # Unconfigured
Idle == [pc |-> "idle"]

Init ==
    /\ \/ files \in Base /\ spent = [edits |-> 0, failures |-> 0]
       \/ files \in Corpus /\ spent = [edits |-> MaxEdits, failures |-> MaxFailures]
    /\ watcher = [s \in Sources |-> [pc |-> "off", document |-> Gone, watching |-> FALSE,
                                     event |-> FALSE, timer |-> FALSE, missed |-> FALSE]]
    /\ snap = [s \in Sources |-> [value |-> IF s = "xray" THEN NoParse ELSE << >>,
                                  configured |-> Start(s), loaded |-> FALSE,
                                  stale |-> FALSE, error |-> ""]]
    /\ slots = [c \in {"roster", "loads", "inbounds"} |-> FALSE]
    /\ logger = [pc |-> "idle", reported |-> 0, roster |-> Unset]
    /\ reporter = [pc |-> "idle", view |-> << >>, warned |-> Unset]
    /\ request = Idle
-----------------------------------------------------------------------------
(* The parses. *)

Distinct(seq) ==
    FoldLeft(LAMBDA acc, x : IF x \in ToSet(acc) THEN acc ELSE Append(acc, x), << >>, seq)

\* The entries of the inbounds that name a protocol, each with its inbound, in
\* config order; and those of one email.
AllEntries(view) ==
    LET named == SelectSeq(view, LAMBDA inbound : inbound.protocol # "")
    IN  FlattenSeq([k \in DOMAIN named |->
            [j \in DOMAIN named[k].users |-> <<named[k], named[k].users[j]>>]])
Entries(view, email) == SelectSeq(AllEntries(view), LAMBDA p : p[2].email = email)

SecurityLabel(security, flow) ==
    [label |-> DefaultNone(security), xtls |-> DefaultNone(security) # "none" /\ flow = Vision]

TransportLabel(network) ==
    CASE network \in {"", "tcp", "raw"} -> "tcp"
      [] network = "splithttp" -> "xhttp"
      [] OTHER -> network

\* buildRosterParse for one email: its labels on every inbound, and its Client
\* ID and attachments on the VLESS ones.
RosterEntry(entries) ==
    LET vless == SelectSeq(entries, LAMBDA p : IsVLESS(p[1]))
        tagged == SelectSeq(vless, LAMBDA p : p[1].tag # "")
        Label(inbound, client) ==
            <<IF IsVLESS(inbound) THEN "VLESS" ELSE inbound.protocol,
              SecurityLabel(inbound.security.type, client.flow), TransportLabel(inbound.transport.type)>>
    IN  [labels |-> Distinct([k \in DOMAIN entries |-> Label(entries[k][1], entries[k][2])]),
         clients |-> IF vless = << >> THEN << >>
                     ELSE <<vless[1][2].id, Distinct([k \in DOMAIN tagged |-> tagged[k][1].tag])>>]

Emails(view) == {p[2].email : p \in ToSet(AllEntries(view))} \ {""}

RosterOf(view) == [e \in Emails(view) |-> RosterEntry(Entries(view, e))]

SameRosterLabels(a, b) == DOMAIN a = DOMAIN b /\ \A e \in DOMAIN a : a[e].labels = b[e].labels
SameRoster(a, b) == a = b

\* parseSource of the xray config: the version moves only with the roster.
ParseConfig(previous, doc) ==
    LET roster == RosterOf(doc.view)
    IN  [roster |-> roster, view |-> doc.view,
         version |-> IF previous.roster = Unset \/ ~SameRoster(previous.roster, roster)
                     THEN previous.version + 1 ELSE previous.version]

FaultOf(s, doc) ==
    IF doc = Gone THEN "read_failed"
    ELSE IF s = "ads" THEN ParseFault(doc)
    ELSE IF doc.json THEN "" ELSE "parse_failed"

Parse(s, previous, doc) ==
    IF s = "xray" THEN ParseConfig(previous, doc) ELSE ParseRecords(doc.records)
-----------------------------------------------------------------------------
(* filesource.Watcher *)

Goto(s, from, to) ==
    watcher[s].pc = from /\ watcher' = [watcher EXCEPT ![s].pc = to]

\* A first reload goes on to the watch, a later one back to the select loop.
AfterReload(s) == IF watcher[s].watching THEN "loop" ELSE "watch"

Started(s) == watcher[s].watching \/ watcher[s].pc = "ended"

\* main starts the sources one after the other. Each subscribes to its own
\* loads, and the second to the first's, before its Start reads the file.
Boot(s) ==
    /\ s = "ads" => Started("xray")
    /\ Goto(s, "off", IF Start(s) THEN "read" ELSE "ended")
    /\ UNCHANGED <<files, snap, slots, logger, reporter, request, spent>>

RecordFailure(s, reason) ==
    snap' = [snap EXCEPT ![s] = [@ EXCEPT !.stale = snap[s].loaded, !.error = reason]]

ReadFileGivesUp(s) ==
    /\ watcher[s].pc = "read"
    /\ IF files[s] = Gone
       THEN /\ RecordFailure(s, "read_failed")
            /\ watcher' = [watcher EXCEPT ![s].pc = IF watcher[s].watching THEN "ended" ELSE "watch"]
       ELSE /\ watcher' = [watcher EXCEPT ![s] = [@ EXCEPT !.pc = "swap", !.document = files[s]]]
            /\ UNCHANGED snap
    /\ UNCHANGED <<files, slots, logger, reporter, request, spent>>

\* reload, up to the read of the file.
ReadFile(s) ==
    /\ watcher[s].pc = "read"
    /\ IF files[s] = Gone
       THEN /\ RecordFailure(s, "read_failed")
            /\ watcher' = [watcher EXCEPT ![s].pc = AfterReload(s)]
       ELSE /\ watcher' = [watcher EXCEPT ![s] = [@ EXCEPT !.pc = "swap", !.document = files[s]]]
            /\ UNCHANGED snap
    /\ UNCHANGED <<files, slots, logger, reporter, request, spent>>

PublishOwn(s) ==
    slots' = [c \in DOMAIN slots |->
                slots[c] \/ <<s, c>> \in {<<"xray", "roster">>, <<"ads", "loads">>}]

\* A full slot keeps its one notification.
Publish(s) ==
    slots' = [c \in DOMAIN slots |->
                \/ slots[c]
                \/ s = "xray" /\ c = "roster"
                \/ s = "xray" /\ c = "inbounds" /\ watcher["ads"].pc # "off"
                \/ s = "ads" /\ c = "loads"]

SwapDrainsEvents(s) ==
    LET reason == FaultOf(s, watcher[s].document)
    IN  /\ watcher[s].pc = "swap"
        /\ IF reason # ""
           THEN RecordFailure(s, reason) /\ UNCHANGED slots
           ELSE /\ snap' = [snap EXCEPT ![s] =
                      [@ EXCEPT !.value = Parse(s, snap[s].value, watcher[s].document),
                                !.loaded = TRUE, !.stale = FALSE, !.error = ""]]
                /\ Publish(s)
        /\ watcher' = [watcher EXCEPT ![s] =
              [@ EXCEPT !.pc = AfterReload(s), !.document = Gone, !.event = FALSE]]
        /\ UNCHANGED <<files, logger, reporter, request, spent>>

\* reload, from the parse on: the value, its freshness and the notifications
\* change in one critical section.
Swap(s) ==
    LET reason == FaultOf(s, watcher[s].document)
    IN  /\ watcher[s].pc = "swap"
        /\ IF reason # ""
           THEN RecordFailure(s, reason) /\ UNCHANGED slots
           ELSE /\ snap' = [snap EXCEPT ![s] =
                      [@ EXCEPT !.value = Parse(s, snap[s].value, watcher[s].document),
                                !.loaded = TRUE, !.stale = FALSE, !.error = ""]]
                /\ Publish(s)
        /\ watcher' = [watcher EXCEPT ![s] = [@ EXCEPT !.pc = AfterReload(s), !.document = Gone]]
        /\ UNCHANGED <<files, logger, reporter, request, spent>>

Spend(what, most) == spent[what] < most /\ spent' = [spent EXCEPT ![what] = @ + 1]

Watch(s) ==
    /\ watcher[s].pc = "watch"
    /\ watcher' = [watcher EXCEPT ![s] = [@ EXCEPT !.pc = "loop", !.watching = TRUE]]
    /\ UNCHANGED <<files, snap, slots, logger, reporter, request, spent>>

\* NewWatcher or Add fails: "changes need a panel restart".
WatchFails(s) ==
    /\ Goto(s, "watch", "ended")
    /\ Spend("failures", MaxFailures)
    /\ UNCHANGED <<files, snap, slots, logger, reporter, request>>

\* An event on the path (re)arms the debounce.
Event(s) ==
    /\ watcher[s].pc = "loop" /\ watcher[s].event
    /\ watcher' = [watcher EXCEPT ![s] = [@ EXCEPT !.event = FALSE, !.timer = TRUE]]
    /\ UNCHANGED <<files, snap, slots, logger, reporter, request, spent>>

Fired(s) ==
    /\ watcher[s].pc = "loop" /\ watcher[s].timer
    /\ watcher' = [watcher EXCEPT ![s] = [@ EXCEPT !.timer = FALSE, !.pc = "read"]]
    /\ UNCHANGED <<files, snap, slots, logger, reporter, request, spent>>

\* External: a save of the file, whole or half done, by anyone. It goes unseen
\* between the first read and the watch, and where there is no watch.
Save(s) ==
    /\ Start(s)
    /\ Spend("edits", MaxEdits)
    /\ \E d \in Edited(s) \ {files[s]} : files' = [files EXCEPT ![s] = d]
    /\ watcher' = [watcher EXCEPT ![s] =
          [@ EXCEPT !.event = watcher[s].watching,
                    !.missed = ~watcher[s].watching /\ watcher[s].pc \notin {"off", "read"}]]
    /\ UNCHANGED <<snap, slots, logger, reporter, request>>

\* External: the kernel's event queue overflows. The watcher logs the error.
EventLost(s) ==
    /\ watcher[s].event
    /\ Spend("failures", MaxFailures)
    /\ watcher' = [watcher EXCEPT ![s] = [@ EXCEPT !.event = FALSE, !.missed = TRUE]]
    /\ UNCHANGED <<files, snap, slots, logger, reporter, request>>
-----------------------------------------------------------------------------
(* The goroutines behind the notifications. *)

Receive(c) == slots[c] /\ slots' = [slots EXCEPT ![c] = FALSE]

LoggerReceives ==
    /\ Started("xray") /\ logger.pc = "idle"
    /\ Receive("roster")
    /\ logger' = [logger EXCEPT !.pc = "got"]
    /\ UNCHANGED <<files, watcher, snap, reporter, request, spent>>

\* A version already reported is a profile-only edit. The roster is kept here
\* to state what the version promises.
LogRosterChanges ==
    LET parsed == snap["xray"].value
    IN  /\ logger.pc = "got"
        /\ logger' = [logger EXCEPT !.pc = "idle", !.reported = parsed.version,
                         !.roster = IF parsed.version = logger.reported THEN @ ELSE parsed.roster]
        /\ UNCHANGED <<files, watcher, snap, slots, reporter, request, spent>>

ReporterReceives(c) ==
    /\ Started("ads") /\ reporter.pc = "idle"
    /\ Receive(c)
    /\ reporter' = [reporter EXCEPT !.pc = c]
    /\ UNCHANGED <<files, watcher, snap, logger, request, spent>>

\* The view to warn about; a change of the inbounds needs one that has loaded.
ReportLoads ==
    /\ reporter.pc \in {"loads", "inbounds"}
    /\ reporter' = IF reporter.pc = "inbounds" /\ ~snap["ads"].loaded
                   THEN [reporter EXCEPT !.pc = "idle"]
                   ELSE [reporter EXCEPT !.pc = "warn", !.view = snap["ads"].value]
    /\ UNCHANGED <<files, watcher, snap, slots, logger, request, spent>>

UnknownTags(view, inbounds) ==
    {view[k].id.tag : k \in DOMAIN view} \ ({""} \cup {inbounds[k].tag : k \in DOMAIN inbounds})

WarnUnknownInbounds ==
    /\ reporter.pc = "warn"
    /\ reporter' = [pc |-> "idle", view |-> << >>,
                    warned |-> IF snap["xray"].loaded /\ ~snap["xray"].stale
                               THEN UnknownTags(reporter.view, snap["xray"].value.view)
                               ELSE reporter.warned]
    /\ UNCHANGED <<files, watcher, snap, slots, logger, request, spent>>
-----------------------------------------------------------------------------
(* GET /api/v1/users/{email} *)

\* The handler found the User in the users snapshot, and reads the first source.
Detail(email) ==
    /\ Started("ads") /\ request = Idle
    /\ request' = [pc |-> "current", email |-> email, xray |-> snap["xray"]]
    /\ UNCHANGED <<files, watcher, snap, slots, logger, reporter, spent>>

\* What it answers when it reads the second source now.
Collection(disabled) ==
    Evaluate(request.email, disabled, [xray |-> request.xray, ads |-> snap["ads"]])

Answer ==
    /\ request.pc = "current" /\ request' = Idle
    /\ UNCHANGED <<files, watcher, snap, slots, logger, reporter, spent>>

Work(s) == Boot(s) \/ ReadFile(s) \/ Swap(s) \/ Watch(s)
Follow == LoggerReceives \/ LogRosterChanges \/ ReportLoads \/ WarnUnknownInbounds

Next ==
    \/ \E s \in Sources : Work(s) \/ WatchFails(s) \/ Event(s) \/ Fired(s) \/ Save(s) \/ EventLost(s)
    \/ Follow
    \/ \E c \in {"loads", "inbounds"} : ReporterReceives(c)
    \/ \E email \in Users : Detail(email)
    \/ Answer

Spec == Init /\ [][Next]_vars

Fairness ==
    /\ \A s \in Sources : WF_vars(Work(s)) /\ WF_vars(Event(s)) /\ WF_vars(Fired(s))
    /\ WF_vars(LoggerReceives) /\ WF_vars(LogRosterChanges)
    /\ \A c \in {"loads", "inbounds"} : WF_vars(ReporterReceives(c))
    /\ WF_vars(ReportLoads) /\ WF_vars(WarnUnknownInbounds)

FairSpec == Spec /\ Fairness
-----------------------------------------------------------------------------
Quiet(s) == watcher[s].pc = "loop" /\ ~watcher[s].event /\ ~watcher[s].timer

Reflects(s) ==
    LET fault == FaultOf(s, files[s])
    IN  IF ~Start(s) THEN ~snap[s].loaded /\ snap[s].error = ""
        ELSE IF fault # ""
        THEN snap[s].error = fault /\ snap[s].stale = snap[s].loaded
        ELSE /\ snap[s].loaded /\ ~snap[s].stale /\ snap[s].error = ""
             /\ s = "xray" => /\ snap[s].value.view = files[s].view
                              /\ snap[s].value.roster = RosterOf(files[s].view)
             /\ s = "ads" => snap[s].value = ParseRecords(files[s].records)

(* When a watcher has nothing left to do, its snapshot is the parse of the   *)
(* file, or tells the fault of the file over the last value that parsed:     *)
(* however saves fall between an event, the debounce, the read and the swap. *)
(* A save is exempt when no event of it reaches the watcher: between the     *)
(* first read and the watch, or dropped by the kernel.                       *)
QuietReflectsFile ==
    \A s \in Sources : Quiet(s) /\ ~watcher[s].missed => Reflects(s)

(* A consumer of Roster() that compares versions misses no change: the       *)
(* version it acted on names the roster it saw, whatever loads, failures and *)
(* coalesced notifications came between.                                     *)
VersionNamesRoster ==
    logger.reported = snap["xray"].value.version => logger.roster = snap["xray"].value.roster

(* A client that follows the share link of an available profile is served:   *)
(* by the one inbound and the one advertisement with that tag in the parses  *)
(* the request read, as that User, and for a direct profile past the         *)
(* transport and security checks of the inbound.                             *)
URIConnects ==
    request # Idle =>
      \A k \in DOMAIN Collection(FALSE).items :
        LET item == Collection(FALSE).items[k]
            view == request.xray.value.view
            inbounds == {i \in DOMAIN view : view[i].tag = item.tag}
            ads == {i \in DOMAIN snap["ads"].value : snap["ads"].value[i].id.tag = item.tag}
        IN  item.status = "available" =>
              /\ Cardinality(inbounds) = 1 /\ Cardinality(ads) = 1
              /\ \A i \in ads : ~Duplicate(snap["ads"].value, i)
              /\ item.uri.host # "" /\ Read(item.uri, "sni", "") # ""
              /\ \A i \in inbounds :
                    /\ UserServed(request.email, view[i], item.uri)
                    /\ item.topology = "direct" =>
                          /\ RouteServed(view[i].transport, item.uri)
                          /\ SecurityServed(view[i].security, item.uri)

(* A change that the watch reports is loaded: once no more saves come, the   *)
(* snapshot of a watched source stays that of its file.                      *)
ChangeIsLoaded ==
    \A s \in Sources :
        <>[](watcher[s].watching /\ ~watcher[s].missed) => <>[]Reflects(s)

(* The followers of a source catch up although their channel holds one       *)
(* notification: the roster log ends at the current version, and the warning *)
(* about unknown inbounds is about the two current parses.                   *)
FollowersCatchUp ==
    /\ <>[](logger.reported = snap["xray"].value.version)
    /\ <>[](snap["ads"].loaded /\ snap["xray"].loaded /\ ~snap["xray"].stale =>
               reporter.warned = UnknownTags(snap["ads"].value, snap["xray"].value.view))
=============================================================================
