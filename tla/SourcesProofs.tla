---------------------------- MODULE SourcesProofs ----------------------------
(***************************************************************************)
(* Theorems about the two watched sources, for any documents, any number   *)
(* of saves and of failures.                                               *)
(***************************************************************************)
EXTENDS Sources, FiniteSetTheorems, TLAPS

-----------------------------------------------------------------------------
(* The inductive invariant.                                                *)

\* What the documents parse to.
Rosters == {RosterOf(d.view) : d \in Documents("xray")} \cup {Unset}
Views == {d.view : d \in Documents("xray")} \cup {<< >>}
Parsed(s) ==
    IF s = "xray" THEN [roster : Rosters, version : Nat, view : Views]
    ELSE {ParseRecords(d.records) : d \in Documents(s)} \cup {<< >>}
Errors == {"", "read_failed", "parse_failed", "unsupported_version"}
Snapshots(s) ==
    [value : Parsed(s), configured : BOOLEAN, loaded : BOOLEAN, stale : BOOLEAN, error : Errors]
WatcherPCs == {"off", "read", "swap", "watch", "loop", "ended"}
Watchers(s) ==
    [pc : WatcherPCs, document : Documents(s) \cup {Gone}, watching : BOOLEAN,
     event : BOOLEAN, timer : BOOLEAN, missed : BOOLEAN]

Types ==
    /\ DOMAIN files = Sources /\ DOMAIN watcher = Sources /\ DOMAIN snap = Sources
    /\ \A s \in Sources :
          files[s] \in Documents(s) /\ watcher[s] \in Watchers(s) /\ snap[s] \in Snapshots(s)

\* A watcher that runs has a file; it waits for events exactly when it watches.
Control(s) ==
    LET w == watcher[s] IN
    /\ w.pc \in {"read", "swap", "watch", "loop"} => Start(s)
    /\ w.pc = "swap" => w.document \notin {Gone, Unconfigured}
    /\ w.pc = "loop" => w.watching
    /\ w.pc \in {"off", "watch", "ended"} => ~w.watching
    /\ ~w.watching => ~w.event /\ ~w.timer

\* Whatever the file holds that the snapshot does not say, something is still
\* on its way that makes the watcher read it: or no event of it ever came.
Owed(s) ==
    LET w == watcher[s] IN
    \/ w.event \/ w.timer \/ w.missed
    \/ w.pc \in {"off", "read", "ended"}
    \/ w.pc = "swap" /\ w.document = files[s]
    \/ w.pc \in {"watch", "loop"} /\ Reflects(s)

SourcesInv == Types /\ \A s \in Sources : Control(s) /\ Owed(s)

\* What the follower of the roster knows of its versions.
LoggerInv ==
    /\ DOMAIN logger = {"pc", "reported", "roster"}
    /\ logger.reported \in Nat
    /\ logger.reported <= snap["xray"].value.version
    /\ VersionNamesRoster
-----------------------------------------------------------------------------
(* The parses.                                                             *)

\* What a document of the path parses to is one of the parses.
LEMMA ParseTypes ==
    ASSUME NEW s \in Sources, NEW v \in Parsed(s), NEW d \in Documents(s)
    PROVE  /\ Parse(s, v, d) \in Parsed(s)
           /\ s = "xray" => /\ Parse(s, v, d).view = d.view
                            /\ Parse(s, v, d).roster = RosterOf(d.view)
           /\ s = "ads" => Parse(s, v, d) = ParseRecords(d.records)
<1>1. CASE s = "xray"
  <2> DEFINE n == IF v.roster = Unset \/ ~SameRoster(v.roster, RosterOf(d.view))
                  THEN v.version + 1 ELSE v.version
  <2>1. n \in Nat
    BY <1>1 DEF Parsed
  <2>2. Parse(s, v, d) = [roster |-> RosterOf(d.view), view |-> d.view, version |-> n]
    BY <1>1 DEF Parse, ParseConfig
  <2>3. RosterOf(d.view) \in Rosters /\ d.view \in Views
    BY <1>1 DEF Rosters, Views
  <2> HIDE DEF n
  <2> QED
    BY <1>1, <2>1, <2>2, <2>3 DEF Parsed
<1>2. CASE s = "ads"
  BY <1>2 DEF Parse, Parsed
<1> QED
  BY <1>1, <1>2 DEF Sources

\* The version moves with the roster, and only up.
LEMMA VersionMoves ==
    ASSUME NEW v \in Parsed("xray"), NEW d
    PROVE  LET new == Parse("xray", v, d) IN
           \/ new.version = v.version + 1
           \/ new.version = v.version /\ new.roster = v.roster
<1> DEFINE moved == v.roster = Unset \/ ~SameRoster(v.roster, RosterOf(d.view))
<1>1. Parse("xray", v, d) = [roster |-> RosterOf(d.view), view |-> d.view,
                             version |-> IF moved THEN v.version + 1 ELSE v.version]
  BY DEF Parse, ParseConfig
<1>2. ~moved => RosterOf(d.view) = v.roster
  BY DEF SameRoster
<1> QED
  BY <1>1, <1>2

\* The reasons a document does not parse.
LEMMA FaultTypes == \A s, d : FaultOf(s, d) \in Errors
  BY DEF FaultOf, ParseFault, Errors

-----------------------------------------------------------------------------
(* One watcher.                                                            *)

\* What holds of a source depends on that source alone.
LEMMA Undisturbed ==
    ASSUME NEW s \in Sources, Control(s), Owed(s),
           files'[s] = files[s], watcher'[s] = watcher[s], snap'[s] = snap[s]
    PROVE  Control(s)' /\ Owed(s)'
  BY DEF Control, Owed, Reflects, Start

\* A step of one source, with the new watcher and the new snapshot of it.
LEMMA OneSource ==
    ASSUME SourcesInv, NEW s \in Sources, NEW w \in Watchers(s),
           files'[s] \in Documents(s), snap'[s] \in Snapshots(s),
           DOMAIN files' = Sources, DOMAIN snap' = Sources,
           \A r \in Sources \ {s} : files'[r] = files[r] /\ snap'[r] = snap[r],
           watcher' = [watcher EXCEPT ![s] = w],
           Control(s)', Owed(s)'
    PROVE  SourcesInv'
<1>1. Types'
  BY DEF SourcesInv, Types
<1>2. ASSUME NEW r \in Sources, r # s PROVE Control(r)' /\ Owed(r)'
  <2>1. files'[r] = files[r] /\ watcher'[r] = watcher[r] /\ snap'[r] = snap[r]
    BY <1>2 DEF SourcesInv, Types
  <2> QED
    BY <2>1, Undisturbed DEF SourcesInv
<1> QED
  BY <1>1, <1>2 DEF SourcesInv

\* A step of a watcher that reads and publishes nothing.
LEMMA WatcherAlone ==
    ASSUME SourcesInv, NEW s \in Sources, NEW w \in Watchers(s), UNCHANGED <<files, snap>>,
           watcher' = [watcher EXCEPT ![s] = w], Control(s)', Owed(s)'
    PROVE  SourcesInv'
<1>1. snap'[s] \in Snapshots(s) /\ DOMAIN snap' = Sources
  BY DEF SourcesInv, Types
<1>2. files'[s] \in Documents(s) /\ DOMAIN files' = Sources
  BY DEF SourcesInv, Types
<1> QED
  BY <1>1, <1>2, OneSource

\* The parts of a watcher and of a snapshot.
LEMMA Parts ==
    ASSUME SourcesInv, NEW s \in Sources
    PROVE  /\ watcher[s] \in Watchers(s) /\ snap[s] \in Snapshots(s) /\ files[s] \in Documents(s)
           /\ watcher[s].document \in Documents(s) \cup {Gone}
           /\ snap[s].value \in Parsed(s)
           /\ watcher[s].pc \in WatcherPCs
           /\ Control(s) /\ Owed(s)
  BY DEF SourcesInv, Types, Watchers, Snapshots

\* Start, Watch, the failing watch, an event and the debounce.
LEMMA QuietSteps ==
    ASSUME SourcesInv, NEW s \in Sources,
           Boot(s) \/ Watch(s) \/ WatchFails(s) \/ Event(s) \/ Fired(s) \/ EventLost(s)
    PROVE  SourcesInv'
<1> DEFINE v == watcher[s]
<1>1. v \in Watchers(s) /\ DOMAIN watcher = Sources /\ UNCHANGED <<files, snap>>
  BY Parts DEF SourcesInv, Types, Boot, Watch, WatchFails, Event, Fired, EventLost
<1>2. Control(s) /\ Owed(s)
  BY Parts
<1>3. CASE Boot(s)
  <2> DEFINE w == [v EXCEPT !.pc = IF Start(s) THEN "read" ELSE "ended"]
  <2>1. watcher' = [watcher EXCEPT ![s] = w] /\ v.pc = "off"
    BY <1>3 DEF Boot, Goto
  <2>2. /\ w \in Watchers(s) /\ w.pc = IF Start(s) THEN "read" ELSE "ended"
        /\ w.watching = v.watching /\ w.event = v.event /\ w.timer = v.timer
    BY <1>1 DEF Watchers, WatcherPCs
  <2> HIDE DEF w
  <2>3. watcher'[s] = w
    BY <1>1, <2>1
  <2>4. Control(s)' /\ Owed(s)'
    BY <1>1, <1>2, <2>1, <2>2, <2>3 DEF Control, Owed, Start
  <2> QED
    BY <1>1, <2>1, <2>2, <2>4, WatcherAlone
<1>4. CASE Watch(s)
  <2> DEFINE w == [v EXCEPT !.pc = "loop", !.watching = TRUE]
  <2>1. watcher' = [watcher EXCEPT ![s] = w] /\ v.pc = "watch"
    BY <1>4 DEF Watch
  <2>2. /\ w \in Watchers(s) /\ w.pc = "loop" /\ w.watching = TRUE /\ w.event = v.event
        /\ w.timer = v.timer /\ w.missed = v.missed
    BY <1>1 DEF Watchers, WatcherPCs
  <2> HIDE DEF w
  <2>3. watcher'[s] = w
    BY <1>1, <2>1
  <2>4. Control(s)'
    BY <1>1, <1>2, <2>1, <2>2, <2>3 DEF Control, Start
  <2>5. Owed(s)'
    BY <1>1, <1>2, <2>1, <2>2, <2>3 DEF Owed, Reflects, Start
  <2> QED
    BY <1>1, <2>1, <2>2, <2>4, <2>5, WatcherAlone
<1>5. CASE WatchFails(s)
  <2> DEFINE w == [v EXCEPT !.pc = "ended"]
  <2>1. watcher' = [watcher EXCEPT ![s] = w] /\ v.pc = "watch"
    BY <1>5 DEF WatchFails, Goto
  <2>2. /\ w \in Watchers(s) /\ w.pc = "ended" /\ w.watching = v.watching /\ w.event = v.event
        /\ w.timer = v.timer
    BY <1>1 DEF Watchers, WatcherPCs
  <2> HIDE DEF w
  <2>3. watcher'[s] = w
    BY <1>1, <2>1
  <2>4. Control(s)' /\ Owed(s)'
    BY <1>1, <1>2, <2>1, <2>2, <2>3 DEF Control, Owed, Start
  <2> QED
    BY <1>1, <2>1, <2>2, <2>4, WatcherAlone
<1>6. CASE Event(s)
  <2> DEFINE w == [v EXCEPT !.event = FALSE, !.timer = TRUE]
  <2>1. watcher' = [watcher EXCEPT ![s] = w] /\ v.pc = "loop"
    BY <1>6 DEF Event
  <2>2. w \in Watchers(s) /\ w.pc = v.pc /\ w.watching = v.watching /\ w.timer = TRUE
        /\ w.document = v.document
    BY <1>1 DEF Watchers
  <2> HIDE DEF w
  <2>3. watcher'[s] = w
    BY <1>1, <2>1
  <2>4. Control(s)' /\ Owed(s)'
    BY <1>1, <1>2, <2>1, <2>2, <2>3 DEF Control, Owed, Start
  <2> QED
    BY <1>1, <2>1, <2>2, <2>4, WatcherAlone
<1>7. CASE Fired(s)
  <2> DEFINE w == [v EXCEPT !.timer = FALSE, !.pc = "read"]
  <2>1. watcher' = [watcher EXCEPT ![s] = w] /\ v.pc = "loop"
    BY <1>7 DEF Fired
  <2>2. w \in Watchers(s) /\ w.pc = "read" /\ w.watching = v.watching
    BY <1>1 DEF Watchers, WatcherPCs
  <2> HIDE DEF w
  <2>3. watcher'[s] = w
    BY <1>1, <2>1
  <2>4. Control(s)' /\ Owed(s)'
    BY <1>1, <1>2, <2>1, <2>2, <2>3 DEF Control, Owed, Start
  <2> QED
    BY <1>1, <2>1, <2>2, <2>4, WatcherAlone
<1>8. CASE EventLost(s)
  <2> DEFINE w == [v EXCEPT !.event = FALSE, !.missed = TRUE]
  <2>1. watcher' = [watcher EXCEPT ![s] = w]
    BY <1>8 DEF EventLost
  <2>2. /\ w \in Watchers(s) /\ w.pc = v.pc /\ w.watching = v.watching /\ w.timer = v.timer
        /\ w.event = FALSE /\ w.missed = TRUE /\ w.document = v.document
    BY <1>1 DEF Watchers
  <2> HIDE DEF w
  <2>3. watcher'[s] = w
    BY <1>1, <2>1
  <2>4. Control(s)' /\ Owed(s)'
    BY <1>1, <1>2, <2>1, <2>2, <2>3 DEF Control, Owed, Start
  <2> QED
    BY <1>1, <2>1, <2>2, <2>4, WatcherAlone
<1> QED
  BY <1>3, <1>4, <1>5, <1>6, <1>7, <1>8

\* A save is seen, or read anyway, or it is missed.
LEMMA SaveKeeps ==
    ASSUME SourcesInv, NEW s \in Sources, Save(s)
    PROVE  SourcesInv'
<1> DEFINE v == watcher[s]
           m == ~v.watching /\ v.pc \notin {"off", "read"}
           w == [v EXCEPT !.event = v.watching, !.missed = m]
<1>1. v \in Watchers(s) /\ DOMAIN watcher = Sources /\ snap' = snap /\ Control(s)
  BY Parts DEF SourcesInv, Types, Save
<1>2. watcher' = [watcher EXCEPT ![s] = w]
  BY DEF Save
<1>3. PICK d \in Edited(s) : files' = [files EXCEPT ![s] = d]
  BY DEF Save
<1>4. DOMAIN files' = Sources /\ files'[s] = d /\ \A r \in Sources \ {s} : files'[r] = files[r]
  BY <1>3 DEF SourcesInv, Types
<1>5. d \in Documents(s) /\ d # Unconfigured
  BY SourcesAssumption DEF Documents
<1>6. m \in BOOLEAN
  OBVIOUS
<1> HIDE DEF m
<1>7. /\ w \in Watchers(s) /\ w.pc = v.pc /\ w.watching = v.watching /\ w.timer = v.timer
      /\ w.event = v.watching /\ w.missed = m /\ w.document = v.document
  BY <1>1, <1>6 DEF Watchers
<1> HIDE DEF w
<1>8. watcher'[s] = w
  BY <1>1, <1>2
<1>9. Control(s)'
  BY <1>1, <1>4, <1>5, <1>7, <1>8 DEF Control, Start
<1>10. Owed(s)'
  BY <1>1, <1>7, <1>8 DEF Owed, m
<1>11. snap'[s] \in Snapshots(s) /\ DOMAIN snap' = Sources
  BY <1>1 DEF SourcesInv, Types
<1> QED
  BY <1>1, <1>2, <1>4, <1>5, <1>7, <1>9, <1>10, <1>11, OneSource

\* What RecordFailure leaves.
LEMMA Recorded ==
    ASSUME SourcesInv, NEW s \in Sources, NEW reason \in Errors, RecordFailure(s, reason)
    PROVE  /\ snap'[s] \in Snapshots(s) /\ DOMAIN snap' = Sources
           /\ \A r \in Sources \ {s} : snap'[r] = snap[r]
           /\ snap'[s].error = reason /\ snap'[s].loaded = snap[s].loaded
           /\ snap'[s].stale = snap[s].loaded /\ snap'[s].value = snap[s].value
<1> DEFINE p == [snap[s] EXCEPT !.stale = snap[s].loaded, !.error = reason]
<1>1. snap[s] \in Snapshots(s) /\ DOMAIN snap = Sources
  BY DEF SourcesInv, Types
<1>2. /\ p \in Snapshots(s) /\ p.error = reason /\ p.loaded = snap[s].loaded
      /\ p.stale = snap[s].loaded /\ p.value = snap[s].value
  BY <1>1 DEF Snapshots
<1>3. snap' = [snap EXCEPT ![s] = p]
  BY DEF RecordFailure
<1> HIDE DEF p
<1>4. snap'[s] = p
  BY <1>1, <1>3
<1> QED
  BY <1>1, <1>2, <1>3, <1>4

\* A read that fails is recorded, one that succeeds is kept for the parse.
LEMMA ReadKeeps ==
    ASSUME SourcesInv, NEW s \in Sources, ReadFile(s)
    PROVE  SourcesInv'
<1> DEFINE v == watcher[s]
<1>1. v \in Watchers(s) /\ DOMAIN watcher = Sources /\ files' = files /\ Control(s) /\ v.pc = "read"
      /\ files[s] \in Documents(s) /\ DOMAIN files = Sources
  BY Parts DEF SourcesInv, Types, ReadFile
<1>2. CASE files[s] = Gone
  <2> DEFINE pc == AfterReload(s)
             w == [v EXCEPT !.pc = pc]
  <2>1. RecordFailure(s, "read_failed") /\ watcher' = [watcher EXCEPT ![s] = w]
    BY <1>2 DEF ReadFile
  <2>2. pc = (IF v.watching THEN "loop" ELSE "watch")
    BY DEF AfterReload
  <2> HIDE DEF pc
  <2>3. /\ w \in Watchers(s) /\ w.pc = pc /\ w.watching = v.watching /\ w.event = v.event
        /\ w.timer = v.timer
    BY <1>1, <2>2 DEF Watchers, WatcherPCs
  <2> HIDE DEF w
  <2>4. watcher'[s] = w
    BY <1>1, <2>1
  <2>5. /\ snap'[s] \in Snapshots(s) /\ DOMAIN snap' = Sources
        /\ \A r \in Sources \ {s} : snap'[r] = snap[r]
        /\ snap'[s].error = "read_failed" /\ snap'[s].stale = snap'[s].loaded
    <3>1. "read_failed" \in Errors
      BY DEF Errors
    <3> QED
      BY <2>1, <3>1, Recorded
  <2>6. Start(s)
    BY <1>1 DEF Control
  <2>7. Reflects(s)'
    BY <1>1, <1>2, <2>5, <2>6 DEF Reflects, FaultOf, Start
  <2>8. Control(s)'
    BY <1>1, <2>2, <2>3, <2>4, <2>6 DEF Control, Start
  <2>9. Owed(s)'
    BY <2>2, <2>3, <2>4, <2>7 DEF Owed
  <2> QED
    BY <1>1, <2>1, <2>3, <2>5, <2>8, <2>9, OneSource
<1>3. CASE files[s] # Gone
  <2> DEFINE w == [v EXCEPT !.pc = "swap", !.document = files[s]]
  <2>1. UNCHANGED <<files, snap>> /\ watcher' = [watcher EXCEPT ![s] = w]
    BY <1>3 DEF ReadFile
  <2>2. /\ w \in Watchers(s) /\ w.pc = "swap" /\ w.document = files[s] /\ w.watching = v.watching
        /\ w.event = v.event /\ w.timer = v.timer
    BY <1>1 DEF Watchers, WatcherPCs
  <2> HIDE DEF w
  <2>3. watcher'[s] = w
    BY <1>1, <2>1
  <2>4. Control(s)' /\ Owed(s)'
    BY <1>1, <1>3, <2>1, <2>2, <2>3 DEF Control, Owed, Start
  <2> QED
    BY <2>1, <2>2, <2>4, WatcherAlone
<1> QED
  BY <1>2, <1>3

\* What the critical section of reload leaves in the snapshot.
LEMMA Swapped ==
    ASSUME SourcesInv, NEW s \in Sources, Swap(s), watcher[s].document # Gone
    PROVE  LET doc == watcher[s].document IN
           /\ snap'[s] \in Snapshots(s) /\ DOMAIN snap' = Sources
           /\ \A r \in Sources \ {s} : snap'[r] = snap[r]
           /\ FaultOf(s, doc) # "" => /\ snap'[s].error = FaultOf(s, doc)
                                      /\ snap'[s].stale = snap'[s].loaded
                                      /\ snap'[s].value = snap[s].value
           /\ FaultOf(s, doc) = "" => /\ snap'[s].loaded = TRUE /\ snap'[s].stale = FALSE
                                      /\ snap'[s].error = ""
                                      /\ snap'[s].value = Parse(s, snap[s].value, doc)
<1> DEFINE doc == watcher[s].document
<1>1. doc \in Documents(s) /\ snap[s] \in Snapshots(s) /\ DOMAIN snap = Sources
      /\ snap[s].value \in Parsed(s)
  BY Parts DEF SourcesInv, Types
<1>2. CASE FaultOf(s, doc) # ""
  <2>1. RecordFailure(s, FaultOf(s, doc)) /\ FaultOf(s, doc) \in Errors
    BY <1>2, FaultTypes DEF Swap
  <2> QED
    BY <1>2, <2>1, Recorded
<1>3. CASE FaultOf(s, doc) = ""
  <2> DEFINE value == Parse(s, snap[s].value, doc)
             p == [snap[s] EXCEPT !.value = value, !.loaded = TRUE, !.stale = FALSE, !.error = ""]
  <2>1. snap' = [snap EXCEPT ![s] = p]
    BY <1>1, <1>3 DEF Swap
  <2>2. value \in Parsed(s)
    BY <1>1, ParseTypes
  <2> HIDE DEF value
  <2>3. /\ p \in Snapshots(s) /\ p.loaded = TRUE /\ p.stale = FALSE /\ p.error = ""
        /\ p.value = value
    BY <1>1, <2>2 DEF Snapshots, Errors
  <2> HIDE DEF p
  <2>4. snap'[s] = p
    BY <1>1, <2>1
  <2> QED
    BY <1>1, <1>3, <2>1, <2>3, <2>4 DEF value
<1> QED
  BY <1>2, <1>3

\* The swap makes the snapshot that of the document it parsed. The document is
\* that of the file, or something else is on its way.
LEMMA SwapKeeps ==
    ASSUME SourcesInv, NEW s \in Sources, Swap(s)
    PROVE  SourcesInv'
<1> DEFINE v == watcher[s]
           pc == AfterReload(s)
           w == [v EXCEPT !.pc = pc, !.document = Gone]
<1>1. /\ v \in Watchers(s) /\ DOMAIN watcher = Sources /\ files' = files /\ Control(s) /\ Owed(s)
      /\ v.pc = "swap" /\ files[s] \in Documents(s) /\ DOMAIN files = Sources
      /\ snap[s].value \in Parsed(s)
  BY Parts DEF SourcesInv, Types, Swap
<1>2. watcher' = [watcher EXCEPT ![s] = w]
  BY DEF Swap
<1>3. pc = (IF v.watching THEN "loop" ELSE "watch")
  BY DEF AfterReload
<1> HIDE DEF pc
<1>4. /\ w \in Watchers(s) /\ w.pc = pc /\ w.watching = v.watching /\ w.event = v.event
      /\ w.timer = v.timer /\ w.missed = v.missed
  BY <1>1, <1>3 DEF Watchers, WatcherPCs
<1> HIDE DEF w
<1>5. watcher'[s] = w
  BY <1>1, <1>2
<1>6. Start(s) /\ v.document # Gone
  BY <1>1 DEF Control
<1>7. Control(s)'
  BY <1>1, <1>3, <1>4, <1>5, <1>6 DEF Control, Start
<1>8. Owed(s)'
  <2>1. CASE v.document = files[s]
    <3>1. s = "xray" => /\ Parse(s, snap[s].value, files[s]).view = files[s].view
                        /\ Parse(s, snap[s].value, files[s]).roster = RosterOf(files[s].view)
      BY <1>1, ParseTypes
    <3>2. s = "ads" => Parse(s, snap[s].value, files[s]) = ParseRecords(files[s].records)
      BY <1>1, ParseTypes
    <3>3. /\ FaultOf(s, files[s]) # "" => /\ snap'[s].error = FaultOf(s, files[s])
                                          /\ snap'[s].stale = snap'[s].loaded
          /\ FaultOf(s, files[s]) = "" => /\ snap'[s].loaded = TRUE /\ snap'[s].stale = FALSE
                                          /\ snap'[s].error = ""
                                          /\ snap'[s].value = Parse(s, snap[s].value, files[s])
      BY <1>6, <2>1, Swapped
    <3>4. Reflects(s)'
      BY <1>1, <1>6, <3>1, <3>2, <3>3 DEF Reflects, Start
    <3> QED
      BY <1>3, <1>4, <1>5, <3>4 DEF Owed
  <2>2. CASE v.document # files[s]
    BY <1>1, <1>4, <1>5, <2>2 DEF Owed
  <2> QED
    BY <2>1, <2>2
<1>9. /\ snap'[s] \in Snapshots(s) /\ DOMAIN snap' = Sources
      /\ \A r \in Sources \ {s} : snap'[r] = snap[r]
  BY <1>6, Swapped
<1> QED
  BY <1>1, <1>2, <1>4, <1>7, <1>8, <1>9, OneSource

-----------------------------------------------------------------------------
(* All of the sources.                                                     *)

\* The Panel starts with nothing loaded.
LEMMA SourcesInit == Init => SourcesInv
<1> SUFFICES ASSUME Init PROVE SourcesInv
  OBVIOUS
<1>1. DOMAIN files = Sources /\ DOMAIN watcher = Sources /\ DOMAIN snap = Sources
  BY SourcesAssumption DEF Init
<1>2. ASSUME NEW s \in Sources
      PROVE  files[s] \in Documents(s) /\ watcher[s] \in Watchers(s) /\ snap[s] \in Snapshots(s)
  <2>1. files[s] \in Documents(s)
    BY DEF Init, Documents
  <2>2. watcher[s] \in Watchers(s)
    BY DEF Init, Watchers, WatcherPCs
  <2>3. snap[s].value \in Parsed(s)
    <3>1. CASE s = "xray"
      <4>1. NoParse \in Parsed("xray")
        BY DEF NoParse, Parsed, Rosters, Views
      <4> QED
        BY <3>1, <4>1 DEF Init
    <3>2. CASE s = "ads"
      BY <3>2 DEF Init, Parsed
    <3> QED
      BY <3>1, <3>2 DEF Sources
  <2> DEFINE b == Start(s)
             v == snap[s].value
  <2>4. snap[s] = [value |-> v, configured |-> b, loaded |-> FALSE, stale |-> FALSE, error |-> ""]
    BY DEF Init
  <2>5. b \in BOOLEAN /\ v \in Parsed(s)
    BY <2>3 DEF Start
  <2> HIDE DEF b, v
  <2>6. snap[s] \in Snapshots(s)
    <3>1. "" \in Errors
      BY DEF Errors
    <3>2. [value |-> v, configured |-> b, loaded |-> FALSE, stale |-> FALSE, error |-> ""]
             \in Snapshots(s)
      BY <2>5, <3>1 DEF Snapshots
    <3> QED
      BY <2>4, <3>2
  <2> QED
    BY <2>1, <2>2, <2>6
<1>3. ASSUME NEW s \in Sources PROVE Control(s) /\ Owed(s)
  BY DEF Init, Control, Owed
<1> QED
  BY <1>1, <1>2, <1>3 DEF SourcesInv, Types

\* Every step keeps the invariant.
LEMMA SourcesStep == SourcesInv /\ [Next]_vars => SourcesInv'
<1> SUFFICES ASSUME SourcesInv, [Next]_vars PROVE SourcesInv'
  OBVIOUS
<1>1. ASSUME NEW s \in Sources,
             Work(s) \/ WatchFails(s) \/ Event(s) \/ Fired(s) \/ Save(s) \/ EventLost(s)
      PROVE  SourcesInv'
  BY <1>1, QuietSteps, ReadKeeps, SwapKeeps, SaveKeeps DEF Work
<1>2. CASE UNCHANGED <<files, watcher, snap>>
  BY <1>2, Undisturbed DEF SourcesInv, Types
<1>3. \/ \E s \in Sources :
            Work(s) \/ WatchFails(s) \/ Event(s) \/ Fired(s) \/ Save(s) \/ EventLost(s)
      \/ UNCHANGED <<files, watcher, snap>>
  BY DEF Next, vars, Follow, LoggerReceives, LogRosterChanges, ReportLoads, WarnUnknownInbounds,
         ReporterReceives, Detail, Answer
<1> QED
  BY <1>1, <1>2, <1>3

\* So it always holds.
LEMMA SourcesAlways == Spec => []SourcesInv
  BY SourcesInit, SourcesStep, PTL DEF Spec

(* However saves fall between an event, the debounce, the read and the swap, *)
(* a watcher with nothing left to do publishes the parse of its file, or the *)
(* fault of its file over the last value that parsed.                        *)
THEOREM QuietWatcherReflects == Spec => []QuietReflectsFile
<1>1. SourcesInv => QuietReflectsFile
  BY DEF SourcesInv, QuietReflectsFile, Quiet, Owed
<1> QED
  BY <1>1, SourcesAlways, PTL

-----------------------------------------------------------------------------
(* Versions.                                                               *)

\* Only a swap of the xray config moves its parse, and the version with it.
LEMMA ParseMoves ==
    ASSUME SourcesInv, [Next]_vars
    PROVE  LET old == snap["xray"].value
               new == snap'["xray"].value
           IN  \/ new.version = old.version + 1
               \/ new.version = old.version /\ new.roster = old.roster
<1> DEFINE old == snap["xray"].value
           new == snap'["xray"].value
<1>1. "xray" \in Sources /\ old \in Parsed("xray")
  BY Parts DEF Sources
<1>2. CASE new = old
  BY <1>2
<1>3. ASSUME NEW s \in Sources, ReadFile(s) PROVE new = old
  <2>1. CASE s = "xray"
    <3>1. snap' = snap \/ RecordFailure(s, "read_failed")
      BY <1>3 DEF ReadFile
    <3>2. "read_failed" \in Errors
      BY DEF Errors
    <3> QED
      BY <2>1, <3>1, <3>2, Recorded
  <2>2. CASE s # "xray"
    <3>1. snap' = snap \/ RecordFailure(s, "read_failed")
      BY <1>3 DEF ReadFile
    <3>2. "read_failed" \in Errors
      BY DEF Errors
    <3> QED
      BY <1>1, <2>2, <3>1, <3>2, Recorded
  <2> QED
    BY <2>1, <2>2
<1>4. ASSUME NEW s \in Sources, Swap(s)
      PROVE  \/ new = old
             \/ \E d : new = Parse("xray", old, d)
  <2>1. watcher[s].document # Gone
    BY <1>4, Parts DEF Swap, Control
  <2> QED
    BY <1>1, <1>4, <2>1, Swapped
<1>5. \/ snap' = snap
      \/ \E s \in Sources : ReadFile(s) \/ Swap(s)
  BY DEF Next, vars, Work, Boot, Watch, WatchFails, Event, Fired, Save, EventLost, Follow,
         LoggerReceives, LogRosterChanges, ReportLoads, WarnUnknownInbounds, ReporterReceives,
         Detail, Answer
<1> QED
  BY <1>1, <1>2, <1>3, <1>4, <1>5, VersionMoves

\* The version the log acted on is never ahead, and names the roster it saw.
LEMMA LoggerStep == SourcesInv /\ SourcesInv' /\ LoggerInv /\ [Next]_vars => LoggerInv'
<1> SUFFICES ASSUME SourcesInv, SourcesInv', LoggerInv, [Next]_vars PROVE LoggerInv'
  OBVIOUS
<1> DEFINE old == snap["xray"].value
           new == snap'["xray"].value
<1>1. old.version \in Nat
  BY Parts DEF Sources, Parsed
<1>2. CASE LogRosterChanges
  <2>1. new = old
    BY <1>2 DEF LogRosterChanges
  <2>2. /\ DOMAIN logger' = DOMAIN logger /\ logger'.reported = old.version
        /\ logger'.roster = IF old.version = logger.reported THEN logger.roster ELSE old.roster
    BY <1>2 DEF LogRosterChanges, LoggerInv
  <2> QED
    BY <1>1, <2>1, <2>2 DEF LoggerInv, VersionNamesRoster
<1>3. CASE ~LogRosterChanges
  <2>1. /\ DOMAIN logger' = DOMAIN logger
        /\ logger'.reported = logger.reported /\ logger'.roster = logger.roster
    BY <1>3 DEF LoggerInv, Next, vars, Work, Boot, ReadFile, Swap, Watch, WatchFails, Event, Fired,
         Save, EventLost, Follow, LoggerReceives, ReportLoads, WarnUnknownInbounds,
         ReporterReceives, Detail, Answer
  <2>2. \/ new.version = old.version + 1
        \/ new.version = old.version /\ new.roster = old.roster
    BY ParseMoves
  <2> QED
    BY <1>1, <2>1, <2>2 DEF LoggerInv, VersionNamesRoster
<1> QED
  BY <1>2, <1>3

(* A consumer that compares versions misses no change of the roster,         *)
(* whatever loads, failures and coalesced notifications come between: the    *)
(* version moves with every change and never back.                           *)
THEOREM VersionsNameRosters == Spec => []VersionNamesRoster
<1>1. Init => LoggerInv
  <2> SUFFICES ASSUME Init PROVE LoggerInv
    OBVIOUS
  <2>1. logger = [pc |-> "idle", reported |-> 0, roster |-> Unset]
    BY DEF Init
  <2>2. snap["xray"].value = NoParse
    BY DEF Init, Sources
  <2>3. NoParse.version = 0 /\ NoParse.roster = Unset
    BY DEF NoParse
  <2>4. DOMAIN logger = {"pc", "reported", "roster"} /\ logger.reported = 0 /\ logger.roster = Unset
    BY <2>1
  <2> QED
    BY <2>2, <2>3, <2>4 DEF LoggerInv, VersionNamesRoster
<1>2. LoggerInv => VersionNamesRoster
  BY DEF LoggerInv
<1> QED
  BY <1>1, <1>2, LoggerStep, SourcesAlways, PTL DEF Spec
-----------------------------------------------------------------------------
(* Connection profiles.                                                    *)

\* The fields of a share link, read back.
Reads(uri, flow, t, s) ==
    /\ \A d : Read(uri, "type", d) = t.type
    /\ \A d : Read(uri, "encryption", d) = "none"
    /\ \A d : Read(uri, "security", d) = s.type
    /\ \A d : Read(uri, "sni", d) = s.serverName
    /\ Read(uri, "flow", "") = flow
    /\ t.type \in {"ws", "httpupgrade", "xhttp"} =>
          \A d : Read(uri, "path", d) = t.path /\ Read(uri, "host", d) = t.host
    /\ t.type = "grpc" => \A d : Read(uri, "serviceName", d) = t.service
    /\ t.type \in {"grpc", "xhttp"} => \A d : Read(uri, "mode", d) = t.mode
    /\ s.type = "reality" => \A d : Read(uri, "sid", d) = s.shortID

LEMMA QueryReads ==
    ASSUME NEW flow, NEW t, NEW s, NEW uri, uri.query = Query(flow, t, s)
    PROVE  Reads(uri, flow, t, s)
<1> DEFINE q == Query(flow, t, s)
<1>1. \A name \in DOMAIN q : q[name] = QueryValue(name, flow, t, s)
  BY DEF Query
<1>2. /\ {"type", "encryption", "security", "fp", "sni"} \subseteq DOMAIN q
      /\ ("flow" \in DOMAIN q) <=> flow # ""
      /\ t.type \in {"ws", "httpupgrade", "xhttp"} => {"path", "host"} \subseteq DOMAIN q
      /\ t.type = "grpc" => "serviceName" \in DOMAIN q
      /\ t.type \in {"grpc", "xhttp"} => "mode" \in DOMAIN q
      /\ s.type = "reality" => "sid" \in DOMAIN q
  BY DEF Query, QueryNames
<1> HIDE DEF q
<1>3. uri.query = q
  BY DEF q
<1>4. /\ QueryValue("type", flow, t, s) = t.type
      /\ QueryValue("encryption", flow, t, s) = "none"
      /\ QueryValue("security", flow, t, s) = s.type
      /\ QueryValue("sni", flow, t, s) = s.serverName
      /\ QueryValue("flow", flow, t, s) = flow
      /\ QueryValue("path", flow, t, s) = t.path
      /\ QueryValue("host", flow, t, s) = t.host
      /\ QueryValue("serviceName", flow, t, s) = t.service
      /\ QueryValue("mode", flow, t, s) = t.mode
      /\ QueryValue("sid", flow, t, s) = s.shortID
  BY DEF QueryValue
<1> QED
  BY <1>1, <1>2, <1>3, <1>4 DEF Reads, Read

\* One name of a service, and the path the client asks for.
LEMMA ServiceMatches ==
    ASSUME NEW there, NEW asked, NEW mode, IsService(there), IsService(asked),
           AcceptedGRPCService(there, asked, mode)
    PROVE  LET route == IF mode = "multi" /\ Len(there.names) > 1 THEN 2 ELSE 1
           IN  asked.prefix = there.prefix /\ asked.names = <<there.names[route]>>
<1> DEFINE route == IF mode = "multi" /\ Len(there.names) > 1 THEN 2 ELSE 1
<1>1. /\ asked.names \in Seq(STRING) /\ Len(asked.names) = 1
      /\ asked.prefix = there.prefix /\ asked.names[1] = there.names[route]
  BY DEF AcceptedGRPCService, IsService
<1>2. asked.names = <<asked.names[1]>>
  BY <1>1
<1> QED
  BY <1>1, <1>2

\* A link that matches the inbound's transport is routed by it.
LEMMA TransportMatches ==
    ASSUME NEW there, NEW t, NEW flow, NEW s, NEW uri, uri.query = Query(flow, t, s),
           there.type \in DOMAIN CanonicalInboundTransport, MatchesTransport(there, t),
           t.type = "grpc" => IsService(there.service) /\ IsService(t.service)
    PROVE  RouteServed(there, uri)
<1>0. Reads(uri, flow, t, s)
  BY QueryReads
<1>1. /\ CanonicalInboundTransport[there.type] = t.type
      /\ there.type \in {"ws", "websocket"} => t.type = "ws"
      /\ there.type = "httpupgrade" => t.type = "httpupgrade"
      /\ there.type \in {"xhttp", "splithttp"} => t.type = "xhttp"
      /\ there.type = "grpc" => t.type = "grpc"
  BY DEF MatchesTransport, CanonicalInboundTransport, Transports
<1>2. Read(uri, "type", "tcp") = t.type
  BY <1>0 DEF Reads
<1>3. ASSUME there.type \in {"ws", "websocket", "httpupgrade", "xhttp", "splithttp"}
      PROVE  /\ Read(uri, "path", "/") = NormalizedPath(there.path)
             /\ there.host = "" \/ SameHost(Read(uri, "host", ""), there.host)
  <2>1. t.type \in {"ws", "httpupgrade", "xhttp"}
    BY <1>1, <1>3
  <2>2. Read(uri, "path", "/") = t.path /\ Read(uri, "host", "") = t.host
    BY <1>0, <2>1 DEF Reads
  <2> QED
    BY <2>1, <2>2 DEF MatchesTransport, AcceptedHost, EqualHost, SameHost
<1>4. ASSUME there.type \in {"xhttp", "splithttp"}, there.mode \notin {"", "auto"}
      PROVE  Read(uri, "mode", "auto") = there.mode
  <2>1. t.type = "xhttp"
    BY <1>1, <1>4
  <2>2. Read(uri, "mode", "auto") = t.mode
    BY <1>0, <2>1 DEF Reads
  <2> QED
    BY <1>4, <2>1, <2>2 DEF MatchesTransport, NormalizedXHTTPMode
<1>5. ASSUME there.type = "grpc"
      PROVE  LET names == there.service.names
                 route == IF Read(uri, "mode", "gun") = "multi" /\ Len(names) > 1 THEN 2 ELSE 1
                 asked == Read(uri, "serviceName", there.service)
             IN  asked.prefix = there.service.prefix /\ asked.names = <<names[route]>>
  <2>1. t.type = "grpc"
    BY <1>1, <1>5
  <2>2. Read(uri, "mode", "gun") = t.mode
    BY <1>0, <2>1 DEF Reads
  <2>3. Read(uri, "serviceName", there.service) = t.service
    BY <1>0, <2>1 DEF Reads
  <2>4. AcceptedGRPCService(there.service, t.service, t.mode)
    BY <2>1 DEF MatchesTransport
  <2> QED
    BY <2>1, <2>2, <2>3, <2>4, ServiceMatches
<1> QED
  BY <1>1, <1>2, <1>3, <1>4, <1>5 DEF RouteServed

\* Hosts that are equal, one of them with a canonical form, have the same one.
LEMMA EqualHosts ==
    ASSUME NEW h \in DOMAIN Canonical, NEW g \in DOMAIN Canonical,
           EqualHost(h, g), Canonical[g] # ""
    PROVE  Canonical[h] = Canonical[g]
  BY HostsAssumption DEF EqualHost

\* The security of an inbound whose names are hosts, a REALITY one's as they
\* are written in a link.
IsSecurity(there) ==
    /\ there.serverName \in DOMAIN Canonical
    /\ \A n \in there.serverNames : n # "" /\ Canonical[n] = n

\* A link that matches the inbound's security passes its checks.
LEMMA SecurityMatches ==
    ASSUME NEW there, NEW a, NEW t, NEW flow, NEW s, NEW uri, uri.query = Query(flow, t, s),
           s.type = a.type, s.shortID = a.shortID, s.serverName = Canonical[a.serverName],
           a.type \in {"tls", "reality"}, IsSecurity(there),
           a.serverName \in DOMAIN Canonical, Canonical[a.serverName] # "",
           there.type \in DOMAIN CanonicalInboundSecurity, MatchesSecurity(there, a)
    PROVE  SecurityServed(there, uri)
<1>0. Reads(uri, flow, t, s)
  BY QueryReads
<1>1. there.type = a.type
  BY DEF MatchesSecurity, CanonicalInboundSecurity, DefaultNone, SupportedSecurity
<1>2. Read(uri, "security", "none") = a.type /\ Read(uri, "sni", "") = Canonical[a.serverName]
  BY <1>0 DEF Reads
<1>3. a.type = "reality" => Read(uri, "sid", "unread") = a.shortID
  BY <1>0 DEF Reads
<1>4. ASSUME there.type = "tls", there.rejectUnknownSNI, there.serverName # ""
      PROVE  Read(uri, "sni", "") = Canonical[there.serverName]
  BY <1>1, <1>2, <1>4, EqualHosts DEF MatchesSecurity, IsSecurity
<1>5. ASSUME there.type = "reality"
      PROVE  /\ Read(uri, "sni", "") \in there.serverNames
             /\ Read(uri, "sid", "unread") \in there.shortIDs
  <2>1. PICK n \in there.serverNames : EqualHost(n, a.serverName)
    BY <1>1, <1>5 DEF MatchesSecurity, ContainsHost
  <2>2. Canonical[a.serverName] = n
    BY <2>1 DEF EqualHost, IsSecurity
  <2> QED
    BY <1>1, <1>2, <1>3, <1>5, <2>2 DEF MatchesSecurity
<1> QED
  BY <1>1, <1>2, <1>4, <1>5 DEF SecurityServed

\* What is known of a parsed advertisement, and of a parsed config.
IsAdvertisement(ad) ==
    ad.valid => /\ ad.security.type \in {"tls", "reality"} =>
                      /\ {"type", "serverName", "verifyName", "shortID"} \subseteq DOMAIN ad.security
                      /\ ad.security.serverName \in DOMAIN Canonical
                /\ ad.transport.type = "grpc" => IsService(ad.transport.service)
IsInbound(inbound) == IsService(inbound.transport.service) /\ IsSecurity(inbound.security)
IsConfig(view) == \A k \in DOMAIN view : IsInbound(view[k])

\* A record that passes its checks has what a profile reads.
LEMMA ParsedAdvertisement ==
    ASSUME NEW raw, raw.transport.service = Unset \/ IsService(raw.transport.service),
           {raw.host, raw.security.serverName} \subseteq DOMAIN Canonical \cup {Unset}
    PROVE  IsAdvertisement(ParseAdvertisement(raw))
<1> DEFINE ad == ParseAdvertisement(raw)
<1>1. CASE raw.strict /\ RecordValid(raw)
  <2>1. /\ ad.security = ParseSecurity(raw.security, raw.host)
        /\ ad.transport = ParseTransport(raw.transport)
    BY <1>1 DEF ParseAdvertisement
  <2>2. {"type", "serverName", "verifyName", "shortID"} \subseteq DOMAIN ad.security
    BY <2>1 DEF ParseSecurity
  <2>3. ad.transport.type = raw.transport.type /\ ad.transport.service = raw.transport.service
    BY <2>1 DEF ParseTransport
  <2>4. raw.transport.type = "grpc" => raw.transport.service # Unset
    <3>1. TransportValid(raw.transport)
      BY <1>1 DEF RecordValid
    <3> QED
      BY <3>1 DEF TransportValid
  <2>5. ASSUME ad.security.type \in {"tls", "reality"} PROVE ad.security.serverName \in DOMAIN Canonical
    <3>1. /\ ad.security.type = raw.security.type
          /\ ad.security.serverName = IF raw.security.type = "tls" THEN OrElse(raw.security.serverName, raw.host)
                                      ELSE Value(raw.security.serverName)
      BY <2>1 DEF ParseSecurity
    <3>2. Given(raw.host) /\ (raw.security.type = "reality" => Given(raw.security.serverName))
      BY <1>1 DEF RecordValid, ValidAdvertisedHost, SecurityValid
    <3>3. \A field : Given(field) => field # Unset /\ Value(field) = field
      BY DEF Given, Value
    <3>4. raw.host \in DOMAIN Canonical
      BY <3>2, <3>3
    <3>5. Given(raw.security.serverName) => raw.security.serverName \in DOMAIN Canonical
      BY <3>3
    <3> QED
      BY <2>5, <3>1, <3>2, <3>3, <3>4, <3>5 DEF OrElse
  <2> HIDE DEF ad
  <2>6. IsAdvertisement(ad)
    BY <2>2, <2>3, <2>4, <2>5 DEF IsAdvertisement
  <2> QED
    BY <2>6 DEF ad
<1>2. CASE ~(raw.strict /\ RecordValid(raw))
  <2>1. ad.valid = FALSE
    BY <1>2 DEF ParseAdvertisement
  <2> QED
    BY <2>1 DEF IsAdvertisement
<1> QED
  BY <1>1, <1>2

\* The link of an item, followed by a client, is served by the inbound.
Connects(email, inbound, item) ==
    /\ item.uri.host # "" /\ Read(item.uri, "sni", "") # ""
    /\ UserServed(email, inbound, item.uri)
    /\ item.topology = "direct" => /\ RouteServed(inbound.transport, item.uri)
                                   /\ SecurityServed(inbound.security, item.uri)

\* An entry of the User in the inbound.
EntryOf(email, inbound, user) ==
    ~user.reverse /\ user.email = email /\ \E k \in DOMAIN inbound.users : inbound.users[k] = user

\* The profile of an inbound, when there is one: an advertisement that passed
\* every check, and a link with its values.
LEMMA AdvertisedItem ==
    ASSUME NEW email, NEW inbound, NEW user, NEW ad, IsAdvertisement(ad),
           IsInbound(inbound), EntryOf(email, inbound, user),
           EvaluateAdvertised(email, inbound, user, ad).status = "available"
    PROVE  /\ EvaluateAdvertised(email, inbound, user, ad).tag = ad.id.tag
           /\ Connects(email, inbound, EvaluateAdvertised(email, inbound, user, ad))
<1> DEFINE flow == IF user.flow # "" THEN user.flow ELSE inbound.flow
           item == BuildAvailable(email, UUID[user.id], flow, ad)
           t == ad.transport
           a == ad.security
           s == CanonicalSecurity(a)
<1>1. \A tag, name, reason : Unavailable(tag, name, reason).status = "unavailable"
  BY DEF Unavailable
<1>2. /\ ad.valid /\ ~InvalidClientValues(ad) /\ UUID[user.id] # ""
      /\ a.type \in SupportedSecurity /\ a.type # "none"
      /\ DefaultNone(inbound.decryption) = "none"
      /\ ad.topology = "direct" =>
            /\ inbound.transport.type \in DOMAIN CanonicalInboundTransport
            /\ inbound.security.type \in DOMAIN CanonicalInboundSecurity
            /\ DirectMatch(inbound, ad)
      /\ EvaluateAdvertised(email, inbound, user, ad) = item
  BY <1>1 DEF EvaluateAdvertised
<1>3. /\ a.type \in {"tls", "reality"} /\ {"type", "serverName", "verifyName", "shortID"} \subseteq DOMAIN a
      /\ a.serverName \in DOMAIN Canonical
  BY <1>2 DEF SupportedSecurity, IsAdvertisement
<1>4. s.type = a.type /\ s.shortID = a.shortID /\ s.serverName = Canonical[a.serverName]
  BY <1>3 DEF CanonicalSecurity
<1>5. Canonical[ad.host] # "" /\ Canonical[a.serverName] # ""
  BY <1>2, <1>3 DEF InvalidClientValues
<1> HIDE DEF s
<1>6. /\ item.tag = ad.id.tag /\ item.topology = ad.topology
      /\ item.uri.id = UUID[user.id] /\ item.uri.host = Canonical[ad.host]
      /\ item.uri.query = Query(flow, t, s)
  BY DEF BuildAvailable, s
<1> HIDE DEF item, flow
<1>7. Reads(item.uri, flow, t, s)
  BY <1>6, QueryReads
<1>8. /\ Read(item.uri, "sni", "") # "" /\ Read(item.uri, "flow", "") = flow
      /\ Read(item.uri, "encryption", "unread") = "none"
  BY <1>4, <1>5, <1>7 DEF Reads
<1>9. UserServed(email, inbound, item.uri)
  <2>1. PICK k \in DOMAIN inbound.users : inbound.users[k] = user
    BY DEF EntryOf
  <2> QED
    BY <1>2, <1>6, <1>8, <2>1 DEF UserServed, flow, EntryOf
<1>10. ASSUME item.topology = "direct"
       PROVE  RouteServed(inbound.transport, item.uri) /\ SecurityServed(inbound.security, item.uri)
  <2>1. MatchesTransport(inbound.transport, t) /\ MatchesSecurity(inbound.security, a)
    BY <1>2, <1>6, <1>10 DEF DirectMatch
  <2>2. /\ t.type = "grpc" => IsService(t.service)
        /\ IsService(inbound.transport.service) /\ IsSecurity(inbound.security)
    BY <1>2 DEF IsAdvertisement, IsInbound
  <2>3. RouteServed(inbound.transport, item.uri)
    BY <1>2, <1>6, <1>10, <2>1, <2>2, TransportMatches
  <2>4. SecurityServed(inbound.security, item.uri)
    <3>1. inbound.security.type \in DOMAIN CanonicalInboundSecurity
      BY <1>2, <1>6, <1>10
    <3>2. item.uri.query = Query(flow, t, s) /\ a.type \in {"tls", "reality"}
      BY <1>3, <1>6
    <3>3. a.serverName \in DOMAIN Canonical /\ Canonical[a.serverName] # ""
      BY <1>3, <1>5
    <3> HIDE DEF t, a
    <3> QED
      BY <1>4, <2>1, <2>2, <3>1, <3>2, <3>3, SecurityMatches
  <2> QED
    BY <2>3, <2>4
<1> QED
  BY <1>2, <1>5, <1>6, <1>8, <1>9, <1>10 DEF Connects

\* The one position of a list that is not repeated.
LEMMA OnlyOne ==
    ASSUME NEW S, NEW k \in S, ~Several(S)
    PROVE  S = {k} /\ Cardinality(S) = 1 /\ (CHOOSE j \in S : TRUE) = k
<1>1. S = {k}
  BY DEF Several
<1>2. Cardinality({k}) = 1
  BY FS_Singleton
<1> QED
  BY <1>1, <1>2

\* What the inbound at a position of a parsed config is evaluated with.
Checked(ads) == \A k \in DOMAIN ads : IsAdvertisement(ads[k])
Sharing(view, i) == {k \in DOMAIN view : view[k].tag = view[i].tag}
Selected(ads, view, i) == {k \in DOMAIN ads : ads[k].id.tag = view[i].tag}
OneOfEach(view, i, ads) ==
    Sharing(view, i) = {i} /\ \E k \in DOMAIN ads : Selected(ads, view, i) = {k} /\ ~Duplicate(ads, k)

\* An available profile is that of one inbound, one entry of the User in it,
\* and one advertisement.
LEMMA AvailableItem ==
    ASSUME NEW email, NEW view, NEW i \in DOMAIN view, NEW ads, NEW sources, NEW item,
           MatchingUsers(email, view[i]) # {}, IsConfig(view), Checked(ads),
           item = EvaluateInbound(email, view[i], Sharing(view, i), ads, Selected(ads, view, i), sources),
           item.status = "available"
    PROVE  item.tag = view[i].tag /\ OneOfEach(view, i, ads) /\ Connects(email, view[i], item)
<1> DEFINE inbound == view[i]
           users == MatchingUsers(email, inbound)
           user == inbound.users[CHOOSE k \in users : TRUE]
           sharing == Sharing(view, i)
           selected == Selected(ads, view, i)
           ad == ads[CHOOSE k \in selected : TRUE]
<1>1. \A tag, name, reason : Unavailable(tag, name, reason).status = "unavailable"
  BY DEF Unavailable
<1>2. /\ ~Several(sharing) /\ ~Several(selected) /\ ~Several(users) /\ ~user.reverse
      /\ selected # {}
      /\ item = EvaluateAdvertised(email, inbound, user, ad)
  BY <1>1 DEF EvaluateInbound
<1>3. PICK u \in users : user = inbound.users[u] /\ u \in DOMAIN inbound.users /\ user.email = email
  BY DEF MatchingUsers
<1>4. PICK k \in selected : ad = ads[k]
  BY <1>2
<1>5. selected = {k} /\ k \in DOMAIN ads /\ ads[k].id.tag = inbound.tag
  BY <1>2, <1>4, OnlyOne DEF Selected
<1>6. sharing = {i}
  <2>1. i \in sharing
    BY DEF Sharing
  <2> QED
    BY <1>2, <2>1, OnlyOne
<1>7. ~Duplicate(ads, k)
  BY <1>5 DEF Duplicate, Selected
<1>8. IsAdvertisement(ad) /\ IsInbound(inbound)
  BY <1>4, <1>5 DEF IsConfig, Checked
<1> HIDE DEF user, ad, users
<1>9. item.tag = ad.id.tag /\ Connects(email, inbound, item)
  <2>1. EntryOf(email, inbound, user)
    BY <1>2, <1>3 DEF EntryOf
  <2>2. EvaluateAdvertised(email, inbound, user, ad).status = "available"
    BY <1>2
  <2> HIDE DEF inbound
  <2>3. IsAdvertisement(ad) /\ IsInbound(inbound)
    BY <1>8
  <2>4. /\ EvaluateAdvertised(email, inbound, user, ad).tag = ad.id.tag
        /\ Connects(email, inbound, EvaluateAdvertised(email, inbound, user, ad))
    BY <2>1, <2>2, <2>3, AdvertisedItem
  <2> QED
    BY <1>2, <2>4
<1> QED
  BY <1>4, <1>5, <1>6, <1>7, <1>9 DEF OneOfEach

\* The parses in the snapshots, and in a request, come from documents.
ProfileInv ==
    /\ IsConfig(snap["xray"].value.view)
    /\ Checked(snap["ads"].value)
    /\ request # Idle => IsConfig(request.xray.value.view)

LEMMA Profiled ==
    ASSUME SourcesInv, ProfileInv
    PROVE  URIConnects
<1> SUFFICES ASSUME request # Idle,
                    NEW i \in DOMAIN Collection(FALSE).items,
                    Collection(FALSE).items[i].status = "available"
             PROVE  LET item == Collection(FALSE).items[i]
                        view == request.xray.value.view
                        inbounds == {k \in DOMAIN view : view[k].tag = item.tag}
                        ads == {k \in DOMAIN snap["ads"].value : snap["ads"].value[k].id.tag = item.tag}
                    IN  /\ Cardinality(inbounds) = 1 /\ Cardinality(ads) = 1
                        /\ \A k \in ads : ~Duplicate(snap["ads"].value, k)
                        /\ item.uri.host # "" /\ Read(item.uri, "sni", "") # ""
                        /\ \A k \in inbounds :
                              /\ UserServed(request.email, view[k], item.uri)
                              /\ item.topology = "direct" =>
                                    /\ RouteServed(view[k].transport, item.uri)
                                    /\ SecurityServed(view[k].security, item.uri)
  BY Zenon DEF URIConnects
<1> DEFINE email == request.email
           sources == [xray |-> request.xray, ads |-> snap["ads"]]
           view == sources.xray.value.view
           value == sources.ads.value
           list == IF sources.ads.loaded THEN value ELSE << >>
           item == EvaluateInbound(email, view[i], Sharing(view, i), list, Selected(list, view, i), sources)
           items == [k \in Matching(email, view) |->
                        EvaluateInbound(email, view[k], Sharing(view, k), list,
                                        Selected(list, view, k), sources)]
<1>1. sources.xray = request.xray /\ sources.ads = snap["ads"]
  OBVIOUS
<1>2. Collection(FALSE).items \in {<< >>, items}
  <2>1. Collection(FALSE) = Evaluate(email, FALSE, sources)
    BY DEF Collection
  <2> HIDE DEF sources
  <2>2. Evaluate(email, FALSE, sources).items =
            IF ~sources.xray.loaded \/ Matching(email, view) = {} THEN << >> ELSE items
    BY DEF Evaluate, Sharing, Selected
  <2> HIDE DEF items
  <2> QED
    BY <2>1, <2>2
<1>3. Collection(FALSE).items = items
  <2>1. Collection(FALSE).items # << >>
    <3> DEFINE shown == Collection(FALSE).items
    <3>1. i \in DOMAIN shown
      OBVIOUS
    <3> HIDE DEF shown
    <3>2. shown # << >>
      BY <3>1
    <3> QED
      BY <3>2 DEF shown
  <2> HIDE DEF items
  <2> QED
    BY <1>2, <2>1
<1>4. i \in Matching(email, view) /\ Collection(FALSE).items[i] = item
  BY <1>3
<1>5. i \in DOMAIN view /\ MatchingUsers(email, view[i]) # {}
  BY <1>4 DEF Matching
<1>6. item.status = "available"
  BY <1>4
<1>7. IsConfig(view) /\ Checked(list)
  BY <1>1 DEF ProfileInv, Checked
<1> HIDE DEF item, view, list, value, items, email
<1>8. item.tag = view[i].tag /\ OneOfEach(view, i, list) /\ Connects(email, view[i], item)
  <2>1. item = EvaluateInbound(email, view[i], Sharing(view, i), list, Selected(list, view, i), sources)
    BY DEF item
  <2> HIDE DEF sources
  <2> QED
    BY <1>5, <1>6, <1>7, <2>1, AvailableItem
<1>9. list = value
  <2>1. << >> = list => DOMAIN list = {}
    OBVIOUS
  <2> QED
    BY <1>8, <2>1 DEF list, OneOfEach
<1>10. {k \in DOMAIN view : view[k].tag = item.tag} = {i}
  BY <1>8 DEF OneOfEach, Sharing
<1>11. PICK k \in DOMAIN value : {j \in DOMAIN value : value[j].id.tag = item.tag} = {k}
                                 /\ ~Duplicate(value, k)
  BY <1>8, <1>9 DEF OneOfEach, Selected
<1>12. Cardinality({i}) = 1 /\ Cardinality({k}) = 1
  BY FS_Singleton
<1> QED
  BY <1>3, <1>4, <1>8, <1>10, <1>11, <1>12 DEF Connects, view, value, email

\* A document that parses has what a profile reads.
LEMMA ParsedDocument ==
    ASSUME NEW s \in Sources, NEW v \in Parsed(s), NEW d \in Readable(s), FaultOf(s, d) = ""
    PROVE  /\ s = "xray" => IsConfig(Parse(s, v, d).view)
           /\ s = "ads" => Checked(Parse(s, v, d))
<1>0. d \in Documents(s) /\ d # Gone
  BY DEF Readable
<1>1. ASSUME s = "xray" PROVE IsConfig(Parse(s, v, d).view)
  <2>1. Parse(s, v, d).view = d.view
    BY <1>0, <1>1, ParseTypes
  <2>2. IsConfig(d.view)
    BY <1>1, ServicesAssumption, HostsAssumption, RealityNamesAssumption DEF IsConfig, IsInbound, IsSecurity
  <2> QED
    BY <2>1, <2>2
<1>2. ASSUME s = "ads" PROVE Checked(Parse(s, v, d))
  <2>1. Parse(s, v, d) = ParseRecords(d.records)
    BY <1>0, <1>2, ParseTypes
  <2>2. d.records # Unset
    BY <1>0, <1>2 DEF FaultOf, ParseFault
  <2>3. ASSUME NEW k \in DOMAIN d.records PROVE IsAdvertisement(ParseAdvertisement(d.records[k]))
    <3> DEFINE raw == d.records[k]
    <3>1. raw.transport.service = Unset \/ IsService(raw.transport.service)
      BY <1>2, <2>2, ServicesAssumption
    <3>2. {raw.host, raw.security.serverName} \subseteq DOMAIN Canonical \cup {Unset}
      BY <1>2, <2>2, HostsAssumption
    <3> HIDE DEF raw
    <3>3. IsAdvertisement(ParseAdvertisement(raw))
      BY <3>1, <3>2, ParsedAdvertisement
    <3> QED
      BY <3>3 DEF raw
  <2>4. Checked(ParseRecords(d.records))
    BY <2>3 DEF Checked, ParseRecords
  <2> QED
    BY <2>1, <2>4
<1> QED
  BY <1>1, <1>2

\* Only the swap of a document that parses moves the parse of a source.
LEMMA ValueMoves ==
    ASSUME SourcesInv, [Next]_vars, NEW s \in Sources
    PROVE  \/ snap'[s].value = snap[s].value
           \/ \E d \in Readable(s) : FaultOf(s, d) = "" /\ snap'[s].value = Parse(s, snap[s].value, d)
<1>1. ASSUME NEW r \in Sources, ReadFile(r) PROVE snap'[s].value = snap[s].value
  <2>1. snap' = snap \/ RecordFailure(r, "read_failed")
    BY <1>1 DEF ReadFile
  <2>2. "read_failed" \in Errors
    BY DEF Errors
  <2>3. CASE s = r
    BY <2>1, <2>2, <2>3, Recorded
  <2>4. CASE s # r
    BY <2>1, <2>2, <2>4, Recorded
  <2> QED
    BY <2>3, <2>4
<1>2. ASSUME NEW r \in Sources, Swap(r)
      PROVE  \/ snap'[s].value = snap[s].value
             \/ \E d \in Readable(s) : FaultOf(s, d) = "" /\ snap'[s].value = Parse(s, snap[s].value, d)
  <2>1. watcher[r].document \notin {Gone, Unconfigured} /\ watcher[r].document \in Documents(r)
    BY <1>2, Parts DEF Swap, Control
  <2>2. watcher[r].document \in Readable(r)
    BY <2>1 DEF Readable
  <2>3. CASE s = r
    BY <1>2, <2>1, <2>2, <2>3, Swapped
  <2>4. CASE s # r
    BY <1>2, <2>1, <2>4, Swapped
  <2> QED
    BY <2>3, <2>4
<1>3. \/ snap' = snap
      \/ \E r \in Sources : ReadFile(r) \/ Swap(r)
  BY DEF Next, vars, Work, Boot, Watch, WatchFails, Event, Fired, Save, EventLost, Follow,
         LoggerReceives, LogRosterChanges, ReportLoads, WarnUnknownInbounds, ReporterReceives,
         Detail, Answer
<1> QED
  BY <1>1, <1>2, <1>3

\* The snapshots and the request keep parses that a profile can be built from.
LEMMA ProfileStep == SourcesInv /\ ProfileInv /\ [Next]_vars => ProfileInv'
<1> SUFFICES ASSUME SourcesInv, ProfileInv, [Next]_vars PROVE ProfileInv'
  OBVIOUS
<1>1. IsConfig(snap'["xray"].value.view)
  <2> DEFINE v == snap["xray"].value
  <2>1. "xray" \in Sources /\ v \in Parsed("xray")
    BY Parts DEF Sources
  <2>2. CASE snap'["xray"].value = v
    BY <2>2 DEF ProfileInv
  <2>3. CASE \E d \in Readable("xray") : FaultOf("xray", d) = "" /\ snap'["xray"].value = Parse("xray", v, d)
    BY <2>1, <2>3, ParsedDocument
  <2> QED
    BY <2>1, <2>2, <2>3, ValueMoves
<1>2. Checked(snap'["ads"].value)
  <2> DEFINE v == snap["ads"].value
  <2>1. "ads" \in Sources /\ v \in Parsed("ads")
    BY Parts DEF Sources
  <2>2. CASE snap'["ads"].value = v
    BY <2>2 DEF ProfileInv
  <2>3. CASE \E d \in Readable("ads") : FaultOf("ads", d) = "" /\ snap'["ads"].value = Parse("ads", v, d)
    BY <2>1, <2>3, ParsedDocument
  <2> QED
    BY <2>1, <2>2, <2>3, ValueMoves
<1>3. \/ request' = request \/ request' = Idle
      \/ request'.xray = snap["xray"]
  <2>1. ASSUME NEW email, Detail(email) PROVE request'.xray = snap["xray"]
    BY <2>1 DEF Detail
  <2>2. ASSUME Answer PROVE request' = Idle
    BY <2>2 DEF Answer
  <2>3. \/ request' = request
        \/ Answer \/ \E email \in Users : Detail(email)
    BY DEF Next, vars, Work, Boot, ReadFile, Swap, Watch, WatchFails, Event, Fired, Save, EventLost,
           Follow, LoggerReceives, LogRosterChanges, ReportLoads, WarnUnknownInbounds,
           ReporterReceives
  <2> QED
    BY <2>1, <2>2, <2>3
<1>4. request' # Idle => IsConfig(request'.xray.value.view)
  BY <1>3 DEF ProfileInv
<1> QED
  BY <1>1, <1>2, <1>4 DEF ProfileInv, Idle

(* A share link that the page shows works: whatever the two documents hold   *)
(* (a REALITY inbound lists its server names in their canonical form),       *)
(* however they are edited between the two reads of a request, an available  *)
(* profile names one inbound and one valid advertisement of the parses that  *)
(* were read, and a client that follows its link gets past every check the   *)
(* inbound makes, as that User.                                              *)
THEOREM LinksConnect == Spec => []URIConnects
<1>1. Init => ProfileInv
  <2> SUFFICES ASSUME Init PROVE ProfileInv
    OBVIOUS
  <2>1. snap["xray"].value = NoParse /\ snap["ads"].value = << >> /\ request = Idle
    BY DEF Init, Sources
  <2>2. NoParse.view = << >> /\ DOMAIN << >> = {}
    BY DEF NoParse
  <2> QED
    BY <2>1, <2>2 DEF ProfileInv, IsConfig, Checked
<1>2. SourcesInv /\ ProfileInv => URIConnects
  BY Profiled
<1> QED
  BY <1>1, <1>2, ProfileStep, SourcesAlways, PTL DEF Spec
=============================================================================
