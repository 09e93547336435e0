# Formal model of xform

xform is a one-node panel beside an xray server: a Go program that shows who
uses the server and lets an operator manage its users. This directory holds a
TLA+ model of the parts where things go wrong quietly.

- The *roster write path*: a mutation is stored in SQLite, rendered into the
  xray config file, pushed to the running xray over gRPC, retried when it
  fails, and reconciled with config files that other tools edit. Several
  goroutines take part, nothing serialises the HTTP requests, the queue lives
  in memory, and the panel's one promise is the word `synced` in its header.
- The *traffic accounting*: xray's counters, which start from zero whenever
  xray does, become durable totals, over failed writes, restarts on both sides
  and users who are erased meanwhile.
- The *surgery on the config text*: a render is a handful of edits of spans in
  a document that a person wrote, comments, trailing commas and all.
- The *watched sources*: two files that anybody may save at any time, the
  goroutines that follow them, and the connection profiles made of the pair.
- The *log snapshots*: one journalctl child at a time, with two pipes, caps, a
  deadline and callers that leave, behind the Panel's admission.
- The *Unix socket*: processes that stop, start and die around one path,
  without a lock.

## 1. Inventory

| component | state | operations | interacts with |
|---|---|---|---|
| roster service (`internal/roster/service.go`, `render.go`) | pending changes by email with generations, failed marks, kick channel, settle broadcast | `Add`, `Edit`, `Disable`, `Enable`, `Delete`, the loop `run` (`recoverDeletes`, `apply`, `retry`, `converge`), `Sync` | store (SQL), config file (render), watcher (view, notifications), xray (pushes), status cache |
| users store (`internal/users/store.go`) | tables `roster` and `users`, totals, presence | roster transactions, `ApplyPoll` (totals, labels, adoption), reads | service, collector, API |
| collector (`internal/users/collector.go`) | last counters, pending roster sample, live speeds | a poll: sample, query xray, flush | watcher, xray, store |
| config watcher (`internal/filesource`, `internal/xrayconfig/watcher.go`) | last good parse, its error and staleness, versions, subscribers | watch, debounced reload, notify | config file, service, collector, advertisements |
| config parse, view, render (`internal/xrayconfig`) | none | parse clients, inbound view, surgery on the JSONC text | watcher, service |
| xray gRPC client (`internal/xraygrpc`) | connection | `AddUser`, `RemoveUser`, statistics queries | service, collector |
| traffic reconcile (`internal/reconcile`) | none | counters and resets to deltas | collector |
| snapshot cache, xray status (`internal/snapshot`, `internal/xraystatus`) | last value, in-flight refresh | single-flight refresh | API, service |
| authentication, sessions (`internal/auth`, `internal/session`) | session tokens with expiry | login, logout, admission | API |
| listener (`internal/listener`) | directory entries, the socket and its identity | probe, move aside and remove a stale socket, bind, link, close | main, other Panel processes |
| advertisements (`internal/advertisements`) | last good document | validate records, warn about unknown inbounds | watched source, config watcher, profiles |
| profiles (`internal/profiles`) | none | evaluate a User's inbounds, make share links | both sources, API |
| journal (`internal/journal`) | the process slot, a child, its pipes | `Collect` | API, journalctl |
| config snapshot, host statistics, GeoIP, configuration, logging | little or none | reads | API |
| web dashboard (`web/src`), deployment (`deploy/`) | browser state; shell scripts | polling; installation | API |

What is hard here, and what must be right:

- *Handlers against handlers*: a mutation reads a row, takes the unfinished
  change of its user from the queue, stores, queues. Every arrow of that chain
  is a place where another request, or the loop, runs.
- *Handlers against the loop*: a pass works on a snapshot of the queue without
  the mutex; a generation number decides whether the change it just pushed is
  still the one in the queue.
- *Plans on plans*: a change that failed half way may have reached the file,
  xray, both, or neither. The next mutation of the user merges it into its own
  plan (`diffOps`, the tag sets of `Disable` and `Delete`).
- *Store against file*: the file is edited by hand and by ansible. New clients
  are adopted into the store, lost ones are rendered back, inbounds that went
  are pruned; each works on a copy read earlier.
- *Crashes*: the queue is memory. Deletes alone are recovered at the start.
- *Wake-ups*: the loop sleeps on a one-slot channel, a notification and a status
  poll.
- *Counters that reset*: a smaller reading means that xray restarted, the first
  reading of a process is a baseline or a seed, a failed write carries its
  deltas over; each wrong turn counts bytes twice or loses them.

- *Spans that meet*: edits of one document are planned against the text as it
  was, and spliced one after the other.
- *Files that change under the reader*: a save between an event, a debounce, a
  read and a swap; a request that reads two sources, one after the other.
- *A child with two pipes*: it blocks when either is full, it may hang, be
  killed at a cap, at the deadline or for its caller, or leave a pipe to others.
- *A name without a lock*: probing, moving, comparing and removing a socket are
  separate system calls, and another process is between any two.

PROJECT.json lists these hazards at their lines, with the properties aimed at
them.

## 2. Modules

| module | models |
|---|---|
| `Roster` | the tables and their transactions, the plans (`DiffOps`, `DisableOps`, `DeleteOps`), rendering and pushing, as operators |
| `RosterService` | the state machine: handlers, loop, watcher, collector, environment; the properties |
| `MCRosterService` | constants for TLC |
| `RosterServiceProofs` | type correctness, with the lemmas about the operators; wake-ups, generations, the delete mark, disabled users |
| `RosterRestProofs` | what `synced` means after requests that come one at a time: attachments, Client IDs, disabled and purged users, failed marks |
| `RosterStoreProofs` | the tables: unique Client IDs, the users rows |
| `RosterConvergeProofs` | hand edits that are adopted or reverted: store and file agree at rest |
| `Reconcile` | `reconcile.Tracker`, as operators |
| `Collector` | the state machine of the traffic accounting: a poll, purges, restarts; its properties |
| `MCCollector` | symmetry for TLC |
| `CollectorProofs` | types, no double count, nothing dropped, purges that hold |
| `RenderPlan` | what a plan asks of one clients array, and what it means for a list of clients |
| `ClientsArray` | the abstract specification of a render: a list of clients that plans are applied to |
| `RenderSpans` | `xrayconfig.RenderClients` on tokens: the scan, the planners, the splice; it implements `ClientsArray` |
| `Advertisements`, `Profiles` | validation of advertised settings; `profiles.Evaluate` and the share link, as operators |
| `Sources` | both watched sources, their followers and the user detail request |
| `SourcesProofs` | quiet watchers, versions, links that connect |
| `MCSources` | documents for TLC |
| `Sessions` | Password Sessions and the trusted assertion |
| `Journal` | log requests, `Reader.Collect`, its goroutines and its child; on top of `Sessions` |
| `JournalProofs` | one child, clean results, reasons, refused Sessions |
| `MCJournal` | assertion headers for TLC |
| `UnixListener` | `listener.Listen` and `Close` of several processes on one directory |
| `UnixListenerProofs` | types, live sockets, foreign objects |

Sections "State" to "Abstractions" are about the roster; the other parts follow them.

### State

| variable | code |
|---|---|
| `roster`, `users` | the SQLite tables: present, Client ID, attachments, `disabled`, `deleting`; and the disabled mark of the dashboard row |
| `file`, `xray` | the config on disk and the running server: the Client ID, if any, of each email in each managed inbound |
| `parse`, `dirty`, `changes` | the watcher's last parse, a file event not yet loaded, the loop's notification channel |
| `fresh`, `sampled` | the roster version moved since the last poll, `Collector.pendingRoster` |
| `pending`, `failed`, `nextGen`, `kick` | the fields of `Service` |
| `lpc`, `lastRunning`, `thenConverge` | where the loop is, the status it last saw, whether the convergence of a watch fire follows the pass |
| `snap`, `doc`, `todo`, `cur`, `left` | the locals of `apply`: snapshot, rendered document, users and operations to go |
| `recs`, `cdoc` | the locals of `recoverDeletes` and `converge` |
| `hpc`, `req` | the program counter and the locals of each request |
| `spent` | what the environment used of its bounds |

### Actions

One action per atomic step: one SQL read or transaction, one critical section of
`Service.mu`, one read or rename of the file, one gRPC call.

- Requests: `Add`, `Edit`, `Rotate` (an edit without a selection), `Disable`,
  `Delete` and `Enable` are what a request does up to its first write;
  `EditCheck` and `EditWrite` the reads and the transaction of `EditRosterUser`;
  `EditTake`, `DisableTake` and `DeleteTake` are `takePending` and the plan;
  `DisableStore`, `DeleteRead`, `DeleteMark` and `EnableStore` the other store
  calls; `Enqueue` and `Kick` the two halves of `enqueueGen`.
- Loop: `Boot`, `RecoverDelete`, `Recovered`; `LoopKick`, `LoopChange` and
  `LoopTick` are the cases of the select; `ApplySnapshot`, `RenderRead`,
  `RenderWrite`, `PassPick`, `Push`, `PushFails`, `Settle`, `PassDone` one pass;
  `ConvergeRead` to `Converged` one convergence: parse, inbound view and records are
  read one after the other (`ConvergeRead`, `ConvergeView`, `ConvergeList`).
- Around them: `Reload` (watcher), `Sample` and `Flush` (collector).
- Faults: `RenderFails`, `PushFails`, `PurgeFails`, `StoreFails` and
  `LoopStoreFails` follow the error paths of the code; `HandEdit`, `XrayStop`,
  `XrayStart` and `Crash` are the world.

### Abstractions

- An email, a tag and a Client ID are model values; the document is the map from
  inbounds and emails to Client IDs. Labels, flows and timestamps are dropped. The no-op probe of an
  edit compares labels too, so it is a free choice where the modelled fields are equal.
- A render is its effect on entries (`RenderEntry`): an append does not rewrite
  an entry, a removal of an absent one is nothing. The surgery on the text is `RenderSpans`.
  This is what the code does where the edits of a render compose, and not where one render
  removes the last two entries of an array (`render_overlap`) or its only one beside an append.
  The arrays are therefore taken to hold a client that is not among `Emails`, behind the
  enrolled ones: it takes two re-appended users to make the last two entries `Emails`, and the
  three mutations of `roster_switches`, the one run with two users, do not re-append two. The
  theorems about any number of users assume renders that compose.
- xray answers an add of a known email "already exists" and a removal of an
  unknown one "not found", and the pusher reads both as success. A push that
  errors may have been applied, in full, in part (a rotate's removal) or not.
- An operation has one of each inbound at most; detaches come before the
  others, as in the code; the others come in any order. Where an email's entries
  differ in their Client IDs, the adopted one is that of a fixed inbound.
- Reads with no write between them and nothing to race with are one step: the
  reads of `EditRosterUser`; the view read of `Add` and `Enable` with
  the transaction; the queue write and the kick of the loop itself (it is the one receiver).
- The cached status is read as the real one, at the moments the ticker chooses;
  status errors are left out. A reload always parses here; `Sources` has the others.
- A request's bounded wait for its result (`waitSettled`) changes no shared
  state and is left out.
- `Spaced` is a model of the operator, not of the code: when TRUE, requests and
  hand edits come only while the panel is at rest. The runs that ask what a
  *sequence* of mutations and failures leaves behind use it; the runs about
  interleavings do not.
- `Adoption` switches the collector, which `main.go:97` always wires. `roster_edits`,
  `roster_converge` and `roster_restarts` have it on. `roster_switches` has it off because a poll
  can bring back a user whom a retry after the outage is deleting (section 3), and every property
  of the run is about users as the mutations left them. `roster_concurrent` has it off for
  size; its four properties are proved for either value. In `converge_disable` it plays no part.

### The collector

`counters` is what xray reports, `rows` the totals of the users table (both may
lack a user), `trackers`, `seeded` and `pending` are the collector's maps, `cpc`,
`raws`, `existing` and `deltas` the program counter and the locals of `Collect`,
`purging` the user of the roster loop's `finishDelete`. `carried`, `due`,
`undisturbed` and `gone` are history, which no action reads but to update history: the bytes xray ever
counted for a user; those that the readings of this process credited (with what
the row had when the process, or the purge, began); whether a poll or new
traffic came between the two steps of the purge; who was purged without one.

A poll is `PollQuery` (the counters), `PollRead` (`ExistingEmails`), `PollTrack`
(the critical section that moves the trackers, fills `pending` and copies it),
`PollWrite` (`ApplyPoll`) and `PollClear`; `PollFails` is an error of the read
or of the transaction. A purge is `Purge` (the collector's memory) and
`PurgeRow` or `PurgeFails` (the store). `AddRow` is any write that gives a user
a row without traffic: an Add, or the labels of a config parse. `Count`,
`RemoveCounter` and `XrayRestart` are xray; a removed user's counter may stay.

One direction of traffic is modelled, since up and down have trackers and
columns of their own and share only the seeded mark. A poll whose query fails
changes nothing here. Polls do not overlap: `snapshot.Cache` holds `refreshMu`
over each. Byte counts are unbounded naturals: the unsigned 64-bit counters
wrap after more bytes than a link moves in the life of a host. Emails are compared as
they are, although the purge's SQL folds case.

### The render

A document is a sequence of tokens: what precedes the array, its brackets, and
for each entry a brace that carries the email, the id if there is one and the
closing brace; commas and line breaks are tokens of their own. Offsets are
positions, so a span has a width and an edit can reach too far. `Edits` is what
`RenderClients` plans for one inbound, `RenderClients` sorts and splices from
last to first. `Begin` takes a plan, `Render` replaces the document. Other keys
of an entry and comments move with the tokens around them and are left out; so
are the other inbounds, whose spans are elsewhere, and the indentation.

`ImplementsPlan` is the refinement: with `clients <- Parsed(doc)`, every step
of `RenderSpans` is a step of `ClientsArray`, which knows no text. `Roster` uses
the same meaning entry by entry (`RenderEntry`).

### The watched sources

A `filesource.Watcher` is one goroutine: `Boot`, `ReadFile`, `Swap` (parse and
swap, one critical section), `Watch` or `WatchFails`, then `Event` (which arms the
debounce) and `Fired`. `snap` is what `Snapshot()` returns, `slots` the
one-slot channels. `LoggerReceives`, `LogRosterChanges` and `ReporterReceives`,
`ReportLoads`, `WarnUnknownInbounds` are the followers; `Detail` and `Answer` the
request, which reads one source at each. `Save` and `EventLost` are the world.
`missed` is history: a save that no event can report.

A document is the record it decodes to, with marks for what strict decoding
rejects (`json`, `object`, `strict`). A host is a name with a canonical form, if it has one
(`Canonical`), and a form without the case of its letters (`Fold`); a Client ID has a UUID
(`UUID`). Keys, short ids and paths are tokens; `"bad"` is one that does not decode, and
`"refused"` stands for extra settings that pass the Panel's own check and not the
canonicalisation library. The roster's labels convert protocol, security, flow and network as
the code does, so that an edit which only respells one of them moves no version. A share link is the record of
its parts: its percent encoding is left out. Load times and messages are left out.
`RouteServed`, `SecurityServed` and `UserServed` are xray's own checks, written
from what `directMatch` claims to anticipate; for xhttp's mode, whose match in
xray is wider, they are no stricter than the Panel. REALITY takes a server name only as it
is listed.

### Log snapshots and Sessions

The handler goes from `Admit` over `TakeSlot` and `StartChild` to the loop of `read`
(`Refill`, `DecodeRecord`, `EndOfStdout`), `AwaitStderr`, `Wait` and `Collected`.
The drain of stderr (`DrainReads`, `DrainEnds`) and the watch goroutine
(`WatchKills`) are their own processes, `Deadline` and `CallerLeaves` the two
contexts, and `Write`, `Resume`, `Exit` and `Hang` the child. Pipes hold `PipeCap`
items. A record is small, bigger than the stdout cap, or bad; one that a kill
cut short is `"torn"`. The denial text, if any, is the first diagnostic.
The decoder's buffer is what one refill took from the pipe.

A Session is the ticks until it expires, so that time has no end and no bound;
`idle` counts the ticks since its last use, up to a lifetime. Time passes and
logins come while no request is in flight: a Session lives for hours, a request
for seconds. Requests of one Session still interleave with each other.

### The Unix socket

`dir` maps names to objects, `sock` an inode to the state of its socket. A
process goes through `Prepare`, `Probe`, `Detach`, `Reprobe`, `Restore` or `Remove`
to `Bind`, `Listen`, `Link`, `Tidy`; `Close` and the failures after the link take
the same `Detach` to the end. `role` tells the two apart. `Crash` leaves the
directory as it is; a socket that is closed is its process's no longer. `ListenFails`,
`TidyFails` and `CallFails` are the errors of the system calls: most end the start or the close
and leave what was moved aside, or the temporary name of the bind, where it is. A temporary
name is any that no object lies under. The checks on the parent directory and on the owner are
taken as passed, and the eight attempts at a fresh name as one.

## 3. Properties and runs

`Synced` is what `Sync()` answers, `Quiet` that no goroutine has anything left
to do on its own; the pair is what an operator who sees a green header takes for
granted.

The runs use `CHECK_DEADLOCK FALSE`: an idle panel waits for requests, saves or starts that the
bounds on the environment end, so it really stops.

| run | question | properties |
|---|---|---|
| `roster_edits` | what do up to four adds, edits and deletes of a user leave behind, over two failing renders, pushes or purges, the collector adopting | `SyncedAttachments`, `FailedIsOwed`, `PurgeLeavesNothing` |
| `roster_switches` | which credential is in force, and is a disabled user out, after two users are disabled, enabled, deleted, added and rotated over a half-landed push and an outage of xray | `SyncedCredentials`, `UniqueClientIDs`, `DisabledIsOut`, `DisabledNotRejoining`, `UsersFollowRoster` |
| `roster_converge` | do store and file come to agree after two hand edits between mutations, with the collector adopting | `StoreAndFileAgree`, `StoreWins` |
| `roster_restarts` | do stored deletes complete and queued changes get their turn, with the panel dying twice anywhere, the collector adopting | `DeleteCompletes`, `QueuedIsAttempted` |
| `roster_concurrent` | two requests at once, each a revive, an edit, a disable or a delete, against a hand edit, its convergence and a store error | `TypeOK`, `WakeupOwed`, `GenerationNamesChange`, `DeleteIsFinal` |
| `collector_polls` | do the durable totals stay right, over a failed write, a restart of xray and of the panel and a purge, at any step of a poll | `TypeOK`, `NeverOvercounts`, `NothingDropped`, `PurgedStaysGone` |
| `render_spans` | does the text come out right for every small array, layout and composable plan, and once more on the result | `DocumentParses`, `RetryWritesNothing`, `EditsDisjoint`, `ImplementsPlan`, `NoDanglingComma` |
| `sources` | do snapshots and followers end at the files, over two saves and a fault; is a share link one that xray serves, over the corpus | `QuietReflectsFile`, `VersionNamesRoster`, `URIConnects`, `ChangeIsLoaded`, `FollowersCatchUp` |
| `journal` | what do floods, blocked pipes, hangs, kills and leaving callers make of two requests | `OneChild`, `CleanIsComplete`, `ReasonIsTheChilds`, `IdleOrOutIsRefused`, `CollectEnds` |
| `unix_listener` | who owns the name after four starts of two processes, closes, a crash, a failure and a foreign object | `TypeOK`, `LiveIsNeverLost`, `OneServes`, `ForeignKept`, `StartSucceeds` |

The comments in the modules state each property in words. Each of them has a
mutant, a definition just before the one it changes which the specification does not use: the bug
that the property catches in that run (a forgotten detach, a bare add for a rotate, a settle that
ignores generations, entries appended without a comma, a reload that eats the event of a later save, a slot
freed before the child is reaped, a link over a taken name ...). PROJECT.json pairs them.

### Bounds

One user is enough wherever users do not meet; they meet only in the uniqueness
of Client IDs (`roster_switches` has two users and three Client IDs, so that a
free one is left to rotate to). Two inbounds are the least at which a plan can
treat tags differently, and the least for a partly applied change; the runs
about interleavings, which are about the queue and the flags, have one. Two
Client IDs tell the old credential from the new. `MaxMutations` is the length
of a sequence: three are needed for a merge of a merge (fail, supersede, fail,
supersede), four are used. The other `Max...` constants count the faults of each
kind; `spent` counts them. No symmetry is used in the roster runs.

`collector_polls` has two interchangeable users (`UserSymmetry`; no property is
temporal), so that one is purged while the other is polled, and three bytes: one to be
read, one to come between reading and writing, one after a reset, which is also what it takes for a reset
counter to pass its last reading. One fault of each kind, in every order.

`render_spans` has three emails and up to three entries: the first, a middle and
the last, or the only one; two ids, so that a set changes something. Two
renders show what the first one's layout does to the next. `sources` edits the
files twice (a save during a reload, and one after it) in all ways of
`MCEdited`; its corpus, which is not edited, has every pair of an inbound and a
record that is one or two fields away from a pair that works, and reaches every
reason of `evaluateInbound`. `journal` has caps of one and two, so that two
records and three diagnostics pass every one of them; the fourth diagnostic is the one that
blocks. Two requests are the least for the slot, for a Session used by two and
for a logout against a request. `unix_listener` has two processes and four
starts: one that dies, its successor and one that overtakes; temporary names
and inodes are enough for all of them.

### Where the promise does not hold

Two runs are expected to fail. Each checks one property of the list against a
sentence of the repository which PROJECT.json
quotes under "findings"; TLC's trace is the scenario.

| run | scenario |
|---|---|
| `converge_disable` | convergence checks that the user is live (`enqueueIfLive`) and releases the mutex; Disable stores and queues; convergence queues its attach over it |
| `render_overlap` | one render removes the last two entries of an array: both edits claim the comma between them, and the second cuts text behind the array |

The passing runs are bounded so as not to meet these: `roster_edits` and
`roster_switches` keep apart `Edit` and `Disable`, which together drop an owed detach
(`Kinds`); `roster_switches` has no `Edit` with a selection;
`roster_converge` is `Spaced`; `render_spans` leaves out the plans that do not
compose (`Composable`). The same modules show the following, which no run
lists. Change the constants named to see them.

- An Edit drops an inbound, its apply fails, then Disable: the detach the Edit
  still owed is not carried over, and the user stays attached there, although
  `service.go:408` says "rendered out of every inbound that might still carry
  them (including an unfinished change's tags)" (`DisabledIsOut`; `Kinds`
  `{"edit", "disable"}`, two inbounds, one failure).
- A rotate fails, then the detach of a Disable fails too, then Enable: it queues a bare
  add without a look at the unfinished change (`service.go:510`), and the old credential
  stays (`SyncedCredentials`; `Kinds` `{"rotate", "disable", "enable"}`, one inbound, two
  Client IDs, two failures). `roster_switches` has one failure.
- A pass that retries after an outage of xray can run beside a request that found the
  panel at rest just before, and the convergence that follows can queue its attach over a
  Disable, as in `converge_disable` (`DisabledNotRejoining`; `Kinds` `{"add","disable"}`,
  two users, `Spaced`, one restart of xray, two failures).
- The transaction of a prune writes back the Client ID it read, and marks the user live:
  beside a request it can undo a new Client ID, or the mark of a Disable
  (`UsersFollowRoster`; `Kinds` `{"disable"}`, `Spaced = FALSE`, one hand edit).
- An Edit drops an inbound, its apply fails, and another Edit takes it back with
  a new Client ID: a bare add, and the old credential stays (`service.go:610`;
  `SyncedCredentials`; `Kinds` `{"edit"}`, two inbounds, two Client IDs, one failure).
- A poll samples the parse, a Delete is applied and purged, the poll flushes: the
  user is on the roster again, although `service.go:459` says "Nothing keyed by
  the email remains" (`StoreAndFileAgree`; `Kinds` `{"delete"}`, `Spaced = FALSE`,
  `Adoption = TRUE`).
- The same with requests and hand edits that find the panel at rest: a delete whose render
  failed is retried on the watch fire of a hand edit, a poll samples the parse before the
  retry's reload and flushes after the purge (`StoreAndFileAgree`; the constants of
  `roster_converge` with `MaxFailures = 1`; an outage of xray does it too).
- The same with an outage of xray between mutations: a rotate whose render failed is
  retried beside a Delete, the poll samples the parse with the new Client ID and flushes
  it after the purge, and the row that comes back is in no file (`SyncedCredentials`; the
  constants of `roster_switches` with `Adoption = TRUE`).
- A hand edit gives a client that the roster does not know the Client ID of another
  user, and adoption stores it: `adoptClients` checks nothing, and its comment
  (`store.go:787`) leaves uniqueness to the mutations (`UniqueClientIDs`; two users, one
  of them enrolled, `Adoption = TRUE`, one hand edit, no mutation).
- Convergence queues its attach over a *Delete* that stored and queued since the
  listing: the purge is gone until a restart (`DeleteCompletes`; `Kinds`
  `{"delete"}`, `Spaced = FALSE`, one hand edit).
- Two Edits, one user each, can store one Client ID: the check is outside the
  transaction (`UniqueClientIDs`; two users, two handlers, `Spaced = FALSE`).
- Add (as a revive) and Enable do not look at the unfinished change that they
  replace, so that a detach it owed is lost (`SyncedAttachments`; `Kinds` with
  `"revive"` or `"enable"`, two inbounds, one failure).
- A crash between Disable's store and its apply leaves the user in the file:
  only deletes are recovered (`DisabledIsOut`, `MaxCrashes = 1`). With the
  collector off, as there, nothing else takes the client out.
- A store error after `takePending` leaves the failed mark without a change
  (`FailedIsOwed`, `MaxStoreFailures = 1`).
- A push that failed waits for a restart of xray that the status poll *sees*, a
  watch fire or a new mutation. An outage that begins and ends between two polls is none of them
  (`DeleteCompletes` with `MaxRestarts = 1`, also with fairness of `XrayStart` added).
- An Enable that read the disabled row before a Delete marked it clears the
  `disabled` flag of a deleting row. The mark itself survives (`DeleteIsFinal`, proved).
- A store error of `recoverDeletes` leaves the interrupted deletes until another
  restart, though its log line (`service.go:783`) says "their purge retries on
  the next watch fire": a fire retries queued changes and converges live rows
  (`DeleteCompletes` with `MaxCrashes`, `MaxStoreFailures` and `MaxHandEdits` 1; the
  stronger "a deleting row and a served watch fire lead to the row's end" fails too).
- A purge between a poll's `PollTrack` and `PollWrite` erases the row, and the
  write inserts it again with the poll's delta (`PurgedStaysGone` without
  `undisturbed`); so does a poll after the purge if xray still reports the
  counter. The comment of `Collector.Purge` (`collector.go:263`) means to exclude
  the first.
- A user whose row was made by an Add, or by a config parse, before the
  collector first read its counter "resumes": what it moved before that reading
  is in no total. `NothingDropped` counts from the first reading.

- Removing the only entry while appending another leaves the comma of the append:
  `[, {new}]`. An append after a trailing comma whose closing bracket is on the line
  of the last entry goes before that entry (`DocumentParses`, `AnyPlan = TRUE`). Of two
  entries with one email a removal takes the last. A plan that only removes
  gives an inbound without clients an empty array.
- A save between the first read of a source and its watch is missed until the next
  one, although `filesource/watcher.go:73` says "re-parses on every change"; so is
  one whose event the kernel drops (`QuietReflectsFile` without `missed`). Saves less than
  250 ms apart postpone the reload for as long as they go on (`ChangeIsLoaded` is about
  saves that end).
- A share link carries a server name in lower case, and `containsHost` accepts an
  advertised name whatever the case of the inbound's list. xray, as far as the model goes,
  looks the name up in the list as it is written, so a REALITY inbound that lists
  `A.com` is offered with a link it refuses (`URIConnects` without `RealityNamesAssumption`).
- When the drained stderr and the deadline are both ready, `awaitStderr` may take
  the deadline and the denial is reported as a timeout; the comment of `classify`
  (`journal.go:364`) has denial first. A deadline between a clean end and `classify`
  is a timeout too.
- A closing bracket where a record should begin ends `decoder.More()` quietly: the
  records behind it are skipped and the answer is clean, where `SPEC.md:417` says
  "never skip entries and still claim a complete snapshot" (`CleanIsComplete`, `Kinds`
  with `"close"`).
- Another process that keeps the child's *stdout* open holds `read`, and the one
  slot, for as long (`CollectEnds`, `Holds` with `{"out"}`); the comment of
  `awaitStderr` is about stderr.
- With a third process, a live socket that was moved aside by mistake stays aside
  when somebody links the name before it is restored; the comment of `detach`
  (`listener.go:414`) says "that object is restored without being removed". So does one whose
  mover crashed (`LiveIsNeverLost` without `Abandoned`). Where the file system reuses
  an inode number at once, a closing process removes its successor's socket
  (`Recycle = TRUE`). A start that meets a dead socket on its way back to the name fails.

### Fairness

`FairSpec` assumes weak fairness of a handler that began (`HandlerStep(h)`), of
the loop (`LoopStep`), of the debounced reload and of the collector: Go schedules
a runnable goroutine, timers fire. Nothing is assumed of requests, hand edits,
faults or of xray coming back, nor of which ready case the select takes. The
liveness properties of the roster are checked without failures (`MaxFailures = 0`): after a
failed apply the code promises a retry on the next event only, not an end.

In `Sources` weak fairness is assumed of every step of a watcher's goroutine, of
the debounce timer and of the followers, in `Journal` of the handler, the drain,
the watch goroutine and of a child that can write what it began or exit, in
`UnixListener` of a process inside `Listen` or `Close`. Nothing is assumed of saves, of requests, of
callers leaving, of crashes, nor of the deadline: it is relied on only for a
child that hangs and for a stderr that another process holds (`HungDeadline`),
so that `CollectEnds` also says that nothing else waits for it.

## 4. Theorems

All theorems are about `Spec` of their module. Those of the roster hold for every
set of emails, tags, Client IDs and handlers and all bounds, from `NoneAssumption` (the absent Client ID is none)
and `ServiceAssumption` (the types of the other constants).

- `TypeCorrect`: `Spec => []TypeOK`. `TypeOK` is inductive: its parts
  (`StoreOK`, `FilesOK`, `QueueOK`, `LoopOK`, `HandlersOK`, `SpentOK`) include
  what the steps of a goroutine on one user need, that a busy handler has a user
  and that the loop has one where it pushes, prunes or queues. One lemma
  per group of operators says what they return (`StoreTypes`, `PlanTypes`,
  `RenderType` ...), `Frame` that a part whose variables are left alone is kept,
  and one lemma per process goes through its actions.
- `NoWakeupLost`: `Spec => []WakeupOwed`. `WakeupOwed` with `TypeOK` is
  inductive. A handler that queued is about to kick; a kick is given up only to
  take a snapshot; the snapshot holds the whole queue; and a change leaves
  the pass settled, marked failed, or superseded, that is, with another generation in the queue.
- `GenerationsNameChanges`: `Spec => []GenerationNamesChange`. Alone it is not
  inductive: the generation given out next could be one a snapshot holds.
  `GenBound` bounds every generation by the counter, and with it a fresh one
  differs from all.
- `DeletesAreFinal`: `Spec => DeleteIsFinal`, step by step over the transactions
  that can meet a deleting row.
- `DisabledStayOff`: `Spec /\ []OnePerUser /\ []CheckStands => []DisabledNotRejoining`. The
  property fails as `converge_disable` shows, and this says that it fails in no other way:
  as long as no two requests of one user are in flight together, and the user whom
  `enqueueIfLive` found live still is when the attach is queued, with no Disable of it about to
  store, no disabled user has an attach or a rotate in the queue, with hand edits, adoptions,
  failures, outages, store errors, crashes and requests of other users anywhere. The
  invariant `StaysOff` says it of the queue and of the plan that each handler holds.

Those of the collector hold for every set of users and all bounds, from
`CollectorAssumption` (the types of the constants).

- `CollectorTypeCorrect`: `Spec => []TypeOK`; the deltas being naturals is the
  part of it that has content.
- `NoByteCountedTwice`: `Spec => []NeverOvercounts`. A total within bounds now may
  exceed them after the next reading, so the invariant `Sound` (found inductive,
  and checked with TLC first) also bounds the readings to come: `Room` says that total, delta of a reading in
  flight and delta from it to the counter fit into what xray carried, `Coherent`
  that seeding and tracking go together, and that a poll
  that will seed a user finds no bytes in its row. A failed poll drops a
  reading; lemma `Deltas` has the triangle inequality which this needs.
- `NoByteDropped`: `Spec => []NothingDropped`, with `Covered`: what a poll is about
  to write is at least what is pending.
- `PurgeIsFinal`: `Spec => []PurgedStaysGone`, with `Erased`: of a purged user
  neither xray's counters, the pending deltas nor a poll under way know anything.

### Roster: what `synced` means

The `Synced...`, `Disabled...` and `Purge...` properties do not hold for every value of the
constants (section 3). `RosterRestProofs` proves them from hypotheses that exclude those
scenarios, and more than those: `OneAtATime` (requests find the panel at rest) drops all hand
edits, all outages of xray, crashes and store errors, and adoption, harmless ones included;
`CarriedOver` excludes revives, and Edits with a selection together with Disables. What is left is
mutations and failed applies. Users, inbounds, Client IDs, mutations and failing
renders, pushes and purges are any number, and a failure falls anywhere in a pass.

- `SyncedMeansStored` (`SyncedAttachments`), `DisabledHaveNoEntry` (`DisabledIsOut`),
  `FailedHasChange` (`FailedIsOwed`) and `PurgesLeaveNothing` (`PurgeLeavesNothing`, a property of steps) share the invariant
  `RestInv`. `Synced` says nothing while a change is queued, so the invariant has to say
  what a queue *owes*: `Owes(e)` is that the queued operations, once landed, bring the
  entries of the user in the file, and in xray, to exactly the stored inbounds. It is the
  same whether an operation landed, was lost or half landed, which is why any number of
  failures keeps it (`LandsOnce`). While a mutation has the change in its hands (`Ahead`)
  its plan owes the same (`Handled`), by a lemma for each planner: `DiffBrings`,
  `DetachBrings`. `Passing` says what the pass has landed so far, `Converging` that a
  convergence works on rows that are still so, `Marked` that a failed mark has a change.
- `SyncedMeansCredited` (`SyncedCredentials`) needs `NoBareAdd` as well: no Edit with a
  selection, and not both new Client IDs and Enables. `CreditInv` says of Client IDs what
  `Owes` says of presence: the queued operations bring each entry to the stored ID.
  A bare add keeps an entry that is there, so for an Enable the invariant also has to know
  that no entry ever carried another ID (`Known`); for the merge of rotations `DiffSets`
  shows that an operation is a replacement wherever an entry may be an older one.

`RosterStoreProofs` is about the tables alone, and allows restarts, crashes, store errors
and failures anywhere; requests find the panel at rest (`RequestsWait`).

- `ClientIDsAreUnique` (`UniqueClientIDs`), if the enrolled users' IDs differ (`OwnIDs`) and
  as long as adoption brings no ID that another row has, another newcomer brings or a write
  under way is about to store (`[]AdoptsFree`; without it a hand edit breaks the property,
  section 3). Hand edits, convergences and a collector that adopts are included. `Claims` says
  that the ID a handler found free is still so when it writes, and `PruneClaim` that a prune
  writes back what its user still has: true as long as no two of them overlap (section 3).
- `UsersRowsFollow` (`UsersFollowRoster`), without adoption (`Apart`) and without hand edits
  (`NoHandEdits`): a prune would mark its user live. `Mirrored` says what a handler knows of
  its user's mark between its read and its write.

`RosterConvergeProofs` is about hand edits, in any number, of entries and of whole
inbounds: `HandEditsConverge` (`StoreAndFileAgree`). It assumes `HandsOn`, the scenario of the
run `roster_converge` for every set of users, inbounds and Client IDs: requests and hand edits
find the panel at rest, the collector adopts, nobody is disabled, no call and no process fails,
and xray serves every inbound that the file may name. TLC has a counterexample for
`MaxFailures`, `MaxStoreFailures`, `MaxRestarts` and `MaxCrashes` 1 each, and for a file that names an
inbound xray does not serve (`InitInbounds` smaller than `Tags`). What interleaves is the
reload, the sample and the flush of a poll, the convergence, and the passes it asks for.

The agreement holds only at rest, so the invariant `ConvergeInv` says where each difference
between store and file will be mended. `Covered(e)`: the queued operations never contradict the
store; a client in the file that the store lacks is being adopted (`Adopting`: it is in no parse
yet, or the version moved, or it is in the sample of a poll), one that the store has and the
file lacks is being repaired (`Repairing`: a convergence is to come, or one under way read a
file without the client and has the record still before it). Adoption alone would break this,
in two ways that parts of the invariant exclude. A client whose detach has not been rendered could be sampled
and come back: `Orders` says that nothing is read from the file meanwhile. And a row that names an
inbound which left the file could gain attachments between the read and the write of the prune:
`Trimmed` says that for its user there is nothing to adopt until then. `Reading` ties parse and sample to
the file, `Passing` the snapshot of a pass to the queue and what has landed of it to the
file, `Converging` the records of a convergence to the rows; `Alone` and `Handled` are about
the requests. TLC checked `ConvergeInv` first; `LoopAlone` and `RequestStep` say once what a step
that leaves most of it alone has to show.

### The other parts

- `UnixListenerProofs`: `ListenerTypeCorrect` (`TypeOK`) and `ForeignObjectsKept`
  (`ForeignKept`) from `ListenerInv`: a temporary name that a process holds is held by it
  alone and has its object, an inode in use is open. `LiveSocketsKept` (`LiveIsNeverLost`) and
  `OneReachable` (`OneServes`) for any number of processes, from `LiveInv`: what a
  start is about to remove was dead when it looked, and stays so. They assume
  `Recycle = FALSE`; where an inode number is handed out again at once both fail (section 3).
- `JournalProofs`, all from one invariant `JournalInv` that says at each program
  counter of a request what its child, its pipes, the drain and the slot may be:
  `OneChildAtATime` (`OneChild`); `CleanResultsComplete` (`CleanIsComplete`), if no
  record text is a closing bracket (`"close" \notin Kinds`; with it the property fails, section 3);
  `ReasonsAreTheChilds` (`ReasonIsTheChilds`); `NoIdleOrOutAdmitted`
  (`IdleOrOutIsRefused`), for every number of requests, tokens and lifetimes.
- `SourcesProofs`: `QuietWatcherReflects` (`QuietReflectsFile`) from `Owed`: a
  snapshot that is not the parse of the file is followed by an event, an armed timer or
  a read that began after the save. `VersionsNameRosters` (`VersionNamesRoster`)
  from a bound on the versions and what the logger read. Both hold for all documents.
  `LinksConnect` (`URIConnects`), from `ServicesAssumption` (a gRPC service that is not a
  path is a single name), `HostsAssumption` (hosts that differ only in case have one canonical
  form) and `RealityNamesAssumption` (a REALITY inbound lists its server names in canonical
  form; section 3 has what happens otherwise): the invariant `ProfileInv`
  says that the parses in the snapshots, and the one a request holds between its two
  reads, come from documents that parsed; the rest is about the operators. An available profile comes from one inbound, with the user
  in it, and from one record of the advertisements with its tag, both valid; the lemmas go
  through transport and security of the pair and show that each part of the link is what
  the inbound checks (`RouteServed`, `SecurityServed`, `UserServed`).

### Only model-checked

- Liveness (`DeleteCompletes`, `QueuedIsAttempted`, `StoreWins`, `ChangeIsLoaded`,
  `FollowersCatchUp`, `CollectEnds`, `StartSucceeds`): fairness is out of the provers' reach.
- `RenderSpans` and its refinement of `ClientsArray`: the scan, the sort and the
  splice recurse over the text, and what a recursive definition computes for every input needs an induction
  that the provers cannot instantiate.
  This is so of `DocumentParses`, `RetryWritesNothing` and `EditsDisjoint` too: each is about the
  list of edits that a recursion over the tokens returns.

A note for whoever edits the proofs: write a nested update of two fields as
`[f EXCEPT ![x] = [@ EXCEPT !.a = ..., !.b = ...]]`. The SMT translation of tlapm 1.4.5
loses one of `![x].a = ..., ![x].b = ...` and then proves what is not so.

## 5. Checking it

`tlc -config roster_edits.cfg MCRosterService` and so on for the other `roster_`
configurations and `converge_disable.cfg`; `MCCollector` for `collector_polls.cfg`, `RenderSpans` for
`render_spans.cfg` and `render_overlap.cfg`, `MCSources` for `sources.cfg`, `MCJournal` for
`journal.cfg`, `UnixListener` for `unix_listener.cfg`. Each takes about a minute
or less, `journal` between two and three; `tlapm` on `RosterServiceProofs.tla`,
`RosterRestProofs.tla`, `RosterStoreProofs.tla`, `RosterConvergeProofs.tla`, `CollectorProofs.tla`,
`SourcesProofs.tla`, `JournalProofs.tla` and `UnixListenerProofs.tla`, a few minutes each.

## 6. Plan

Done: the roster write path and the traffic accounting, the render with its refinement, the
watched sources with advertisements and profiles, the log snapshots with Sessions, the
Unix socket; theorems about all of them but the render. Left, in this order:

1. The `Synced...` theorems with an outage of xray: a start loads the file, so `Owes` for
   xray follows from `Owes` for the file, but a retry pass may then run beside a request.
2. The xray-wide totals (`xraystatus`), where a load that fails on the first poll and finds
   no row on the next adds that poll's delta to a seed which has it; with the snapshot
   cache (single flight, a panic or an error in flight, the last good value).
3. `SettleWait`: the broadcast channel replaced after each pass and the bounded
   wait; an answer names the state of the waiter's own change.
4. The roster as the operator sees it (a map from emails to a credential and
   attachments, and a synced flag), with `RosterService` as its implementation
   for one user and spaced requests.

## 7. Not modelled

Pure readers (API encoding, host statistics, GeoIP, config snapshot), parsing of
the environment, logging, the browser code and the deployment scripts: no state
that two steps could disagree about, or text that only a test can judge. Of the
modelled parts: cookies, header stripping, the TCP listener with its loopback
filter, the arguments and the unit of journalctl, the fields of a log entry, JSON
decoding itself. The presence columns, the xray-wide totals, the snapshot cache
and the settle wait have state and are in the plan or could join it.
