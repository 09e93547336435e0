---------------------------- MODULE RosterService ----------------------------
(***************************************************************************)
(* The roster write path of the panel: internal/roster/service.go over the *)
(* store (internal/users/store.go), the config file and its watcher        *)
(* (internal/filesource, internal/xrayconfig), the collector's adoption    *)
(* (internal/users/collector.go) and the running xray.                     *)
(*                                                                         *)
(* Processes:                                                              *)
(*   - handlers: HTTP goroutines, each running one mutation (Add, Edit,    *)
(*     Disable, Enable, Delete) at a time.  Nothing serialises them: a     *)
(*     mutation is a sequence of store calls and short critical sections   *)
(*     of the service mutex, and every such step is an action here;        *)
(*   - the apply loop (run): one goroutine, steps of apply and converge;   *)
(*   - the config watcher (Reload) and the collector (Sample, Flush);      *)
(*   - the environment: hand edits of the config file, xray stopping and   *)
(*     starting, failing calls, a crash and restart of the panel.          *)
(***************************************************************************)
EXTENDS Roster

CONSTANTS
    Handlers,       \* concurrent HTTP requests
    Kinds,          \* mutations the operator uses
    Spaced,         \* whether requests and hand edits arrive only while the panel is at rest
    Adoption,       \* whether the collector runs
    InitInbounds,   \* inbounds of the config file at the start
    Enrolled,       \* users on the roster at the start, with their Client IDs
    MaxMutations, MaxFailures, MaxStoreFailures, MaxHandEdits, MaxRestarts, MaxCrashes

ASSUME ServiceAssumption ==
    /\ Kinds \subseteq {"add", "revive", "edit", "rotate", "disable", "enable", "delete"}
    /\ Spaced \in BOOLEAN /\ Adoption \in BOOLEAN
    /\ InitInbounds \subseteq Tags
    /\ DOMAIN Enrolled \subseteq Emails
    /\ \A e \in DOMAIN Enrolled : Enrolled[e] \in Ids
    /\ {MaxMutations, MaxFailures, MaxStoreFailures, MaxHandEdits, MaxRestarts, MaxCrashes} \subseteq Nat

VARIABLES
    roster, users,                     \* the SQLite tables
    file,                              \* the xray config on disk
    xray,                              \* the running xray and its clients
    parse, dirty, changes,             \* the watcher: last parse, file event, load notification
    fresh, sampled,                    \* the collector: version moved, pending roster
    pending, failed, nextGen, kick,    \* the service: queue, marks, generations, wake-up
    lpc, lastRunning, thenConverge,    \* the loop: control, last status, converge follows
    snap, doc, todo, cur, left,        \* one apply pass
    recs, cdoc,                        \* one convergence pass
    hpc, req,                          \* the handlers
    spent                              \* what the environment used of its bounds

storeVars == <<roster, users>>
watchVars == <<parse, dirty, changes>>
collectorVars == <<fresh, sampled>>
queueVars == <<pending, failed, nextGen>>
passVars == <<snap, doc, todo, left>>
convergeVars == <<recs, cdoc>>
loopVars == <<lpc, lastRunning, thenConverge, cur, passVars, convergeVars>>
handlerVars == <<hpc, req>>
vars == <<storeVars, file, xray, watchVars, collectorVars, queueVars, kick,
          loopVars, handlerVars, spent>>

-----------------------------------------------------------------------------
(* Types and the initial state.                                            *)

HandlerPCs == {"idle", "editCheck", "editWrite", "editTake", "disableTake",
               "disableStore", "deleteRead", "deleteTake", "deleteMark",
               "enableStore", "enqueue", "kick"}

LoopPCs == {"boot", "recover", "select", "apply", "render", "write", "pick", "push",
            "converge", "view", "list", "next", "prune", "pruneWrite", "check", "enqueue"}

\* A request in flight: the mutation, the record as the handler read it, the
\* Client ID and attachments it is about to store, the operations it queues.
Request == [kind : Kinds \cup {"none"}, email : Emails \cup {None}, id : MaybeId,
            row : Row, tags : SUBSET Tags, ops : Ops, purge : BOOLEAN]
NoRequest == [kind |-> "none", email |-> None, id |-> None, row |-> AbsentRow,
              tags |-> {}, ops |-> NoOps, purge |-> FALSE]

Parse == [loaded : BOOLEAN, inbounds : SUBSET Tags, clients : Clients]
ParseOf(d) == [loaded |-> TRUE, inbounds |-> d.inbounds, clients |-> d.clients]
Sampled == [has : BOOLEAN, clients : Clients]
NothingSampled == [has |-> FALSE, clients |-> NoClients]
Server == [up : BOOLEAN, inbounds : SUBSET Tags, clients : Clients]
ServerOf(d) == [up |-> TRUE, inbounds |-> d.inbounds, clients |-> d.clients]

Bounds == [mutations |-> MaxMutations, failures |-> MaxFailures,
           storeFailures |-> MaxStoreFailures,
           handEdits |-> MaxHandEdits, restarts |-> MaxRestarts, crashes |-> MaxCrashes]
Spend(what) == /\ spent[what] < Bounds[what]
               /\ spent' = [spent EXCEPT ![what] = @ + 1]

NoChanges == [e \in Emails |-> NoChange]
NoRecords == [e \in Emails |-> AbsentRow]

\* The enrolled users are attached to every inbound, and applied.
InitRow(e) == IF e \in DOMAIN Enrolled
              THEN [present |-> TRUE, id |-> Enrolled[e], inbounds |-> InitInbounds,
                    disabled |-> FALSE, deleting |-> FALSE]
              ELSE AbsentRow
InitDocument ==
    [inbounds |-> InitInbounds,
     clients |-> [t \in Tags |-> [e \in Emails |->
                    IF t \in InitInbounds THEN InitRow(e).id ELSE None]]]

StoreOK == roster \in [Emails -> Row] /\ users \in [Emails -> UserMarks]

FilesOK ==
    /\ file \in Document
    /\ xray \in Server
    /\ parse \in Parse /\ dirty \in BOOLEAN /\ changes \in BOOLEAN
    /\ fresh \in BOOLEAN /\ sampled \in Sampled

QueueOK ==
    /\ pending \in [Emails -> Change]
    /\ failed \subseteq Emails
    /\ nextGen \in Nat
    /\ kick \in BOOLEAN

\* Where the loop works on one user, cur is that user.
LoopOK ==
    /\ lpc \in LoopPCs
    /\ lastRunning \in BOOLEAN /\ thenConverge \in BOOLEAN
    /\ snap \in [Emails -> Change] /\ doc \in Document
    /\ todo \subseteq Emails /\ cur \in Emails \cup {None} /\ left \subseteq Tags
    /\ recs \in [Emails -> Row] /\ cdoc \in Document
    /\ lpc \in {"push", "prune", "pruneWrite", "check", "enqueue"} => cur \in Emails

\* A busy handler has a user.
HandlersOK ==
    /\ hpc \in [Handlers -> HandlerPCs]
    /\ req \in [Handlers -> Request]
    /\ \A h \in Handlers : hpc[h] # "idle" => req[h].email \in Emails

SpentOK == spent \in [DOMAIN Bounds -> Nat]

\* The types of the variables, part by part.
TypeOK == StoreOK /\ FilesOK /\ QueueOK /\ LoopOK /\ HandlersOK /\ SpentOK

\* The panel starts on a roster that is applied everywhere: the watcher has
\* loaded the config, nothing is queued, the loop is about to boot.
Init ==
    /\ roster = [e \in Emails |-> InitRow(e)]
    /\ users = [e \in Emails |-> IF e \in DOMAIN Enrolled THEN "live" ELSE "none"]
    /\ file = InitDocument
    /\ xray = ServerOf(InitDocument)
    /\ parse = ParseOf(InitDocument) /\ dirty = FALSE /\ changes = FALSE
    /\ fresh = TRUE /\ sampled = NothingSampled
    /\ pending = NoChanges /\ failed = {} /\ nextGen = 0 /\ kick = FALSE
    /\ lpc = "boot" /\ lastRunning = FALSE /\ thenConverge = FALSE
    /\ snap = NoChanges /\ doc = EmptyDocument /\ todo = {} /\ cur = None /\ left = {}
    /\ recs = NoRecords /\ cdoc = EmptyDocument
    /\ hpc = [h \in Handlers |-> "idle"] /\ req = [h \in Handlers |-> NoRequest]
    /\ spent = [what \in DOMAIN Bounds |-> 0]

-----------------------------------------------------------------------------
(* The queue: critical sections of the service mutex.                      *)

Queued == {e \in Emails : pending[e].queued}

\* takePending: the previous change's operations feed the new plan.
TakePending(e) ==
    /\ pending' = [pending EXCEPT ![e] = NoChange]
    /\ UNCHANGED <<failed, nextGen>>

\* Mutant: the generation would not move.
EnqueueSameGen(e, id, ops, purge) ==
    /\ pending' = [pending EXCEPT ![e] =
           [queued |-> TRUE, id |-> id, ops |-> ops, gen |-> nextGen, purge |-> purge]]
    /\ failed' = failed \ {e}
    /\ UNCHANGED nextGen

\* Mutant: the generation would count down.
EnqueueGenDown(e, id, ops, purge) ==
    /\ nextGen' = nextGen - 1
    /\ pending' = [pending EXCEPT ![e] =
           [queued |-> TRUE, id |-> id, ops |-> ops, gen |-> nextGen - 1, purge |-> purge]]
    /\ failed' = failed \ {e}

\* enqueueGen, up to the unlock; the kick follows.
EnqueueGen(e, id, ops, purge) ==
    /\ nextGen' = nextGen + 1
    /\ pending' = [pending EXCEPT ![e] =
           [queued |-> TRUE, id |-> id, ops |-> ops, gen |-> nextGen + 1, purge |-> purge]]
    /\ failed' = failed \ {e}

\* Mutant: any queued change of the user would pass for the snapshotted one.
SupersededIgnoringGen(e) == ~pending[e].queued

\* supersededLocked: the queue no longer holds the change the pass works on.
Superseded(e) == ~pending[e].queued \/ pending[e].gen # snap[e].gen

-----------------------------------------------------------------------------
(* Mutations.                                                              *)

Goto(h, pc) == hpc' = [hpc EXCEPT ![h] = pc]
Answer(h) == Goto(h, "idle") /\ req' = [req EXCEPT ![h] = NoRequest]

\* The panel is at rest: no goroutine has anything left to do on its own.
Quiet ==
    /\ \A h \in Handlers : hpc[h] = "idle"
    /\ lpc = "select" /\ ~kick /\ ~changes /\ ~dirty
    /\ ~(Adoption /\ fresh) /\ ~sampled.has

\* A request arrives; what it reads before its first write goes into req.
Begin(h, kind, r, pc) ==
    /\ hpc[h] = "idle"
    /\ kind \in Kinds
    /\ Spaced => Quiet
    /\ Spend("mutations")
    /\ req' = [req EXCEPT ![h] = IF pc = "idle" THEN NoRequest ELSE [r EXCEPT !.kind = kind]]
    /\ Goto(h, pc)
    /\ UNCHANGED <<file, xray, watchVars, collectorVars, queueVars, kick, loopVars>>

\* Add: the selection is validated against the inbound view, then stored in
\* one transaction.  A conflict answers and changes nothing.
Add(h, e, id, tags) ==
    /\ tags \subseteq parse.inbounds
    /\ ~AddConflict(roster, e, id)
    /\ roster' = AddRosterUser(roster, e, id, tags)
    /\ users' = UserLive(users, e)
    /\ Begin(h, IF roster[e].present THEN "revive" ELSE "add",
             [NoRequest EXCEPT !.email = e, !.id = id, !.ops = AttachOps(tags)],
             IF tags = {} THEN "idle" ELSE "enqueue")

\* Edit: reads the record and the view.  A selection must name inbounds of
\* the view; without one the stored attachments are kept, pruned to the view.
Edit(h, e, id, tags) ==
    /\ Live(roster[e])
    /\ tags \subseteq parse.inbounds
    /\ Begin(h, "edit",
             [NoRequest EXCEPT !.email = e, !.id = id, !.tags = tags, !.row = roster[e]],
             "editCheck")
    /\ UNCHANGED storeVars

\* Edit without a selection (nil inbounds).
Rotate(h, e, id) ==
    LET kept == roster[e].inbounds \cap parse.inbounds IN
    /\ Live(roster[e])
    /\ Begin(h, "rotate",
             [NoRequest EXCEPT !.email = e, !.id = id, !.tags = kept,
                               !.row = [roster[e] EXCEPT !.inbounds = kept]],
             "editCheck")
    /\ UNCHANGED storeVars

\* Where a mutation goes once EditRosterUser returned.
AfterEdit(r) == IF r.kind # "enable" THEN "editTake"
                ELSE IF r.tags = {} THEN "idle" ELSE "enqueue"

\* EditRosterUser, its reads: the record again, the uniqueness of the Client
\* ID, and the no-op probe (whose labels are not modelled: it may or may not
\* find them changed).
EditCheck(h) ==
    LET e == req[h].email
        id == IF req[h].id = None THEN roster[e].id ELSE req[h].id
    IN
    /\ hpc[h] = "editCheck"
    /\ \/ /\ ~Live(roster[e]) \/ ClientIDTaken(roster, e, req[h].id)
          /\ Answer(h)
       \/ /\ Live(roster[e]) /\ ~ClientIDTaken(roster, e, req[h].id)
          /\ \/ Goto(h, "editWrite") /\ req' = [req EXCEPT ![h].id = id]
             \/ /\ id = roster[e].id /\ req[h].tags = roster[e].inbounds
                /\ IF AfterEdit(req[h]) = "idle" THEN Answer(h)
                   ELSE Goto(h, AfterEdit(req[h])) /\ req' = [req EXCEPT ![h].id = id]
    /\ UNCHANGED <<storeVars, file, xray, watchVars, collectorVars, queueVars, kick, loopVars, spent>>

\* EditRosterUser, its transaction.
EditWrite(h) ==
    LET r == req[h] IN
    /\ hpc[h] = "editWrite"
    /\ roster' = EditRosterUser(roster, r.email, r.id, r.tags)
    /\ users' = UserLive(users, r.email)
    /\ IF AfterEdit(r) = "idle" THEN Answer(h)
       ELSE Goto(h, AfterEdit(r)) /\ UNCHANGED req
    /\ UNCHANGED <<file, xray, watchVars, collectorVars, queueVars, kick, loopVars, spent>>

\* Edit, after the store: takes the unfinished change over and plans.
EditTake(h) ==
    LET r == req[h]
        ops == DiffOps(r.row, r.id, r.tags, pending[r.email].ops)
    IN
    /\ hpc[h] = "editTake"
    /\ TakePending(r.email)
    /\ IF ops = NoOps THEN Answer(h)
       ELSE Goto(h, "enqueue") /\ req' = [req EXCEPT ![h].ops = ops]
    /\ UNCHANGED <<storeVars, file, xray, watchVars, collectorVars, kick, loopVars, spent>>

\* Disable: reads the record (a user not on the roster is answered at once).
Disable(h, e) ==
    /\ Live(roster[e])
    /\ Begin(h, "disable",
             [NoRequest EXCEPT !.email = e, !.id = roster[e].id, !.row = roster[e]],
             "disableTake")
    /\ UNCHANGED storeVars

DisableTake(h) ==
    LET r == req[h] IN
    /\ hpc[h] = "disableTake"
    /\ TakePending(r.email)
    /\ req' = [req EXCEPT ![h].ops = DisableOps(r.row, pending[r.email].ops)]
    /\ Goto(h, "disableStore")
    /\ UNCHANGED <<storeVars, file, xray, watchVars, collectorVars, kick, loopVars, spent>>

DisableStore(h) ==
    LET r == req[h] IN
    /\ hpc[h] = "disableStore"
    /\ roster' = DisableRosterUser(roster, r.email)
    /\ users' = UserDisabled(users, r.email)
    /\ IF r.ops = NoOps THEN Answer(h) ELSE Goto(h, "enqueue") /\ UNCHANGED req
    /\ UNCHANGED <<file, xray, watchVars, collectorVars, queueVars, kick, loopVars, spent>>

\* Delete: reads the live row, else (another read) the disabled one.
Delete(h, e) ==
    /\ Begin(h, "delete",
             [NoRequest EXCEPT !.email = e,
                               !.id = IF Live(roster[e]) THEN roster[e].id ELSE None,
                               !.row = IF Live(roster[e]) THEN roster[e] ELSE AbsentRow,
                               !.purge = TRUE],
             IF Live(roster[e]) THEN "deleteTake" ELSE "deleteRead")
    /\ UNCHANGED storeVars

DeleteRead(h) ==
    LET e == req[h].email IN
    /\ hpc[h] = "deleteRead"
    /\ IF Disabled(roster[e])
       THEN /\ req' = [req EXCEPT ![h] = [@ EXCEPT !.id = roster[e].id, !.row = roster[e]]]
            /\ Goto(h, "deleteTake")
       ELSE Answer(h)
    /\ UNCHANGED <<storeVars, file, xray, watchVars, collectorVars, queueVars, kick, loopVars, spent>>

DeleteTake(h) ==
    LET r == req[h] IN
    /\ hpc[h] = "deleteTake"
    /\ TakePending(r.email)
    /\ req' = [req EXCEPT ![h].ops = DeleteOps(r.row, pending[r.email].ops)]
    /\ Goto(h, "deleteMark")
    /\ UNCHANGED <<storeVars, file, xray, watchVars, collectorVars, kick, loopVars, spent>>

DeleteMark(h) ==
    LET r == req[h] IN
    /\ hpc[h] = "deleteMark"
    /\ roster' = MarkRosterDeleting(roster, r.email)
    /\ users' = UserDisabled(users, r.email)
    /\ Goto(h, "enqueue")
    /\ UNCHANGED <<file, xray, watchVars, collectorVars, queueVars, kick, loopVars, req, spent>>

\* Enable: EnableRosterUser reads the disabled record ...
Enable(h, e) ==
    /\ Disabled(roster[e])
    /\ Begin(h, "enable",
             [NoRequest EXCEPT !.email = e, !.id = roster[e].id, !.row = roster[e]],
             "enableStore")
    /\ UNCHANGED storeVars

\* ... and flips the flags; attachments the view no longer carries are pruned
\* by an edit of the revived record.
EnableStore(h) ==
    LET r == req[h]
        kept == r.row.inbounds \cap parse.inbounds
        next == [r EXCEPT !.tags = kept, !.ops = AttachOps(kept)]
    IN
    /\ hpc[h] = "enableStore"
    /\ roster' = EnableRosterUser(roster, r.email)
    /\ users' = UserEnabled(users, r.email)
    /\ IF kept # r.row.inbounds
       THEN Goto(h, "editCheck") /\ req' = [req EXCEPT ![h] = [next EXCEPT !.id = None]]
       ELSE IF kept = {} THEN Answer(h)
       ELSE Goto(h, "enqueue") /\ req' = [req EXCEPT ![h] = next]
    /\ UNCHANGED <<file, xray, watchVars, collectorVars, queueVars, kick, loopVars, spent>>

\* A store write that errors ends the mutation; a change already taken from
\* the queue is not put back.
StoreFails(h) ==
    /\ hpc[h] \in {"editWrite", "disableStore", "deleteMark", "enableStore"}
    /\ Spend("storeFailures")
    /\ Answer(h)
    /\ UNCHANGED <<storeVars, file, xray, watchVars, collectorVars, queueVars, kick, loopVars>>

\* queueOps / enqueueDelete: the queue write, then the kick (a full channel
\* drops it).  Waiting for the pass to settle changes nothing.
Enqueue(h) ==
    LET r == req[h] IN
    /\ hpc[h] = "enqueue"
    /\ EnqueueGen(r.email, r.id, r.ops, r.purge)
    /\ Goto(h, "kick")
    /\ UNCHANGED <<storeVars, file, xray, watchVars, collectorVars, kick, loopVars, req, spent>>

\* Mutant: a busy loop would not be kicked.
KickIdleLoop(h) ==
    /\ hpc[h] = "kick"
    /\ kick' = (kick \/ lpc = "select")
    /\ Answer(h)
    /\ UNCHANGED <<storeVars, file, xray, watchVars, collectorVars, queueVars, loopVars, spent>>

Kick(h) ==
    /\ hpc[h] = "kick"
    /\ kick' = TRUE
    /\ Answer(h)
    /\ UNCHANGED <<storeVars, file, xray, watchVars, collectorVars, queueVars, loopVars, spent>>

-----------------------------------------------------------------------------
(* The apply loop: run's select and the passes of apply.                   *)

\* Mutant: interrupted deletes would not be read.
BootWithoutRecovery ==
    /\ lpc = "boot"
    /\ lastRunning' = xray.up
    /\ recs' = NoRecords
    /\ lpc' = "recover"
    /\ UNCHANGED <<storeVars, file, xray, watchVars, collectorVars, queueVars, kick,
                   thenConverge, cur, passVars, cdoc, handlerVars, spent>>

\* Start of run: the observed status, then recoverDeletes reads its rows.
Boot ==
    /\ lpc = "boot"
    /\ lastRunning' = xray.up
    /\ recs' = [e \in Emails |-> IF Deleting(roster[e]) THEN roster[e] ELSE AbsentRow]
    /\ lpc' = "recover"
    /\ UNCHANGED <<storeVars, file, xray, watchVars, collectorVars, queueVars, kick,
                   thenConverge, cur, passVars, cdoc, handlerVars, spent>>

\* Mutant: the recovery would queue without a kick.
RecoverWithoutKick(e) ==
    /\ lpc = "recover"
    /\ recs[e].present
    /\ EnqueueGen(e, recs[e].id, DetachOps(recs[e].inbounds), TRUE)
    /\ recs' = [recs EXCEPT ![e] = AbsentRow]
    /\ UNCHANGED <<storeVars, file, xray, watchVars, collectorVars, lpc, lastRunning,
                   thenConverge, cur, passVars, cdoc, handlerVars, kick, spent>>

\* recoverDeletes: one interrupted delete re-queues.
RecoverDelete(e) ==
    /\ lpc = "recover"
    /\ recs[e].present
    /\ EnqueueGen(e, recs[e].id, DetachOps(recs[e].inbounds), TRUE)
    /\ kick' = TRUE
    /\ recs' = [recs EXCEPT ![e] = AbsentRow]
    /\ UNCHANGED <<storeVars, file, xray, watchVars, collectorVars, lpc, lastRunning,
                   thenConverge, cur, passVars, cdoc, handlerVars, spent>>

Recovered ==
    /\ lpc = "recover"
    /\ recs = NoRecords
    /\ lpc' = "converge"
    /\ UNCHANGED <<storeVars, file, xray, watchVars, collectorVars, queueVars, kick, lastRunning,
                   thenConverge, cur, passVars, convergeVars, handlerVars, spent>>

LoopKick ==
    /\ lpc = "select" /\ kick
    /\ kick' = FALSE
    /\ lpc' = "apply" /\ thenConverge' = FALSE
    /\ UNCHANGED <<storeVars, file, xray, watchVars, collectorVars, queueVars, lastRunning,
                   cur, passVars, convergeVars, handlerVars, spent>>

\* Mutant: a config-watch fire would retry and never converge.
RetryOnChange ==
    /\ lpc = "select" /\ changes
    /\ changes' = FALSE
    /\ lpc' = IF Queued = {} THEN "select" ELSE "apply"
    /\ thenConverge' = FALSE
    /\ UNCHANGED <<storeVars, file, xray, parse, dirty, collectorVars, queueVars, kick, lastRunning,
                   cur, passVars, convergeVars, handlerVars, spent>>

\* A config-watch fire: retry if anything is unapplied, then converge.
LoopChange ==
    /\ lpc = "select" /\ changes
    /\ changes' = FALSE
    /\ lpc' = IF Queued = {} THEN "converge" ELSE "apply"
    /\ thenConverge' = TRUE
    /\ UNCHANGED <<storeVars, file, xray, parse, dirty, collectorVars, queueVars, kick, lastRunning,
                   cur, passVars, convergeVars, handlerVars, spent>>

\* A status poll that sees a transition; one to running retries.
LoopTick ==
    /\ lpc = "select" /\ xray.up # lastRunning
    /\ lastRunning' = xray.up
    /\ lpc' = IF xray.up /\ Queued # {} THEN "apply" ELSE "select"
    /\ thenConverge' = FALSE
    /\ UNCHANGED <<storeVars, file, xray, watchVars, collectorVars, queueVars, kick,
                   cur, passVars, convergeVars, handlerVars, spent>>

AfterPass == IF thenConverge THEN "converge" ELSE "select"

\* apply: the snapshot of the pending changes, under the mutex.
ApplySnapshot ==
    /\ lpc = "apply"
    /\ snap' = pending
    /\ todo' = Queued
    /\ lpc' = IF Queued = {} THEN AfterPass ELSE "render"
    /\ UNCHANGED <<storeVars, file, xray, watchVars, collectorVars, queueVars, kick, lastRunning,
                   thenConverge, cur, doc, left, convergeVars, handlerVars, spent>>

\* FileRenderer.Render: reads and renders the document; an unchanged render
\* never writes.
RenderRead ==
    LET rendered == RenderClients(file, snap) IN
    /\ lpc = "render"
    /\ doc' = rendered
    /\ lpc' = IF rendered = file THEN "pick" ELSE "write"
    /\ UNCHANGED <<storeVars, file, xray, watchVars, collectorVars, queueVars, kick, lastRunning,
                   thenConverge, cur, snap, todo, left, convergeVars, handlerVars, spent>>

\* ... and replaces the file by rename, whatever it holds by now.
RenderWrite ==
    /\ lpc = "write"
    /\ file' = doc
    /\ dirty' = TRUE
    /\ lpc' = "pick"
    /\ UNCHANGED <<storeVars, xray, parse, changes, collectorVars, queueVars, kick, lastRunning,
                   thenConverge, cur, passVars, convergeVars, handlerVars, spent>>

\* A failed render marks every user of the pass failed and ends it.
RenderFails ==
    /\ lpc \in {"render", "write"}
    /\ Spend("failures")
    /\ failed' = failed \cup {e \in todo : ~Superseded(e)}
    /\ todo' = {}
    /\ lpc' = "pick"
    /\ UNCHANGED <<storeVars, file, xray, watchVars, collectorVars, pending, nextGen, kick,
                   lastRunning, thenConverge, cur, snap, doc, left, convergeVars, handlerVars>>

\* The pass turns to one more change of its snapshot; a superseded one is
\* left to its own pass.
PassPick(e) ==
    /\ lpc = "pick" /\ e \in todo
    /\ todo' = todo \ {e}
    /\ IF Superseded(e)
       THEN UNCHANGED <<lpc, cur, left>>
       ELSE lpc' = "push" /\ cur' = e /\ left' = Touched(snap[e].ops)
    /\ UNCHANGED <<storeVars, file, xray, watchVars, collectorVars, queueVars, kick, lastRunning,
                   thenConverge, snap, doc, convergeVars, handlerVars, spent>>

PassDone ==
    /\ lpc = "pick" /\ todo = {}
    /\ lpc' = AfterPass
    /\ snap' = NoChanges /\ doc' = EmptyDocument
    /\ UNCHANGED <<storeVars, file, xray, watchVars, collectorVars, queueVars, kick, lastRunning,
                   thenConverge, cur, todo, left, convergeVars, handlerVars, spent>>

\* The next operation of the change being pushed: the leaves come first.
NextOp(t) ==
    /\ lpc = "push" /\ t \in left
    /\ (\E u \in left : snap[cur].ops[u] = "detach") => snap[cur].ops[t] = "detach"

\* pushOp: an inbound that left the view is skipped, otherwise xray applies it.
Push(t) ==
    /\ NextOp(t)
    /\ left' = left \ {t}
    /\ IF t \notin parse.inbounds THEN UNCHANGED xray
       ELSE /\ xray.up /\ t \in xray.inbounds
            /\ xray' = [xray EXCEPT !.clients[t][cur] =
                                        PushEntry(@, snap[cur].ops[t], snap[cur].id)]
    /\ UNCHANGED <<storeVars, file, watchVars, collectorVars, queueVars, kick, lpc, lastRunning,
                   thenConverge, cur, snap, doc, todo, convergeVars, handlerVars, spent>>

\* A failed push marks its own user failed and ends the user's operations.
\* With xray down, or the inbound unknown to it, nothing happened; a lost or
\* late answer may leave the operation done, or half done.
PushFails(t) ==
    /\ NextOp(t)
    /\ t \in parse.inbounds
    /\ \/ /\ ~(xray.up /\ t \in xray.inbounds)
          /\ UNCHANGED <<xray, spent>>
       \/ /\ xray.up /\ t \in xray.inbounds
          /\ Spend("failures")
          /\ \E entry \in FailedPushOutcomes(xray.clients[t][cur], snap[cur].ops[t], snap[cur].id) :
                xray' = [xray EXCEPT !.clients[t][cur] = entry]
    /\ failed' = IF Superseded(cur) THEN failed ELSE failed \cup {cur}
    /\ lpc' = "pick" /\ cur' = None /\ left' = {}
    /\ UNCHANGED <<storeVars, file, watchVars, collectorVars, pending, nextGen, kick, lastRunning,
                   thenConverge, snap, doc, todo, convergeVars, handlerVars>>

\* Every operation landed: the change settles unless it was superseded.
Settling == lpc = "push" /\ left = {}
AfterSettle ==
    /\ lpc' = "pick" /\ cur' = None
    /\ UNCHANGED <<file, xray, watchVars, collectorVars, nextGen, kick, lastRunning,
                   thenConverge, passVars, convergeVars, handlerVars>>

\* Mutant: settling would leave the failed mark.
SettleKeepsMark ==
    /\ Settling
    /\ IF Superseded(cur)
       THEN UNCHANGED <<pending, storeVars>>
       ELSE /\ pending' = [pending EXCEPT ![cur] = NoChange]
            /\ IF snap[cur].purge
               THEN /\ roster' = PurgeRosterUser(roster, cur)
                    /\ users' = UserPurged(users, roster, cur)
               ELSE UNCHANGED storeVars
    /\ AfterSettle
    /\ UNCHANGED <<failed, spent>>

\* A delete's settle purges every stored trace in the same critical section.
Settle ==
    /\ Settling
    /\ IF Superseded(cur)
       THEN UNCHANGED <<pending, failed, storeVars>>
       ELSE /\ pending' = [pending EXCEPT ![cur] = NoChange]
            /\ failed' = failed \ {cur}
            /\ IF snap[cur].purge
               THEN /\ roster' = PurgeRosterUser(roster, cur)
                    /\ users' = UserPurged(users, roster, cur)
               ELSE UNCHANGED storeVars
    /\ AfterSettle
    /\ UNCHANGED spent

\* A purge that cannot write stays queued, without operations.
PurgeFails ==
    /\ Settling
    /\ ~Superseded(cur) /\ snap[cur].purge
    /\ Spend("failures")
    /\ pending' = [pending EXCEPT ![cur] = [snap[cur] EXCEPT !.ops = NoOps]]
    /\ failed' = failed \cup {cur}
    /\ UNCHANGED storeVars
    /\ AfterSettle

-----------------------------------------------------------------------------
(* converge: one config parse against the store.                           *)

\* The roster parse ...
ConvergeRead ==
    /\ lpc = "converge"
    /\ thenConverge' = FALSE
    /\ IF parse.loaded
       THEN lpc' = "view" /\ cdoc' = [inbounds |-> {}, clients |-> parse.clients]
       ELSE lpc' = "select" /\ UNCHANGED cdoc
    /\ UNCHANGED <<storeVars, file, xray, watchVars, collectorVars, queueVars, kick, lastRunning,
                   cur, passVars, recs, handlerVars, spent>>

\* ... then the inbound view, of which the managed tags are kept ...
ConvergeView ==
    /\ lpc = "view"
    /\ cdoc' = [cdoc EXCEPT !.inbounds = parse.inbounds]
    /\ lpc' = "list"
    /\ UNCHANGED <<storeVars, file, xray, watchVars, collectorVars, queueVars, kick, lastRunning,
                   thenConverge, cur, passVars, recs, handlerVars, spent>>

\* ... then the live records (RosterRecords).
ConvergeList ==
    /\ lpc = "list"
    /\ recs' = [e \in Emails |-> IF Live(roster[e]) THEN roster[e] ELSE AbsentRow]
    /\ lpc' = "next"
    /\ UNCHANGED <<storeVars, file, xray, watchVars, collectorVars, queueVars, kick, lastRunning,
                   thenConverge, cur, passVars, cdoc, handlerVars, spent>>

\* Mutant: a user the file carries anywhere would count as present.
LostEverywhere(e, row) ==
    IF Carrying(cdoc.clients, e) = {} THEN row.inbounds \cap cdoc.inbounds ELSE {}

\* Attachments of a record that the file lost.
Lost(e, row) == (row.inbounds \cap cdoc.inbounds) \ Carrying(cdoc.clients, e)

\* Leaving a record behind, and going on with it.
SkipRecord(e) == lpc' = "next" /\ cur' = None /\ recs' = [recs EXCEPT ![e] = AbsentRow]
WithRecord(e, row) ==
    IF Lost(e, row) = {} THEN SkipRecord(e)
    ELSE lpc' = "check" /\ cur' = e /\ recs' = [recs EXCEPT ![e] = row]

ConvergeNext(e) ==
    /\ lpc = "next" /\ recs[e].present
    /\ IF pending[e].queued THEN SkipRecord(e)
       ELSE IF recs[e].inbounds \subseteq cdoc.inbounds THEN WithRecord(e, recs[e])
       ELSE lpc' = "prune" /\ cur' = e /\ UNCHANGED recs
    /\ UNCHANGED <<storeVars, file, xray, watchVars, collectorVars, queueVars, kick, lastRunning,
                   thenConverge, passVars, cdoc, handlerVars, spent>>

\* The prune's EditRosterUser: its reads (a user gone meanwhile is skipped,
\* the no-op probe may find nothing to write) ...
ConvergePrune ==
    LET kept == recs[cur].inbounds \cap cdoc.inbounds
        row == [roster[cur] EXCEPT !.inbounds = kept]
    IN
    /\ lpc = "prune"
    /\ IF ~Live(roster[cur]) THEN SkipRecord(cur)
       ELSE \/ lpc' = "pruneWrite" /\ recs' = [recs EXCEPT ![cur] = row] /\ UNCHANGED cur
            \/ roster[cur].inbounds = kept /\ WithRecord(cur, row)
    /\ UNCHANGED <<storeVars, file, xray, watchVars, collectorVars, queueVars, kick, lastRunning,
                   thenConverge, passVars, cdoc, handlerVars, spent>>

\* ... and its transaction.
ConvergePruneWrite ==
    /\ lpc = "pruneWrite"
    /\ roster' = EditRosterUser(roster, cur, recs[cur].id, recs[cur].inbounds)
    /\ users' = UserLive(users, cur)
    /\ WithRecord(cur, recs[cur])
    /\ UNCHANGED <<file, xray, watchVars, collectorVars, queueVars, kick, lastRunning,
                   thenConverge, passVars, cdoc, handlerVars, spent>>

\* enqueueIfLive: the roster is read again under the mutex, the mutex is
\* released, and then the change is queued.
ConvergeCheck ==
    /\ lpc = "check"
    /\ IF Live(roster[cur]) THEN lpc' = "enqueue" /\ UNCHANGED <<cur, recs>> ELSE SkipRecord(cur)
    /\ UNCHANGED <<storeVars, file, xray, watchVars, collectorVars, queueVars, kick, lastRunning,
                   thenConverge, passVars, cdoc, handlerVars, spent>>

ConvergeEnqueue ==
    /\ lpc = "enqueue"
    /\ EnqueueGen(cur, recs[cur].id, AttachOps(Lost(cur, recs[cur])), FALSE)
    /\ kick' = TRUE
    /\ SkipRecord(cur)
    /\ UNCHANGED <<storeVars, file, xray, watchVars, collectorVars, lastRunning,
                   thenConverge, passVars, cdoc, handlerVars, spent>>

\* A store error of the loop's own: the deletes are not recovered, the whole
\* convergence ends, one record is left unpruned; the recheck of
\* enqueueIfLive reads an error as a live user.
LoopStoreFails ==
    /\ Spend("storeFailures")
    /\ \/ /\ lpc = "boot" /\ lpc' = "recover"
          /\ lastRunning' = xray.up
          /\ UNCHANGED <<cur, convergeVars>>
       \/ /\ lpc = "list" /\ lpc' = "select"
          /\ cdoc' = EmptyDocument
          /\ UNCHANGED <<lastRunning, cur, recs>>
       \/ /\ lpc \in {"prune", "pruneWrite"}
          /\ SkipRecord(cur)
          /\ UNCHANGED <<lastRunning, cdoc>>
       \/ /\ lpc = "check" /\ lpc' = "enqueue"
          /\ UNCHANGED <<lastRunning, cur, convergeVars>>
    /\ UNCHANGED <<storeVars, file, xray, watchVars, collectorVars, queueVars, kick,
                   thenConverge, passVars, handlerVars>>

Converged ==
    /\ lpc = "next" /\ recs = NoRecords
    /\ lpc' = "select"
    /\ cdoc' = EmptyDocument
    /\ UNCHANGED <<storeVars, file, xray, watchVars, collectorVars, queueVars, kick, lastRunning,
                   thenConverge, cur, passVars, recs, handlerVars, spent>>

-----------------------------------------------------------------------------
(* The watcher and the collector.                                          *)

\* The debounced reload: the parse is swapped and its subscribers told; the
\* roster version moves only when the clients did.
Reload ==
    /\ dirty
    /\ dirty' = FALSE
    /\ parse' = ParseOf(file)
    /\ changes' = TRUE
    /\ fresh' = (fresh \/ parse.clients # file.clients)
    /\ UNCHANGED <<storeVars, file, xray, sampled, queueVars, kick, loopVars, handlerVars, spent>>

\* sampleRoster, at the start of a poll whose version moved.
Sample ==
    /\ Adoption /\ fresh
    /\ fresh' = FALSE
    /\ sampled' = [has |-> TRUE, clients |-> parse.clients]
    /\ UNCHANGED <<storeVars, file, xray, watchVars, queueVars, kick, loopVars, handlerVars, spent>>

\* ApplyPoll's roster half, at the end of the poll.
Flush ==
    /\ sampled.has
    /\ sampled' = NothingSampled
    /\ users' = SyncLabels(users, roster, sampled.clients)
    /\ roster' = AdoptClients(roster, sampled.clients)
    /\ UNCHANGED <<file, xray, watchVars, fresh, queueVars, kick, loopVars, handlerVars, spent>>

-----------------------------------------------------------------------------
(* The environment.                                                        *)

HandEdit ==
    /\ Spaced => Quiet
    /\ Spend("handEdits")
    /\ \/ \E t \in file.inbounds, e \in Emails, id \in MaybeId :
             file' = [file EXCEPT !.clients[t][e] = id]
       \/ \E t \in Tags \ file.inbounds :
             file' = [file EXCEPT !.inbounds = @ \cup {t}]
       \/ \E t \in file.inbounds :
             file' = [inbounds |-> file.inbounds \ {t},
                      clients |-> [file.clients EXCEPT ![t] = [e \in Emails |-> None]]]
    /\ dirty' = TRUE
    /\ UNCHANGED <<storeVars, xray, parse, changes, collectorVars, queueVars, kick, loopVars, handlerVars>>

\* xray stops; its start loads the config file.
XrayStop ==
    /\ xray.up
    /\ Spend("restarts")
    /\ xray' = [xray EXCEPT !.up = FALSE]
    /\ UNCHANGED <<storeVars, file, watchVars, collectorVars, queueVars, kick, loopVars, handlerVars>>

XrayStart ==
    /\ ~xray.up
    /\ xray' = ServerOf(file)
    /\ UNCHANGED <<storeVars, file, watchVars, collectorVars, queueVars, kick, loopVars, handlerVars, spent>>

\* The panel dies and starts again: the tables, the file and xray survive.
Crash ==
    /\ Spend("crashes")
    /\ parse' = ParseOf(file) /\ dirty' = FALSE /\ changes' = FALSE
    /\ fresh' = TRUE /\ sampled' = NothingSampled
    /\ pending' = NoChanges /\ failed' = {} /\ nextGen' = 0 /\ kick' = FALSE
    /\ lpc' = "boot" /\ lastRunning' = FALSE /\ thenConverge' = FALSE
    /\ snap' = NoChanges /\ doc' = EmptyDocument /\ todo' = {} /\ cur' = None /\ left' = {}
    /\ recs' = NoRecords /\ cdoc' = EmptyDocument
    /\ hpc' = [h \in Handlers |-> "idle"] /\ req' = [h \in Handlers |-> NoRequest]
    /\ UNCHANGED <<storeVars, file, xray>>

-----------------------------------------------------------------------------

Arrive(h) ==
    \E e \in Emails :
        \/ \E id \in Ids, tags \in SUBSET Tags : Add(h, e, id, tags)
        \/ \E id \in MaybeId, tags \in SUBSET Tags : Edit(h, e, id, tags)
        \/ \E id \in MaybeId : Rotate(h, e, id)
        \/ Disable(h, e)
        \/ Delete(h, e)
        \/ Enable(h, e)

HandlerStep(h) ==
    \/ EditCheck(h) \/ EditWrite(h) \/ EditTake(h)
    \/ DisableTake(h) \/ DisableStore(h)
    \/ DeleteRead(h) \/ DeleteTake(h) \/ DeleteMark(h)
    \/ EnableStore(h)
    \/ Enqueue(h) \/ Kick(h)

ApplyStep ==
    \/ ApplySnapshot \/ RenderRead \/ RenderWrite
    \/ \E e \in Emails : PassPick(e)
    \/ \E t \in Tags : Push(t) \/ PushFails(t)
    \/ Settle \/ PassDone

ConvergeStep ==
    \/ ConvergeRead \/ ConvergeView \/ ConvergeList
    \/ \E e \in Emails : ConvergeNext(e)
    \/ ConvergePrune \/ ConvergePruneWrite \/ ConvergeCheck \/ ConvergeEnqueue
    \/ Converged

LoopStep ==
    \/ Boot \/ (\E e \in Emails : RecoverDelete(e)) \/ Recovered
    \/ LoopKick \/ LoopChange \/ LoopTick
    \/ ApplyStep \/ ConvergeStep

CollectorStep == Sample \/ Flush

Faults ==
    \/ \E h \in Handlers : StoreFails(h)
    \/ LoopStoreFails \/ RenderFails \/ PurgeFails
    \/ HandEdit \/ XrayStop \/ Crash

Next ==
    \/ \E h \in Handlers : Arrive(h) \/ HandlerStep(h)
    \/ LoopStep
    \/ Reload
    \/ CollectorStep
    \/ XrayStart
    \/ Faults

Spec == Init /\ [][Next]_vars

(* Go schedules every runnable goroutine: a handler finishes the request it
   began, the loop takes its next step, the watcher's debounce timer and the
   collector's poll timer fire.  Nothing is assumed of requests, of hand
   edits, of xray, or of which ready case run's select takes.              *)
Fairness ==
    /\ \A h \in Handlers : WF_vars(HandlerStep(h))
    /\ WF_vars(LoopStep)
    /\ WF_vars(Reload)
    /\ WF_vars(CollectorStep)

FairSpec == Spec /\ Fairness

-----------------------------------------------------------------------------
(* Properties.                                                             *)

\* Sync() answers synced.
Synced == Queued = {} /\ failed = {}

\* The Client ID an inbound should carry for an email.
Due(e, t) == IF Live(roster[e]) /\ t \in roster[e].inbounds THEN roster[e].id ELSE None

\* The Client ID an inbound really carries: in the file, on the running xray.
OnFile(e, t) == file.clients[t][e]
OnXray(e, t) == xray.clients[t][e]

\* Neither the file nor the running xray admits the user through the inbound.
Out(e, t) == OnFile(e, t) = None /\ (xray.up /\ t \in xray.inbounds => OnXray(e, t) = None)

(* The queue.                                                              *)

\* The loop gets to the queued change of a user without any further event.
Reached(e) ==
    \/ kick
    \/ \E h \in Handlers : hpc[h] = "kick"
    \/ lpc = "apply"
    \/ /\ lpc \in {"render", "write", "pick", "push"}
       /\ e \in todo \/ (lpc = "push" /\ cur = e)
       /\ snap[e].gen = pending[e].gen

\* No wake-up is lost: a queued change that is not marked failed is reached by
\* the loop on its own - a kick is buffered or about to be sent, the loop is
\* about to snapshot the queue, or the current pass holds this very change and
\* has still to push it (enqueueGen writes the queue before it kicks, and the
\* kick channel buffers one).
WakeupOwed ==
    \A e \in Emails : (pending[e].queued /\ e \notin failed) => Reached(e)

\* A generation names one change: what the pass snapshotted under a
\* generation is what the queue holds under it (or the bare purge left of it),
\* so settling by generation (supersededLocked) never settles the change of
\* another mutation.
GenerationNamesChange ==
    \A e \in Emails :
        (pending[e].queued /\ snap[e].queued /\ snap[e].gen = pending[e].gen) =>
            /\ pending[e].id = snap[e].id
            /\ pending[e].purge = snap[e].purge
            /\ pending[e].ops \in {snap[e].ops, NoOps}

\* The failed badge is never orphaned: it stands for a change that is still
\* queued, so that a retry can clear it, or for a user some mutation is busy
\* with (takePending empties the queue and leaves the mark).
FailedIsOwed ==
    \A e \in failed :
        pending[e].queued \/ \E h \in Handlers : hpc[h] # "idle" /\ req[h].email = e

\* Every queued change is eventually applied, marked failed, or taken over by
\* a newer mutation: the loop serves the kicks of enqueueGen.
QueuedIsAttempted ==
    \A e \in Emails :
        (pending[e].queued /\ e \notin failed) ~> (~pending[e].queued \/ e \in failed)

(* The meaning of synced.                                                  *)

\* When Sync() answers synced and the panel has nothing left to do, the
\* inbounds that carry a user, in the file and on the running xray, are the
\* stored ones: no attachment was dropped by a merge of an edit with an
\* unfinished change (diffOps), none survived a detach.
SyncedAttachments ==
    Quiet /\ Synced =>
        \A e \in Emails, t \in file.inbounds :
            /\ (OnFile(e, t) # None) <=> (Due(e, t) # None)
            /\ xray.up /\ t \in xray.inbounds =>
                   ((OnXray(e, t) # None) <=> (Due(e, t) # None))

\* ... and they carry the stored Client ID: once Sync() answers synced no
\* superseded credential keeps authenticating, however the remove+add pairs
\* of the rotations failed on the way.
SyncedCredentials ==
    Quiet /\ Synced =>
        \A e \in Emails, t \in file.inbounds :
            /\ OnFile(e, t) = Due(e, t)
            /\ xray.up /\ t \in xray.inbounds => OnXray(e, t) = Due(e, t)

\* A user that Disable took off the Roster has no working credential, in the
\* file or on the running xray, once Sync() answers synced.
DisabledIsOut ==
    Quiet /\ Synced =>
        \A e \in Emails, t \in file.inbounds : Disabled(roster[e]) => Out(e, t)

\* A disabled user is not on the way back: no attach or rotate of theirs is
\* queued, unless a mutation of that user is in flight (Disable takes the
\* queued change over before it stores; convergence checks the roster in
\* enqueueIfLive before it queues).
DisabledNotRejoining ==
    \A e \in Emails :
        (roster[e].present /\ roster[e].disabled /\ \A h \in Handlers : req[h].email # e) =>
            \A t \in Tags : pending[e].ops[t] \notin {"attach", "rotate"}

(* Convergence and adoption.                                               *)

\* Hand edits of the config are adopted or reverted: at rest the store and the
\* file name the same attachments, whatever clients or inbounds were added to
\* the file or stripped from it (adoptClients merges, converge re-renders and
\* prunes).
StoreAndFileAgree ==
    Quiet /\ Synced =>
        \A e \in Emails, t \in file.inbounds :
            (OnFile(e, t) # None) <=> (Due(e, t) # None)

\* Store wins: an attachment stripped from the file is rendered back by a
\* convergence, unless the store gives it up or the inbound goes meanwhile.
StoreWins ==
    \A e \in Emails, t \in Tags :
        (t \in file.inbounds /\ Due(e, t) # None /\ OnFile(e, t) = None) ~>
            (t \notin file.inbounds \/ Due(e, t) = None \/ OnFile(e, t) # None)

(* The store.                                                              *)

\* The dashboard's users row follows the roster row through the paired
\* UPDATEs of the store's transactions: disabled exactly when the user is off
\* the Roster.
UsersFollowRoster ==
    \A e \in Emails :
        roster[e].present => users[e] = (IF roster[e].disabled THEN "disabled" ELSE "live")

\* No two roster rows, disabled or deleting ones included, claim one Client
\* ID: AddRosterUser and EditRosterUser refuse a taken one.
UniqueClientIDs ==
    \A e, f \in Emails :
        (e # f /\ roster[e].present /\ roster[f].present) => roster[e].id # roster[f].id

\* The delete's two phases in order: PurgeRosterUser erases the row only when
\* neither the file nor the running xray carries the user any more.
PurgeLeavesNothing ==
    [][\A e \in Emails :
         (roster[e].present /\ ~roster'[e].present) => \A t \in file.inbounds : Out(e, t)]_vars

\* A stored delete is final: nothing un-marks a row that is being deleted, it
\* only ever disappears (Add refuses the email; an Enable, an Edit or an
\* adoption that was under way when Delete marked the row leaves the mark).
DeleteIsFinal ==
    [][\A e \in Emails :
         Deleting(roster[e]) => (Deleting(roster'[e]) \/ ~roster'[e].present)]_vars

\* A delete that was stored completes, restarts of the panel included:
\* recoverDeletes queues an interrupted one again.
DeleteCompletes ==
    \A e \in Emails : Deleting(roster[e]) ~> ~Deleting(roster[e])
=============================================================================
