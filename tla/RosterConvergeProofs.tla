------------------------- MODULE RosterConvergeProofs -------------------------
(***************************************************************************)
(* Hand edits of the config against the store, for every set of emails,    *)
(* inbounds and Client IDs and any number of hand edits and of mutations:  *)
(* what the operator adds to the file is adopted, what is stripped from it *)
(* is rendered back, and at rest the two agree, while the reload, the      *)
(* collector's sample and flush, the convergence and the passes it asks    *)
(* for interleave in any order.                                            *)
(***************************************************************************)
EXTENDS RosterServiceProofs

USE DEF storeVars, watchVars, collectorVars, queueVars, passVars, convergeVars,
        loopVars, handlerVars

-----------------------------------------------------------------------------
(* The scenario of the run roster_converge: requests and hand edits find   *)
(* the panel at rest, xray runs and serves every inbound the file may name,*)
(* no call fails, and nobody is disabled.                                  *)
HandsOn ==
    /\ Spaced = TRUE /\ Adoption = TRUE /\ InitInbounds = Tags
    /\ "disable" \notin Kinds
    /\ MaxFailures = 0 /\ MaxStoreFailures = 0 /\ MaxRestarts = 0 /\ MaxCrashes = 0

-----------------------------------------------------------------------------
(* The inductive invariant.                                                *)

Busy(h) == hpc[h] # "idle"
PassPCs == {"apply", "render", "write", "pick", "push"}
RecordPCs == {"next", "prune", "pruneWrite", "check", "enqueue"}

\* Nothing is on its way from the file.
Calm == dirty = FALSE /\ changes = FALSE /\ fresh = FALSE /\ sampled.has = FALSE

\* A request at work has the panel to itself.
Alone ==
    /\ \A g, h \in Handlers : Busy(g) /\ Busy(h) => g = h
    /\ \A h \in Handlers : Busy(h) =>
          /\ lpc = "select" /\ kick = FALSE /\ Calm
          /\ hpc[h] # "kick" => Queued = {}

\* xray serves every inbound, nothing has failed.
Steady ==
    /\ xray.up = TRUE /\ xray.inbounds = Tags /\ failed = {}
    /\ parse.loaded = TRUE
    /\ lpc # "boot" => lastRunning = TRUE

Has(clients, e, t) == clients[t][e] # None
Stored(e, t) == Live(roster[e]) /\ t \in roster[e].inbounds
Joins(op) == op \in {"attach", "rotate"}

\* What has been read of the file: a parse is old only while an event is
\* pending, and what the collector is about to adopt is in the file.
Reading ==
    /\ \A t \in Tags \ file.inbounds, e \in Emails : file.clients[t][e] = None
    /\ dirty = FALSE => parse.clients = file.clients
    /\ parse.inbounds # file.inbounds =>
          dirty = TRUE /\ changes = FALSE /\ kick = FALSE /\ lpc = "select"
    /\ \A e \in Emails, t \in Tags :
          /\ fresh = TRUE /\ Has(parse.clients, e, t) => Has(file.clients, e, t)
          /\ sampled.has = TRUE /\ Has(sampled.clients, e, t) => Has(file.clients, e, t)

RowOK(row) ==
    /\ row.present = FALSE => row = AbsentRow
    /\ row.present = TRUE => row.id \in Ids
    /\ row.disabled = row.deleting
Rows == \A e \in Emails : RowOK(roster[e])

WellFormed(row, ops, id, purge) ==
    /\ (\E t \in Tags : Joins(ops[t])) => id \in Ids
    /\ IF purge = TRUE THEN Deleting(row) ELSE Live(row)
QueueOf(e) ==
    IF pending[e].queued = TRUE
    THEN WellFormed(roster[e], pending[e].ops, pending[e].id, pending[e].purge)
    ELSE pending[e] = NoChange
Queues == \A e \in Emails : QueueOf(e)

\* The collector has still to adopt the client.
Adopting(e, t) ==
    \/ ~Has(parse.clients, e, t)
    \/ fresh = TRUE
    \/ sampled.has = TRUE /\ Has(sampled.clients, e, t)

\* A convergence is on its way: one that starts, one that read a file without
\* the client, or one that has the client's record still before it.
Coming ==
    \/ dirty = TRUE \/ changes = TRUE \/ lpc = "converge"
    \/ lpc \in PassPCs /\ thenConverge = TRUE
Repairing(e, t) ==
    \/ Coming
    \/ lpc \in {"view", "list"} /\ ~Has(cdoc.clients, e, t)
    \/ /\ lpc \in RecordPCs /\ ~Has(cdoc.clients, e, t)
       /\ recs[e].present = TRUE /\ t \in recs[e].inbounds

\* The operations agree with the store.
Agreeing(e, ops) ==
    \A t \in file.inbounds : /\ Joins(ops[t]) => Stored(e, t)
                             /\ ops[t] = "detach" => ~Stored(e, t)

\* The operations are all that is missing ...
Exact(e, ops) ==
    /\ Agreeing(e, ops)
    /\ \A t \in file.inbounds :
          /\ Has(file.clients, e, t) /\ ~Stored(e, t) => ops[t] = "detach"
          /\ Stored(e, t) /\ ~Has(file.clients, e, t) => Joins(ops[t])

Exactly(e) ==
    /\ Exact(e, pending[e].ops)
    /\ roster[e].disabled = TRUE => pending[e].queued = TRUE

\* ... or what is missing besides is being adopted or repaired.
Surplus(e, t) == Has(file.clients, e, t) /\ ~Stored(e, t) /\ pending[e].ops[t] # "detach"
Missing(e, t) == Stored(e, t) /\ ~Has(file.clients, e, t) /\ ~Joins(pending[e].ops[t])
Covered(e) ==
    /\ Agreeing(e, pending[e].ops)
    /\ roster[e].disabled = TRUE => pending[e].queued = TRUE
    /\ \A t \in file.inbounds :
          /\ Surplus(e, t) => roster[e].disabled = FALSE /\ Adopting(e, t)
          /\ Missing(e, t) => Repairing(e, t)

\* A mutation of the user has written the row and not queued its change yet.
Ahead(e) == \E h \in Handlers : req[h].email = e /\ hpc[h] \in {"editTake", "enqueue"}
Owed == \A e \in Emails : Ahead(e) \/ Covered(e)

\* While a detach has still to be rendered, nothing is read from the file.
Detaching(e, t) == pending[e].ops[t] = "detach" /\ Has(file.clients, e, t)
Orders ==
    \A e \in Emails, t \in file.inbounds : Detaching(e, t) =>
        Calm /\ lpc \in {"select", "apply", "render", "write"}

\* A row names an inbound that left the file only until a convergence prunes
\* it; until then there is nothing to adopt for its user.
Over(e) == Live(roster[e]) /\ ~(roster[e].inbounds \subseteq file.inbounds)
Pruning(e) ==
    \/ Coming
    \/ lpc \in {"view", "list"}
    \/ /\ lpc \in RecordPCs /\ recs[e].present = TRUE
       /\ recs[e].inbounds = roster[e].inbounds \/ (lpc = "pruneWrite" /\ cur = e)
Trimmed ==
    \A e \in Emails : Over(e) =>
        /\ Pruning(e)
        /\ \A t \in file.inbounds : Has(file.clients, e, t) => t \in roster[e].inbounds

\* A pass works on the queue as it is, and settles what landed in the file.
InPass(e) == e \in todo \/ (lpc = "push" /\ e = cur)
Landed(e) ==
    \A t \in file.inbounds :
        /\ Joins(pending[e].ops[t]) => Has(file.clients, e, t)
        /\ pending[e].ops[t] = "detach" => ~Has(file.clients, e, t)
Passing ==
    /\ lpc \in {"render", "write"} => snap = pending /\ todo = Queued
    /\ lpc = "write" => doc = RenderClients(file, snap)
    /\ lpc \in {"pick", "push"} =>
          \A e \in Emails : /\ InPass(e) => snap[e] = pending[e] /\ Landed(e)
                            /\ InPass(e) <=> pending[e].queued = TRUE
    /\ lpc = "push" => cur \notin todo

\* A convergence works on records that the rows still include.
RecordOK(e) ==
    recs[e].present = TRUE =>
        /\ Live(roster[e]) /\ pending[e].queued = FALSE /\ recs[e].id \in Ids
        /\ recs[e].inbounds \cap file.inbounds \subseteq roster[e].inbounds
        /\ recs[e].inbounds \subseteq file.inbounds \/ recs[e].inbounds = roster[e].inbounds
Converging ==
    /\ lpc \in {"boot", "recover", "converge", "view", "list"} => Queued = {}
    /\ lpc = "boot" => \A e \in Emails : ~Deleting(roster[e])
    /\ lpc = "recover" => recs = NoRecords
    /\ lpc = "list" => cdoc.inbounds = file.inbounds
    /\ lpc \in RecordPCs => cdoc.inbounds = file.inbounds /\ \A e \in Emails : RecordOK(e)
    /\ lpc \in RecordPCs \ {"next"} => recs[cur].present = TRUE
    /\ lpc = "prune" => ~(recs[cur].inbounds \subseteq file.inbounds)
    /\ lpc = "pruneWrite" =>
          Over(cur) /\ recs[cur].inbounds = roster[cur].inbounds \cap file.inbounds
    /\ lpc \in {"check", "enqueue"} => recs[cur].inbounds \subseteq file.inbounds

\* What a handler knows at each of its steps.
KnownTo(h) ==
    LET r == req[h]
        row == roster[r.email]
    IN
    /\ hpc[h] \notin {"disableTake", "disableStore", "enableStore"}
    /\ hpc[h] \in {"editCheck", "editWrite", "editTake"} =>
          /\ r.kind # "enable" /\ r.purge = FALSE
          /\ Live(row) /\ r.tags \subseteq file.inbounds
    /\ hpc[h] \in {"editCheck", "editWrite", "deleteTake"} => r.row.inbounds = row.inbounds
    /\ hpc[h] \in {"editWrite", "editTake"} => r.id \in Ids
    /\ hpc[h] = "editTake" =>
          /\ row.inbounds = r.tags
          /\ \A t \in file.inbounds : Has(file.clients, r.email, t) <=> t \in r.row.inbounds
    /\ hpc[h] \in {"deleteTake", "deleteMark"} => r.purge = TRUE /\ Live(row)
    /\ hpc[h] = "deleteMark" => r.ops = DetachOps(row.inbounds)
    /\ hpc[h] = "enqueue" =>
          WellFormed(row, r.ops, r.id, r.purge) /\ Exact(r.email, r.ops)
Handled == \A h \in Handlers : KnownTo(h)

ConvergeInv ==
    /\ Alone /\ Steady /\ Reading /\ Rows /\ Queues /\ Owed /\ Orders /\ Trimmed
    /\ Passing /\ Converging /\ Handled

-----------------------------------------------------------------------------
(* Facts about the operators.                                              *)

\* The faults the scenario leaves out do not happen.
LEMMA NothingFails ==
    ASSUME HandsOn, SpentOK
    PROVE  /\ ~Spend("failures") /\ ~Spend("storeFailures")
           /\ ~Spend("restarts") /\ ~Spend("crashes")
<1>1. /\ Bounds["failures"] = 0 /\ Bounds["storeFailures"] = 0
      /\ Bounds["restarts"] = 0 /\ Bounds["crashes"] = 0
  BY DEF Bounds, HandsOn
<1>2. /\ spent["failures"] \in Nat /\ spent["storeFailures"] \in Nat
      /\ spent["restarts"] \in Nat /\ spent["crashes"] \in Nat
  BY DEF SpentOK, Bounds
<1> QED
  BY <1>1, <1>2 DEF Spend

\* Nothing is pending for a user without a change.
LEMMA NoChangeOps ==
    /\ NoChange.queued = FALSE /\ NoChange.ops = NoOps
    /\ \A t \in Tags : NoOps[t] = "none"
  BY DEF NoChange, NoOps

\* The types that the proofs use all the time.
LEMMA Parts ==
    ASSUME TypeOK
    PROVE  /\ file.inbounds \subseteq Tags /\ parse.inbounds \subseteq Tags
           /\ dirty \in BOOLEAN /\ changes \in BOOLEAN /\ fresh \in BOOLEAN /\ kick \in BOOLEAN
           /\ sampled.has \in BOOLEAN /\ thenConverge \in BOOLEAN
           /\ \A e \in Emails : /\ roster[e] \in Row /\ pending[e] \in Change
                                /\ pending[e].ops \in Ops /\ pending[e].queued \in BOOLEAN
                                /\ roster[e].present \in BOOLEAN /\ roster[e].disabled \in BOOLEAN
                                /\ roster[e].deleting \in BOOLEAN /\ roster[e].inbounds \subseteq Tags
  BY DEF TypeOK, StoreOK, FilesOK, QueueOK, LoopOK, Document, Parse, Sampled, Change, Row

\* With nothing on its way from the file, the queue is all that is missing.
LEMMA CalmIsExact ==
    ASSUME ConvergeInv, lpc = "select", Calm, NEW e \in Emails, Covered(e)
    PROVE  Exact(e, pending[e].ops) /\ ~Over(e)
<1>1. parse.clients = file.clients
  BY DEF ConvergeInv, Reading, Calm
<1>2. \A t \in file.inbounds : ~Repairing(e, t) /\ (Has(file.clients, e, t) => ~Adopting(e, t))
  BY <1>1 DEF Repairing, Coming, Adopting, Calm, PassPCs, RecordPCs
<1>3. ~Over(e)
  BY DEF ConvergeInv, Trimmed, Pruning, Coming, Calm, PassPCs, RecordPCs
<1> QED
  BY <1>2, <1>3 DEF Covered, Exact, Surplus, Missing

\* At rest the queue is empty, and the file and the store name the same
\* attachments.
LEMMA AtRest ==
    ASSUME TypeOK, HandsOn, ConvergeInv, WakeupOwed, Quiet
    PROVE  /\ lpc = "select" /\ kick = FALSE /\ Calm /\ Queued = {}
           /\ parse.inbounds = file.inbounds /\ parse.clients = file.clients
           /\ \A h \in Handlers : hpc[h] = "idle"
           /\ \A e \in Emails : /\ pending[e] = NoChange /\ ~Over(e)
                                /\ roster[e].disabled = FALSE /\ roster[e].deleting = FALSE
                                /\ \A t \in file.inbounds : Has(file.clients, e, t) <=> Stored(e, t)
<1>1. /\ lpc = "select" /\ kick = FALSE /\ Calm /\ \A h \in Handlers : hpc[h] = "idle"
  BY Parts DEF Quiet, Calm, HandsOn
<1>2. parse.inbounds = file.inbounds /\ parse.clients = file.clients
  BY <1>1 DEF ConvergeInv, Reading, Calm
<1>3. ASSUME NEW e \in Emails PROVE pending[e].queued = FALSE
  <2>1. ~Reached(e)
    BY <1>1 DEF Reached
  <2> QED
    BY <2>1, Parts DEF WakeupOwed, ConvergeInv, Steady
<1>4. ASSUME NEW e \in Emails
      PROVE  /\ pending[e] = NoChange /\ ~Over(e)
             /\ roster[e].disabled = FALSE /\ roster[e].deleting = FALSE
             /\ \A t \in file.inbounds : Has(file.clients, e, t) <=> Stored(e, t)
  <2>1. pending[e] = NoChange
    BY <1>3 DEF ConvergeInv, Queues, QueueOf
  <2>2. Covered(e)
    BY <1>1 DEF ConvergeInv, Owed, Ahead
  <2>3. Exact(e, pending[e].ops) /\ ~Over(e)
    BY <1>1, <2>2, CalmIsExact
  <2>4. roster[e].disabled = FALSE /\ roster[e].deleting = FALSE
    BY <1>3, <2>2, Parts DEF Covered, ConvergeInv, Rows, RowOK
  <2>5. \A t \in file.inbounds : pending[e].ops[t] = "none"
    BY <2>1, NoChangeOps, Parts
  <2> QED
    BY <2>1, <2>3, <2>4, <2>5 DEF Exact, Joins
<1>5. Queued = {}
  BY <1>3 DEF Queued
<1> QED
  BY <1>1, <1>2, <1>4, <1>5

-----------------------------------------------------------------------------
(* The requests.                                                           *)

\* A step of one request touches nothing but its own user: what is to be shown
\* of the invariant is about that user and that request.
LEMMA RequestStep ==
    ASSUME TypeOK, ConvergeInv, NEW h \in Handlers, NEW e \in Emails,
           lpc = "select", Calm,
           \A g \in Handlers \ {h} : hpc[g] = "idle" /\ hpc'[g] = "idle",
           hpc[h] # "idle" => req[h].email = e,
           hpc'[h] # "idle" => req'[h].email = e /\ kick' = FALSE,
           hpc'[h] \notin {"idle", "kick"} => Queued' = {},
           \A f \in Emails \ {e} : roster'[f] = roster[f] /\ pending'[f] = pending[f],
           failed' = failed, parse.inbounds = file.inbounds,
           UNCHANGED <<file, xray, watchVars, collectorVars, loopVars>>,
           RowOK(roster'[e]), QueueOf(e)', Ahead(e)' \/ Exactly(e)', KnownTo(h)', ~Over(e)'
    PROVE  ConvergeInv'
<1>1. Alone'
  BY DEF Alone, Busy, Calm
<1>2. Steady' /\ Reading' /\ Passing' /\ Converging'
  BY DEF ConvergeInv, Steady, Reading, Passing, Converging, RecordPCs
<1>3. Rows'
  BY DEF ConvergeInv, Rows
<1>4. Queues'
  <2>1. ASSUME NEW f \in Emails, f # e PROVE QueueOf(f)'
    BY <2>1 DEF ConvergeInv, Queues, QueueOf
  <2> QED
    BY <2>1 DEF Queues
<1>5. ASSUME NEW f \in Emails, f # e PROVE Covered(f)
  BY <1>5 DEF Ahead, ConvergeInv, Owed
<1>6. Owed'
  <2>1. ASSUME NEW f \in Emails, f # e PROVE Covered(f)'
    <3>1. Covered(f) /\ roster'[f] = roster[f] /\ pending'[f] = pending[f]
      BY <1>5, <2>1
    <3>2. \A t : (Adopting(f, t) <=> Adopting(f, t)') /\ (Repairing(f, t) <=> Repairing(f, t)')
      BY DEF Adopting, Repairing, Coming
    <3>3. \A t : Stored(f, t)' <=> Stored(f, t)
      BY <3>1 DEF Stored
    <3> QED
      BY <3>1, <3>2, <3>3 DEF Covered, Agreeing, Surplus, Missing
  <2>2. Exactly(e)' => Covered(e)'
    BY DEF Exactly, Exact, Covered, Surplus, Missing
  <2> QED
    BY <2>1, <2>2 DEF Owed
<1>7. Orders'
  BY DEF Orders, Calm
<1>8. Trimmed'
  <2>1. ASSUME NEW f \in Emails, f # e PROVE ~Over(f)'
    <3>1. ~Over(f)
      BY <1>5, <2>1, CalmIsExact
    <3> QED
      BY <2>1, <3>1 DEF Over
  <2> QED
    BY <2>1 DEF Trimmed
<1>9. Handled'
  <2>1. ASSUME NEW g \in Handlers, g # h PROVE KnownTo(g)'
    BY <2>1 DEF KnownTo
  <2> QED
    BY <2>1 DEF Handled
<1> QED
  BY <1>1, <1>2, <1>3, <1>4, <1>6, <1>7, <1>8, <1>9 DEF ConvergeInv

\* What a request at work finds.
LEMMA Working ==
    ASSUME TypeOK, ConvergeInv, NEW h \in Handlers, hpc[h] # "idle"
    PROVE  /\ lpc = "select" /\ Calm /\ kick = FALSE /\ parse.inbounds = file.inbounds
           /\ req[h] \in Request /\ req[h].email \in Emails /\ KnownTo(h)
           /\ \A g \in Handlers \ {h} : hpc[g] = "idle"
           /\ hpc[h] # "kick" => Queued = {} /\ pending[req[h].email] = NoChange
           /\ RowOK(roster[req[h].email])
<1>1. /\ lpc = "select" /\ Calm /\ kick = FALSE /\ \A g \in Handlers \ {h} : hpc[g] = "idle"
      /\ hpc[h] # "kick" => Queued = {}
  BY DEF ConvergeInv, Alone, Busy
<1>2. parse.inbounds = file.inbounds
  BY <1>1 DEF ConvergeInv, Reading, Calm
<1>3. req[h] \in Request /\ req[h].email \in Emails /\ KnownTo(h)
  BY DEF TypeOK, HandlersOK, ConvergeInv, Handled
<1>4. hpc[h] # "kick" => pending[req[h].email] = NoChange
  BY <1>1, <1>3, Parts DEF Queued, ConvergeInv, Queues, QueueOf
<1> QED
  BY <1>1, <1>2, <1>3, <1>4 DEF ConvergeInv, Rows

\* Before a request has written anything the file is as the store says.
LEMMA WorkingExactly ==
    ASSUME TypeOK, ConvergeInv, NEW h \in Handlers, hpc[h] \notin {"idle", "editTake", "enqueue"}
    PROVE  /\ Exactly(req[h].email) /\ ~Over(req[h].email)
           /\ hpc[h] # "kick" =>
                 \A t \in file.inbounds :
                    Has(file.clients, req[h].email, t) <=> Stored(req[h].email, t)
<1> DEFINE e == req[h].email
<1>1. /\ lpc = "select" /\ Calm /\ e \in Emails
      /\ hpc[h] # "kick" => pending[e] = NoChange
      /\ \A g \in Handlers \ {h} : hpc[g] = "idle"
  BY Working
<1>2. Covered(e)
  BY <1>1 DEF ConvergeInv, Owed, Ahead
<1>3. Exact(e, pending[e].ops) /\ ~Over(e)
  BY <1>1, <1>2, CalmIsExact
<1>4. Exactly(e)
  BY <1>2, <1>3 DEF Exactly, Covered
<1>5. ASSUME hpc[h] # "kick", NEW t \in file.inbounds
      PROVE  Has(file.clients, e, t) <=> Stored(e, t)
  <2>1. pending[e].ops[t] = "none"
    BY <1>1, <1>5, NoChangeOps, Parts
  <2> QED
    BY <1>3, <2>1 DEF Exact, Joins
<1> QED
  BY <1>3, <1>4, <1>5

\* Taking over a change that is not there leaves the queue.
LEMMA TakesNothing ==
    ASSUME TypeOK, NEW e \in Emails, pending[e] = NoChange, TakePending(e)
    PROVE  pending' = pending /\ failed' = failed
  BY DEF TakePending, TypeOK, QueueOK

\* The answers and the kick: nothing changes but the request.
LEMMA RequestEnds ==
    ASSUME TypeOK, ConvergeInv, NEW h \in Handlers, hpc[h] \notin {"idle", "editTake", "enqueue"},
           Answer(h), UNCHANGED <<storeVars, file, xray, watchVars, collectorVars, queueVars, loopVars>>
    PROVE  ConvergeInv'
<1>e. PICK e \in Emails : e = req[h].email
  BY Working DEF EditCheck, EditWrite
<1>1. /\ lpc = "select" /\ Calm /\ parse.inbounds = file.inbounds
      /\ e \in Emails /\ \A g \in Handlers \ {h} : hpc[g] = "idle"
  BY <1>e, Working
<1>2. hpc'[h] = "idle" /\ \A g \in Handlers \ {h} : hpc'[g] = hpc[g]
  BY <1>e DEF Answer, Goto, TypeOK, HandlersOK
<1>3. Exactly(e)' /\ ~Over(e)'
  BY <1>e, WorkingExactly DEF Exactly, Exact, Agreeing, Stored, Over
<1>4. RowOK(roster'[e]) /\ QueueOf(e)'
  BY <1>e, <1>1 DEF ConvergeInv, Rows, Queues, QueueOf
<1>5. KnownTo(h)'
  BY <1>e, <1>2 DEF KnownTo
<1> QED
  BY <1>e, <1>1, <1>2, <1>3, <1>4, <1>5, RequestStep

\* The reads and the write of an edit.
LEMMA EditSteps ==
    ASSUME TypeOK, ConvergeInv, NEW h \in Handlers, EditCheck(h) \/ EditWrite(h)
    PROVE  ConvergeInv'
<1>e. PICK e \in Emails : e = req[h].email
  BY Working DEF EditCheck, EditWrite
<1>1. hpc[h] \in {"editCheck", "editWrite"}
  BY <1>e DEF EditCheck, EditWrite
<1>2. /\ lpc = "select" /\ Calm /\ kick = FALSE /\ parse.inbounds = file.inbounds
      /\ e \in Emails /\ Queued = {} /\ pending[e] = NoChange
      /\ \A g \in Handlers \ {h} : hpc[g] = "idle"
  BY <1>e, <1>1, Working
<1>3. /\ req[h].kind # "enable" /\ req[h].purge = FALSE /\ Live(roster[e])
      /\ req[h].tags \subseteq file.inbounds /\ req[h].row.inbounds = roster[e].inbounds
  BY <1>e, <1>1, Working DEF KnownTo
<1>4. Exactly(e) /\ ~Over(e) /\ \A t \in file.inbounds : Has(file.clients, e, t) <=> Stored(e, t)
  BY <1>e, <1>1, WorkingExactly
<1>5. \A t \in file.inbounds : Has(file.clients, e, t) <=> t \in req[h].row.inbounds
  BY <1>e, <1>3, <1>4 DEF Stored
<1>6. AfterEdit(req[h]) = "editTake"
  BY <1>e, <1>3 DEF AfterEdit
<1>7. req[h] \in Request /\ hpc \in [Handlers -> HandlerPCs] /\ req \in [Handlers -> Request]
  BY <1>e DEF TypeOK, HandlersOK
<1>8. ASSUME NEW id \in Ids, EditCheck(h), req' = [req EXCEPT ![h].id = id],
             \/ Goto(h, "editWrite")
             \/ Goto(h, "editTake") /\ req[h].tags = roster[e].inbounds
      PROVE  ConvergeInv'
  <2>1. UNCHANGED <<storeVars, file, xray, watchVars, collectorVars, queueVars, kick, loopVars>>
    BY <1>e, <1>8 DEF EditCheck
  <2>2. /\ hpc'[h] \in {"editWrite", "editTake"} /\ \A g \in Handlers \ {h} : hpc'[g] = hpc[g]
        /\ hpc'[h] = "editTake" => req[h].tags = roster[e].inbounds
    BY <1>e, <1>7, <1>8 DEF Goto
  <2>3. /\ req'[h].email = e /\ req'[h].id = id /\ req'[h].tags = req[h].tags
        /\ req'[h].row = req[h].row /\ req'[h].kind = req[h].kind /\ req'[h].purge = req[h].purge
    BY <1>e, <1>7, <1>8 DEF Request
  <2>4. KnownTo(h)'
    BY <1>e, <1>3, <1>5, <2>1, <2>2, <2>3 DEF KnownTo
  <2>5. Exactly(e)' /\ ~Over(e)'
    BY <1>e, <1>4, <2>1 DEF Exactly, Exact, Agreeing, Stored, Over
  <2>6. RowOK(roster'[e]) /\ QueueOf(e)' /\ Queued' = {}
    BY <1>e, <1>2, <2>1 DEF ConvergeInv, Rows, Queues, QueueOf, Queued
  <2> QED
    BY <1>e, <1>1, <1>2, <2>1, <2>2, <2>3, <2>4, <2>5, <2>6, RequestStep
<1>9. CASE EditCheck(h)
  <2> DEFINE id == IF req[h].id = None THEN roster[e].id ELSE req[h].id
  <2>1. id \in Ids
    <3>1. roster[e].id \in Ids
      BY <1>e, <1>2, <1>3, Parts DEF ConvergeInv, Rows, RowOK, Live
    <3> QED
      BY <1>e, <1>7, <3>1 DEF Request, MaybeId
  <2>2. CASE Answer(h)
    BY <1>e, <1>1, <1>9, <2>2, RequestEnds DEF EditCheck
  <2>3. CASE req' = [req EXCEPT ![h].id = id] /\ Goto(h, "editWrite")
    <3> HIDE DEF id
    <3> QED
      BY <1>e, <1>8, <1>9, <2>1, <2>3
  <2>4. CASE /\ req' = [req EXCEPT ![h].id = id] /\ Goto(h, "editTake")
             /\ req[h].tags = roster[e].inbounds
    <3> HIDE DEF id
    <3> QED
      BY <1>e, <1>8, <1>9, <2>1, <2>4
  <2> QED
    BY <1>e, <1>6, <1>9, <2>2, <2>3, <2>4 DEF EditCheck
<1>10. CASE EditWrite(h)
  <2>1. UNCHANGED <<file, xray, watchVars, collectorVars, queueVars, kick, loopVars, req>>
    BY <1>e, <1>6, <1>10 DEF EditWrite
  <2>2. hpc'[h] = "editTake" /\ \A g \in Handlers \ {h} : hpc'[g] = hpc[g]
    BY <1>e, <1>6, <1>7, <1>10 DEF EditWrite, Goto
  <2>3. /\ roster'[e] = [roster[e] EXCEPT !.id = req[h].id, !.inbounds = req[h].tags]
        /\ \A f \in Emails \ {e} : roster'[f] = roster[f]
    BY <1>e, <1>2, <1>3, <1>10 DEF EditWrite, EditRosterUser, TypeOK, StoreOK, Live
  <2>4. /\ roster'[e].present = TRUE /\ roster'[e].id = req[h].id /\ roster'[e].inbounds = req[h].tags
        /\ roster'[e].disabled = roster[e].disabled /\ roster'[e].deleting = roster[e].deleting
    BY <1>e, <1>2, <1>3, <2>3, Parts DEF Row, Live
  <2>5. req[h].id \in Ids
    BY <1>e, <1>10, Working DEF EditWrite, KnownTo
  <2>6. Live(roster'[e])
    BY <1>e, <1>3, <2>4 DEF Live
  <2>7. KnownTo(h)'
    BY <1>e, <1>3, <1>5, <2>1, <2>2, <2>4, <2>5, <2>6 DEF KnownTo
  <2>8. RowOK(roster'[e]) /\ QueueOf(e)' /\ Queued' = {}
    BY <1>e, <1>2, <2>1, <2>4, <2>5, NoChangeOps DEF ConvergeInv, Rows, RowOK, QueueOf, Queued
  <2>9. Ahead(e)' /\ ~Over(e)'
    BY <1>e, <1>3, <2>1, <2>2, <2>4 DEF Ahead, Over
  <2> QED
    BY <1>e, <1>1, <1>2, <2>1, <2>2, <2>3, <2>7, <2>8, <2>9, RequestStep
<1> QED
  BY <1>e, <1>9, <1>10

\* The plan of an edit: with nothing queued, from the record read to the selection.
LEMMA EditTakeStep ==
    ASSUME TypeOK, ConvergeInv, NEW h \in Handlers, EditTake(h)
    PROVE  ConvergeInv'
<1>e. PICK e \in Emails : e = req[h].email
  BY Working DEF EditTake
<1> DEFINE r == req[h]
           ops == DiffOps(r.row, r.id, r.tags, pending[r.email].ops)
<1>1. /\ lpc = "select" /\ Calm /\ kick = FALSE /\ parse.inbounds = file.inbounds
      /\ Queued = {} /\ pending[e] = NoChange /\ RowOK(roster[e])
      /\ \A g \in Handlers \ {h} : hpc[g] = "idle"
  BY <1>e, Working DEF EditTake
<1>2. /\ r.purge = FALSE /\ Live(roster[e]) /\ r.tags \subseteq file.inbounds /\ r.id \in Ids
      /\ roster[e].inbounds = r.tags
      /\ \A t \in file.inbounds : Has(file.clients, e, t) <=> t \in r.row.inbounds
  BY <1>e, Working DEF EditTake, KnownTo
<1>3. hpc \in [Handlers -> HandlerPCs] /\ req \in [Handlers -> Request]
  BY DEF TypeOK, HandlersOK
<1>4. /\ UNCHANGED <<storeVars, file, xray, watchVars, collectorVars, kick, loopVars>>
      /\ pending' = pending /\ failed' = failed
  BY <1>e, <1>1, TakesNothing DEF EditTake
<1>5. \A t \in Tags : pending[r.email].ops[t] = "none"
  BY <1>e, <1>1, NoChangeOps
<1>6. \A t \in Tags :
          /\ ops[t] = "detach" <=> t \in r.row.inbounds \ r.tags
          /\ Joins(ops[t]) => t \in r.tags
          /\ t \in r.tags \ r.row.inbounds => Joins(ops[t])
  BY <1>5 DEF DiffOps, Joins
<1>7. \A t : Stored(e, t) <=> t \in r.tags
  BY <1>2 DEF Stored
<1> HIDE DEF ops
<1>8. ASSUME NEW o, \A t \in Tags : o[t] = ops[t] PROVE Exact(e, o)
  BY <1>2, <1>6, <1>7, <1>8, Parts DEF Exact, Agreeing
<1>9. ~Over(e)' /\ RowOK(roster'[e]) /\ QueueOf(e)' /\ Queued' = {}
  BY <1>1, <1>2, <1>4, NoChangeOps DEF Over, QueueOf, Queued
<1>10. CASE ops = NoOps /\ Answer(h)
  <2>1. hpc'[h] = "idle" /\ \A g \in Handlers \ {h} : hpc'[g] = hpc[g]
    BY <1>3, <1>10 DEF Answer, Goto
  <2>2. Exact(e, pending[e].ops)
    BY <1>e, <1>5, <1>8, <1>10, NoChangeOps
  <2>3. Exactly(e)'
    BY <1>2, <1>4, <2>2 DEF Exactly, Exact, Agreeing, Stored, Live
  <2>4. KnownTo(h)'
    BY <2>1 DEF KnownTo
  <2> QED
    BY <1>e, <1>1, <1>4, <1>9, <2>1, <2>3, <2>4, RequestStep
<1>11. CASE Goto(h, "enqueue") /\ req' = [req EXCEPT ![h].ops = ops]
  <2>1. hpc'[h] = "enqueue" /\ \A g \in Handlers \ {h} : hpc'[g] = hpc[g]
    BY <1>3, <1>11 DEF Goto
  <2>2. /\ req'[h].email = e /\ req'[h].id = r.id /\ req'[h].ops = ops /\ req'[h].purge = FALSE
    BY <1>e, <1>2, <1>3, <1>11 DEF Request
  <2>3. WellFormed(roster[e], ops, r.id, FALSE) /\ Exact(e, ops)
    BY <1>2, <1>8 DEF WellFormed
  <2>4. KnownTo(h)'
    BY <1>4, <2>1, <2>2, <2>3 DEF KnownTo, Exact, Agreeing, Stored
  <2>5. Ahead(e)'
    BY <2>1, <2>2 DEF Ahead
  <2> QED
    BY <1>e, <1>1, <1>4, <1>9, <2>1, <2>2, <2>4, <2>5, RequestStep
<1> QED
  BY <1>10, <1>11 DEF EditTake, ops

\* The steps of a delete, up to the mark of the row.
LEMMA DeleteSteps ==
    ASSUME TypeOK, ConvergeInv, NEW h \in Handlers,
           DeleteRead(h) \/ DeleteTake(h) \/ DeleteMark(h)
    PROVE  ConvergeInv'
<1>e. PICK e \in Emails : e = req[h].email
  BY Working DEF DeleteRead, DeleteTake, DeleteMark
<1> DEFINE r == req[h]
<1>1. hpc[h] \in {"deleteRead", "deleteTake", "deleteMark"}
  BY DEF DeleteRead, DeleteTake, DeleteMark
<1>2. /\ lpc = "select" /\ Calm /\ kick = FALSE /\ parse.inbounds = file.inbounds
      /\ Queued = {} /\ pending[e] = NoChange /\ RowOK(roster[e])
      /\ \A g \in Handlers \ {h} : hpc[g] = "idle"
  BY <1>e, <1>1, Working
<1>3. hpc \in [Handlers -> HandlerPCs] /\ req \in [Handlers -> Request]
  BY DEF TypeOK, HandlersOK
<1>4. Exactly(e) /\ ~Over(e) /\ \A t \in file.inbounds : Has(file.clients, e, t) <=> Stored(e, t)
  BY <1>e, <1>1, WorkingExactly
<1>5. CASE DeleteRead(h)
  <2>1. ~Disabled(roster[e])
    BY <1>2 DEF RowOK, Disabled
  <2> QED
    BY <1>e, <1>5, <2>1, RequestEnds DEF DeleteRead
<1>6. CASE DeleteTake(h)
  <2>1. r.purge = TRUE /\ Live(roster[e]) /\ r.row.inbounds = roster[e].inbounds
    BY <1>e, <1>6, Working DEF DeleteTake, KnownTo
  <2>2. /\ UNCHANGED <<storeVars, file, xray, watchVars, collectorVars, kick, loopVars>>
        /\ pending' = pending /\ failed' = failed
    BY <1>e, <1>2, <1>6, TakesNothing DEF DeleteTake
  <2>3. hpc'[h] = "deleteMark" /\ \A g \in Handlers \ {h} : hpc'[g] = hpc[g]
    BY <1>3, <1>6 DEF DeleteTake, Goto
  <2>4. Touched(pending[e].ops) = {}
    BY <1>2, NoChangeOps DEF Touched
  <2>5. DeleteOps(r.row, pending[e].ops) = DetachOps(roster[e].inbounds)
    BY <2>1, <2>4 DEF DeleteOps
  <2>6. req'[h].email = e /\ req'[h].ops = DetachOps(roster[e].inbounds) /\ req'[h].purge = TRUE
    BY <1>e, <1>3, <1>6, <2>1, <2>5 DEF DeleteTake, Request
  <2>7. KnownTo(h)'
    BY <2>1, <2>2, <2>3, <2>6 DEF KnownTo
  <2>8. Exactly(e)' /\ ~Over(e)'
    BY <1>4, <2>2 DEF Exactly, Exact, Agreeing, Stored, Over
  <2>9. RowOK(roster'[e]) /\ QueueOf(e)' /\ Queued' = {}
    BY <1>2, <2>2, NoChangeOps DEF QueueOf, Queued
  <2> QED
    BY <1>e, <1>2, <2>2, <2>3, <2>6, <2>7, <2>8, <2>9, RequestStep
<1>7. CASE DeleteMark(h)
  <2>1. r.purge = TRUE /\ Live(roster[e]) /\ r.ops = DetachOps(roster[e].inbounds)
    BY <1>e, <1>7, Working DEF DeleteMark, KnownTo
  <2>2. UNCHANGED <<file, xray, watchVars, collectorVars, queueVars, kick, loopVars, req>>
    BY <1>7 DEF DeleteMark
  <2>3. hpc'[h] = "enqueue" /\ \A g \in Handlers \ {h} : hpc'[g] = hpc[g]
    BY <1>3, <1>7 DEF DeleteMark, Goto
  <2>4. /\ roster'[e] = [roster[e] EXCEPT !.disabled = TRUE, !.deleting = TRUE]
        /\ \A f \in Emails \ {e} : roster'[f] = roster[f]
    BY <1>e, <1>7, <2>1 DEF DeleteMark, MarkRosterDeleting, TypeOK, StoreOK, Live
  <2>5. /\ roster'[e].present = TRUE /\ roster'[e].id = roster[e].id
        /\ roster'[e].disabled = TRUE /\ roster'[e].deleting = TRUE
    BY <2>1, <2>4, Parts DEF Row, Live
  <2>6. \A t \in Tags : /\ r.ops[t] = "detach" <=> t \in roster[e].inbounds
                        /\ ~Joins(r.ops[t])
    BY <2>1 DEF DetachOps, Joins
  <2>7. ~Live(roster'[e]) /\ Deleting(roster'[e])
    BY <2>5 DEF Live, Deleting
  <2>8. Exact(e, r.ops)'
    BY <1>4, <2>1, <2>2, <2>6, <2>7, Parts DEF Exact, Agreeing, Stored
  <2>9. WellFormed(roster'[e], r.ops, r.id, TRUE)
    BY <2>6, <2>7 DEF WellFormed
  <2>10. KnownTo(h)'
    BY <1>e, <2>1, <2>2, <2>3, <2>8, <2>9 DEF KnownTo
  <2>11. Ahead(e)' /\ ~Over(e)'
    BY <1>e, <2>2, <2>3, <2>7 DEF Ahead, Over
  <2>12. RowOK(roster'[e]) /\ QueueOf(e)' /\ Queued' = {}
    BY <1>2, <2>1, <2>2, <2>5, NoChangeOps, Parts DEF RowOK, QueueOf, Queued, Live
  <2> QED
    BY <1>e, <1>2, <2>2, <2>3, <2>4, <2>10, <2>11, <2>12, RequestStep
<1> QED
  BY <1>5, <1>6, <1>7

\* The change is queued, then the loop is kicked.
LEMMA EnqueueSteps ==
    ASSUME TypeOK, ConvergeInv, NEW h \in Handlers, Enqueue(h) \/ Kick(h)
    PROVE  ConvergeInv'
<1>e. PICK e \in Emails : e = req[h].email
  BY Working DEF Enqueue, Kick
<1> DEFINE r == req[h]
<1>1. CASE Kick(h)
  <2>1. hpc[h] = "kick" /\ Answer(h)
        /\ UNCHANGED <<storeVars, file, xray, watchVars, collectorVars, queueVars, loopVars>>
    BY <1>1 DEF Kick
  <2> QED
    BY <2>1, RequestEnds
<1>2. CASE Enqueue(h)
  <2>1. /\ lpc = "select" /\ Calm /\ kick = FALSE /\ parse.inbounds = file.inbounds
        /\ RowOK(roster[e]) /\ \A g \in Handlers \ {h} : hpc[g] = "idle"
        /\ WellFormed(roster[e], r.ops, r.id, r.purge) /\ Exact(e, r.ops)
    BY <1>e, <1>2, Working DEF Enqueue, KnownTo
  <2>2. UNCHANGED <<storeVars, file, xray, watchVars, collectorVars, kick, loopVars, req>>
    BY <1>2 DEF Enqueue
  <2>3. hpc'[h] = "kick" /\ \A g \in Handlers \ {h} : hpc'[g] = hpc[g]
    BY <1>2 DEF Enqueue, Goto, TypeOK, HandlersOK
  <2>4. /\ pending'[e].queued = TRUE /\ pending'[e].id = r.id /\ pending'[e].ops = r.ops
        /\ pending'[e].purge = r.purge /\ \A f \in Emails \ {e} : pending'[f] = pending[f]
        /\ failed' = failed
    <3>1. failed = {}
      BY DEF ConvergeInv, Steady
    <3> QED
      BY <1>e, <1>2, <3>1 DEF Enqueue, EnqueueGen, TypeOK, QueueOK
  <2>5. QueueOf(e)'
    BY <2>1, <2>2, <2>4 DEF QueueOf
  <2>6. Exactly(e)'
    BY <2>1, <2>2, <2>4 DEF Exactly, Exact, Agreeing, Stored
  <2>7. ~Over(e)'
    BY <2>1, <2>2 DEF ConvergeInv, Trimmed, Pruning, Coming, Calm, PassPCs, RecordPCs, Over
  <2>8. KnownTo(h)'
    BY <2>3 DEF KnownTo
  <2> QED
    BY <1>e, <2>1, <2>2, <2>3, <2>4, <2>5, <2>6, <2>7, <2>8, RequestStep
<1> QED
  BY <1>1, <1>2

\* A request that arrives.
LEMMA ArriveStep ==
    ASSUME TypeOK, HandsOn, ConvergeInv, WakeupOwed, NEW h \in Handlers, Arrive(h)
    PROVE  ConvergeInv'
<1>1. PICK e \in Emails :
          \/ \E id \in Ids, tags \in SUBSET Tags : Add(h, e, id, tags)
          \/ \E id \in MaybeId, tags \in SUBSET Tags : Edit(h, e, id, tags)
          \/ \E id \in MaybeId : Rotate(h, e, id)
          \/ Disable(h, e)
          \/ Delete(h, e)
          \/ Enable(h, e)
  BY DEF Arrive
<1>2. Quiet
  BY <1>1 DEF HandsOn, Add, Edit, Rotate, Disable, Delete, Enable, Begin
<1>3. /\ lpc = "select" /\ kick = FALSE /\ Calm /\ Queued = {} /\ parse.inbounds = file.inbounds
      /\ \A g \in Handlers : hpc[g] = "idle"
      /\ pending[e] = NoChange /\ ~Over(e) /\ roster[e].disabled = FALSE
      /\ \A t \in file.inbounds : Has(file.clients, e, t) <=> Stored(e, t)
  BY <1>2, AtRest
<1>4. /\ roster[e] \in Row /\ RowOK(roster[e])
      /\ NoRequest \in Request /\ AbsentRow \in Row
  BY NothingTypes, Parts DEF ConvergeInv, Rows
<1>5. Exact(e, pending[e].ops)
  <2>1. \A t \in file.inbounds : pending[e].ops[t] = "none"
    BY <1>3, NoChangeOps, Parts
  <2> QED
    BY <1>3, <2>1 DEF Exact, Agreeing, Joins
<1>6. ASSUME NEW kind, NEW r, NEW pc, Begin(h, kind, r, pc)
      PROVE  /\ UNCHANGED <<file, xray, watchVars, collectorVars, queueVars, kick, loopVars>>
             /\ hpc'[h] = pc /\ \A g \in Handlers \ {h} : hpc'[g] = "idle"
             /\ QueueOf(e)' /\ Queued' = {}
  <2>1. /\ UNCHANGED <<file, xray, watchVars, collectorVars, queueVars, kick, loopVars>>
        /\ Goto(h, pc)
    BY <1>6 DEF Begin
  <2> QED
    BY <1>3, <2>1, NoChangeOps DEF Goto, QueueOf, Queued, TypeOK, HandlersOK
<1>7. ASSUME NEW kind, NEW r, NEW pc, pc # "idle", Begin(h, kind, r, pc), req'[h].email = e,
             UNCHANGED storeVars, KnownTo(h)'
      PROVE  ConvergeInv'
  <2>1. /\ UNCHANGED <<file, xray, watchVars, collectorVars, queueVars, kick, loopVars>>
        /\ hpc'[h] = pc /\ \A g \in Handlers \ {h} : hpc'[g] = "idle"
        /\ QueueOf(e)' /\ Queued' = {}
    BY <1>6, <1>7
  <2>2. Exactly(e)' /\ ~Over(e)' /\ RowOK(roster'[e])
    BY <1>3, <1>4, <1>5, <1>7, <2>1 DEF Exactly, Exact, Agreeing, Stored, Over
  <2> QED
    BY <1>3, <1>7, <2>1, <2>2, RequestStep
<1>8. ASSUME NEW id \in Ids, NEW tags \in SUBSET Tags, Add(h, e, id, tags) PROVE ConvergeInv'
  <2> DEFINE r == [NoRequest EXCEPT !.email = e, !.id = id, !.ops = AttachOps(tags)]
             kind == IF roster[e].present THEN "revive" ELSE "add"
             pc == IF tags = {} THEN "idle" ELSE "enqueue"
  <2>1. roster[e] = AbsentRow
    BY <1>3, <1>4, <1>8, Parts DEF Add, AddConflict, RowOK
  <2>2. Begin(h, kind, r, pc) /\ tags \subseteq file.inbounds
    BY <1>3, <1>8 DEF Add
  <2>3. /\ UNCHANGED <<file, xray, watchVars, collectorVars, queueVars, kick, loopVars>>
        /\ hpc'[h] = pc /\ \A g \in Handlers \ {h} : hpc'[g] = "idle"
        /\ QueueOf(e)' /\ Queued' = {}
    <3> HIDE DEF kind, r, pc
    <3> QED
      BY <1>6, <2>2
  <2>4. /\ roster'[e] = [AbsentRow EXCEPT !.present = TRUE, !.id = id, !.inbounds = tags,
                                          !.disabled = FALSE]
        /\ \A f \in Emails \ {e} : roster'[f] = roster[f]
    BY <1>8, <2>1 DEF Add, AddRosterUser, TypeOK, StoreOK
  <2>5. /\ roster'[e].present = TRUE /\ roster'[e].id = id /\ roster'[e].inbounds = tags
        /\ roster'[e].disabled = FALSE /\ roster'[e].deleting = FALSE
    BY <2>4 DEF AbsentRow
  <2>6. \A t : (Stored(e, t)' <=> t \in tags) /\ Live(roster'[e])
    BY <2>5 DEF Stored, Live
  <2>7. \A t \in file.inbounds : ~Has(file.clients, e, t)
    BY <1>3, <2>1 DEF Stored, Live, AbsentRow
  <2>8. RowOK(roster'[e]) /\ ~Over(e)'
    BY <2>2, <2>3, <2>5 DEF RowOK, Over
  <2>9. CASE tags = {}
    <3>1. Exactly(e)'
      BY <1>3, <2>3, <2>5, <2>6, <2>7, <2>9, NoChangeOps, Parts
         DEF Exactly, Exact, Agreeing, Joins
    <3>2. KnownTo(h)'
      BY <2>3, <2>9 DEF KnownTo
    <3> QED
      BY <1>3, <2>3, <2>4, <2>8, <2>9, <3>1, <3>2, RequestStep
  <2>10. CASE tags # {}
    <3>1. r \in Request
      BY <1>4, PlanTypes DEF Request, MaybeId
    <3>2. /\ req'[h].email = e /\ req'[h].id = id /\ req'[h].ops = AttachOps(tags)
          /\ req'[h].purge = FALSE
      <4>1. /\ req'[h].email = r.email /\ req'[h].id = r.id /\ req'[h].ops = r.ops
            /\ req'[h].purge = r.purge
        <5>1. pc # "idle"
          BY <2>10
        <5> HIDE DEF kind, r, pc
        <5> QED
          BY <2>2, <3>1, <5>1, BeginRequest
      <4> QED
        BY <4>1 DEF NoRequest
    <3>3. \A t \in Tags : (Joins(AttachOps(tags)[t]) <=> t \in tags) /\ AttachOps(tags)[t] # "detach"
      BY DEF Joins, AttachOps
    <3>4. Exact(e, AttachOps(tags))'
      BY <2>3, <2>6, <2>7, <3>3, Parts DEF Exact, Agreeing
    <3>5. WellFormed(roster'[e], AttachOps(tags), id, FALSE)
      BY <2>6 DEF WellFormed
    <3>6. KnownTo(h)'
      BY <2>3, <2>10, <3>2, <3>4, <3>5 DEF KnownTo
    <3>7. Ahead(e)'
      BY <2>3, <2>10, <3>2 DEF Ahead
    <3> QED
      BY <1>3, <2>3, <2>4, <2>8, <2>10, <3>2, <3>6, <3>7, RequestStep
  <2> QED
    BY <2>9, <2>10
<1>9. ASSUME NEW id \in MaybeId, NEW tags \in SUBSET Tags, NEW row \in Row, NEW kind,
             Live(roster[e]), tags \subseteq file.inbounds, row.inbounds = roster[e].inbounds,
             kind # "enable", UNCHANGED storeVars,
             Begin(h, kind, [NoRequest EXCEPT !.email = e, !.id = id, !.tags = tags, !.row = row],
                   "editCheck")
      PROVE  ConvergeInv'
  <2> DEFINE r == [NoRequest EXCEPT !.email = e, !.id = id, !.tags = tags, !.row = row]
  <2>1. r \in Request
    BY <1>4 DEF Request
  <2>2. /\ req'[h].kind = kind /\ req'[h].email = r.email /\ req'[h].tags = r.tags
        /\ req'[h].row = r.row /\ req'[h].purge = r.purge
    <3>1. Begin(h, kind, r, "editCheck")
      BY <1>9
    <3> HIDE DEF r
    <3> QED
      BY <2>1, <3>1, BeginRequest
  <2>3. /\ req'[h].email = e /\ req'[h].tags = tags /\ req'[h].row = row /\ req'[h].purge = FALSE
    BY <2>2 DEF NoRequest
  <2>4. file' = file /\ hpc'[h] = "editCheck"
    BY <1>6, <1>9
  <2>5. KnownTo(h)'
    BY <1>9, <2>2, <2>3, <2>4 DEF KnownTo
  <2> QED
    BY <1>7, <1>9, <2>3, <2>5
<1>10. ASSUME NEW id \in MaybeId, NEW tags \in SUBSET Tags, Edit(h, e, id, tags)
       PROVE  ConvergeInv'
  BY <1>3, <1>4, <1>9, <1>10 DEF Edit
<1>11. ASSUME NEW id \in MaybeId, Rotate(h, e, id) PROVE ConvergeInv'
  <2> DEFINE kept == roster[e].inbounds \cap parse.inbounds
             row == [roster[e] EXCEPT !.inbounds = kept]
  <2>1. kept = roster[e].inbounds /\ kept \in SUBSET Tags /\ kept \subseteq file.inbounds
    BY <1>3, <1>11, Parts DEF Rotate, Over
  <2>2. row \in Row /\ row.inbounds = kept
    BY <1>4, <2>1 DEF Row
  <2>3. /\ Live(roster[e]) /\ UNCHANGED storeVars
        /\ Begin(h, "rotate", [NoRequest EXCEPT !.email = e, !.id = id, !.tags = kept, !.row = row],
                 "editCheck")
    BY <1>11 DEF Rotate
  <2> HIDE DEF kept, row
  <2> QED
    BY <1>9, <2>1, <2>2, <2>3
<1>12. ASSUME Delete(h, e) PROVE ConvergeInv'
  <2> DEFINE r == [NoRequest EXCEPT !.email = e,
                                    !.id = IF Live(roster[e]) THEN roster[e].id ELSE None,
                                    !.row = IF Live(roster[e]) THEN roster[e] ELSE AbsentRow,
                                    !.purge = TRUE]
             pc == IF Live(roster[e]) THEN "deleteTake" ELSE "deleteRead"
  <2>1. r \in Request /\ pc # "idle" /\ pc \in {"deleteTake", "deleteRead"}
        /\ (pc = "deleteTake" <=> Live(roster[e]))
    BY <1>4 DEF Request, Row, MaybeId
  <2>2. Begin(h, "delete", r, pc) /\ UNCHANGED storeVars
    BY <1>12 DEF Delete
  <2>3. /\ req'[h].email = r.email /\ req'[h].row = r.row /\ req'[h].purge = r.purge
    <3> HIDE DEF r, pc
    <3> QED
      BY <2>1, <2>2, BeginRequest
  <2>4. /\ req'[h].email = e /\ req'[h].purge = TRUE
        /\ Live(roster[e]) => req'[h].row = roster[e]
    BY <2>3 DEF NoRequest
  <2>5. hpc'[h] = pc
    <3> HIDE DEF r, pc
    <3> QED
      BY <1>6, <2>2
  <2> HIDE DEF r, pc
  <2>6. KnownTo(h)'
    BY <2>1, <2>2, <2>4, <2>5 DEF KnownTo
  <2> QED
    BY <1>7, <2>1, <2>2, <2>4, <2>6
<1>13. ~Disable(h, e) /\ ~Enable(h, e)
  BY <1>3 DEF HandsOn, Disable, Enable, Begin, Disabled
<1> QED
  BY <1>1, <1>8, <1>10, <1>11, <1>12, <1>13

\* The requests keep the invariant.
LEMMA Requests ==
    ASSUME TypeOK, HandsOn, ConvergeInv, WakeupOwed, NEW h \in Handlers, Arrive(h) \/ HandlerStep(h)
    PROVE  ConvergeInv'
<1>1. ~DisableTake(h) /\ ~DisableStore(h) /\ ~EnableStore(h)
  BY DEF ConvergeInv, Handled, KnownTo, DisableTake, DisableStore, EnableStore
<1> QED
  BY <1>1, ArriveStep, EditSteps, EditTakeStep, DeleteSteps, EnqueueSteps DEF HandlerStep

-----------------------------------------------------------------------------
(* The loop.                                                               *)

\* While the loop has something to do no request is at work.
LEMMA LoopWorks ==
    ASSUME TypeOK, ConvergeInv, lpc # "select" \/ kick = TRUE \/ changes = TRUE
    PROVE  /\ \A h \in Handlers : hpc[h] = "idle"
           /\ \A e \in Emails : Covered(e)
           /\ parse.inbounds = file.inbounds
<1>1. \A h \in Handlers : hpc[h] = "idle"
  BY DEF ConvergeInv, Alone, Busy, Calm
<1>2. \A e \in Emails : Covered(e)
  BY <1>1 DEF ConvergeInv, Owed, Ahead
<1>3. parse.inbounds = file.inbounds
  BY DEF ConvergeInv, Reading
<1> QED
  BY <1>1, <1>2, <1>3

\* A row after the loop worked on it: the attachments the file can carry are
\* as they were, the others may be gone.
SameRow(row, next) ==
    /\ RowOK(next) /\ next.present = row.present
    /\ next.disabled = row.disabled /\ next.deleting = row.deleting
    /\ next.inbounds \cap file.inbounds = row.inbounds \cap file.inbounds
    /\ next.inbounds \subseteq file.inbounds \/ next.inbounds = row.inbounds

\* A step of the loop that leaves the file, what was read of it, and the queue.
LEMMA LoopAlone ==
    ASSUME TypeOK, ConvergeInv, \A h \in Handlers : hpc[h] = "idle",
           parse.inbounds = file.inbounds,
           UNCHANGED <<file, parse, dirty, collectorVars, pending, failed, handlerVars>>,
           xray'.up = xray.up, xray'.inbounds = xray.inbounds, lastRunning' = TRUE,
           \A e \in Emails : SameRow(roster[e], roster'[e]),
           Passing', Converging',
           \A e \in Emails, t \in file.inbounds : Missing(e, t) /\ Repairing(e, t) => Repairing(e, t)',
           \A e \in Emails : Over(e) /\ Over(e)' /\ Pruning(e) => Pruning(e)',
           \/ \A e \in Emails, t \in file.inbounds : ~Detaching(e, t)
           \/ Calm' /\ lpc' \in {"select", "apply", "render", "write"}
    PROVE  ConvergeInv'
<1>1. Alone' /\ Handled'
  BY DEF Alone, Busy, Handled, KnownTo
<1>2. Steady' /\ Reading'
  BY DEF ConvergeInv, Steady, Reading
<1>3. Rows' /\ Queues'
  BY DEF ConvergeInv, Rows, Queues, QueueOf, WellFormed, SameRow, Live, Deleting
<1>4. \A e \in Emails, t \in file.inbounds : Stored(e, t)' <=> Stored(e, t)
  BY DEF Stored, SameRow, Live
<1>5. Owed'
  <2> SUFFICES ASSUME NEW e \in Emails PROVE Covered(e)'
    BY DEF Owed
  <2>1. Covered(e) /\ roster'[e].disabled = roster[e].disabled
    BY DEF ConvergeInv, Owed, Ahead, SameRow
  <2>2. \A t : Adopting(e, t)' <=> Adopting(e, t)
    BY DEF Adopting
  <2>3. \A t \in file.inbounds : Missing(e, t)' => Repairing(e, t)'
    BY <1>4, <2>1 DEF Covered, Missing
  <2>4. Agreeing(e, pending[e].ops)'
    BY <1>4, <2>1 DEF Covered, Agreeing
  <2> QED
    BY <1>4, <2>1, <2>2, <2>3, <2>4 DEF Covered, Surplus
<1>6. Orders'
  BY DEF Orders, Detaching
<1>7. Trimmed'
  <2> SUFFICES ASSUME NEW e \in Emails, Over(e)'
               PROVE  /\ Pruning(e)'
                      /\ \A t \in file.inbounds : Has(file.clients, e, t) => t \in roster'[e].inbounds
    BY DEF Trimmed
  <2>1. Over(e) /\ roster'[e].inbounds = roster[e].inbounds
    BY DEF Over, SameRow, Live
  <2> QED
    BY <2>1 DEF ConvergeInv, Trimmed
<1> QED
  BY <1>1, <1>2, <1>3, <1>5, <1>6, <1>7 DEF ConvergeInv

\* The row is as it was.
LEMMA RowsStay ==
    ASSUME ConvergeInv, UNCHANGED roster
    PROVE  \A e \in Emails : SameRow(roster[e], roster'[e])
  BY DEF ConvergeInv, Rows, SameRow

\* Nothing to detach is left in the file outside the first steps of a pass.
LEMMA NothingToDetach ==
    ASSUME ConvergeInv, ~Calm \/ lpc \notin {"select", "apply", "render", "write"}
    PROVE  \A e \in Emails, t \in file.inbounds : ~Detaching(e, t)
  BY DEF ConvergeInv, Orders

\* An empty queue has no operations.
LEMMA EmptyQueue ==
    ASSUME TypeOK, ConvergeInv, Queued = {}
    PROVE  \A e \in Emails : /\ pending[e] = NoChange
                             /\ \A t \in Tags : pending[e].ops[t] = "none" /\ ~Detaching(e, t)
  BY NoChangeOps, Parts DEF ConvergeInv, Queues, QueueOf, Queued, Detaching

\* The start of the loop: no delete was interrupted.
LEMMA BootSteps ==
    ASSUME TypeOK, ConvergeInv, Boot \/ (\E e \in Emails : RecoverDelete(e)) \/ Recovered
    PROVE  ConvergeInv'
<1>1. lpc \in {"boot", "recover"}
  BY DEF Boot, RecoverDelete, Recovered
<1>2. /\ \A h \in Handlers : hpc[h] = "idle"
      /\ parse.inbounds = file.inbounds /\ Queued = {} /\ xray.up = TRUE
      /\ lpc # "boot" => lastRunning = TRUE
      /\ lpc = "recover" => recs = NoRecords
      /\ lpc = "boot" => \A e \in Emails : ~Deleting(roster[e])
  BY <1>1, LoopWorks DEF ConvergeInv, Converging, Steady
<1>3. ~\E e \in Emails : RecoverDelete(e)
  <2>1. \A e \in Emails : NoRecords[e].present = FALSE
    BY DEF NoRecords, AbsentRow
  <2> QED
    BY <1>2, <2>1 DEF RecoverDelete
<1>4. \A e \in Emails, t \in file.inbounds : ~Detaching(e, t)
  BY <1>1, NothingToDetach
<1>5. CASE Boot
  <2>1. recs' = NoRecords /\ lpc' = "recover" /\ lastRunning' = TRUE
    BY <1>2, <1>5 DEF Boot, NoRecords
  <2>2. Passing' /\ Converging'
    BY <1>2, <1>5, <2>1 DEF Boot, Passing, Converging, Queued, RecordPCs
  <2>3. \A e \in Emails, t \in file.inbounds : Repairing(e, t) => Repairing(e, t)'
    BY <1>5, <2>1 DEF Boot, Repairing, Coming, PassPCs, RecordPCs
  <2>4. \A e \in Emails : Pruning(e) => Pruning(e)'
    BY <1>5, <2>1 DEF Boot, Pruning, Coming, PassPCs, RecordPCs
  <2> QED
    BY <1>2, <1>4, <1>5, <2>1, <2>2, <2>3, <2>4, LoopAlone, RowsStay DEF Boot
<1>6. CASE Recovered
  <2>1. lpc' = "converge" /\ lastRunning' = TRUE
    BY <1>2, <1>6 DEF Recovered
  <2>2. Passing' /\ Converging'
    BY <1>2, <1>6, <2>1 DEF Recovered, Passing, Converging, Queued, RecordPCs
  <2>3. \A e \in Emails, t \in file.inbounds : Repairing(e, t)' /\ Pruning(e)'
    BY <2>1 DEF Repairing, Pruning, Coming
  <2>4. \A e \in Emails : Over(e) => Pruning(e)'
    BY <2>1 DEF Pruning, Coming
  <2> QED
    BY <1>2, <1>4, <1>6, <2>1, <2>2, <2>3, <2>4, LoopAlone, RowsStay DEF Recovered
<1> QED
  BY <1>3, <1>5, <1>6

\* What wakes the loop: a kick, or a load of the config.
LEMMA SelectSteps ==
    ASSUME TypeOK, ConvergeInv, LoopKick \/ LoopChange \/ LoopTick
    PROVE  ConvergeInv'
<1>1. /\ lpc = "select" /\ xray.up = TRUE /\ lastRunning = TRUE
  BY DEF LoopKick, LoopChange, LoopTick, ConvergeInv, Steady
<1>2. ~LoopTick
  BY <1>1 DEF LoopTick
<1>3. CASE LoopKick
  <2>1. /\ \A h \in Handlers : hpc[h] = "idle"
        /\ parse.inbounds = file.inbounds
    BY <1>3, LoopWorks, Parts DEF LoopKick
  <2>2. lpc' = "apply" /\ lastRunning' = TRUE
    BY <1>1, <1>3 DEF LoopKick
  <2>3. Passing' /\ Converging'
    BY <2>2 DEF Passing, Converging, RecordPCs
  <2>4. \A e \in Emails, t \in file.inbounds : Repairing(e, t) => Repairing(e, t)'
    BY <1>1, <1>3, <2>2 DEF LoopKick, Repairing, Coming, PassPCs, RecordPCs
  <2>5. \A e \in Emails : Pruning(e) => Pruning(e)'
    BY <1>1, <1>3, <2>2 DEF LoopKick, Pruning, Coming, PassPCs, RecordPCs
  <2>6. \/ \A e \in Emails, t \in file.inbounds : ~Detaching(e, t)
        \/ Calm' /\ lpc' \in {"select", "apply", "render", "write"}
    BY <1>3, <2>2, NothingToDetach DEF Calm, LoopKick
  <2> QED
    BY <1>3, <2>1, <2>2, <2>3, <2>4, <2>5, <2>6, LoopAlone, RowsStay DEF LoopKick
<1>4. CASE LoopChange
  <2>1. /\ \A h \in Handlers : hpc[h] = "idle"
        /\ parse.inbounds = file.inbounds
    BY <1>4, LoopWorks, Parts DEF LoopChange
  <2>2. /\ lpc' = IF Queued = {} THEN "converge" ELSE "apply"
        /\ thenConverge' = TRUE /\ lastRunning' = TRUE
    BY <1>1, <1>4 DEF LoopChange
  <2>3. Passing' /\ Converging'
    BY <1>4, <2>2 DEF LoopChange, Passing, Converging, RecordPCs, Queued
  <2>4. Coming'
    BY <2>2 DEF Coming, PassPCs
  <2>5. \A e \in Emails, t \in file.inbounds : Repairing(e, t)'
    BY <2>4 DEF Repairing
  <2>6. \A e \in Emails : Pruning(e)'
    BY <2>4 DEF Pruning
  <2>7. \A e \in Emails, t \in file.inbounds : ~Detaching(e, t)
    BY <1>4, NothingToDetach, Parts DEF Calm, LoopChange
  <2> QED
    BY <1>4, <2>1, <2>2, <2>3, <2>5, <2>6, <2>7, LoopAlone, RowsStay DEF LoopChange
<1> QED
  BY <1>2, <1>3, <1>4

\* What a render makes of the file: the operations of the queue have landed.
LEMMA Rendered ==
    ASSUME TypeOK, ConvergeInv, NEW d, d = RenderClients(file, pending),
           NEW e \in Emails
    PROVE  /\ d.inbounds = file.inbounds
           /\ \A t \in file.inbounds :
                /\ Joins(pending[e].ops[t]) => Has(d.clients, e, t)
                /\ pending[e].ops[t] = "detach" => ~Has(d.clients, e, t)
                /\ ~Joins(pending[e].ops[t]) /\ pending[e].ops[t] # "detach" =>
                      (Has(d.clients, e, t) <=> Has(file.clients, e, t))
           /\ \A t \in Tags \ file.inbounds : d.clients[t][e] = None
<1>1. file \in Document /\ pending \in [Emails -> Change]
  BY DEF TypeOK, FilesOK, QueueOK
<1>2. d.inbounds = file.inbounds
  BY <1>1 DEF RenderClients, Document
<1>3. ASSUME NEW t \in Tags \ file.inbounds PROVE d.clients[t][e] = None
  <2>1. d.clients[t][e] = file.clients[t][e]
    BY <1>1 DEF RenderClients, Document, Clients
  <2> QED
    BY <2>1 DEF ConvergeInv, Reading
<1>4. ASSUME NEW t \in file.inbounds
      PROVE  /\ Joins(pending[e].ops[t]) => Has(d.clients, e, t)
             /\ pending[e].ops[t] = "detach" => ~Has(d.clients, e, t)
             /\ ~Joins(pending[e].ops[t]) /\ pending[e].ops[t] # "detach" =>
                   (Has(d.clients, e, t) <=> Has(file.clients, e, t))
  <2>1. t \in Tags
    BY Parts
  <2>2. d.clients[t][e] = IF pending[e].queued
                          THEN RenderEntry(file.clients[t][e], pending[e].ops[t], pending[e].id)
                          ELSE file.clients[t][e]
    BY <1>1, <2>1, RenderedEntries
  <2>3. CASE pending[e].queued = FALSE
    <3>1. pending[e].ops[t] = "none"
      BY <2>1, <2>3, NoChangeOps DEF ConvergeInv, Queues, QueueOf
    <3> QED
      BY <2>2, <2>3, <3>1 DEF Joins, Has
  <2>4. CASE pending[e].queued = TRUE
    <3>1. Joins(pending[e].ops[t]) => pending[e].id # None
      BY <2>1, <2>4, NoneAssumption DEF ConvergeInv, Queues, QueueOf, WellFormed
    <3> QED
      BY <2>2, <2>4, <3>1 DEF Joins, Has, RenderEntry
  <2> QED
    BY <2>3, <2>4, Parts
<1> QED
  BY <1>2, <1>3, <1>4

\* The steps of a pass that leave the file.
LEMMA PassSteps ==
    ASSUME TypeOK, ConvergeInv,
           ApplySnapshot \/ RenderRead \/ (\E e \in Emails : PassPick(e)) \/ PassDone
    PROVE  ConvergeInv'
<1>1. lpc \in {"apply", "render", "pick"}
  BY DEF ApplySnapshot, RenderRead, PassPick, PassDone
<1>2. /\ \A h \in Handlers : hpc[h] = "idle"
      /\ parse.inbounds = file.inbounds /\ lastRunning = TRUE
  BY <1>1, LoopWorks DEF ConvergeInv, Steady
<1>3. /\ UNCHANGED <<roster, file, xray, watchVars, collectorVars, queueVars, lastRunning,
                     thenConverge, convergeVars, handlerVars>>
      /\ lpc' \in {AfterPass, "render", "write", "pick", "push"}
  BY <1>1 DEF ApplySnapshot, RenderRead, PassPick, PassDone
<1>4. Coming => Coming'
  BY <1>1, <1>3 DEF Coming, PassPCs, AfterPass
<1>5. \A e \in Emails, t \in file.inbounds : Repairing(e, t) => Repairing(e, t)'
  BY <1>1, <1>4 DEF Repairing, RecordPCs
<1>6. \A e \in Emails : Pruning(e) => Pruning(e)'
  BY <1>1, <1>4 DEF Pruning, RecordPCs
<1>7. SUFFICES /\ Passing' /\ Converging'
               /\ \/ \A e \in Emails, t \in file.inbounds : ~Detaching(e, t)
                  \/ Calm' /\ lpc' \in {"select", "apply", "render", "write"}
  BY <1>2, <1>3, <1>5, <1>6, LoopAlone, RowsStay
<1>8. lpc' = AfterPass /\ Queued = {} => Passing' /\ Converging'
  BY <1>3 DEF AfterPass, Passing, Converging, RecordPCs, Queued
<1>9. CASE ApplySnapshot
  <2>1. CASE Queued = {}
    <3>1. lpc' = AfterPass
      BY <1>9, <2>1 DEF ApplySnapshot
    <3> QED
      BY <1>8, <2>1, <3>1, EmptyQueue, Parts
  <2>2. CASE Queued # {}
    <3>1. lpc' = "render" /\ snap' = pending /\ todo' = Queued
      BY <1>9, <2>2 DEF ApplySnapshot
    <3>2. Passing' /\ Converging'
      BY <1>3, <3>1 DEF Passing, Converging, RecordPCs, Queued
    <3> QED
      BY <1>3, <3>1, <3>2, NothingToDetach DEF Calm
  <2> QED
    BY <2>1, <2>2
<1>10. CASE RenderRead
  <2>1. /\ snap = pending /\ todo = Queued /\ snap' = snap /\ todo' = todo
        /\ doc' = RenderClients(file, snap)
        /\ lpc' = IF RenderClients(file, snap) = file THEN "pick" ELSE "write"
    BY <1>10 DEF RenderRead, ConvergeInv, Passing
  <2>2. Converging'
    BY <2>1 DEF Converging, RecordPCs
  <2>3. CASE RenderClients(file, snap) = file
    <3>1. \A e \in Emails : Landed(e)
      BY <2>1, <2>3, Rendered DEF Landed
    <3>2. \A e \in Emails, t \in file.inbounds : ~Detaching(e, t)
      BY <3>1 DEF Landed, Detaching
    <3>3. \A e \in Emails : Landed(e)'
      BY <1>3, <3>1 DEF Landed
    <3>4. lpc' = "pick"
      BY <2>1, <2>3
    <3>5. \A e \in Emails : InPass(e)' <=> e \in Queued
      BY <2>1, <3>4 DEF InPass
    <3>6. Passing'
      BY <1>3, <2>1, <3>3, <3>4, <3>5, Parts DEF Passing, Queued
    <3> QED
      BY <2>2, <3>2, <3>6
  <2>4. CASE RenderClients(file, snap) # file
    <3>1. Passing'
      BY <1>3, <2>1, <2>4 DEF Passing, Queued
    <3> QED
      BY <1>3, <2>1, <2>2, <2>4, <3>1, NothingToDetach DEF Calm
  <2> QED
    BY <2>3, <2>4
<1>11. ASSUME NEW e \in Emails, PassPick(e)
       PROVE  Passing' /\ Converging' /\ \A f \in Emails, t \in file.inbounds : ~Detaching(f, t)
  <2>1. lpc = "pick" /\ e \in todo /\ todo' = todo \ {e} /\ snap' = snap
    BY <1>11 DEF PassPick
  <2>2. \A f \in Emails : /\ InPass(f) => snap[f] = pending[f] /\ Landed(f)
                          /\ InPass(f) <=> pending[f].queued = TRUE
    BY <2>1 DEF ConvergeInv, Passing
  <2>3. ~Superseded(e)
    BY <2>1, <2>2 DEF InPass, Superseded
  <2>4. lpc' = "push" /\ cur' = e
    BY <1>11, <2>3 DEF PassPick
  <2>5. \A f \in Emails : /\ InPass(f)' <=> InPass(f)
                          /\ Landed(f)' <=> Landed(f)
    BY <1>3, <2>1, <2>4 DEF InPass, Landed
  <2>6. Passing'
    BY <1>3, <2>1, <2>2, <2>4, <2>5 DEF Passing
  <2>7. Converging'
    BY <2>4 DEF Converging, RecordPCs
  <2> QED
    BY <2>1, <2>6, <2>7, NothingToDetach
<1>12. CASE PassDone
  <2>1. lpc = "pick" /\ todo = {} /\ lpc' = AfterPass
    BY <1>12 DEF PassDone
  <2>2. Queued = {}
    BY <2>1 DEF ConvergeInv, Passing, InPass, Queued
  <2> QED
    BY <1>8, <2>1, <2>2, NothingToDetach
<1> QED
  BY <1>9, <1>10, <1>11, <1>12

\* The pushes: xray takes every one.
LEMMA PushSteps ==
    ASSUME TypeOK, HandsOn, ConvergeInv, NEW t \in Tags, Push(t) \/ PushFails(t)
    PROVE  ConvergeInv'
<1>1. lpc = "push"
  BY DEF Push, PushFails, NextOp
<1>2. /\ \A h \in Handlers : hpc[h] = "idle"
      /\ parse.inbounds = file.inbounds /\ lastRunning = TRUE /\ xray.up = TRUE /\ xray.inbounds = Tags
  BY <1>1, LoopWorks DEF ConvergeInv, Steady
<1>3. ~PushFails(t)
  BY <1>2, NothingFails DEF PushFails, TypeOK
<1>4. Push(t)
  BY <1>3
<1>5. xray'.up = xray.up /\ xray'.inbounds = xray.inbounds
  BY <1>4 DEF Push, TypeOK, FilesOK, Server
<1>6. UNCHANGED <<storeVars, file, watchVars, collectorVars, queueVars, kick, lpc, lastRunning,
                  thenConverge, cur, snap, doc, todo, convergeVars, handlerVars>>
  BY <1>4 DEF Push
<1>7. Passing' /\ Converging'
  BY <1>6 DEF ConvergeInv, Passing, Converging, InPass, Landed, Queued, RecordOK, Over, RecordPCs
<1>8. \A e \in Emails, u \in file.inbounds : Repairing(e, u) => Repairing(e, u)'
  BY <1>6 DEF Repairing, Coming
<1>9. \A e \in Emails : Pruning(e) => Pruning(e)'
  BY <1>6 DEF Pruning, Coming
<1>10. \A e \in Emails, u \in file.inbounds : ~Detaching(e, u)
  BY <1>1, NothingToDetach
<1> QED
  BY <1>2, <1>5, <1>6, <1>7, <1>8, <1>9, <1>10, LoopAlone, RowsStay

\* The write of a pass: every operation of the queue lands in the file.
LEMMA RenderWriteStep ==
    ASSUME TypeOK, ConvergeInv, RenderWrite
    PROVE  ConvergeInv'
<1>1. /\ lpc = "write" /\ lpc' = "pick" /\ dirty' = TRUE /\ file' = doc
      /\ UNCHANGED <<storeVars, xray, parse, changes, collectorVars, queueVars, kick, lastRunning,
                     thenConverge, cur, passVars, convergeVars, handlerVars>>
  BY DEF RenderWrite
<1>2. snap = pending /\ todo = Queued /\ file' = RenderClients(file, pending)
  BY <1>1 DEF ConvergeInv, Passing
<1>3. \A h \in Handlers : hpc[h] = "idle"
  BY <1>1, LoopWorks
<1>4. \A e \in Emails : Covered(e)
  BY <1>1, LoopWorks
<1>5. parse.inbounds = file.inbounds
  BY <1>1, LoopWorks
<1>6. file'.inbounds = file.inbounds
  BY <1>2 DEF RenderClients, TypeOK, FilesOK, Document
<1>7. ASSUME NEW e \in Emails
      PROVE  /\ \A t \in file.inbounds :
                  /\ Joins(pending[e].ops[t]) => Has(file'.clients, e, t)
                  /\ pending[e].ops[t] = "detach" => ~Has(file'.clients, e, t)
                  /\ ~Joins(pending[e].ops[t]) /\ pending[e].ops[t] # "detach" =>
                        (Has(file'.clients, e, t) <=> Has(file.clients, e, t))
             /\ \A t \in Tags \ file.inbounds : file'.clients[t][e] = None
  BY <1>2, Rendered
<1>8. Alone' /\ Handled' /\ Steady' /\ Rows' /\ Queues'
  BY <1>1, <1>3 DEF ConvergeInv, Alone, Busy, Handled, KnownTo, Steady, Rows, Queues, QueueOf
<1>9. Coming'
  BY <1>1 DEF Coming
<1>10. Reading'
  <2>1. ASSUME NEW e \in Emails, NEW t \in Tags, fresh = TRUE \/ sampled.has = TRUE,
               Has(file.clients, e, t)
        PROVE  Has(file'.clients, e, t)
    <3>1. t \in file.inbounds
      BY <2>1 DEF ConvergeInv, Reading, Has
    <3>2. pending[e].ops[t] # "detach"
      BY <2>1, <3>1, NothingToDetach DEF Calm, Detaching
    <3> QED
      BY <1>7, <2>1, <3>1, <3>2
  <2>2. \A t \in Tags \ file'.inbounds, e \in Emails : file'.clients[t][e] = None
    BY <1>6, <1>7
  <2>3. \A e \in Emails, t \in Tags :
          /\ fresh = TRUE /\ Has(parse.clients, e, t) => Has(file'.clients, e, t)
          /\ sampled.has = TRUE /\ Has(sampled.clients, e, t) => Has(file'.clients, e, t)
    BY <2>1 DEF ConvergeInv, Reading
  <2> QED
    BY <1>1, <1>5, <1>6, <2>2, <2>3 DEF Reading
<1>11. Owed'
  <2> SUFFICES ASSUME NEW e \in Emails PROVE Covered(e)'
    BY DEF Owed
  <2>1. \A t : Stored(e, t)' <=> Stored(e, t)
    BY <1>1 DEF Stored
  <2>2. Agreeing(e, pending[e].ops) /\ Agreeing(e, pending[e].ops)'
    BY <1>1, <1>4, <1>6, <2>1 DEF Covered, Agreeing
  <2>3. ASSUME NEW t \in file.inbounds, Surplus(e, t)'
        PROVE  roster'[e].disabled = FALSE /\ Adopting(e, t)'
    <3>1. Surplus(e, t)
      BY <1>1, <1>7, <2>1, <2>2, <2>3 DEF Surplus, Agreeing
    <3>2. roster[e].disabled = FALSE /\ Adopting(e, t)
      BY <1>4, <3>1 DEF Covered
    <3> QED
      BY <1>1, <3>2 DEF Adopting
  <2>4. \A t : Repairing(e, t)'
    BY <1>9 DEF Repairing
  <2>5. roster'[e].disabled = TRUE => pending'[e].queued = TRUE
    BY <1>1, <1>4 DEF Covered
  <2> QED
    BY <1>6, <2>2, <2>3, <2>4, <2>5 DEF Covered
<1>12. Orders'
  BY <1>1, <1>6, <1>7 DEF Orders, Detaching
<1>13. Trimmed'
  <2> SUFFICES ASSUME NEW e \in Emails, Over(e)'
               PROVE  /\ Pruning(e)'
                      /\ \A t \in file.inbounds : Has(file'.clients, e, t) => t \in roster[e].inbounds
    BY <1>1, <1>6 DEF Trimmed
  <2>1. Over(e)
    BY <1>1, <1>6 DEF Over
  <2>2. \A t \in file.inbounds : Has(file.clients, e, t) => t \in roster[e].inbounds
    BY <2>1 DEF ConvergeInv, Trimmed
  <2>3. \A t \in file.inbounds : Joins(pending[e].ops[t]) => t \in roster[e].inbounds
    BY <1>4 DEF Covered, Agreeing, Stored
  <2>4. Pruning(e)'
    BY <1>9 DEF Pruning
  <2> QED
    BY <1>7, <2>2, <2>3, <2>4
<1>14. Passing'
  <2>1. \A e \in Emails : Landed(e)'
    BY <1>1, <1>6, <1>7 DEF Landed
  <2>2. \A e \in Emails : InPass(e)' <=> e \in Queued
    BY <1>1, <1>2 DEF InPass
  <2> QED
    BY <1>1, <1>2, <2>1, <2>2, Parts DEF Passing, Queued
<1>15. Converging'
  BY <1>1 DEF Converging, RecordPCs
<1> QED
  BY <1>8, <1>10, <1>11, <1>12, <1>13, <1>14, <1>15 DEF ConvergeInv

\* A change settles: its operations are in the file.
LEMMA SettleStep ==
    ASSUME TypeOK, ConvergeInv, Settle
    PROVE  ConvergeInv'
<1>1. /\ lpc = "push" /\ lpc' = "pick" /\ cur \in Emails
      /\ UNCHANGED <<file, xray, watchVars, collectorVars, lastRunning,
                     thenConverge, passVars, convergeVars, handlerVars>>
  BY DEF Settle, Settling, AfterSettle, TypeOK, LoopOK
<1>2. PICK c \in Emails : c = cur
  BY <1>1
<1>3. /\ \A e \in Emails : /\ InPass(e) => snap[e] = pending[e] /\ Landed(e)
                           /\ InPass(e) <=> pending[e].queued = TRUE
      /\ c \notin todo
  BY <1>1, <1>2 DEF ConvergeInv, Passing
<1>4. InPass(c) /\ snap[c] = pending[c] /\ Landed(c) /\ pending[c].queued = TRUE
  BY <1>1, <1>2, <1>3 DEF InPass
<1>5. ~Superseded(c)
  BY <1>4 DEF Superseded
<1>6. /\ pending' = [pending EXCEPT ![c] = NoChange] /\ failed' = failed \ {c}
      /\ IF pending[c].purge THEN roster' = PurgeRosterUser(roster, c) ELSE roster' = roster
  BY <1>2, <1>4, <1>5 DEF Settle
<1>7. /\ \A e \in Emails \ {c} : pending'[e] = pending[e] /\ roster'[e] = roster[e]
      /\ pending'[c] = NoChange
  BY <1>6 DEF PurgeRosterUser, TypeOK, StoreOK, QueueOK
<1>8. WellFormed(roster[c], pending[c].ops, pending[c].id, pending[c].purge)
  BY <1>4 DEF ConvergeInv, Queues, QueueOf
<1>9. \/ Deleting(roster[c]) /\ roster'[c] = AbsentRow
      \/ Live(roster[c]) /\ roster'[c] = roster[c]
  BY <1>6, <1>8, Parts DEF WellFormed, PurgeRosterUser, TypeOK, StoreOK, Change
<1>10. /\ \A h \in Handlers : hpc[h] = "idle"
       /\ \A e \in Emails : Covered(e) /\ RowOK(roster[e])
  BY <1>1, LoopWorks DEF ConvergeInv, Rows
<1>11. Alone' /\ Handled' /\ Reading' /\ Steady'
  BY <1>1, <1>6, <1>10 DEF ConvergeInv, Alone, Busy, Handled, KnownTo, Reading, Steady
<1>12. Rows' /\ Queues'
  <2>1. RowOK(roster'[c])
    <3>1. RowOK(AbsentRow)
      BY DEF RowOK, AbsentRow
    <3> QED
      BY <1>9, <1>10, <3>1
  <2>2. QueueOf(c)'
    BY <1>7, NoChangeOps DEF QueueOf
  <2>3. ASSUME NEW e \in Emails, e # c PROVE QueueOf(e)' /\ RowOK(roster'[e])
    BY <1>7, <1>10, <2>3 DEF ConvergeInv, Queues, QueueOf
  <2> QED
    BY <2>1, <2>2, <2>3 DEF Rows, Queues
<1>13. Coming' <=> Coming
  BY <1>1 DEF Coming, PassPCs
<1>14. \A e \in Emails, t \in Tags : /\ Adopting(e, t)' <=> Adopting(e, t)
                                     /\ Repairing(e, t) => Coming
                                     /\ Coming => Repairing(e, t)'
  BY <1>1, <1>13 DEF Adopting, Repairing, RecordPCs
<1>15. Owed'
  <2>1. ASSUME NEW e \in Emails, e # c PROVE Covered(e)'
    <3>1. Covered(e) /\ roster'[e] = roster[e] /\ pending'[e] = pending[e]
      BY <1>7, <1>10, <2>1
    <3>2. \A t : Stored(e, t)' <=> Stored(e, t)
      BY <3>1 DEF Stored
    <3> QED
      BY <1>1, <1>14, <3>1, <3>2, Parts DEF Covered, Agreeing, Surplus, Missing
  <2>2. Covered(c)'
    <3>1. \A t \in file.inbounds : pending'[c].ops[t] = "none"
      BY <1>7, NoChangeOps, Parts
    <3>2. Agreeing(c, pending[c].ops)'
      BY <1>1, <3>1 DEF Agreeing, Joins
    <3>3. roster'[c].disabled = FALSE
      BY <1>9, Parts DEF AbsentRow, Live
    <3>4. ASSUME NEW t \in file.inbounds, Surplus(c, t)' PROVE Adopting(c, t)'
      <4>1. Has(file.clients, c, t) /\ ~Stored(c, t)'
        BY <1>1, <3>4 DEF Surplus
      <4>2. ~Stored(c, t)
        BY <1>9, <4>1 DEF Stored, Live, Deleting
      <4>3. Surplus(c, t)
        BY <1>4, <4>1, <4>2 DEF Surplus, Landed
      <4> QED
        BY <1>10, <1>14, <4>3, Parts DEF Covered
    <3>5. ASSUME NEW t \in file.inbounds, Missing(c, t)' PROVE Repairing(c, t)'
      <4>1. ~Has(file.clients, c, t) /\ Stored(c, t)'
        BY <1>1, <3>5 DEF Missing
      <4>2. Stored(c, t)
        BY <1>9, <4>1 DEF Stored, Live, AbsentRow
      <4>3. Missing(c, t)
        BY <1>4, <4>1, <4>2 DEF Missing, Landed
      <4> QED
        BY <1>10, <1>14, <4>3, Parts DEF Covered
    <3> QED
      BY <1>1, <3>2, <3>3, <3>4, <3>5 DEF Covered
  <2> QED
    BY <2>1, <2>2 DEF Owed
<1>16. Orders'
  <2>1. \A e \in Emails, t \in file.inbounds : ~Detaching(e, t)
    BY <1>1, NothingToDetach
  <2>2. \A e \in Emails, t \in file.inbounds : ~Detaching(e, t)'
    BY <1>1, <1>7, <2>1, NoChangeOps, Parts DEF Detaching
  <2> QED
    BY <1>1, <2>2 DEF Orders
<1>17. Trimmed'
  <2> SUFFICES ASSUME NEW e \in Emails, Over(e)'
               PROVE  /\ Pruning(e)'
                      /\ \A t \in file.inbounds : Has(file.clients, e, t) => t \in roster'[e].inbounds
    BY <1>1 DEF Trimmed
  <2>1. Over(e) /\ roster'[e] = roster[e]
    BY <1>1, <1>7, <1>9 DEF Over, Live, AbsentRow
  <2>2. Pruning(e) /\ \A t \in file.inbounds : Has(file.clients, e, t) => t \in roster[e].inbounds
    BY <2>1 DEF ConvergeInv, Trimmed
  <2>3. Coming
    BY <1>1, <2>2 DEF Pruning, RecordPCs
  <2> QED
    BY <1>13, <2>1, <2>2, <2>3 DEF Pruning
<1>18. Passing'
  <2>1. \A e \in Emails \ {c} : /\ InPass(e)' <=> InPass(e)
                                /\ Landed(e)' <=> Landed(e)
    BY <1>1, <1>2, <1>7 DEF InPass, Landed
  <2>2. ~InPass(c)' /\ pending'[c].queued = FALSE
    BY <1>1, <1>3, <1>7, NoChangeOps DEF InPass
  <2> QED
    BY <1>1, <1>3, <1>7, <2>1, <2>2 DEF Passing
<1>19. Converging'
  BY <1>1 DEF Converging, RecordPCs
<1> QED
  BY <1>11, <1>12, <1>15, <1>16, <1>17, <1>18, <1>19 DEF ConvergeInv

\* The reads of a convergence.
LEMMA ConvergeReads ==
    ASSUME TypeOK, ConvergeInv, ConvergeRead \/ ConvergeView \/ ConvergeList \/ Converged
    PROVE  ConvergeInv'
<1>1. lpc \in {"converge", "view", "list", "next"}
  BY DEF ConvergeRead, ConvergeView, ConvergeList, Converged
<1>2. /\ \A h \in Handlers : hpc[h] = "idle"
      /\ parse.inbounds = file.inbounds /\ lastRunning = TRUE /\ parse.loaded = TRUE
      /\ \A e \in Emails : RowOK(roster[e])
  BY <1>1, LoopWorks DEF ConvergeInv, Steady, Rows
<1>3. UNCHANGED <<roster, file, xray, watchVars, collectorVars, queueVars, lastRunning, handlerVars>>
  BY DEF ConvergeRead, ConvergeView, ConvergeList, Converged
<1>4. \A e \in Emails, t \in file.inbounds : ~Detaching(e, t)
  BY <1>1, NothingToDetach
<1>5. SUFFICES /\ Passing' /\ Converging'
               /\ \A e \in Emails, t \in file.inbounds :
                     Missing(e, t) /\ Repairing(e, t) => Repairing(e, t)'
               /\ \A e \in Emails : Over(e) /\ Pruning(e) => Pruning(e)'
  BY <1>2, <1>3, <1>4, LoopAlone, RowsStay
<1>6. CASE ConvergeRead
  <2>1. lpc = "converge" /\ lpc' = "view" /\ cdoc' = [inbounds |-> {}, clients |-> parse.clients]
    BY <1>2, <1>6 DEF ConvergeRead
  <2>2. Passing' /\ Converging'
    BY <1>3, <2>1 DEF ConvergeInv, Passing, Converging, RecordPCs, Queued
  <2>3. ASSUME NEW e \in Emails, NEW t \in file.inbounds, Missing(e, t) PROVE Repairing(e, t)'
    <3>1. CASE dirty = TRUE
      BY <1>3, <3>1 DEF Repairing, Coming
    <3>2. CASE dirty = FALSE
      <4>1. ~Has(cdoc'.clients, e, t)
        BY <2>1, <2>3, <3>2 DEF ConvergeInv, Reading, Missing
      <4> QED
        BY <2>1, <4>1 DEF Repairing
    <3> QED
      BY <3>1, <3>2, Parts
  <2>4. \A e \in Emails : Pruning(e)'
    BY <2>1 DEF Pruning
  <2> QED
    BY <2>2, <2>3, <2>4
<1>v. CASE ConvergeView
  <2>1. /\ lpc = "view" /\ lpc' = "list" /\ cdoc' = [cdoc EXCEPT !.inbounds = parse.inbounds]
        /\ thenConverge' = thenConverge
    BY <1>v DEF ConvergeView
  <2>2. cdoc'.inbounds = file.inbounds /\ cdoc'.clients = cdoc.clients
    BY <1>2, <2>1 DEF TypeOK, LoopOK, Document
  <2>3. Passing' /\ Converging'
    BY <1>3, <2>1, <2>2 DEF ConvergeInv, Passing, Converging, RecordPCs, Queued
  <2>4. Coming => Coming'
    BY <1>3, <2>1 DEF Coming, PassPCs
  <2>5. ASSUME NEW e \in Emails, NEW t \in file.inbounds, Repairing(e, t)
        PROVE  Repairing(e, t)'
    BY <2>1, <2>2, <2>4, <2>5 DEF Repairing, RecordPCs
  <2> QED
    BY <2>1, <2>3, <2>5 DEF Pruning
<1>7. CASE ConvergeList
  <2>1. /\ lpc = "list" /\ lpc' = "next" /\ cdoc' = cdoc
        /\ recs' = [e \in Emails |-> IF Live(roster[e]) THEN roster[e] ELSE AbsentRow]
        /\ thenConverge' = thenConverge
    BY <1>7 DEF ConvergeList
  <2>2. cdoc'.inbounds = file.inbounds /\ cdoc'.clients = cdoc.clients
    BY <2>1 DEF ConvergeInv, Converging
  <2>3. \A e \in Emails : /\ Live(roster[e]) => recs'[e] = roster[e] /\ recs'[e].present = TRUE
                          /\ recs'[e].present = TRUE => Live(roster[e]) /\ recs'[e] = roster[e]
    BY <2>1, Parts DEF AbsentRow, Live
  <2>4. Queued = {}
    BY <2>1 DEF ConvergeInv, Converging
  <2>5. \A e \in Emails : RecordOK(e)'
    <3> SUFFICES ASSUME NEW e \in Emails, recs'[e].present = TRUE
                 PROVE  RecordOK(e)'
      BY DEF RecordOK
    <3>1. recs'[e] = roster[e] /\ Live(roster[e]) /\ roster[e].id \in Ids
      BY <1>2, <2>3 DEF RowOK
    <3>2. pending[e].queued = FALSE
      BY <2>4, Parts DEF Queued
    <3> QED
      BY <1>3, <3>1, <3>2 DEF RecordOK
  <2>6. Passing' /\ Converging'
    BY <2>1, <1>3, <2>2, <2>5 DEF Passing, Converging, RecordPCs
  <2>7. Coming => Coming'
    BY <1>3, <2>1 DEF Coming, PassPCs
  <2>8. ASSUME NEW e \in Emails, NEW t \in file.inbounds, Missing(e, t), Repairing(e, t)
        PROVE  Repairing(e, t)'
    <3>1. recs'[e].present = TRUE /\ t \in recs'[e].inbounds
      BY <2>3, <2>8 DEF Missing, Stored
    <3>2. Coming \/ ~Has(cdoc.clients, e, t)
      BY <2>1, <2>8 DEF Repairing, RecordPCs
    <3> QED
      BY <2>1, <2>2, <2>7, <3>1, <3>2 DEF Repairing, RecordPCs
  <2>9. ASSUME NEW e \in Emails, Over(e) PROVE Pruning(e)'
    BY <1>3, <2>1, <2>3, <2>9 DEF Over, Pruning, RecordPCs
  <2> QED
    BY <2>6, <2>8, <2>9
<1>8. CASE Converged
  <2>1. lpc = "next" /\ lpc' = "select" /\ recs = NoRecords
    BY <1>8 DEF Converged
  <2>2. \A e \in Emails : recs[e].present = FALSE
    BY <2>1 DEF NoRecords, AbsentRow
  <2>3. Passing' /\ Converging'
    BY <2>1 DEF Passing, Converging, RecordPCs
  <2>4. Coming => Coming'
    BY <1>3, <2>1 DEF Coming, PassPCs
  <2> QED
    BY <2>1, <2>2, <2>3, <2>4 DEF Repairing, Pruning, RecordPCs
<1> QED
  BY <1>6, <1>v, <1>7, <1>8

\* The loop leaves a record only when there is nothing to repair or to prune
\* for its user.
LEMMA LeavesRecord ==
    ASSUME TypeOK, ConvergeInv, lpc \in RecordPCs, NEW e \in Emails, SkipRecord(e),
           UNCHANGED <<file, watchVars, collectorVars, queueVars, lastRunning, cdoc, handlerVars>>,
           \A f \in Emails : SameRow(roster[f], roster'[f]), Over(e) => Coming \/ ~Over(e)',
           \A f \in Emails \ {e} : roster'[f] = roster[f],
           \A t \in file.inbounds : Missing(e, t) => ~Repairing(e, t) \/ Coming,
           xray' = xray, lpc = "pruneWrite" => cur = e
    PROVE  ConvergeInv'
<1>1. /\ \A h \in Handlers : hpc[h] = "idle"
      /\ parse.inbounds = file.inbounds /\ lastRunning = TRUE
  BY LoopWorks DEF ConvergeInv, Steady, RecordPCs
<1>2. \A f \in Emails, t \in file.inbounds : ~Detaching(f, t)
  BY NothingToDetach DEF RecordPCs
<1>3. /\ lpc' = "next" /\ recs'[e].present = FALSE /\ \A f \in Emails \ {e} : recs'[f] = recs[f]
  BY DEF SkipRecord, AbsentRow, TypeOK, LoopOK
<1>4. Coming => Coming'
  BY <1>3 DEF Coming, PassPCs, RecordPCs
<1>5. \A f \in Emails : RecordOK(f)'
  BY <1>3 DEF ConvergeInv, Converging, RecordOK
<1>6. Passing' /\ Converging'
  BY <1>3, <1>5 DEF ConvergeInv, Passing, Converging, RecordPCs
<1>7. ASSUME NEW f \in Emails, NEW t \in file.inbounds, Missing(f, t), Repairing(f, t)
      PROVE  Repairing(f, t)'
  <2>1. CASE Coming
    BY <1>4, <2>1 DEF Repairing
  <2>2. CASE ~Coming
    BY <1>3, <1>7, <2>2 DEF Repairing, RecordPCs
  <2> QED
    BY <2>1, <2>2
<1>8. ASSUME NEW f \in Emails, Over(f), Over(f)', Pruning(f) PROVE Pruning(f)'
  <2>1. CASE Coming
    BY <1>4, <2>1 DEF Pruning
  <2>2. CASE ~Coming
    <3>1. f # e
      BY <1>8, <2>2
    <3>2. roster'[f] = roster[f] /\ recs'[f] = recs[f]
      BY <1>3, <3>1
    <3>3. /\ recs[f].present = TRUE
          /\ recs[f].inbounds = roster[f].inbounds \/ (lpc = "pruneWrite" /\ cur = f)
      BY <1>8, <2>2 DEF Pruning, RecordPCs
    <3> QED
      BY <1>3, <3>1, <3>2, <3>3 DEF Pruning, RecordPCs
  <2> QED
    BY <2>1, <2>2
<1> QED
  BY <1>1, <1>2, <1>6, <1>7, <1>8, LoopAlone

\* The loop goes on with a record: the attachments of it that the file can
\* carry are still in it.
LEMMA KeepsRecord ==
    ASSUME TypeOK, ConvergeInv, lpc \in RecordPCs, lpc' \in RecordPCs, NEW e \in Emails,
           UNCHANGED <<file, watchVars, collectorVars, queueVars, lastRunning, cdoc, handlerVars>>,
           xray' = xray, lpc = "pruneWrite" => cur = e,
           \A f \in Emails : SameRow(roster[f], roster'[f]),
           \A f \in Emails \ {e} : roster'[f] = roster[f] /\ recs'[f] = recs[f],
           recs'[e].present = TRUE, recs[e].inbounds \cap file.inbounds \subseteq recs'[e].inbounds,
           Converging', Over(e)' => Pruning(e)'
    PROVE  ConvergeInv'
<1>1. /\ \A h \in Handlers : hpc[h] = "idle"
      /\ parse.inbounds = file.inbounds /\ lastRunning = TRUE
  BY LoopWorks DEF ConvergeInv, Steady, RecordPCs
<1>2. \A f \in Emails, t \in file.inbounds : ~Detaching(f, t)
  BY NothingToDetach DEF RecordPCs
<1>3. Coming => Coming'
  BY DEF Coming, PassPCs, RecordPCs
<1>4. Passing'
  BY DEF Passing, RecordPCs
<1>5. ASSUME NEW f \in Emails, NEW t \in file.inbounds, Repairing(f, t)
      PROVE  Repairing(f, t)'
  <2>1. CASE Coming
    BY <1>3, <2>1 DEF Repairing
  <2>2. CASE ~Coming
    <3>1. ~Has(cdoc.clients, f, t) /\ recs[f].present = TRUE /\ t \in recs[f].inbounds
      BY <1>5, <2>2 DEF Repairing, RecordPCs
    <3>2. recs'[f].present = TRUE /\ t \in recs'[f].inbounds
      BY <3>1
    <3> QED
      BY <3>1, <3>2 DEF Repairing
  <2> QED
    BY <2>1, <2>2
<1>6. ASSUME NEW f \in Emails, Over(f)', Pruning(f) PROVE Pruning(f)'
  <2>1. CASE Coming
    BY <1>3, <2>1 DEF Pruning
  <2>2. CASE ~Coming /\ f # e
    <3>1. /\ recs[f].present = TRUE
          /\ recs[f].inbounds = roster[f].inbounds \/ (lpc = "pruneWrite" /\ cur = f)
      BY <1>6, <2>2 DEF Pruning, RecordPCs
    <3> QED
      BY <2>2, <3>1 DEF Pruning
  <2> QED
    BY <1>6, <2>1, <2>2
<1> QED
  BY <1>1, <1>2, <1>4, <1>5, <1>6, LoopAlone

\* What the file lost of a record.
LEMMA LostOf ==
    ASSUME TypeOK, ConvergeInv, lpc \in RecordPCs, NEW e \in Emails, NEW row,
           row.inbounds \subseteq Tags
    PROVE  /\ Lost(e, row) \subseteq row.inbounds \cap file.inbounds
           /\ \A t \in file.inbounds :
                 t \in Lost(e, row) <=> t \in row.inbounds /\ ~Has(cdoc.clients, e, t)
<1>1. cdoc.inbounds = file.inbounds
  BY DEF ConvergeInv, Converging
<1> QED
  BY <1>1, Parts DEF Lost, Carrying, Has

\* The next record of a convergence.
LEMMA ConvergeNextStep ==
    ASSUME TypeOK, ConvergeInv, NEW e \in Emails, ConvergeNext(e)
    PROVE  ConvergeInv'
<1>1. /\ lpc = "next" /\ recs[e].present = TRUE /\ lpc \in RecordPCs
      /\ UNCHANGED <<storeVars, file, xray, watchVars, collectorVars, queueVars, kick, lastRunning,
                     thenConverge, passVars, cdoc, handlerVars>>
  BY DEF ConvergeNext, RecordPCs, TypeOK, LoopOK, Row
<1>2. cdoc.inbounds = file.inbounds /\ \A f \in Emails : RecordOK(f)
  BY <1>1 DEF ConvergeInv, Converging
<1>3. pending[e].queued = FALSE /\ recs[e].inbounds \subseteq Tags
  BY <1>1, <1>2 DEF RecordOK, TypeOK, LoopOK, Row
<1>4. \A f \in Emails : SameRow(roster[f], roster'[f])
  BY <1>1, RowsStay
<1>5. CASE SkipRecord(e) /\ Lost(e, recs[e]) = {} /\ recs[e].inbounds \subseteq file.inbounds
  <2>1. Over(e) => Coming
    BY <1>1, <1>5 DEF ConvergeInv, Trimmed, Pruning, Over
  <2>2. \A t \in file.inbounds : Repairing(e, t) => Coming
    BY <1>1, <1>3, <1>5, LostOf DEF Repairing
  <2> QED
    BY <1>1, <1>4, <1>5, <2>1, <2>2, LeavesRecord
<1>6. ASSUME cur' = e, recs' = recs,
             \/ lpc' = "check" /\ recs[e].inbounds \subseteq file.inbounds
             \/ lpc' = "prune" /\ ~(recs[e].inbounds \subseteq file.inbounds)
      PROVE  ConvergeInv'
  <2>1. \A f \in Emails : RecordOK(f)'
    BY <1>1, <1>2, <1>6 DEF RecordOK
  <2>2. Converging'
    BY <1>1, <1>2, <1>6, <2>1 DEF Converging, RecordPCs
  <2>3. Over(e)' => Pruning(e)'
    BY <1>1, <1>6 DEF ConvergeInv, Trimmed, Pruning, Over, Coming, RecordPCs, PassPCs
  <2>4. lpc' \in RecordPCs
    BY <1>6 DEF RecordPCs
  <2> QED
    BY <1>1, <1>4, <1>6, <2>2, <2>3, <2>4, KeepsRecord
<1>7. recs = [recs EXCEPT ![e] = recs[e]]
  BY DEF TypeOK, LoopOK
<1> QED
  BY <1>1, <1>2, <1>3, <1>5, <1>6, <1>7 DEF ConvergeNext, WithRecord

\* The prune of a row that names inbounds the file lacks.
LEMMA ConvergePruneStep ==
    ASSUME TypeOK, ConvergeInv, ConvergePrune
    PROVE  ConvergeInv'
<1>1. /\ lpc = "prune" /\ lpc \in RecordPCs /\ cur \in Emails
      /\ UNCHANGED <<storeVars, file, xray, watchVars, collectorVars, queueVars, kick, lastRunning,
                     thenConverge, passVars, cdoc, handlerVars>>
  BY DEF ConvergePrune, RecordPCs, TypeOK, LoopOK
<1>2. PICK e \in Emails : e = cur
  BY <1>1
<1>3. /\ cdoc.inbounds = file.inbounds /\ recs[e].present = TRUE
      /\ \A f \in Emails : RecordOK(f)
      /\ ~(recs[e].inbounds \subseteq file.inbounds)
  BY <1>1, <1>2 DEF ConvergeInv, Converging, RecordPCs
<1>4. /\ Live(roster[e]) /\ recs[e].inbounds = roster[e].inbounds
      /\ pending[e].queued = FALSE
  BY <1>3 DEF RecordOK
<1>5. Over(e) /\ roster[e].id \in Ids
  BY <1>3, <1>4 DEF Over, ConvergeInv, Rows, RowOK, Live
<1> DEFINE kept == roster[e].inbounds \cap file.inbounds
           row == [roster[e] EXCEPT !.inbounds = kept]
<1>6. lpc' = "pruneWrite" /\ recs' = [recs EXCEPT ![e] = row] /\ cur' = e
  BY <1>1, <1>2, <1>3, <1>4, <1>5 DEF ConvergePrune, Over
<1>7. row.inbounds = kept /\ row.id = roster[e].id /\ row.present = TRUE
  BY <1>4, Parts DEF Row, Live
<1>8. recs'[e] = row /\ \A f \in Emails \ {e} : recs'[f] = recs[f]
  BY <1>6 DEF TypeOK, LoopOK
<1> HIDE DEF row
<1>9. \A f \in Emails : RecordOK(f)'
  <2>1. RecordOK(e)'
    BY <1>1, <1>4, <1>5, <1>7, <1>8 DEF RecordOK
  <2>2. ASSUME NEW f \in Emails, f # e PROVE RecordOK(f)'
    BY <1>1, <1>3, <1>8, <2>2 DEF RecordOK
  <2> QED
    BY <2>1, <2>2
<1>10. Over(e)'
  BY <1>1, <1>5 DEF Over
<1>11. Converging'
  BY <1>1, <1>3, <1>6, <1>7, <1>8, <1>9, <1>10 DEF Converging, RecordPCs
<1>12. Pruning(e)' /\ lpc' \in RecordPCs
  BY <1>6, <1>7, <1>8 DEF Pruning, RecordPCs
<1>13. recs[e].inbounds \cap file.inbounds \subseteq recs'[e].inbounds
  BY <1>4, <1>7, <1>8
<1>14. \A f \in Emails : SameRow(roster[f], roster'[f])
  BY <1>1, RowsStay
<1> QED
  BY <1>1, <1>7, <1>8, <1>11, <1>12, <1>13, <1>14, KeepsRecord

\* The write of the prune: what the file can carry stays on the row.
LEMMA ConvergePruneWriteStep ==
    ASSUME TypeOK, ConvergeInv, ConvergePruneWrite
    PROVE  ConvergeInv'
<1>1. /\ lpc = "pruneWrite" /\ lpc \in RecordPCs /\ cur \in Emails
      /\ UNCHANGED <<file, xray, watchVars, collectorVars, queueVars, kick, lastRunning,
                     thenConverge, passVars, cdoc, handlerVars>>
  BY DEF ConvergePruneWrite, RecordPCs, TypeOK, LoopOK
<1>2. PICK e \in Emails : e = cur
  BY <1>1
<1>3. /\ cdoc.inbounds = file.inbounds /\ recs[e].present = TRUE
      /\ \A f \in Emails : RecordOK(f)
      /\ Over(e) /\ recs[e].inbounds = roster[e].inbounds \cap file.inbounds
  BY <1>1, <1>2 DEF ConvergeInv, Converging, RecordPCs
<1>4. Live(roster[e]) /\ recs[e].id \in Ids /\ RowOK(roster[e]) /\ pending[e].queued = FALSE
  BY <1>3 DEF RecordOK, ConvergeInv, Rows
<1>5. /\ roster'[e] = [roster[e] EXCEPT !.id = recs[e].id, !.inbounds = recs[e].inbounds]
      /\ \A f \in Emails \ {e} : roster'[f] = roster[f]
  BY <1>2, <1>4 DEF ConvergePruneWrite, EditRosterUser, TypeOK, StoreOK, Live
<1>6. /\ roster'[e].present = TRUE /\ roster'[e].id = recs[e].id
      /\ roster'[e].inbounds = recs[e].inbounds
      /\ roster'[e].disabled = roster[e].disabled /\ roster'[e].deleting = roster[e].deleting
  BY <1>4, <1>5, Parts DEF Row, Live
<1>7. \A f \in Emails : SameRow(roster[f], roster'[f])
  <2>1. SameRow(roster[e], roster'[e])
    BY <1>3, <1>4, <1>6 DEF SameRow, RowOK, Live
  <2>2. ASSUME NEW f \in Emails, f # e PROVE SameRow(roster[f], roster'[f])
    BY <1>5, <2>2 DEF SameRow, ConvergeInv, Rows
  <2> QED
    BY <2>1, <2>2
<1>8. ~Over(e)'
  BY <1>1, <1>3, <1>6 DEF Over
<1>9. WithRecord(e, recs[e]) /\ recs[e].inbounds \subseteq Tags
  BY <1>2 DEF ConvergePruneWrite, TypeOK, LoopOK, Row
<1>10. CASE Lost(e, recs[e]) = {}
  <2>1. SkipRecord(e)
    BY <1>9, <1>10 DEF WithRecord
  <2>2. \A t \in file.inbounds : Repairing(e, t) => Coming
    BY <1>1, <1>9, <1>10, LostOf DEF Repairing
  <2> QED
    BY <1>1, <1>2, <1>5, <1>7, <1>8, <2>1, <2>2, LeavesRecord
<1>11. CASE Lost(e, recs[e]) # {}
  <2>1. lpc' = "check" /\ cur' = e /\ recs' = recs
    BY <1>9, <1>11 DEF WithRecord, TypeOK, LoopOK
  <2>2. \A f \in Emails : RecordOK(f)'
    <3>1. RecordOK(e)'
      BY <1>1, <1>3, <1>4, <1>6, <2>1 DEF RecordOK, Live
    <3>2. ASSUME NEW f \in Emails, f # e PROVE RecordOK(f)'
      BY <1>1, <1>3, <1>5, <2>1, <3>2 DEF RecordOK
    <3> QED
      BY <3>1, <3>2
  <2>3. Converging' /\ lpc' \in RecordPCs
    BY <1>1, <1>3, <2>1, <2>2 DEF Converging, RecordPCs
  <2> QED
    BY <1>1, <1>2, <1>3, <1>5, <1>7, <1>8, <2>1, <2>3, KeepsRecord
<1> QED
  BY <1>10, <1>11

\* The recheck of enqueueIfLive: the row is still live.
LEMMA ConvergeCheckStep ==
    ASSUME TypeOK, ConvergeInv, ConvergeCheck
    PROVE  ConvergeInv'
<1>1. /\ lpc = "check" /\ lpc \in RecordPCs /\ cur \in Emails
      /\ UNCHANGED <<storeVars, file, xray, watchVars, collectorVars, queueVars, kick, lastRunning,
                     thenConverge, passVars, cdoc, handlerVars>>
  BY DEF ConvergeCheck, RecordPCs, TypeOK, LoopOK
<1>2. PICK e \in Emails : e = cur
  BY <1>1
<1>3. /\ cdoc.inbounds = file.inbounds /\ recs[e].present = TRUE
      /\ \A f \in Emails : RecordOK(f)
      /\ recs[e].inbounds \subseteq file.inbounds
  BY <1>1, <1>2 DEF ConvergeInv, Converging, RecordPCs
<1>4. lpc' = "enqueue" /\ cur' = e /\ recs' = recs
  BY <1>2, <1>3 DEF ConvergeCheck, RecordOK
<1>5. \A f \in Emails : RecordOK(f)'
  BY <1>1, <1>3, <1>4 DEF RecordOK
<1>6. Converging' /\ lpc' \in RecordPCs
  BY <1>1, <1>3, <1>4, <1>5 DEF Converging, RecordPCs
<1>7. Over(e)' => Pruning(e)'
  BY <1>1, <1>4 DEF ConvergeInv, Trimmed, Pruning, Over, Coming, RecordPCs, PassPCs
<1>8. \A f \in Emails : SameRow(roster[f], roster'[f])
  BY <1>1, RowsStay
<1> QED
  BY <1>1, <1>3, <1>4, <1>6, <1>7, <1>8, KeepsRecord

\* What the file lost is queued.
LEMMA ConvergeEnqueueStep ==
    ASSUME TypeOK, ConvergeInv, ConvergeEnqueue
    PROVE  ConvergeInv'
<1>1. /\ lpc = "enqueue" /\ lpc \in RecordPCs /\ cur \in Emails
      /\ UNCHANGED <<storeVars, file, xray, watchVars, collectorVars, lastRunning,
                     thenConverge, passVars, cdoc, handlerVars>>
  BY DEF ConvergeEnqueue, RecordPCs, TypeOK, LoopOK
<1>2. PICK e \in Emails : e = cur
  BY <1>1
<1>3. /\ cdoc.inbounds = file.inbounds /\ recs[e].present = TRUE
      /\ \A f \in Emails : RecordOK(f)
      /\ recs[e].inbounds \subseteq file.inbounds
  BY <1>1, <1>2 DEF ConvergeInv, Converging, RecordPCs
<1>4. /\ Live(roster[e]) /\ pending[e].queued = FALSE /\ recs[e].id \in Ids
      /\ recs[e].inbounds \subseteq roster[e].inbounds
  BY <1>3 DEF RecordOK
<1>5. pending[e] = NoChange /\ \A t \in Tags : pending[e].ops[t] = "none"
  BY <1>4, NoChangeOps DEF ConvergeInv, Queues, QueueOf
<1> DEFINE lost == Lost(e, recs[e])
<1>6. /\ lost \subseteq recs[e].inbounds
      /\ \A t \in file.inbounds : t \in lost <=> t \in recs[e].inbounds /\ ~Has(cdoc.clients, e, t)
  <2>1. recs[e].inbounds \subseteq Tags
    BY DEF TypeOK, LoopOK, Row
  <2> QED
    BY <1>1, <2>1, LostOf
<1> HIDE DEF lost
<1>7. /\ pending'[e].queued = TRUE /\ pending'[e].id = recs[e].id /\ pending'[e].purge = FALSE
      /\ pending'[e].ops = AttachOps(lost)
      /\ \A f \in Emails \ {e} : pending'[f] = pending[f]
      /\ failed' = failed
  <2>1. failed = {}
    BY DEF ConvergeInv, Steady
  <2> QED
    BY <1>2, <2>1 DEF ConvergeEnqueue, EnqueueGen, TypeOK, QueueOK, lost
<1>8. \A t \in Tags : (Joins(pending'[e].ops[t]) <=> t \in lost) /\ pending'[e].ops[t] # "detach"
  BY <1>7 DEF AttachOps, Joins
<1>9. /\ lpc' = "next" /\ recs'[e].present = FALSE /\ \A f \in Emails \ {e} : recs'[f] = recs[f]
  BY <1>2 DEF ConvergeEnqueue, SkipRecord, AbsentRow, TypeOK, LoopOK
<1>10. /\ \A h \in Handlers : hpc[h] = "idle"
       /\ \A f \in Emails : Covered(f)
       /\ parse.inbounds = file.inbounds
  BY <1>1, LoopWorks
<1>11. Alone' /\ Handled' /\ Reading' /\ Steady' /\ Rows'
  BY <1>1, <1>7, <1>9, <1>10 DEF ConvergeInv, Alone, Busy, Handled, KnownTo, Reading, Steady, Rows
<1>12. Queues'
  <2>1. QueueOf(e)'
    BY <1>1, <1>4, <1>7 DEF QueueOf, WellFormed
  <2>2. ASSUME NEW f \in Emails, f # e PROVE QueueOf(f)'
    BY <1>1, <1>7, <2>2 DEF ConvergeInv, Queues, QueueOf
  <2> QED
    BY <2>1, <2>2 DEF Queues
<1>13. Coming' <=> Coming
  BY <1>1, <1>9 DEF Coming, PassPCs
<1>14. Owed'
  <2>1. \A f \in Emails, t \in Tags : /\ Adopting(f, t)' <=> Adopting(f, t)
                                      /\ Stored(f, t)' <=> Stored(f, t)
    BY <1>1 DEF Adopting, Stored
  <2>2. ASSUME NEW f \in Emails, f # e PROVE Covered(f)'
    <3>1. Covered(f) /\ pending'[f] = pending[f] /\ roster'[f] = roster[f] /\ recs'[f] = recs[f]
      BY <1>1, <1>7, <1>9, <1>10, <2>2
    <3>2. \A t \in Tags : Repairing(f, t) => Repairing(f, t)'
      BY <1>1, <1>9, <1>13, <3>1 DEF Repairing, RecordPCs
    <3> QED
      BY <1>1, <2>1, <3>1, <3>2, Parts DEF Covered, Agreeing, Surplus, Missing
  <2>3. Covered(e)'
    <3>1. Agreeing(e, pending[e].ops)'
      BY <1>1, <1>4, <1>6, <1>8, Parts DEF Agreeing, Stored
    <3>2. roster'[e].disabled = FALSE
      BY <1>1, <1>4, Parts DEF Live
    <3>3. ASSUME NEW t \in file.inbounds, Surplus(e, t)' PROVE Adopting(e, t)'
      <4>1. Surplus(e, t)
        BY <1>1, <1>5, <2>1, <3>3, Parts DEF Surplus
      <4> QED
        BY <1>10, <2>1, <4>1, Parts DEF Covered
    <3>4. ASSUME NEW t \in file.inbounds, Missing(e, t)' PROVE Repairing(e, t)'
      <4>1. Missing(e, t) /\ t \notin lost
        BY <1>1, <1>5, <1>8, <2>1, <3>4, Parts DEF Missing, Joins
      <4>2. Coming
        BY <1>1, <1>6, <1>10, <4>1 DEF Covered, Repairing
      <4> QED
        BY <1>13, <4>2 DEF Repairing
    <3> QED
      BY <1>1, <3>1, <3>2, <3>3, <3>4 DEF Covered
  <2> QED
    BY <2>2, <2>3 DEF Owed
<1>15. Orders'
  <2>1. \A f \in Emails, t \in file.inbounds : ~Detaching(f, t)
    BY <1>1, NothingToDetach
  <2>2. \A f \in Emails, t \in file.inbounds : ~Detaching(f, t)'
    BY <1>1, <1>7, <1>8, <2>1, Parts DEF Detaching
  <2> QED
    BY <1>1, <2>2 DEF Orders
<1>16. Trimmed'
  <2> SUFFICES ASSUME NEW f \in Emails, Over(f)
               PROVE  /\ Pruning(f)'
                      /\ \A t \in file.inbounds : Has(file.clients, f, t) => t \in roster[f].inbounds
    BY <1>1 DEF Trimmed, Over
  <2>1. Pruning(f) /\ \A t \in file.inbounds : Has(file.clients, f, t) => t \in roster[f].inbounds
    BY DEF ConvergeInv, Trimmed
  <2>2. CASE Coming
    BY <1>13, <2>1, <2>2 DEF Pruning
  <2>3. CASE ~Coming
    <3>1. recs[f].present = TRUE /\ recs[f].inbounds = roster[f].inbounds
      BY <1>1, <2>1, <2>3 DEF Pruning
    <3>2. f # e
      BY <1>3, <3>1 DEF Over
    <3> QED
      BY <1>1, <1>9, <2>1, <3>1, <3>2 DEF Pruning, RecordPCs
  <2> QED
    BY <2>2, <2>3
<1>17. Passing'
  BY <1>9 DEF Passing
<1>18. Converging'
  <2>1. \A f \in Emails : RecordOK(f)'
    BY <1>1, <1>3, <1>7, <1>9 DEF RecordOK
  <2> QED
    BY <1>1, <1>3, <1>9, <2>1 DEF Converging, RecordPCs
<1> QED
  BY <1>11, <1>12, <1>14, <1>15, <1>16, <1>17, <1>18 DEF ConvergeInv

-----------------------------------------------------------------------------
(* The watcher and the collector.                                          *)

\* The reload: a client the last parse lacked moves the version.
LEMMA ReloadStep ==
    ASSUME TypeOK, ConvergeInv, Reload
    PROVE  ConvergeInv'
<1>1. /\ dirty = TRUE /\ dirty' = FALSE /\ changes' = TRUE
      /\ parse' = [loaded |-> TRUE, inbounds |-> file.inbounds, clients |-> file.clients]
      /\ fresh' = (fresh \/ parse.clients # file.clients)
      /\ UNCHANGED <<storeVars, file, xray, sampled, queueVars, kick, loopVars, handlerVars>>
  BY Parts DEF Reload, ParseOf
<1>2. parse'.inbounds = file.inbounds /\ parse'.clients = file.clients /\ parse'.loaded = TRUE
  BY <1>1
<1>3. /\ \A h \in Handlers : hpc[h] = "idle"
      /\ \A e \in Emails : Covered(e)
  BY <1>1 DEF ConvergeInv, Alone, Busy, Calm, Owed, Ahead
<1>4. Alone' /\ Handled' /\ Steady' /\ Rows' /\ Queues'
  BY <1>1, <1>2, <1>3 DEF ConvergeInv, Alone, Busy, Handled, KnownTo, Steady, Rows, Queues, QueueOf
<1>5. Reading'
  BY <1>1, <1>2 DEF ConvergeInv, Reading
<1>6. Coming'
  BY <1>1 DEF Coming
<1>7. Owed'
  <2> SUFFICES ASSUME NEW e \in Emails PROVE Covered(e)'
    BY DEF Owed
  <2>1. \A t : Stored(e, t)' <=> Stored(e, t)
    BY <1>1 DEF Stored
  <2>2. ASSUME NEW t \in file.inbounds, Surplus(e, t)'
        PROVE  roster'[e].disabled = FALSE /\ Adopting(e, t)'
    <3>1. Surplus(e, t)
      BY <1>1, <2>1, <2>2 DEF Surplus
    <3>2. roster[e].disabled = FALSE /\ Adopting(e, t)
      BY <1>3, <3>1 DEF Covered
    <3>3. CASE ~Has(parse.clients, e, t)
      <4>1. parse.clients # file.clients
        BY <3>1, <3>3 DEF Surplus
      <4>2. fresh' = TRUE
        BY <1>1, <4>1
      <4> QED
        BY <1>1, <3>2, <4>2 DEF Adopting
    <3>4. CASE fresh = TRUE
      <4>1. fresh' = TRUE
        BY <1>1, <3>4
      <4> QED
        BY <1>1, <3>2, <4>1 DEF Adopting
    <3>5. CASE sampled.has = TRUE /\ Has(sampled.clients, e, t)
      BY <1>1, <3>2, <3>5 DEF Adopting
    <3> QED
      BY <3>2, <3>3, <3>4, <3>5 DEF Adopting
  <2>3. \A t : Repairing(e, t)'
    BY <1>6 DEF Repairing
  <2>4. Agreeing(e, pending[e].ops)' /\ (roster'[e].disabled = TRUE => pending'[e].queued = TRUE)
    BY <1>1, <1>3, <2>1 DEF Covered, Agreeing
  <2> QED
    BY <1>1, <2>2, <2>3, <2>4 DEF Covered
<1>8. Orders'
  <2>1. \A e \in Emails, t \in file.inbounds : ~Detaching(e, t)
    BY <1>1, NothingToDetach DEF Calm
  <2> QED
    BY <1>1, <2>1 DEF Orders, Detaching
<1>9. Trimmed'
  BY <1>1, <1>6 DEF ConvergeInv, Trimmed, Over, Pruning
<1>10. Passing' /\ Converging'
  BY <1>1 DEF ConvergeInv, Passing, Converging, InPass, Landed, Queued, RecordOK, Over
<1> QED
  BY <1>4, <1>5, <1>7, <1>8, <1>9, <1>10 DEF ConvergeInv

\* The sample: what is to be adopted is in it.
LEMMA SampleStep ==
    ASSUME TypeOK, ConvergeInv, Sample
    PROVE  ConvergeInv'
<1>1. /\ fresh = TRUE /\ fresh' = FALSE /\ sampled' = [has |-> TRUE, clients |-> parse.clients]
      /\ UNCHANGED <<storeVars, file, xray, watchVars, queueVars, kick, loopVars, handlerVars>>
  BY Parts DEF Sample
<1>2. sampled'.has = TRUE /\ sampled'.clients = parse.clients
  BY <1>1
<1>3. /\ \A h \in Handlers : hpc[h] = "idle"
      /\ \A e \in Emails : Covered(e)
  BY <1>1 DEF ConvergeInv, Alone, Busy, Calm, Owed, Ahead
<1>4. Alone' /\ Handled' /\ Steady' /\ Rows' /\ Queues'
  BY <1>1, <1>3 DEF ConvergeInv, Alone, Busy, Handled, KnownTo, Steady, Rows, Queues, QueueOf
<1>5. Reading'
  BY <1>1, <1>2 DEF ConvergeInv, Reading
<1>6. Owed'
  <2> SUFFICES ASSUME NEW e \in Emails PROVE Covered(e)'
    BY DEF Owed
  <2>1. \A t : /\ Stored(e, t)' <=> Stored(e, t)
               /\ Repairing(e, t)' <=> Repairing(e, t)
    BY <1>1 DEF Stored, Repairing, Coming
  <2>2. \A t : Adopting(e, t)'
    BY <1>1, <1>2 DEF Adopting
  <2> QED
    BY <1>1, <1>3, <2>1, <2>2 DEF Covered, Agreeing, Surplus, Missing
<1>7. Orders'
  <2>1. \A e \in Emails, t \in file.inbounds : ~Detaching(e, t)
    BY <1>1, NothingToDetach DEF Calm
  <2> QED
    BY <1>1, <2>1 DEF Orders, Detaching
<1>8. Trimmed'
  BY <1>1 DEF ConvergeInv, Trimmed, Over, Pruning, Coming
<1>9. Passing' /\ Converging'
  BY <1>1 DEF ConvergeInv, Passing, Converging, InPass, Landed, Queued, RecordOK, Over
<1> QED
  BY <1>4, <1>5, <1>6, <1>7, <1>8, <1>9 DEF ConvergeInv

\* A row after the adoption of a parse: it gains what the parse carries for
\* its user, all of it in the file; a row that names inbounds the file lacks
\* gains nothing.
LEMMA AdoptedRow ==
    ASSUME TypeOK, ConvergeInv, sampled.has = TRUE,
           roster' = AdoptClients(roster, sampled.clients), NEW e \in Emails
    PROVE  /\ RowOK(roster'[e]) /\ roster'[e].disabled = roster[e].disabled
           /\ Live(roster[e]) => Live(roster'[e])
           /\ Deleting(roster'[e]) <=> Deleting(roster[e])
           /\ roster[e].inbounds \subseteq roster'[e].inbounds
           /\ \A t \in Tags : Stored(e, t)' <=>
                 Stored(e, t) \/ (roster[e].disabled = FALSE /\ Has(sampled.clients, e, t))
           /\ Over(e) => roster'[e].inbounds = roster[e].inbounds
           /\ ~Over(e) /\ Live(roster'[e]) => roster'[e].inbounds \subseteq file.inbounds
<1> DEFINE c == Carrying(sampled.clients, e)
           r == roster[e]
<1>1. r \in Row /\ RowOK(r) /\ sampled.clients \in Clients
  BY Parts DEF ConvergeInv, Rows, TypeOK, FilesOK, Sampled
<1>2. \A t \in Tags : t \in c <=> Has(sampled.clients, e, t)
  BY DEF Carrying, Has
<1>3. c \subseteq Tags /\ c \subseteq file.inbounds /\ \A t \in c : Has(file.clients, e, t)
  BY <1>2 DEF ConvergeInv, Reading, Has, Carrying
<1>4. CASE c = {} \/ (r.present = TRUE /\ r.disabled = TRUE)
  <2>1. roster'[e] = r
    BY <1>4 DEF AdoptClients
  <2>2. \A t \in Tags : ~(r.disabled = FALSE /\ Has(sampled.clients, e, t))
    BY <1>2, <1>4
  <2> QED
    BY <1>1, <2>1, <2>2 DEF Stored, Over
<1>5. CASE c # {} /\ r.present = FALSE
  <2>1. r = AbsentRow /\ r.disabled = FALSE /\ r.inbounds = {} /\ r.deleting = FALSE
    BY <1>1, <1>5 DEF RowOK, AbsentRow
  <2>2. roster'[e] = [AbsentRow EXCEPT !.present = TRUE, !.id = ParsedID(sampled.clients, e),
                                       !.inbounds = c]
    BY <1>5 DEF AdoptClients
  <2>3. /\ roster'[e].present = TRUE /\ roster'[e].id = ParsedID(sampled.clients, e)
        /\ roster'[e].inbounds = c /\ roster'[e].disabled = FALSE /\ roster'[e].deleting = FALSE
    BY <2>2 DEF AbsentRow
  <2>4. ParsedID(sampled.clients, e) \in Ids
    <3>1. (CHOOSE t \in c : TRUE) \in c
      BY <1>5
    <3> DEFINE t0 == CHOOSE t \in c : TRUE
    <3>2. sampled.clients[t0][e] # None /\ sampled.clients[t0][e] \in MaybeId
      BY <1>1, <1>2, <1>3, <3>1 DEF Clients, Has
    <3> QED
      BY <3>2 DEF ParsedID, MaybeId
  <2>5. Live(roster'[e]) /\ ~Live(r) /\ ~Deleting(r) /\ ~Deleting(roster'[e])
    BY <1>5, <2>3 DEF Live, Deleting
  <2>6. RowOK(roster'[e])
    BY <2>3, <2>4 DEF RowOK
  <2>7. ~Over(e)
    BY <2>5 DEF Over
  <2> QED
    BY <1>2, <1>3, <2>1, <2>3, <2>5, <2>6, <2>7 DEF Stored
<1>6. CASE c # {} /\ r.present = TRUE /\ r.disabled = FALSE
  <2>1. roster'[e] = [r EXCEPT !.inbounds = @ \cup c]
    BY <1>6 DEF AdoptClients
  <2>2. /\ roster'[e].present = TRUE /\ roster'[e].id = r.id
        /\ roster'[e].inbounds = r.inbounds \cup c
        /\ roster'[e].disabled = FALSE /\ roster'[e].deleting = r.deleting
    BY <1>1, <1>6, <2>1 DEF Row
  <2>3. r.deleting = FALSE /\ r.id \in Ids
    BY <1>1, <1>6 DEF RowOK
  <2>4. Live(roster'[e]) /\ Live(r) /\ ~Deleting(r) /\ ~Deleting(roster'[e])
    BY <1>6, <2>2, <2>3 DEF Live, Deleting
  <2>5. RowOK(roster'[e])
    BY <2>2, <2>3 DEF RowOK
  <2>6. Over(e) => c \subseteq r.inbounds
    BY <1>3 DEF ConvergeInv, Trimmed
  <2>7. ~Over(e) => r.inbounds \subseteq file.inbounds
    BY <2>4 DEF Over
  <2> QED
    BY <1>2, <1>3, <1>6, <2>2, <2>4, <2>5, <2>6, <2>7 DEF Stored
<1> QED
  BY <1>1, <1>4, <1>5, <1>6 DEF Row

\* The flush: what was sampled is on the rows, but the clients of flagged ones.
LEMMA FlushStep ==
    ASSUME TypeOK, ConvergeInv, Flush
    PROVE  ConvergeInv'
<1>1. /\ sampled.has = TRUE /\ sampled' = NothingSampled
      /\ roster' = AdoptClients(roster, sampled.clients)
      /\ UNCHANGED <<file, xray, watchVars, fresh, queueVars, kick, loopVars, handlerVars>>
  BY Parts DEF Flush
<1>2. sampled'.has = FALSE
  BY <1>1 DEF NothingSampled
<1>3. /\ \A h \in Handlers : hpc[h] = "idle"
      /\ \A e \in Emails : Covered(e)
  BY <1>1 DEF ConvergeInv, Alone, Busy, Calm, Owed, Ahead
<1>4. ASSUME NEW e \in Emails
      PROVE  /\ RowOK(roster'[e]) /\ roster'[e].disabled = roster[e].disabled
             /\ Live(roster[e]) => Live(roster'[e])
             /\ Deleting(roster'[e]) <=> Deleting(roster[e])
             /\ roster[e].inbounds \subseteq roster'[e].inbounds
             /\ \A t \in Tags : Stored(e, t)' <=>
                   Stored(e, t) \/ (roster[e].disabled = FALSE /\ Has(sampled.clients, e, t))
             /\ Over(e) => roster'[e].inbounds = roster[e].inbounds
             /\ ~Over(e) /\ Live(roster'[e]) => roster'[e].inbounds \subseteq file.inbounds
  BY <1>1, AdoptedRow
<1>5. \A e \in Emails, t \in file.inbounds : ~Detaching(e, t)
  BY <1>1, NothingToDetach DEF Calm
<1>6. Alone' /\ Handled' /\ Steady' /\ Reading'
  BY <1>1, <1>2, <1>3 DEF ConvergeInv, Alone, Busy, Handled, KnownTo, Steady, Reading
<1>7. Rows' /\ Queues'
  BY <1>1, <1>4 DEF ConvergeInv, Rows, Queues, QueueOf, WellFormed
<1>8. Owed'
  <2> SUFFICES ASSUME NEW e \in Emails PROVE Covered(e)'
    BY DEF Owed
  <2>1. \A t : Repairing(e, t)' <=> Repairing(e, t)
    BY <1>1 DEF Repairing, Coming
  <2>2. \A t \in file.inbounds : Has(sampled.clients, e, t) => Has(file.clients, e, t)
    BY <1>1, Parts DEF ConvergeInv, Reading
  <2>3. Agreeing(e, pending[e].ops)'
    <3>1. \A t \in file.inbounds : pending[e].ops[t] = "detach" => ~Has(file.clients, e, t)
      BY <1>5 DEF Detaching
    <3> QED
      BY <1>1, <1>3, <1>4, <2>2, <3>1, Parts DEF Covered, Agreeing
  <2>4. ASSUME NEW t \in file.inbounds, Surplus(e, t)'
        PROVE  roster'[e].disabled = FALSE /\ Adopting(e, t)'
    <3>1. Surplus(e, t) /\ ~Stored(e, t)'
      BY <1>1, <1>4, <2>4, Parts DEF Surplus
    <3>2. roster[e].disabled = FALSE /\ Adopting(e, t)
      BY <1>3, <3>1 DEF Covered
    <3>3. ~Has(sampled.clients, e, t)
      BY <1>4, <3>1, <3>2, Parts
    <3> QED
      BY <1>1, <1>4, <3>2, <3>3 DEF Adopting
  <2>5. ASSUME NEW t \in file.inbounds, Missing(e, t)' PROVE Repairing(e, t)'
    <3>1. Missing(e, t)
      BY <1>1, <1>4, <2>2, <2>5, Parts DEF Missing
    <3> QED
      BY <1>3, <2>1, <3>1 DEF Covered
  <2>6. roster'[e].disabled = TRUE => pending'[e].queued = TRUE
    BY <1>1, <1>3, <1>4 DEF Covered
  <2> QED
    BY <1>1, <2>3, <2>4, <2>5, <2>6 DEF Covered
<1>9. Orders'
  BY <1>1, <1>5 DEF Orders, Detaching
<1>10. \A e \in Emails : Over(e)' => Over(e) /\ roster'[e].inbounds = roster[e].inbounds
  BY <1>1, <1>4 DEF Over
<1>11. Trimmed'
  <2>1. \A e \in Emails : Over(e)' /\ Pruning(e) => Pruning(e)'
    BY <1>1, <1>10 DEF Pruning, Coming
  <2> QED
    BY <1>1, <1>10, <2>1 DEF ConvergeInv, Trimmed
<1>12. Passing'
  BY <1>1 DEF ConvergeInv, Passing, InPass, Landed, Queued
<1>13. Converging'
  <2>1. ASSUME NEW e \in Emails, RecordOK(e) PROVE RecordOK(e)'
    <3> SUFFICES ASSUME recs[e].present = TRUE PROVE RecordOK(e)'
      BY <1>1 DEF RecordOK
    <3>1. /\ Live(roster[e]) /\ pending[e].queued = FALSE /\ recs[e].id \in Ids
          /\ recs[e].inbounds \cap file.inbounds \subseteq roster[e].inbounds
          /\ recs[e].inbounds \subseteq file.inbounds \/ recs[e].inbounds = roster[e].inbounds
      BY <2>1 DEF RecordOK
    <3>2. recs[e].inbounds \subseteq file.inbounds \/ recs[e].inbounds = roster'[e].inbounds
      BY <1>4, <3>1 DEF Over
    <3> QED
      BY <1>1, <1>4, <3>1, <3>2 DEF RecordOK
  <2>2. ASSUME NEW e \in Emails, Over(e)
        PROVE  Over(e)' /\ roster'[e].inbounds = roster[e].inbounds
    BY <1>1, <1>4, <2>2 DEF Over
  <2>3. lpc = "pruneWrite" => cur \in Emails
    BY DEF TypeOK, LoopOK
  <2> QED
    BY <1>1, <1>4, <2>1, <2>2, <2>3 DEF ConvergeInv, Converging, Queued
<1> QED
  BY <1>6, <1>7, <1>8, <1>9, <1>11, <1>12, <1>13 DEF ConvergeInv

-----------------------------------------------------------------------------
(* The hand edits.                                                         *)

\* What a hand edit leaves: clients only in inbounds of the file; the inbounds
\* that were there, or fewer of them with their clients as they were.
LEMMA EditedFile ==
    ASSUME TypeOK, ConvergeInv, HandEdit
    PROVE  /\ \A t \in Tags \ file'.inbounds, e \in Emails : file'.clients[t][e] = None
           /\ file'.inbounds \subseteq Tags
           /\ \/ file.inbounds \subseteq file'.inbounds
              \/ \A t \in file'.inbounds, e \in Emails :
                    t \in file.inbounds /\ (Has(file'.clients, e, t) <=> Has(file.clients, e, t))
<1>1. /\ file \in Document /\ file.inbounds \subseteq Tags
      /\ \A t \in Tags \ file.inbounds, e \in Emails : file.clients[t][e] = None
  BY Parts DEF TypeOK, FilesOK, ConvergeInv, Reading
<1>2. CASE \E t \in file.inbounds, e \in Emails, id \in MaybeId :
             file' = [file EXCEPT !.clients[t][e] = id]
  <2>1. PICK t \in file.inbounds, e \in Emails, id \in MaybeId :
             file' = [file EXCEPT !.clients[t][e] = id]
    BY <1>2
  <2>2. file'.inbounds = file.inbounds /\ file'.clients = [file.clients EXCEPT ![t][e] = id]
    BY <1>1, <2>1 DEF Document
  <2>3. \A u \in Tags \ {t} : file'.clients[u] = file.clients[u]
    BY <1>1, <2>2 DEF Document, Clients
  <2> QED
    BY <1>1, <2>2, <2>3
<1>3. CASE \E t \in Tags \ file.inbounds : file' = [file EXCEPT !.inbounds = @ \cup {t}]
  BY <1>1, <1>3 DEF Document
<1>4. CASE \E t \in file.inbounds :
             file' = [inbounds |-> file.inbounds \ {t},
                      clients |-> [file.clients EXCEPT ![t] = [e \in Emails |-> None]]]
  <2>1. PICK t \in file.inbounds :
             file' = [inbounds |-> file.inbounds \ {t},
                      clients |-> [file.clients EXCEPT ![t] = [e \in Emails |-> None]]]
    BY <1>4
  <2>2. /\ file'.inbounds = file.inbounds \ {t}
        /\ \A u \in Tags \ {t} : file'.clients[u] = file.clients[u]
        /\ \A e \in Emails : file'.clients[t][e] = None
    BY <1>1, <2>1 DEF Document, Clients
  <2> QED
    BY <1>1, <2>2 DEF Has
<1> QED
  BY <1>2, <1>3, <1>4 DEF HandEdit

\* A hand edit finds the panel at rest: what it adds is in no parse yet, what
\* it strips is repaired after the reload.
LEMMA HandEditStep ==
    ASSUME TypeOK, HandsOn, ConvergeInv, WakeupOwed, HandEdit
    PROVE  ConvergeInv'
<1>1. /\ Quiet /\ dirty' = TRUE
      /\ UNCHANGED <<storeVars, xray, parse, changes, collectorVars, queueVars, kick, loopVars,
                     handlerVars>>
  BY DEF HandEdit, HandsOn
<1>2. /\ lpc = "select" /\ kick = FALSE /\ Calm /\ Queued = {}
      /\ parse.inbounds = file.inbounds /\ parse.clients = file.clients
      /\ \A h \in Handlers : hpc[h] = "idle"
      /\ \A e \in Emails : /\ pending[e] = NoChange /\ ~Over(e)
                           /\ roster[e].disabled = FALSE /\ roster[e].deleting = FALSE
                           /\ \A t \in file.inbounds : Has(file.clients, e, t) <=> Stored(e, t)
  BY <1>1, AtRest
<1>3. /\ \A t \in Tags \ file'.inbounds, e \in Emails : file'.clients[t][e] = None
      /\ file'.inbounds \subseteq Tags
      /\ \/ file.inbounds \subseteq file'.inbounds
         \/ \A t \in file'.inbounds, e \in Emails :
               t \in file.inbounds /\ (Has(file'.clients, e, t) <=> Has(file.clients, e, t))
  BY EditedFile
<1>4. Alone' /\ Handled' /\ Steady' /\ Rows' /\ Queues'
  BY <1>1, <1>2 DEF ConvergeInv, Alone, Busy, Handled, KnownTo, Steady, Rows, Queues, QueueOf
<1>5. Reading'
  BY <1>1, <1>2, <1>3 DEF Reading, Calm
<1>6. Coming'
  BY <1>1 DEF Coming
<1>7. Owed'
  <2> SUFFICES ASSUME NEW e \in Emails PROVE Covered(e)'
    BY DEF Owed
  <2>1. \A t \in Tags : pending'[e].ops[t] = "none"
    BY <1>1, <1>2, NoChangeOps
  <2>2. Agreeing(e, pending[e].ops)' /\ roster'[e].disabled = FALSE
    BY <1>1, <1>2, <1>3, <2>1 DEF Agreeing, Joins
  <2>3. ASSUME NEW t \in file'.inbounds, Surplus(e, t)' PROVE Adopting(e, t)'
    <3>1. t \in Tags /\ ~Stored(e, t)
      BY <1>1, <1>3, <2>3 DEF Surplus, Stored
    <3>2. ~Has(file.clients, e, t)
      BY <1>2, <3>1 DEF ConvergeInv, Reading, Has
    <3> QED
      BY <1>1, <1>2, <3>2 DEF Adopting
  <2>4. \A t : Repairing(e, t)'
    BY <1>6 DEF Repairing
  <2> QED
    BY <2>2, <2>3, <2>4 DEF Covered
<1>8. Orders'
  BY <1>1, <1>2, <1>3, NoChangeOps DEF Orders, Detaching
<1>9. Trimmed'
  <2> SUFFICES ASSUME NEW e \in Emails, Over(e)'
               PROVE  /\ Pruning(e)'
                      /\ \A t \in file'.inbounds : Has(file'.clients, e, t) => t \in roster[e].inbounds
    BY <1>1 DEF Trimmed
  <2>1. Live(roster[e]) /\ ~(roster[e].inbounds \subseteq file'.inbounds)
    BY <1>1 DEF Over
  <2>2. roster[e].inbounds \subseteq file.inbounds
    BY <1>2, <2>1 DEF Over
  <2>3. \A t \in file'.inbounds :
           t \in file.inbounds /\ (Has(file'.clients, e, t) <=> Has(file.clients, e, t))
    BY <1>3, <2>1, <2>2
  <2>4. \A t \in file'.inbounds : Has(file'.clients, e, t) => t \in roster[e].inbounds
    BY <1>2, <2>3 DEF Stored
  <2> QED
    BY <1>6, <2>4 DEF Pruning
<1>10. Passing' /\ Converging'
  BY <1>1, <1>2 DEF Passing, Converging, RecordPCs
<1> QED
  BY <1>4, <1>5, <1>7, <1>8, <1>9, <1>10 DEF ConvergeInv

-----------------------------------------------------------------------------
(* The invariant, and what it gives at rest.                               *)

\* The panel starts on a file that the store agrees with.
LEMMA ConvergeInit ==
    ASSUME HandsOn, Init
    PROVE  ConvergeInv
<1>1. /\ file.inbounds = Tags /\ parse.inbounds = Tags /\ parse.clients = file.clients
      /\ parse.loaded = TRUE /\ xray.up = TRUE /\ xray.inbounds = Tags
      /\ \A t \in Tags, e \in Emails : file.clients[t][e] = roster[e].id
  BY DEF HandsOn, Init, InitDocument, ParseOf, ServerOf
<1>2. \A e \in Emails : pending[e] = NoChange /\ pending[e].queued = FALSE
                        /\ \A t \in Tags : pending[e].ops[t] = "none"
  BY NoChangeOps DEF Init, NoChanges
<1>3. ASSUME NEW e \in Emails
      PROVE  /\ RowOK(roster[e]) /\ roster[e].disabled = FALSE /\ roster[e].deleting = FALSE
             /\ roster[e].inbounds \subseteq Tags
             /\ \A t \in Tags : Stored(e, t) <=> roster[e].id # None
  <2>1. roster[e] = InitRow(e)
    BY DEF Init
  <2>2. CASE e \in DOMAIN Enrolled
    <3>1. Enrolled[e] \in Ids /\ Enrolled[e] # None
      BY <2>2, ServiceAssumption, NoneAssumption
    <3>2. /\ roster[e].present = TRUE /\ roster[e].id = Enrolled[e] /\ roster[e].inbounds = Tags
          /\ roster[e].disabled = FALSE /\ roster[e].deleting = FALSE
      BY <2>1, <2>2 DEF InitRow, HandsOn
    <3> QED
      BY <3>1, <3>2 DEF RowOK, Stored, Live
  <2>3. CASE e \notin DOMAIN Enrolled
    <3>1. roster[e] = AbsentRow
      BY <2>1, <2>3 DEF InitRow
    <3>2. /\ AbsentRow.present = FALSE /\ AbsentRow.id = None /\ AbsentRow.inbounds = {}
          /\ AbsentRow.disabled = FALSE /\ AbsentRow.deleting = FALSE
      BY DEF AbsentRow
    <3> QED
      BY <3>1, <3>2 DEF RowOK, Stored, Live
  <2> QED
    BY <2>2, <2>3
<1>4. /\ lpc = "boot" /\ dirty = FALSE /\ fresh = TRUE /\ sampled = NothingSampled /\ failed = {}
      /\ \A h \in Handlers : hpc[h] = "idle"
  BY DEF Init
<1>5. Alone /\ Steady /\ Handled
  BY <1>1, <1>4 DEF Alone, Busy, Steady, Handled, KnownTo
<1>6. Reading
  BY <1>1, <1>4 DEF Reading, NothingSampled
<1>7. Rows /\ Queues
  BY <1>2, <1>3 DEF Rows, Queues, QueueOf
<1>8. Owed
  <2> SUFFICES ASSUME NEW e \in Emails PROVE Covered(e)
    BY DEF Owed
  <2>1. ASSUME NEW t \in file.inbounds PROVE Has(file.clients, e, t) <=> Stored(e, t)
    <3>1. t \in Tags /\ file.clients[t][e] = roster[e].id
      BY <1>1
    <3>2. Stored(e, t) <=> roster[e].id # None
      BY <1>3, <3>1
    <3> QED
      BY <3>1, <3>2 DEF Has
  <2>2. \A t \in file.inbounds : pending[e].ops[t] = "none"
    BY <1>1, <1>2
  <2>3. roster[e].disabled = FALSE
    BY <1>3
  <2> QED
    BY <2>1, <2>2, <2>3 DEF Covered, Agreeing, Surplus, Missing, Joins
<1>9. Orders /\ Trimmed
  BY <1>1, <1>2, <1>3 DEF Orders, Detaching, Trimmed, Over
<1>10. Passing /\ Converging
  BY <1>2, <1>3, <1>4 DEF Passing, Converging, Queued, RecordPCs, Deleting
<1> QED
  BY <1>5, <1>6, <1>7, <1>8, <1>9, <1>10 DEF ConvergeInv

\* The invariant is about the variables alone.
LEMMA ConvergeStutters ==
    ASSUME ConvergeInv, UNCHANGED vars
    PROVE  ConvergeInv'
<1>1. Alone' /\ Steady' /\ Reading' /\ Rows' /\ Queues' /\ Orders'
  BY DEF vars, ConvergeInv, Alone, Busy, Calm, Queued, Steady, Reading, Rows, Queues, QueueOf, Orders,
         Detaching
<1>2. Owed'
  <2>1. \A e : Ahead(e)' <=> Ahead(e)
    BY DEF vars, Ahead
  <2>2. \A e : Covered(e)' <=> Covered(e)
    BY DEF vars, Covered, Agreeing, Stored, Surplus, Missing, Adopting, Repairing, Coming
  <2> QED
    BY <2>1, <2>2 DEF ConvergeInv, Owed
<1>3. Trimmed' /\ Passing'
  BY DEF vars, ConvergeInv, Trimmed, Over, Pruning, Coming, Passing, InPass, Landed, Queued
<1>4. Converging'
  BY DEF vars, ConvergeInv, Converging, RecordOK, Over, Queued
<1>5. Handled'
  BY DEF vars, ConvergeInv, Handled, KnownTo, Exact, Agreeing, Stored
<1> QED
  BY <1>1, <1>2, <1>3, <1>4, <1>5 DEF ConvergeInv

\* Every step keeps the invariant.
LEMMA ConvergeNextInv ==
    ASSUME TypeOK, HandsOn, ConvergeInv, WakeupOwed, [Next]_vars
    PROVE  ConvergeInv'
<1>1. ASSUME NEW h \in Handlers, Arrive(h) \/ HandlerStep(h) PROVE ConvergeInv'
  BY <1>1, Requests
<1>2. CASE ApplyStep
  BY <1>2, PassSteps, RenderWriteStep, PushSteps, SettleStep DEF ApplyStep
<1>3. CASE ConvergeStep
  BY <1>3, ConvergeReads, ConvergeNextStep, ConvergePruneStep, ConvergePruneWriteStep,
     ConvergeCheckStep, ConvergeEnqueueStep DEF ConvergeStep
<1>4. CASE LoopStep
  BY <1>2, <1>3, <1>4, BootSteps, SelectSteps DEF LoopStep
<1>5. CASE Reload
  BY <1>5, ReloadStep
<1>6. CASE CollectorStep
  BY <1>6, SampleStep, FlushStep DEF CollectorStep
<1>7. ~XrayStart
  BY DEF XrayStart, ConvergeInv, Steady
<1>8. CASE Faults
  <2>1. /\ ~Spend("failures") /\ ~Spend("storeFailures")
        /\ ~Spend("restarts") /\ ~Spend("crashes")
    BY NothingFails DEF TypeOK
  <2>2. HandEdit
    BY <1>8, <2>1 DEF Faults, StoreFails, LoopStoreFails, RenderFails, PurgeFails, XrayStop, Crash
  <2> QED
    BY <2>2, HandEditStep
<1>9. CASE UNCHANGED vars
  BY <1>9, ConvergeStutters
<1> QED
  BY <1>1, <1>4, <1>5, <1>6, <1>7, <1>8, <1>9 DEF Next

\* Hand edits of the config are adopted or reverted, whatever clients and
\* inbounds the operator adds to the file or strips from it and in whatever
\* order the reload, the collector's sample and flush, the convergence and the
\* passes it asks for come: at rest the store and the file name the same
\* attachments (service.go, converge; store.go, adoptClients).
THEOREM HandEditsConverge ==
    ASSUME HandsOn
    PROVE  Spec => []StoreAndFileAgree
<1>1. Init => ConvergeInv
  BY ConvergeInit
<1>2. TypeOK /\ WakeupOwed /\ ConvergeInv /\ [Next]_vars => ConvergeInv'
  BY ConvergeNextInv
<1>3. TypeOK /\ WakeupOwed /\ ConvergeInv => StoreAndFileAgree
  <2> SUFFICES ASSUME TypeOK, WakeupOwed, ConvergeInv, Quiet,
                      NEW e \in Emails, NEW t \in file.inbounds
               PROVE  (OnFile(e, t) # None) <=> (Due(e, t) # None)
    BY DEF StoreAndFileAgree
  <2>1. Has(file.clients, e, t) <=> Stored(e, t)
    BY AtRest
  <2>2. Live(roster[e]) => roster[e].id # None
    BY NoneAssumption, Parts DEF ConvergeInv, Rows, RowOK, Live
  <2> QED
    BY <2>1, <2>2 DEF Has, Stored, OnFile, Due
<1> QED
  BY <1>1, <1>2, <1>3, TypeCorrect, NoWakeupLost, PTL DEF Spec
=============================================================================
