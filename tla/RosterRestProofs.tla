--------------------------- MODULE RosterRestProofs ---------------------------
(***************************************************************************)
(* What Sync() and the settled state promise, for every set of emails,     *)
(* inbounds and Client IDs, and for any number of mutations and of failing *)
(* renders, pushes and purges: requests that find the panel at rest leave, *)
(* once everything has settled, exactly the stored attachments in the      *)
(* config file and on the running xray, with the stored Client IDs.        *)
(***************************************************************************)
EXTENDS RosterServiceProofs

-----------------------------------------------------------------------------
(* The scenario of the run roster_edits, and of roster_switches but for the
   outage of xray there: requests come one at a time and find the panel at
   rest, nobody else writes the config, and what fails is renders, pushes
   and purges.                                                             *)
OneAtATime ==
    /\ Spaced = TRUE /\ Adoption = FALSE
    /\ MaxHandEdits = 0 /\ MaxStoreFailures = 0 /\ MaxRestarts = 0 /\ MaxCrashes = 0

\* The mutations that carry over what an unfinished change still owes: no
\* revive, and no Disable after an Edit that drops an inbound.
CarriedOver ==
    /\ "revive" \notin Kinds
    /\ "edit" \notin Kinds \/ "disable" \notin Kinds

-----------------------------------------------------------------------------
(* The inductive invariant.                                                *)

Busy(h) == hpc[h] # "idle"

\* A request at work has the panel to itself.
Sequential ==
    /\ \A g, h \in Handlers : Busy(g) /\ Busy(h) => g = h
    /\ \A h \in Handlers : Busy(h) => lpc = "select" /\ ~kick /\ ~changes /\ ~dirty

\* The inbounds stay, xray runs, the collector does not.
Steady ==
    /\ file.inbounds = InitInbounds /\ xray.inbounds = InitInbounds
    /\ parse.inbounds = InitInbounds
    /\ xray.up = TRUE /\ sampled.has = FALSE
    /\ lpc # "boot" => lastRunning = TRUE

\* Every row has a Client ID and inbounds of the config; only Disable and
\* Delete take a user off the Roster.
RowOK(row) ==
    /\ row.present = FALSE => row = AbsentRow
    /\ row.present = TRUE => row.id \in Ids
    /\ row.inbounds \subseteq InitInbounds
    /\ row.deleting = TRUE => row.disabled = TRUE
    /\ row.disabled = TRUE => row.deleting = TRUE \/ "disable" \in Kinds
Rows == \A e \in Emails : RowOK(roster[e])

\* What a change may hold, given the row of its user.
WellFormed(row, ops, id, purge) ==
    /\ row.present = TRUE
    /\ Touched(ops) \subseteq InitInbounds
    /\ (\E t \in Tags : ops[t] \in {"attach", "rotate"}) => id \in Ids
    /\ ops = NoOps => purge = TRUE
    /\ purge = TRUE => Deleting(row)
    /\ "edit" \notin Kinds => Touched(ops) \subseteq row.inbounds

QueueOf(e) ==
    IF pending[e].queued = TRUE
    THEN WellFormed(roster[e], pending[e].ops, pending[e].id, pending[e].purge)
    ELSE pending[e] = NoChange
Queues == \A e \in Emails : QueueOf(e)

\* The entry is there once the operation landed.
Carries(entry, op) == op \in {"attach", "rotate"} \/ (op = "none" /\ entry # None)

\* The operations bring the entries of a user to exactly these inbounds.
Brings(clients, e, ops, tags) ==
    \A t \in InitInbounds : Carries(clients[t][e], ops[t]) <=> t \in tags
Plans(e, ops, tags) == Brings(file.clients, e, ops, tags) /\ Brings(xray.clients, e, ops, tags)

DueTags(row) == IF Live(row) THEN row.inbounds ELSE {}

\* A mutation of the user has taken the queued change, or written the row,
\* and not queued its own change yet.
Ahead(e) ==
    \E h \in Handlers :
        req[h].email = e /\ hpc[h] \in {"editTake", "disableStore", "deleteMark", "enqueue"}

\* The queued change owes all that is missing.
Owes(e) == Plans(e, pending[e].ops, DueTags(roster[e]))
Owed == \A e \in Emails : Ahead(e) \/ Owes(e)

\* What a handler knows at each of its steps.
KnownTo(h) ==
    LET r == req[h]
        row == roster[r.email]
    IN
    /\ hpc[h] \in {"editCheck", "editWrite", "disableTake", "deleteTake", "enableStore"} =>
          r.row = row
    /\ hpc[h] \in {"editCheck", "editWrite", "editTake"} =>
          /\ r.kind # "enable" /\ r.purge = FALSE /\ Live(row)
          /\ r.tags \subseteq InitInbounds /\ r.row.inbounds \subseteq InitInbounds
          /\ "edit" \notin Kinds => r.tags = r.row.inbounds
    /\ hpc[h] \in {"editWrite", "editTake"} => r.id \in Ids
    /\ hpc[h] = "editTake" =>
          /\ row.inbounds = r.tags /\ row.id = r.id
          /\ Plans(r.email, pending[r.email].ops, r.row.inbounds)
    /\ hpc[h] \in {"disableTake", "disableStore"} =>
          Live(row) /\ "disable" \in Kinds /\ r.purge = FALSE
    /\ hpc[h] \in {"deleteRead", "deleteTake", "deleteMark"} => r.purge = TRUE
    /\ hpc[h] \in {"deleteTake", "deleteMark"} => row.present = TRUE /\ row.deleting = FALSE
    /\ hpc[h] = "enableStore" => Disabled(row) /\ r.id = row.id /\ r.purge = FALSE
    /\ hpc[h] \in {"disableStore", "deleteMark"} =>
          /\ pending[r.email] = NoChange
          /\ Plans(r.email, r.ops, {})
          /\ Touched(r.ops) \subseteq InitInbounds
          /\ "edit" \notin Kinds => Touched(r.ops) \subseteq row.inbounds
    /\ hpc[h] = "disableStore" /\ r.ops = NoOps => r.email \notin failed
    /\ hpc[h] = "enqueue" =>
          /\ WellFormed(row, r.ops, r.id, r.purge)
          /\ Plans(r.email, r.ops, DueTags(row))
Handled == \A h \in Handlers : KnownTo(h)

\* A failed mark stands for a queued change, or one about to be queued.
MarkOf(e) ==
    e \in failed =>
        \/ pending[e].queued = TRUE
        \/ \E h \in Handlers :
              req[h].email = e /\ hpc[h] \in {"disableStore", "deleteMark", "enqueue"}
Marked == \A e \in Emails : MarkOf(e)

\* The user's entries are as stored, on all inbounds but these.
Landed(clients, e, missing) ==
    \A t \in InitInbounds \ missing : clients[t][e] # None <=> t \in DueTags(roster[e])

InPass(e) == e \in todo \/ (lpc = "push" /\ e = cur)

\* A pass works on the queue as it is, and never settles more than landed.
Passing ==
    /\ lpc \in {"render", "write"} => snap = pending /\ todo = Queued
    /\ lpc = "write" => doc = RenderClients(file, snap)
    /\ lpc \in {"pick", "push"} =>
          \A e \in Emails : InPass(e) =>
              /\ snap[e] = pending[e] /\ pending[e].queued = TRUE
              /\ Landed(file.clients, e, {})
    /\ lpc = "push" =>
          /\ cur \notin todo /\ left \subseteq Touched(snap[cur].ops)
          /\ Landed(xray.clients, cur, left)

\* A convergence works on the rows as they are.
Converging ==
    /\ lpc \notin {"prune", "pruneWrite"}
    /\ lpc = "boot" => \A e \in Emails : ~Deleting(roster[e])
    /\ lpc = "recover" => recs = NoRecords
    /\ lpc = "list" => cdoc.inbounds = InitInbounds
    /\ lpc \in {"next", "check", "enqueue"} =>
          /\ cdoc.inbounds = InitInbounds
          /\ \A e \in Emails : recs[e].present = TRUE => recs[e] = roster[e] /\ Live(roster[e])
    /\ lpc \in {"check", "enqueue"} =>
          /\ recs[cur].present = TRUE /\ Lost(cur, recs[cur]) # {}
          /\ pending[cur].queued = FALSE

RestInv ==
    /\ Sequential /\ Steady /\ Rows /\ Queues /\ Owed /\ Handled /\ Marked /\ Passing /\ Converging

-----------------------------------------------------------------------------
(* Facts about the operators.                                              *)

USE DEF storeVars, watchVars, collectorVars, queueVars, passVars, convergeVars,
        loopVars, handlerVars

\* The faults the scenario leaves out do not happen.
LEMMA FaultsLeftOut ==
    ASSUME OneAtATime, SpentOK
    PROVE  /\ ~Spend("handEdits") /\ ~Spend("storeFailures")
           /\ ~Spend("restarts") /\ ~Spend("crashes")
<1>1. /\ Bounds["handEdits"] = 0 /\ Bounds["storeFailures"] = 0
      /\ Bounds["restarts"] = 0 /\ Bounds["crashes"] = 0
  BY DEF Bounds, OneAtATime
<1>2. /\ spent["handEdits"] \in Nat /\ spent["storeFailures"] \in Nat
      /\ spent["restarts"] \in Nat /\ spent["crashes"] \in Nat
  BY DEF SpentOK, Bounds
<1> QED
  BY <1>1, <1>2 DEF Spend

\* Landing an operation: the entry is there exactly when the operation
\* carries it, and owes nothing more; a push that answered an error owes as
\* much as before.
LEMMA LandsOnce ==
    ASSUME NEW entry \in MaybeId, NEW op \in OpKinds, NEW id \in MaybeId,
           op \in {"attach", "rotate"} => id \in Ids
    PROVE  /\ PushEntry(entry, op, id) # None <=> Carries(entry, op)
           /\ Carries(PushEntry(entry, op, id), op) <=> Carries(entry, op)
           /\ RenderEntry(entry, op, id) = PushEntry(entry, op, id)
           /\ op # "none" =>
                 \A x : Carries(x, op) <=> Carries(entry, op)
  BY NoneAssumption
     DEF OpKinds, MaybeId, PushEntry, RenderEntry, AddUser, RemoveUser, Carries

-----------------------------------------------------------------------------
(* The requests.                                                           *)

\* A step of one request touches nothing but its own user: what is to be shown
\* of the invariant is about that user and that request.
LEMMA RequestStep ==
    ASSUME TypeOK, RestInv, NEW h \in Handlers, NEW e \in Emails,
           lpc = "select",
           \A g \in Handlers \ {h} : hpc[g] = "idle" /\ hpc'[g] = "idle",
           hpc[h] # "idle" => req[h].email = e,
           hpc'[h] # "idle" => req'[h].email = e /\ ~kick' /\ ~changes /\ ~dirty,
           \A f \in Emails \ {e} : /\ roster'[f] = roster[f] /\ pending'[f] = pending[f]
                                   /\ f \in failed' => f \in failed,
           UNCHANGED <<file, xray, watchVars, collectorVars, loopVars>>,
           RowOK(roster'[e]), QueueOf(e)', Ahead(e)' \/ Owes(e)', KnownTo(h)', MarkOf(e)'
    PROVE  RestInv'
<1>1. Sequential'
  BY DEF Sequential, Busy
<1>2. Steady' /\ Passing' /\ Converging'
  BY DEF RestInv, Steady, Passing, Converging
<1>3. Rows'
  BY DEF RestInv, Rows
<1>4. Queues'
  <2>1. ASSUME NEW f \in Emails, f # e PROVE QueueOf(f)'
    BY <2>1 DEF RestInv, Queues, QueueOf
  <2> QED
    BY <2>1 DEF Queues
<1>5. Owed'
  <2>1. ASSUME NEW f \in Emails, f # e PROVE Owes(f)'
    <3>1. ~Ahead(f)
      BY <2>1 DEF Ahead
    <3> QED
      BY <2>1, <3>1 DEF RestInv, Owed, Owes, Plans
  <2> QED
    BY <2>1 DEF Owed
<1>6. Handled'
  <2>1. ASSUME NEW g \in Handlers, g # h PROVE KnownTo(g)'
    BY <2>1 DEF KnownTo
  <2> QED
    BY <2>1 DEF Handled
<1>7. Marked'
  <2>1. ASSUME NEW f \in Emails, f # e PROVE MarkOf(f)'
    <3>1. ~\E g \in Handlers :
              req[g].email = f /\ hpc[g] \in {"disableStore", "deleteMark", "enqueue"}
      BY <2>1
    <3> QED
      BY <2>1, <3>1 DEF RestInv, Marked, MarkOf
  <2> QED
    BY <2>1 DEF Marked
<1> QED
  BY <1>1, <1>2, <1>3, <1>4, <1>5, <1>6, <1>7 DEF RestInv

\* A request that arrives finds the panel at rest ...
LEMMA BeginMoves ==
    ASSUME TypeOK, OneAtATime, NEW h \in Handlers, NEW kind, NEW r \in Request, NEW pc,
           Begin(h, kind, r, pc)
    PROVE  /\ lpc = "select" /\ ~kick' /\ ~changes /\ ~dirty
           /\ hpc[h] = "idle" /\ hpc'[h] = pc
           /\ \A g \in Handlers \ {h} : hpc[g] = "idle" /\ hpc'[g] = "idle"
           /\ kind \in Kinds
           /\ UNCHANGED <<file, xray, watchVars, collectorVars, queueVars, loopVars>>
<1>1. Quiet
  BY DEF Begin, OneAtATime
<1>2. /\ hpc'[h] = pc /\ hpc[h] = "idle"
      /\ \A g \in Handlers \ {h} : hpc[g] = "idle" /\ hpc'[g] = "idle"
  BY <1>1 DEF Quiet, Begin, Goto, TypeOK, HandlersOK
<1> QED
  BY <1>1, <1>2 DEF Quiet, Begin

\* ... where the queued changes owe all that is missing.
LEMMA RestIsOwed ==
    ASSUME RestInv, NEW e \in Emails, \A h \in Handlers : hpc[h] = "idle"
    PROVE  /\ Owes(e) /\ (e \in failed => pending[e].queued = TRUE)
           /\ RowOK(roster[e]) /\ QueueOf(e)
<1>1. ~Ahead(e)
  BY DEF Ahead
<1> QED
  BY <1>1 DEF RestInv, Owed, Marked, MarkOf, Rows, Queues

\* A request that has only read something changes nothing of its user.
LEMMA BeginReading ==
    ASSUME TypeOK, RestInv, OneAtATime, NEW h \in Handlers, NEW e \in Emails,
           NEW kind, NEW r \in Request, NEW pc \in HandlerPCs, r.email = e, pc # "idle",
           Begin(h, kind, r, pc), UNCHANGED storeVars,
           KnownTo(h)'
    PROVE  RestInv'
<1>6. /\ lpc = "select"
      /\ \A g \in Handlers \ {h} : hpc[g] = "idle" /\ hpc'[g] = "idle"
      /\ hpc[h] = "idle" /\ ~kick' /\ ~changes /\ ~dirty
      /\ UNCHANGED <<file, xray, watchVars, collectorVars, queueVars, loopVars>>
  BY BeginMoves
<1>7. /\ Owes(e) /\ (e \in failed => pending[e].queued = TRUE)
      /\ RowOK(roster[e]) /\ QueueOf(e)
  BY <1>6, RestIsOwed
<1>1. req'[h].email = e
  BY BeginRequest
<1>2. RowOK(roster'[e])
  BY <1>7
<1>3. QueueOf(e)'
  BY <1>6, <1>7 DEF QueueOf
<1>4. Owes(e)'
  BY <1>6, <1>7 DEF Owes, Plans
<1>5. MarkOf(e)'
  BY <1>6, <1>7 DEF MarkOf
<1> QED
  BY <1>1, <1>2, <1>3, <1>4, <1>5, <1>6, RequestStep

\* The arrival of a mutation.
LEMMA ArriveAtRest ==
    ASSUME TypeOK, RestInv, OneAtATime, CarriedOver, NEW h \in Handlers, Arrive(h)
    PROVE  RestInv'
<1>1. PICK e \in Emails :
        \/ \E id \in Ids, tags \in SUBSET Tags : Add(h, e, id, tags)
        \/ \E id \in MaybeId, tags \in SUBSET Tags : Edit(h, e, id, tags)
        \/ \E id \in MaybeId : Rotate(h, e, id)
        \/ Disable(h, e)
        \/ Delete(h, e)
        \/ Enable(h, e)
  BY DEF Arrive
<1>2. roster[e] \in Row /\ pending[e] \in Change /\ roster \in [Emails -> Row]
  BY DEF TypeOK, StoreOK, QueueOK
<1>3. NoRequest \in Request /\ AbsentRow \in Row
  BY NothingTypes
<1>4. parse.inbounds = InitInbounds /\ InitInbounds \subseteq Tags
  BY ServiceAssumption DEF RestInv, Steady
<1>r. roster[e].inbounds \subseteq InitInbounds /\ RowOK(roster[e])
  BY DEF RestInv, Rows, RowOK
<1>5. ASSUME NEW id \in Ids, NEW tags \in SUBSET Tags, Add(h, e, id, tags) PROVE RestInv'
  <2> DEFINE r == [NoRequest EXCEPT !.email = e, !.id = id, !.ops = AttachOps(tags)]
             kind == IF roster[e].present THEN "revive" ELSE "add"
             pc == IF tags = {} THEN "idle" ELSE "enqueue"
  <2>1. Begin(h, kind, r, pc)
    BY <1>5 DEF Add
  <2>2. AttachOps(tags) \in Ops
    BY PlanTypes, NothingTypes DEF NoChange, Change
  <2>3. /\ r.email = e /\ r.id = id /\ r.ops = AttachOps(tags) /\ r.purge = FALSE
        /\ r \in Request
    BY <1>3, <2>2 DEF NoRequest, Request, MaybeId
  <2> HIDE DEF r, kind, pc
  <2>4. /\ lpc = "select" /\ ~kick' /\ ~changes /\ ~dirty
        /\ \A g \in Handlers \ {h} : hpc[g] = "idle" /\ hpc'[g] = "idle"
        /\ hpc[h] = "idle" /\ hpc'[h] = pc
        /\ kind \in Kinds
        /\ UNCHANGED <<file, xray, watchVars, collectorVars, queueVars, loopVars>>
    BY <2>1, <2>3, BeginMoves
  <2>o. /\ Owes(e) /\ (e \in failed => pending[e].queued = TRUE)
        /\ RowOK(roster[e]) /\ QueueOf(e)
    BY <2>4, RestIsOwed
  <2>5. roster[e].present = FALSE
    BY <1>2, <2>4 DEF kind, CarriedOver, Row
  <2>6. roster[e] = AbsentRow /\ pending[e] = NoChange
    BY <2>o, <2>5 DEF RowOK, QueueOf, WellFormed
  <2>7. roster'[e] = [present |-> TRUE, id |-> id, inbounds |-> tags,
                      disabled |-> FALSE, deleting |-> FALSE]
    <3>1. roster'[e] = [roster[e] EXCEPT !.present = TRUE, !.id = id,
                                         !.inbounds = tags, !.disabled = FALSE]
      BY <1>2, <1>5 DEF Add, AddRosterUser
    <3>2. roster[e].deleting = FALSE
      BY <2>6 DEF AbsentRow
    <3> QED
      BY <1>2, <3>1, <3>2 DEF Row
  <2>8. tags \subseteq InitInbounds
    BY <1>4, <1>5 DEF Add
  <2>9. \A f \in Emails \ {e} : roster'[f] = roster[f]
    BY <1>2, <1>5 DEF Add, AddRosterUser
  <2>10. RowOK(roster'[e])
    BY <2>7, <2>8 DEF RowOK
  <2>11. Live(roster'[e]) /\ DueTags(roster'[e]) = tags
    BY <2>7 DEF Live, DueTags
  <2>12. Plans(e, AttachOps(tags), tags)'
    <3>1. \A t \in InitInbounds : file.clients[t][e] = None /\ xray.clients[t][e] = None
      BY <1>4, <2>o, <2>6
      DEF Owes, Plans, Brings, Carries, NoChange, NoOps, DueTags, Live, AbsentRow
    <3>2. file' = file /\ xray' = xray
      BY <2>4
    <3> QED
      BY <1>4, <3>1, <3>2 DEF Plans, Brings, Carries, AttachOps
  <2>13. QueueOf(e)' /\ MarkOf(e)'
    BY <2>4, <2>o, <2>6 DEF QueueOf, MarkOf, NoChange
  <2>14. CASE tags = {}
    <3>1. hpc'[h] = "idle"
      BY <2>4, <2>14 DEF pc
    <3>2. KnownTo(h)'
      BY <3>1 DEF KnownTo
    <3>3. Owes(e)'
      <4>1. pending'[e].ops = NoOps
        BY <2>4, <2>6 DEF NoChange
      <4>2. AttachOps(tags) = NoOps
        BY <2>14 DEF AttachOps, NoOps
      <4> QED
        BY <2>11, <2>12, <4>1, <4>2 DEF Owes
    <3> QED
      BY <2>4, <2>9, <2>10, <2>13, <3>1, <3>2, <3>3, RequestStep
  <2>15. CASE tags # {}
    <3>1. hpc'[h] = "enqueue"
      BY <2>4, <2>15 DEF pc
    <3>2. /\ req'[h].email = e /\ req'[h].id = id /\ req'[h].ops = AttachOps(tags)
          /\ req'[h].purge = FALSE
      BY <2>1, <2>3, <2>4, <3>1, BeginRequest
    <3>3. Ahead(e)'
      BY <3>1, <3>2 DEF Ahead
    <3>4. Touched(AttachOps(tags)) = tags /\ AttachOps(tags) # NoOps
      BY <2>2, <2>15, TouchedOps
    <3>5. WellFormed(roster'[e], AttachOps(tags), id, FALSE)
      BY <2>7, <2>8, <3>4 DEF WellFormed
    <3>6. KnownTo(h)'
      BY <2>11, <2>12, <3>1, <3>2, <3>5 DEF KnownTo
    <3> QED
      BY <2>4, <2>9, <2>10, <2>13, <3>1, <3>2, <3>3, <3>6, RequestStep
  <2> QED
    BY <2>14, <2>15
<1>6. ASSUME NEW id \in MaybeId, NEW tags \in SUBSET Tags, Edit(h, e, id, tags) PROVE RestInv'
  <2> DEFINE r == [NoRequest EXCEPT !.email = e, !.id = id, !.tags = tags, !.row = roster[e]]
  <2>1. /\ r \in Request /\ r.email = e /\ r.tags = tags /\ r.row = roster[e] /\ r.purge = FALSE
    BY <1>2, <1>3 DEF Request, NoRequest
  <2>2. Begin(h, "edit", r, "editCheck") /\ UNCHANGED storeVars /\ Live(roster[e])
    BY <1>6 DEF Edit
  <2> HIDE DEF r
  <2>3. /\ hpc'[h] = "editCheck" /\ "edit" \in Kinds
        /\ req'[h].email = e /\ req'[h].tags = tags /\ req'[h].row = roster[e]
        /\ req'[h].purge = FALSE /\ req'[h].kind = "edit"
    BY <2>1, <2>2, BeginMoves, BeginRequest
  <2>5. KnownTo(h)'
    BY <1>4, <1>r, <1>6, <2>2, <2>3 DEF Edit, KnownTo
  <2> QED
    BY <2>1, <2>2, <2>5, BeginReading DEF HandlerPCs
<1>7. ASSUME NEW id \in MaybeId, Rotate(h, e, id) PROVE RestInv'
  <2> DEFINE kept == roster[e].inbounds \cap parse.inbounds
             r == [NoRequest EXCEPT !.email = e, !.id = id, !.tags = kept,
                                    !.row = [roster[e] EXCEPT !.inbounds = kept]]
  <2>1. kept = roster[e].inbounds /\ kept \subseteq InitInbounds
    BY <1>4, <1>r
  <2>2. [roster[e] EXCEPT !.inbounds = kept] = roster[e]
    BY <1>2, <2>1 DEF Row
  <2>3. /\ r \in Request /\ r.email = e /\ r.tags = kept /\ r.row = roster[e] /\ r.purge = FALSE
    BY <1>2, <1>3, <1>4, <2>1, <2>2 DEF Request, NoRequest
  <2>4. Begin(h, "rotate", r, "editCheck") /\ UNCHANGED storeVars /\ Live(roster[e])
    BY <1>7 DEF Rotate
  <2> HIDE DEF r
  <2>5. /\ hpc'[h] = "editCheck"
        /\ req'[h].email = e /\ req'[h].tags = kept /\ req'[h].row = roster[e]
        /\ req'[h].purge = FALSE /\ req'[h].kind = "rotate"
    BY <2>3, <2>4, BeginMoves, BeginRequest
  <2>7. KnownTo(h)'
    BY <2>1, <2>4, <2>5 DEF KnownTo
  <2> QED
    BY <2>3, <2>4, <2>7, BeginReading DEF HandlerPCs
<1> DEFINE q == [NoRequest EXCEPT !.email = e, !.id = roster[e].id, !.row = roster[e]]
<1>8. /\ q \in Request /\ q.email = e /\ q.row = roster[e] /\ q.purge = FALSE
      /\ q.id = roster[e].id
  BY <1>2, <1>3 DEF Request, NoRequest, Row
<1> HIDE DEF q
<1>9. ASSUME Disable(h, e) PROVE RestInv'
  <2>1. Begin(h, "disable", q, "disableTake") /\ UNCHANGED storeVars /\ Live(roster[e])
    BY <1>9 DEF Disable, q
  <2>2. hpc'[h] = "disableTake" /\ "disable" \in Kinds
    BY <1>8, <2>1, BeginMoves, BeginRequest
  <2>3. req'[h].email = e /\ req'[h].row = roster[e] /\ req'[h].purge = FALSE
    BY <1>8, <2>1, BeginMoves, BeginRequest
  <2>4. KnownTo(h)'
    BY <2>1, <2>2, <2>3 DEF KnownTo
  <2> QED
    BY <1>8, <2>1, <2>4, BeginReading DEF HandlerPCs
<1>10. ASSUME Enable(h, e) PROVE RestInv'
  <2>1. Begin(h, "enable", q, "enableStore") /\ UNCHANGED storeVars /\ Disabled(roster[e])
    BY <1>10 DEF Enable, q
  <2>2. hpc'[h] = "enableStore"
    BY <1>8, <2>1, BeginMoves, BeginRequest, SMTT(30)
  <2>3. /\ req'[h].email = e /\ req'[h].row = roster[e] /\ req'[h].purge = FALSE
        /\ req'[h].id = roster[e].id
    BY <1>8, <2>1, BeginMoves, BeginRequest
  <2>4. KnownTo(h)'
    BY <2>1, <2>2, <2>3 DEF KnownTo
  <2> QED
    BY <1>8, <2>1, <2>4, BeginReading DEF HandlerPCs
<1>11. ASSUME Delete(h, e) PROVE RestInv'
  <2> DEFINE r == [NoRequest EXCEPT !.email = e,
                                    !.id = IF Live(roster[e]) THEN roster[e].id ELSE None,
                                    !.row = IF Live(roster[e]) THEN roster[e] ELSE AbsentRow,
                                    !.purge = TRUE]
             pc == IF Live(roster[e]) THEN "deleteTake" ELSE "deleteRead"
  <2>1. /\ r \in Request /\ r.email = e /\ r.purge = TRUE
        /\ Live(roster[e]) => r.row = roster[e]
    BY <1>2, <1>3 DEF Request, NoRequest, Row, MaybeId
  <2>2. Begin(h, "delete", r, pc) /\ UNCHANGED storeVars
    BY <1>11 DEF Delete
  <2>3. pc # "idle" /\ pc \in HandlerPCs
    BY DEF HandlerPCs
  <2> HIDE DEF r
  <2>4. hpc'[h] = pc
    BY <2>1, <2>2, BeginMoves, BeginRequest, ZenonT(60)
  <2>5. /\ req'[h].email = e /\ req'[h].purge = TRUE
        /\ Live(roster[e]) => req'[h].row = roster[e]
    BY <2>1, <2>2, <2>3, BeginMoves, BeginRequest
  <2>6. KnownTo(h)'
    BY <1>2, <2>2, <2>4, <2>5 DEF KnownTo, Live, Row
  <2> QED
    BY <2>1, <2>2, <2>3, <2>6, BeginReading
<1> QED
  BY <1>1, <1>5, <1>6, <1>7, <1>9, <1>10, <1>11

\* What a request at work may count on.
LEMMA AtWork ==
    ASSUME TypeOK, RestInv, NEW h \in Handlers, hpc[h] # "idle"
    PROVE  /\ lpc = "select" /\ ~kick /\ ~changes /\ ~dirty
           /\ \A g \in Handlers \ {h} : hpc[g] = "idle"
           /\ req[h] \in Request /\ req[h].email \in Emails
           /\ roster \in [Emails -> Row] /\ pending \in [Emails -> Change]
           /\ KnownTo(h) /\ MarkOf(req[h].email)
           /\ RowOK(roster[req[h].email]) /\ QueueOf(req[h].email)
           /\ Ahead(req[h].email) \/ Owes(req[h].email)
           /\ parse.inbounds = InitInbounds
<1>1. req[h] \in Request /\ req[h].email \in Emails
  BY DEF TypeOK, HandlersOK
<1>2. lpc = "select" /\ ~kick /\ ~changes /\ ~dirty /\ \A g \in Handlers \ {h} : hpc[g] = "idle"
  BY DEF RestInv, Sequential, Busy
<1>3. roster \in [Emails -> Row] /\ pending \in [Emails -> Change]
  BY DEF TypeOK, StoreOK, QueueOK
<1> QED
  BY <1>1, <1>2, <1>3 DEF RestInv, Handled, Marked, Rows, Queues, Owed, Steady

\* A handler that is not past its first write knows that the queue owes what
\* is missing.
LEMMA NotAhead ==
    ASSUME TypeOK, RestInv, NEW h \in Handlers,
           hpc[h] \in {"editCheck", "editWrite", "disableTake", "deleteRead", "deleteTake",
                       "enableStore", "kick"}
    PROVE  /\ Owes(req[h].email)
           /\ req[h].email \in failed => pending[req[h].email].queued = TRUE
<1>1. \A g \in Handlers \ {h} : hpc[g] = "idle"
  BY AtWork
<1>2. ~Ahead(req[h].email)
  BY <1>1 DEF Ahead
<1>3. ~\E g \in Handlers : /\ req[g].email = req[h].email
                           /\ hpc[g] \in {"disableStore", "deleteMark", "enqueue"}
  BY <1>1
<1> QED
  BY <1>2, <1>3, AtWork DEF MarkOf

\* The plan of an edit: from the inbounds of the before record, with what the
\* unfinished change left, to the inbounds of the after record.
LEMMA DiffBrings ==
    ASSUME NEW clients \in Clients, NEW e \in Emails, NEW before \in Row, NEW id \in Ids,
           NEW after \in SUBSET Tags, NEW prev \in Ops,
           Brings(clients, e, prev, before.inbounds)
    PROVE  Brings(clients, e, DiffOps(before, id, after, prev), after)
<1> DEFINE ops == DiffOps(before, id, after, prev)
<1> SUFFICES ASSUME NEW t \in InitInbounds
             PROVE  Carries(clients[t][e], ops[t]) <=> t \in after
  BY DEF Brings
<1>1. t \in Tags
  BY ServiceAssumption
<1>2. Carries(clients[t][e], prev[t]) <=> t \in before.inbounds
  BY DEF Brings
<1>3. prev[t] \in OpKinds
  BY <1>1 DEF Ops
<1>4. prev = NoOps => prev[t] = "none"
  BY <1>1 DEF NoOps
<1>5. CASE t \in after
  BY <1>1, <1>2, <1>3, <1>4, <1>5 DEF DiffOps, Carries, OpKinds
<1>6. CASE t \notin after
  BY <1>1, <1>2, <1>3, <1>4, <1>6 DEF DiffOps, Carries, OpKinds
<1> QED
  BY <1>5, <1>6

\* ... and it never drops an unfinished change without a successor.
LEMMA DiffSucceeds ==
    ASSUME NEW clients, NEW e \in Emails, NEW before \in Row, NEW id \in Ids,
           NEW after \in SUBSET Tags, NEW prev \in Ops,
           Brings(clients, e, prev, before.inbounds),
           Touched(prev) \subseteq InitInbounds, prev # NoOps
    PROVE  DiffOps(before, id, after, prev) # NoOps
<1>1. PICK t \in Tags : prev[t] # "none" /\ t \in InitInbounds
  BY TouchedOps DEF Touched
<1>2. Carries(clients[t][e], prev[t]) <=> t \in before.inbounds
  BY <1>1 DEF Brings
<1>3. prev[t] \in {"attach", "detach", "rotate"}
  BY <1>1 DEF Ops, OpKinds
<1>4. DiffOps(before, id, after, prev)[t] # "none"
  BY <1>1, <1>2, <1>3 DEF DiffOps, Carries
<1> QED
  BY <1>1, <1>4 DEF NoOps

\* The inbounds an edit's plan touches.
LEMMA DiffTouches ==
    ASSUME NEW before, NEW id, NEW after, NEW prev \in Ops, NEW tags,
           before.inbounds \subseteq tags, after \subseteq tags, Touched(prev) \subseteq tags
    PROVE  Touched(DiffOps(before, id, after, prev)) \subseteq tags
  BY DEF DiffOps, Touched, Ops

\* The plans of Disable and Delete: nothing stays.
LEMMA DetachBrings ==
    ASSUME NEW clients, NEW e \in Emails, NEW row \in Row, NEW prev \in Ops,
           Brings(clients, e, prev, DueTags(row))
    PROVE  /\ Brings(clients, e, DeleteOps(row, prev), {})
           /\ Touched(prev) \subseteq row.inbounds => Brings(clients, e, DisableOps(row, prev), {})
<1>1. DueTags(row) \subseteq row.inbounds
  BY DEF DueTags
<1>2. ASSUME NEW t \in InitInbounds PROVE ~Carries(clients[t][e], DeleteOps(row, prev)[t])
  <2>1. t \in Tags /\ prev[t] \in OpKinds
    BY ServiceAssumption DEF Ops
  <2>2. Carries(clients[t][e], prev[t]) <=> t \in DueTags(row)
    BY DEF Brings
  <2> QED
    BY <1>1, <2>1, <2>2 DEF DeleteOps, DetachOps, Touched, Carries
<1>3. ASSUME NEW t \in InitInbounds, Touched(prev) \subseteq row.inbounds
      PROVE  ~Carries(clients[t][e], DisableOps(row, prev)[t])
  <2>1. t \in Tags /\ prev[t] \in OpKinds
    BY ServiceAssumption DEF Ops
  <2>2. Carries(clients[t][e], prev[t]) <=> t \in DueTags(row)
    BY DEF Brings
  <2> QED
    BY <1>1, <1>3, <2>1, <2>2 DEF DisableOps, DetachOps, Touched, Carries
<1> QED
  BY <1>2, <1>3 DEF Brings

\* A request that answers leaves the queue owing what is missing.
LEMMA AnswerAtRest ==
    ASSUME TypeOK, RestInv, NEW h \in Handlers, hpc[h] # "idle", Answer(h),
           NEW e \in Emails, req[h].email = e,
           UNCHANGED <<file, xray, watchVars, collectorVars, loopVars>>,
           \A f \in Emails \ {e} :
               /\ roster'[f] = roster[f] /\ pending'[f] = pending[f]
               /\ f \in failed' => f \in failed,
           RowOK(roster'[e]), QueueOf(e)', Owes(e)',
           e \in failed' => pending'[e].queued = TRUE
    PROVE  RestInv'
<1>1. hpc'[h] = "idle" /\ \A g \in Handlers \ {h} : hpc'[g] = hpc[g]
  BY DEF Answer, Goto, TypeOK, HandlersOK
<1>2. lpc = "select" /\ (\A g \in Handlers \ {h} : hpc[g] = "idle") /\ req[h].email \in Emails
  BY AtWork
<1>3. KnownTo(h)'
  BY <1>1 DEF KnownTo
<1>4. MarkOf(e)'
  BY DEF MarkOf
<1> QED
  BY <1>1, <1>2, <1>3, <1>4, RequestStep

\* A request that goes on.
LEMMA GoOnAtRest ==
    ASSUME TypeOK, RestInv, NEW h \in Handlers, hpc[h] # "idle",
           NEW pc, Goto(h, pc), NEW e \in Emails, req[h].email = e, req'[h].email = e,
           UNCHANGED <<file, xray, watchVars, collectorVars, loopVars, kick>>,
           \A f \in Emails \ {e} :
               /\ roster'[f] = roster[f] /\ pending'[f] = pending[f]
               /\ f \in failed' => f \in failed,
           RowOK(roster'[e]), QueueOf(e)', Ahead(e)' \/ Owes(e)', KnownTo(h)', MarkOf(e)'
    PROVE  RestInv'
<1>1. hpc'[h] = pc /\ \A g \in Handlers \ {h} : hpc'[g] = hpc[g]
  BY DEF Goto, TypeOK, HandlersOK
<1>2. /\ lpc = "select" /\ (\A g \in Handlers \ {h} : hpc[g] = "idle") /\ req[h].email \in Emails
      /\ ~kick /\ ~changes /\ ~dirty
  BY AtWork
<1> QED
  BY <1>1, <1>2, RequestStep

\* The steps of Edit.
LEMMA EditsAtRest ==
    ASSUME TypeOK, RestInv, NEW h \in Handlers, EditCheck(h) \/ EditWrite(h) \/ EditTake(h)
    PROVE  RestInv'
<1>1. hpc[h] # "idle" /\ hpc[h] \in {"editCheck", "editWrite", "editTake"}
  BY DEF EditCheck, EditWrite, EditTake
<1>p. PICK e \in Emails, r \in Request, row \in Row, c \in Change :
        e = req[h].email /\ r = req[h] /\ row = roster[e] /\ c = pending[e]
  <2>1. req[h].email \in Emails /\ req[h] \in Request
    BY <1>1, AtWork
  <2>2. roster[req[h].email] \in Row /\ pending[req[h].email] \in Change
    BY <1>1, <2>1, AtWork
  <2> QED
    BY <2>1, <2>2
<1>2. /\ r.email = e /\ roster \in [Emails -> Row] /\ pending \in [Emails -> Change]
      /\ KnownTo(h) /\ MarkOf(e) /\ RowOK(row) /\ QueueOf(e)
  BY <1>1, <1>p, AtWork
<1>3. c.ops \in Ops /\ r.row \in Row /\ r.tags \in SUBSET Tags
  BY DEF Change, Request
<1>4. /\ r.kind # "enable" /\ r.purge = FALSE /\ Live(row)
      /\ r.tags \subseteq InitInbounds /\ r.row.inbounds \subseteq InitInbounds
      /\ "edit" \notin Kinds => r.tags = r.row.inbounds
  BY <1>1, <1>2, <1>p DEF KnownTo
<1>5. row.present = TRUE /\ row.disabled = FALSE /\ row.deleting = FALSE
  BY <1>4 DEF Live, Row
<1>s. row.id \in Ids
  BY <1>2, <1>5 DEF RowOK
<1>6. req \in [Handlers -> Request] /\ hpc \in [Handlers -> HandlerPCs]
  BY DEF TypeOK, HandlersOK
<1>7. CASE EditCheck(h)
  <2>p. PICK id \in Ids : id = IF r.id = None THEN row.id ELSE r.id
    BY <1>s DEF Request, MaybeId
  <2>1. hpc[h] = "editCheck" /\ r.row = row
    BY <1>2, <1>7, <1>p DEF EditCheck, KnownTo
  <2>2. UNCHANGED <<storeVars, file, xray, watchVars, collectorVars, queueVars, kick, loopVars>>
    BY <1>7 DEF EditCheck
  <2>3. Owes(e) /\ (e \in failed => pending[e].queued = TRUE)
    BY <1>p, <2>1, NotAhead
  <2>4. Owes(e)'
    BY <2>2, <2>3 DEF Owes, Plans
  <2>5. RowOK(roster'[e]) /\ QueueOf(e)'
    BY <1>2, <1>p, <2>2 DEF QueueOf
  <2>6. CASE Answer(h)
    BY <1>1, <1>2, <1>p, <2>2, <2>3, <2>4, <2>5, <2>6, AnswerAtRest
  <2>7. ASSUME NEW pc \in {"editWrite", "editTake"},
               Goto(h, pc), req' = [req EXCEPT ![h].id = id],
               pc = "editTake" => id = row.id /\ r.tags = row.inbounds
        PROVE  RestInv'
    <3>1. req'[h] = [r EXCEPT !.id = id] /\ hpc'[h] = pc
      BY <1>6, <1>p, <2>7 DEF Goto
    <3>3. /\ req'[h].email = e /\ req'[h].id = id /\ req'[h].row = row /\ req'[h].tags = r.tags
          /\ req'[h].kind = r.kind /\ req'[h].purge = FALSE
      BY <1>2, <1>4, <2>1, <3>1 DEF Request
    <3>4. MarkOf(e)'
      BY <2>2, <2>3 DEF MarkOf
    <3>5. Plans(e, pending[e].ops, row.inbounds)'
      BY <1>4, <1>p, <2>2, <2>3 DEF Owes, DueTags, Plans
    <3>6. KnownTo(h)'
      BY <1>4, <1>p, <2>1, <2>2, <2>7, <3>1, <3>3, <3>5 DEF KnownTo
    <3> QED
      BY <1>1, <1>2, <1>p, <2>2, <2>4, <2>5, <2>7, <3>3, <3>4, <3>6, GoOnAtRest
  <2> QED
    BY <1>4, <1>7, <1>p, <2>p, <2>6, <2>7 DEF EditCheck, AfterEdit
<1>8. CASE EditWrite(h)
  <2>1. hpc[h] = "editWrite" /\ r.row = row /\ r.id \in Ids
    BY <1>2, <1>8, <1>p DEF EditWrite, KnownTo
  <2>2. /\ UNCHANGED <<file, xray, watchVars, collectorVars, queueVars, kick, loopVars, req>>
        /\ Goto(h, "editTake")
    BY <1>4, <1>8, <1>p DEF EditWrite, AfterEdit
  <2>3. hpc'[h] = "editTake"
    BY <1>6, <2>2 DEF Goto
  <2>4. roster'[e] = [row EXCEPT !.id = r.id, !.inbounds = r.tags]
    BY <1>2, <1>5, <1>8, <1>p DEF EditWrite, EditRosterUser
  <2>5. /\ roster'[e].id = r.id /\ roster'[e].inbounds = r.tags
        /\ roster'[e].present = TRUE /\ roster'[e].disabled = FALSE
        /\ roster'[e].deleting = FALSE
    BY <1>5, <2>4 DEF Row
  <2>6. \A f \in Emails \ {e} : roster'[f] = roster[f]
    BY <1>2, <1>8, <1>p DEF EditWrite, EditRosterUser
  <2>8. RowOK(roster'[e]) /\ Live(roster'[e])
    BY <1>4, <2>1, <2>5 DEF RowOK, Live
  <2>9. Owes(e) /\ (e \in failed => pending[e].queued = TRUE)
    BY <1>p, <2>1, NotAhead
  <2>10. QueueOf(e)'
    <3>1. CASE pending[e].queued = TRUE
      <4>1. WellFormed(row, c.ops, c.id, c.purge)
        BY <1>2, <1>p, <3>1 DEF QueueOf
      <4>2. WellFormed(roster'[e], c.ops, c.id, c.purge)
        BY <1>4, <1>5, <2>1, <2>5, <4>1 DEF WellFormed, Deleting
      <4> QED
        BY <1>p, <2>2, <3>1, <4>2 DEF QueueOf
    <3>2. CASE pending[e].queued # TRUE
      BY <1>2, <2>2, <3>2 DEF QueueOf
    <3> QED
      BY <3>1, <3>2
  <2>11. Plans(e, pending[e].ops, row.inbounds)'
    BY <1>4, <1>p, <2>1, <2>2, <2>9 DEF Owes, DueTags, Plans
  <2>12. KnownTo(h)'
    BY <1>4, <1>p, <2>1, <2>2, <2>3, <2>5, <2>8, <2>11 DEF KnownTo
  <2>13. Ahead(e)' /\ MarkOf(e)'
    BY <1>p, <2>2, <2>3, <2>9 DEF Ahead, MarkOf
  <2> QED
    BY <1>1, <1>2, <1>p, <2>2, <2>6, <2>8, <2>10, <2>12, <2>13, GoOnAtRest
<1>9. CASE EditTake(h)
  <2>p. PICK ops \in Ops : ops = DiffOps(r.row, r.id, r.tags, c.ops)
    BY <1>3, PlanTypes
  <2>1. /\ hpc[h] = "editTake" /\ r.id \in Ids /\ row.inbounds = r.tags /\ row.id = r.id
        /\ Plans(e, c.ops, r.row.inbounds)
    BY <1>2, <1>9, <1>p DEF EditTake, KnownTo
  <2>2. /\ UNCHANGED <<storeVars, file, xray, watchVars, collectorVars, kick, loopVars, failed>>
        /\ pending' = [pending EXCEPT ![e] = NoChange]
    BY <1>9, <1>p DEF EditTake, TakePending
  <2>3. pending'[e] = NoChange /\ \A f \in Emails \ {e} : pending'[f] = pending[f]
    BY <1>2, <2>2
  <2>4. RowOK(roster'[e]) /\ QueueOf(e)'
    BY <1>2, <1>p, <2>2, <2>3 DEF QueueOf, NoChange
  <2>6. file.clients \in Clients /\ xray.clients \in Clients
    BY DEF TypeOK, FilesOK, Document, Server
  <2>7. Plans(e, ops, r.tags)
    BY <1>3, <2>p, <2>1, <2>6, DiffBrings DEF Plans
  <2>8. DueTags(row) = r.tags
    BY <1>4, <2>1 DEF DueTags
  <2>9. e \in failed => c.queued = TRUE
    <3>1. ~\E g \in Handlers : req[g].email = e /\ hpc[g] \in {"disableStore", "deleteMark", "enqueue"}
      <4>1. \A g \in Handlers \ {h} : hpc[g] = "idle"
        BY <1>1, AtWork
      <4> QED
        BY <2>1, <4>1
    <3> QED
      BY <1>2, <1>p, <3>1 DEF MarkOf
  <2>10. c.queued = TRUE => c.ops # NoOps /\ Touched(c.ops) \subseteq InitInbounds
    BY <1>2, <1>5, <1>p DEF QueueOf, WellFormed, Deleting
  <2>11. c.queued = TRUE => ops # NoOps
    <3> SUFFICES ASSUME c.queued = TRUE PROVE ops # NoOps
      OBVIOUS
    <3>1. Brings(file.clients, e, c.ops, r.row.inbounds)
      BY <2>1 DEF Plans
    <3> QED
      BY <1>3, <2>p, <2>1, <2>10, <3>1, DiffSucceeds
  <2>12. CASE ops = NoOps
    <3>1. Answer(h)
      BY <1>9, <1>p, <2>p, <2>12 DEF EditTake
    <3>2. Owes(e)'
      BY <1>p, <2>2, <2>3, <2>7, <2>8, <2>12 DEF Owes, Plans, NoChange
    <3>3. e \notin failed
      BY <2>9, <2>11, <2>12
    <3> QED
      BY <1>1, <1>2, <1>p, <2>2, <2>3, <2>4, <3>1, <3>2, <3>3, AnswerAtRest
  <2>13. CASE ops # NoOps
    <3>1. Goto(h, "enqueue") /\ req' = [req EXCEPT ![h].ops = ops]
      BY <1>9, <1>p, <2>p, <2>13 DEF EditTake
    <3>2. hpc'[h] = "enqueue" /\ req'[h] = [r EXCEPT !.ops = ops]
      BY <1>6, <1>p, <3>1 DEF Goto
    <3>3. /\ req'[h].email = e /\ req'[h].id = r.id /\ req'[h].ops = ops
          /\ req'[h].purge = FALSE
      BY <1>2, <1>4, <3>2 DEF Request
    <3>4. /\ Touched(c.ops) \subseteq InitInbounds
          /\ "edit" \notin Kinds => Touched(c.ops) \subseteq r.tags
      BY <1>2, <1>p, <2>1, <2>10, TouchedOps DEF QueueOf, WellFormed, NoChange
    <3>5. Touched(ops) \subseteq InitInbounds
      BY <1>3, <1>4, <2>p, <3>4, DiffTouches
    <3>6. "edit" \notin Kinds => Touched(ops) \subseteq r.tags
      BY <1>3, <1>4, <2>p, <3>4, DiffTouches
    <3>7. WellFormed(roster'[e], ops, r.id, FALSE)
      BY <1>5, <1>p, <2>1, <2>2, <2>13, <3>5, <3>6 DEF WellFormed
    <3>8. Plans(e, ops, DueTags(row))'
      BY <2>2, <2>7, <2>8 DEF Plans
    <3>9. KnownTo(h)'
      BY <1>p, <2>2, <3>2, <3>3, <3>7, <3>8 DEF KnownTo
    <3>10. Ahead(e)' /\ MarkOf(e)'
      BY <3>2, <3>3 DEF Ahead, MarkOf
    <3> QED
      BY <1>1, <1>2, <1>p, <2>2, <2>3, <2>4, <3>1, <3>3, <3>9, <3>10, GoOnAtRest
  <2> QED
    BY <2>12, <2>13
<1> QED
  BY <1>7, <1>8, <1>9

\* The steps of Disable and Delete.
LEMMA DetachesAtRest ==
    ASSUME TypeOK, RestInv, CarriedOver, NEW h \in Handlers,
           \/ DisableTake(h) \/ DisableStore(h)
           \/ DeleteRead(h) \/ DeleteTake(h) \/ DeleteMark(h)
    PROVE  RestInv'
<1>1. /\ hpc[h] # "idle"
      /\ hpc[h] \in {"disableTake", "disableStore", "deleteRead", "deleteTake", "deleteMark"}
  BY DEF DisableTake, DisableStore, DeleteRead, DeleteTake, DeleteMark
<1>p. PICK e \in Emails, r \in Request, row \in Row, c \in Change :
        e = req[h].email /\ r = req[h] /\ row = roster[e] /\ c = pending[e]
  <2>1. req[h].email \in Emails /\ req[h] \in Request
    BY <1>1, AtWork
  <2>2. roster[req[h].email] \in Row /\ pending[req[h].email] \in Change
    BY <1>1, <2>1, AtWork
  <2> QED
    BY <2>1, <2>2
<1>2. /\ r.email = e /\ roster \in [Emails -> Row] /\ pending \in [Emails -> Change]
      /\ KnownTo(h) /\ MarkOf(e) /\ RowOK(row) /\ QueueOf(e)
  BY <1>1, <1>p, AtWork
<1>3. c.ops \in Ops /\ r.row \in Row /\ row.inbounds \subseteq Tags /\ r.ops \in Ops
  BY DEF Change, Request, Row
<1>4. row.inbounds \subseteq InitInbounds
  BY <1>2 DEF RowOK
<1>5. Touched(c.ops) \subseteq InitInbounds
  <2>1. CASE c.queued = TRUE
    BY <1>2, <1>p, <2>1 DEF QueueOf, WellFormed
  <2>2. CASE c.queued # TRUE
    <3>1. c = NoChange
      BY <1>2, <1>p, <2>2 DEF QueueOf
    <3>2. Touched(c.ops) = {}
      BY <3>1, TouchedOps DEF NoChange
    <3> QED
      BY <3>2
  <2> QED
    BY <2>1, <2>2
<1>s. "edit" \notin Kinds => Touched(c.ops) \subseteq row.inbounds
  <2>1. CASE c.queued = TRUE
    BY <1>2, <1>p, <2>1 DEF QueueOf, WellFormed
  <2>2. CASE c.queued # TRUE
    <3>1. c = NoChange
      BY <1>2, <1>p, <2>2 DEF QueueOf
    <3>2. Touched(c.ops) = {}
      BY <3>1, TouchedOps DEF NoChange
    <3> QED
      BY <3>2
  <2> QED
    BY <2>1, <2>2
<1>6. req \in [Handlers -> Request] /\ hpc \in [Handlers -> HandlerPCs]
  BY DEF TypeOK, HandlersOK
<1>7. ASSUME hpc[h] \in {"disableTake", "deleteTake"}, TakePending(e),
             UNCHANGED <<storeVars, file, xray, watchVars, collectorVars, kick, loopVars>>
      PROVE  /\ pending'[e] = NoChange /\ UNCHANGED failed
             /\ \A f \in Emails \ {e} : pending'[f] = pending[f]
             /\ RowOK(roster'[e]) /\ QueueOf(e)'
             /\ Owes(e) /\ (e \in failed => c.queued = TRUE)
             /\ r.row = row
  <2>1. pending'[e] = NoChange /\ \A f \in Emails \ {e} : pending'[f] = pending[f]
    BY <1>2, <1>7 DEF TakePending
  <2>2. RowOK(roster'[e]) /\ QueueOf(e)'
    BY <1>2, <1>7, <1>p, <2>1 DEF QueueOf, NoChange
  <2>3. Owes(e) /\ (e \in failed => c.queued = TRUE)
    BY <1>7, <1>p, NotAhead
  <2> QED
    BY <1>2, <1>7, <1>p, <2>1, <2>2, <2>3 DEF TakePending, KnownTo
<1>8. CASE DisableTake(h)
  <2>p. PICK ops \in Ops : ops = DisableOps(row, c.ops)
    BY <1>3, PlanTypes
  <2>1. /\ hpc[h] = "disableTake" /\ Live(row) /\ "disable" \in Kinds /\ r.purge = FALSE
        /\ TakePending(e) /\ Goto(h, "disableStore")
        /\ UNCHANGED <<storeVars, file, xray, watchVars, collectorVars, kick, loopVars>>
    BY <1>2, <1>8, <1>p DEF DisableTake, KnownTo
  <2>2. /\ pending'[e] = NoChange /\ UNCHANGED failed
        /\ \A f \in Emails \ {e} : pending'[f] = pending[f]
        /\ RowOK(roster'[e]) /\ QueueOf(e)'
        /\ Owes(e) /\ (e \in failed => c.queued = TRUE)
        /\ r.row = row
    BY <1>7, <2>1
  <2>3. hpc'[h] = "disableStore" /\ req'[h] = [r EXCEPT !.ops = ops]
    BY <1>6, <1>8, <1>p, <2>p, <2>1, <2>2 DEF DisableTake, Goto
  <2>4. req'[h].email = e /\ req'[h].ops = ops /\ req'[h].purge = FALSE
    BY <1>2, <2>1, <2>3 DEF Request
  <2>5. "edit" \notin Kinds /\ Touched(c.ops) \subseteq row.inbounds
    BY <1>s, <2>1 DEF CarriedOver
  <2>6. Touched(ops) \subseteq row.inbounds
    BY <2>5, <2>p DEF DisableOps, DetachOps, Touched
  <2>7. Plans(e, ops, {})'
    <3>1. Plans(e, ops, {})
      BY <1>3, <1>p, <2>p, <2>2, <2>5, DetachBrings DEF Owes, Plans
    <3> QED
      BY <2>1, <3>1 DEF Plans
  <2>8. ops = NoOps => e \notin failed
    <3> SUFFICES ASSUME ops = NoOps, c.queued = TRUE PROVE FALSE
      BY <2>2
    <3>1. c.ops # NoOps
      BY <1>2, <1>p, <2>1 DEF QueueOf, WellFormed, Deleting, Live
    <3>2. PICK t \in Touched(c.ops) : TRUE
      BY <1>3, <3>1, TouchedOps
    <3>3. t \in row.inbounds /\ t \in Tags
      BY <1>3, <2>5, <3>2
    <3>4. ops[t] = "detach"
      BY <2>p, <3>3 DEF DisableOps, DetachOps
    <3> QED
      BY <3>3, <3>4 DEF NoOps
  <2>9. KnownTo(h)'
    BY <1>4, <1>p, <2>1, <2>2, <2>3, <2>4, <2>6, <2>7, <2>8 DEF KnownTo
  <2>10. Ahead(e)' /\ MarkOf(e)'
    BY <2>3, <2>4 DEF Ahead, MarkOf
  <2> QED
    BY <1>1, <1>2, <1>p, <2>1, <2>2, <2>4, <2>9, <2>10, GoOnAtRest
<1>9. CASE DeleteTake(h)
  <2>p. PICK ops \in Ops : ops = DeleteOps(row, c.ops)
    BY <1>3, PlanTypes
  <2>1. /\ hpc[h] = "deleteTake" /\ row.present = TRUE /\ row.deleting = FALSE /\ r.purge = TRUE
        /\ TakePending(e) /\ Goto(h, "deleteMark")
        /\ UNCHANGED <<storeVars, file, xray, watchVars, collectorVars, kick, loopVars>>
    BY <1>2, <1>9, <1>p DEF DeleteTake, KnownTo
  <2>2. /\ pending'[e] = NoChange /\ UNCHANGED failed
        /\ \A f \in Emails \ {e} : pending'[f] = pending[f]
        /\ RowOK(roster'[e]) /\ QueueOf(e)'
        /\ Owes(e) /\ r.row = row
    BY <1>7, <2>1
  <2>3. hpc'[h] = "deleteMark" /\ req'[h] = [r EXCEPT !.ops = ops]
    BY <1>6, <1>9, <1>p, <2>p, <2>1, <2>2 DEF DeleteTake, Goto
  <2>4. req'[h].email = e /\ req'[h].ops = ops /\ req'[h].purge = TRUE
    BY <1>2, <2>1, <2>3 DEF Request
  <2>5. /\ Touched(ops) \subseteq InitInbounds
        /\ "edit" \notin Kinds => Touched(ops) \subseteq row.inbounds
    BY <1>4, <1>5, <1>s, <2>p DEF DeleteOps, DetachOps, Touched
  <2>6. Plans(e, ops, {})'
    <3>1. Plans(e, ops, {})
      BY <1>3, <1>p, <2>p, <2>2, DetachBrings DEF Owes, Plans
    <3> QED
      BY <2>1, <3>1 DEF Plans
  <2>7. KnownTo(h)'
    BY <1>p, <2>1, <2>2, <2>3, <2>4, <2>5, <2>6 DEF KnownTo
  <2>8. Ahead(e)' /\ MarkOf(e)'
    BY <2>3, <2>4 DEF Ahead, MarkOf
  <2> QED
    BY <1>1, <1>2, <1>p, <2>1, <2>2, <2>4, <2>7, <2>8, GoOnAtRest
<1>10. CASE DeleteRead(h)
  <2>1. /\ hpc[h] = "deleteRead" /\ r.purge = TRUE
        /\ UNCHANGED <<storeVars, file, xray, watchVars, collectorVars, queueVars, kick, loopVars>>
    BY <1>2, <1>10, <1>p DEF DeleteRead, KnownTo
  <2>2. Owes(e) /\ (e \in failed => pending[e].queued = TRUE)
    BY <1>p, <2>1, NotAhead
  <2>3. Owes(e)' /\ RowOK(roster'[e]) /\ QueueOf(e)'
    BY <1>2, <1>p, <2>1, <2>2 DEF Owes, Plans, QueueOf
  <2>4. CASE Disabled(row)
    <3>1. /\ Goto(h, "deleteTake")
          /\ req' = [req EXCEPT ![h] = [r EXCEPT !.id = row.id, !.row = row]]
      BY <1>10, <1>p, <1>6, <2>4 DEF DeleteRead
    <3>2. hpc'[h] = "deleteTake" /\ req'[h] = [r EXCEPT !.id = row.id, !.row = row]
      BY <1>6, <3>1 DEF Goto
    <3>3. req'[h].email = e /\ req'[h].row = row /\ req'[h].purge = TRUE
      BY <1>2, <2>1, <3>2 DEF Request
    <3>4. row.present = TRUE /\ row.deleting = FALSE
      BY <2>4 DEF Disabled, Row
    <3>5. KnownTo(h)'
      BY <1>p, <2>1, <3>2, <3>3, <3>4 DEF KnownTo
    <3>6. MarkOf(e)'
      BY <2>1, <2>2 DEF MarkOf
    <3> QED
      BY <1>1, <1>2, <1>p, <2>1, <2>3, <3>1, <3>3, <3>5, <3>6, GoOnAtRest
  <2>5. CASE ~Disabled(row)
    <3>1. Answer(h)
      BY <1>10, <1>p, <2>5 DEF DeleteRead
    <3> QED
      BY <1>1, <1>2, <1>p, <2>1, <2>2, <2>3, <3>1, AnswerAtRest
  <2> QED
    BY <2>4, <2>5
<1>11. CASE DisableStore(h)
  <2>1. /\ hpc[h] = "disableStore" /\ Live(row) /\ "disable" \in Kinds /\ r.purge = FALSE
        /\ pending[e] = NoChange /\ Plans(e, r.ops, {}) /\ Touched(r.ops) \subseteq InitInbounds
        /\ "edit" \notin Kinds => Touched(r.ops) \subseteq row.inbounds
        /\ r.ops = NoOps => e \notin failed
        /\ UNCHANGED <<file, xray, watchVars, collectorVars, queueVars, kick, loopVars>>
    BY <1>2, <1>11, <1>p DEF DisableStore, KnownTo
  <2>2. roster'[e] = [row EXCEPT !.disabled = TRUE]
    BY <1>2, <1>11, <1>p, <2>1 DEF DisableStore, DisableRosterUser
  <2>3. /\ roster'[e].disabled = TRUE /\ roster'[e].present = TRUE
        /\ roster'[e].id = row.id /\ roster'[e].inbounds = row.inbounds
        /\ roster'[e].deleting = FALSE
    BY <2>1, <2>2 DEF Live, Row
  <2>4. \A f \in Emails \ {e} : roster'[f] = roster[f]
    BY <1>2, <1>11, <1>p DEF DisableStore, DisableRosterUser
  <2>5. RowOK(roster'[e]) /\ DueTags(roster'[e]) = {}
    BY <1>2, <2>1, <2>3 DEF RowOK, DueTags, Live
  <2>6. QueueOf(e)'
    BY <2>1 DEF QueueOf, NoChange
  <2>7. Plans(e, r.ops, {})'
    BY <2>1 DEF Plans
  <2>8. CASE r.ops = NoOps
    <3>1. Answer(h)
      BY <1>11, <1>p, <2>8 DEF DisableStore
    <3>2. Owes(e)'
      BY <2>1, <2>5, <2>7, <2>8 DEF Owes, NoChange
    <3> QED
      BY <1>1, <1>2, <1>p, <2>1, <2>4, <2>5, <2>6, <2>8, <3>1, <3>2, AnswerAtRest
  <2>9. CASE r.ops # NoOps
    <3>1. Goto(h, "enqueue") /\ UNCHANGED req /\ hpc'[h] = "enqueue"
      BY <1>6, <1>11, <1>p, <2>9 DEF DisableStore, Goto
    <3>2. \A t \in Tags : r.ops[t] \notin {"attach", "rotate"}
      <4> SUFFICES ASSUME NEW t \in Tags, r.ops[t] \in {"attach", "rotate"} PROVE FALSE
        OBVIOUS
      <4>1. t \in InitInbounds
        BY <2>1 DEF Touched
      <4> QED
        BY <2>1, <4>1 DEF Plans, Brings, Carries
    <3>3. WellFormed(roster'[e], r.ops, r.id, FALSE)
      BY <2>1, <2>3, <2>9, <3>2 DEF WellFormed
    <3>4. KnownTo(h)'
      BY <1>2, <1>p, <2>1, <2>5, <2>7, <3>1, <3>3 DEF KnownTo
    <3>5. Ahead(e)' /\ MarkOf(e)'
      BY <1>p, <3>1 DEF Ahead, MarkOf
    <3> QED
      BY <1>1, <1>2, <1>p, <2>1, <2>4, <2>5, <2>6, <3>1, <3>4, <3>5, GoOnAtRest
  <2> QED
    BY <2>8, <2>9
<1>12. CASE DeleteMark(h)
  <2>1. /\ hpc[h] = "deleteMark" /\ row.present = TRUE /\ row.deleting = FALSE /\ r.purge = TRUE
        /\ pending[e] = NoChange /\ Plans(e, r.ops, {}) /\ Touched(r.ops) \subseteq InitInbounds
        /\ "edit" \notin Kinds => Touched(r.ops) \subseteq row.inbounds
        /\ UNCHANGED <<file, xray, watchVars, collectorVars, queueVars, kick, loopVars, req>>
        /\ Goto(h, "enqueue")
    BY <1>2, <1>12, <1>p DEF DeleteMark, KnownTo
  <2>2. roster'[e] = [row EXCEPT !.disabled = TRUE, !.deleting = TRUE]
    BY <1>2, <1>12, <1>p, <2>1 DEF DeleteMark, MarkRosterDeleting
  <2>3. /\ roster'[e].disabled = TRUE /\ roster'[e].present = TRUE
        /\ roster'[e].id = row.id /\ roster'[e].inbounds = row.inbounds
        /\ roster'[e].deleting = TRUE
    BY <2>1, <2>2 DEF Row
  <2>4. \A f \in Emails \ {e} : roster'[f] = roster[f]
    BY <1>2, <1>12, <1>p DEF DeleteMark, MarkRosterDeleting
  <2>5. RowOK(roster'[e]) /\ DueTags(roster'[e]) = {} /\ Deleting(roster'[e])
    BY <1>2, <2>1, <2>3 DEF RowOK, DueTags, Live, Deleting
  <2>6. QueueOf(e)'
    BY <2>1 DEF QueueOf, NoChange
  <2>7. Plans(e, r.ops, {})'
    BY <2>1 DEF Plans
  <2>8. hpc'[h] = "enqueue"
    BY <1>6, <2>1 DEF Goto
  <2>9. \A t \in Tags : r.ops[t] \notin {"attach", "rotate"}
    <3> SUFFICES ASSUME NEW t \in Tags, r.ops[t] \in {"attach", "rotate"} PROVE FALSE
      OBVIOUS
    <3>1. t \in InitInbounds
      BY <2>1 DEF Touched
    <3> QED
      BY <2>1, <3>1 DEF Plans, Brings, Carries
  <2>10. WellFormed(roster'[e], r.ops, r.id, TRUE)
    BY <2>1, <2>3, <2>5, <2>9 DEF WellFormed
  <2>11. KnownTo(h)'
    BY <1>2, <1>p, <2>1, <2>5, <2>7, <2>8, <2>10 DEF KnownTo
  <2>12. Ahead(e)' /\ MarkOf(e)'
    BY <1>p, <2>1, <2>8 DEF Ahead, MarkOf
  <2> QED
    BY <1>1, <1>2, <1>p, <2>1, <2>4, <2>5, <2>6, <2>11, <2>12, GoOnAtRest
<1> QED
  BY <1>8, <1>9, <1>10, <1>11, <1>12

\* Enable's write, the queue write and the kick.
LEMMA QueuesAtRest ==
    ASSUME TypeOK, RestInv, CarriedOver, NEW h \in Handlers,
           EnableStore(h) \/ Enqueue(h) \/ Kick(h)
    PROVE  RestInv'
<1>1. hpc[h] # "idle" /\ hpc[h] \in {"enableStore", "enqueue", "kick"}
  BY DEF EnableStore, Enqueue, Kick
<1>p. PICK e \in Emails, r \in Request, row \in Row, c \in Change :
        e = req[h].email /\ r = req[h] /\ row = roster[e] /\ c = pending[e]
  <2>1. req[h].email \in Emails /\ req[h] \in Request
    BY <1>1, AtWork
  <2>2. roster[req[h].email] \in Row /\ pending[req[h].email] \in Change
    BY <1>1, <2>1, AtWork
  <2> QED
    BY <2>1, <2>2
<1>2. /\ r.email = e /\ roster \in [Emails -> Row] /\ pending \in [Emails -> Change]
      /\ KnownTo(h) /\ MarkOf(e) /\ RowOK(row) /\ QueueOf(e) /\ parse.inbounds = InitInbounds
  BY <1>1, <1>p, AtWork
<1>3. c.ops \in Ops /\ r.row \in Row /\ row.inbounds \subseteq Tags /\ r.ops \in Ops
  BY DEF Change, Request, Row
<1>6. req \in [Handlers -> Request] /\ hpc \in [Handlers -> HandlerPCs]
  BY DEF TypeOK, HandlersOK
<1>7. CASE EnableStore(h)
  <2>1. /\ hpc[h] = "enableStore" /\ Disabled(row) /\ r.row = row /\ r.id = row.id
        /\ r.purge = FALSE
        /\ UNCHANGED <<file, xray, watchVars, collectorVars, queueVars, kick, loopVars>>
    BY <1>2, <1>7, <1>p DEF EnableStore, KnownTo
  <2>2. row.inbounds \cap parse.inbounds = row.inbounds /\ row.inbounds \subseteq InitInbounds
    BY <1>2 DEF RowOK
  <2>3. Owes(e) /\ (e \in failed => pending[e].queued = TRUE)
    BY <1>p, <2>1, NotAhead
  <2>p. PICK ops \in Ops : ops = AttachOps(row.inbounds)
    BY <1>3, PlanTypes
  <2>4. roster'[e] = [row EXCEPT !.disabled = FALSE]
    BY <1>2, <1>7, <1>p DEF EnableStore, EnableRosterUser
  <2>5. /\ roster'[e].disabled = FALSE /\ roster'[e].present = TRUE
        /\ roster'[e].id = row.id /\ roster'[e].inbounds = row.inbounds
        /\ roster'[e].deleting = FALSE
    BY <2>1, <2>4 DEF Disabled, Row
  <2>6. \A f \in Emails \ {e} : roster'[f] = roster[f]
    BY <1>2, <1>7, <1>p DEF EnableStore, EnableRosterUser
  <2>7. RowOK(roster'[e]) /\ DueTags(roster'[e]) = row.inbounds /\ row.id \in Ids
    BY <1>2, <2>1, <2>2, <2>5 DEF RowOK, DueTags, Live, Disabled
  <2>8. DueTags(row) = {}
    BY <2>1 DEF DueTags, Live, Disabled
  <2>9. QueueOf(e)'
    <3>1. CASE c.queued = TRUE
      <4>1. WellFormed(row, c.ops, c.id, c.purge)
        BY <1>2, <1>p, <3>1 DEF QueueOf
      <4>2. WellFormed(roster'[e], c.ops, c.id, c.purge)
        BY <2>1, <2>5, <4>1 DEF WellFormed, Deleting, Disabled
      <4> QED
        BY <1>p, <2>1, <3>1, <4>2 DEF QueueOf
    <3>2. CASE c.queued # TRUE
      BY <1>2, <1>p, <2>1, <3>2 DEF QueueOf
    <3> QED
      BY <3>1, <3>2
  <2>10. "edit" \notin Kinds
    BY <1>2, <2>1 DEF RowOK, Disabled, CarriedOver
  <2>11. Touched(c.ops) \subseteq row.inbounds
    <3>1. CASE c.queued = TRUE
      BY <1>2, <1>p, <2>10, <3>1 DEF QueueOf, WellFormed
    <3>2. CASE c.queued # TRUE
      <4>1. c = NoChange
        BY <1>2, <1>p, <3>2 DEF QueueOf
      <4>2. Touched(c.ops) = {}
        BY <4>1, TouchedOps DEF NoChange
      <4> QED
        BY <4>2
    <3> QED
      BY <3>1, <3>2
  <2>12. Plans(e, c.ops, {})
    BY <1>p, <2>3, <2>8 DEF Owes
  <2>13. CASE row.inbounds = {}
    <3>1. Answer(h)
      BY <1>7, <1>p, <2>1, <2>2, <2>13 DEF EnableStore
    <3>2. Owes(e)'
      BY <1>p, <2>1, <2>7, <2>12, <2>13 DEF Owes, Plans
    <3>3. e \in failed' => pending'[e].queued = TRUE
      BY <2>1, <2>3
    <3>4. \A f \in Emails \ {e} : pending'[f] = pending[f] /\ (f \in failed' => f \in failed)
      BY <2>1
    <3>5. UNCHANGED <<file, xray, watchVars, collectorVars, loopVars>>
      BY <2>1
    <3> QED
      BY <1>1, <1>2, <1>p, <2>6, <2>7, <2>9, <3>1, <3>2, <3>3, <3>4, <3>5, AnswerAtRest
  <2>14. CASE row.inbounds # {}
    <3> DEFINE next == [r EXCEPT !.tags = row.inbounds, !.ops = ops]
    <3>1. Goto(h, "enqueue") /\ req' = [req EXCEPT ![h] = next]
      BY <1>7, <1>p, <2>1, <2>2, <2>p, <2>14 DEF EnableStore
    <3>2. hpc'[h] = "enqueue" /\ req'[h] = next
      BY <1>6, <3>1 DEF Goto
    <3>3. next.email = e /\ next.id = row.id /\ next.ops = ops /\ next.purge = FALSE
      BY <1>2, <2>1 DEF Request
    <3> HIDE DEF next
    <3>4. Touched(ops) = row.inbounds /\ ops # NoOps
      BY <1>3, <2>p, <2>14, TouchedOps
    <3>5. WellFormed(roster'[e], ops, row.id, FALSE)
      BY <2>2, <2>5, <2>7, <3>4 DEF WellFormed
    <3>6. ASSUME NEW t \in InitInbounds, NEW clients, Brings(clients, e, c.ops, {})
          PROVE  Carries(clients[t][e], ops[t]) <=> t \in row.inbounds
      <4>1. t \in Tags /\ c.ops[t] \in OpKinds
        BY <1>3, ServiceAssumption DEF Ops
      <4>2. ~Carries(clients[t][e], c.ops[t])
        BY <3>6 DEF Brings
      <4>3. t \notin row.inbounds => c.ops[t] = "none"
        BY <2>11, <4>1 DEF Touched
      <4> QED
        BY <2>p, <4>1, <4>2, <4>3 DEF AttachOps, Carries
    <3>7. Plans(e, ops, row.inbounds)
      BY <2>12, <3>6 DEF Plans, Brings
    <3>8. Plans(e, ops, DueTags(roster[e]))'
      BY <2>1, <2>7, <3>7 DEF Plans
    <3>9. KnownTo(h)'
      BY <3>2, <3>3, <3>5, <3>8 DEF KnownTo
    <3>10. Ahead(e)' /\ MarkOf(e)'
      BY <3>2, <3>3 DEF Ahead, MarkOf
    <3> QED
      BY <1>1, <1>2, <1>p, <2>1, <2>6, <2>7, <2>9, <3>1, <3>2, <3>3, <3>9, <3>10, GoOnAtRest
  <2> QED
    BY <2>13, <2>14
<1>8. CASE Enqueue(h)
  <2>1. /\ hpc[h] = "enqueue" /\ WellFormed(row, r.ops, r.id, r.purge)
        /\ Plans(e, r.ops, DueTags(row))
        /\ EnqueueGen(e, r.id, r.ops, r.purge) /\ Goto(h, "kick")
        /\ UNCHANGED <<storeVars, file, xray, watchVars, collectorVars, kick, loopVars, req>>
    BY <1>2, <1>8, <1>p DEF Enqueue, KnownTo
  <2>2. /\ pending'[e].queued = TRUE /\ pending'[e].id = r.id /\ pending'[e].ops = r.ops
        /\ pending'[e].purge = r.purge
        /\ \A f \in Emails \ {e} : pending'[f] = pending[f]
        /\ \A f \in Emails : f \in failed' => f \in failed
    BY <1>2, <2>1 DEF EnqueueGen
  <2>3. hpc'[h] = "kick"
    BY <1>6, <2>1 DEF Goto
  <2>4. Owes(e)' /\ QueueOf(e)' /\ RowOK(roster'[e]) /\ MarkOf(e)'
    BY <1>2, <1>p, <2>1, <2>2 DEF Owes, Plans, QueueOf, MarkOf
  <2>5. KnownTo(h)'
    BY <2>3 DEF KnownTo
  <2> QED
    BY <1>1, <1>2, <1>p, <2>1, <2>2, <2>4, <2>5, GoOnAtRest
<1>9. CASE Kick(h)
  <2>1. /\ hpc[h] = "kick" /\ Answer(h)
        /\ UNCHANGED <<storeVars, file, xray, watchVars, collectorVars, queueVars, loopVars>>
    BY <1>9 DEF Kick
  <2>2. Owes(e) /\ (e \in failed => pending[e].queued = TRUE)
    BY <1>p, <2>1, NotAhead
  <2>3. Owes(e)' /\ RowOK(roster'[e]) /\ QueueOf(e)'
    BY <1>2, <1>p, <2>1, <2>2 DEF Owes, Plans, QueueOf
  <2> QED
    BY <1>1, <1>2, <1>p, <2>1, <2>2, <2>3, AnswerAtRest
<1> QED
  BY <1>7, <1>8, <1>9

-----------------------------------------------------------------------------
(* The loop.                                                               *)

\* While the loop works no request does.
LEMMA LoopAlone ==
    ASSUME RestInv, lpc # "select" \/ kick \/ changes \/ dirty
    PROVE  \A h \in Handlers : hpc[h] = "idle"
  BY DEF RestInv, Sequential, Busy

\* What is to be shown of a step of the loop.
LEMMA LoopAtRest ==
    ASSUME TypeOK, RestInv, \A h \in Handlers : hpc[h] = "idle", UNCHANGED handlerVars,
           Steady', Rows', Queues', \A e \in Emails : Owes(e)',
           \A e \in Emails : e \in failed' => pending'[e].queued = TRUE,
           Passing', Converging'
    PROVE  RestInv'
<1>1. Sequential'
  BY DEF Sequential, Busy
<1>2. Owed'
  BY DEF Owed
<1>3. Handled'
  <2>1. ASSUME NEW h \in Handlers PROVE KnownTo(h)'
    BY DEF KnownTo
  <2> QED
    BY <2>1 DEF Handled
<1>4. Marked'
  BY DEF Marked, MarkOf
<1> QED
  BY <1>1, <1>2, <1>3, <1>4 DEF RestInv

\* ... and of one that changes nothing but the loop's own state and the parse.
LEMMA LoopMoves ==
    ASSUME TypeOK, RestInv, \A h \in Handlers : hpc[h] = "idle",
           UNCHANGED <<handlerVars, storeVars, file, xray, sampled, queueVars>>,
           parse' = parse \/ parse' = ParseOf(file),
           lpc' # "boot", lastRunning' = TRUE, Passing', Converging'
    PROVE  RestInv'
<1>1. Steady'
  BY DEF RestInv, Steady, ParseOf
<1>2. Rows'
  BY DEF RestInv, Rows
<1>3. Queues'
  BY DEF RestInv, Queues, QueueOf
<1>4. ASSUME NEW e \in Emails PROVE Owes(e)' /\ (e \in failed' => pending'[e].queued = TRUE)
  <2>1. Owes(e) /\ (e \in failed => pending[e].queued = TRUE)
    BY RestIsOwed
  <2> QED
    BY <2>1 DEF Owes, Plans
<1> QED
  BY <1>1, <1>2, <1>3, <1>4, LoopAtRest

\* The start of the loop, the wake-ups and the end of a pass.
LEMMA WakesAtRest ==
    ASSUME TypeOK, RestInv,
           \/ Boot \/ Recovered \/ LoopKick \/ LoopChange \/ ApplySnapshot \/ PassDone
           \/ Reload
    PROVE  RestInv'
<1>1. \A h \in Handlers : hpc[h] = "idle"
  BY LoopAlone DEF Boot, Recovered, LoopKick, LoopChange, ApplySnapshot, PassDone, Reload
<1>2. Steady /\ Passing /\ Converging
  BY DEF RestInv
<1>3. CASE Boot
  <2>1. recs' = NoRecords
    BY <1>2, <1>3 DEF Boot, Converging, NoRecords
  <2>2. lastRunning' = TRUE /\ lpc' = "recover"
    BY <1>2, <1>3 DEF Boot, Steady
  <2>3. Passing' /\ Converging'
    BY <2>1, <2>2 DEF Passing, Converging
  <2> QED
    BY <1>1, <1>3, <2>2, <2>3, LoopMoves DEF Boot
<1>4. CASE Recovered
  <2>1. lpc' = "converge" /\ lastRunning' = TRUE
    BY <1>2, <1>4 DEF Recovered, Steady
  <2>2. Passing' /\ Converging'
    BY <2>1 DEF Passing, Converging
  <2> QED
    BY <1>1, <1>4, <2>1, <2>2, LoopMoves DEF Recovered
<1>5. CASE LoopKick
  <2>1. lpc' = "apply" /\ lastRunning' = TRUE
    BY <1>2, <1>5 DEF LoopKick, Steady
  <2>2. Passing' /\ Converging'
    BY <2>1 DEF Passing, Converging
  <2> QED
    BY <1>1, <1>5, <2>1, <2>2, LoopMoves DEF LoopKick
<1>6. CASE LoopChange
  <2>1. lpc' \in {"converge", "apply"} /\ lastRunning' = TRUE
    BY <1>2, <1>6 DEF LoopChange, Steady
  <2>2. Passing' /\ Converging'
    BY <2>1 DEF Passing, Converging
  <2> QED
    BY <1>1, <1>6, <2>1, <2>2, LoopMoves DEF LoopChange
<1>7. CASE ApplySnapshot
  <2>1. lpc' \in {"converge", "select", "render"} /\ lastRunning' = TRUE
    BY <1>2, <1>7 DEF ApplySnapshot, AfterPass, Steady
  <2>2. Passing' /\ Converging'
    BY <1>7, <2>1 DEF Passing, Converging, ApplySnapshot, Queued
  <2> QED
    BY <1>1, <1>7, <2>1, <2>2, LoopMoves DEF ApplySnapshot
<1>8. CASE PassDone
  <2>1. lpc' \in {"converge", "select"} /\ lastRunning' = TRUE
    BY <1>2, <1>8 DEF PassDone, AfterPass, Steady
  <2>2. Passing' /\ Converging'
    BY <2>1 DEF Passing, Converging
  <2> QED
    BY <1>1, <1>8, <2>1, <2>2, LoopMoves DEF PassDone
<1>9. CASE Reload
  <2>1. CASE lpc # "boot"
    <3>1. lpc' # "boot" /\ lastRunning' = TRUE
      BY <1>2, <1>9, <2>1 DEF Reload, Steady
    <3>2. Passing'
      BY <1>2, <1>9 DEF Reload, Passing, InPass, Landed, Queued
    <3>3. Converging'
      BY <1>2, <1>9 DEF Reload, Converging, Lost
    <3> QED
      BY <1>1, <1>9, <3>1, <3>2, <3>3, LoopMoves DEF Reload
  <2>2. CASE lpc = "boot"
    <3>1. Steady'
      BY <1>2, <1>9, <2>2 DEF Reload, Steady, ParseOf
    <3>2. Rows' /\ Queues'
      BY <1>9 DEF Reload, RestInv, Rows, Queues, QueueOf
    <3>3. Passing' /\ Converging'
      BY <1>2, <1>9, <2>2 DEF Reload, Passing, Converging
    <3>4. ASSUME NEW e \in Emails PROVE Owes(e)' /\ (e \in failed' => pending'[e].queued = TRUE)
      <4>1. Owes(e) /\ (e \in failed => pending[e].queued = TRUE)
        BY <1>1, RestIsOwed
      <4> QED
        BY <1>9, <4>1 DEF Reload, Owes, Plans
    <3>5. UNCHANGED handlerVars
      BY <1>9 DEF Reload
    <3> QED
      BY <1>1, <3>1, <3>2, <3>3, <3>4, <3>5, LoopAtRest
  <2> QED
    BY <2>1, <2>2
<1> QED
  BY <1>3, <1>4, <1>5, <1>6, <1>7, <1>8, <1>9

\* The convergence: its inbounds are all there, it prunes nothing.
LEMMA ConvergesAtRest ==
    ASSUME TypeOK, RestInv, ConvergeStep
    PROVE  RestInv'
<1>1. \A h \in Handlers : hpc[h] = "idle"
  BY LoopAlone
     DEF ConvergeStep, ConvergeRead, ConvergeView, ConvergeList, ConvergeNext, ConvergePrune,
         ConvergePruneWrite, ConvergeCheck, ConvergeEnqueue, Converged
<1>2. Steady /\ Passing /\ Converging
  BY DEF RestInv
<1>3. /\ lpc \notin {"prune", "pruneWrite"}
      /\ lpc # "boot" => lastRunning = TRUE
      /\ parse.inbounds = InitInbounds
  BY <1>2 DEF Converging, Steady
<1>t. /\ roster \in [Emails -> Row] /\ recs \in [Emails -> Row] /\ pending \in [Emails -> Change]
      /\ cdoc \in Document
  BY DEF TypeOK, StoreOK, LoopOK, QueueOK
<1>4. CASE ConvergeRead
  <2>1. lpc' \in {"view", "select"} /\ lastRunning' = TRUE
    BY <1>3, <1>4 DEF ConvergeRead
  <2>2. Passing' /\ Converging'
    BY <2>1 DEF Passing, Converging
  <2> QED
    BY <1>1, <1>4, <2>1, <2>2, LoopMoves DEF ConvergeRead
<1>v. CASE ConvergeView
  <2>1. lpc' = "list" /\ lastRunning' = TRUE
    BY <1>3, <1>v DEF ConvergeView
  <2>2. cdoc'.inbounds = InitInbounds
    BY <1>3, <1>v, <1>t DEF ConvergeView, Document
  <2>3. Passing' /\ Converging'
    BY <2>1, <2>2 DEF Passing, Converging
  <2> QED
    BY <1>1, <1>v, <2>1, <2>3, LoopMoves DEF ConvergeView
<1>5. CASE ConvergeList
  <2>1. lpc' = "next" /\ lastRunning' = TRUE /\ roster' = roster
    BY <1>3, <1>5 DEF ConvergeList
  <2>2. cdoc'.inbounds = InitInbounds
    BY <1>2, <1>5 DEF ConvergeList, Converging
  <2>3. ASSUME NEW e \in Emails, recs'[e].present = TRUE
        PROVE  recs'[e] = roster[e] /\ Live(roster[e])
    BY <1>5, <2>3 DEF ConvergeList, AbsentRow
  <2>4. Passing' /\ Converging'
    BY <2>1, <2>2, <2>3 DEF Passing, Converging
  <2> QED
    BY <1>1, <1>5, <2>1, <2>4, LoopMoves DEF ConvergeList
<1>6. CASE Converged
  <2>1. lpc' = "select" /\ lastRunning' = TRUE
    BY <1>3, <1>6 DEF Converged
  <2>2. Passing' /\ Converging'
    BY <2>1 DEF Passing, Converging
  <2> QED
    BY <1>1, <1>6, <2>1, <2>2, LoopMoves DEF Converged
<1>k. ASSUME NEW e \in Emails, lpc \in {"next", "check", "enqueue"}, SkipRecord(e),
             UNCHANGED <<roster, cdoc>>
      PROVE  Passing' /\ Converging' /\ lpc' = "next"
  <2>1. lpc' = "next" /\ recs' = [recs EXCEPT ![e] = AbsentRow]
    BY <1>k DEF SkipRecord
  <2>2. ASSUME NEW f \in Emails, recs'[f].present = TRUE
        PROVE  recs'[f] = roster[f] /\ Live(roster[f])
    <3>1. f # e
      BY <1>t, <2>1, <2>2 DEF AbsentRow
    <3> QED
      BY <1>2, <1>k, <1>t, <2>1, <2>2, <3>1 DEF Converging
  <2>3. cdoc'.inbounds = InitInbounds /\ roster' = roster
    BY <1>2, <1>k DEF Converging
  <2> QED
    BY <2>1, <2>2, <2>3 DEF Passing, Converging
<1>7. ASSUME NEW e \in Emails, ConvergeNext(e) PROVE RestInv'
  <2>1. /\ lpc = "next" /\ recs[e].present = TRUE /\ lastRunning' = TRUE
        /\ UNCHANGED <<storeVars, file, xray, watchVars, collectorVars, queueVars, handlerVars, cdoc>>
    BY <1>3, <1>7, <1>t DEF ConvergeNext, Row
  <2>2. recs[e] = roster[e] /\ cdoc.inbounds = InitInbounds
    BY <1>2, <2>1 DEF Converging
  <2>3. recs[e].inbounds \subseteq cdoc.inbounds
    BY <2>2 DEF RestInv, Rows, RowOK
  <2>4. CASE SkipRecord(e)
    BY <1>1, <1>k, <2>1, <2>4, LoopMoves
  <2>5. CASE ~SkipRecord(e)
    <3>1. /\ ~pending[e].queued /\ Lost(e, recs[e]) # {}
          /\ lpc' = "check" /\ cur' = e /\ recs' = [recs EXCEPT ![e] = recs[e]]
      BY <1>7, <2>3, <2>5 DEF ConvergeNext, WithRecord
    <3>2. recs' = recs /\ pending[e].queued = FALSE
      BY <1>t, <3>1 DEF Change
    <3>3. Lost(e, recs[e])' # {}
      BY <2>1, <3>1, <3>2 DEF Lost
    <3>4. Passing'
      BY <3>1 DEF Passing
    <3>5. Converging'
      BY <1>2, <2>1, <2>2, <3>1, <3>2, <3>3 DEF Converging
    <3> QED
      BY <1>1, <2>1, <3>1, <3>4, <3>5, LoopMoves
  <2> QED
    BY <2>4, <2>5
<1>8. CASE ConvergeCheck
  <2>1. /\ lpc = "check" /\ lastRunning' = TRUE /\ cur \in Emails
        /\ UNCHANGED <<storeVars, file, xray, watchVars, collectorVars, queueVars, handlerVars, cdoc>>
    BY <1>3, <1>8 DEF ConvergeCheck, TypeOK, LoopOK
  <2>2. CASE SkipRecord(cur)
    BY <1>1, <1>k, <2>1, <2>2, LoopMoves
  <2>3. CASE ~SkipRecord(cur)
    <3>1. lpc' = "enqueue" /\ UNCHANGED <<cur, recs>>
      BY <1>8, <2>3 DEF ConvergeCheck
    <3>2. Passing' /\ Converging'
      BY <1>2, <2>1, <3>1 DEF Passing, Converging, Lost
    <3> QED
      BY <1>1, <2>1, <3>1, <3>2, LoopMoves
  <2> QED
    BY <2>2, <2>3
<1>9. CASE ConvergeEnqueue
  <2>1. /\ lpc = "enqueue" /\ lastRunning' = TRUE /\ cur \in Emails
        /\ SkipRecord(cur) /\ EnqueueGen(cur, recs[cur].id, AttachOps(Lost(cur, recs[cur])), FALSE)
        /\ UNCHANGED <<storeVars, file, xray, watchVars, collectorVars, handlerVars, cdoc>>
    BY <1>3, <1>9 DEF ConvergeEnqueue, TypeOK, LoopOK
  <2>p. PICK e \in Emails, row \in Row, lost \in SUBSET Tags :
          e = cur /\ row = roster[e] /\ lost = Lost(cur, recs[cur])
    BY <1>t, <2>1 DEF Lost, Row
  <2>2. /\ recs[e] = row /\ Live(row) /\ lost # {} /\ pending[e].queued = FALSE
        /\ cdoc.inbounds = InitInbounds
    BY <1>2, <2>1, <2>p DEF Converging
  <2>3. lost \subseteq row.inbounds /\ row.id \in Ids /\ row.inbounds \subseteq InitInbounds
    BY <2>p, <2>2 DEF Lost, RestInv, Rows, RowOK, Live
  <2>q. PICK ops \in Ops : ops = AttachOps(lost)
    BY <2>p, NothingTypes, PlanTypes DEF NoChange, Change
  <2>4. /\ pending'[e].queued = TRUE /\ pending'[e].id = row.id /\ pending'[e].ops = ops
        /\ pending'[e].purge = FALSE
        /\ \A f \in Emails \ {e} : pending'[f] = pending[f]
        /\ \A f \in Emails : f \in failed' => f \in failed
    BY <1>t, <2>1, <2>2, <2>p, <2>q DEF EnqueueGen
  <2>5. Touched(ops) = lost /\ ops # NoOps
    BY <2>2, <2>p, <2>q, TouchedOps
  <2>6. WellFormed(row, ops, row.id, FALSE)
    BY <2>2, <2>3, <2>5 DEF WellFormed, Live
  <2>7. Queues'
    <3>1. ASSUME NEW f \in Emails, f # e PROVE QueueOf(f)'
      BY <2>1, <2>4, <3>1 DEF RestInv, Queues, QueueOf
    <3>2. QueueOf(e)'
      BY <2>1, <2>4, <2>6, <2>p DEF QueueOf
    <3> QED
      BY <3>1, <3>2 DEF Queues
  <2>8. Plans(e, ops, DueTags(row))
    <3>1. Owes(e) /\ QueueOf(e)
      BY <1>1, RestIsOwed
    <3>2. pending[e].ops = NoOps
      BY <2>2, <3>1 DEF QueueOf, NoChange
    <3>3. DueTags(row) = row.inbounds
      BY <2>2 DEF DueTags
    <3>4. ASSUME NEW t \in InitInbounds, NEW clients, Brings(clients, e, NoOps, row.inbounds)
          PROVE  Carries(clients[t][e], ops[t]) <=> t \in row.inbounds
      <4>1. t \in Tags
        BY ServiceAssumption
      <4>2. Carries(clients[t][e], NoOps[t]) <=> t \in row.inbounds
        BY <3>4 DEF Brings
      <4> QED
        BY <2>3, <2>q, <4>1, <4>2 DEF AttachOps, Carries, NoOps
    <3>5. Plans(e, NoOps, row.inbounds)
      BY <2>p, <3>1, <3>2, <3>3 DEF Owes
    <3> QED
      BY <3>3, <3>4, <3>5 DEF Plans, Brings
  <2>9. ASSUME NEW f \in Emails PROVE Owes(f)' /\ (f \in failed' => pending'[f].queued = TRUE)
    <3>1. CASE f = e
      BY <2>1, <2>4, <2>8, <2>p, <3>1 DEF Owes, Plans
    <3>2. CASE f # e
      <4>1. Owes(f) /\ (f \in failed => pending[f].queued = TRUE)
        BY <1>1, RestIsOwed
      <4> QED
        BY <2>1, <2>4, <3>2, <4>1 DEF Owes, Plans
    <3> QED
      BY <3>1, <3>2
  <2>10. Passing' /\ Converging' /\ lpc' = "next"
    BY <1>k, <2>1
  <2>11. Steady' /\ Rows'
    BY <1>2, <2>1, <2>10 DEF Steady, RestInv, Rows
  <2> QED
    BY <1>1, <2>1, <2>7, <2>9, <2>10, <2>11, LoopAtRest
<1>10. ~ConvergePrune /\ ~ConvergePruneWrite
  BY <1>3 DEF ConvergePrune, ConvergePruneWrite
<1> QED
  BY <1>4, <1>v, <1>5, <1>6, <1>7, <1>8, <1>9, <1>10 DEF ConvergeStep

\* A render brings every queued user's entries to the stored inbounds.
LEMMA RenderLands ==
    ASSUME TypeOK, RestInv, \A h \in Handlers : hpc[h] = "idle",
           NEW d, d = RenderClients(file, pending), NEW e \in Emails
    PROVE  /\ Brings(d.clients, e, pending[e].ops, DueTags(roster[e]))
           /\ pending[e].queued = TRUE => Landed(d.clients, e, {})
           /\ d.inbounds = InitInbounds
<1>1. /\ file \in Document /\ pending \in [Emails -> Change] /\ pending[e] \in Change
      /\ file.clients \in Clients
  BY DEF TypeOK, FilesOK, QueueOK, Document
<1>2. Brings(file.clients, e, pending[e].ops, DueTags(roster[e])) /\ QueueOf(e)
  BY RestIsOwed DEF Owes, Plans
<1>3. file.inbounds = InitInbounds /\ InitInbounds \subseteq Tags
  BY ServiceAssumption DEF RestInv, Steady
<1>4. d.inbounds = InitInbounds
  BY <1>3 DEF RenderClients
<1>5. ASSUME NEW t \in InitInbounds
      PROVE  /\ Carries(d.clients[t][e], pending[e].ops[t]) <=> t \in DueTags(roster[e])
             /\ pending[e].queued = TRUE => (d.clients[t][e] # None <=> t \in DueTags(roster[e]))
  <2>1. t \in Tags /\ t \in file.inbounds
    BY <1>3
  <2>p. PICK entry \in MaybeId, op \in OpKinds, id \in MaybeId :
          entry = file.clients[t][e] /\ op = pending[e].ops[t] /\ id = pending[e].id
    BY <1>1, <2>1 DEF Clients, Change, Ops
  <2>2. Carries(entry, op) <=> t \in DueTags(roster[e])
    BY <1>2, <2>p DEF Brings
  <2>3. CASE pending[e].queued = TRUE
    <3>1. d.clients[t][e] = RenderEntry(entry, op, id)
      BY <1>1, <2>1, <2>p, <2>3, RenderedEntries
    <3>2. op \in {"attach", "rotate"} => id \in Ids
      BY <1>2, <2>1, <2>3, <2>p DEF QueueOf, WellFormed
    <3>3. /\ PushEntry(entry, op, id) # None <=> Carries(entry, op)
          /\ Carries(PushEntry(entry, op, id), op) <=> Carries(entry, op)
          /\ RenderEntry(entry, op, id) = PushEntry(entry, op, id)
      BY <3>2, LandsOnce
    <3> QED
      BY <2>2, <2>p, <3>1, <3>3
  <2>4. CASE pending[e].queued # TRUE
    <3>1. ~pending[e].queued
      BY <1>1, <2>4 DEF Change
    <3>2. d.clients[t][e] = file.clients[t][e]
      BY <1>1, <2>1, <3>1, RenderedEntries
    <3> QED
      BY <2>2, <2>4, <2>p, <3>2
  <2> QED
    BY <2>3, <2>4
<1> QED
  BY <1>4, <1>5 DEF Brings, Landed

\* The render of a pass.
LEMMA RendersAtRest ==
    ASSUME TypeOK, RestInv, RenderRead \/ RenderWrite \/ RenderFails
    PROVE  RestInv'
<1>1. (\A h \in Handlers : hpc[h] = "idle") /\ lpc \in {"render", "write"}
  BY LoopAlone DEF RenderRead, RenderWrite, RenderFails
<1>2. Steady /\ Passing /\ Converging
  BY DEF RestInv
<1>3. snap = pending /\ todo = Queued /\ lastRunning = TRUE
  BY <1>1, <1>2 DEF Passing, Steady
<1>4. pending \in [Emails -> Change]
  BY DEF TypeOK, QueueOK
<1>5. CASE RenderRead
  <2>1. /\ lpc' \in {"pick", "write"} /\ doc' = RenderClients(file, snap)
        /\ lpc' = "pick" => RenderClients(file, snap) = file
        /\ UNCHANGED <<storeVars, file, xray, watchVars, collectorVars, queueVars, snap, todo,
                       handlerVars, lastRunning>>
    BY <1>5 DEF RenderRead
  <2>2. ASSUME lpc' = "pick", NEW e \in Emails, pending[e].queued = TRUE
        PROVE  Landed(file.clients, e, {})
    BY <1>1, <1>3, <2>1, <2>2, RenderLands
  <2>3. ASSUME lpc' = "pick", NEW e \in Emails, InPass(e)'
        PROVE  snap[e] = pending[e] /\ pending[e].queued = TRUE /\ Landed(file.clients, e, {})
    <3>1. pending[e].queued = TRUE
      BY <1>3, <1>4, <2>1, <2>3 DEF InPass, Queued, Change
    <3> QED
      BY <1>3, <2>2, <2>3, <3>1
  <2>4. Passing'
    BY <1>3, <2>1, <2>3 DEF Passing, Landed, Queued
  <2>5. Converging'
    BY <2>1 DEF Converging
  <2> QED
    BY <1>1, <1>3, <2>1, <2>4, <2>5, LoopMoves
<1>6. CASE RenderWrite
  <2>1. /\ lpc' = "pick" /\ file' = RenderClients(file, pending)
        /\ UNCHANGED <<storeVars, xray, parse, collectorVars, queueVars, snap, todo,
                       handlerVars, lastRunning>>
    BY <1>2, <1>3, <1>6 DEF RenderWrite, Passing
  <2>2. ASSUME NEW e \in Emails
        PROVE  /\ Brings(file'.clients, e, pending[e].ops, DueTags(roster[e]))
               /\ pending[e].queued = TRUE => Landed(file'.clients, e, {})
               /\ file'.inbounds = InitInbounds
    BY <1>1, <2>1, RenderLands
  <2>3. file'.inbounds = InitInbounds
    BY <2>1 DEF RenderClients, RestInv, Steady
  <2>4. Steady' /\ Rows' /\ Queues'
    BY <1>2, <1>3, <2>1, <2>3 DEF Steady, RestInv, Rows, Queues, QueueOf
  <2>5. ASSUME NEW e \in Emails PROVE Owes(e)' /\ (e \in failed' => pending'[e].queued = TRUE)
    <3>1. Owes(e) /\ (e \in failed => pending[e].queued = TRUE)
      BY <1>1, RestIsOwed
    <3> QED
      BY <2>1, <2>2, <3>1 DEF Owes, Plans
  <2>6. ASSUME NEW e \in Emails, InPass(e)'
        PROVE  snap[e] = pending[e] /\ pending[e].queued = TRUE /\ Landed(file'.clients, e, {})
    <3>1. pending[e].queued = TRUE
      BY <1>3, <1>4, <2>1, <2>6 DEF InPass, Queued, Change
    <3> QED
      BY <1>3, <2>2, <3>1
  <2>7. Passing' /\ Converging'
    BY <2>1, <2>6 DEF Passing, Converging, Landed
  <2> QED
    BY <1>1, <2>1, <2>4, <2>5, <2>7, LoopAtRest
<1>7. CASE RenderFails
  <2>1. /\ lpc' = "pick" /\ todo' = {} /\ failed' \subseteq failed \cup todo
        /\ UNCHANGED <<storeVars, file, xray, parse, collectorVars, pending, handlerVars, lastRunning>>
    BY <1>7 DEF RenderFails
  <2>2. Steady' /\ Rows' /\ Queues'
    BY <1>2, <1>3, <2>1 DEF Steady, RestInv, Rows, Queues, QueueOf
  <2>3. ASSUME NEW e \in Emails PROVE Owes(e)' /\ (e \in failed' => pending'[e].queued = TRUE)
    <3>1. Owes(e) /\ (e \in failed => pending[e].queued = TRUE)
      BY <1>1, RestIsOwed
    <3>2. e \in todo => pending[e].queued = TRUE
      BY <1>3, <1>4 DEF Queued, Change
    <3> QED
      BY <2>1, <3>1, <3>2 DEF Owes, Plans
  <2>4. Passing' /\ Converging'
    BY <2>1 DEF Passing, Converging, InPass
  <2> QED
    BY <1>1, <2>1, <2>2, <2>3, <2>4, LoopAtRest
<1> QED
  BY <1>5, <1>6, <1>7

\* The pass turns to one more user.
LEMMA PicksAtRest ==
    ASSUME TypeOK, RestInv, NEW e \in Emails, PassPick(e)
    PROVE  RestInv'
<1>1. (\A h \in Handlers : hpc[h] = "idle") /\ lpc = "pick" /\ e \in todo
  BY LoopAlone DEF PassPick
<1>2. Steady /\ Passing /\ Converging
  BY DEF RestInv
<1>3. /\ \A f \in todo : /\ snap[f] = pending[f] /\ pending[f].queued = TRUE
                         /\ Landed(file.clients, f, {})
      /\ todo \subseteq Emails /\ lastRunning = TRUE
  BY <1>1, <1>2 DEF Passing, InPass, Steady, TypeOK, LoopOK
<1>4. ~Superseded(e)
  BY <1>1, <1>3 DEF Superseded
<1>5. /\ lpc' = "push" /\ cur' = e /\ left' = Touched(snap[e].ops) /\ todo' = todo \ {e}
      /\ UNCHANGED <<storeVars, file, xray, watchVars, collectorVars, queueVars, snap,
                     handlerVars, lastRunning>>
  BY <1>4 DEF PassPick
<1>6. Landed(xray.clients, e, Touched(pending[e].ops))
  <2>1. Owes(e) /\ pending[e].ops \in Ops
    BY <1>1, RestIsOwed DEF TypeOK, QueueOK, Change
  <2>2. ASSUME NEW t \in InitInbounds \ Touched(pending[e].ops)
        PROVE  xray.clients[t][e] # None <=> t \in DueTags(roster[e])
    <3>1. pending[e].ops[t] = "none"
      BY <2>2, ServiceAssumption DEF Touched
    <3> QED
      BY <2>1, <3>1 DEF Owes, Plans, Brings, Carries
  <2> QED
    BY <2>2 DEF Landed
<1>7. Passing'
  <2>1. ASSUME NEW f \in Emails, InPass(f)'
        PROVE  /\ snap[f] = pending[f] /\ pending[f].queued = TRUE
               /\ Landed(file.clients, f, {})
    BY <1>1, <1>3, <1>5, <2>1 DEF InPass
  <2>2. Landed(xray.clients, e, Touched(snap[e].ops))
    BY <1>1, <1>3, <1>6
  <2> QED
    BY <1>5, <2>1, <2>2 DEF Passing, Landed
<1>8. Converging'
  BY <1>5 DEF Converging
<1> QED
  BY <1>1, <1>3, <1>5, <1>7, <1>8, LoopMoves

\* What the pass knows of the user it works on.
LEMMA PushingOne ==
    ASSUME TypeOK, RestInv, lpc = "push"
    PROVE  /\ \A h \in Handlers : hpc[h] = "idle"
           /\ cur \in Emails /\ cur \notin todo
           /\ snap[cur] = pending[cur] /\ pending[cur].queued = TRUE /\ ~Superseded(cur)
           /\ left \subseteq Touched(pending[cur].ops)
           /\ Landed(file.clients, cur, {}) /\ Landed(xray.clients, cur, left)
           /\ WellFormed(roster[cur], pending[cur].ops, pending[cur].id, pending[cur].purge)
           /\ lastRunning = TRUE
<1>1. cur \in Emails /\ \A h \in Handlers : hpc[h] = "idle"
  BY LoopAlone DEF TypeOK, LoopOK
<1>2. snap[cur] = pending[cur] /\ pending[cur].queued = TRUE /\ Landed(file.clients, cur, {})
  BY <1>1 DEF RestInv, Passing, InPass
<1>3. WellFormed(roster[cur], pending[cur].ops, pending[cur].id, pending[cur].purge)
  BY <1>1, <1>2 DEF RestInv, Queues, QueueOf
<1> QED
  BY <1>1, <1>2, <1>3 DEF RestInv, Passing, Steady, Superseded

\* An operation that lands, or whose answer is lost.
LEMMA PushesAtRest ==
    ASSUME TypeOK, RestInv, NEW t \in Tags, Push(t) \/ PushFails(t)
    PROVE  RestInv'
<1>1. NextOp(t) /\ lpc = "push" /\ t \in left
  BY DEF Push, PushFails, NextOp
<1>p. PICK e \in Emails, c \in Change, entry \in MaybeId, op \in OpKinds, id \in MaybeId :
        /\ e = cur /\ c = pending[e] /\ entry = xray.clients[t][e]
        /\ op = c.ops[t] /\ id = c.id
  BY <1>1 DEF TypeOK, LoopOK, FilesOK, Server, Clients, QueueOK, Change, Ops
<1>2. /\ \A h \in Handlers : hpc[h] = "idle"
      /\ e \notin todo /\ snap[e] = c /\ c.queued = TRUE
      /\ left \subseteq Touched(c.ops)
      /\ Landed(file.clients, e, {}) /\ Landed(xray.clients, e, left)
      /\ WellFormed(roster[e], c.ops, c.id, c.purge) /\ lastRunning = TRUE
  BY <1>1, <1>p, PushingOne
<1>3. t \in InitInbounds /\ op # "none" /\ (op \in {"attach", "rotate"} => id \in Ids)
  BY <1>1, <1>2, <1>p DEF WellFormed, Touched
<1>4. /\ parse.inbounds = InitInbounds /\ xray.up = TRUE /\ xray.inbounds = InitInbounds
      /\ Passing /\ Steady
  BY DEF RestInv, Steady
<1>5. xray \in Server /\ xray.clients \in Clients
  BY DEF TypeOK, FilesOK, Server
<1>6. ASSUME NEW new, xray' = [xray EXCEPT !.clients[t][e] = new],
             UNCHANGED <<storeVars, file, parse, sampled, pending, handlerVars, lastRunning>>,
             failed' \subseteq failed \cup {e}, lpc' # "boot", Passing', Converging'
      PROVE  RestInv'
  <2>1. /\ xray'.inbounds = xray.inbounds /\ xray'.up = xray.up
        /\ xray'.clients = [xray.clients EXCEPT ![t][e] = new]
    BY <1>5, <1>6 DEF Server
  <2>2. /\ xray'.clients[t][e] = new
        /\ \A f \in Emails, u \in Tags : f # e \/ u # t => xray'.clients[u][f] = xray.clients[u][f]
    BY <1>5, <2>1 DEF Clients
  <2>3. Steady' /\ Rows' /\ Queues'
    BY <1>2, <1>4, <1>6, <2>1 DEF Steady, RestInv, Rows, Queues, QueueOf
  <2>4. ASSUME NEW f \in Emails PROVE Owes(f)' /\ (f \in failed' => pending'[f].queued = TRUE)
    <3>1. Owes(f) /\ (f \in failed => pending[f].queued = TRUE)
      BY <1>2, RestIsOwed
    <3>2. ASSUME NEW u \in InitInbounds
          PROVE  Carries(xray'.clients[u][f], pending[f].ops[u]) <=> u \in DueTags(roster[f])
      <4>1. u \in Tags
        BY ServiceAssumption
      <4>2. Carries(xray.clients[u][f], pending[f].ops[u]) <=> u \in DueTags(roster[f])
        BY <3>1 DEF Owes, Plans, Brings
      <4>3. CASE f = e /\ u = t
        BY <1>3, <1>p, <4>2, <4>3, LandsOnce
      <4>4. CASE f # e \/ u # t
        BY <2>2, <4>1, <4>2, <4>4
      <4> QED
        BY <4>3, <4>4
    <3>3. Brings(xray'.clients, f, pending[f].ops, DueTags(roster[f]))
      BY <3>2 DEF Brings
    <3>4. Owes(f)'
      BY <1>6, <3>1, <3>3 DEF Owes, Plans
    <3>5. f \in failed' => pending'[f].queued = TRUE
      BY <1>2, <1>6, <1>p, <3>1
    <3> QED
      BY <3>4, <3>5
  <2> QED
    BY <1>2, <1>6, <2>3, <2>4, LoopAtRest
<1>7. CASE Push(t)
  <2>1. /\ left' = left \ {t}
        /\ UNCHANGED <<storeVars, file, watchVars, collectorVars, queueVars, lpc, lastRunning,
                       cur, snap, todo, handlerVars>>
    BY <1>7 DEF Push
  <2>2. xray' = [xray EXCEPT !.clients[t][cur] = PushEntry(@, snap[cur].ops[t], snap[cur].id)]
    BY <1>3, <1>4, <1>7 DEF Push
  <2>3. xray' = [xray EXCEPT !.clients[t][e] = PushEntry(entry, op, id)]
    BY <1>2, <1>p, <2>2
  <2>4. xray'.clients = [xray.clients EXCEPT ![t][e] = PushEntry(entry, op, id)]
    BY <1>5, <2>3 DEF Server
  <2>5. /\ xray'.clients[t][e] = PushEntry(entry, op, id)
        /\ \A u \in Tags \ {t} : xray'.clients[u][e] = xray.clients[u][e]
    BY <1>5, <2>4 DEF Clients
  <2>6. Landed(xray'.clients, e, left \ {t})
    <3>1. Owes(e)
      BY <1>2, RestIsOwed
    <3>2. ASSUME NEW u \in InitInbounds \ (left \ {t})
          PROVE  xray'.clients[u][e] # None <=> u \in DueTags(roster[e])
      <4>1. CASE u = t
        <5>1. Carries(entry, op) <=> t \in DueTags(roster[e])
          BY <1>3, <1>p, <3>1 DEF Owes, Plans, Brings
        <5>2. PushEntry(entry, op, id) # None <=> Carries(entry, op)
          BY <1>3, LandsOnce
        <5> QED
          BY <2>5, <4>1, <5>1, <5>2
      <4>2. CASE u # t
        <5>1. u \in Tags
          BY ServiceAssumption
        <5>2. u \in InitInbounds \ left
          BY <3>2, <4>2
        <5>3. xray.clients[u][e] # None <=> u \in DueTags(roster[e])
          BY <1>2, <5>2 DEF Landed
        <5> QED
          BY <2>5, <4>2, <5>1, <5>3
      <4> QED
        BY <4>1, <4>2
    <3> QED
      BY <3>2 DEF Landed
  <2>7. Passing'
    <3>1. ASSUME NEW f \in Emails, InPass(f)'
          PROVE  /\ snap[f] = pending[f] /\ pending[f].queued = TRUE
                 /\ Landed(file.clients, f, {})
      BY <1>1, <1>4, <2>1, <3>1 DEF Passing, InPass
    <3> QED
      BY <1>1, <1>2, <1>p, <2>1, <2>6, <3>1 DEF Passing, Landed
  <2>8. Converging' /\ lpc' # "boot" /\ failed' \subseteq failed \cup {e}
    BY <1>1, <2>1 DEF Converging
  <2> QED
    BY <1>6, <2>1, <2>3, <2>7, <2>8
<1>8. CASE PushFails(t)
  <2>1. /\ lpc' = "pick" /\ cur' = None
        /\ UNCHANGED <<storeVars, file, watchVars, collectorVars, pending, lastRunning,
                       snap, todo, handlerVars>>
    BY <1>8 DEF PushFails
  <2>2. PICK new : xray' = [xray EXCEPT !.clients[t][e] = new]
    BY <1>3, <1>4, <1>8, <1>p DEF PushFails
  <2>3. failed' \subseteq failed \cup {e}
    BY <1>8, <1>p DEF PushFails
  <2>4. Passing'
    <3>1. ASSUME NEW f \in Emails, InPass(f)'
          PROVE  /\ snap[f] = pending[f] /\ pending[f].queued = TRUE
                 /\ Landed(file.clients, f, {})
      BY <1>1, <1>4, <2>1, <3>1 DEF Passing, InPass
    <3> QED
      BY <2>1, <3>1 DEF Passing, Landed
  <2>5. Converging' /\ lpc' # "boot"
    BY <2>1 DEF Converging
  <2> QED
    BY <1>6, <2>1, <2>2, <2>3, <2>4, <2>5
<1> QED
  BY <1>7, <1>8

\* The end of a change.
LEMMA SettlesAtRest ==
    ASSUME TypeOK, RestInv, Settle \/ PurgeFails
    PROVE  RestInv'
<1>1. lpc = "push" /\ left = {} /\ AfterSettle
  BY DEF Settle, PurgeFails, Settling
<1>p. PICK e \in Emails, c \in Change, row \in Row : e = cur /\ c = pending[e] /\ row = roster[e]
  BY <1>1 DEF TypeOK, LoopOK, QueueOK, StoreOK
<1>2. /\ \A h \in Handlers : hpc[h] = "idle"
      /\ e \notin todo /\ snap[e] = c /\ c.queued = TRUE /\ ~Superseded(e)
      /\ Landed(file.clients, e, {}) /\ Landed(xray.clients, e, {})
      /\ WellFormed(row, c.ops, c.id, c.purge) /\ lastRunning = TRUE
  BY <1>1, <1>p, PushingOne
<1>3. pending \in [Emails -> Change] /\ roster \in [Emails -> Row]
  BY DEF TypeOK, QueueOK, StoreOK
<1>4. /\ lpc' = "pick" /\ cur' = None
      /\ UNCHANGED <<file, xray, watchVars, collectorVars, lastRunning, snap, todo, handlerVars>>
  BY <1>1 DEF AfterSettle
<1>5. Steady' /\ Converging'
  BY <1>2, <1>4 DEF RestInv, Steady, Converging
<1>6. Plans(e, NoOps, DueTags(row))
  <2>1. \A t \in InitInbounds : NoOps[t] = "none"
    BY ServiceAssumption DEF NoOps
  <2> QED
    BY <1>2, <1>p, <2>1 DEF Plans, Brings, Carries, Landed
<1>7. ASSUME \A f \in Emails \ {e} : roster'[f] = roster[f] /\ pending'[f] = pending[f]
      PROVE  Passing'
  <2>1. ASSUME NEW f \in Emails, InPass(f)'
        PROVE  f # e /\ snap[f] = pending[f] /\ pending[f].queued = TRUE /\ Landed(file.clients, f, {})
    BY <1>1, <1>2, <1>4, <2>1 DEF RestInv, Passing, InPass
  <2> QED
    BY <1>4, <1>7, <2>1 DEF Passing, Landed
<1>8. ASSUME \A f \in Emails \ {e} : roster'[f] = roster[f] /\ pending'[f] = pending[f],
             failed' \subseteq failed \cup {e}, e \in failed' => pending'[e].queued = TRUE,
             RowOK(roster'[e]), QueueOf(e)', pending'[e].ops = NoOps,
             DueTags(roster'[e]) = DueTags(row)
      PROVE  RestInv'
  <2>1. Rows'
    BY <1>8 DEF RestInv, Rows
  <2>2. Queues'
    <3>1. ASSUME NEW f \in Emails, f # e PROVE QueueOf(f)'
      BY <1>8, <3>1 DEF RestInv, Queues, QueueOf
    <3> QED
      BY <1>8, <3>1 DEF Queues
  <2>3. ASSUME NEW f \in Emails PROVE Owes(f)' /\ (f \in failed' => pending'[f].queued = TRUE)
    <3>1. CASE f = e
      <4>1. Plans(e, NoOps, DueTags(roster[e]))'
        BY <1>4, <1>6, <1>8 DEF Plans
      <4> QED
        BY <1>8, <3>1, <4>1 DEF Owes
    <3>2. CASE f # e
      <4>1. Owes(f) /\ (f \in failed => pending[f].queued = TRUE)
        BY <1>2, RestIsOwed
      <4>2. Owes(f)'
        BY <1>4, <1>8, <3>2, <4>1 DEF Owes, Plans
      <4> QED
        BY <1>8, <3>2, <4>1, <4>2
    <3> QED
      BY <3>1, <3>2
  <2>4. Passing'
    BY <1>7, <1>8
  <2> QED
    BY <1>2, <1>4, <1>5, <2>1, <2>2, <2>3, <2>4, LoopAtRest
<1>9. RowOK(row)
  BY <1>p DEF RestInv, Rows
<1>10. CASE Settle
  <2>1. pending' = [pending EXCEPT ![e] = NoChange] /\ failed' = failed \ {e}
    BY <1>2, <1>10, <1>p DEF Settle
  <2>2. /\ pending'[e] = NoChange /\ pending'[e].ops = NoOps
        /\ \A f \in Emails \ {e} : pending'[f] = pending[f]
    BY <1>3, <2>1 DEF NoChange
  <2>3. QueueOf(e)'
    BY <2>2 DEF QueueOf, NoChange
  <2>4. CASE c.purge = TRUE
    <3>1. Deleting(row)
      BY <1>2, <2>4 DEF WellFormed
    <3>2. roster' = PurgeRosterUser(roster, e)
      BY <1>2, <1>10, <1>p, <2>4 DEF Settle
    <3>3. roster'[e] = AbsentRow /\ \A f \in Emails \ {e} : roster'[f] = roster[f]
      BY <1>3, <1>p, <3>1, <3>2 DEF PurgeRosterUser
    <3>4. RowOK(roster'[e]) /\ DueTags(roster'[e]) = DueTags(row)
      BY <3>1, <3>3 DEF RowOK, DueTags, AbsentRow, Live, Deleting
    <3> QED
      BY <1>8, <2>1, <2>2, <2>3, <3>3, <3>4
  <2>5. CASE c.purge # TRUE
    <3>1. roster' = roster
      BY <1>2, <1>10, <1>p, <2>5 DEF Settle, Change
    <3> QED
      BY <1>8, <1>9, <1>p, <2>1, <2>2, <2>3, <3>1
  <2> QED
    BY <2>4, <2>5
<1>11. CASE PurgeFails
  <2>1. /\ pending' = [pending EXCEPT ![e] = [c EXCEPT !.ops = NoOps]] /\ c.purge = TRUE
        /\ failed' = failed \cup {e} /\ roster' = roster
    BY <1>2, <1>11, <1>p DEF PurgeFails, Change
  <2>2. /\ pending'[e].queued = TRUE /\ pending'[e].ops = NoOps /\ pending'[e].purge = TRUE
        /\ pending'[e].id = c.id
        /\ \A f \in Emails \ {e} : pending'[f] = pending[f]
    BY <1>2, <1>3, <2>1 DEF Change
  <2>3. WellFormed(row, NoOps, c.id, TRUE)
    BY <1>2, <2>1, TouchedOps DEF WellFormed, NoOps
  <2>4. QueueOf(e)'
    BY <1>p, <2>1, <2>2, <2>3 DEF QueueOf
  <2> QED
    BY <1>8, <1>9, <1>p, <2>1, <2>2, <2>4
<1> QED
  BY <1>10, <1>11

-----------------------------------------------------------------------------
(* The invariant.                                                          *)

LEMMA InitAtRest == ASSUME Init PROVE RestInv
<1>1. /\ \A h \in Handlers : hpc[h] = "idle"
      /\ lpc = "boot" /\ ~kick /\ ~changes /\ ~dirty /\ failed = {} /\ pending = NoChanges
  BY DEF Init
<1>2. Sequential /\ Handled /\ Marked /\ Passing
  BY <1>1 DEF Sequential, Busy, Handled, KnownTo, Marked, MarkOf, Passing
<1>3. Steady
  BY <1>1 DEF Init, InitDocument, ServerOf, ParseOf, NothingSampled, Steady
<1>4. ASSUME NEW e \in Emails
      PROVE  /\ roster[e] = InitRow(e) /\ RowOK(roster[e]) /\ QueueOf(e)
             /\ ~Deleting(roster[e]) /\ Owes(e)
  <2>1. roster[e] = InitRow(e) /\ pending[e] = NoChange
    BY <1>1 DEF Init, NoChanges
  <2>2. CASE e \in DOMAIN Enrolled
    <3>1. /\ roster[e].present = TRUE /\ roster[e].id \in Ids /\ roster[e].inbounds = InitInbounds
          /\ roster[e].disabled = FALSE /\ roster[e].deleting = FALSE
      BY <2>1, <2>2, ServiceAssumption DEF InitRow
    <3>2. RowOK(roster[e]) /\ ~Deleting(roster[e]) /\ DueTags(roster[e]) = InitInbounds
      BY <3>1 DEF RowOK, Deleting, DueTags, Live
    <3>3. \A t \in InitInbounds : /\ file.clients[t][e] = roster[e].id
                                  /\ xray.clients[t][e] = roster[e].id
      BY <2>1, ServiceAssumption DEF Init, InitDocument, ServerOf
    <3>4. \A t \in InitInbounds : NoOps[t] = "none"
      BY ServiceAssumption DEF NoOps
    <3>5. Owes(e)
      BY <2>1, <3>1, <3>2, <3>3, <3>4, NoneAssumption DEF Owes, Plans, Brings, Carries, NoChange
    <3> QED
      BY <2>1, <3>2, <3>5 DEF QueueOf, NoChange
  <2>3. CASE e \notin DOMAIN Enrolled
    <3>1. roster[e] = AbsentRow
      BY <2>1, <2>3 DEF InitRow
    <3>2. RowOK(roster[e]) /\ ~Deleting(roster[e]) /\ DueTags(roster[e]) = {}
      BY <3>1 DEF RowOK, Deleting, DueTags, Live, AbsentRow
    <3>3. \A t \in InitInbounds : file.clients[t][e] = None /\ xray.clients[t][e] = None
      BY <2>1, <3>1, ServiceAssumption DEF Init, InitDocument, ServerOf, AbsentRow
    <3>4. \A t \in InitInbounds : NoOps[t] = "none"
      BY ServiceAssumption DEF NoOps
    <3>5. Owes(e)
      BY <2>1, <3>2, <3>3, <3>4 DEF Owes, Plans, Brings, Carries, NoChange
    <3> QED
      BY <2>1, <3>2, <3>5 DEF QueueOf, NoChange
  <2> QED
    BY <2>2, <2>3
<1>5. Rows /\ Queues /\ Owed
  BY <1>4 DEF Rows, Queues, Owed
<1>6. Converging
  BY <1>1, <1>4 DEF Converging
<1> QED
  BY <1>2, <1>3, <1>5, <1>6 DEF RestInv

\* What the scenario leaves out, and what cannot happen in it.
LEMMA NotAtRest ==
    ASSUME TypeOK, RestInv, OneAtATime
    PROVE  /\ \A h \in Handlers : ~StoreFails(h)
           /\ ~LoopStoreFails /\ ~HandEdit /\ ~XrayStop /\ ~Crash /\ ~XrayStart
           /\ ~CollectorStep /\ ~LoopTick
           /\ \A e \in Emails : ~RecoverDelete(e)
<1>1. /\ ~Spend("handEdits") /\ ~Spend("storeFailures")
      /\ ~Spend("restarts") /\ ~Spend("crashes")
  BY FaultsLeftOut DEF TypeOK
<1>2. /\ \A h \in Handlers : ~StoreFails(h)
      /\ ~LoopStoreFails /\ ~HandEdit /\ ~XrayStop /\ ~Crash
  BY <1>1 DEF StoreFails, LoopStoreFails, HandEdit, XrayStop, Crash
<1>3. xray.up = TRUE /\ sampled.has = FALSE /\ (lpc # "boot" => lastRunning = TRUE)
  BY DEF RestInv, Steady
<1>4. ~XrayStart /\ ~LoopTick /\ ~CollectorStep
  BY <1>3 DEF XrayStart, LoopTick, CollectorStep, Sample, Flush, OneAtATime
<1>5. ASSUME NEW e \in Emails, RecoverDelete(e) PROVE FALSE
  BY <1>5 DEF RecoverDelete, RestInv, Converging, NoRecords, AbsentRow
<1> QED
  BY <1>2, <1>4, <1>5

LEMMA StepAtRest ==
    ASSUME TypeOK, RestInv, OneAtATime, CarriedOver, [Next]_vars
    PROVE  RestInv'
<1>1. CASE UNCHANGED vars
  BY <1>1
     DEF vars, RestInv, Sequential, Busy, Steady, Rows, Queues, QueueOf, Owed, Ahead, Owes, Plans,
         Handled, KnownTo, Marked, MarkOf, Passing, InPass, Landed, Queued, Converging, Lost
<1>2. ASSUME NEW h \in Handlers, Arrive(h) PROVE RestInv'
  BY <1>2, ArriveAtRest
<1>3. ASSUME NEW h \in Handlers, HandlerStep(h) PROVE RestInv'
  BY <1>3, EditsAtRest, DetachesAtRest, QueuesAtRest DEF HandlerStep
<1>4. CASE LoopStep
  BY <1>4, NotAtRest, WakesAtRest, RendersAtRest, PicksAtRest, PushesAtRest, SettlesAtRest,
     ConvergesAtRest
     DEF LoopStep, ApplyStep
<1>5. CASE Faults
  BY <1>5, NotAtRest, RendersAtRest, SettlesAtRest DEF Faults
<1>6. CASE Reload
  BY <1>6, WakesAtRest
<1> QED
  BY <1>1, <1>2, <1>3, <1>4, <1>5, <1>6, NotAtRest DEF Next

\* The invariant, with the types, holds throughout.
LEMMA AlwaysAtRest ==
    ASSUME OneAtATime, CarriedOver
    PROVE  Spec => [](TypeOK /\ RestInv)
<1>1. Init => RestInv
  BY InitAtRest
<1>2. TypeOK /\ RestInv /\ [Next]_vars => RestInv'
  BY StepAtRest
<1> QED
  BY <1>1, <1>2, TypeCorrect, PTL DEF Spec

-----------------------------------------------------------------------------
(* What it means to be synced.                                             *)

\* With nothing queued at rest, a user's entries are the stored ones.
LEMMA NothingOwed ==
    ASSUME TypeOK, RestInv, Quiet, Synced, NEW e \in Emails, NEW t \in InitInbounds
    PROVE  /\ file.clients[t][e] # None <=> t \in DueTags(roster[e])
           /\ xray.clients[t][e] # None <=> t \in DueTags(roster[e])
<1>1. \A h \in Handlers : hpc[h] = "idle"
  BY DEF Quiet
<1>2. Owes(e) /\ QueueOf(e)
  BY <1>1, RestIsOwed
<1>3. pending[e] = NoChange
  BY <1>2 DEF Synced, Queued, QueueOf
<1>4. pending[e].ops[t] = "none"
  BY <1>3, ServiceAssumption DEF NoChange, NoOps
<1> QED
  BY <1>2, <1>4 DEF Owes, Plans, Brings, Carries

\* When Sync() answers synced and nothing is under way, the file and the
\* running xray carry each user on exactly the inbounds the store names,
\* however many renders and pushes failed on the way (service.go, diffOps and
\* apply).
THEOREM SyncedMeansStored ==
    ASSUME OneAtATime, CarriedOver
    PROVE  Spec => []SyncedAttachments
<1>1. TypeOK /\ RestInv => SyncedAttachments
  <2> SUFFICES ASSUME TypeOK, RestInv, Quiet, Synced, NEW e \in Emails, NEW t \in file.inbounds
               PROVE  /\ (OnFile(e, t) # None) <=> (Due(e, t) # None)
                      /\ (OnXray(e, t) # None) <=> (Due(e, t) # None)
    BY DEF SyncedAttachments
  <2>1. t \in InitInbounds
    BY DEF RestInv, Steady
  <2>2. RowOK(roster[e])
    BY DEF RestInv, Rows
  <2>3. Due(e, t) # None <=> t \in DueTags(roster[e])
    BY <2>2, NoneAssumption DEF Due, DueTags, RowOK, Live
  <2>4. /\ file.clients[t][e] # None <=> t \in DueTags(roster[e])
        /\ xray.clients[t][e] # None <=> t \in DueTags(roster[e])
    BY <2>1, NothingOwed
  <2> QED
    BY <2>3, <2>4 DEF OnFile, OnXray
<1> QED
  BY <1>1, AlwaysAtRest, PTL

\* A user that Disable took off the Roster has no working credential once
\* Sync() answers synced (service.go, Disable).
THEOREM DisabledHaveNoEntry ==
    ASSUME OneAtATime, CarriedOver
    PROVE  Spec => []DisabledIsOut
<1>1. TypeOK /\ RestInv => DisabledIsOut
  <2> SUFFICES ASSUME TypeOK, RestInv, Quiet, Synced, NEW e \in Emails, NEW t \in file.inbounds,
                      Disabled(roster[e])
               PROVE  Out(e, t)
    BY DEF DisabledIsOut
  <2>1. t \in InitInbounds
    BY DEF RestInv, Steady
  <2>2. DueTags(roster[e]) = {}
    BY DEF DueTags, Live, Disabled
  <2>3. file.clients[t][e] = None /\ xray.clients[t][e] = None
    BY <2>1, <2>2, NothingOwed
  <2> QED
    BY <2>3 DEF Out, OnFile, OnXray
<1> QED
  BY <1>1, AlwaysAtRest, PTL

\* The failed badge is never orphaned (service.go, markFailed and
\* takePending): the change it stands for is queued, or the mutation that took
\* it over is about to queue its own.
THEOREM FailedHasChange ==
    ASSUME OneAtATime, CarriedOver
    PROVE  Spec => []FailedIsOwed
<1>1. TypeOK /\ RestInv => FailedIsOwed
  <2> SUFFICES ASSUME TypeOK, RestInv, NEW e \in failed
               PROVE  \/ pending[e].queued
                      \/ \E h \in Handlers : hpc[h] # "idle" /\ req[h].email = e
    BY DEF FailedIsOwed
  <2>1. e \in Emails
    BY DEF TypeOK, QueueOK
  <2>2. MarkOf(e)
    BY <2>1 DEF RestInv, Marked
  <2> QED
    BY <2>2 DEF MarkOf
<1> QED
  BY <1>1, AlwaysAtRest, PTL

\* Only a settled delete erases a row.
LEMMA RowsStay ==
    ASSUME TypeOK, Next, NEW e \in Emails, roster[e].present, ~roster'[e].present
    PROVE  Settle
<1>1. roster \in [Emails -> Row]
  BY DEF TypeOK, StoreOK
<1>2. roster' # roster
  OBVIOUS
<1>3. ASSUME NEW h \in Handlers, Arrive(h) PROVE FALSE
  <2>1. PICK f \in Emails, id \in Ids, tags \in SUBSET Tags : Add(h, f, id, tags)
    <3>1. \/ \E f \in Emails, id \in Ids, tags \in SUBSET Tags : Add(h, f, id, tags)
          \/ UNCHANGED storeVars
      BY <1>3 DEF Arrive, Edit, Rotate, Disable, Delete, Enable
    <3> QED
      BY <1>2, <3>1 DEF storeVars
  <2>2. roster' = AddRosterUser(roster, f, id, tags)
    BY <2>1 DEF Add
  <2> QED
    BY <1>1, <2>2 DEF AddRosterUser, Row
<1>4. ASSUME NEW h \in Handlers, HandlerStep(h) PROVE FALSE
  <2>1. CASE EditWrite(h)
    BY <1>1, <2>1 DEF EditWrite, EditRosterUser, Row
  <2>2. CASE DisableStore(h)
    BY <1>1, <2>2 DEF DisableStore, DisableRosterUser, Row
  <2>3. CASE DeleteMark(h)
    BY <1>1, <2>3 DEF DeleteMark, MarkRosterDeleting, Row
  <2>4. CASE EnableStore(h)
    BY <1>1, <2>4 DEF EnableStore, EnableRosterUser, Row
  <2> QED
    BY <1>2, <1>4, <2>1, <2>2, <2>3, <2>4
       DEF HandlerStep, EditCheck, EditTake, DisableTake, DeleteRead, DeleteTake, Enqueue, Kick
<1>5. ASSUME LoopStep, ~Settle PROVE FALSE
  <2>1. CASE ConvergePruneWrite
    BY <1>1, <2>1 DEF ConvergePruneWrite, EditRosterUser, Row
  <2>2. CASE ConvergeStep /\ ~ConvergePruneWrite
    BY <1>2, <2>2
       DEF ConvergeStep, ConvergeRead, ConvergeView, ConvergeList, ConvergeNext, ConvergePrune, ConvergeCheck,
           ConvergeEnqueue, Converged
  <2>3. CASE ApplyStep
    BY <1>2, <1>5, <2>3
       DEF ApplyStep, ApplySnapshot, RenderRead, RenderWrite, PassPick, Push, PushFails, PassDone
  <2> QED
    BY <1>2, <1>5, <2>1, <2>2, <2>3
       DEF LoopStep, Boot, RecoverDelete, Recovered, LoopKick, LoopChange, LoopTick
<1>6. ASSUME Flush PROVE FALSE
  <2>1. roster' = AdoptClients(roster, sampled.clients)
    BY <1>6 DEF Flush
  <2> QED
    BY <1>1, <2>1 DEF AdoptClients, Row
<1>7. ASSUME \/ Reload \/ Sample \/ XrayStart \/ Faults PROVE FALSE
  BY <1>2, <1>7
     DEF Reload, Sample, XrayStart, Faults, StoreFails, LoopStoreFails, RenderFails, PurgeFails,
         HandEdit, XrayStop, Crash
<1> QED
  BY <1>3, <1>4, <1>5, <1>6, <1>7 DEF Next, CollectorStep

\* The two phases of a delete in order: PurgeRosterUser erases the row only
\* when neither the file nor the running xray carries the user (service.go,
\* apply).
THEOREM PurgesLeaveNothing ==
    ASSUME OneAtATime, CarriedOver
    PROVE  Spec => PurgeLeavesNothing
<1>1. ASSUME TypeOK, RestInv, [Next]_vars, NEW e \in Emails,
             roster[e].present, ~roster'[e].present, NEW t \in file.inbounds
      PROVE  Out(e, t)
  <2>1. Settle
    BY <1>1, RowsStay DEF vars
  <2>2. lpc = "push" /\ left = {}
    BY <2>1 DEF Settle, Settling
  <2>3. /\ cur \in Emails /\ snap[cur] = pending[cur] /\ ~Superseded(cur)
        /\ Landed(file.clients, cur, {}) /\ Landed(xray.clients, cur, {})
        /\ WellFormed(roster[cur], pending[cur].ops, pending[cur].id, pending[cur].purge)
    BY <1>1, <2>2, PushingOne
  <2>4. roster \in [Emails -> Row] /\ pending[cur] \in Change
    BY <1>1, <2>3 DEF TypeOK, StoreOK, QueueOK
  <2>5. e = cur /\ Deleting(roster[e])
    BY <1>1, <2>1, <2>3, <2>4 DEF Settle, PurgeRosterUser
  <2>6. t \in InitInbounds
    BY <1>1 DEF RestInv, Steady
  <2>7. DueTags(roster[e]) = {}
    BY <2>5 DEF DueTags, Live, Deleting
  <2> QED
    BY <2>3, <2>5, <2>6, <2>7 DEF Landed, Out, OnFile, OnXray
<1>2. TypeOK /\ RestInv /\ [Next]_vars =>
        [\A e \in Emails :
            (roster[e].present /\ ~roster'[e].present) => \A t \in file.inbounds : Out(e, t)]_vars
  BY <1>1
<1> QED
  BY <1>2, AlwaysAtRest, PTL DEF Spec, PurgeLeavesNothing

-----------------------------------------------------------------------------
(* Credentials.                                                            *)

\* The mutations after which a bare add never meets an older credential: no
\* Edit with a selection, and not both a new Client ID and an Enable.
NoBareAdd ==
    /\ "edit" \notin Kinds
    /\ "rotate" \notin Kinds \/ "enable" \notin Kinds

\* The operations bring the entries of a row's inbounds to its Client ID.
Sets(clients, e, ops, id, row) ==
    \A t \in row.inbounds : PushEntry(clients[t][e], ops[t], id) = row.id
Credits(e, ops, id, row) ==
    Sets(file.clients, e, ops, id, row) /\ Sets(xray.clients, e, ops, id, row)

\* The queued change owes the stored Client ID as well.
Credited(e) ==
    Ahead(e) \/ ~Live(roster[e]) \/ Credits(e, pending[e].ops, pending[e].id, roster[e])

\* As long as nobody is given a new Client ID, every entry carries the row's.
HasAdds(ops) == \E t \in Tags : ops[t] \in {"attach", "rotate"}
Known(e) ==
    "rotate" \notin Kinds =>
        /\ \A t \in InitInbounds : /\ file.clients[t][e] \in {None, roster[e].id}
                                   /\ xray.clients[t][e] \in {None, roster[e].id}
        /\ HasAdds(pending[e].ops) => pending[e].id = roster[e].id

\* What a handler knows of the Client IDs.
CreditKnownTo(h) ==
    LET r == req[h]
        row == roster[r.email]
    IN
    /\ hpc[h] \in {"editCheck", "editWrite", "editTake"} => "rotate" \in Kinds
    /\ hpc[h] = "enableStore" => "enable" \in Kinds
    /\ hpc[h] = "editTake" => Credits(r.email, pending[r.email].ops, pending[r.email].id, r.row)
    /\ hpc[h] = "enqueue" =>
          /\ Live(row) => Credits(r.email, r.ops, r.id, row)
          /\ "rotate" \notin Kinds /\ HasAdds(r.ops) => r.id = row.id

\* The user's entries carry the stored Client ID, but for these inbounds.
Given(clients, e, missing) ==
    Live(roster[e]) => \A t \in roster[e].inbounds \ missing : clients[t][e] = roster[e].id

PassingIDs ==
    /\ lpc \in {"pick", "push"} => \A e \in Emails : InPass(e) => Given(file.clients, e, {})
    /\ lpc = "push" => Given(xray.clients, cur, left)

CreditInv ==
    /\ \A e \in Emails : Credited(e) /\ Known(e)
    /\ \A h \in Handlers : CreditKnownTo(h)
    /\ PassingIDs

\* An operation that landed, or whose answer was lost, lands the same again.
LEMMA LandsTheSame ==
    ASSUME NEW entry \in MaybeId, NEW op \in OpKinds, NEW id \in MaybeId,
           op \in {"attach", "rotate"} => id \in Ids,
           NEW new \in FailedPushOutcomes(entry, op, id)
    PROVE  PushEntry(new, op, id) = PushEntry(entry, op, id)
  BY NoneAssumption DEF OpKinds, MaybeId, PushEntry, FailedPushOutcomes, AddUser, RemoveUser

\* Without an operation nothing lands.
LEMMA NothingLands == \A entry, id : PushEntry(entry, "none", id) = entry
  BY DEF PushEntry

\* A step of one request, as in RequestStep.
LEMMA CreditRequestStep ==
    ASSUME TypeOK, CreditInv, NEW h \in Handlers, NEW e \in Emails,
           lpc = "select",
           \A g \in Handlers \ {h} : hpc[g] = "idle" /\ hpc'[g] = "idle",
           hpc[h] # "idle" => req[h].email = e,
           \A f \in Emails \ {e} : roster'[f] = roster[f] /\ pending'[f] = pending[f],
           UNCHANGED <<file, xray, loopVars>>,
           Credited(e)', Known(e)', CreditKnownTo(h)'
    PROVE  CreditInv'
<1>1. PassingIDs'
  BY DEF PassingIDs
<1>2. ASSUME NEW f \in Emails, f # e PROVE Credited(f)' /\ Known(f)'
  <2>1. ~Ahead(f)
    BY <1>2 DEF Ahead
  <2>2. Credited(f) /\ Known(f)
    BY DEF CreditInv
  <2> QED
    BY <1>2, <2>1, <2>2 DEF Credited, Known, Credits
<1>3. ASSUME NEW g \in Handlers, g # h PROVE CreditKnownTo(g)'
  BY <1>3 DEF CreditKnownTo
<1> QED
  BY <1>1, <1>2, <1>3 DEF CreditInv

\* What is credited at rest.
LEMMA RestIsCredited ==
    ASSUME CreditInv, NEW e \in Emails, \A h \in Handlers : hpc[h] = "idle"
    PROVE  /\ Live(roster[e]) => Credits(e, pending[e].ops, pending[e].id, roster[e])
           /\ Known(e)
<1>1. ~Ahead(e)
  BY DEF Ahead
<1> QED
  BY <1>1 DEF CreditInv, Credited

\* The arrival of a mutation.
LEMMA ArriveCredits ==
    ASSUME TypeOK, RestInv, CreditInv, OneAtATime, CarriedOver, NoBareAdd,
           NEW h \in Handlers, Arrive(h)
    PROVE  CreditInv'
<1>1. PICK e \in Emails :
        \/ \E id \in Ids, tags \in SUBSET Tags : Add(h, e, id, tags)
        \/ \E id \in MaybeId, tags \in SUBSET Tags : Edit(h, e, id, tags)
        \/ \E id \in MaybeId : Rotate(h, e, id)
        \/ Disable(h, e)
        \/ Delete(h, e)
        \/ Enable(h, e)
  BY DEF Arrive
<1>2. NoRequest \in Request /\ AbsentRow \in Row /\ roster \in [Emails -> Row] /\ roster[e] \in Row
  BY NothingTypes DEF TypeOK, StoreOK
<1>r. ASSUME NEW kind, NEW r \in Request, NEW pc, pc # "idle", Begin(h, kind, r, pc), r.email = e,
             UNCHANGED storeVars, pc # "editTake", pc # "enqueue",
             pc \in {"editCheck", "editWrite"} => kind = "rotate",
             pc = "enableStore" => kind = "enable"
      PROVE  CreditInv'
  <2>1. /\ lpc = "select" /\ hpc[h] = "idle" /\ hpc'[h] = pc /\ kind \in Kinds
        /\ \A g \in Handlers \ {h} : hpc[g] = "idle" /\ hpc'[g] = "idle"
        /\ UNCHANGED <<file, xray, pending, loopVars>>
    BY <1>r, BeginMoves
  <2>2. /\ Live(roster[e]) => Credits(e, pending[e].ops, pending[e].id, roster[e])
        /\ Known(e)
    BY <2>1, RestIsCredited
  <2>3. Credited(e)' /\ Known(e)'
    BY <1>r, <2>1, <2>2 DEF Credited, Known, Credits
  <2>4. CreditKnownTo(h)'
    BY <1>r, <2>1 DEF CreditKnownTo
  <2> QED
    BY <1>r, <2>1, <2>3, <2>4, CreditRequestStep
<1>3. ASSUME NEW id \in Ids, NEW tags \in SUBSET Tags, Add(h, e, id, tags) PROVE CreditInv'
  <2> DEFINE r == [NoRequest EXCEPT !.email = e, !.id = id, !.ops = AttachOps(tags)]
             kind == IF roster[e].present THEN "revive" ELSE "add"
             pc == IF tags = {} THEN "idle" ELSE "enqueue"
  <2>1. Begin(h, kind, r, pc)
    BY <1>3 DEF Add
  <2>2. AttachOps(tags) \in Ops
    BY PlanTypes, NothingTypes DEF NoChange, Change
  <2>3. r.email = e /\ r.id = id /\ r.ops = AttachOps(tags) /\ r \in Request
    BY <1>2, <2>2 DEF NoRequest, Request, MaybeId
  <2> HIDE DEF r, kind, pc
  <2>4. /\ lpc = "select" /\ hpc[h] = "idle" /\ hpc'[h] = pc /\ kind \in Kinds
        /\ \A g \in Handlers \ {h} : hpc[g] = "idle" /\ hpc'[g] = "idle"
        /\ UNCHANGED <<file, xray, pending, loopVars>>
    BY <2>1, <2>3, BeginMoves
  <2>5. roster[e].present = FALSE
    BY <1>2, <2>4 DEF kind, CarriedOver, Row
  <2>6. roster[e] = AbsentRow /\ pending[e] = NoChange /\ Owes(e)
    <3>1. Owes(e) /\ RowOK(roster[e]) /\ QueueOf(e)
      BY <2>4, RestIsOwed
    <3> QED
      BY <2>5, <3>1 DEF RowOK, QueueOf, WellFormed
  <2>7. \A t \in InitInbounds : file.clients[t][e] = None /\ xray.clients[t][e] = None
    <3>1. \A t \in InitInbounds : NoOps[t] = "none"
      BY ServiceAssumption DEF NoOps
    <3> QED
      BY <2>6, <3>1 DEF Owes, Plans, Brings, Carries, NoChange, DueTags, Live, AbsentRow
  <2>8. /\ roster'[e].id = id /\ roster'[e].inbounds = tags
        /\ \A f \in Emails \ {e} : roster'[f] = roster[f]
    BY <1>2, <1>3 DEF Add, AddRosterUser, Row
  <2>9. tags \subseteq InitInbounds
    BY <1>3 DEF Add, RestInv, Steady
  <2>10. Known(e)'
    <3>1. ~HasAdds(pending'[e].ops)
      BY <2>4, <2>6 DEF HasAdds, NoChange, NoOps
    <3> QED
      BY <2>4, <2>7, <3>1 DEF Known
  <2>11. CASE tags = {}
    <3>1. hpc'[h] = "idle"
      BY <2>4, <2>11 DEF pc
    <3>2. CreditKnownTo(h)'
      BY <3>1 DEF CreditKnownTo
    <3>3. Credited(e)'
      BY <2>8, <2>11 DEF Credited, Credits, Sets
    <3> QED
      BY <2>4, <2>8, <2>10, <3>2, <3>3, CreditRequestStep
  <2>12. CASE tags # {}
    <3>1. hpc'[h] = "enqueue"
      BY <2>4, <2>12 DEF pc
    <3>2. req'[h].email = e /\ req'[h].id = id /\ req'[h].ops = AttachOps(tags)
      BY <2>1, <2>3, <2>4, <3>1, BeginRequest
    <3>3. Credited(e)'
      BY <3>1, <3>2 DEF Credited, Ahead
    <3>4. Credits(e, AttachOps(tags), id, roster[e])'
      <4>1. \A t \in tags : PushEntry(None, AttachOps(tags)[t], id) = id
        BY DEF AttachOps, PushEntry, AddUser
      <4> QED
        BY <2>4, <2>7, <2>8, <2>9, <4>1 DEF Credits, Sets
    <3>5. CreditKnownTo(h)'
      BY <2>8, <3>1, <3>2, <3>4 DEF CreditKnownTo
    <3> QED
      BY <2>4, <2>8, <2>10, <3>3, <3>5, CreditRequestStep
  <2> QED
    BY <2>11, <2>12
<1>4. ASSUME NEW id \in MaybeId, NEW tags \in SUBSET Tags, Edit(h, e, id, tags) PROVE FALSE
  BY <1>4 DEF Edit, Begin, NoBareAdd
<1>5. ASSUME NEW id \in MaybeId, Rotate(h, e, id) PROVE CreditInv'
  <2> DEFINE kept == roster[e].inbounds \cap parse.inbounds
             r == [NoRequest EXCEPT !.email = e, !.id = id, !.tags = kept,
                                    !.row = [roster[e] EXCEPT !.inbounds = kept]]
  <2>1. kept \in SUBSET Tags /\ [roster[e] EXCEPT !.inbounds = kept] \in Row
    BY <1>2 DEF Row
  <2>2. r \in Request /\ r.email = e
    BY <1>2, <2>1 DEF Request, NoRequest
  <2>3. Begin(h, "rotate", r, "editCheck") /\ UNCHANGED storeVars
    BY <1>5 DEF Rotate
  <2> HIDE DEF r, kept
  <2> QED
    BY <1>r, <2>2, <2>3
<1> DEFINE q == [NoRequest EXCEPT !.email = e, !.id = roster[e].id, !.row = roster[e]]
<1>6. q \in Request /\ q.email = e
  BY <1>2 DEF Request, NoRequest, Row
<1>7. ASSUME Disable(h, e) PROVE CreditInv'
  <2>1. Begin(h, "disable", q, "disableTake") /\ UNCHANGED storeVars
    BY <1>7 DEF Disable
  <2> HIDE DEF q
  <2> QED
    BY <1>r, <1>6, <2>1
<1>8. ASSUME Enable(h, e) PROVE CreditInv'
  <2>1. Begin(h, "enable", q, "enableStore") /\ UNCHANGED storeVars
    BY <1>8 DEF Enable
  <2> HIDE DEF q
  <2> QED
    BY <1>r, <1>6, <2>1
<1>9. ASSUME Delete(h, e) PROVE CreditInv'
  <2> DEFINE r == [NoRequest EXCEPT !.email = e,
                                    !.id = IF Live(roster[e]) THEN roster[e].id ELSE None,
                                    !.row = IF Live(roster[e]) THEN roster[e] ELSE AbsentRow,
                                    !.purge = TRUE]
             pc == IF Live(roster[e]) THEN "deleteTake" ELSE "deleteRead"
  <2>1. r \in Request /\ r.email = e
    BY <1>2 DEF Request, NoRequest, Row, MaybeId
  <2>2. Begin(h, "delete", r, pc) /\ UNCHANGED storeVars
    BY <1>9 DEF Delete
  <2>3. pc \in {"deleteTake", "deleteRead"}
    OBVIOUS
  <2> HIDE DEF r, pc
  <2> QED
    BY <1>r, <2>1, <2>2, <2>3
<1> QED
  BY <1>1, <1>3, <1>4, <1>5, <1>7, <1>8, <1>9

\* A request that goes on, or answers.
LEMMA CreditGoOn ==
    ASSUME TypeOK, RestInv, CreditInv, NEW h \in Handlers, hpc[h] # "idle",
           NEW pc, Goto(h, pc), NEW e \in Emails, req[h].email = e,
           UNCHANGED <<file, xray, loopVars>>,
           \A f \in Emails \ {e} : roster'[f] = roster[f] /\ pending'[f] = pending[f],
           Credited(e)', Known(e)', CreditKnownTo(h)'
    PROVE  CreditInv'
<1>1. \A g \in Handlers \ {h} : hpc'[g] = hpc[g]
  BY DEF Goto, TypeOK, HandlersOK
<1>2. lpc = "select" /\ \A g \in Handlers \ {h} : hpc[g] = "idle"
  BY AtWork
<1> QED
  BY <1>1, <1>2, CreditRequestStep

\* The plan of a new Client ID: every inbound gets it, with what the
\* unfinished change still owed of the old one.
LEMMA DiffSets ==
    ASSUME NEW clients \in Clients, NEW e \in Emails, NEW before \in Row, NEW id \in Ids,
           NEW prev \in Ops, NEW old \in MaybeId, NEW row \in Row,
           row.id = id, row.inbounds = before.inbounds,
           Sets(clients, e, prev, old, before)
    PROVE  Sets(clients, e, DiffOps(before, id, before.inbounds, prev), id, row)
<1> DEFINE ops == DiffOps(before, id, before.inbounds, prev)
<1> SUFFICES ASSUME NEW t \in before.inbounds
             PROVE  PushEntry(clients[t][e], ops[t], id) = id
  BY DEF Sets
<1>1. t \in Tags /\ prev[t] \in OpKinds
  BY DEF Row, Ops
<1>2. PushEntry(clients[t][e], prev[t], old) = before.id
  BY DEF Sets
<1>3. prev = NoOps => prev[t] = "none"
  BY <1>1 DEF NoOps
<1>4. CASE before.id # id \/ prev[t] \in {"attach", "rotate"}
  <2>1. ops[t] = "rotate"
    BY <1>1, <1>4 DEF DiffOps
  <2> QED
    BY <2>1 DEF PushEntry, AddUser, RemoveUser
<1>5. CASE before.id = id /\ prev[t] \notin {"attach", "rotate"}
  <2>1. prev[t] # "detach"
    BY <1>2, <1>5, NoneAssumption DEF PushEntry, RemoveUser
  <2>2. prev[t] = "none" /\ clients[t][e] = id
    BY <1>1, <1>2, <1>5, <2>1 DEF PushEntry, OpKinds
  <2>3. ops[t] \in {"none", "attach"}
    BY <1>1, <1>5 DEF DiffOps
  <2> QED
    BY <2>2, <2>3, NoneAssumption DEF PushEntry, AddUser
<1> QED
  BY <1>4, <1>5

\* Without operations it does not matter which Client ID they would carry.
LEMMA SetsNothing ==
    ASSUME NEW clients, NEW e, NEW i, NEW j, NEW row \in Row, Sets(clients, e, NoOps, i, row)
    PROVE  Sets(clients, e, NoOps, j, row)
  BY NothingLands DEF Sets, NoOps, Row

\* The steps of Edit: here of an edit without a selection.
LEMMA EditsCredit ==
    ASSUME TypeOK, RestInv, CreditInv, NoBareAdd, NEW h \in Handlers,
           EditCheck(h) \/ EditWrite(h) \/ EditTake(h)
    PROVE  CreditInv'
<1>1. hpc[h] # "idle" /\ hpc[h] \in {"editCheck", "editWrite", "editTake"}
  BY DEF EditCheck, EditWrite, EditTake
<1>p. PICK e \in Emails, r \in Request, row \in Row, c \in Change :
        e = req[h].email /\ r = req[h] /\ row = roster[e] /\ c = pending[e]
  <2>1. req[h].email \in Emails /\ req[h] \in Request
    BY <1>1, AtWork
  <2>2. roster[req[h].email] \in Row /\ pending[req[h].email] \in Change
    BY <1>1, <2>1, AtWork
  <2> QED
    BY <2>1, <2>2
<1>2. /\ r.email = e /\ roster \in [Emails -> Row] /\ pending \in [Emails -> Change]
      /\ KnownTo(h)
  BY <1>1, <1>p, AtWork
<1>3. c.ops \in Ops /\ c.id \in MaybeId /\ r.row \in Row /\ r.tags \in SUBSET Tags
  BY DEF Change, Request
<1>4. r.kind # "enable" /\ Live(row) /\ r.tags = r.row.inbounds
  BY <1>1, <1>2, <1>p DEF KnownTo, NoBareAdd
<1>5. "rotate" \in Kinds /\ CreditKnownTo(h)
  BY <1>1 DEF CreditInv, CreditKnownTo
<1>6. req \in [Handlers -> Request] /\ hpc \in [Handlers -> HandlerPCs]
  BY DEF TypeOK, HandlersOK
<1>7. Known(e)'
  BY <1>5 DEF Known
<1>8. hpc[h] \in {"editCheck", "editWrite"} => Credits(e, c.ops, c.id, row)
  <2>1. \A g \in Handlers \ {h} : hpc[g] = "idle"
    BY <1>1, AtWork
  <2>2. hpc[h] \in {"editCheck", "editWrite"} => ~Ahead(e)
    BY <2>1 DEF Ahead
  <2> QED
    BY <1>4, <1>p, <2>2 DEF CreditInv, Credited
<1>9. CASE EditCheck(h)
  <2>1. hpc[h] = "editCheck" /\ r.row = row /\ Credits(e, c.ops, c.id, row)
    BY <1>2, <1>8, <1>9, <1>p DEF EditCheck, KnownTo
  <2>2. UNCHANGED <<storeVars, file, xray, queueVars, loopVars>>
    BY <1>9 DEF EditCheck
  <2>3. Credits(e, c.ops, c.id, row)'
    BY <2>1, <2>2 DEF Credits
  <2>4. Credited(e)'
    BY <1>p, <2>2, <2>3 DEF Credited
  <2>5. ASSUME NEW pc, Goto(h, pc), pc # "enqueue", pc # "enableStore",
               pc # "idle" => req'[h].email = e /\ req'[h].row = row
        PROVE  CreditInv'
    <3>1. hpc'[h] = pc
      BY <1>6, <2>5 DEF Goto
    <3>2. CreditKnownTo(h)'
      BY <1>5, <1>p, <2>2, <2>3, <2>5, <3>1 DEF CreditKnownTo
    <3> QED
      BY <1>1, <1>7, <1>p, <2>2, <2>4, <2>5, <3>2, CreditGoOn
  <2>6. CASE Answer(h)
    BY <2>5, <2>6 DEF Answer
  <2>7. ASSUME NEW pc \in {"editWrite", "editTake"}, NEW id, Goto(h, pc),
               req' = [req EXCEPT ![h].id = id]
        PROVE  CreditInv'
    <3>1. req'[h] = [r EXCEPT !.id = id]
      BY <1>6, <1>p, <2>7
    <3>2. req'[h].email = e /\ req'[h].row = row
      BY <1>2, <2>1, <3>1 DEF Request
    <3> QED
      BY <2>5, <2>7, <3>2
  <2> QED
    BY <1>4, <1>9, <1>p, <2>6, <2>7 DEF EditCheck, AfterEdit
<1>10. CASE EditWrite(h)
  <2>1. hpc[h] = "editWrite" /\ r.row = row /\ Credits(e, c.ops, c.id, row)
    BY <1>2, <1>8, <1>10, <1>p DEF EditWrite, KnownTo
  <2>2. UNCHANGED <<file, xray, queueVars, loopVars, req>> /\ Goto(h, "editTake")
    BY <1>4, <1>10, <1>p DEF EditWrite, AfterEdit
  <2>3. hpc'[h] = "editTake"
    BY <1>6, <2>2 DEF Goto
  <2>4. \A f \in Emails \ {e} : roster'[f] = roster[f]
    BY <1>2, <1>10, <1>p DEF EditWrite, EditRosterUser
  <2>5. Credits(e, c.ops, c.id, row)'
    BY <2>1, <2>2 DEF Credits
  <2>6. Credited(e)'
    BY <1>p, <2>2, <2>3 DEF Credited, Ahead
  <2>7. CreditKnownTo(h)'
    BY <1>5, <1>p, <2>1, <2>2, <2>3, <2>5 DEF CreditKnownTo
  <2> QED
    BY <1>1, <1>7, <1>p, <2>2, <2>4, <2>6, <2>7, CreditGoOn
<1>11. CASE EditTake(h)
  <2>p. PICK ops \in Ops : ops = DiffOps(r.row, r.id, r.tags, c.ops)
    BY <1>3, PlanTypes
  <2>1. /\ hpc[h] = "editTake" /\ r.id \in Ids /\ row.inbounds = r.tags /\ row.id = r.id
        /\ Credits(e, c.ops, c.id, r.row)
    BY <1>2, <1>5, <1>11, <1>p DEF EditTake, KnownTo, CreditKnownTo
  <2>2. /\ UNCHANGED <<storeVars, file, xray, loopVars>>
        /\ pending' = [pending EXCEPT ![e] = NoChange]
    BY <1>11, <1>p DEF EditTake, TakePending
  <2>3. pending'[e] = NoChange /\ \A f \in Emails \ {e} : pending'[f] = pending[f]
    BY <1>2, <2>2
  <2>4. file.clients \in Clients /\ xray.clients \in Clients
    BY DEF TypeOK, FilesOK, Document, Server
  <2>5. Credits(e, ops, r.id, row)
    BY <1>3, <1>4, <2>p, <2>1, <2>4, DiffSets DEF Credits
  <2>6. Credits(e, ops, r.id, row)'
    BY <2>2, <2>5 DEF Credits
  <2>7. CASE ops = NoOps
    <3>1. Goto(h, "idle") /\ hpc'[h] = "idle"
      BY <1>6, <1>11, <1>p, <2>p, <2>7 DEF EditTake, Answer, Goto
    <3>2. Credits(e, NoOps, None, row)'
      BY <2>2, <2>5, <2>7, SetsNothing DEF Credits
    <3>3. Credited(e)'
      BY <1>p, <2>2, <2>3, <3>2 DEF Credited, NoChange
    <3>4. CreditKnownTo(h)'
      BY <3>1 DEF CreditKnownTo
    <3> QED
      BY <1>1, <1>7, <1>p, <2>2, <2>3, <3>1, <3>3, <3>4, CreditGoOn
  <2>8. CASE ops # NoOps
    <3>1. Goto(h, "enqueue") /\ req' = [req EXCEPT ![h].ops = ops]
      BY <1>11, <1>p, <2>p, <2>8 DEF EditTake
    <3>2. hpc'[h] = "enqueue" /\ req'[h] = [r EXCEPT !.ops = ops]
      BY <1>6, <1>p, <3>1 DEF Goto
    <3>3. req'[h].email = e /\ req'[h].id = r.id /\ req'[h].ops = ops
      BY <1>2, <3>2 DEF Request
    <3>4. Credited(e)'
      BY <3>2, <3>3 DEF Credited, Ahead
    <3>5. CreditKnownTo(h)'
      BY <1>5, <1>p, <2>2, <2>6, <3>2, <3>3 DEF CreditKnownTo
    <3> QED
      BY <1>1, <1>7, <1>p, <2>2, <2>3, <3>1, <3>4, <3>5, CreditGoOn
  <2> QED
    BY <2>7, <2>8
<1> QED
  BY <1>9, <1>10, <1>11

\* A plan after which nothing is left adds nothing.
LEMMA NothingAdded ==
    ASSUME NEW e, NEW ops, Plans(e, ops, {}), Touched(ops) \subseteq InitInbounds
    PROVE  ~HasAdds(ops)
<1> SUFFICES ASSUME NEW t \in Tags, ops[t] \in {"attach", "rotate"} PROVE FALSE
  BY DEF HasAdds
<1>1. t \in InitInbounds
  BY DEF Touched
<1> QED
  BY <1>1 DEF Plans, Brings, Carries

\* The steps of Disable and Delete.
LEMMA DetachesCredit ==
    ASSUME TypeOK, RestInv, CreditInv, NEW h \in Handlers,
           \/ DisableTake(h) \/ DisableStore(h)
           \/ DeleteRead(h) \/ DeleteTake(h) \/ DeleteMark(h)
    PROVE  CreditInv'
<1>1. /\ hpc[h] # "idle"
      /\ hpc[h] \in {"disableTake", "disableStore", "deleteRead", "deleteTake", "deleteMark"}
  BY DEF DisableTake, DisableStore, DeleteRead, DeleteTake, DeleteMark
<1>p. PICK e \in Emails, r \in Request, row \in Row :
        e = req[h].email /\ r = req[h] /\ row = roster[e]
  <2>1. req[h].email \in Emails /\ req[h] \in Request
    BY <1>1, AtWork
  <2>2. roster[req[h].email] \in Row
    BY <1>1, <2>1, AtWork
  <2> QED
    BY <2>1, <2>2
<1>2. /\ r.email = e /\ roster \in [Emails -> Row] /\ pending \in [Emails -> Change]
      /\ KnownTo(h) /\ Known(e)
  BY <1>1, <1>p, AtWork DEF CreditInv
<1>3. req \in [Handlers -> Request] /\ hpc \in [Handlers -> HandlerPCs]
  BY DEF TypeOK, HandlersOK
<1>4. UNCHANGED <<file, xray, loopVars>>
  BY DEF DisableTake, DisableStore, DeleteRead, DeleteTake, DeleteMark
<1>5. ~HasAdds(NoChange.ops)
  BY DEF HasAdds, NoChange, NoOps
<1>6. ASSUME NEW pc \in {"disableStore", "deleteMark"}, NEW ops, TakePending(e), Goto(h, pc),
             req' = [req EXCEPT ![h].ops = ops], UNCHANGED storeVars
      PROVE  CreditInv'
  <2>1. pending'[e] = NoChange /\ \A f \in Emails \ {e} : pending'[f] = pending[f]
    BY <1>2, <1>6 DEF TakePending
  <2>2. hpc'[h] = pc /\ req'[h] = [r EXCEPT !.ops = ops]
    BY <1>3, <1>6, <1>p DEF Goto
  <2>3. req'[h].email = e
    BY <1>2, <2>2 DEF Request
  <2>4. Credited(e)'
    BY <2>2, <2>3 DEF Credited, Ahead
  <2>5. Known(e)'
    BY <1>2, <1>4, <1>5, <1>6, <2>1 DEF Known
  <2>6. CreditKnownTo(h)'
    BY <2>2 DEF CreditKnownTo
  <2> QED
    BY <1>1, <1>4, <1>6, <1>p, <2>1, <2>4, <2>5, <2>6, CreditGoOn
<1>7. CASE DisableTake(h)
  BY <1>6, <1>7, <1>p DEF DisableTake
<1>8. CASE DeleteTake(h)
  BY <1>6, <1>8, <1>p DEF DeleteTake
<1>9. CASE DeleteRead(h)
  <2>1. hpc[h] = "deleteRead" /\ UNCHANGED <<storeVars, queueVars>>
    BY <1>9 DEF DeleteRead
  <2>2. \A g \in Handlers \ {h} : hpc[g] = "idle"
    BY <1>1, AtWork
  <2>3. ~Ahead(e)
    BY <2>1, <2>2 DEF Ahead
  <2>4. Credited(e)' /\ Known(e)'
    BY <1>2, <1>4, <2>1, <2>3 DEF CreditInv, Credited, Known, Credits
  <2>5. ASSUME NEW pc \in {"deleteTake", "idle"}, Goto(h, pc) PROVE CreditInv'
    <3>1. hpc'[h] = pc
      BY <1>3, <2>5 DEF Goto
    <3>2. CreditKnownTo(h)'
      BY <3>1 DEF CreditKnownTo
    <3> QED
      BY <1>1, <1>4, <1>p, <2>1, <2>4, <2>5, <3>2, CreditGoOn
  <2> QED
    BY <1>9, <2>5 DEF DeleteRead, Answer
<1>10. ASSUME hpc[h] \in {"disableStore", "deleteMark"},
              roster'[e].id = row.id, ~Live(roster'[e]),
              \A f \in Emails \ {e} : roster'[f] = roster[f],
              UNCHANGED pending,
              NEW pc \in {"enqueue", "idle"}, Goto(h, pc), pc = "enqueue" => UNCHANGED req
       PROVE  CreditInv'
  <2>1. pending[e] = NoChange /\ ~HasAdds(r.ops)
    BY <1>2, <1>10, <1>p, NothingAdded DEF KnownTo
  <2>2. hpc'[h] = pc
    BY <1>3, <1>10 DEF Goto
  <2>3. Credited(e)'
    BY <1>10 DEF Credited
  <2>4. Known(e)'
    BY <1>2, <1>4, <1>5, <1>10, <1>p, <2>1 DEF Known
  <2>5. CreditKnownTo(h)'
    BY <1>10, <1>p, <2>1, <2>2 DEF CreditKnownTo
  <2> QED
    BY <1>1, <1>4, <1>10, <1>p, <2>3, <2>4, <2>5, CreditGoOn
<1>11. CASE DisableStore(h)
  <2>1. hpc[h] = "disableStore" /\ Live(row) /\ UNCHANGED queueVars
    BY <1>2, <1>11, <1>p DEF DisableStore, KnownTo
  <2>2. roster'[e] = [row EXCEPT !.disabled = TRUE]
    BY <1>2, <1>11, <1>p, <2>1 DEF DisableStore, DisableRosterUser
  <2>3. roster'[e].id = row.id /\ roster'[e].disabled = TRUE
    BY <2>2 DEF Row
  <2>4. ~Live(roster'[e])
    BY <2>3 DEF Live
  <2>5. \A f \in Emails \ {e} : roster'[f] = roster[f]
    BY <1>2, <1>11, <1>p DEF DisableStore, DisableRosterUser
  <2>6. Goto(h, "idle") \/ (Goto(h, "enqueue") /\ UNCHANGED req)
    BY <1>11 DEF DisableStore, Answer
  <2> QED
    BY <1>10, <2>1, <2>3, <2>4, <2>5, <2>6
<1>12. CASE DeleteMark(h)
  <2>1. /\ hpc[h] = "deleteMark" /\ row.present = TRUE /\ row.deleting = FALSE
        /\ UNCHANGED <<queueVars, req>> /\ Goto(h, "enqueue")
    BY <1>2, <1>12, <1>p DEF DeleteMark, KnownTo
  <2>2. roster'[e] = [row EXCEPT !.disabled = TRUE, !.deleting = TRUE]
    BY <1>2, <1>12, <1>p, <2>1 DEF DeleteMark, MarkRosterDeleting
  <2>3. roster'[e].id = row.id /\ roster'[e].disabled = TRUE
    BY <2>2 DEF Row
  <2>4. ~Live(roster'[e])
    BY <2>3 DEF Live
  <2>5. \A f \in Emails \ {e} : roster'[f] = roster[f]
    BY <1>2, <1>12, <1>p DEF DeleteMark, MarkRosterDeleting
  <2> QED
    BY <1>10, <2>1, <2>3, <2>4, <2>5
<1> QED
  BY <1>7, <1>8, <1>9, <1>11, <1>12

\* Enable's write, the queue write and the kick.
LEMMA QueuesCredit ==
    ASSUME TypeOK, RestInv, CreditInv, NoBareAdd, NEW h \in Handlers,
           EnableStore(h) \/ Enqueue(h) \/ Kick(h)
    PROVE  CreditInv'
<1>1. hpc[h] # "idle" /\ hpc[h] \in {"enableStore", "enqueue", "kick"}
  BY DEF EnableStore, Enqueue, Kick
<1>p. PICK e \in Emails, r \in Request, row \in Row :
        e = req[h].email /\ r = req[h] /\ row = roster[e]
  <2>1. req[h].email \in Emails /\ req[h] \in Request
    BY <1>1, AtWork
  <2>2. roster[req[h].email] \in Row
    BY <1>1, <2>1, AtWork
  <2> QED
    BY <2>1, <2>2
<1>2. /\ r.email = e /\ roster \in [Emails -> Row] /\ pending \in [Emails -> Change]
      /\ KnownTo(h) /\ RowOK(row) /\ Known(e) /\ CreditKnownTo(h)
      /\ parse.inbounds = InitInbounds
  BY <1>1, <1>p, AtWork DEF CreditInv
<1>3. req \in [Handlers -> Request] /\ hpc \in [Handlers -> HandlerPCs]
  BY DEF TypeOK, HandlersOK
<1>4. UNCHANGED <<file, xray, loopVars>>
  BY DEF EnableStore, Enqueue, Kick
<1>5. CASE EnableStore(h)
  <2>1. /\ hpc[h] = "enableStore" /\ Disabled(row) /\ r.row = row /\ r.id = row.id
        /\ UNCHANGED queueVars
    BY <1>2, <1>5, <1>p DEF EnableStore, KnownTo
  <2>2. "rotate" \notin Kinds
    BY <1>2, <2>1 DEF CreditKnownTo, NoBareAdd
  <2>3. row.inbounds \cap parse.inbounds = row.inbounds /\ row.inbounds \subseteq InitInbounds
    BY <1>2 DEF RowOK
  <2>4. row.id \in Ids
    BY <1>2, <2>1 DEF RowOK, Disabled
  <2>5. roster'[e] = [row EXCEPT !.disabled = FALSE]
    BY <1>2, <1>5, <1>p DEF EnableStore, EnableRosterUser
  <2>6. roster'[e].id = row.id /\ roster'[e].inbounds = row.inbounds
    BY <2>5 DEF Row
  <2>7. \A f \in Emails \ {e} : roster'[f] = roster[f]
    BY <1>2, <1>5, <1>p DEF EnableStore, EnableRosterUser
  <2>8. Known(e)'
    BY <1>2, <1>4, <1>p, <2>1, <2>6 DEF Known
  <2>9. CASE row.inbounds = {}
    <3>1. Goto(h, "idle") /\ hpc'[h] = "idle"
      BY <1>3, <1>5, <1>p, <2>1, <2>3, <2>9 DEF EnableStore, Answer, Goto
    <3>2. Credited(e)'
      BY <2>6, <2>9 DEF Credited, Credits, Sets
    <3>3. CreditKnownTo(h)'
      BY <3>1 DEF CreditKnownTo
    <3> QED
      BY <1>1, <1>4, <1>p, <2>1, <2>7, <2>8, <3>1, <3>2, <3>3, CreditGoOn
  <2>10. CASE row.inbounds # {}
    <3>p. PICK ops : ops = AttachOps(row.inbounds)
      OBVIOUS
    <3> DEFINE next == [r EXCEPT !.tags = row.inbounds, !.ops = ops]
    <3>1. Goto(h, "enqueue") /\ req' = [req EXCEPT ![h] = next]
      BY <1>5, <1>p, <2>1, <2>3, <3>p, <2>10 DEF EnableStore
    <3>2. hpc'[h] = "enqueue" /\ req'[h] = next
      BY <1>3, <3>1 DEF Goto
    <3>3. next.email = e /\ next.id = row.id /\ next.ops = ops
      BY <1>2, <2>1 DEF Request
    <3> HIDE DEF next
    <3>4. ASSUME NEW t \in row.inbounds, NEW entry \in {None, row.id}
          PROVE  PushEntry(entry, ops[t], row.id) = row.id
      <4>1. ops[t] = "attach"
        BY <3>p, <3>4 DEF AttachOps, Row
      <4> QED
        BY <3>4, <4>1 DEF PushEntry, AddUser
    <3>5. \A t \in row.inbounds : file.clients[t][e] \in {None, row.id}
                                  /\ xray.clients[t][e] \in {None, row.id}
      BY <1>2, <1>p, <2>2, <2>3 DEF Known
    <3>6. Credits(e, ops, row.id, roster[e])'
      BY <1>4, <2>6, <3>4, <3>5 DEF Credits, Sets
    <3>7. Credited(e)'
      BY <3>2, <3>3 DEF Credited, Ahead
    <3>8. CreditKnownTo(h)'
      BY <2>6, <3>2, <3>3, <3>6 DEF CreditKnownTo
    <3> QED
      BY <1>1, <1>4, <1>p, <2>1, <2>7, <2>8, <3>1, <3>7, <3>8, CreditGoOn
  <2> QED
    BY <2>9, <2>10
<1>6. CASE Enqueue(h)
  <2>1. /\ hpc[h] = "enqueue" /\ EnqueueGen(e, r.id, r.ops, r.purge) /\ Goto(h, "kick")
        /\ UNCHANGED storeVars
    BY <1>6, <1>p DEF Enqueue
  <2>2. /\ pending'[e].id = r.id /\ pending'[e].ops = r.ops
        /\ \A f \in Emails \ {e} : pending'[f] = pending[f]
    BY <1>2, <2>1 DEF EnqueueGen
  <2>3. hpc'[h] = "kick"
    BY <1>3, <2>1 DEF Goto
  <2>4. Credited(e)' /\ Known(e)'
    BY <1>2, <1>4, <1>p, <2>1, <2>2 DEF Credited, Known, Credits, CreditKnownTo
  <2>5. CreditKnownTo(h)'
    BY <2>3 DEF CreditKnownTo
  <2> QED
    BY <1>1, <1>4, <1>p, <2>1, <2>2, <2>4, <2>5, CreditGoOn
<1>7. CASE Kick(h)
  <2>1. hpc[h] = "kick" /\ Goto(h, "idle") /\ UNCHANGED <<storeVars, queueVars>>
    BY <1>7 DEF Kick, Answer
  <2>2. \A g \in Handlers \ {h} : hpc[g] = "idle"
    BY <1>1, AtWork
  <2>3. ~Ahead(e) /\ hpc'[h] = "idle"
    BY <1>3, <2>1, <2>2 DEF Ahead, Goto
  <2>4. Credited(e)' /\ Known(e)'
    BY <1>2, <1>4, <2>1, <2>3 DEF CreditInv, Credited, Known, Credits
  <2>5. CreditKnownTo(h)'
    BY <2>3 DEF CreditKnownTo
  <2> QED
    BY <1>1, <1>4, <1>p, <2>1, <2>4, <2>5, CreditGoOn
<1> QED
  BY <1>5, <1>6, <1>7

\* What is to be shown of a step of the loop.
LEMMA CreditLoopStep ==
    ASSUME \A h \in Handlers : hpc[h] = "idle", UNCHANGED handlerVars,
           \A e \in Emails : Credited(e)' /\ Known(e)', PassingIDs'
    PROVE  CreditInv'
<1>1. ASSUME NEW h \in Handlers PROVE CreditKnownTo(h)'
  BY DEF CreditKnownTo
<1> QED
  BY <1>1 DEF CreditInv

\* ... and of one that leaves the rows, the queue and the entries alone.
LEMMA CreditLoopMoves ==
    ASSUME CreditInv, \A h \in Handlers : hpc[h] = "idle",
           UNCHANGED <<handlerVars, roster, file, xray, pending>>, PassingIDs'
    PROVE  CreditInv'
<1>1. ASSUME NEW e \in Emails PROVE Credited(e)' /\ Known(e)'
  BY RestIsCredited DEF Credited, Known, Credits
<1> QED
  BY <1>1, CreditLoopStep

\* What an operation of the queued change makes of an entry, whether it
\* lands, is lost or is tried again.
LEMMA CreditEntry ==
    ASSUME TypeOK, RestInv, CreditInv, \A h \in Handlers : hpc[h] = "idle",
           NEW e \in Emails, NEW t \in InitInbounds, NEW clients \in {file.clients, xray.clients},
           NEW entry \in MaybeId, NEW op \in OpKinds, NEW id \in MaybeId,
           entry = clients[t][e], op = pending[e].ops[t], id = pending[e].id,
           op \in {"attach", "rotate"} => id \in Ids,
           NEW new \in FailedPushOutcomes(entry, op, id)
    PROVE  /\ Live(roster[e]) /\ t \in roster[e].inbounds =>
                PushEntry(new, op, id) = roster[e].id /\ PushEntry(entry, op, id) = roster[e].id
           /\ "rotate" \notin Kinds => new \in {None, roster[e].id}
<1>1. Live(roster[e]) /\ t \in roster[e].inbounds => PushEntry(entry, op, id) = roster[e].id
  BY RestIsCredited DEF Credits, Sets
<1>2. PushEntry(new, op, id) = PushEntry(entry, op, id)
  BY LandsTheSame
<1>3. ASSUME "rotate" \notin Kinds PROVE new \in {None, roster[e].id}
  <2>1. t \in Tags
    BY ServiceAssumption
  <2>2. entry \in {None, roster[e].id}
    BY <1>3, RestIsCredited DEF Known
  <2>3. op \in {"attach", "rotate"} => id = roster[e].id
    BY <1>3, <2>1, RestIsCredited DEF Known, HasAdds
  <2> QED
    BY <2>2, <2>3 DEF FailedPushOutcomes, PushEntry, AddUser, RemoveUser, OpKinds
<1> QED
  BY <1>1, <1>2, <1>3

\* A render gives every queued user's entries the stored Client ID.
LEMMA RenderCredits ==
    ASSUME TypeOK, RestInv, CreditInv, \A h \in Handlers : hpc[h] = "idle",
           NEW d, d = RenderClients(file, pending), NEW e \in Emails
    PROVE  /\ Live(roster[e]) => Sets(d.clients, e, pending[e].ops, pending[e].id, roster[e])
           /\ pending[e].queued = TRUE => Given(d.clients, e, {})
           /\ "rotate" \notin Kinds =>
                \A t \in InitInbounds : d.clients[t][e] \in {None, roster[e].id}
<1>1. /\ file \in Document /\ pending \in [Emails -> Change] /\ pending[e] \in Change
      /\ file.clients \in Clients
  BY DEF TypeOK, FilesOK, QueueOK, Document
<1>2. QueueOf(e) /\ RowOK(roster[e])
  BY RestIsOwed
<1>3. file.inbounds = InitInbounds /\ InitInbounds \subseteq Tags
  BY ServiceAssumption DEF RestInv, Steady
<1>4. ASSUME NEW t \in InitInbounds
      PROVE  /\ Live(roster[e]) /\ t \in roster[e].inbounds =>
                   /\ PushEntry(d.clients[t][e], pending[e].ops[t], pending[e].id) = roster[e].id
                   /\ pending[e].queued = TRUE => d.clients[t][e] = roster[e].id
             /\ "rotate" \notin Kinds => d.clients[t][e] \in {None, roster[e].id}
  <2>1. t \in Tags /\ t \in file.inbounds
    BY <1>3
  <2>p. PICK entry \in MaybeId, op \in OpKinds, id \in MaybeId :
          entry = file.clients[t][e] /\ op = pending[e].ops[t] /\ id = pending[e].id
    BY <1>1, <2>1 DEF Clients, Change, Ops
  <2>2. op \in {"attach", "rotate"} => id \in Ids
    <3>1. CASE pending[e].queued = TRUE
      BY <1>2, <2>1, <2>p, <3>1 DEF QueueOf, WellFormed
    <3>2. CASE pending[e].queued # TRUE
      <4>1. pending[e] = NoChange
        BY <1>2, <3>2 DEF QueueOf
      <4> QED
        BY <2>1, <2>p, <4>1 DEF NoChange, NoOps
    <3> QED
      BY <3>1, <3>2
  <2>3. CASE pending[e].queued = TRUE
    <3>1. d.clients[t][e] = RenderEntry(entry, op, id)
      BY <1>1, <2>1, <2>p, <2>3, RenderedEntries
    <3>2. RenderEntry(entry, op, id) = PushEntry(entry, op, id)
      BY <2>2, LandsOnce
    <3>3. d.clients[t][e] \in FailedPushOutcomes(entry, op, id)
      BY <3>1, <3>2 DEF FailedPushOutcomes
    <3> QED
      BY <2>p, <2>2, <3>1, <3>2, <3>3, CreditEntry, SMTT(30)
  <2>4. CASE pending[e].queued # TRUE
    <3>1. ~pending[e].queued
      BY <1>1, <2>4 DEF Change
    <3>2. d.clients[t][e] = entry
      BY <1>1, <2>1, <2>p, <3>1, RenderedEntries
    <3>3. d.clients[t][e] \in FailedPushOutcomes(entry, op, id)
      BY <3>2 DEF FailedPushOutcomes
    <3>4. /\ Live(roster[e]) /\ t \in roster[e].inbounds =>
                PushEntry(d.clients[t][e], op, id) = roster[e].id
          /\ "rotate" \notin Kinds => d.clients[t][e] \in {None, roster[e].id}
      BY <2>p, <2>2, <3>3, CreditEntry, SMTT(30)
    <3> QED
      BY <2>p, <2>4, <3>4
  <2> QED
    BY <2>3, <2>4
<1>5. roster[e].inbounds \subseteq InitInbounds
  BY <1>2 DEF RowOK
<1> QED
  BY <1>4, <1>5 DEF Sets, Given

\* The steps of the loop that leave the rows, the queue and the entries alone.
LEMMA WakesCredit ==
    ASSUME TypeOK, RestInv, CreditInv,
           \/ Boot \/ Recovered \/ LoopKick \/ LoopChange \/ ApplySnapshot \/ PassDone
           \/ Reload \/ RenderRead \/ RenderFails
           \/ ConvergeRead \/ ConvergeView \/ ConvergeList \/ ConvergeCheck \/ Converged
           \/ \E e \in Emails : ConvergeNext(e) \/ PassPick(e)
    PROVE  CreditInv'
<1>1. \A h \in Handlers : hpc[h] = "idle"
  BY LoopAlone
     DEF Boot, Recovered, LoopKick, LoopChange, ApplySnapshot, PassDone, Reload, RenderRead,
         RenderFails, ConvergeRead, ConvergeView, ConvergeList, ConvergeCheck, Converged, ConvergeNext, PassPick
<1>2. UNCHANGED <<handlerVars, roster, file, xray, pending>>
  BY DEF Boot, Recovered, LoopKick, LoopChange, ApplySnapshot, PassDone, Reload, RenderRead,
         RenderFails, ConvergeRead, ConvergeView, ConvergeList, ConvergeCheck, Converged, ConvergeNext, PassPick
<1>3. PassingIDs /\ Passing
  BY DEF CreditInv, RestInv
<1>4. CASE Boot \/ Recovered \/ LoopKick \/ LoopChange \/ ApplySnapshot \/ PassDone
  <2>1. lpc' \notin {"pick", "push"}
    BY <1>4 DEF Boot, Recovered, LoopKick, LoopChange, ApplySnapshot, PassDone, AfterPass
  <2> QED
    BY <1>1, <1>2, <2>1, CreditLoopMoves DEF PassingIDs
<1>5. CASE \/ ConvergeRead \/ ConvergeView \/ ConvergeList \/ ConvergeCheck \/ Converged
           \/ \E e \in Emails : ConvergeNext(e)
  <2>1. lpc' \notin {"pick", "push"}
    BY <1>5
       DEF ConvergeRead, ConvergeView, ConvergeList, ConvergeCheck, Converged, ConvergeNext, SkipRecord,
           WithRecord
  <2> QED
    BY <1>1, <1>2, <2>1, CreditLoopMoves DEF PassingIDs
<1>6. CASE Reload
  <2>1. UNCHANGED loopVars
    BY <1>6 DEF Reload
  <2>2. PassingIDs'
    BY <1>2, <1>3, <2>1 DEF PassingIDs, Given, InPass
  <2> QED
    BY <1>1, <1>2, <2>2, CreditLoopMoves
<1>7. CASE RenderRead
  <2>1. /\ lpc = "render" /\ lpc' \in {"pick", "write"} /\ todo' = todo
        /\ lpc' = "pick" => RenderClients(file, snap) = file
    BY <1>7 DEF RenderRead
  <2>2. snap = pending /\ todo = Queued /\ pending \in [Emails -> Change]
    BY <1>3, <2>1 DEF Passing, TypeOK, QueueOK
  <2>3. ASSUME lpc' = "pick", NEW e \in Emails, InPass(e)' PROVE Given(file.clients, e, {})
    <3>1. pending[e].queued = TRUE
      BY <2>1, <2>2, <2>3 DEF InPass, Queued, Change
    <3> QED
      BY <1>1, <2>1, <2>2, <2>3, <3>1, RenderCredits
  <2>4. PassingIDs'
    BY <1>2, <2>1, <2>3 DEF PassingIDs, Given
  <2> QED
    BY <1>1, <1>2, <2>4, CreditLoopMoves
<1>8. CASE RenderFails
  <2>1. lpc' = "pick" /\ todo' = {}
    BY <1>8 DEF RenderFails
  <2>2. PassingIDs'
    BY <2>1 DEF PassingIDs, InPass
  <2> QED
    BY <1>1, <1>2, <2>2, CreditLoopMoves
<1>9. ASSUME NEW e \in Emails, PassPick(e) PROVE CreditInv'
  <2>1. lpc = "pick" /\ e \in todo /\ todo' = todo \ {e}
    BY <1>9 DEF PassPick
  <2>2. snap[e] = pending[e] /\ pending[e].queued = TRUE
    BY <1>3, <2>1 DEF Passing, InPass
  <2>3. lpc' = "push" /\ cur' = e /\ left' = Touched(pending[e].ops)
    BY <1>9, <2>2 DEF PassPick, Superseded
  <2>4. Given(xray.clients, e, Touched(pending[e].ops))
    <3> SUFFICES ASSUME Live(roster[e]), NEW t \in roster[e].inbounds \ Touched(pending[e].ops)
                 PROVE  xray.clients[t][e] = roster[e].id
      BY DEF Given
    <3>1. t \in Tags
      BY DEF TypeOK, StoreOK, Row
    <3>2. pending[e].ops[t] = "none"
      BY <3>1 DEF Touched
    <3>3. Sets(xray.clients, e, pending[e].ops, pending[e].id, roster[e])
      BY <1>1, RestIsCredited DEF Credits
    <3>4. PushEntry(xray.clients[t][e], "none", pending[e].id) = roster[e].id
      BY <3>2, <3>3 DEF Sets
    <3> QED
      BY <3>4, NothingLands
  <2>5. ASSUME NEW f \in Emails, InPass(f)' PROVE Given(file.clients, f, {})
    BY <1>3, <2>1, <2>3, <2>5 DEF PassingIDs, InPass
  <2>6. PassingIDs'
    BY <1>2, <2>3, <2>4, <2>5 DEF PassingIDs, Given
  <2> QED
    BY <1>1, <1>2, <2>6, CreditLoopMoves
<1> QED
  BY <1>4, <1>5, <1>6, <1>7, <1>8, <1>9

\* The document is written, an operation lands or its answer is lost.
LEMMA LandsCredit ==
    ASSUME TypeOK, RestInv, CreditInv, RenderWrite \/ \E t \in Tags : Push(t) \/ PushFails(t)
    PROVE  CreditInv'
<1>1. \A h \in Handlers : hpc[h] = "idle"
  BY LoopAlone DEF RenderWrite, Push, PushFails, NextOp
<1>2. PassingIDs /\ Passing
  BY DEF CreditInv, RestInv
<1>3. CASE RenderWrite
  <2>1. /\ lpc = "write" /\ lpc' = "pick" /\ todo' = todo
        /\ UNCHANGED <<roster, xray, pending, handlerVars>>
    BY <1>3 DEF RenderWrite
  <2>2. snap = pending /\ todo = Queued /\ pending \in [Emails -> Change]
    BY <1>2, <2>1 DEF Passing, TypeOK, QueueOK
  <2>3. file' = RenderClients(file, pending)
    BY <1>2, <1>3, <2>2 DEF RenderWrite, Passing
  <2>4. ASSUME NEW e \in Emails
        PROVE  /\ Live(roster[e]) => Sets(file'.clients, e, pending[e].ops, pending[e].id, roster[e])
               /\ pending[e].queued = TRUE => Given(file'.clients, e, {})
               /\ "rotate" \notin Kinds =>
                    \A t \in InitInbounds : file'.clients[t][e] \in {None, roster[e].id}
    BY <1>1, <2>3, RenderCredits
  <2>5. ASSUME NEW e \in Emails PROVE Credited(e)' /\ Known(e)'
    <3>1. /\ Live(roster[e]) => Credits(e, pending[e].ops, pending[e].id, roster[e])
          /\ Known(e)
      BY <1>1, RestIsCredited
    <3>2. Credited(e)'
      BY <2>1, <2>4, <3>1 DEF Credited, Credits
    <3>3. Known(e)'
      BY <2>1, <2>4, <3>1 DEF Known
    <3> QED
      BY <3>2, <3>3
  <2>6. ASSUME NEW e \in Emails, InPass(e)' PROVE Given(file'.clients, e, {})
    <3>1. pending[e].queued = TRUE
      BY <2>1, <2>2, <2>6 DEF InPass, Queued, Change
    <3> QED
      BY <2>4, <3>1
  <2>7. PassingIDs'
    BY <2>1, <2>6 DEF PassingIDs, Given
  <2> QED
    BY <1>1, <2>1, <2>5, <2>7, CreditLoopStep
<1>4. ASSUME NEW t \in Tags, Push(t) \/ PushFails(t) PROVE CreditInv'
  <2>1. lpc = "push" /\ t \in left /\ UNCHANGED <<roster, file, pending, handlerVars>>
    BY <1>4 DEF Push, PushFails, NextOp
  <2>p. PICK e \in Emails, c \in Change, entry \in MaybeId, op \in OpKinds, id \in MaybeId :
          /\ e = cur /\ c = pending[e] /\ entry = xray.clients[t][e]
          /\ op = c.ops[t] /\ id = c.id
    BY <2>1 DEF TypeOK, LoopOK, FilesOK, Server, Clients, QueueOK, Change, Ops
  <2>2. /\ e \notin todo /\ snap[e] = c /\ left \subseteq Touched(c.ops)
        /\ WellFormed(roster[e], c.ops, c.id, c.purge)
    BY <2>1, <2>p, PushingOne
  <2>3. t \in InitInbounds /\ op # "none" /\ (op \in {"attach", "rotate"} => id \in Ids)
    BY <2>1, <2>2, <2>p DEF WellFormed, Touched
  <2>4. parse.inbounds = InitInbounds /\ xray.up = TRUE /\ xray.inbounds = InitInbounds
    BY DEF RestInv, Steady
  <2>5. xray \in Server /\ xray.clients \in Clients
    BY DEF TypeOK, FilesOK, Server
  <2>6. PICK new : /\ xray' = [xray EXCEPT !.clients[t][e] = new]
                   /\ new \in FailedPushOutcomes(entry, op, id)
                   /\ Push(t) => new = PushEntry(entry, op, id)
                   /\ ~Push(t) => PushFails(t)
    <3>1. CASE Push(t)
      BY <2>2, <2>3, <2>4, <2>p, <3>1 DEF Push, FailedPushOutcomes
    <3>2. CASE ~Push(t)
      BY <1>4, <2>2, <2>3, <2>4, <2>p, <3>2 DEF PushFails
    <3> QED
      BY <3>1, <3>2
  <2>7. xray'.clients = [xray.clients EXCEPT ![t][e] = new]
    BY <2>5, <2>6 DEF Server
  <2>8. /\ xray'.clients[t][e] = new
        /\ \A f \in Emails, u \in Tags : f # e \/ u # t => xray'.clients[u][f] = xray.clients[u][f]
    BY <2>5, <2>7 DEF Clients
  <2>9. /\ Live(roster[e]) /\ t \in roster[e].inbounds =>
             PushEntry(new, op, id) = roster[e].id /\ PushEntry(entry, op, id) = roster[e].id
        /\ "rotate" \notin Kinds => new \in {None, roster[e].id}
    BY <1>1, <2>3, <2>6, <2>p, CreditEntry, SMTT(30)
  <2>10. ASSUME NEW f \in Emails PROVE Credited(f)' /\ Known(f)'
    <3>1. /\ Live(roster[f]) => Credits(f, pending[f].ops, pending[f].id, roster[f])
          /\ Known(f) /\ roster[f].inbounds \subseteq Tags
      BY <1>1, RestIsCredited DEF TypeOK, StoreOK, Row
    <3>2. ASSUME Live(roster[f]), NEW u \in roster[f].inbounds
          PROVE  PushEntry(xray'.clients[u][f], pending[f].ops[u], pending[f].id) = roster[f].id
      <4>1. CASE f = e /\ u = t
        BY <2>8, <2>9, <2>p, <3>2, <4>1
      <4>2. CASE f # e \/ u # t
        <5>1. xray'.clients[u][f] = xray.clients[u][f]
          BY <2>8, <3>1, <3>2, <4>2
        <5> QED
          BY <3>1, <3>2, <5>1 DEF Credits, Sets
      <4> QED
        BY <4>1, <4>2
    <3>3. Live(roster[f]) => Sets(xray'.clients, f, pending[f].ops, pending[f].id, roster[f])
      BY <3>2 DEF Sets
    <3>4. Credited(f)'
      BY <2>1, <3>1, <3>3 DEF Credited, Credits
    <3>5. ASSUME "rotate" \notin Kinds, NEW u \in InitInbounds
          PROVE  xray'.clients[u][f] \in {None, roster[f].id}
      <4>1. CASE f = e /\ u = t
        BY <2>8, <2>9, <3>5, <4>1
      <4>2. CASE f # e \/ u # t
        <5>1. u \in Tags
          BY ServiceAssumption
        <5>2. xray'.clients[u][f] = xray.clients[u][f]
          BY <2>8, <4>2, <5>1
        <5> QED
          BY <3>1, <3>5, <5>2 DEF Known
      <4> QED
        BY <4>1, <4>2
    <3>6. Known(f)'
      BY <2>1, <3>1, <3>5 DEF Known
    <3> QED
      BY <3>4, <3>6
  <2>11. CASE Push(t)
    <3>1. lpc' = "push" /\ cur' = cur /\ todo' = todo /\ left' = left \ {t}
      BY <2>1, <2>11 DEF Push
    <3>2. Given(xray'.clients, e, left \ {t})
      <4> SUFFICES ASSUME Live(roster[e]), NEW u \in roster[e].inbounds \ (left \ {t})
                   PROVE  xray'.clients[u][e] = roster[e].id
        BY DEF Given
      <4>1. CASE u = t
        BY <2>6, <2>8, <2>9, <2>11, <4>1
      <4>2. CASE u # t
        <5>1. u \in Tags
          BY DEF TypeOK, StoreOK, Row
        <5>2. xray.clients[u][e] = roster[e].id
          BY <1>2, <2>1, <2>p, <4>2 DEF PassingIDs, Given
        <5> QED
          BY <2>8, <4>2, <5>1, <5>2
      <4> QED
        BY <4>1, <4>2
    <3>3. ASSUME NEW f \in Emails, InPass(f)' PROVE Given(file.clients, f, {})
      BY <1>2, <2>1, <3>1, <3>3 DEF PassingIDs, InPass
    <3>4. PassingIDs'
      BY <2>1, <2>p, <3>1, <3>2, <3>3 DEF PassingIDs, Given
    <3> QED
      BY <1>1, <2>1, <2>10, <3>4, CreditLoopStep
  <2>12. CASE PushFails(t)
    <3>1. lpc' = "pick" /\ todo' = todo
      BY <2>12 DEF PushFails
    <3>2. ASSUME NEW f \in Emails, InPass(f)' PROVE Given(file.clients, f, {})
      BY <1>2, <2>1, <3>1, <3>2 DEF PassingIDs, InPass
    <3>3. PassingIDs'
      BY <2>1, <3>1, <3>2 DEF PassingIDs, Given
    <3> QED
      BY <1>1, <2>1, <2>10, <3>3, CreditLoopStep
  <2> QED
    BY <1>4, <2>11, <2>12
<1> QED
  BY <1>3, <1>4

\* The end of a change, and the change a convergence queues.
LEMMA SettlesCredit ==
    ASSUME TypeOK, RestInv, CreditInv, Settle \/ PurgeFails \/ ConvergeEnqueue
    PROVE  CreditInv'
<1>1. (\A h \in Handlers : hpc[h] = "idle") /\ lpc \in {"push", "enqueue"}
  BY LoopAlone DEF Settle, PurgeFails, Settling, ConvergeEnqueue
<1>p. PICK e \in Emails, c \in Change, row \in Row : e = cur /\ c = pending[e] /\ row = roster[e]
  BY <1>1 DEF TypeOK, LoopOK, QueueOK, StoreOK
<1>2. pending \in [Emails -> Change] /\ roster \in [Emails -> Row]
  BY DEF TypeOK, QueueOK, StoreOK
<1>3. UNCHANGED <<handlerVars, file, xray>>
  BY DEF Settle, PurgeFails, AfterSettle, ConvergeEnqueue
<1>4. ASSUME \A f \in Emails \ {e} : roster'[f] = roster[f] /\ pending'[f] = pending[f],
             Credited(e)', Known(e)',
             lpc' \notin {"pick", "push"}
             \/ (lpc = "push" /\ lpc' = "pick" /\ todo' = todo /\ e \notin todo)
      PROVE  CreditInv'
  <2>1. ASSUME NEW f \in Emails, f # e PROVE Credited(f)' /\ Known(f)'
    <3>1. /\ Live(roster[f]) => Credits(f, pending[f].ops, pending[f].id, roster[f])
          /\ Known(f)
      BY <1>1, RestIsCredited
    <3> QED
      BY <1>3, <1>4, <2>1, <3>1 DEF Credited, Known, Credits
  <2>2. PassingIDs'
    <3>1. CASE lpc' \notin {"pick", "push"}
      BY <3>1 DEF PassingIDs
    <3>2. CASE lpc = "push" /\ lpc' = "pick" /\ todo' = todo /\ e \notin todo
      <4>1. ASSUME NEW f \in Emails, InPass(f)' PROVE f # e /\ Given(file.clients, f, {})
        BY <3>2, <4>1 DEF CreditInv, PassingIDs, InPass
      <4> QED
        BY <1>3, <1>4, <3>2, <4>1 DEF PassingIDs, Given
    <3> QED
      BY <1>4, <3>1, <3>2
  <2> QED
    BY <1>1, <1>3, <1>4, <2>1, <2>2, CreditLoopStep
<1>5. Known(e)
  BY <1>1, RestIsCredited
<1>6. ~HasAdds(NoOps)
  BY DEF HasAdds, NoOps
<1>7. CASE Settle \/ PurgeFails
  <2>1. lpc = "push" /\ left = {} /\ lpc' = "pick" /\ todo' = todo
    BY <1>7 DEF Settle, PurgeFails, Settling, AfterSettle
  <2>2. /\ e \notin todo /\ snap[e] = c /\ ~Superseded(e)
        /\ Landed(file.clients, e, {}) /\ Landed(xray.clients, e, {})
        /\ WellFormed(row, c.ops, c.id, c.purge)
    BY <1>p, <2>1, PushingOne
  <2>3. Given(file.clients, e, {}) /\ Given(xray.clients, e, {})
    BY <1>p, <2>1 DEF CreditInv, PassingIDs, InPass
  <2>4. Live(row) => \A id : Credits(e, NoOps, id, row)
    <3>1. \A t \in row.inbounds : NoOps[t] = "none"
      BY DEF NoOps, Row
    <3> QED
      BY <1>p, <2>3, <3>1, NothingLands DEF Given, Credits, Sets
  <2>5. c.purge = TRUE => ~Live(row) /\ Deleting(row)
    BY <2>2 DEF WellFormed, Deleting, Live
  <2>6. CASE Settle
    <3>1. pending' = [pending EXCEPT ![e] = NoChange]
      BY <1>p, <2>2, <2>6 DEF Settle
    <3>2. /\ pending'[e].ops = NoOps /\ pending'[e].id = None
          /\ \A f \in Emails \ {e} : pending'[f] = pending[f]
      BY <1>2, <3>1 DEF NoChange
    <3>3. CASE c.purge = TRUE
      <4>1. roster' = PurgeRosterUser(roster, e)
        BY <1>p, <2>2, <2>6, <3>3 DEF Settle
      <4>2. roster'[e] = AbsentRow /\ \A f \in Emails \ {e} : roster'[f] = roster[f]
        BY <1>2, <1>p, <2>5, <3>3, <4>1 DEF PurgeRosterUser
      <4>3. Credited(e)'
        BY <4>2 DEF Credited, Live, AbsentRow
      <4>4. \A t \in InitInbounds : file.clients[t][e] = None /\ xray.clients[t][e] = None
        BY <1>p, <2>2, <2>5, <3>3 DEF Landed, DueTags
      <4>5. Known(e)'
        BY <1>3, <1>6, <3>2, <4>4 DEF Known
      <4> QED
        BY <1>4, <2>1, <2>2, <3>2, <4>2, <4>3, <4>5
    <3>4. CASE c.purge # TRUE
      <4>1. roster' = roster
        BY <1>p, <2>2, <2>6, <3>4 DEF Settle, Change
      <4>2. Credited(e)'
        <5>1. Live(row) => Credits(e, NoOps, None, row)
          BY <2>4
        <5> QED
          BY <1>3, <1>p, <3>2, <4>1, <5>1 DEF Credited, Credits
      <4>3. Known(e)'
        BY <1>3, <1>5, <1>6, <3>2, <4>1 DEF Known
      <4> QED
        BY <1>4, <2>1, <2>2, <3>2, <4>1, <4>2, <4>3
    <3> QED
      BY <3>3, <3>4
  <2>7. CASE PurgeFails
    <3>1. /\ pending' = [pending EXCEPT ![e] = [c EXCEPT !.ops = NoOps]] /\ c.purge = TRUE
          /\ roster' = roster
      BY <1>p, <2>2, <2>7 DEF PurgeFails, Change
    <3>2. pending'[e].ops = NoOps /\ \A f \in Emails \ {e} : pending'[f] = pending[f]
      BY <1>2, <3>1 DEF Change
    <3>3. Credited(e)'
      BY <1>p, <2>5, <3>1 DEF Credited
    <3>4. Known(e)'
      BY <1>3, <1>5, <1>6, <3>1, <3>2 DEF Known
    <3> QED
      BY <1>4, <2>1, <2>2, <3>1, <3>2, <3>3, <3>4
  <2> QED
    BY <1>7, <2>6, <2>7
<1>8. CASE ConvergeEnqueue
  <2>1. /\ lpc = "enqueue" /\ lpc' = "next" /\ roster' = roster
        /\ EnqueueGen(e, recs[e].id, AttachOps(Lost(e, recs[e])), FALSE)
    BY <1>8, <1>p DEF ConvergeEnqueue, SkipRecord
  <2>2. recs[e] = row /\ pending[e].queued = FALSE
    BY <1>p, <2>1 DEF RestInv, Converging
  <2>p. PICK ops : ops = AttachOps(Lost(e, recs[e]))
    OBVIOUS
  <2>3. /\ pending'[e].ops = ops /\ pending'[e].id = row.id
        /\ \A f \in Emails \ {e} : pending'[f] = pending[f]
    BY <1>2, <2>1, <2>2, <2>p DEF EnqueueGen
  <2>4. pending[e] = NoChange
    BY <2>2 DEF RestInv, Queues, QueueOf
  <2>5. ASSUME Live(row), NEW t \in row.inbounds
        PROVE  /\ PushEntry(file.clients[t][e], ops[t], row.id) = row.id
               /\ PushEntry(xray.clients[t][e], ops[t], row.id) = row.id
    <3>1. Credits(e, NoOps, None, row)
      BY <1>1, <1>p, <2>4, <2>5, RestIsCredited DEF NoChange
    <3>2. t \in Tags /\ NoOps[t] = "none"
      BY DEF Row, NoOps
    <3>3. file.clients[t][e] = row.id /\ xray.clients[t][e] = row.id
      BY <3>1, <3>2, NothingLands DEF Credits, Sets
    <3>4. ops[t] \in {"none", "attach"}
      BY <2>p, <3>2 DEF AttachOps
    <3> QED
      BY <3>3, <3>4 DEF PushEntry, AddUser
  <2>6. Live(row) => Credits(e, ops, row.id, row)
    BY <2>5 DEF Credits, Sets
  <2>7. Credited(e)'
    BY <1>3, <1>p, <2>1, <2>3, <2>6 DEF Credited, Credits
  <2>8. Known(e)'
    BY <1>3, <1>5, <1>p, <2>1, <2>3 DEF Known
  <2> QED
    BY <1>4, <2>1, <2>3, <2>7, <2>8
<1> QED
  BY <1>7, <1>8

\* The Client IDs hold throughout.
LEMMA AlwaysCredited ==
    ASSUME OneAtATime, CarriedOver, NoBareAdd
    PROVE  Spec => [](TypeOK /\ RestInv /\ CreditInv)
<1>1. ASSUME Init PROVE CreditInv
  <2>1. (\A h \in Handlers : hpc[h] = "idle") /\ lpc = "boot" /\ pending = NoChanges
    BY <1>1 DEF Init
  <2>2. (\A h \in Handlers : CreditKnownTo(h)) /\ PassingIDs
    BY <2>1 DEF CreditKnownTo, PassingIDs
  <2>3. ASSUME NEW e \in Emails PROVE Credited(e) /\ Known(e)
    <3>1. roster[e] = InitRow(e) /\ pending[e] = NoChange
      BY <1>1, <2>1 DEF Init, NoChanges
    <3>2. \A t \in InitInbounds : /\ file.clients[t][e] = roster[e].id
                                  /\ xray.clients[t][e] = roster[e].id
      BY <1>1, <3>1, ServiceAssumption DEF Init, InitDocument, ServerOf
    <3>3. roster[e].inbounds \subseteq InitInbounds
      BY <1>1, InitAtRest DEF RestInv, Rows, RowOK
    <3>4. \A t \in InitInbounds : NoOps[t] = "none"
      BY ServiceAssumption DEF NoOps
    <3>5. Credits(e, NoOps, None, roster[e])
      BY <3>2, <3>3, <3>4, NothingLands DEF Credits, Sets
    <3>6. ~HasAdds(NoOps)
      BY DEF HasAdds, NoOps
    <3> QED
      BY <3>1, <3>2, <3>5, <3>6 DEF Credited, Known, NoChange
  <2> QED
    BY <2>2, <2>3 DEF CreditInv
<1>2. ASSUME TypeOK, RestInv, CreditInv, [Next]_vars PROVE CreditInv'
  <2>1. CASE UNCHANGED vars
    BY <1>2, <2>1
      
       DEF vars, CreditInv, Credited, Ahead, Credits, Known, CreditKnownTo, PassingIDs, InPass,
           Given
  <2>2. ASSUME NEW h \in Handlers, Arrive(h) PROVE CreditInv'
    BY <1>2, <2>2, ArriveCredits
  <2>3. ASSUME NEW h \in Handlers, HandlerStep(h) PROVE CreditInv'
    BY <1>2, <2>3, EditsCredit, DetachesCredit, QueuesCredit DEF HandlerStep
  <2>4. ~ConvergePrune /\ ~ConvergePruneWrite
    BY <1>2 DEF ConvergePrune, ConvergePruneWrite, RestInv, Converging
  <2>5. CASE ApplyStep \/ RenderFails \/ PurgeFails \/ Reload
    BY <1>2, <2>5, WakesCredit, LandsCredit, SettlesCredit DEF ApplyStep
  <2>6. CASE ConvergeStep
    BY <1>2, <2>4, <2>6, WakesCredit, SettlesCredit DEF ConvergeStep
  <2>7. CASE LoopStep
    BY <1>2, <2>5, <2>6, <2>7, NotAtRest, WakesCredit DEF LoopStep
  <2> QED
    BY <1>2, <2>1, <2>2, <2>3, <2>5, <2>7, NotAtRest DEF Next, Faults
<1>3. Init => CreditInv
  BY <1>1
<1>4. (TypeOK /\ RestInv) /\ CreditInv /\ [Next]_vars => CreditInv'
  BY <1>2
<1> QED
  BY <1>3, <1>4, AlwaysAtRest, PTL DEF Spec

\* Once Sync() answers synced, every inbound a user is on carries the stored
\* Client ID, in the file and on the running xray: no superseded credential
\* keeps authenticating, however the remove+add pairs of the rotations failed
\* on the way (service.go, diffOps and pushOp).
THEOREM SyncedMeansCredited ==
    ASSUME OneAtATime, CarriedOver, NoBareAdd
    PROVE  Spec => []SyncedCredentials
<1>1. TypeOK /\ RestInv /\ CreditInv => SyncedCredentials
  <2> SUFFICES ASSUME TypeOK, RestInv, CreditInv, Quiet, Synced,
                      NEW e \in Emails, NEW t \in file.inbounds
               PROVE  OnFile(e, t) = Due(e, t) /\ OnXray(e, t) = Due(e, t)
    BY DEF SyncedCredentials
  <2>1. t \in InitInbounds
    BY DEF RestInv, Steady
  <2>2. (\A h \in Handlers : hpc[h] = "idle") /\ ~pending[e].queued
    BY DEF Quiet, Synced, Queued
  <2>3. pending[e] = NoChange
    BY <2>2 DEF RestInv, Queues, QueueOf
  <2>4. CASE t \in DueTags(roster[e])
    <3>1. Live(roster[e]) /\ t \in roster[e].inbounds
      BY <2>4 DEF DueTags
    <3>2. Credits(e, NoOps, None, roster[e])
      BY <2>2, <2>3, <3>1, RestIsCredited DEF NoChange
    <3>3. NoOps[t] = "none"
      BY <2>1, ServiceAssumption DEF NoOps
    <3> QED
      BY <3>1, <3>2, <3>3, NothingLands DEF Credits, Sets, OnFile, OnXray, Due
  <2>5. CASE t \notin DueTags(roster[e])
    <3>1. file.clients[t][e] = None /\ xray.clients[t][e] = None
      BY <2>1, <2>5, NothingOwed
    <3>2. Due(e, t) = None
      BY <2>5 DEF DueTags, Due
    <3> QED
      BY <3>1, <3>2 DEF OnFile, OnXray
  <2> QED
    BY <2>4, <2>5
<1> QED
  BY <1>1, AlwaysCredited, PTL
=============================================================================
