------------------------- MODULE RosterServiceProofs -------------------------
(***************************************************************************)
(* Theorems about the roster write path, for every set of emails, inbounds,*)
(* Client IDs and handlers and every bound on the environment.             *)
(***************************************************************************)
EXTENDS RosterService, TLAPS

-----------------------------------------------------------------------------
(* What the operators of Roster return.                                    *)

\* The transactions on the roster table return a roster table.
LEMMA StoreTypes ==
    ASSUME NEW r \in [Emails -> Row], NEW e \in Emails, NEW id \in MaybeId,
           NEW tags \in SUBSET Tags
    PROVE  /\ AddRosterUser(r, e, id, tags) \in [Emails -> Row]
           /\ DisableRosterUser(r, e) \in [Emails -> Row]
           /\ MarkRosterDeleting(r, e) \in [Emails -> Row]
           /\ EnableRosterUser(r, e) \in [Emails -> Row]
           /\ EditRosterUser(r, e, id, tags) \in [Emails -> Row]
           /\ PurgeRosterUser(r, e) \in [Emails -> Row]
  BY ZenonT(60) DEF Row, AbsentRow, MaybeId, AddRosterUser, DisableRosterUser, MarkRosterDeleting,
         EnableRosterUser, EditRosterUser, PurgeRosterUser, Live, Deleting

\* The transactions on the users table return a users table.
LEMMA UserTypes ==
    ASSUME NEW u \in [Emails -> UserMarks], NEW r, NEW e \in Emails
    PROVE  /\ UserLive(u, e) \in [Emails -> UserMarks]
           /\ UserDisabled(u, e) \in [Emails -> UserMarks]
           /\ UserEnabled(u, e) \in [Emails -> UserMarks]
           /\ UserPurged(u, r, e) \in [Emails -> UserMarks]
  BY DEF UserMarks, UserLive, UserDisabled, UserEnabled, UserPurged

\* A poll's roster half returns tables.
LEMMA AdoptionTypes ==
    ASSUME NEW u \in [Emails -> UserMarks], NEW r \in [Emails -> Row], NEW c \in Clients
    PROVE  /\ SyncLabels(u, r, c) \in [Emails -> UserMarks]
           /\ AdoptClients(r, c) \in [Emails -> Row]
<1>1. SyncLabels(u, r, c) \in [Emails -> UserMarks]
  BY DEF SyncLabels, UserMarks
<1>2. ASSUME NEW e \in Emails, Carrying(c, e) # {}
      PROVE  ParsedID(c, e) \in MaybeId
  BY <1>2 DEF Carrying, ParsedID, Clients
<1>3. ASSUME NEW e \in Emails PROVE AdoptClients(r, c)[e] \in Row
  <2>1. Carrying(c, e) \subseteq Tags
    BY DEF Carrying
  <2>2. r[e] \in Row
    OBVIOUS
  <2> QED
    BY <1>2, <2>1, <2>2 DEF AdoptClients, Row, AbsentRow, MaybeId
<1> QED
  BY <1>1, <1>3 DEF AdoptClients

\* Every plan is one operation per inbound.
LEMMA PlanTypes ==
    ASSUME NEW row, NEW id, NEW tags \in SUBSET Tags, NEW prev \in Ops
    PROVE  /\ NoOps \in Ops /\ AttachOps(tags) \in Ops /\ DetachOps(tags) \in Ops
           /\ DisableOps(row, prev) \in Ops /\ DeleteOps(row, prev) \in Ops
           /\ DiffOps(row, id, tags, prev) \in Ops
  BY DEF Ops, OpKinds, NoOps, AttachOps, DetachOps, DisableOps, DeleteOps, DiffOps

\* Rendering and pushing an entry yield Client IDs, or none.
LEMMA EntryTypes ==
    ASSUME NEW entry \in MaybeId, NEW op \in OpKinds, NEW id \in MaybeId
    PROVE  /\ RenderEntry(entry, op, id) \in MaybeId
           /\ PushEntry(entry, op, id) \in MaybeId
           /\ FailedPushOutcomes(entry, op, id) \subseteq MaybeId
  BY DEF OpKinds, RenderEntry, PushEntry, AddUser, RemoveUser, FailedPushOutcomes, MaybeId

\* A rendered document is a document.
LEMMA RenderType ==
    ASSUME NEW d \in Document, NEW q \in [Emails -> Change]
    PROVE  RenderClients(d, q) \in Document
<1>1. ASSUME NEW t \in Tags, NEW e \in Emails
      PROVE  /\ d.clients[t][e] \in MaybeId
             /\ RenderEntry(d.clients[t][e], q[e].ops[t], q[e].id) \in MaybeId
  BY EntryTypes DEF Document, Clients, Change, Ops
<1> QED
  BY <1>1 DEF RenderClients, Document, Clients

-----------------------------------------------------------------------------
(* Type correctness.                                                       *)

USE DEF storeVars, watchVars, collectorVars, queueVars, passVars, convergeVars,
        loopVars, handlerVars

\* The values that stand for nothing have their types.
LEMMA NothingTypes ==
    /\ AbsentRow \in Row /\ NoChange \in Change /\ NoRequest \in Request
    /\ NoChanges \in [Emails -> Change] /\ NoRecords \in [Emails -> Row]
    /\ EmptyDocument \in Document /\ NothingSampled \in Sampled
  BY DEF AbsentRow, Row, MaybeId, NoChange, Change, NoOps, Ops, OpKinds, NoRequest, Request,
         NoChanges, NoRecords, EmptyDocument, Document, NoClients, Clients,
         NothingSampled, Sampled

\* A budget that is spent is still a budget.
LEMMA SpendType ==
    ASSUME SpentOK, NEW what \in DOMAIN Bounds, Spend(what)
    PROVE  SpentOK'
  BY DEF SpentOK, Spend, Bounds

\* A part whose variables are left alone keeps its types.
LEMMA Frame ==
    /\ StoreOK /\ UNCHANGED storeVars => StoreOK'
    /\ FilesOK /\ UNCHANGED <<file, xray, watchVars, collectorVars>> => FilesOK'
    /\ QueueOK /\ UNCHANGED <<queueVars, kick>> => QueueOK'
    /\ LoopOK /\ UNCHANGED loopVars => LoopOK'
    /\ HandlersOK /\ UNCHANGED handlerVars => HandlersOK'
    /\ SpentOK /\ UNCHANGED spent => SpentOK'
  BY DEF StoreOK, FilesOK, QueueOK, LoopOK, HandlersOK, SpentOK, Bounds

\* The initial state is typed.
LEMMA InitTypes == Init => TypeOK
<1> SUFFICES ASSUME Init PROVE TypeOK
  OBVIOUS
<1>1. \A e \in Emails : InitRow(e) \in Row
  BY NothingTypes, ServiceAssumption DEF InitRow, Row, MaybeId
<1>2. InitDocument \in Document
  BY <1>1, ServiceAssumption DEF InitDocument, Document, Clients, Row, MaybeId
<1>3. ParseOf(InitDocument) \in Parse /\ ServerOf(InitDocument) \in Server
  BY <1>2 DEF Document, ParseOf, Parse, ServerOf, Server
<1>4. StoreOK /\ FilesOK /\ QueueOK
  BY <1>1, <1>2, <1>3, NothingTypes DEF Init, StoreOK, FilesOK, QueueOK, UserMarks
<1>5. LoopOK
  BY NothingTypes DEF Init, LoopOK, LoopPCs
<1>6. HandlersOK /\ SpentOK
  BY NothingTypes DEF Init, HandlersOK, SpentOK, HandlerPCs, Bounds
<1> QED
  BY <1>4, <1>5, <1>6 DEF TypeOK

\* A handler moves on, with another request record, with the same one, or to
\* its answer.
LEMMA HandlerMoves ==
    ASSUME HandlersOK, NEW h \in Handlers, NEW pc \in HandlerPCs
    PROVE  /\ Answer(h) => HandlersOK'
           /\ hpc[h] # "idle" /\ Goto(h, pc) /\ UNCHANGED req => HandlersOK'
           /\ \A r \in Request :
                 r.email \in Emails /\ Goto(h, pc) /\ req' = [req EXCEPT ![h] = r] => HandlersOK'
<1>1. Answer(h) => HandlersOK'
  BY NothingTypes DEF HandlersOK, Answer, Goto, HandlerPCs
<1>2. hpc[h] # "idle" /\ Goto(h, pc) /\ UNCHANGED req => HandlersOK'
  BY DEF HandlersOK, Goto
<1>3. ASSUME NEW r \in Request, r.email \in Emails, Goto(h, pc), req' = [req EXCEPT ![h] = r]
      PROVE  HandlersOK'
  BY <1>3 DEF HandlersOK, Goto
<1> QED
  BY <1>1, <1>2, <1>3

\* A request that arrives is a request in flight.
LEMMA BeginTypes ==
    ASSUME TypeOK, NEW h \in Handlers, NEW kind, NEW r \in Request, NEW pc \in HandlerPCs,
           r.email \in Emails, Begin(h, kind, r, pc), StoreOK'
    PROVE  TypeOK'
<1>1. CASE pc = "idle"
  <2>1. Answer(h)
    BY <1>1 DEF Begin, Answer
  <2> QED
    BY <2>1, HandlerMoves, SpendType, Frame DEF Begin, TypeOK, Bounds
<1>2. CASE pc # "idle"
  <2>1. [r EXCEPT !.kind = kind] \in Request /\ [r EXCEPT !.kind = kind].email \in Emails
    BY DEF Begin, Request
  <2>2. Goto(h, pc) /\ req' = [req EXCEPT ![h] = [r EXCEPT !.kind = kind]]
    BY <1>2 DEF Begin
  <2> QED
    BY <2>1, <2>2, HandlerMoves, SpendType, Frame DEF Begin, TypeOK, Bounds
<1> QED
  BY <1>1, <1>2

\* The arrival of a mutation of any kind keeps the types.
LEMMA ArriveTypes ==
    ASSUME TypeOK, NEW h \in Handlers, Arrive(h)
    PROVE  TypeOK'
<1>1. PICK e \in Emails :
        \/ \E id \in Ids, tags \in SUBSET Tags : Add(h, e, id, tags)
        \/ \E id \in MaybeId, tags \in SUBSET Tags : Edit(h, e, id, tags)
        \/ \E id \in MaybeId : Rotate(h, e, id)
        \/ Disable(h, e)
        \/ Delete(h, e)
        \/ Enable(h, e)
  BY DEF Arrive
<1>2. roster[e] \in Row /\ StoreOK
  BY DEF TypeOK, StoreOK
<1>3. NoRequest \in Request /\ AbsentRow \in Row
  BY NothingTypes
<1>4. ASSUME NEW id \in Ids, NEW tags \in SUBSET Tags, Add(h, e, id, tags) PROVE TypeOK'
  <2> DEFINE r == [NoRequest EXCEPT !.email = e, !.id = id, !.ops = AttachOps(tags)]
  <2>1. r \in Request /\ r.email \in Emails
    BY <1>3, PlanTypes DEF Request, MaybeId, NoRequest
  <2>2. StoreOK'
    BY <1>2, <1>4, StoreTypes, UserTypes DEF Add, MaybeId, StoreOK
  <2> QED
    BY <1>4, <2>1, <2>2, BeginTypes DEF Add, HandlerPCs
<1>5. ASSUME NEW id \in MaybeId, NEW tags \in SUBSET Tags, Edit(h, e, id, tags) PROVE TypeOK'
  <2> DEFINE r == [NoRequest EXCEPT !.email = e, !.id = id, !.tags = tags, !.row = roster[e]]
  <2>1. r \in Request /\ r.email \in Emails
    BY <1>2, <1>3 DEF Request
  <2> QED
    BY <1>2, <1>5, <2>1, BeginTypes, Frame DEF Edit, HandlerPCs
<1>6. ASSUME NEW id \in MaybeId, Rotate(h, e, id) PROVE TypeOK'
  <2> DEFINE kept == roster[e].inbounds \cap parse.inbounds
             r == [NoRequest EXCEPT !.email = e, !.id = id, !.tags = kept,
                                    !.row = [roster[e] EXCEPT !.inbounds = kept]]
  <2>1. kept \in SUBSET Tags /\ [roster[e] EXCEPT !.inbounds = kept] \in Row
    BY <1>2 DEF Row
  <2>2. r \in Request /\ r.email \in Emails
    BY <1>3, <2>1 DEF Request
  <2> QED
    BY <1>2, <1>6, <2>2, BeginTypes, Frame DEF Rotate, HandlerPCs
<1>7. /\ [NoRequest EXCEPT !.email = e, !.id = roster[e].id, !.row = roster[e]] \in Request
      /\ [NoRequest EXCEPT !.email = e, !.id = roster[e].id, !.row = roster[e]].email \in Emails
  BY <1>2, <1>3 DEF Request, Row
<1>8. ASSUME Disable(h, e) PROVE TypeOK'
  BY <1>2, <1>7, <1>8, BeginTypes, Frame DEF Disable, HandlerPCs
<1>9. ASSUME Delete(h, e) PROVE TypeOK'
  <2> DEFINE r == [NoRequest EXCEPT !.email = e,
                                    !.id = IF Live(roster[e]) THEN roster[e].id ELSE None,
                                    !.row = IF Live(roster[e]) THEN roster[e] ELSE AbsentRow,
                                    !.purge = TRUE]
  <2>1. r \in Request /\ r.email \in Emails
    BY <1>2, <1>3 DEF Request, Row, MaybeId
  <2> QED
    BY <1>2, <1>9, <2>1, BeginTypes, Frame DEF Delete, HandlerPCs
<1>10. ASSUME Enable(h, e) PROVE TypeOK'
  BY <1>2, <1>7, <1>10, BeginTypes, Frame DEF Enable, HandlerPCs
<1> QED
  BY <1>1, <1>4, <1>5, <1>6, <1>8, <1>9, <1>10

\* The steps of a mutation keep the types.
LEMMA HandlerTypes ==
    ASSUME TypeOK, NEW h \in Handlers, HandlerStep(h)
    PROVE  TypeOK'
<1> DEFINE r == req[h]
           e == req[h].email
<1>1. /\ StoreOK /\ FilesOK /\ QueueOK /\ LoopOK /\ HandlersOK /\ SpentOK
      /\ r \in Request /\ hpc[h] # "idle"
  BY DEF TypeOK, HandlersOK, HandlerStep, EditCheck, EditWrite, EditTake, DisableTake,
         DisableStore, DeleteRead, DeleteTake, DeleteMark, EnableStore, Enqueue, Kick
<1>2. e \in Emails /\ roster[e] \in Row /\ pending[e].ops \in Ops
  BY <1>1 DEF HandlersOK, StoreOK, QueueOK, Change
<1>3. /\ r.id \in MaybeId /\ r.tags \in SUBSET Tags /\ r.row \in Row /\ r.ops \in Ops
      /\ r.purge \in BOOLEAN /\ r.row.inbounds \subseteq Tags /\ roster[e].id \in MaybeId
  BY <1>1, <1>2 DEF Request, Row
<1>4. /\ \A id \in MaybeId : [r EXCEPT !.id = id] \in Request /\ [r EXCEPT !.id = id].email = e
      /\ \A ops \in Ops : [r EXCEPT !.ops = ops] \in Request /\ [r EXCEPT !.ops = ops].email = e
  BY <1>1 DEF Request
<1>5. ASSUME TakePending(e), UNCHANGED kick PROVE QueueOK'
  BY <1>1, <1>2, <1>5, NothingTypes DEF QueueOK, TakePending
<1>6. CASE EditCheck(h)
  <2> DEFINE id == IF r.id = None THEN roster[e].id ELSE r.id
  <2>1. id \in MaybeId
    BY <1>3
  <2>2. HandlersOK'
    <3>1. CASE Answer(h)
      BY <1>1, <3>1, HandlerMoves DEF HandlerPCs
    <3>2. CASE \E pc \in {"editWrite", "editTake", "enqueue"} :
                  Goto(h, pc) /\ req' = [req EXCEPT ![h].id = id]
      BY <1>1, <1>2, <1>4, <2>1, <3>2, HandlerMoves, ZenonT(60) DEF HandlerPCs
    <3> QED
      BY <1>6, <3>1, <3>2 DEF EditCheck, AfterEdit
  <2> QED
    BY <1>1, <1>6, <2>2, Frame DEF EditCheck, TypeOK
<1>7. CASE EditWrite(h)
  <2>1. StoreOK'
    BY <1>1, <1>2, <1>3, <1>7, StoreTypes, UserTypes DEF EditWrite, StoreOK
  <2>2. HandlersOK'
    BY <1>1, <1>7, HandlerMoves DEF EditWrite, AfterEdit, HandlerPCs
  <2> QED
    BY <1>1, <1>7, <2>1, <2>2, Frame DEF EditWrite, TypeOK
<1>8. CASE EditTake(h)
  <2> DEFINE ops == DiffOps(r.row, r.id, r.tags, pending[e].ops)
  <2>1. ops \in Ops
    BY <1>2, <1>3, PlanTypes
  <2>2. HandlersOK'
    BY <1>1, <1>2, <1>4, <1>8, <2>1, HandlerMoves DEF EditTake, HandlerPCs
  <2> QED
    BY <1>1, <1>5, <1>8, <2>2, Frame DEF EditTake, TypeOK
<1>9. CASE DisableTake(h)
  <2>1. DisableOps(r.row, pending[e].ops) \in Ops
    BY <1>2, <1>3, PlanTypes
  <2>2. HandlersOK'
    BY <1>1, <1>2, <1>4, <1>9, <2>1, HandlerMoves DEF DisableTake, HandlerPCs
  <2> QED
    BY <1>1, <1>5, <1>9, <2>2, Frame DEF DisableTake, TypeOK
<1>10. CASE DisableStore(h)
  <2>1. StoreOK'
    BY <1>1, <1>2, <1>3, <1>10, StoreTypes, UserTypes DEF DisableStore, StoreOK
  <2>2. HandlersOK'
    BY <1>1, <1>10, HandlerMoves DEF DisableStore, HandlerPCs
  <2> QED
    BY <1>1, <1>10, <2>1, <2>2, Frame DEF DisableStore, TypeOK
<1>11. CASE DeleteRead(h)
  <2>1. /\ [r EXCEPT !.id = roster[e].id, !.row = roster[e]] \in Request
        /\ [r EXCEPT !.id = roster[e].id, !.row = roster[e]].email = e
    BY <1>1, <1>2, <1>3 DEF Request
  <2>2. HandlersOK'
    BY <1>1, <1>2, <1>11, <2>1, HandlerMoves DEF DeleteRead, HandlerPCs
  <2> QED
    BY <1>1, <1>11, <2>2, Frame DEF DeleteRead, TypeOK
<1>12. CASE DeleteTake(h)
  <2>1. DeleteOps(r.row, pending[e].ops) \in Ops
    BY <1>2, <1>3, PlanTypes
  <2>2. HandlersOK'
    BY <1>1, <1>2, <1>4, <1>12, <2>1, HandlerMoves DEF DeleteTake, HandlerPCs
  <2> QED
    BY <1>1, <1>5, <1>12, <2>2, Frame DEF DeleteTake, TypeOK
<1>13. CASE DeleteMark(h)
  <2>1. StoreOK'
    BY <1>1, <1>2, <1>3, <1>13, StoreTypes, UserTypes DEF DeleteMark, StoreOK
  <2>2. HandlersOK'
    BY <1>1, <1>13, HandlerMoves DEF DeleteMark, HandlerPCs
  <2> QED
    BY <1>1, <1>13, <2>1, <2>2, Frame DEF DeleteMark, TypeOK
<1>14. CASE EnableStore(h)
  <2> DEFINE kept == r.row.inbounds \cap parse.inbounds
             next == [r EXCEPT !.tags = kept, !.ops = AttachOps(kept)]
  <2>1. kept \in SUBSET Tags
    BY <1>3
  <2>2. AttachOps(kept) \in Ops
    BY <1>3, <2>1, PlanTypes
  <2>3. next \in Request /\ next.email = e
    BY <1>1, <2>1, <2>2 DEF Request
  <2>4. [next EXCEPT !.id = None] \in Request /\ [next EXCEPT !.id = None].email = e
    BY <2>3 DEF Request, MaybeId
  <2>5. StoreOK'
    BY <1>1, <1>2, <1>3, <1>14, StoreTypes, UserTypes DEF EnableStore, StoreOK
  <2>6. HandlersOK'
    BY <1>1, <1>2, <1>14, <2>3, <2>4, HandlerMoves DEF EnableStore, HandlerPCs
  <2> QED
    BY <1>1, <1>14, <2>5, <2>6, Frame DEF EnableStore, TypeOK
<1>15. CASE Enqueue(h)
  <2>1. QueueOK'
    BY <1>1, <1>2, <1>3, <1>15 DEF Enqueue, EnqueueGen, QueueOK, Change
  <2>2. HandlersOK'
    BY <1>1, <1>15, HandlerMoves DEF Enqueue, HandlerPCs
  <2> QED
    BY <1>1, <1>15, <2>1, <2>2, Frame DEF Enqueue, TypeOK
<1>16. CASE Kick(h)
  <2>1. HandlersOK'
    BY <1>1, <1>16, HandlerMoves DEF Kick, HandlerPCs
  <2>2. QueueOK'
    BY <1>1, <1>16 DEF Kick, QueueOK
  <2> QED
    BY <1>1, <1>16, <2>1, <2>2, Frame DEF Kick, TypeOK
<1> QED
  BY <1>6, <1>7, <1>8, <1>9, <1>10, <1>11, <1>12, <1>13, <1>14, <1>15, <1>16 DEF HandlerStep

\* The start of the loop and its select keep the types.
LEMMA LoopTypes ==
    ASSUME TypeOK,
           \/ Boot \/ (\E e \in Emails : RecoverDelete(e)) \/ Recovered
           \/ LoopKick \/ LoopChange \/ LoopTick
    PROVE  TypeOK'
<1>1. StoreOK /\ FilesOK /\ QueueOK /\ LoopOK /\ HandlersOK /\ SpentOK
  BY DEF TypeOK
<1>2. CASE Boot
  <2>1. LoopOK'
    BY <1>1, <1>2, NothingTypes DEF Boot, LoopOK, LoopPCs, StoreOK, FilesOK, Server
  <2> QED
    BY <1>1, <1>2, <2>1, Frame DEF Boot, TypeOK
<1>3. ASSUME NEW e \in Emails, RecoverDelete(e) PROVE TypeOK'
  <2>1. /\ recs[e].id \in MaybeId /\ DetachOps(recs[e].inbounds) \in Ops
        /\ [recs EXCEPT ![e] = AbsentRow] \in [Emails -> Row]
    BY <1>1, NothingTypes DEF LoopOK, Row, DetachOps, Ops, OpKinds
  <2>2. LoopOK'
    BY <1>1, <1>3, <2>1 DEF RecoverDelete, LoopOK
  <2>3. QueueOK'
    BY <1>1, <1>3, <2>1 DEF RecoverDelete, EnqueueGen, QueueOK, Change
  <2> QED
    BY <1>1, <1>3, <2>2, <2>3, Frame DEF RecoverDelete, TypeOK
<1>4. CASE Recovered
  <2>1. LoopOK'
    BY <1>1, <1>4 DEF Recovered, LoopOK, LoopPCs
  <2> QED
    BY <1>1, <1>4, <2>1, Frame DEF Recovered, TypeOK
<1>5. CASE LoopKick
  <2>1. LoopOK' /\ QueueOK'
    BY <1>1, <1>5 DEF LoopKick, LoopOK, LoopPCs, QueueOK
  <2> QED
    BY <1>1, <1>5, <2>1, Frame DEF LoopKick, TypeOK
<1>6. CASE LoopChange
  <2>1. LoopOK' /\ FilesOK'
    BY <1>1, <1>6 DEF LoopChange, LoopOK, LoopPCs, FilesOK
  <2> QED
    BY <1>1, <1>6, <2>1, Frame DEF LoopChange, TypeOK
<1>7. CASE LoopTick
  <2>1. LoopOK'
    BY <1>1, <1>7 DEF LoopTick, LoopOK, LoopPCs, FilesOK, Server
  <2> QED
    BY <1>1, <1>7, <2>1, Frame DEF LoopTick, TypeOK
<1> QED
  BY <1>2, <1>3, <1>4, <1>5, <1>6, <1>7

\* An entry written into the running xray leaves a server.
LEMMA ServerEntry ==
    ASSUME xray \in Server, NEW t \in Tags, NEW e \in Emails, NEW entry \in MaybeId,
           xray' = [xray EXCEPT !.clients[t][e] = entry]
    PROVE  xray' \in Server
  BY DEF Server, Clients

\* The passes of apply keep the types.
LEMMA ApplyTypes ==
    ASSUME TypeOK, ApplyStep
    PROVE  TypeOK'
<1>1. StoreOK /\ FilesOK /\ QueueOK /\ LoopOK /\ HandlersOK /\ SpentOK
  BY DEF TypeOK
<1>2. CASE ApplySnapshot
  <2>1. LoopOK'
    BY <1>1, <1>2 DEF ApplySnapshot, AfterPass, Queued, LoopOK, LoopPCs, QueueOK
  <2> QED
    BY <1>1, <1>2, <2>1, Frame DEF ApplySnapshot, TypeOK
<1>3. CASE RenderRead
  <2>1. RenderClients(file, snap) \in Document
    BY <1>1, RenderType DEF FilesOK, LoopOK
  <2>2. LoopOK'
    BY <1>1, <1>3, <2>1 DEF RenderRead, LoopOK, LoopPCs
  <2> QED
    BY <1>1, <1>3, <2>2, Frame DEF RenderRead, TypeOK
<1>4. CASE RenderWrite
  <2>1. LoopOK' /\ FilesOK'
    BY <1>1, <1>4 DEF RenderWrite, LoopOK, LoopPCs, FilesOK
  <2> QED
    BY <1>1, <1>4, <2>1, Frame DEF RenderWrite, TypeOK
<1>5. ASSUME NEW e \in Emails, PassPick(e) PROVE TypeOK'
  <2>1. LoopOK'
    BY <1>1, <1>5 DEF PassPick, Touched, LoopOK, LoopPCs
  <2> QED
    BY <1>1, <1>5, <2>1, Frame DEF PassPick, TypeOK
<1>6. ASSUME NEW t \in Tags, NextOp(t)
      PROVE  /\ cur \in Emails /\ xray \in Server /\ xray.clients[t][cur] \in MaybeId
             /\ snap[cur].ops[t] \in OpKinds /\ snap[cur].id \in MaybeId
  BY <1>1, <1>6 DEF NextOp, LoopOK, FilesOK, Server, Clients, Change, Ops
<1>7. ASSUME NEW t \in Tags, Push(t) PROVE TypeOK'
  <2> DEFINE entry == PushEntry(xray.clients[t][cur], snap[cur].ops[t], snap[cur].id)
  <2>1. NextOp(t)
    BY <1>7 DEF Push
  <2>2. entry \in MaybeId
    BY <1>6, <2>1, EntryTypes
  <2>3. xray' \in Server
    <3>1. CASE UNCHANGED xray
      BY <1>6, <2>1, <3>1
    <3>2. CASE xray' = [xray EXCEPT !.clients[t][cur] = entry]
      BY <1>6, <2>1, <2>2, <3>2, ServerEntry
    <3> QED
      BY <1>7, <3>1, <3>2 DEF Push
  <2>4. FilesOK'
    BY <1>1, <1>7, <2>3 DEF Push, FilesOK
  <2>5. LoopOK'
    BY <1>1, <1>7 DEF Push, LoopOK
  <2> QED
    BY <1>1, <1>7, <2>4, <2>5, Frame DEF Push, TypeOK
<1>8. ASSUME NEW t \in Tags, PushFails(t) PROVE TypeOK'
  <2>1. NextOp(t)
    BY <1>8 DEF PushFails
  <2>2. xray' \in Server
    <3>1. CASE UNCHANGED xray
      BY <1>6, <2>1, <3>1
    <3>2. ASSUME NEW entry \in FailedPushOutcomes(xray.clients[t][cur], snap[cur].ops[t], snap[cur].id),
                 xray' = [xray EXCEPT !.clients[t][cur] = entry]
          PROVE  xray' \in Server
      <4>1. entry \in MaybeId
        BY <1>6, <2>1, EntryTypes
      <4> QED
        BY <1>6, <2>1, <3>2, <4>1, ServerEntry
    <3> QED
      BY <1>8, <3>1, <3>2 DEF PushFails
  <2>3. FilesOK'
    BY <1>1, <1>8, <2>2 DEF PushFails, FilesOK
  <2>4. LoopOK' /\ QueueOK'
    BY <1>1, <1>6, <1>8, <2>1 DEF PushFails, LoopOK, LoopPCs, QueueOK
  <2>5. SpentOK'
    BY <1>1, <1>8, SpendType, Frame DEF PushFails, Bounds
  <2> QED
    BY <1>1, <1>8, <2>3, <2>4, <2>5, Frame DEF PushFails, TypeOK
<1>9. CASE Settle
  <2>1. cur \in Emails
    BY <1>1, <1>9 DEF Settle, Settling, LoopOK
  <2>2. StoreOK'
    <3>1. PurgeRosterUser(roster, cur) \in [Emails -> Row]
      BY <1>1, <2>1, NothingTypes DEF PurgeRosterUser, StoreOK
    <3>2. UserPurged(users, roster, cur) \in [Emails -> UserMarks]
      BY <1>1, <2>1, UserTypes DEF StoreOK
    <3> QED
      BY <1>1, <1>9, <3>1, <3>2 DEF Settle, StoreOK
  <2>3. QueueOK'
    BY <1>1, <1>9, <2>1, NothingTypes DEF Settle, AfterSettle, QueueOK
  <2>4. LoopOK'
    BY <1>1, <1>9 DEF Settle, AfterSettle, LoopOK, LoopPCs
  <2> QED
    BY <1>1, <1>9, <2>2, <2>3, <2>4, Frame DEF Settle, AfterSettle, TypeOK
<1>10. CASE PassDone
  <2>1. LoopOK'
    BY <1>1, <1>10, NothingTypes DEF PassDone, AfterPass, LoopOK, LoopPCs
  <2> QED
    BY <1>1, <1>10, <2>1, Frame DEF PassDone, TypeOK
<1> QED
  BY <1>2, <1>3, <1>4, <1>5, <1>7, <1>8, <1>9, <1>10 DEF ApplyStep

\* The passes of converge keep the types.
LEMMA ConvergeTypes ==
    ASSUME TypeOK, ConvergeStep
    PROVE  TypeOK'
<1>1. StoreOK /\ FilesOK /\ QueueOK /\ LoopOK /\ HandlersOK /\ SpentOK
  BY DEF TypeOK
<1>2. ASSUME NEW e \in Emails, NEW row \in Row,
             WithRecord(e, row) \/ SkipRecord(e),
             UNCHANGED <<lastRunning, thenConverge, passVars, cdoc>>
      PROVE  LoopOK'
  BY <1>1, <1>2, NothingTypes DEF WithRecord, SkipRecord, LoopOK, LoopPCs
<1>3. CASE ConvergeRead
  <2>1. [inbounds |-> {}, clients |-> parse.clients] \in Document
    BY <1>1 DEF FilesOK, Parse, Document
  <2>2. cdoc' \in Document
    BY <1>1, <1>3, <2>1 DEF ConvergeRead, LoopOK
  <2>3. LoopOK'
    BY <1>1, <1>3, <2>2 DEF ConvergeRead, LoopOK, LoopPCs
  <2> QED
    BY <1>1, <1>3, <2>3, Frame DEF ConvergeRead, TypeOK
<1>v. CASE ConvergeView
  <2>1. [cdoc EXCEPT !.inbounds = parse.inbounds] \in Document
    BY <1>1 DEF LoopOK, FilesOK, Parse, Document
  <2>2. LoopOK'
    BY <1>1, <1>v, <2>1 DEF ConvergeView, LoopOK, LoopPCs
  <2> QED
    BY <1>1, <1>v, <2>2, Frame DEF ConvergeView, TypeOK
<1>4. CASE ConvergeList
  <2>1. LoopOK'
    BY <1>1, <1>4, NothingTypes DEF ConvergeList, LoopOK, LoopPCs, StoreOK
  <2> QED
    BY <1>1, <1>4, <2>1, Frame DEF ConvergeList, TypeOK
<1>5. ASSUME NEW e \in Emails, ConvergeNext(e) PROVE TypeOK'
  <2>1. recs[e] \in Row
    BY <1>1 DEF LoopOK
  <2>2. LoopOK'
    <3>1. CASE WithRecord(e, recs[e]) \/ SkipRecord(e)
      BY <1>2, <1>5, <2>1, <3>1 DEF ConvergeNext
    <3>2. CASE lpc' = "prune" /\ cur' = e /\ UNCHANGED recs
      BY <1>1, <1>5, <3>2 DEF ConvergeNext, LoopOK, LoopPCs
    <3> QED
      BY <1>5, <3>1, <3>2 DEF ConvergeNext
  <2> QED
    BY <1>1, <1>5, <2>2, Frame DEF ConvergeNext, TypeOK
<1>6. CASE ConvergePrune
  <2> DEFINE kept == recs[cur].inbounds \cap cdoc.inbounds
             row == [roster[cur] EXCEPT !.inbounds = kept]
  <2>1. cur \in Emails
    BY <1>1, <1>6 DEF ConvergePrune, LoopOK
  <2>2. row \in Row
    BY <1>1, <2>1 DEF LoopOK, StoreOK, Row
  <2>3. LoopOK'
    <3>1. CASE WithRecord(cur, row) \/ SkipRecord(cur)
      BY <1>2, <1>6, <2>1, <2>2, <3>1 DEF ConvergePrune
    <3>2. CASE lpc' = "pruneWrite" /\ recs' = [recs EXCEPT ![cur] = row] /\ UNCHANGED cur
      BY <1>1, <1>6, <2>1, <2>2, <3>2 DEF ConvergePrune, LoopOK, LoopPCs
    <3> QED
      BY <1>6, <3>1, <3>2 DEF ConvergePrune
  <2> QED
    BY <1>1, <1>6, <2>3, Frame DEF ConvergePrune, TypeOK
<1>7. CASE ConvergePruneWrite
  <2>1. cur \in Emails /\ recs[cur] \in Row
    BY <1>1, <1>7 DEF ConvergePruneWrite, LoopOK
  <2>2. recs[cur].id \in MaybeId /\ recs[cur].inbounds \in SUBSET Tags
    BY <2>1 DEF Row
  <2>3. StoreOK'
    BY <1>1, <1>7, <2>1, <2>2, StoreTypes, UserTypes DEF ConvergePruneWrite, StoreOK
  <2>4. LoopOK'
    BY <1>2, <1>7, <2>1 DEF ConvergePruneWrite
  <2> QED
    BY <1>1, <1>7, <2>3, <2>4, Frame DEF ConvergePruneWrite, TypeOK
<1>8. CASE ConvergeCheck
  <2>1. cur \in Emails
    BY <1>1, <1>8 DEF ConvergeCheck, LoopOK
  <2>2. LoopOK'
    <3>1. CASE SkipRecord(cur)
      BY <1>2, <1>8, <2>1, <3>1, NothingTypes DEF ConvergeCheck
    <3>2. CASE lpc' = "enqueue" /\ UNCHANGED <<cur, recs>>
      BY <1>1, <1>8, <2>1, <3>2 DEF ConvergeCheck, LoopOK, LoopPCs
    <3> QED
      BY <1>8, <3>1, <3>2 DEF ConvergeCheck
  <2> QED
    BY <1>1, <1>8, <2>2, Frame DEF ConvergeCheck, TypeOK
<1>9. CASE ConvergeEnqueue
  <2>1. cur \in Emails /\ recs[cur] \in Row
    BY <1>1, <1>9 DEF ConvergeEnqueue, LoopOK
  <2>2. recs[cur].id \in MaybeId /\ AttachOps(Lost(cur, recs[cur])) \in Ops
    BY <2>1 DEF Row, AttachOps, Ops, OpKinds
  <2>3. QueueOK'
    BY <1>1, <1>9, <2>1, <2>2 DEF ConvergeEnqueue, EnqueueGen, QueueOK, Change
  <2>4. LoopOK'
    BY <1>2, <1>9, <2>1 DEF ConvergeEnqueue
  <2> QED
    BY <1>1, <1>9, <2>3, <2>4, Frame DEF ConvergeEnqueue, TypeOK
<1>10. CASE Converged
  <2>1. LoopOK'
    BY <1>1, <1>10, NothingTypes DEF Converged, LoopOK, LoopPCs
  <2> QED
    BY <1>1, <1>10, <2>1, Frame DEF Converged, TypeOK
<1> QED
  BY <1>3, <1>v, <1>4, <1>5, <1>6, <1>7, <1>8, <1>9, <1>10 DEF ConvergeStep

\* The watcher, the collector and the environment keep the types.
LEMMA EnvironmentTypes ==
    ASSUME TypeOK, Reload \/ CollectorStep \/ XrayStart \/ Faults
    PROVE  TypeOK'
<1>1. StoreOK /\ FilesOK /\ QueueOK /\ LoopOK /\ HandlersOK /\ SpentOK
  BY DEF TypeOK
<1>2. ParseOf(file) \in Parse /\ ServerOf(file) \in Server
  BY <1>1 DEF FilesOK, Document, ParseOf, Parse, ServerOf, Server
<1>3. CASE Reload
  <2>1. FilesOK'
    BY <1>1, <1>2, <1>3 DEF Reload, FilesOK
  <2> QED
    BY <1>1, <1>3, <2>1, Frame DEF Reload, TypeOK
<1>4. CASE Sample
  <2>1. [has |-> TRUE, clients |-> parse.clients] \in Sampled
    BY <1>1 DEF FilesOK, Parse, Sampled
  <2>2. FilesOK'
    BY <1>1, <1>4, <2>1 DEF Sample, FilesOK
  <2> QED
    BY <1>1, <1>4, <2>2, Frame DEF Sample, TypeOK
<1>5. CASE Flush
  <2>1. sampled.clients \in Clients
    BY <1>1 DEF FilesOK, Sampled
  <2>2. StoreOK'
    BY <1>1, <1>5, <2>1, AdoptionTypes DEF Flush, StoreOK
  <2>3. FilesOK'
    BY <1>1, <1>5, NothingTypes DEF Flush, FilesOK
  <2> QED
    BY <1>1, <1>5, <2>2, <2>3, Frame DEF Flush, TypeOK
<1>6. CASE XrayStart
  <2>1. FilesOK'
    BY <1>1, <1>2, <1>6 DEF XrayStart, FilesOK
  <2> QED
    BY <1>1, <1>6, <2>1, Frame DEF XrayStart, TypeOK
<1>7. ASSUME NEW h \in Handlers, StoreFails(h) PROVE TypeOK'
  <2>1. HandlersOK' /\ SpentOK'
    BY <1>1, <1>7, HandlerMoves, SpendType DEF StoreFails, HandlerPCs, Bounds
  <2> QED
    BY <1>1, <1>7, <2>1, Frame DEF StoreFails, TypeOK
<1>8. CASE LoopStoreFails
  <2>1. SpentOK'
    BY <1>1, <1>8, SpendType DEF LoopStoreFails, Bounds
  <2>2. LoopOK'
    BY <1>1, <1>8, NothingTypes DEF LoopStoreFails, SkipRecord, LoopOK, LoopPCs, FilesOK, Server
  <2> QED
    BY <1>1, <1>8, <2>1, <2>2, Frame DEF LoopStoreFails, TypeOK
<1>9. CASE RenderFails
  <2>1. SpentOK'
    BY <1>1, <1>9, SpendType DEF RenderFails, Bounds
  <2>2. LoopOK' /\ QueueOK'
    BY <1>1, <1>9 DEF RenderFails, LoopOK, LoopPCs, QueueOK
  <2> QED
    BY <1>1, <1>9, <2>1, <2>2, Frame DEF RenderFails, TypeOK
<1>10. CASE PurgeFails
  <2>1. cur \in Emails /\ snap[cur] \in Change
    BY <1>1, <1>10 DEF PurgeFails, Settling, LoopOK
  <2>2. [snap[cur] EXCEPT !.ops = NoOps] \in Change
    BY <2>1, NothingTypes DEF Change, NoChange
  <2>3. SpentOK'
    BY <1>1, <1>10, SpendType DEF PurgeFails, Bounds
  <2>4. QueueOK' /\ LoopOK'
    BY <1>1, <1>10, <2>1, <2>2 DEF PurgeFails, AfterSettle, QueueOK, LoopOK, LoopPCs
  <2> QED
    BY <1>1, <1>10, <2>3, <2>4, Frame DEF PurgeFails, AfterSettle, TypeOK
<1>11. CASE HandEdit
  <2>1. file' \in Document
    <3>1. ASSUME NEW t \in file.inbounds, NEW e \in Emails, NEW id \in MaybeId,
                 file' = [file EXCEPT !.clients[t][e] = id]
          PROVE  file' \in Document
      BY <1>1, <3>1 DEF FilesOK, Document, Clients
    <3>2. ASSUME NEW t \in Tags, file' = [file EXCEPT !.inbounds = @ \cup {t}]
          PROVE  file' \in Document
      BY <1>1, <3>2 DEF FilesOK, Document
    <3>3. ASSUME NEW t \in file.inbounds,
                 file' = [inbounds |-> file.inbounds \ {t},
                          clients |-> [file.clients EXCEPT ![t] = [e \in Emails |-> None]]]
          PROVE  file' \in Document
      BY <1>1, <3>3 DEF FilesOK, Document, Clients, MaybeId
    <3> QED
      BY <1>11, <3>1, <3>2, <3>3 DEF HandEdit
  <2>2. FilesOK'
    BY <1>1, <1>11, <2>1 DEF HandEdit, FilesOK
  <2>3. SpentOK'
    BY <1>1, <1>11, SpendType DEF HandEdit, Bounds
  <2> QED
    BY <1>1, <1>11, <2>2, <2>3, Frame DEF HandEdit, TypeOK
<1>12. CASE XrayStop
  <2>1. FilesOK'
    BY <1>1, <1>12 DEF XrayStop, FilesOK, Server
  <2>2. SpentOK'
    BY <1>1, <1>12, SpendType DEF XrayStop, Bounds
  <2> QED
    BY <1>1, <1>12, <2>1, <2>2, Frame DEF XrayStop, TypeOK
<1>13. CASE Crash
  <2>1. FilesOK' /\ QueueOK'
    BY <1>1, <1>2, <1>13, NothingTypes DEF Crash, FilesOK, QueueOK
  <2>2. LoopOK'
    BY <1>13, NothingTypes DEF Crash, LoopOK, LoopPCs
  <2>3. HandlersOK'
    BY <1>13, NothingTypes DEF Crash, HandlersOK, HandlerPCs
  <2>4. SpentOK'
    BY <1>1, <1>13, SpendType DEF Crash, Bounds
  <2> QED
    BY <1>1, <1>13, <2>1, <2>2, <2>3, <2>4, Frame DEF Crash, TypeOK
<1> QED
  BY <1>3, <1>4, <1>5, <1>6, <1>7, <1>8, <1>9, <1>10, <1>11, <1>12, <1>13
     DEF CollectorStep, Faults

\* Type correctness: every table, document, queue entry and control state of
\* the write path (service.go, store.go) keeps its type, and a goroutine that
\* works on one user has one.
THEOREM TypeCorrect == Spec => []TypeOK
<1>1. TypeOK /\ [Next]_vars => TypeOK'
  <2> SUFFICES ASSUME TypeOK, [Next]_vars PROVE TypeOK'
    OBVIOUS
  <2>1. CASE UNCHANGED vars
    BY <2>1, Frame DEF vars, TypeOK
  <2>2. CASE Next
    BY <2>2, ArriveTypes, HandlerTypes, LoopTypes, ApplyTypes, ConvergeTypes, EnvironmentTypes
       DEF Next, LoopStep
  <2> QED
    BY <2>1, <2>2
<1> QED
  BY <1>1, InitTypes, PTL DEF Spec

-----------------------------------------------------------------------------
(* Wake-ups.                                                               *)

\* A handler that is not about to kick moves on, the queue is left alone or
\* one change is taken from it: whatever woke the loop still does.
LEMMA HandlerKeepsWakeup ==
    ASSUME WakeupOwed, TypeOK, NEW h \in Handlers, NEW pc,
           hpc[h] # "kick", hpc' = [hpc EXCEPT ![h] = pc],
           UNCHANGED <<failed, kick, loopVars>>,
           \A e \in Emails : pending'[e] = pending[e] \/ ~pending'[e].queued
    PROVE  WakeupOwed'
<1> SUFFICES ASSUME NEW e \in Emails, pending'[e].queued, e \notin failed'
             PROVE  Reached(e)'
  BY DEF WakeupOwed
<1>1. pending'[e] = pending[e] /\ Reached(e)
  BY DEF WakeupOwed
<1>2. ASSUME NEW g \in Handlers, hpc[g] = "kick" PROVE hpc'[g] = "kick"
  BY <1>2 DEF TypeOK, HandlersOK
<1> QED
  BY <1>1, <1>2 DEF Reached

\* Outside a pass, only a kick, buffered or on its way, stands for a change.
LEMMA LoopKeepsWakeup ==
    ASSUME WakeupOwed, UNCHANGED <<pending, failed, hpc>>, kick => kick',
           lpc \notin {"apply", "render", "write", "pick", "push"}
    PROVE  WakeupOwed'
  BY DEF WakeupOwed, Reached

\* Steps that touch neither the queue, nor the loop, nor a handler.
LEMMA OthersKeepWakeup ==
    ASSUME WakeupOwed, UNCHANGED <<pending, failed, hpc, kick, lpc, todo, cur, snap>>
    PROVE  WakeupOwed'
  BY DEF WakeupOwed, Reached

\* The handlers: a change is queued before its kick, and the kick is buffered.
LEMMA HandlersWakeup ==
    ASSUME WakeupOwed, TypeOK, NEW h \in Handlers,
           Arrive(h) \/ HandlerStep(h) \/ StoreFails(h)
    PROVE  WakeupOwed'
<1>1. CASE Arrive(h)
  <2>1. PICK kind, r, pc : Begin(h, kind, r, pc)
    BY <1>1 DEF Arrive, Add, Edit, Rotate, Disable, Delete, Enable
  <2> QED
    BY <2>1, HandlerKeepsWakeup DEF Begin, Goto
<1>2. CASE EditCheck(h) \/ EditWrite(h) \/ DisableStore(h) \/ DeleteRead(h) \/ DeleteMark(h)
           \/ EnableStore(h) \/ StoreFails(h)
  <2>1. hpc[h] # "kick" /\ \E pc : hpc' = [hpc EXCEPT ![h] = pc]
    BY <1>2 DEF EditCheck, EditWrite, DisableStore, DeleteRead, DeleteMark, EnableStore,
                StoreFails, Goto, Answer
  <2>2. UNCHANGED <<pending, failed, kick, loopVars>>
    BY <1>2 DEF EditCheck, EditWrite, DisableStore, DeleteRead, DeleteMark, EnableStore, StoreFails
  <2> QED
    BY <2>1, <2>2, HandlerKeepsWakeup
<1>3. CASE EditTake(h) \/ DisableTake(h) \/ DeleteTake(h)
  <2>1. hpc[h] # "kick" /\ \E pc : hpc' = [hpc EXCEPT ![h] = pc]
    BY <1>3 DEF EditTake, DisableTake, DeleteTake, Goto, Answer
  <2>2. UNCHANGED <<failed, kick, loopVars>> /\ TakePending(req[h].email)
    BY <1>3 DEF EditTake, DisableTake, DeleteTake, TakePending
  <2>3. \A e \in Emails : pending'[e] = pending[e] \/ ~pending'[e].queued
    BY <2>2 DEF TakePending, TypeOK, QueueOK, NoChange
  <2> QED
    BY <2>1, <2>2, <2>3, HandlerKeepsWakeup
<1>4. CASE Enqueue(h)
  <2>1. hpc'[h] = "kick"
    BY <1>4 DEF Enqueue, Goto, TypeOK, HandlersOK
  <2> QED
    BY <2>1 DEF WakeupOwed, Reached
<1>5. CASE Kick(h)
  BY <1>5 DEF Kick, WakeupOwed, Reached
<1> QED
  BY <1>1, <1>2, <1>3, <1>4, <1>5 DEF HandlerStep

\* The loop outside a pass: what it queues itself it kicks, and it gives a
\* kick up only for a snapshot of the queue.
LEMMA LoopWakeup ==
    ASSUME WakeupOwed, TypeOK,
           \/ Boot \/ (\E e \in Emails : RecoverDelete(e)) \/ Recovered
           \/ LoopKick \/ LoopChange \/ LoopTick \/ ConvergeStep \/ LoopStoreFails
    PROVE  WakeupOwed'
<1>1. CASE Boot \/ Recovered \/ LoopChange \/ LoopTick \/ LoopStoreFails
  BY <1>1, LoopKeepsWakeup
     DEF Boot, Recovered, LoopChange, LoopTick, LoopStoreFails
<1>2. CASE (\E e \in Emails : RecoverDelete(e)) \/ ConvergeEnqueue
  BY <1>2 DEF RecoverDelete, ConvergeEnqueue, WakeupOwed, Reached
<1>3. CASE LoopKick
  BY <1>3 DEF LoopKick, WakeupOwed, Reached
<1>4. CASE \/ ConvergeRead \/ ConvergeView \/ ConvergeList \/ (\E e \in Emails : ConvergeNext(e))
           \/ ConvergePrune \/ ConvergePruneWrite \/ ConvergeCheck \/ Converged
  BY <1>4, LoopKeepsWakeup
     DEF ConvergeRead, ConvergeView, ConvergeList, ConvergeNext, ConvergePrune, ConvergePruneWrite,
         ConvergeCheck, Converged
<1> QED
  BY <1>1, <1>2, <1>3, <1>4 DEF ConvergeStep

\* The passes: the snapshot holds the whole queue; a change leaves the pass
\* settled, marked failed, or because the queue holds a newer one.
LEMMA PassWakeup ==
    ASSUME WakeupOwed, TypeOK, ApplyStep \/ RenderFails \/ PurgeFails
    PROVE  WakeupOwed'
<1>1. QueueOK /\ LoopOK
  BY DEF TypeOK
<1> SUFFICES ASSUME NEW e \in Emails, pending'[e].queued, e \notin failed'
             PROVE  Reached(e)'
  BY DEF WakeupOwed
<1>2. CASE ApplySnapshot
  BY <1>2 DEF ApplySnapshot, Queued, Reached
<1>3. CASE RenderRead \/ RenderWrite
  <2>1. Reached(e)
    BY <1>3 DEF WakeupOwed, RenderRead, RenderWrite
  <2> QED
    BY <1>3, <2>1 DEF RenderRead, RenderWrite, Reached
<1>4. CASE RenderFails
  <2>1. Reached(e) /\ pending'[e] = pending[e]
    BY <1>4 DEF WakeupOwed, RenderFails
  <2>2. ~(e \in todo /\ snap[e].gen = pending[e].gen)
    BY <1>4, <2>1 DEF RenderFails, Superseded
  <2> QED
    BY <1>4, <2>1, <2>2 DEF RenderFails, Reached
<1>5. ASSUME NEW f \in Emails, PassPick(f) PROVE Reached(e)'
  <2>1. Reached(e) /\ pending'[e] = pending[e]
    BY <1>5 DEF WakeupOwed, PassPick
  <2>2. CASE Superseded(f)
    BY <1>5, <2>1, <2>2 DEF PassPick, Superseded, Reached
  <2>3. CASE ~Superseded(f)
    BY <1>5, <2>1, <2>3 DEF PassPick, Reached
  <2> QED
    BY <2>2, <2>3
<1>6. CASE PassDone
  BY <1>6 DEF PassDone, WakeupOwed, Reached
<1>7. ASSUME NEW t \in Tags, Push(t) PROVE Reached(e)'
  BY <1>7 DEF Push, WakeupOwed, Reached
<1>8. ASSUME NEW t \in Tags, PushFails(t) PROVE Reached(e)'
  <2>1. Reached(e) /\ pending'[e] = pending[e]
    BY <1>8 DEF WakeupOwed, PushFails
  <2>2. ~(cur = e /\ snap[e].gen = pending[e].gen)
    BY <1>8, <2>1 DEF PushFails, Superseded
  <2> QED
    BY <1>8, <2>1, <2>2 DEF PushFails, NextOp, Reached
<1>9. CASE Settle
  <2>1. e # cur \/ Superseded(cur)
    BY <1>1, <1>9 DEF Settle, QueueOK, NoChange
  <2>2. Reached(e) /\ pending'[e] = pending[e]
    BY <1>1, <1>9, <2>1 DEF WakeupOwed, Settle, QueueOK
  <2>3. ~(cur = e /\ snap[e].gen = pending[e].gen)
    BY <2>1, <2>2 DEF Superseded
  <2> QED
    BY <1>9, <2>2, <2>3 DEF Settle, Settling, AfterSettle, Reached
<1>10. CASE PurgeFails
  <2>1. Reached(e) /\ pending'[e] = pending[e] /\ e # cur
    BY <1>1, <1>10 DEF WakeupOwed, PurgeFails, QueueOK
  <2> QED
    BY <1>10, <2>1 DEF PurgeFails, Settling, AfterSettle, Reached
<1> QED
  BY <1>2, <1>3, <1>4, <1>5, <1>6, <1>7, <1>8, <1>9, <1>10 DEF ApplyStep

\* No wake-up is lost, however handlers, passes and faults interleave: the
\* one-slot kick channel of enqueueGen, written after the queue, never leaves
\* a change that nobody is going to look at.
THEOREM NoWakeupLost == Spec => []WakeupOwed
<1>1. Init => WakeupOwed
  BY DEF Init, WakeupOwed, NoChanges, NoChange
<1>2. TypeOK /\ WakeupOwed /\ [Next]_vars => WakeupOwed'
  <2> SUFFICES ASSUME TypeOK, WakeupOwed, [Next]_vars PROVE WakeupOwed'
    OBVIOUS
  <2>1. CASE UNCHANGED vars
    BY <2>1, OthersKeepWakeup DEF vars
  <2>2. CASE Reload \/ CollectorStep \/ XrayStart \/ HandEdit \/ XrayStop
    BY <2>2, OthersKeepWakeup
    DEF Reload, CollectorStep, Sample, Flush, XrayStart, HandEdit, XrayStop
  <2>3. CASE Crash
    BY <2>3 DEF Crash, WakeupOwed, NoChanges, NoChange
  <2> QED
    BY <2>1, <2>2, <2>3, HandlersWakeup, LoopWakeup, PassWakeup DEF Next, LoopStep, Faults
<1> QED
  BY <1>1, <1>2, TypeCorrect, PTL DEF Spec
-----------------------------------------------------------------------------
(* Generations.                                                            *)

\* No change carries a generation that was not given out yet: the
\* strengthening that makes GenerationNamesChange inductive.
GenBound ==
    \A e \in Emails : pending[e].gen <= nextGen /\ snap[e].gen <= nextGen

GenInv == GenBound /\ GenerationNamesChange

\* Taking changes from the queue, or leaving it alone.
LEMMA TakeKeepsGenerations ==
    ASSUME TypeOK, GenInv, UNCHANGED <<nextGen, snap>>,
           \A e \in Emails : pending'[e] \in {pending[e], NoChange}
    PROVE  GenInv'
<1>1. GenBound'
  BY DEF GenInv, GenBound, TypeOK, QueueOK, NoChange
<1>2. GenerationNamesChange'
  BY DEF GenInv, GenerationNamesChange, NoChange
<1> QED
  BY <1>1, <1>2 DEF GenInv

\* A fresh generation differs from every one a snapshot holds.
LEMMA EnqueueKeepsGenerations ==
    ASSUME TypeOK, GenInv, UNCHANGED snap,
           NEW f \in Emails, NEW id, NEW ops, NEW purge, EnqueueGen(f, id, ops, purge)
    PROVE  GenInv'
<1>1. /\ nextGen \in Nat /\ nextGen' = nextGen + 1
      /\ pending'[f].gen = nextGen + 1
      /\ \A e \in Emails : pending[e].gen \in Nat /\ snap[e].gen \in Nat
      /\ \A e \in Emails : e # f => pending'[e] = pending[e]
  BY DEF EnqueueGen, TypeOK, QueueOK, LoopOK, Change
<1>2. GenBound'
  BY <1>1 DEF GenInv, GenBound
<1>3. GenerationNamesChange'
  <2> SUFFICES ASSUME NEW e \in Emails, pending'[e].queued, snap'[e].queued,
                      snap'[e].gen = pending'[e].gen
               PROVE  /\ pending'[e].id = snap'[e].id
                      /\ pending'[e].purge = snap'[e].purge
                      /\ pending'[e].ops \in {snap'[e].ops, NoOps}
    BY DEF GenerationNamesChange
  <2>1. e # f
    BY <1>1 DEF GenInv, GenBound
  <2> QED
    BY <1>1, <2>1 DEF GenInv, GenerationNamesChange
<1> QED
  BY <1>2, <1>3 DEF GenInv

\* The steps of the loop that take a snapshot, drop one, or put a change back.
LEMMA SnapshotKeepsGenerations ==
    ASSUME TypeOK, GenInv, ApplySnapshot \/ PassDone \/ PurgeFails \/ Crash
    PROVE  GenInv'
<1>1. QueueOK /\ LoopOK
  BY DEF TypeOK
<1>2. CASE ApplySnapshot
  BY <1>2 DEF ApplySnapshot, GenInv, GenBound, GenerationNamesChange
<1>3. CASE PassDone
  BY <1>1, <1>3 DEF PassDone, GenInv, GenBound, GenerationNamesChange, NoChanges, NoChange, QueueOK
<1>4. CASE PurgeFails
  <2>1. cur \in Emails /\ snap[cur] \in Change
    BY <1>1, <1>4 DEF PurgeFails, Settling, LoopOK
  <2>2. /\ pending'[cur].id = snap[cur].id /\ pending'[cur].purge = snap[cur].purge
        /\ pending'[cur].ops = NoOps /\ pending'[cur].gen = snap[cur].gen
        /\ \A e \in Emails : e # cur => pending'[e] = pending[e]
    BY <1>1, <1>4, <2>1 DEF PurgeFails, QueueOK, Change
  <2>3. UNCHANGED <<nextGen, snap>>
    BY <1>4 DEF PurgeFails, AfterSettle
  <2> QED
    BY <2>1, <2>2, <2>3 DEF GenInv, GenBound, GenerationNamesChange
<1>5. CASE Crash
  BY <1>5 DEF Crash, GenInv, GenBound, GenerationNamesChange, NoChanges, NoChange
<1> QED
  BY <1>2, <1>3, <1>4, <1>5

\* A generation names one change, however mutations, convergences and faults
\* interleave: settling by generation (supersededLocked) never settles the
\* change of another mutation.
THEOREM GenerationsNameChanges == Spec => []GenerationNamesChange
<1>1. Init => GenInv
  BY DEF Init, GenInv, GenBound, GenerationNamesChange, NoChanges, NoChange
<1>2. TypeOK /\ GenInv /\ [Next]_vars => GenInv'
  <2> SUFFICES ASSUME TypeOK, GenInv, [Next]_vars PROVE GenInv'
    OBVIOUS
  <2>1. QueueOK /\ LoopOK /\ HandlersOK
    BY DEF TypeOK
  <2>2. CASE UNCHANGED <<pending, nextGen, snap>>
    BY <2>2, TakeKeepsGenerations
  <2>3. ASSUME NEW h \in Handlers, Arrive(h) PROVE UNCHANGED <<pending, nextGen, snap>>
    BY <2>3, ZenonT(60) DEF Arrive, Add, Edit, Rotate, Disable, Delete, Enable, Begin
  <2>4. ASSUME NEW h \in Handlers, HandlerStep(h) PROVE GenInv'
    <3>1. CASE EditTake(h) \/ DisableTake(h) \/ DeleteTake(h)
      <4>1. TakePending(req[h].email) /\ UNCHANGED <<nextGen, snap>>
        BY <3>1 DEF EditTake, DisableTake, DeleteTake, TakePending
      <4>2. \A e \in Emails : pending'[e] \in {pending[e], NoChange}
        BY <2>1, <4>1 DEF TakePending, QueueOK
      <4> QED
        BY <4>1, <4>2, TakeKeepsGenerations
    <3>2. CASE Enqueue(h)
      <4>1. req[h].email \in Emails
        BY <2>1, <3>2 DEF Enqueue, HandlersOK
      <4> QED
        BY <3>2, <4>1, EnqueueKeepsGenerations DEF Enqueue
    <3>3. CASE \/ EditCheck(h) \/ EditWrite(h) \/ DisableStore(h) \/ DeleteRead(h)
               \/ DeleteMark(h) \/ EnableStore(h) \/ Kick(h)
      BY <2>2, <3>3 DEF EditCheck, EditWrite, DisableStore, DeleteRead, DeleteMark,
                        EnableStore, Kick
    <3> QED
      BY <2>4, <3>1, <3>2, <3>3 DEF HandlerStep
  <2>5. ASSUME NEW e \in Emails, RecoverDelete(e) PROVE GenInv'
    BY <2>5, EnqueueKeepsGenerations DEF RecoverDelete
  <2>6. CASE ConvergeEnqueue
    <3>1. cur \in Emails
      BY <2>1, <2>6 DEF ConvergeEnqueue, LoopOK
    <3> QED
      BY <2>6, <3>1, EnqueueKeepsGenerations DEF ConvergeEnqueue
  <2>7. CASE Settle
    <3>1. cur \in Emails
      BY <2>1, <2>7 DEF Settle, Settling, LoopOK
    <3>2. \A e \in Emails : pending'[e] \in {pending[e], NoChange}
      BY <2>1, <2>7, <3>1 DEF Settle, QueueOK
    <3>3. UNCHANGED <<nextGen, snap>>
      BY <2>7 DEF Settle, AfterSettle
    <3> QED
      BY <3>2, <3>3, TakeKeepsGenerations
  <2>8. CASE Boot \/ Recovered \/ LoopKick \/ LoopChange \/ LoopTick
    BY <2>2, <2>8 DEF Boot, Recovered, LoopKick, LoopChange, LoopTick
  <2>9. CASE ApplyStep
    <3>1. CASE \/ RenderRead \/ RenderWrite \/ (\E e \in Emails : PassPick(e))
               \/ (\E t \in Tags : Push(t) \/ PushFails(t))
      BY <2>2, <3>1 DEF RenderRead, RenderWrite, PassPick, Push, PushFails
    <3> QED
      BY <2>7, <2>9, <3>1, SnapshotKeepsGenerations DEF ApplyStep
  <2>10. CASE ConvergeStep
    <3>1. CASE \/ ConvergeRead \/ ConvergeView \/ ConvergeList \/ (\E e \in Emails : ConvergeNext(e))
               \/ ConvergePrune \/ ConvergePruneWrite \/ ConvergeCheck \/ Converged
      BY <2>2, <3>1 DEF ConvergeRead, ConvergeView, ConvergeList, ConvergeNext, ConvergePrune,
                        ConvergePruneWrite, ConvergeCheck, Converged
    <3> QED
      BY <2>6, <2>10, <3>1 DEF ConvergeStep
  <2>11. CASE Reload \/ CollectorStep \/ XrayStart
    BY <2>2, <2>11 DEF Reload, CollectorStep, Sample, Flush, XrayStart
  <2>12. CASE Faults
    <3>1. CASE \/ (\E h \in Handlers : StoreFails(h)) \/ LoopStoreFails \/ RenderFails
               \/ HandEdit \/ XrayStop
      BY <2>2, <3>1 DEF StoreFails, LoopStoreFails, RenderFails, HandEdit, XrayStop
    <3> QED
      BY <2>12, <3>1, SnapshotKeepsGenerations DEF Faults
  <2>13. CASE UNCHANGED vars
    BY <2>2, <2>13 DEF vars
  <2> QED
    BY <2>2, <2>3, <2>4, <2>5, <2>8, <2>9, <2>10, <2>11, <2>12, <2>13 DEF Next, LoopStep
<1>3. GenInv => GenerationNamesChange
  BY DEF GenInv
<1> QED
  BY <1>1, <1>2, <1>3, TypeCorrect, PTL DEF Spec

-----------------------------------------------------------------------------
(* The delete mark.                                                        *)

\* A stored delete is final for every interleaving: each UPDATE of store.go
\* that can run on a deleting row (an edit's, an enable's, an adoption's, the
\* prune's) leaves the mark, and only the purge erases the row.
THEOREM DeletesAreFinal == Spec => DeleteIsFinal
<1> DEFINE Kept == \A e \in Emails :
                      Deleting(roster[e]) => (Deleting(roster'[e]) \/ ~roster'[e].present)
<1>1. TypeOK /\ [Next]_vars => [Kept]_vars
  <2> SUFFICES ASSUME TypeOK, Next PROVE Kept
    OBVIOUS
  <2>1. roster \in [Emails -> Row]
    BY DEF TypeOK, StoreOK
  <2>2. CASE UNCHANGED roster
    BY <2>2
  <2>3. ASSUME NEW h \in Handlers, Arrive(h) PROVE Kept
    <3>1. CASE UNCHANGED roster
      BY <3>1
    <3>2. ASSUME NEW e \in Emails, NEW id \in Ids, NEW tags \in SUBSET Tags, Add(h, e, id, tags)
          PROVE  Kept
      BY <2>1, <3>2 DEF Add, AddConflict, AddRosterUser, Deleting, Row
    <3> QED
      BY <2>3, <3>1, <3>2 DEF Arrive, Edit, Rotate, Disable, Delete, Enable
  <2>4. ASSUME NEW h \in Handlers, HandlerStep(h) PROVE Kept
    <3>1. CASE EditWrite(h)
      BY <2>1, <3>1 DEF EditWrite, EditRosterUser, Deleting, Row
    <3>2. CASE DisableStore(h)
      BY <2>1, <3>2 DEF DisableStore, DisableRosterUser, Live, Deleting, Row
    <3>3. CASE DeleteMark(h)
      BY <2>1, <3>3 DEF DeleteMark, MarkRosterDeleting, Deleting, Row
    <3>4. CASE EnableStore(h)
      BY <2>1, <3>4 DEF EnableStore, EnableRosterUser, Deleting, Row
    <3>5. CASE \/ EditCheck(h) \/ EditTake(h) \/ DisableTake(h) \/ DeleteRead(h)
               \/ DeleteTake(h) \/ Enqueue(h) \/ Kick(h)
      BY <2>2, <3>5 DEF EditCheck, EditTake, DisableTake, DeleteRead, DeleteTake, Enqueue, Kick
    <3> QED
      BY <2>4, <3>1, <3>2, <3>3, <3>4, <3>5 DEF HandlerStep
  <2>5. CASE \/ Boot \/ (\E e \in Emails : RecoverDelete(e)) \/ Recovered
             \/ LoopKick \/ LoopChange \/ LoopTick
    BY <2>2, <2>5 DEF Boot, RecoverDelete, Recovered, LoopKick, LoopChange, LoopTick
  <2>6. CASE ApplyStep
    <3>1. CASE Settle
      BY <2>1, <3>1 DEF Settle, PurgeRosterUser, Deleting, AbsentRow
    <3>2. CASE \/ ApplySnapshot \/ RenderRead \/ RenderWrite \/ PassDone
               \/ (\E e \in Emails : PassPick(e)) \/ (\E t \in Tags : Push(t) \/ PushFails(t))
      BY <2>2, <3>2 DEF ApplySnapshot, RenderRead, RenderWrite, PassDone, PassPick, Push, PushFails
    <3> QED
      BY <2>6, <3>1, <3>2 DEF ApplyStep
  <2>7. CASE ConvergeStep
    <3>1. CASE ConvergePruneWrite
      BY <2>1, <3>1 DEF ConvergePruneWrite, EditRosterUser, Deleting, Row
    <3>2. CASE \/ ConvergeRead \/ ConvergeView \/ ConvergeList \/ (\E e \in Emails : ConvergeNext(e))
               \/ ConvergePrune \/ ConvergeCheck \/ ConvergeEnqueue \/ Converged
      BY <2>2, <3>2 DEF ConvergeRead, ConvergeView, ConvergeList, ConvergeNext, ConvergePrune,
                        ConvergeCheck, ConvergeEnqueue, Converged
    <3> QED
      BY <2>7, <3>1, <3>2 DEF ConvergeStep
  <2>8. CASE Flush
    BY <2>1, <2>8 DEF Flush, AdoptClients, Deleting, Row
  <2>9. CASE Reload \/ Sample \/ XrayStart
    BY <2>2, <2>9 DEF Reload, Sample, XrayStart
  <2>10. CASE Faults
    BY <2>2, <2>10 DEF Faults, StoreFails, LoopStoreFails, RenderFails, PurgeFails, HandEdit,
                       XrayStop, Crash
  <2> QED
    BY <2>3, <2>4, <2>5, <2>6, <2>7, <2>8, <2>9, <2>10 DEF Next, LoopStep, CollectorStep
<1> QED
  BY <1>1, TypeCorrect, PTL DEF Spec, DeleteIsFinal

-----------------------------------------------------------------------------
(* Facts that the proofs of the other modules share.                       *)

\* The entries of a rendered document.
LEMMA RenderedEntries ==
    ASSUME NEW d \in Document, NEW q \in [Emails -> Change],
           NEW e \in Emails, NEW t \in Tags, t \in d.inbounds
    PROVE  /\ RenderClients(d, q).inbounds = d.inbounds
           /\ RenderClients(d, q).clients[t][e] =
                IF q[e].queued THEN RenderEntry(d.clients[t][e], q[e].ops[t], q[e].id)
                ELSE d.clients[t][e]
  BY DEF RenderClients, Document, Clients

\* Operations and the inbounds they touch.
LEMMA TouchedOps ==
    /\ Touched(NoOps) = {}
    /\ \A ops \in Ops : Touched(ops) = {} <=> ops = NoOps
    /\ \A ops \in Ops : \A t \in Tags : ops[t] = "none" <=> t \notin Touched(ops)
    /\ \A tags \in SUBSET Tags :
          Touched(AttachOps(tags)) = tags /\ Touched(DetachOps(tags)) = tags
<1>1. Touched(NoOps) = {}
  BY DEF Touched, NoOps
<1>2. ASSUME NEW ops \in Ops PROVE Touched(ops) = {} <=> ops = NoOps
  <2>1. ASSUME Touched(ops) = {} PROVE ops = NoOps
    <3>1. \A t \in Tags : ops[t] = NoOps[t]
      BY <2>1 DEF Touched, NoOps
    <3> QED
      BY <3>1 DEF Ops, NoOps
  <2> QED
    BY <1>1, <2>1
<1>3. ASSUME NEW ops \in Ops, NEW t \in Tags PROVE ops[t] = "none" <=> t \notin Touched(ops)
  BY DEF Touched
<1>4. ASSUME NEW tags \in SUBSET Tags
      PROVE  Touched(AttachOps(tags)) = tags /\ Touched(DetachOps(tags)) = tags
  BY DEF Touched, AttachOps, DetachOps
<1> QED
  BY <1>1, <1>2, <1>3, <1>4

\* The request record of an arrival.
LEMMA BeginRequest ==
    ASSUME TypeOK, NEW h \in Handlers, NEW kind, NEW r \in Request, NEW pc,
           pc # "idle", Begin(h, kind, r, pc)
    PROVE  /\ req'[h].kind = kind /\ req'[h].email = r.email /\ req'[h].id = r.id
           /\ req'[h].row = r.row /\ req'[h].tags = r.tags /\ req'[h].ops = r.ops
           /\ req'[h].purge = r.purge
<1>1. req'[h] = [r EXCEPT !.kind = kind]
  BY DEF Begin, TypeOK, HandlersOK
<1> QED
  BY <1>1 DEF Request

-----------------------------------------------------------------------------
(* Disabled users stay off.                                                *)

\* The operations let the user in again.
Rejoins(ops) == \E t \in Tags : ops[t] \in {"attach", "rotate"}

\* No two requests for one user are in flight together (the handlers do not
\* exclude each other; the operator has to wait for an answer).
OnePerUser ==
    \A g, h \in Handlers :
        g # h /\ hpc[g] # "idle" /\ hpc[h] # "idle" => req[g].email # req[h].email

\* What enqueueIfLive checked still holds when it queues: the user is live and
\* no Disable of theirs has taken the queued change without having stored.
\* (The comment at the check promises as much; the run converge_disable shows
\* that the code does not keep it.)
CheckStands ==
    lpc = "enqueue" =>
        /\ Live(roster[cur])
        /\ \A h \in Handlers : req[h].email = cur => hpc[h] # "disableStore"

\* Nothing lets a disabled user in, unless the request about to replace the
\* queued change is there; and what a request is about to store and to queue
\* goes together.
OffQueue ==
    \A e \in Emails : roster[e].disabled =>
        ~Rejoins(pending[e].ops) \/ \E h \in Handlers : hpc[h] = "enqueue" /\ req[h].email = e
OffRequest(h) ==
    LET e == req[h].email IN
    /\ hpc[h] \in {"disableStore", "deleteMark"} => ~Rejoins(req[h].ops)
    /\ hpc[h] = "disableStore" => ~Rejoins(pending[e].ops)
    /\ hpc[h] = "enqueue" => (roster[e].disabled => ~Rejoins(req[h].ops))
    /\ hpc[h] \in {"editCheck", "editWrite", "editTake"} => ~roster[e].disabled
StaysOff == OffQueue /\ \A h \in Handlers : OffRequest(h)

\* Detaches, and no operations, let nobody in.
LEMMA LeavesOnly ==
    /\ ~Rejoins(NoOps)
    /\ \A tags \in SUBSET Tags : ~Rejoins(DetachOps(tags))
    /\ \A row \in Row, ops \in Ops : ~Rejoins(DisableOps(row, ops)) /\ ~Rejoins(DeleteOps(row, ops))
  BY DEF Rejoins, NoOps, DetachOps, DisableOps, DeleteOps

\* Steps that leave the requests alone, disable nobody and queue no way in.
LEMMA OthersStayOff ==
    ASSUME StaysOff, TypeOK, UNCHANGED <<hpc, req>>,
           \A e \in Emails : roster'[e].disabled => roster[e].disabled,
           \A e \in Emails : Rejoins(pending'[e].ops) => Rejoins(pending[e].ops)
    PROVE  StaysOff'
<1>1. OffQueue'
  BY DEF StaysOff, OffQueue
<1>2. ASSUME NEW h \in Handlers PROVE OffRequest(h)'
  <2>1. hpc[h] # "idle" => req[h].email \in Emails
    BY DEF TypeOK, HandlersOK
  <2> QED
    BY <2>1 DEF StaysOff, OffRequest
<1> QED
  BY <1>1, <1>2 DEF StaysOff

\* A step of one request, the only one of its user, disables nobody else and
\* queues nothing for anybody else.
LEMMA RequestStaysOff ==
    ASSUME StaysOff, TypeOK, OnePerUser, NEW h \in Handlers, hpc[h] # "idle",
           NEW e \in Emails, e = req[h].email,
           \A g \in Handlers \ {h} : hpc'[g] = hpc[g] /\ req'[g] = req[g],
           \A f \in Emails \ {e} : roster'[f].disabled = roster[f].disabled
                                   /\ pending'[f] = pending[f],
           hpc'[h] # "idle" => req'[h].email = e,
           hpc[h] = "enqueue" => hpc'[h] # "enqueue",
           roster'[e].disabled => ~Rejoins(pending'[e].ops) \/ hpc'[h] = "enqueue",
           OffRequest(h)'
    PROVE  StaysOff'
<1>1. ASSUME NEW f \in Emails, roster'[f].disabled
      PROVE  ~Rejoins(pending'[f].ops) \/ \E g \in Handlers : hpc'[g] = "enqueue" /\ req'[g].email = f
  <2>1. CASE f = e
    BY <1>1, <2>1
  <2>2. CASE f # e
    <3>1. ~Rejoins(pending[f].ops) \/ \E g \in Handlers : hpc[g] = "enqueue" /\ req[g].email = f
      BY <1>1, <2>2 DEF StaysOff, OffQueue
    <3> QED
      BY <2>2, <3>1
  <2> QED
    BY <2>1, <2>2
<1>2. ASSUME NEW g \in Handlers \ {h} PROVE OffRequest(g)'
  <2>1. CASE hpc[g] = "idle"
    BY <2>1 DEF OffRequest
  <2>2. CASE hpc[g] # "idle"
    <3>1. req[g].email \in Emails \ {e}
      BY <2>2 DEF OnePerUser, TypeOK, HandlersOK
    <3>2. OffRequest(g)
      BY DEF StaysOff
    <3> QED
      BY <3>1, <3>2 DEF OffRequest
  <2> QED
    BY <2>1, <2>2
<1> QED
  BY <1>1, <1>2 DEF StaysOff, OffQueue

\* An arrival disables nobody; an Edit and an Add find, or make, a live user.
LEMMA ArrivesOff ==
    ASSUME StaysOff, TypeOK, NEW h \in Handlers, Arrive(h)
    PROVE  StaysOff'
<1>t. roster \in [Emails -> Row] /\ hpc \in [Handlers -> HandlerPCs] /\ req \in [Handlers -> Request]
  BY DEF TypeOK, StoreOK, HandlersOK
<1>1. ASSUME NEW kind, NEW r \in Request, NEW pc, Begin(h, kind, r, pc),
             \A f \in Emails : roster'[f].disabled => roster[f].disabled,
             \/ pc \in {"idle", "disableTake", "deleteTake", "deleteRead", "enableStore"}
             \/ pc \in {"editCheck", "enqueue"} /\ ~roster'[r.email].disabled
      PROVE  StaysOff'
  <2>1. /\ hpc[h] = "idle" /\ hpc'[h] = pc /\ pending' = pending
        /\ \A g \in Handlers \ {h} : hpc'[g] = hpc[g] /\ req'[g] = req[g]
    BY <1>t, <1>1 DEF Begin, Goto
  <2>2. OffQueue'
    BY <1>1, <2>1 DEF StaysOff, OffQueue
  <2>3. ASSUME NEW g \in Handlers \ {h} PROVE OffRequest(g)'
    <3>1. hpc[g] # "idle" => req[g].email \in Emails
      BY DEF TypeOK, HandlersOK
    <3> QED
      BY <1>1, <2>1, <3>1 DEF StaysOff, OffRequest
  <2>4. OffRequest(h)'
    <3>1. CASE pc \in {"idle", "disableTake", "deleteTake", "deleteRead", "enableStore"}
      BY <2>1, <3>1 DEF OffRequest
    <3>2. CASE pc \in {"editCheck", "enqueue"} /\ ~roster'[r.email].disabled
      <4>1. req'[h].email = r.email
        BY <1>1, <3>2, BeginRequest
      <4> QED
        BY <2>1, <3>2, <4>1 DEF OffRequest
    <3> QED
      BY <1>1, <3>1, <3>2
  <2> QED
    BY <2>2, <2>3, <2>4 DEF StaysOff
<1>2. PICK e \in Emails :
        \/ \E id \in Ids, tags \in SUBSET Tags : Add(h, e, id, tags)
        \/ \E id \in MaybeId, tags \in SUBSET Tags : Edit(h, e, id, tags)
        \/ \E id \in MaybeId : Rotate(h, e, id)
        \/ Disable(h, e)
        \/ Delete(h, e)
        \/ Enable(h, e)
  BY DEF Arrive
<1>3. ASSUME NEW id \in Ids, NEW tags \in SUBSET Tags, Add(h, e, id, tags) PROVE StaysOff'
  <2> DEFINE r == [NoRequest EXCEPT !.email = e, !.id = id, !.ops = AttachOps(tags)]
  <2>1. r \in Request /\ r.email = e
    BY NothingTypes DEF Request, NoRequest, MaybeId, AttachOps, Ops, OpKinds
  <2>2. ~roster'[e].disabled /\ \A f \in Emails \ {e} : roster'[f] = roster[f]
    BY <1>t, <1>3 DEF Add, AddRosterUser, Row
  <2> QED
    BY <1>1, <1>3, <2>1, <2>2 DEF Add
<1>4. ASSUME NEW id \in MaybeId, NEW tags \in SUBSET Tags, Edit(h, e, id, tags) PROVE StaysOff'
  <2> DEFINE r == [NoRequest EXCEPT !.email = e, !.id = id, !.tags = tags, !.row = roster[e]]
  <2>1. r \in Request /\ r.email = e
    BY <1>t, NothingTypes DEF Request, NoRequest
  <2> QED
    BY <1>1, <1>4, <2>1 DEF Edit, Live, storeVars
<1>5. ASSUME NEW id \in MaybeId, Rotate(h, e, id) PROVE StaysOff'
  <2> DEFINE kept == roster[e].inbounds \cap parse.inbounds
             r == [NoRequest EXCEPT !.email = e, !.id = id, !.tags = kept,
                                    !.row = [roster[e] EXCEPT !.inbounds = kept]]
  <2>1. r \in Request /\ r.email = e
    BY <1>t, NothingTypes DEF Request, NoRequest, Row
  <2> QED
    BY <1>1, <1>5, <2>1 DEF Rotate, Live, storeVars
<1>6. CASE Disable(h, e)
  <2> DEFINE r == [NoRequest EXCEPT !.email = e, !.id = roster[e].id, !.row = roster[e]]
  <2>1. r \in Request
    BY <1>t, NothingTypes DEF Request, NoRequest, Row
  <2> QED
    BY <1>1, <1>6, <2>1 DEF Disable, storeVars
<1>7. CASE Delete(h, e)
  <2> DEFINE r == [NoRequest EXCEPT !.email = e,
                                    !.id = IF Live(roster[e]) THEN roster[e].id ELSE None,
                                    !.row = IF Live(roster[e]) THEN roster[e] ELSE AbsentRow,
                                    !.purge = TRUE]
  <2>1. r \in Request
    BY <1>t, NothingTypes DEF Request, NoRequest, Row, MaybeId
  <2> QED
    BY <1>1, <1>7, <2>1 DEF Delete, storeVars
<1>8. CASE Enable(h, e)
  <2> DEFINE r == [NoRequest EXCEPT !.email = e, !.id = roster[e].id, !.row = roster[e]]
  <2>1. r \in Request
    BY <1>t, NothingTypes DEF Request, NoRequest, Row
  <2> QED
    BY <1>1, <1>8, <2>1 DEF Enable, storeVars
<1> QED
  BY <1>2, <1>3, <1>4, <1>5, <1>6, <1>7, <1>8

\* A request that disables its user has taken the queued way in over, and
\* queues detaches; one that lets its user in keeps them live.
LEMMA RequestsStayOff ==
    ASSUME StaysOff, TypeOK, OnePerUser, NEW h \in Handlers, HandlerStep(h) \/ StoreFails(h)
    PROVE  StaysOff'
<1>1. /\ roster \in [Emails -> Row] /\ pending \in [Emails -> Change]
      /\ hpc \in [Handlers -> HandlerPCs] /\ req \in [Handlers -> Request] /\ hpc[h] # "idle"
  BY DEF TypeOK, StoreOK, QueueOK, HandlersOK, HandlerStep, EditCheck, EditWrite, EditTake,
         DisableTake, DisableStore, DeleteRead, DeleteTake, DeleteMark, EnableStore, Enqueue, Kick,
         StoreFails
<1>2. PICK e \in Emails, r \in Request : r = req[h] /\ e = r.email
  BY <1>1 DEF TypeOK, HandlersOK
<1>3. OffRequest(h) /\ (roster[e].disabled => ~Rejoins(pending[e].ops) \/ hpc[h] = "enqueue")
  <2>1. \A g \in Handlers : hpc[g] = "enqueue" /\ req[g].email = e => g = h
    BY <1>1, <1>2 DEF OnePerUser
  <2> QED
    BY <2>1 DEF StaysOff, OffQueue
<1>4. CASE EditCheck(h)
  <2>1. hpc[h] = "editCheck" /\ ~roster[e].disabled
    BY <1>2, <1>3, <1>4 DEF EditCheck, OffRequest
  <2>2. /\ UNCHANGED <<roster, pending>>
        /\ \A g \in Handlers \ {h} : hpc'[g] = hpc[g] /\ req'[g] = req[g]
        /\ hpc'[h] \in {"idle", "editWrite", "editTake", "enqueue"}
    BY <1>1, <1>4 DEF EditCheck, Answer, Goto, AfterEdit, storeVars, queueVars
  <2>3. hpc'[h] # "idle" => req'[h].email = e
    BY <1>1, <1>2, <1>4 DEF EditCheck, Answer, Goto, AfterEdit, Request
  <2>4. OffRequest(h)'
    BY <2>1, <2>2, <2>3 DEF OffRequest
  <2> QED
    BY <1>1, <1>2, <2>1, <2>2, <2>3, <2>4, RequestStaysOff
<1>5. CASE EditWrite(h)
  <2>1. hpc[h] = "editWrite" /\ ~roster[e].disabled
    BY <1>2, <1>3, <1>5 DEF EditWrite, OffRequest
  <2>2. /\ pending' = pending /\ \A f \in Emails : roster'[f].disabled = roster[f].disabled
    BY <1>1, <1>5 DEF EditWrite, EditRosterUser, Row, queueVars
  <2>3. /\ \A g \in Handlers \ {h} : hpc'[g] = hpc[g] /\ req'[g] = req[g]
        /\ hpc'[h] \in {"idle", "editTake", "enqueue"}
        /\ hpc'[h] # "idle" => req'[h] = r
    BY <1>1, <1>2, <1>5 DEF EditWrite, Answer, Goto, AfterEdit
  <2>4. OffRequest(h)'
    BY <1>2, <2>1, <2>2, <2>3 DEF OffRequest
  <2> QED
    BY <1>1, <1>2, <2>1, <2>2, <2>3, <2>4, RequestStaysOff
<1>6. CASE EditTake(h)
  <2>1. hpc[h] = "editTake" /\ ~roster[e].disabled
    BY <1>2, <1>3, <1>6 DEF EditTake, OffRequest
  <2>2. roster' = roster /\ \A f \in Emails \ {e} : pending'[f] = pending[f]
    BY <1>1, <1>2, <1>6 DEF EditTake, TakePending, storeVars
  <2>3. /\ \A g \in Handlers \ {h} : hpc'[g] = hpc[g] /\ req'[g] = req[g]
        /\ hpc'[h] \in {"idle", "enqueue"}
    BY <1>1, <1>6 DEF EditTake, Answer, Goto
  <2>4. hpc'[h] # "idle" => req'[h].email = e
    BY <1>1, <1>2, <1>6 DEF EditTake, Answer, Goto, Request
  <2>5. OffRequest(h)'
    BY <2>1, <2>2, <2>3, <2>4 DEF OffRequest
  <2> QED
    BY <1>1, <1>2, <2>1, <2>2, <2>3, <2>4, <2>5, RequestStaysOff
<1>7. CASE DisableTake(h) \/ DeleteTake(h)
  <2>1. PICK ops \in {DisableOps(r.row, pending[e].ops), DeleteOps(r.row, pending[e].ops)} :
          req' = [req EXCEPT ![h].ops = ops]
    BY <1>2, <1>7 DEF DisableTake, DeleteTake
  <2>2. ~Rejoins(ops)
    BY <1>1, LeavesOnly DEF Request, Change
  <2>3. req'[h].ops = ops /\ req'[h].email = e
    BY <1>1, <1>2, <2>1 DEF Request
  <2>4. /\ roster' = roster /\ pending' = [pending EXCEPT ![e] = NoChange]
        /\ hpc[h] # "enqueue" /\ hpc'[h] \in {"disableStore", "deleteMark"}
    BY <1>1, <1>2, <1>7 DEF DisableTake, DeleteTake, TakePending, Goto, storeVars
  <2>5. ~Rejoins(pending'[e].ops) /\ \A f \in Emails \ {e} : pending'[f] = pending[f]
    BY <1>1, <2>4, LeavesOnly DEF NoChange
  <2>6. \A g \in Handlers \ {h} : hpc'[g] = hpc[g] /\ req'[g] = req[g]
    BY <1>1, <1>7 DEF DisableTake, DeleteTake, Goto
  <2>7. OffRequest(h)'
    BY <2>2, <2>3, <2>4, <2>5 DEF OffRequest
  <2> QED
    BY <1>1, <1>2, <2>3, <2>4, <2>5, <2>6, <2>7, RequestStaysOff
<1>8. CASE DisableStore(h) \/ DeleteMark(h)
  <2>1. /\ hpc[h] \in {"disableStore", "deleteMark"} /\ ~Rejoins(r.ops)
        /\ hpc[h] = "disableStore" => ~Rejoins(pending[e].ops)
    BY <1>2, <1>3, <1>8 DEF DisableStore, DeleteMark, OffRequest
  <2>2. pending' = pending /\ \A f \in Emails \ {e} : roster'[f] = roster[f]
    BY <1>1, <1>2, <1>8 DEF DisableStore, DisableRosterUser, DeleteMark, MarkRosterDeleting, queueVars
  <2>3. /\ \A g \in Handlers \ {h} : hpc'[g] = hpc[g] /\ req'[g] = req[g]
        /\ hpc'[h] \in {"idle", "enqueue"}
        /\ hpc'[h] # "idle" => req'[h] = r
        /\ hpc[h] = "deleteMark" => hpc'[h] = "enqueue"
    BY <1>1, <1>2, <1>8 DEF DisableStore, DeleteMark, Answer, Goto
  <2>4. OffRequest(h)'
    BY <1>2, <2>1, <2>3 DEF OffRequest
  <2> QED
    BY <1>1, <1>2, <2>1, <2>2, <2>3, <2>4, RequestStaysOff
<1>9. CASE EnableStore(h)
  <2>1. /\ pending' = pending /\ ~roster'[e].disabled /\ hpc[h] = "enableStore"
        /\ \A f \in Emails \ {e} : roster'[f] = roster[f]
    BY <1>1, <1>2, <1>9 DEF EnableStore, EnableRosterUser, Row, queueVars
  <2>2. /\ \A g \in Handlers \ {h} : hpc'[g] = hpc[g] /\ req'[g] = req[g]
        /\ hpc'[h] \in {"idle", "editCheck", "enqueue"}
    BY <1>1, <1>9 DEF EnableStore, Answer, Goto
  <2>3. hpc'[h] # "idle" => req'[h].email = e
    BY <1>1, <1>2, <1>9, ZenonT(60) DEF EnableStore, Answer, Goto, Request
  <2>4. OffRequest(h)'
    BY <2>1, <2>2, <2>3 DEF OffRequest
  <2> QED
    BY <1>1, <1>2, <2>1, <2>2, <2>3, <2>4, RequestStaysOff
<1>10. CASE Enqueue(h)
  <2>1. /\ hpc[h] = "enqueue" /\ hpc'[h] = "kick" /\ req' = req /\ roster' = roster
        /\ roster[e].disabled => ~Rejoins(r.ops)
        /\ \A g \in Handlers \ {h} : hpc'[g] = hpc[g]
    BY <1>1, <1>2, <1>3, <1>10 DEF Enqueue, Goto, OffRequest, storeVars
  <2>2. pending'[e].ops = r.ops /\ \A f \in Emails \ {e} : pending'[f] = pending[f]
    BY <1>1, <1>2, <1>10 DEF Enqueue, EnqueueGen
  <2>3. OffRequest(h)'
    BY <2>1 DEF OffRequest
  <2> QED
    BY <1>1, <1>2, <2>1, <2>2, <2>3, RequestStaysOff
<1>11. CASE DeleteRead(h) \/ Kick(h) \/ StoreFails(h)
  <2>1. /\ UNCHANGED <<roster, pending>> /\ hpc[h] # "enqueue"
        /\ \A g \in Handlers \ {h} : hpc'[g] = hpc[g] /\ req'[g] = req[g]
        /\ hpc'[h] \in {"idle", "deleteTake"}
    BY <1>1, <1>11 DEF DeleteRead, Kick, StoreFails, Answer, Goto, storeVars, queueVars
  <2>2. hpc'[h] # "idle" => req'[h].email = e
    BY <1>1, <1>2, <1>11 DEF DeleteRead, Kick, StoreFails, Answer, Goto, Request
  <2>3. OffRequest(h)'
    BY <2>1 DEF OffRequest
  <2> QED
    BY <1>1, <1>2, <1>3, <2>1, <2>2, <2>3, RequestStaysOff
<1> QED
  BY <1>4, <1>5, <1>6, <1>7, <1>8, <1>9, <1>10, <1>11 DEF HandlerStep

\* The loop queues a way in only in converge, for a user that is live.
LEMMA LoopStaysOff ==
    ASSUME StaysOff, TypeOK, CheckStands, LoopStep \/ LoopStoreFails \/ RenderFails \/ PurgeFails
    PROVE  StaysOff'
<1>1. roster \in [Emails -> Row] /\ pending \in [Emails -> Change]
  BY DEF TypeOK, StoreOK, QueueOK
<1>2. UNCHANGED <<hpc, req>>
  BY DEF LoopStep, Boot, RecoverDelete, Recovered, LoopKick, LoopChange, LoopTick, ApplyStep,
         ApplySnapshot, RenderRead, RenderWrite, PassPick, Push, PushFails, Settle, AfterSettle,
         PassDone, ConvergeStep, ConvergeRead, ConvergeView, ConvergeList, ConvergeNext,
         ConvergePrune, ConvergePruneWrite, ConvergeCheck, ConvergeEnqueue, Converged,
         LoopStoreFails, RenderFails, PurgeFails, handlerVars
<1>3. CASE ConvergeEnqueue
  <2>1. cur \in Emails /\ lpc = "enqueue" /\ roster' = roster
    BY <1>3 DEF ConvergeEnqueue, TypeOK, LoopOK, storeVars
  <2>2. \A f \in Emails \ {cur} : pending'[f] = pending[f]
    BY <1>1, <1>3, <2>1 DEF ConvergeEnqueue, EnqueueGen
  <2>3. ~roster[cur].disabled /\ \A h \in Handlers : req[h].email = cur => hpc[h] # "disableStore"
    BY <2>1 DEF CheckStands, Live
  <2>4. OffQueue'
    BY <1>2, <2>1, <2>2, <2>3 DEF StaysOff, OffQueue
  <2>5. ASSUME NEW h \in Handlers PROVE OffRequest(h)'
    <3>1. OffRequest(h) /\ (hpc[h] # "idle" => req[h].email \in Emails)
      BY DEF StaysOff, TypeOK, HandlersOK
    <3>2. CASE hpc[h] = "disableStore"
      BY <1>2, <2>1, <2>2, <2>3, <3>1, <3>2 DEF OffRequest
    <3>3. CASE hpc[h] # "disableStore"
      BY <1>2, <2>1, <3>1, <3>3 DEF OffRequest
    <3> QED
      BY <3>2, <3>3
  <2> QED
    BY <2>4, <2>5 DEF StaysOff
<1>4. ASSUME NEW e \in Emails, RecoverDelete(e) PROVE StaysOff'
  <2>1. recs[e].inbounds \in SUBSET Tags /\ roster' = roster
    BY <1>4 DEF RecoverDelete, TypeOK, LoopOK, Row, storeVars
  <2>2. ~Rejoins(pending'[e].ops) /\ \A f \in Emails \ {e} : pending'[f] = pending[f]
    BY <1>1, <1>4, <2>1, LeavesOnly DEF RecoverDelete, EnqueueGen
  <2> QED
    BY <1>2, <2>1, <2>2, OthersStayOff
<1>5. CASE Settle \/ PurgeFails
  <2>1. cur \in Emails
    BY <1>5 DEF Settle, PurgeFails, Settling, TypeOK, LoopOK
  <2>2. /\ \A f \in Emails \ {cur} : pending'[f] = pending[f]
        /\ pending'[cur] = pending[cur] \/ pending'[cur].ops = NoOps
    <3>1. snap \in [Emails -> Change]
      BY DEF TypeOK, LoopOK
    <3> QED
      BY <1>1, <1>5, <2>1, <3>1 DEF Settle, PurgeFails, NoChange, Change
  <2>3. \A f \in Emails : roster'[f].disabled => roster[f].disabled
    BY <1>1, <1>5, <2>1 DEF Settle, PurgeFails, PurgeRosterUser, AbsentRow, storeVars
  <2> QED
    BY <1>2, <2>2, <2>3, LeavesOnly, OthersStayOff
<1>6. CASE ConvergePruneWrite
  <2>1. pending' = pending /\ \A f \in Emails : roster'[f].disabled = roster[f].disabled
    BY <1>1, <1>6 DEF ConvergePruneWrite, EditRosterUser, Row, queueVars
  <2> QED
    BY <1>2, <2>1, OthersStayOff
<1>7. CASE \/ Boot \/ Recovered \/ LoopKick \/ LoopChange \/ LoopTick \/ ApplySnapshot
           \/ RenderRead \/ RenderWrite \/ PassDone \/ (\E e \in Emails : PassPick(e))
           \/ (\E t \in Tags : Push(t) \/ PushFails(t))
           \/ ConvergeRead \/ ConvergeView \/ ConvergeList \/ (\E e \in Emails : ConvergeNext(e))
           \/ ConvergePrune \/ ConvergeCheck \/ Converged \/ LoopStoreFails \/ RenderFails
  <2>1. UNCHANGED <<roster, pending>>
    BY <1>7 DEF Boot, Recovered, LoopKick, LoopChange, LoopTick, ApplySnapshot, RenderRead,
                RenderWrite, PassPick, Push, PushFails, PassDone, ConvergeRead, ConvergeView,
                ConvergeList, ConvergeNext, ConvergePrune, ConvergeCheck, Converged,
                LoopStoreFails, RenderFails, storeVars, queueVars
  <2> QED
    BY <1>2, <2>1, OthersStayOff
<1> QED
  BY <1>3, <1>4, <1>5, <1>6, <1>7 DEF LoopStep, ApplyStep, ConvergeStep

\* A disabled user is not on the way back (service.go, Disable and
\* enqueueIfLive), whatever fails, crashes or is edited by hand, for any
\* requests of any users at any time: only a second request of the same user
\* in flight, and the window of enqueueIfLive behind its check, can queue an
\* attach for a disabled user.
THEOREM DisabledStayOff ==
    Spec /\ []OnePerUser /\ []CheckStands => []DisabledNotRejoining
<1>1. Init => StaysOff
  <2> SUFFICES ASSUME Init PROVE StaysOff
    OBVIOUS
  <2>1. \A e \in Emails : ~roster[e].disabled
    BY DEF Init, InitRow, AbsentRow
  <2>2. \A h \in Handlers : hpc[h] = "idle"
    BY DEF Init
  <2> QED
    BY <2>1, <2>2 DEF StaysOff, OffQueue, OffRequest
<1>2. ASSUME TypeOK, StaysOff, OnePerUser, CheckStands, [Next]_vars PROVE StaysOff'
  <2>1. CASE UNCHANGED vars
    BY <1>2, <2>1, OthersStayOff DEF vars, storeVars, queueVars, handlerVars
  <2>2. ASSUME NEW h \in Handlers, Arrive(h) \/ HandlerStep(h) \/ StoreFails(h) PROVE StaysOff'
    BY <1>2, <2>2, ArrivesOff, RequestsStayOff
  <2>3. CASE LoopStep \/ LoopStoreFails \/ RenderFails \/ PurgeFails
    BY <1>2, <2>3, LoopStaysOff
  <2>4. CASE Reload \/ Sample \/ XrayStart \/ HandEdit \/ XrayStop
    BY <1>2, <2>4, OthersStayOff
       DEF Reload, Sample, XrayStart, HandEdit, XrayStop, storeVars, queueVars, handlerVars
  <2>5. CASE Flush
    <3>1. UNCHANGED <<hpc, req, pending>> /\ roster' = AdoptClients(roster, sampled.clients)
      BY <2>5 DEF Flush, queueVars, handlerVars
    <3>2. \A e \in Emails : roster'[e].disabled => roster[e].disabled
      BY <1>2, <3>1 DEF AdoptClients, AbsentRow, TypeOK, StoreOK, Row
    <3> QED
      BY <1>2, <3>1, <3>2, OthersStayOff
  <2>6. CASE Crash
    <3>1. /\ \A h \in Handlers : hpc'[h] = "idle"
          /\ \A e \in Emails : ~Rejoins(pending'[e].ops)
      BY <2>6, LeavesOnly DEF Crash, NoChanges, NoChange
    <3> QED
      BY <3>1 DEF StaysOff, OffQueue, OffRequest
  <2> QED
    BY <1>2, <2>1, <2>2, <2>3, <2>4, <2>5, <2>6 DEF Next, CollectorStep, Faults
<1>3. StaysOff => DisabledNotRejoining
  BY DEF StaysOff, OffQueue, DisabledNotRejoining, Rejoins
<1> QED
  BY <1>1, <1>2, <1>3, TypeCorrect, PTL DEF Spec
=============================================================================
