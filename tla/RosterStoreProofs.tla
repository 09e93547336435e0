--------------------------- MODULE RosterStoreProofs ---------------------------
(***************************************************************************)
(* What the store's tables promise, for every set of emails, inbounds and  *)
(* Client IDs and any number of mutations, failures, store errors, outages *)
(* of xray and crashes of the panel, when requests arrive one at a time:   *)
(* no two rows claim one Client ID, and the dashboard's users rows follow  *)
(* the roster rows.                                                        *)
(***************************************************************************)
EXTENDS RosterServiceProofs

USE DEF storeVars, watchVars, collectorVars, queueVars, passVars, convergeVars,
        loopVars, handlerVars

-----------------------------------------------------------------------------
(* The scenario, and the steps in it.                                      *)

\* Requests find the panel at rest.  (Of two EditRosterUser calls that overlap
\* both may find a Client ID free.)
RequestsWait == Spaced = TRUE

\* Moreover the collector does not run.
Apart == RequestsWait /\ Adoption = FALSE

\* The operator enrolled everyone with a Client ID of their own.
OwnIDs == \A d, e \in DOMAIN Enrolled : Enrolled[d] = Enrolled[e] => d = e

\* One request is at work, and the collector is not.
OneRequest == \A g, h \in Handlers : hpc[g] # "idle" /\ hpc[h] # "idle" => g = h
Exclusive == OneRequest /\ sampled.has = FALSE

\* A request arrives while nobody else is at work.
LEMMA ArrivesAlone ==
    ASSUME TypeOK, RequestsWait, NEW h \in Handlers, Arrive(h)
    PROVE  /\ lpc = "select" /\ \A g \in Handlers : hpc[g] = "idle"
           /\ \A g \in Handlers \ {h} : hpc'[g] = "idle"
           /\ hpc'[h] \notin {"editWrite", "editTake"}
           /\ UNCHANGED <<file, parse, sampled, loopVars>>
           /\ UNCHANGED storeVars \/ \E e \in Emails, id \in Ids, tags \in SUBSET Tags :
                                         Add(h, e, id, tags)
<1>1. ASSUME NEW kind, NEW r, NEW pc, Begin(h, kind, r, pc),
             pc \in HandlerPCs \ {"editWrite", "editTake"}
      PROVE  /\ lpc = "select" /\ \A g \in Handlers : hpc[g] = "idle"
             /\ \A g \in Handlers \ {h} : hpc'[g] = "idle"
             /\ hpc'[h] \notin {"editWrite", "editTake"}
             /\ UNCHANGED <<file, parse, sampled, loopVars>>
  BY <1>1 DEF Begin, Quiet, RequestsWait, Goto, TypeOK, HandlersOK
<1>2. PICK e \in Emails :
        \/ \E id \in Ids, tags \in SUBSET Tags : Add(h, e, id, tags)
        \/ \E id \in MaybeId, tags \in SUBSET Tags : Edit(h, e, id, tags)
        \/ \E id \in MaybeId : Rotate(h, e, id)
        \/ Disable(h, e)
        \/ Delete(h, e)
        \/ Enable(h, e)
  BY DEF Arrive
<1>3. ASSUME NEW id \in Ids, NEW tags \in SUBSET Tags, Add(h, e, id, tags)
      PROVE  \E kind, r : \E pc \in HandlerPCs \ {"editWrite", "editTake"} : Begin(h, kind, r, pc)
  BY <1>3 DEF Add, HandlerPCs
<1>4. ASSUME NEW id \in MaybeId, NEW tags \in SUBSET Tags, Edit(h, e, id, tags)
      PROVE  /\ UNCHANGED storeVars
             /\ \E kind, r : \E pc \in HandlerPCs \ {"editWrite", "editTake"} : Begin(h, kind, r, pc)
  BY <1>4 DEF Edit, HandlerPCs
<1>5. ASSUME NEW id \in MaybeId, Rotate(h, e, id)
      PROVE  /\ UNCHANGED storeVars
             /\ \E kind, r : \E pc \in HandlerPCs \ {"editWrite", "editTake"} : Begin(h, kind, r, pc)
  BY <1>5 DEF Rotate, HandlerPCs
<1>6. ASSUME Disable(h, e) \/ Delete(h, e) \/ Enable(h, e)
      PROVE  /\ UNCHANGED storeVars
             /\ \E kind, r : \E pc \in HandlerPCs \ {"editWrite", "editTake"} : Begin(h, kind, r, pc)
  BY <1>6 DEF Disable, Delete, Enable, HandlerPCs
<1>7. \E kind, r : \E pc \in HandlerPCs \ {"editWrite", "editTake"} : Begin(h, kind, r, pc)
  BY <1>2, <1>3, <1>4, <1>5, <1>6
<1>8. UNCHANGED storeVars \/ \E id \in Ids, tags \in SUBSET Tags : Add(h, e, id, tags)
  BY <1>2, <1>4, <1>5, <1>6
<1> QED
  BY <1>1, <1>7, <1>8

\* A request at work moves itself only.
LEMMA OwnStep ==
    ASSUME TypeOK, NEW h \in Handlers, HandlerStep(h) \/ StoreFails(h)
    PROVE  /\ hpc[h] # "idle"
           /\ \A g \in Handlers \ {h} : hpc'[g] = hpc[g] /\ req'[g] = req[g]
           /\ hpc'[h] # "idle" => req'[h].email = req[h].email
           /\ hpc'[h] = "editWrite" => EditCheck(h)
           /\ hpc'[h] # "enableStore"
           /\ UNCHANGED <<file, parse, sampled, loopVars>>
           /\ \/ UNCHANGED storeVars
              \/ EditWrite(h) \/ DisableStore(h) \/ DeleteMark(h) \/ EnableStore(h)
<1>1. hpc \in [Handlers -> HandlerPCs] /\ req \in [Handlers -> Request] /\ req[h] \in Request
  BY DEF TypeOK, HandlersOK
<1>2. CASE EditCheck(h) \/ EditWrite(h) \/ EditTake(h)
  BY <1>1, <1>2 DEF EditCheck, EditWrite, EditTake, Answer, Goto, AfterEdit, Request
<1>3. CASE DisableTake(h) \/ DisableStore(h)
  BY <1>1, <1>3 DEF DisableTake, DisableStore, Answer, Goto, Request
<1>4. CASE DeleteRead(h) \/ DeleteTake(h) \/ DeleteMark(h)
  BY <1>1, <1>4, ZenonT(60) DEF DeleteRead, DeleteTake, DeleteMark, Answer, Goto, Request
<1>5. CASE EnableStore(h)
  BY <1>1, <1>5, ZenonT(60) DEF EnableStore, Answer, Goto, Request
<1>6. CASE Enqueue(h) \/ Kick(h) \/ StoreFails(h)
  BY <1>1, <1>6 DEF Enqueue, Kick, StoreFails, Answer, Goto, Request
<1> QED
  BY <1>2, <1>3, <1>4, <1>5, <1>6 DEF HandlerStep

\* The steps of the loop, the watcher, the collector and the environment leave
\* the requests alone, and the tables but for a purge, a prune and a poll.
LEMMA OthersStep ==
    ASSUME \/ LoopStep \/ Reload \/ CollectorStep \/ XrayStart
           \/ LoopStoreFails \/ RenderFails \/ PurgeFails \/ HandEdit \/ XrayStop
    PROVE  /\ UNCHANGED handlerVars
           /\ sampled' = sampled \/ CollectorStep
           /\ UNCHANGED storeVars \/ Settle \/ ConvergePruneWrite \/ Flush
           /\ lpc' = "pruneWrite" =>
                  ConvergePrune \/ (lpc = "pruneWrite" /\ UNCHANGED <<cur, recs>>)
<1>1. CASE \/ Boot \/ (\E e \in Emails : RecoverDelete(e)) \/ Recovered
           \/ LoopKick \/ LoopChange \/ LoopTick
  BY <1>1 DEF Boot, RecoverDelete, Recovered, LoopKick, LoopChange, LoopTick
<1>2. CASE ApplyStep
  BY <1>2 DEF ApplyStep, ApplySnapshot, AfterPass, RenderRead, RenderWrite, PassPick, NextOp,
              Push, PushFails, Settle, Settling, AfterSettle, PassDone
<1>3. CASE ConvergeStep
  BY <1>3 DEF ConvergeStep, ConvergeRead, ConvergeView, ConvergeList, ConvergeNext, ConvergePrune,
              ConvergePruneWrite, ConvergeCheck, ConvergeEnqueue, Converged, SkipRecord, WithRecord
<1>4. CASE Reload \/ XrayStart
  BY <1>4 DEF Reload, XrayStart
<1>6. CASE CollectorStep
  <2>1. UNCHANGED handlerVars /\ UNCHANGED loopVars
    BY <1>6 DEF CollectorStep, Sample, Flush
  <2>2. UNCHANGED storeVars \/ Flush
    BY <1>6 DEF CollectorStep, Sample
  <2>3. Sample => UNCHANGED storeVars
    BY DEF Sample
  <2>4. lpc' = "pruneWrite" => lpc = "pruneWrite" /\ UNCHANGED <<cur, recs>>
    BY <2>1
  <2> QED
    BY <1>6, <2>1, <2>2, <2>3, <2>4
<1>5. CASE LoopStoreFails \/ RenderFails \/ PurgeFails \/ HandEdit \/ XrayStop
  BY <1>5 DEF LoopStoreFails, RenderFails, PurgeFails, AfterSettle, Settling, SkipRecord,
              HandEdit, XrayStop
<1> QED
  BY <1>1, <1>2, <1>3, <1>4, <1>5, <1>6 DEF LoopStep

\* A crash leaves the tables.
LEMMA CrashStep ==
    ASSUME Crash
    PROVE  /\ \A h \in Handlers : hpc'[h] = "idle"
           /\ sampled'.has = FALSE /\ lpc' = "boot" /\ UNCHANGED <<storeVars, file>>
  BY DEF Crash, NothingSampled

\* The kinds of step.
LEMMA StepKinds ==
    ASSUME [Next]_vars
    PROVE  \/ UNCHANGED vars
           \/ \E h \in Handlers : Arrive(h)
           \/ \E h \in Handlers : HandlerStep(h) \/ StoreFails(h)
           \/ LoopStep \/ Reload \/ CollectorStep \/ XrayStart
           \/ LoopStoreFails \/ RenderFails \/ PurgeFails \/ HandEdit \/ XrayStop
           \/ Crash
  BY DEF Next, Faults

LEMMA OneRequestStep ==
    ASSUME TypeOK, RequestsWait, OneRequest, [Next]_vars
    PROVE  OneRequest'
<1>1. CASE UNCHANGED vars
  BY <1>1 DEF vars, OneRequest
<1>2. ASSUME NEW h \in Handlers, Arrive(h) PROVE OneRequest'
  BY <1>2, ArrivesAlone DEF OneRequest
<1>3. ASSUME NEW h \in Handlers, HandlerStep(h) \/ StoreFails(h) PROVE OneRequest'
  BY <1>3, OwnStep DEF OneRequest
<1>4. CASE \/ LoopStep \/ Reload \/ CollectorStep \/ XrayStart
           \/ LoopStoreFails \/ RenderFails \/ PurgeFails \/ HandEdit \/ XrayStop
  BY <1>4, OthersStep DEF OneRequest
<1>5. CASE Crash
  BY <1>5, CrashStep DEF OneRequest
<1> QED
  BY <1>1, <1>2, <1>3, <1>4, <1>5, StepKinds

\* Without a collector there is never a sample.
LEMMA NoSample ==
    ASSUME TypeOK, Apart, sampled.has = FALSE, [Next]_vars
    PROVE  ~CollectorStep /\ sampled'.has = FALSE
<1>1. ~CollectorStep
  BY DEF CollectorStep, Sample, Flush, Apart
<1>2. ASSUME NEW h \in Handlers, Arrive(h) PROVE sampled' = sampled
  BY <1>2, ArrivesAlone DEF Apart
<1>3. ASSUME NEW h \in Handlers, HandlerStep(h) \/ StoreFails(h) PROVE sampled' = sampled
  BY <1>3, OwnStep
<1>4. CASE \/ LoopStep \/ Reload \/ CollectorStep \/ XrayStart
           \/ LoopStoreFails \/ RenderFails \/ PurgeFails \/ HandEdit \/ XrayStop
  BY <1>1, <1>4, OthersStep DEF CollectorStep
<1>5. CASE UNCHANGED vars
  BY <1>1, <1>5 DEF vars
<1> QED
  BY <1>1, <1>2, <1>3, <1>4, <1>5, CrashStep, StepKinds

LEMMA ExclusiveStep ==
    ASSUME TypeOK, Apart, Exclusive, [Next]_vars
    PROVE  Exclusive' /\ ~CollectorStep
  BY OneRequestStep, NoSample DEF Exclusive, Apart

-----------------------------------------------------------------------------
(* The claims on Client IDs.                                               *)

\* The Client ID a write is about to store is still free when it stores it.
\* A prune writes the Client ID it read back: the row still has it, or the
\* only request at work is one of the same user.
PruneClaim ==
    /\ ~ClientIDTaken(roster, cur, recs[cur].id)
    /\ \/ roster[cur].present /\ roster[cur].id = recs[cur].id
       \/ \A h \in Handlers : hpc[h] # "idle" => req[h].email = cur
Claims ==
    /\ UniqueClientIDs
    /\ \A h \in Handlers :
          hpc[h] = "editWrite" => ~ClientIDTaken(roster, req[h].email, req[h].id)
    /\ lpc = "pruneWrite" => PruneClaim

\* The users the pending sample is about to enrol, and the hypothesis on the
\* Client IDs they bring along: no row and no other newcomer has them, and no
\* write under way is about to store them.  (adoptClients inserts whatever the
\* config says and checks nothing; its comment leaves uniqueness to the
\* mutations.)
Newcomers == {e \in Emails : ~roster[e].present /\ Carrying(sampled.clients, e) # {}}
AdoptsFree ==
    sampled.has => \A e \in Newcomers :
        LET id == ParsedID(sampled.clients, e) IN
        /\ ~ClientIDTaken(roster, e, id)
        /\ \A f \in Newcomers \ {e} : ParsedID(sampled.clients, f) # id
        /\ \A h \in Handlers : hpc[h] = "editWrite" /\ req[h].email # e => req[h].id # id
        /\ lpc = "pruneWrite" /\ cur # e => recs[cur].id # id

\* Rows that disappear, or keep their Client IDs, keep the claims.
LEMMA KeptClaims ==
    ASSUME TypeOK, Claims,
           \A e \in Emails : roster'[e].present =>
               roster[e].present /\ roster'[e].id = roster[e].id,
           \A h \in Handlers : hpc'[h] # "idle" =>
               hpc[h] # "idle" /\ req'[h].email = req[h].email,
           \A h \in Handlers : hpc'[h] = "editWrite" =>
               hpc[h] = "editWrite" /\ req'[h] = req[h],
           lpc' = "pruneWrite" =>
               /\ lpc = "pruneWrite" /\ UNCHANGED <<cur, recs>>
               /\ \A e \in Emails : roster[e].present => roster'[e].present
    PROVE  Claims'
<1>1. UniqueClientIDs'
  BY DEF Claims, UniqueClientIDs
<1>2. ASSUME NEW h \in Handlers, hpc'[h] = "editWrite"
      PROVE  ~ClientIDTaken(roster', req'[h].email, req'[h].id)
  BY <1>2 DEF Claims, ClientIDTaken
<1>3. ASSUME lpc' = "pruneWrite" PROVE PruneClaim'
  <2>1. cur \in Emails
    BY <1>3 DEF TypeOK, LoopOK
  <2>2. PruneClaim
    BY <1>3 DEF Claims
  <2> QED
    BY <1>3, <2>1, <2>2 DEF PruneClaim, ClientIDTaken
<1> QED
  BY <1>1, <1>2, <1>3 DEF Claims

\* One row that takes a free Client ID keeps the others' claims.
LEMMA FreeIDs ==
    ASSUME UniqueClientIDs, NEW e \in Emails, NEW id, ~ClientIDTaken(roster, e, id),
           roster'[e].present => roster'[e].id = id,
           \A f \in Emails \ {e} : roster'[f] = roster[f]
    PROVE  UniqueClientIDs' /\ ~ClientIDTaken(roster', e, id)
  BY DEF UniqueClientIDs, ClientIDTaken

\* An adoption of free Client IDs keeps the claims.
LEMMA FlushClaims ==
    ASSUME TypeOK, Claims, AdoptsFree, Flush
    PROVE  Claims'
<1>1. /\ sampled.has /\ roster' = AdoptClients(roster, sampled.clients)
      /\ UNCHANGED <<hpc, req, lpc, cur, recs>>
  BY DEF Flush
<1>2. roster \in [Emails -> Row]
  BY DEF TypeOK, StoreOK
<1>3. ASSUME NEW e \in Emails
      PROVE  /\ roster[e].present => roster'[e].present /\ roster'[e].id = roster[e].id
             /\ ~roster[e].present /\ roster'[e].present =>
                    e \in Newcomers /\ roster'[e].id = ParsedID(sampled.clients, e)
  <2>1. CASE Carrying(sampled.clients, e) = {} \/ (roster[e].present /\ roster[e].disabled)
    <3>1. roster'[e] = roster[e]
      BY <1>1, <2>1 DEF AdoptClients
    <3> QED
      BY <3>1
  <2>2. CASE Carrying(sampled.clients, e) # {} /\ ~roster[e].present
    <3>1. roster'[e] = [AbsentRow EXCEPT !.present = TRUE, !.id = ParsedID(sampled.clients, e),
                                         !.inbounds = Carrying(sampled.clients, e)]
      BY <1>1, <2>2 DEF AdoptClients
    <3> QED
      BY <2>2, <3>1 DEF AbsentRow, Newcomers
  <2>3. CASE Carrying(sampled.clients, e) # {} /\ roster[e].present /\ ~roster[e].disabled
    <3>1. roster'[e] = [roster[e] EXCEPT !.inbounds = @ \cup Carrying(sampled.clients, e)]
      BY <1>1, <2>3 DEF AdoptClients
    <3> QED
      BY <1>2, <2>3, <3>1 DEF Row
  <2> QED
    BY <2>1, <2>2, <2>3
<1>4. ASSUME NEW e \in Emails, NEW id, ~ClientIDTaken(roster, e, id),
             \A f \in Newcomers \ {e} : ParsedID(sampled.clients, f) # id
      PROVE  ~ClientIDTaken(roster', e, id)
  BY <1>3, <1>4 DEF ClientIDTaken
<1>5. ASSUME NEW e \in Emails, roster'[e].present
      PROVE  ~ClientIDTaken(roster', e, roster'[e].id)
  <2>1. CASE roster[e].present
    <3>1. ~ClientIDTaken(roster, e, roster[e].id)
      BY <2>1 DEF Claims, UniqueClientIDs, ClientIDTaken
    <3>2. \A f \in Newcomers \ {e} : ParsedID(sampled.clients, f) # roster[e].id
      BY <1>1, <2>1 DEF AdoptsFree, ClientIDTaken, Newcomers
    <3> QED
      BY <1>3, <1>4, <2>1, <3>1, <3>2
  <2>2. CASE ~roster[e].present
    <3>1. e \in Newcomers /\ roster'[e].id = ParsedID(sampled.clients, e)
      BY <1>3, <1>5, <2>2
    <3>2. /\ ~ClientIDTaken(roster, e, ParsedID(sampled.clients, e))
          /\ \A f \in Newcomers \ {e} : ParsedID(sampled.clients, f) # ParsedID(sampled.clients, e)
      BY <1>1, <3>1 DEF AdoptsFree
    <3> QED
      BY <1>4, <3>1, <3>2
  <2> QED
    BY <2>1, <2>2
<1>6. UniqueClientIDs'
  BY <1>5 DEF UniqueClientIDs, ClientIDTaken
<1>7. ASSUME NEW h \in Handlers, hpc'[h] = "editWrite"
      PROVE  ~ClientIDTaken(roster', req'[h].email, req'[h].id)
  <2>1. /\ hpc[h] = "editWrite" /\ req' = req /\ req[h].email \in Emails
        /\ ~ClientIDTaken(roster, req[h].email, req[h].id)
    BY <1>1, <1>7 DEF Claims, TypeOK, HandlersOK
  <2>2. \A f \in Newcomers \ {req[h].email} : ParsedID(sampled.clients, f) # req[h].id
    BY <1>1, <2>1 DEF AdoptsFree
  <2> QED
    BY <1>4, <2>1, <2>2
<1>8. ASSUME lpc' = "pruneWrite" PROVE PruneClaim'
  <2>1. /\ lpc = "pruneWrite" /\ cur' = cur /\ recs' = recs /\ cur \in Emails /\ PruneClaim
    BY <1>1, <1>8 DEF Claims, TypeOK, LoopOK
  <2>2. \A f \in Newcomers \ {cur} : ParsedID(sampled.clients, f) # recs[cur].id
    BY <1>1, <2>1 DEF AdoptsFree
  <2>3. ~ClientIDTaken(roster', cur, recs[cur].id)
    BY <1>4, <2>1, <2>2 DEF PruneClaim
  <2> QED
    BY <1>1, <1>3, <2>1, <2>3 DEF PruneClaim
<1> QED
  BY <1>6, <1>7, <1>8 DEF Claims

LEMMA ClaimsStep ==
    ASSUME TypeOK, RequestsWait, OneRequest, AdoptsFree, Claims, [Next]_vars
    PROVE  Claims'
<1>t. /\ roster \in [Emails -> Row] /\ hpc \in [Handlers -> HandlerPCs]
      /\ req \in [Handlers -> Request] /\ recs \in [Emails -> Row]
      /\ \A h \in Handlers : hpc[h] # "idle" => req[h].email \in Emails
      /\ lpc \in {"prune", "pruneWrite"} => cur \in Emails
  BY DEF TypeOK, StoreOK, HandlersOK, LoopOK
<1>u. UniqueClientIDs
  BY DEF Claims
<1>1. CASE UNCHANGED vars
  BY <1>1, KeptClaims DEF vars
<1>2. ASSUME NEW h \in Handlers, Arrive(h) PROVE Claims'
  <2>1. /\ \A g \in Handlers : hpc'[g] # "editWrite"
        /\ lpc' # "pruneWrite"
        /\ UNCHANGED storeVars \/ \E e \in Emails, id \in Ids, tags \in SUBSET Tags :
                                      Add(h, e, id, tags)
    BY <1>2, ArrivesAlone
  <2>2. ASSUME NEW e \in Emails, NEW id \in Ids, NEW tags \in SUBSET Tags, Add(h, e, id, tags)
        PROVE  UniqueClientIDs'
    <3>1. ~ClientIDTaken(roster, e, id) /\ roster' = AddRosterUser(roster, e, id, tags)
      BY <2>2 DEF Add, AddConflict
    <3>2. roster'[e].id = id /\ \A f \in Emails \ {e} : roster'[f] = roster[f]
      BY <1>t, <3>1 DEF AddRosterUser, Row
    <3> QED
      BY <1>u, <3>1, <3>2, FreeIDs
  <2>3. UniqueClientIDs'
    BY <1>u, <2>1, <2>2 DEF UniqueClientIDs
  <2> QED
    BY <2>1, <2>3 DEF Claims
<1>3. ASSUME NEW h \in Handlers, HandlerStep(h) \/ StoreFails(h) PROVE Claims'
  <2>1. /\ hpc[h] # "idle"
        /\ \A g \in Handlers \ {h} : hpc'[g] = hpc[g] /\ req'[g] = req[g]
        /\ hpc'[h] # "idle" => req'[h].email = req[h].email
        /\ hpc'[h] = "editWrite" => EditCheck(h)
        /\ UNCHANGED <<lpc, cur, recs>>
        /\ \/ UNCHANGED storeVars
           \/ EditWrite(h) \/ DisableStore(h) \/ DeleteMark(h) \/ EnableStore(h)
    BY <1>3, OwnStep
  <2>2. \A g \in Handlers \ {h} : hpc[g] = "idle"
    BY <2>1 DEF OneRequest
  <2>p. PICK e \in Emails, r \in Request : r = req[h] /\ e = r.email
    BY <1>t, <2>1
  <2>3. CASE EditCheck(h)
    <3>1. roster' = roster
      BY <2>3 DEF EditCheck
    <3>2. CASE hpc'[h] = "editWrite"
      <4> DEFINE id == IF r.id = None THEN roster[e].id ELSE r.id
      <4>1. /\ Live(roster[e]) /\ ~ClientIDTaken(roster, e, r.id)
            /\ req' = [req EXCEPT ![h].id = id]
        BY <1>t, <2>3, <2>p, <3>2 DEF EditCheck, Answer, Goto, AfterEdit
      <4>2. req'[h].id = id /\ req'[h].email = e
        BY <1>t, <2>p, <4>1 DEF Request
      <4>3. ~ClientIDTaken(roster, e, id)
        <5>1. ~ClientIDTaken(roster, e, roster[e].id)
          BY <1>u, <4>1 DEF UniqueClientIDs, ClientIDTaken, Live
        <5> QED
          BY <4>1, <5>1
      <4>4. \A g \in Handlers :
              hpc'[g] = "editWrite" => ~ClientIDTaken(roster', req'[g].email, req'[g].id)
        BY <2>1, <2>2, <3>1, <4>2, <4>3
      <4>5. lpc' = "pruneWrite" => PruneClaim'
        BY <2>1, <2>2, <2>p, <3>1, <4>2 DEF Claims, PruneClaim
      <4> QED
        BY <1>u, <3>1, <4>4, <4>5 DEF Claims, UniqueClientIDs
    <3>3. CASE hpc'[h] # "editWrite"
      BY <2>1, <2>2, <3>1, <3>3, KeptClaims
    <3> QED
      BY <3>2, <3>3
  <2>4. CASE EditWrite(h)
    <3>1. /\ hpc[h] = "editWrite" /\ roster' = EditRosterUser(roster, e, r.id, r.tags)
          /\ hpc'[h] # "editWrite"
      BY <1>t, <2>4, <2>p DEF EditWrite, AfterEdit, Answer, Goto
    <3>2. ~ClientIDTaken(roster, e, r.id)
      BY <2>p, <3>1 DEF Claims
    <3>3. /\ roster'[e].present = roster[e].present
          /\ roster'[e].present => roster'[e].id = r.id
          /\ \A f \in Emails \ {e} : roster'[f] = roster[f]
      BY <1>t, <3>1 DEF EditRosterUser, Row
    <3>4. UniqueClientIDs'
      BY <1>u, <3>2, <3>3, FreeIDs
    <3>5. ASSUME lpc' = "pruneWrite" PROVE PruneClaim'
      <4>1. cur \in Emails /\ PruneClaim /\ cur' = cur /\ recs' = recs
        BY <1>t, <2>1, <3>5 DEF Claims
      <4>2. CASE e = cur
        BY <2>1, <2>2, <2>p, <3>3, <4>1, <4>2 DEF PruneClaim, ClientIDTaken
      <4>3. CASE e # cur
        <5>1. roster[cur].present /\ roster[cur].id = recs[cur].id
          BY <2>1, <2>p, <4>1, <4>3 DEF PruneClaim
        <5>2. r.id # recs[cur].id
          BY <3>2, <4>1, <4>3, <5>1 DEF ClientIDTaken
        <5> QED
          BY <3>3, <4>1, <4>3, <5>1, <5>2 DEF PruneClaim, ClientIDTaken
      <4> QED
        BY <4>2, <4>3
    <3>6. \A g \in Handlers : hpc'[g] # "editWrite"
      BY <2>1, <2>2, <3>1
    <3> QED
      BY <3>4, <3>5, <3>6 DEF Claims
  <2>5. CASE ~EditCheck(h) /\ ~EditWrite(h)
    <3>1. ASSUME NEW f \in Emails
          PROVE  roster'[f].present = roster[f].present /\ roster'[f].id = roster[f].id
      <4>1. CASE DisableStore(h)
        BY <1>t, <4>1 DEF DisableStore, DisableRosterUser, Row
      <4>2. CASE DeleteMark(h)
        BY <1>t, <4>2 DEF DeleteMark, MarkRosterDeleting, Row
      <4>3. CASE EnableStore(h)
        BY <1>t, <4>3 DEF EnableStore, EnableRosterUser, Row
      <4> QED
        BY <2>1, <2>5, <4>1, <4>2, <4>3
    <3> QED
      BY <2>1, <2>2, <2>5, <3>1, KeptClaims
  <2> QED
    BY <2>3, <2>4, <2>5
<1>4. CASE \/ LoopStep \/ Reload \/ CollectorStep \/ XrayStart
           \/ LoopStoreFails \/ RenderFails \/ PurgeFails \/ HandEdit \/ XrayStop
  <2>1. /\ UNCHANGED handlerVars
        /\ UNCHANGED storeVars \/ Settle \/ ConvergePruneWrite \/ Flush
        /\ lpc' = "pruneWrite" =>
               ConvergePrune \/ (lpc = "pruneWrite" /\ UNCHANGED <<cur, recs>>)
    BY <1>4, OthersStep
  <2>2. CASE Settle
    <3>1. lpc' # "pruneWrite"
      BY <2>2 DEF Settle, AfterSettle
    <3>2. \A e \in Emails : roster'[e].present =>
            roster[e].present /\ roster'[e].id = roster[e].id
      BY <1>t, <2>2 DEF Settle, PurgeRosterUser, AbsentRow
    <3> QED
      BY <2>1, <3>1, <3>2, KeptClaims
  <2>3. CASE ConvergePruneWrite
    <3>1. /\ lpc = "pruneWrite" /\ lpc' # "pruneWrite" /\ cur \in Emails
          /\ roster' = EditRosterUser(roster, cur, recs[cur].id, recs[cur].inbounds)
      BY <1>t, <2>3 DEF ConvergePruneWrite, WithRecord, SkipRecord
    <3>2. ~ClientIDTaken(roster, cur, recs[cur].id)
      BY <3>1 DEF Claims, PruneClaim
    <3>3. /\ roster'[cur].present => roster'[cur].id = recs[cur].id
          /\ roster[cur].present <=> roster'[cur].present
          /\ \A f \in Emails \ {cur} : roster'[f] = roster[f]
      BY <1>t, <3>1 DEF EditRosterUser, Row
    <3>4. UniqueClientIDs'
      BY <1>u, <3>1, <3>2, <3>3, FreeIDs
    <3>5. ASSUME NEW h \in Handlers, hpc'[h] = "editWrite"
          PROVE  ~ClientIDTaken(roster', req'[h].email, req'[h].id)
      <4>1. hpc[h] = "editWrite" /\ req' = req /\ ~ClientIDTaken(roster, req[h].email, req[h].id)
        BY <2>1, <3>5 DEF Claims
      <4>2. CASE req[h].email = cur
        BY <3>3, <4>1, <4>2 DEF ClientIDTaken
      <4>3. CASE req[h].email # cur
        <5>1. roster[cur].present /\ roster[cur].id = recs[cur].id
          BY <3>1, <4>1, <4>3 DEF Claims, PruneClaim
        <5> QED
          BY <3>1, <3>3, <4>1, <5>1 DEF ClientIDTaken
      <4> QED
        BY <4>2, <4>3
    <3> QED
      BY <3>1, <3>4, <3>5 DEF Claims
  <2>4. CASE ConvergePrune /\ lpc' = "pruneWrite"
    <3>1. /\ lpc = "prune" /\ cur \in Emails /\ Live(roster[cur]) /\ cur' = cur /\ roster' = roster
          /\ recs' = [recs EXCEPT ![cur] =
                        [roster[cur] EXCEPT !.inbounds = recs[cur].inbounds \cap cdoc.inbounds]]
      BY <1>t, <2>4 DEF ConvergePrune, SkipRecord, WithRecord
    <3>2. recs'[cur].id = roster[cur].id /\ roster[cur].present
      BY <1>t, <3>1 DEF Row, Live
    <3>3. ~ClientIDTaken(roster, cur, roster[cur].id)
      BY <1>u, <3>1, <3>2 DEF UniqueClientIDs, ClientIDTaken
    <3>4. PruneClaim'
      BY <3>1, <3>2, <3>3 DEF PruneClaim
    <3> QED
      BY <2>1, <3>1, <3>4 DEF Claims, UniqueClientIDs
  <2>5. CASE /\ UNCHANGED storeVars
             /\ lpc' = "pruneWrite" => lpc = "pruneWrite" /\ UNCHANGED <<cur, recs>>
    BY <2>1, <2>5, KeptClaims
  <2>6. CASE Flush
    BY <2>6, FlushClaims
  <2> QED
    BY <2>1, <2>2, <2>3, <2>4, <2>5, <2>6
<1>5. CASE Crash
  BY <1>5, CrashStep, KeptClaims
<1> QED
  BY <1>1, <1>2, <1>3, <1>4, <1>5, StepKinds

\* No mutation makes two roster rows, disabled and deleting ones included,
\* claim one Client ID, over hand edits, failures, outages, store errors and
\* crashes and with the collector running (store.go, AddRosterUser and
\* EditRosterUser; the prune of converge writes back a Client ID it read
\* before), as long as what a poll adopts from a hand-edited config is free.
THEOREM ClientIDsAreUnique ==
    ASSUME RequestsWait, OwnIDs
    PROVE  Spec /\ []AdoptsFree => []UniqueClientIDs
<1>1. Init => OneRequest /\ Claims
  <2> SUFFICES ASSUME Init PROVE OneRequest /\ Claims
    OBVIOUS
  <2>1. OneRequest /\ lpc # "pruneWrite" /\ \A h \in Handlers : hpc[h] # "editWrite"
    BY DEF Init, OneRequest
  <2>2. UniqueClientIDs
    BY DEF Init, InitRow, AbsentRow, UniqueClientIDs, OwnIDs
  <2> QED
    BY <2>1, <2>2 DEF Claims
<1>2. TypeOK /\ OneRequest /\ AdoptsFree /\ Claims /\ [Next]_vars => (OneRequest /\ Claims)'
  BY OneRequestStep, ClaimsStep
<1>3. Claims => UniqueClientIDs
  BY DEF Claims
<1> QED
  BY <1>1, <1>2, <1>3, TypeCorrect, PTL DEF Spec

-----------------------------------------------------------------------------
(* The dashboard's users rows.                                             *)

\* Nobody edits the config by hand: the inbounds stay, and no convergence
\* prunes.  (The transaction of a prune marks its user live: it would undo the
\* mark of a Disable that came between its read and its write.)
NoHandEdits == MaxHandEdits = 0

InboundsStay ==
    /\ file.inbounds = InitInbounds /\ parse.inbounds = InitInbounds
    /\ lpc = "write" => doc.inbounds = InitInbounds
    /\ lpc \in {"list", "next", "check", "enqueue"} => cdoc.inbounds = InitInbounds
    /\ lpc \notin {"prune", "pruneWrite"}
    /\ \A e \in Emails : roster[e].inbounds \subseteq InitInbounds
    /\ \A e \in Emails : recs[e].inbounds \subseteq InitInbounds
    /\ \A h \in Handlers :
          hpc[h] \in {"editCheck", "editWrite"} => req[h].tags \subseteq InitInbounds

\* What a request found of its user is still so when it writes.
Mirrored ==
    /\ UsersFollowRoster
    /\ \A e \in Emails : roster[e].deleting => roster[e].present /\ roster[e].disabled
    /\ \A h \in Handlers :
          /\ hpc[h] = "editWrite" => Live(roster[req[h].email])
          /\ hpc[h] = "enableStore" => Disabled(roster[req[h].email])

\* The selection of a request that arrives is one of the view, and what it
\* found is what the table holds.
LEMMA ArrivalFinds ==
    ASSUME TypeOK, Apart, InboundsStay, NEW h \in Handlers, Arrive(h)
    PROVE  /\ hpc'[h] = "editCheck" => req'[h].tags \subseteq InitInbounds
           /\ hpc'[h] = "enableStore" => Disabled(roster'[req'[h].email])
<1>1. ASSUME NEW kind, NEW r \in Request, NEW pc, pc # "idle", Begin(h, kind, r, pc)
      PROVE  hpc'[h] = pc /\ req'[h].tags = r.tags /\ req'[h].email = r.email
  <2>1. req'[h] = [r EXCEPT !.kind = kind] /\ hpc'[h] = pc
    BY <1>1 DEF Begin, Goto, TypeOK, HandlersOK
  <2> QED
    BY <2>1 DEF Request
<1>2. NoRequest \in Request /\ parse.inbounds = InitInbounds /\ roster \in [Emails -> Row]
  BY NothingTypes DEF InboundsStay, TypeOK, StoreOK
<1>n. hpc \in [Handlers -> HandlerPCs]
  BY DEF TypeOK, HandlersOK
<1>3. ASSUME NEW e \in Emails, NEW id \in Ids, NEW tags \in SUBSET Tags, Add(h, e, id, tags)
      PROVE  hpc'[h] \in {"idle", "enqueue"}
  BY <1>3, <1>n DEF Add, Begin, Goto
<1>4. ASSUME NEW e \in Emails, NEW id \in MaybeId, NEW tags \in SUBSET Tags, Edit(h, e, id, tags)
      PROVE  hpc'[h] = "editCheck" /\ req'[h].tags \subseteq InitInbounds
  <2> DEFINE r == [NoRequest EXCEPT !.email = e, !.id = id, !.tags = tags, !.row = roster[e]]
  <2>1. r \in Request /\ r.tags = tags
    BY <1>2 DEF Request
  <2>2. Begin(h, "edit", r, "editCheck") /\ tags \subseteq InitInbounds
    BY <1>2, <1>4 DEF Edit
  <2> QED
    BY <1>1, <2>1, <2>2
<1>5. ASSUME NEW e \in Emails, NEW id \in MaybeId, Rotate(h, e, id)
      PROVE  hpc'[h] = "editCheck" /\ req'[h].tags \subseteq InitInbounds
  <2> DEFINE kept == roster[e].inbounds \cap parse.inbounds
             r == [NoRequest EXCEPT !.email = e, !.id = id, !.tags = kept,
                                    !.row = [roster[e] EXCEPT !.inbounds = kept]]
  <2>1. kept \in SUBSET Tags /\ [roster[e] EXCEPT !.inbounds = kept] \in Row
    BY <1>2 DEF Row
  <2>2. r \in Request /\ r.tags = kept
    BY <1>2, <2>1 DEF Request
  <2>3. Begin(h, "rotate", r, "editCheck")
    BY <1>5 DEF Rotate
  <2> QED
    BY <1>1, <1>2, <2>2, <2>3
<1>6. ASSUME NEW e \in Emails, Disable(h, e) \/ Delete(h, e)
      PROVE  hpc'[h] \in {"disableTake", "deleteTake", "deleteRead"}
  BY <1>6, <1>n DEF Disable, Delete, Begin, Goto
<1>7. ASSUME NEW e \in Emails, Enable(h, e)
      PROVE  hpc'[h] = "enableStore" /\ Disabled(roster'[req'[h].email])
  <2> DEFINE r == [NoRequest EXCEPT !.email = e, !.id = roster[e].id, !.row = roster[e]]
  <2>1. r \in Request /\ r.email = e
    BY <1>2 DEF Request, Row, NoRequest
  <2>2. Begin(h, "enable", r, "enableStore") /\ Disabled(roster[e]) /\ roster' = roster
    BY <1>7 DEF Enable
  <2> QED
    BY <1>1, <2>1, <2>2
<1> QED
  BY <1>3, <1>4, <1>5, <1>6, <1>7 DEF Arrive

\* The loop keeps the inbounds.
LEMMA LoopInbounds ==
    ASSUME TypeOK, InboundsStay,
           LoopStep \/ LoopStoreFails \/ RenderFails \/ PurgeFails
    PROVE  InboundsStay'
<1>t. /\ roster \in [Emails -> Row] /\ recs \in [Emails -> Row] /\ cdoc \in Document
      /\ hpc \in [Handlers -> HandlerPCs]
  BY DEF TypeOK, StoreOK, LoopOK, HandlersOK
<1>1. CASE \/ Boot \/ (\E e \in Emails : RecoverDelete(e)) \/ Recovered
           \/ LoopKick \/ LoopChange \/ LoopTick
  <2>1. CASE Boot
    BY <1>t, <2>1 DEF Boot, InboundsStay, AbsentRow
  <2>2. ASSUME NEW e \in Emails, RecoverDelete(e) PROVE InboundsStay'
    <3>1. \A f \in Emails : recs'[f] = recs[f] \/ recs'[f] = AbsentRow
      BY <1>t, <2>2 DEF RecoverDelete
    <3>2. lpc' = lpc /\ UNCHANGED <<file, parse, doc, cdoc, hpc, req, roster>>
      BY <2>2 DEF RecoverDelete
    <3> QED
      BY <3>1, <3>2 DEF InboundsStay, AbsentRow
  <2>3. CASE Recovered \/ LoopKick \/ LoopChange \/ LoopTick
    <3>1. /\ lpc' \in {"converge", "apply", "select"}
          /\ UNCHANGED <<file, parse, cdoc, recs, hpc, req, roster>>
      BY <2>3 DEF Recovered, LoopKick, LoopChange, LoopTick
    <3> QED
      BY <3>1 DEF InboundsStay
  <2> QED
    BY <1>1, <2>1, <2>2, <2>3
<1>2. CASE ApplyStep
  <2>1. CASE RenderRead \/ RenderWrite
    <3>1. RenderClients(file, snap).inbounds = file.inbounds
      BY DEF RenderClients, TypeOK, FilesOK, Document
    <3>2. CASE RenderRead
      <4>1. /\ lpc' \in {"pick", "write"} /\ doc'.inbounds = file.inbounds
            /\ UNCHANGED <<file, parse, cdoc, recs, hpc, req, roster>>
        BY <3>1, <3>2 DEF RenderRead
      <4> QED
        BY <4>1 DEF InboundsStay
    <3>3. CASE RenderWrite
      <4>1. /\ lpc = "write" /\ lpc' = "pick" /\ file' = doc
            /\ UNCHANGED <<parse, cdoc, recs, hpc, req, roster>>
        BY <3>3 DEF RenderWrite
      <4> QED
        BY <4>1 DEF InboundsStay
    <3> QED
      BY <2>1, <3>2, <3>3
  <2>2. CASE Settle
    <3>1. \A e \in Emails : roster'[e] = roster[e] \/ roster'[e] = AbsentRow
      BY <1>t, <2>2 DEF Settle, PurgeRosterUser
    <3>2. /\ lpc' = "pick"
          /\ UNCHANGED <<file, parse, doc, cdoc, recs, hpc, req>>
      BY <2>2 DEF Settle, AfterSettle
    <3> QED
      BY <3>1, <3>2 DEF InboundsStay, AbsentRow
  <2>3. CASE \/ ApplySnapshot \/ (\E e \in Emails : PassPick(e))
             \/ (\E t \in Tags : Push(t) \/ PushFails(t)) \/ PassDone
    <3>1. /\ lpc' \notin {"write", "list", "next", "check", "enqueue", "prune", "pruneWrite"}
          /\ UNCHANGED <<file, parse, cdoc, recs, hpc, req, roster>>
      BY <2>3 DEF ApplySnapshot, AfterPass, PassPick, NextOp, Push, PushFails, PassDone
    <3> QED
      BY <3>1 DEF InboundsStay
  <2> QED
    BY <1>2, <2>1, <2>2, <2>3 DEF ApplyStep
<1>3. CASE ConvergeStep
  <2>1. CASE ConvergeRead \/ ConvergeView \/ Converged \/ ConvergeList
    BY <1>t, <2>1 DEF ConvergeRead, ConvergeView, Converged, ConvergeList, InboundsStay, AbsentRow, Document
  <2>2. ASSUME NEW e \in Emails, ConvergeNext(e) PROVE InboundsStay'
    <3>1. recs[e].inbounds \subseteq cdoc.inbounds
      BY <2>2 DEF ConvergeNext, InboundsStay
    <3>2. /\ lpc' \in {"next", "check"} /\ cdoc.inbounds = InitInbounds
          /\ \/ recs' = [recs EXCEPT ![e] = AbsentRow]
             \/ recs' = [recs EXCEPT ![e] = recs[e]]
          /\ UNCHANGED <<file, parse, cdoc, hpc, req, roster>>
      BY <2>2, <3>1 DEF ConvergeNext, SkipRecord, WithRecord, InboundsStay
    <3>3. \A f \in Emails : recs'[f] = recs[f] \/ recs'[f] = AbsentRow
      BY <1>t, <3>2
    <3> QED
      BY <3>2, <3>3 DEF InboundsStay, AbsentRow
  <2>3. CASE ConvergeCheck \/ ConvergeEnqueue
    <3>1. /\ lpc' \in {"next", "enqueue"} /\ cdoc.inbounds = InitInbounds
          /\ \/ recs' = [recs EXCEPT ![cur] = AbsentRow]
             \/ recs' = recs
          /\ UNCHANGED <<file, parse, cdoc, hpc, req, roster>>
      BY <2>3 DEF ConvergeCheck, ConvergeEnqueue, SkipRecord, InboundsStay
    <3>2. \A f \in Emails : recs'[f] = recs[f] \/ recs'[f] = AbsentRow
      BY <1>t, <3>1
    <3> QED
      BY <3>1, <3>2 DEF InboundsStay, AbsentRow
  <2>4. ~ConvergePrune /\ ~ConvergePruneWrite
    BY DEF ConvergePrune, ConvergePruneWrite, InboundsStay
  <2> QED
    BY <1>3, <2>1, <2>2, <2>3, <2>4 DEF ConvergeStep
<1>4. CASE LoopStoreFails
  <2>1. /\ lpc' \in {"recover", "select", "enqueue"} /\ recs' = recs
        /\ lpc' = "enqueue" => lpc = "check" /\ cdoc' = cdoc
        /\ UNCHANGED <<file, parse, hpc, req, roster>>
    BY <1>4 DEF LoopStoreFails, InboundsStay
  <2> QED
    BY <2>1 DEF InboundsStay
<1>5. CASE RenderFails \/ PurgeFails
  <2>1. lpc' = "pick" /\ UNCHANGED <<file, parse, cdoc, recs, hpc, req, roster>>
    BY <1>5 DEF RenderFails, PurgeFails, AfterSettle
  <2> QED
    BY <2>1 DEF InboundsStay
<1> QED
  BY <1>1, <1>2, <1>3, <1>4, <1>5 DEF LoopStep

LEMMA InboundsStep ==
    ASSUME TypeOK, Apart, NoHandEdits, Exclusive, InboundsStay, [Next]_vars
    PROVE  InboundsStay'
<1>t. /\ roster \in [Emails -> Row] /\ hpc \in [Handlers -> HandlerPCs]
      /\ req \in [Handlers -> Request] /\ parse.inbounds = InitInbounds
  BY DEF TypeOK, StoreOK, HandlersOK, InboundsStay
<1>1. CASE UNCHANGED vars
  BY <1>1 DEF vars, InboundsStay
<1>2. ASSUME NEW h \in Handlers, Arrive(h) PROVE InboundsStay'
  <2>1. /\ \A g \in Handlers : hpc'[g] # "editWrite"
        /\ \A g \in Handlers \ {h} : hpc'[g] = "idle"
        /\ UNCHANGED <<file, parse, loopVars>>
        /\ UNCHANGED storeVars \/ \E e \in Emails, id \in Ids, tags \in SUBSET Tags :
                                      Add(h, e, id, tags)
    BY <1>2, ArrivesAlone DEF Apart
  <2>2. ASSUME NEW e \in Emails, NEW id \in Ids, NEW tags \in SUBSET Tags, Add(h, e, id, tags)
        PROVE  \A f \in Emails : roster'[f].inbounds \subseteq InitInbounds
    <3>1. roster'[e].inbounds = tags /\ \A f \in Emails \ {e} : roster'[f] = roster[f]
      BY <1>t, <2>2 DEF Add, AddRosterUser, Row
    <3>2. tags \subseteq InitInbounds
      BY <1>t, <2>2 DEF Add
    <3> QED
      BY <3>1, <3>2 DEF InboundsStay
  <2>3. \A f \in Emails : roster'[f].inbounds \subseteq InitInbounds
    BY <2>1, <2>2 DEF InboundsStay
  <2>4. hpc'[h] = "editCheck" => req'[h].tags \subseteq InitInbounds
    BY <1>2, ArrivalFinds
  <2> QED
    BY <2>1, <2>3, <2>4 DEF InboundsStay
<1>3. ASSUME NEW h \in Handlers, HandlerStep(h) \/ StoreFails(h) PROVE InboundsStay'
  <2>1. /\ hpc[h] # "idle"
        /\ \A g \in Handlers \ {h} : hpc'[g] = hpc[g] /\ req'[g] = req[g]
        /\ hpc'[h] = "editWrite" => EditCheck(h)
        /\ UNCHANGED <<file, parse, loopVars>>
        /\ \/ UNCHANGED storeVars
           \/ EditWrite(h) \/ DisableStore(h) \/ DeleteMark(h) \/ EnableStore(h)
    BY <1>3, OwnStep
  <2>2. \A f \in Emails : roster'[f].inbounds \subseteq InitInbounds
    <3>1. CASE EditWrite(h)
      <4>1. \A f \in Emails : roster'[f].inbounds \in {roster[f].inbounds, req[h].tags}
        BY <1>t, <3>1 DEF EditWrite, EditRosterUser, Row
      <4>2. req[h].tags \subseteq InitInbounds
        BY <3>1 DEF EditWrite, InboundsStay
      <4> QED
        BY <4>1, <4>2 DEF InboundsStay
    <3>2. CASE DisableStore(h)
      <4>1. \A f \in Emails : roster'[f].inbounds = roster[f].inbounds
        BY <1>t, <3>2 DEF DisableStore, DisableRosterUser, Row
      <4> QED
        BY <4>1 DEF InboundsStay
    <3>3. CASE DeleteMark(h)
      <4>1. \A f \in Emails : roster'[f].inbounds = roster[f].inbounds
        BY <1>t, <3>3 DEF DeleteMark, MarkRosterDeleting, Row
      <4> QED
        BY <4>1 DEF InboundsStay
    <3>4. CASE EnableStore(h)
      <4>1. \A f \in Emails : roster'[f].inbounds = roster[f].inbounds
        BY <1>t, <3>4 DEF EnableStore, EnableRosterUser, Row
      <4> QED
        BY <4>1 DEF InboundsStay
    <3> QED
      BY <2>1, <3>1, <3>2, <3>3, <3>4 DEF InboundsStay
  <2>3. hpc'[h] \in {"editCheck", "editWrite"} => req'[h].tags \subseteq InitInbounds
    <3>1. CASE EditCheck(h)
      <4>1. hpc'[h] \in {"editCheck", "editWrite"} =>
              \E id \in MaybeId : req' = [req EXCEPT ![h].id = id]
        BY <1>t, <3>1 DEF EditCheck, Answer, Goto, AfterEdit, TypeOK, HandlersOK, Request, Row
      <4>2. hpc'[h] \in {"editCheck", "editWrite"} => req'[h].tags = req[h].tags
        BY <1>t, <4>1 DEF Request
      <4>3. req[h].tags \subseteq InitInbounds
        BY <3>1 DEF EditCheck, InboundsStay
      <4> QED
        BY <4>2, <4>3
    <3>2. CASE EnableStore(h)
      <4>1. hpc'[h] = "editCheck" =>
              req'[h].tags = req[h].row.inbounds \cap parse.inbounds
        <5> DEFINE kept == req[h].row.inbounds \cap parse.inbounds
                   next == [req[h] EXCEPT !.tags = kept, !.ops = AttachOps(kept)]
        <5>1. hpc'[h] = "editCheck" => req' = [req EXCEPT ![h] = [next EXCEPT !.id = None]]
          BY <1>t, <3>2 DEF EnableStore, Answer, Goto
        <5>2. next.tags = kept /\ [next EXCEPT !.id = None].tags = kept
          BY <1>t DEF Request
        <5> HIDE DEF next, kept
        <5>3. hpc'[h] = "editCheck" => req'[h].tags = kept
          BY <1>t, <5>1, <5>2
        <5> QED
          BY <5>3 DEF kept
      <4>2. hpc'[h] # "editWrite"
        BY <1>t, <3>2 DEF EnableStore, Answer, Goto
      <4> QED
        BY <1>t, <4>1, <4>2
    <3>3. CASE ~EditCheck(h) /\ ~EnableStore(h)
      <4>1. hpc'[h] # "editCheck"
        BY <1>3, <1>t, <3>3
           DEF HandlerStep, EditWrite, EditTake, AfterEdit, DisableTake, DisableStore, DeleteRead,
               DeleteTake, DeleteMark, Enqueue, Kick, StoreFails, Answer, Goto
      <4> QED
        BY <2>1, <3>3, <4>1
    <3> QED
      BY <3>1, <3>2, <3>3
  <2> QED
    BY <2>1, <2>2, <2>3 DEF InboundsStay
<1>4. CASE LoopStep \/ LoopStoreFails \/ RenderFails \/ PurgeFails
  BY <1>4, LoopInbounds
<1>5. CASE Reload \/ CollectorStep \/ XrayStart \/ XrayStop
  BY <1>5 DEF Reload, ParseOf, CollectorStep, Sample, Flush, XrayStart, XrayStop, InboundsStay,
              Exclusive
<1>6. ~HandEdit
  <2>1. Bounds["handEdits"] = 0 /\ spent["handEdits"] \in Nat
    BY DEF Bounds, NoHandEdits, TypeOK, SpentOK
  <2> QED
    BY <2>1 DEF HandEdit, Spend
<1>7. CASE Crash
  BY <1>7 DEF Crash, ParseOf, InboundsStay, NoRecords, AbsentRow
<1> QED
  BY <1>1, <1>2, <1>3, <1>4, <1>5, <1>6, <1>7, StepKinds

\* A row and its mark that are left alone stay in step.
Follows(e) ==
    /\ roster[e].present => users[e] = (IF roster[e].disabled THEN "disabled" ELSE "live")
    /\ roster[e].deleting => roster[e].present /\ roster[e].disabled

LEMMA MirroredStep ==
    ASSUME TypeOK, Apart, Exclusive, InboundsStay, Mirrored, [Next]_vars
    PROVE  Mirrored'
<1>t. /\ roster \in [Emails -> Row] /\ users \in [Emails -> UserMarks]
      /\ hpc \in [Handlers -> HandlerPCs] /\ req \in [Handlers -> Request]
      /\ \A h \in Handlers : hpc[h] # "idle" => req[h].email \in Emails
  BY DEF TypeOK, StoreOK, HandlersOK
<1>f. \A e \in Emails : Follows(e)
  BY DEF Mirrored, UsersFollowRoster, Follows
<1>g. ASSUME \A e \in Emails : Follows(e)',
             \A h \in Handlers : /\ hpc'[h] = "editWrite" => Live(roster'[req'[h].email])
                                 /\ hpc'[h] = "enableStore" => Disabled(roster'[req'[h].email])
      PROVE  Mirrored'
  BY <1>g DEF Mirrored, UsersFollowRoster, Follows
<1>1. CASE UNCHANGED vars
  BY <1>1 DEF vars, Mirrored, UsersFollowRoster
<1>2. ASSUME NEW h \in Handlers, Arrive(h) PROVE Mirrored'
  <2>1. /\ \A g \in Handlers : hpc'[g] # "editWrite"
        /\ \A g \in Handlers \ {h} : hpc'[g] = "idle"
        /\ UNCHANGED storeVars \/ \E e \in Emails, id \in Ids, tags \in SUBSET Tags :
                                      Add(h, e, id, tags)
    BY <1>2, ArrivesAlone DEF Apart
  <2>2. hpc'[h] = "enableStore" => Disabled(roster'[req'[h].email])
    BY <1>2, ArrivalFinds
  <2>3. ASSUME NEW e \in Emails, NEW id \in Ids, NEW tags \in SUBSET Tags, Add(h, e, id, tags),
               NEW f \in Emails
        PROVE  Follows(f)'
    <3>1. CASE f = e
      <4>1. /\ users'[e] = "live" /\ roster'[e].disabled = FALSE
            /\ roster'[e].deleting = roster[e].deleting
            /\ ~(roster[e].present /\ roster[e].deleting)
        BY <1>t, <2>3 DEF Add, AddRosterUser, AddConflict, UserLive, Row
      <4> QED
        BY <1>f, <3>1, <4>1 DEF Follows
    <3>2. CASE f # e
      <4>1. users'[f] = users[f] /\ roster'[f] = roster[f]
        BY <1>t, <2>3, <3>2 DEF Add, AddRosterUser, UserLive
      <4> QED
        BY <1>f, <4>1 DEF Follows
    <3> QED
      BY <3>1, <3>2
  <2>4. ASSUME UNCHANGED storeVars, NEW f \in Emails PROVE Follows(f)'
    BY <1>f, <2>4 DEF Follows
  <2> QED
    BY <1>g, <2>1, <2>2, <2>3, <2>4
<1>3. ASSUME NEW h \in Handlers, HandlerStep(h) \/ StoreFails(h) PROVE Mirrored'
  <2>1. /\ hpc[h] # "idle"
        /\ \A g \in Handlers \ {h} : hpc'[g] = hpc[g]
        /\ hpc'[h] # "idle" => req'[h].email = req[h].email
        /\ hpc'[h] = "editWrite" => EditCheck(h)
        /\ hpc'[h] # "enableStore"
        /\ \/ UNCHANGED storeVars
           \/ EditWrite(h) \/ DisableStore(h) \/ DeleteMark(h) \/ EnableStore(h)
    BY <1>3, OwnStep
  <2>p. PICK e \in Emails : e = req[h].email
    BY <1>t, <2>1
  <2>2. \A g \in Handlers \ {h} : hpc'[g] = "idle"
    BY <2>1 DEF Exclusive, OneRequest
  <2>3. hpc'[h] = "editWrite" => Live(roster'[req'[h].email])
    <3>1. EditCheck(h) /\ hpc'[h] = "editWrite" => Live(roster[e]) /\ roster' = roster
      BY <1>t, <2>p DEF EditCheck, Answer, Goto, AfterEdit
    <3> QED
      BY <2>1, <2>p, <3>1
  <2>4. users[e] \in UserMarks /\ roster[e] \in Row /\ Follows(e)
    BY <1>f, <1>t
  <2>5. ASSUME \A f \in Emails \ {e} : roster'[f] = roster[f] /\ users'[f] = users[f],
               Follows(e)'
        PROVE  Mirrored'
    <3>1. ASSUME NEW f \in Emails, f # e PROVE Follows(f)'
      BY <1>f, <2>5, <3>1 DEF Follows
    <3>2. \A f \in Emails : Follows(f)'
      BY <2>5, <3>1
    <3> QED
      BY <1>g, <2>1, <2>2, <2>3, <3>2
  <2>6. CASE UNCHANGED storeVars
    BY <2>4, <2>5, <2>6 DEF Follows
  <2>7. CASE EditWrite(h)
    <3>1. Live(roster[e])
      BY <2>7, <2>p DEF EditWrite, Mirrored
    <3>2. /\ \A f \in Emails \ {e} : roster'[f] = roster[f] /\ users'[f] = users[f]
          /\ users'[e] = "live" /\ roster'[e].disabled = roster[e].disabled
          /\ roster'[e].deleting = roster[e].deleting
          /\ roster'[e].present = roster[e].present
      BY <1>t, <2>7, <2>p DEF EditWrite, EditRosterUser, UserLive, Row
    <3>3. Follows(e)'
      BY <3>1, <3>2 DEF Live, Follows
    <3> QED
      BY <2>5, <3>2, <3>3
  <2>8. CASE DisableStore(h)
    <3>1. /\ roster' = DisableRosterUser(roster, e) /\ users' = UserDisabled(users, e)
      BY <2>8, <2>p DEF DisableStore
    <3>2. \A f \in Emails \ {e} : roster'[f] = roster[f] /\ users'[f] = users[f]
      BY <1>t, <3>1 DEF DisableRosterUser, UserDisabled
    <3>3. users'[e] = IF users[e] = "live" THEN "disabled" ELSE users[e]
      BY <1>t, <3>1 DEF UserDisabled
    <3>4. CASE Live(roster[e])
      <4>1. /\ roster'[e].disabled = TRUE /\ roster'[e].present = roster[e].present
            /\ roster'[e].deleting = roster[e].deleting
        BY <1>t, <3>1, <3>4 DEF DisableRosterUser, Row
      <4>2. users[e] = "live"
        BY <2>4, <3>4 DEF Follows, Live
      <4>3. Follows(e)'
        BY <2>4, <3>3, <4>1, <4>2 DEF Follows
      <4> QED
        BY <2>5, <3>2, <4>3
    <3>5. CASE ~Live(roster[e])
      <4>1. roster'[e] = roster[e]
        BY <1>t, <3>1, <3>5 DEF DisableRosterUser
      <4>2. roster[e].present => roster[e].disabled
        BY <2>4, <3>5 DEF Follows, Live
      <4>3. Follows(e)'
        BY <2>4, <3>3, <4>1, <4>2 DEF Follows
      <4> QED
        BY <2>5, <3>2, <4>3
    <3> QED
      BY <3>4, <3>5
  <2>9. CASE DeleteMark(h)
    <3>1. /\ roster' = MarkRosterDeleting(roster, e) /\ users' = UserDisabled(users, e)
      BY <2>9, <2>p DEF DeleteMark
    <3>2. \A f \in Emails \ {e} : roster'[f] = roster[f] /\ users'[f] = users[f]
      BY <1>t, <3>1 DEF MarkRosterDeleting, UserDisabled
    <3>3. users'[e] = IF users[e] = "live" THEN "disabled" ELSE users[e]
      BY <1>t, <3>1 DEF UserDisabled
    <3>4. CASE roster[e].present /\ ~roster[e].deleting
      <4>1. /\ roster'[e].disabled = TRUE /\ roster'[e].present = roster[e].present
            /\ roster'[e].deleting = TRUE
        BY <1>t, <3>1, <3>4 DEF MarkRosterDeleting, Row
      <4>2. users[e] \in {"live", "disabled"}
        BY <2>4, <3>4 DEF Follows
      <4>3. Follows(e)'
        BY <3>3, <3>4, <4>1, <4>2 DEF Follows
      <4> QED
        BY <2>5, <3>2, <4>3
    <3>5. CASE ~(roster[e].present /\ ~roster[e].deleting)
      <4>1. roster'[e] = roster[e]
        BY <1>t, <3>1, <3>5 DEF MarkRosterDeleting
      <4>2. Follows(e)'
        BY <2>4, <3>3, <3>5, <4>1 DEF Follows
      <4> QED
        BY <2>5, <3>2, <4>2
    <3> QED
      BY <3>4, <3>5
  <2>10. CASE EnableStore(h)
    <3>1. /\ roster' = EnableRosterUser(roster, e) /\ users' = UserEnabled(users, e)
          /\ Disabled(roster[e])
      BY <2>10, <2>p DEF EnableStore, Mirrored
    <3>2. \A f \in Emails \ {e} : roster'[f] = roster[f] /\ users'[f] = users[f]
      BY <1>t, <3>1 DEF EnableRosterUser, UserEnabled
    <3>3. users[e] = "disabled" /\ roster[e].deleting = FALSE
      BY <2>4, <3>1 DEF Follows, Disabled, Row
    <3>4. /\ users'[e] = "live" /\ roster'[e].disabled = FALSE
          /\ roster'[e].deleting = roster[e].deleting
      BY <1>t, <3>1, <3>3 DEF EnableRosterUser, UserEnabled, Row
    <3>5. Follows(e)'
      BY <3>3, <3>4 DEF Follows
    <3> QED
      BY <2>5, <3>2, <3>5
  <2> QED
    BY <2>1, <2>6, <2>7, <2>8, <2>9, <2>10
<1>4. CASE \/ LoopStep \/ Reload \/ CollectorStep \/ XrayStart
           \/ LoopStoreFails \/ RenderFails \/ PurgeFails \/ HandEdit \/ XrayStop
  <2>1. UNCHANGED handlerVars /\ (UNCHANGED storeVars \/ Settle \/ ConvergePruneWrite)
    BY <1>4, OthersStep, ExclusiveStep DEF CollectorStep
  <2>2. ~ConvergePruneWrite
    BY DEF ConvergePruneWrite, InboundsStay
  <2>3. CASE UNCHANGED storeVars
    BY <2>1, <2>3 DEF Mirrored, UsersFollowRoster
  <2>4. CASE Settle
    <3>1. ASSUME NEW e \in Emails
          PROVE  \/ roster'[e] = roster[e] /\ users'[e] = users[e]
                 \/ roster'[e] = AbsentRow /\ Deleting(roster[e])
      BY <1>t, <2>4 DEF Settle, PurgeRosterUser, UserPurged
    <3>2. ASSUME NEW e \in Emails PROVE Follows(e)'
      BY <1>f, <3>1 DEF Follows, AbsentRow
    <3>3. ASSUME NEW h \in Handlers
          PROVE  /\ hpc[h] = "editWrite" => Live(roster'[req[h].email])
                 /\ hpc[h] = "enableStore" => Disabled(roster'[req[h].email])
      BY <1>t, <3>1 DEF Mirrored, Live, Disabled, Deleting
    <3> QED
      BY <1>g, <2>1, <3>2, <3>3
  <2> QED
    BY <2>1, <2>2, <2>3, <2>4
<1>5. CASE Crash
  BY <1>5, <1>g, <1>f, CrashStep DEF Follows
<1> QED
  BY <1>1, <1>2, <1>3, <1>4, <1>5, StepKinds

\* The dashboard's users row follows the roster row through the paired UPDATEs
\* of the store's transactions (store.go, AddRosterUser to PurgeRosterUser):
\* disabled exactly when the user is off the Roster.
THEOREM UsersRowsFollow ==
    ASSUME Apart, NoHandEdits
    PROVE  Spec => []UsersFollowRoster
<1>1. Init => Exclusive /\ InboundsStay /\ Mirrored
  <2> SUFFICES ASSUME Init PROVE Exclusive /\ InboundsStay /\ Mirrored
    OBVIOUS
  <2>1. Exclusive /\ lpc = "boot" /\ \A h \in Handlers : hpc[h] = "idle"
    BY DEF Init, Exclusive, OneRequest, NothingSampled
  <2>2. /\ file.inbounds = InitInbounds /\ parse.inbounds = InitInbounds
        /\ \A e \in Emails : roster[e] = InitRow(e) /\ recs[e] = AbsentRow
    BY DEF Init, InitDocument, ParseOf, NoRecords
  <2>3. \A e \in Emails : InitRow(e).inbounds \subseteq InitInbounds
    BY DEF InitRow, AbsentRow
  <2>4. InboundsStay
    BY <2>1, <2>2, <2>3 DEF InboundsStay, AbsentRow
  <2>5. \A e \in Emails : users[e] = IF e \in DOMAIN Enrolled THEN "live" ELSE "none"
    BY DEF Init
  <2>6. ASSUME NEW e \in Emails PROVE Follows(e)
    <3>r. roster[e] = InitRow(e)
      BY <2>2
    <3>1. CASE e \in DOMAIN Enrolled
      <4>1. users[e] = "live"
        BY <2>5, <3>1
      <4>2. roster[e].present = TRUE /\ roster[e].disabled = FALSE /\ roster[e].deleting = FALSE
        BY <3>1, <3>r DEF InitRow
      <4> QED
        BY <4>1, <4>2 DEF Follows
    <3>2. CASE e \notin DOMAIN Enrolled
      <4>1. roster[e].present = FALSE /\ roster[e].deleting = FALSE
        BY <3>2, <3>r DEF InitRow, AbsentRow
      <4> QED
        BY <4>1 DEF Follows
    <3> QED
      BY <3>1, <3>2
  <2>7. Mirrored
    BY <2>1, <2>6 DEF Mirrored, UsersFollowRoster, Follows
  <2> QED
    BY <2>1, <2>4, <2>7
<1>2. TypeOK /\ Exclusive /\ InboundsStay /\ Mirrored /\ [Next]_vars =>
        (Exclusive /\ InboundsStay /\ Mirrored)'
  BY ExclusiveStep, InboundsStep, MirroredStep
<1>3. Mirrored => UsersFollowRoster
  BY DEF Mirrored
<1> QED
  BY <1>1, <1>2, <1>3, TypeCorrect, PTL DEF Spec
=============================================================================
