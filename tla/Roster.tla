------------------------------- MODULE Roster -------------------------------
(***************************************************************************)
(* The data of the roster write path and the pure operators on it:         *)
(*   - the roster and users tables and the SQL transactions of             *)
(*     internal/users/store.go, each as an operator from the tables to the *)
(*     tables;                                                             *)
(*   - the pending changes of internal/roster/service.go and the planning  *)
(*     of their per-inbound operations (diffOps and its siblings);         *)
(*   - the xray config document, what a render does to it (entry by entry, *)
(*     internal/xrayconfig/render.go) and what the pushes do to the        *)
(*     running xray (external).                                            *)
(*                                                                         *)
(* An email is the identity of a user, a tag names a managed (tagged,      *)
(* VLESS) inbound, an id is a Client ID.  Labels, flows and timestamps are *)
(* left out: nothing below reads them except the no-op probe of an edit.   *)
(***************************************************************************)
EXTENDS Naturals, FiniteSets

CONSTANTS
    Emails,     \* user identities
    Tags,       \* tags of managed inbounds
    Ids,        \* Client IDs (UUIDs in canonical form)
    None        \* no Client ID

ASSUME NoneAssumption == None \notin Ids

MaybeId == Ids \cup {None}

-----------------------------------------------------------------------------
(* The store: the roster table and the users (dashboard) table.            *)

Row == [present : BOOLEAN, id : MaybeId, inbounds : SUBSET Tags,
        disabled : BOOLEAN, deleting : BOOLEAN]

AbsentRow == [present |-> FALSE, id |-> None, inbounds |-> {},
              disabled |-> FALSE, deleting |-> FALSE]

\* A users row: absent, or present with its disabled flag.
UserMarks == {"none", "live", "disabled"}

\* RosterRecord: a disabled or deleting row reads as absent.
Live(row) == row.present /\ ~row.disabled /\ ~row.deleting

\* DisabledRosterRecord: the kept row of a disabled user.
Disabled(row) == row.present /\ row.disabled /\ ~row.deleting

\* DeletingRosterRecords: rows that await their purge.
Deleting(row) == row.present /\ row.deleting

\* Mutant: only live rows would hold their claim on a Client ID.
ClientIDTakenByLive(roster, e, id) ==
    \E f \in Emails \ {e} : Live(roster[f]) /\ roster[f].id = id

\* The Client ID is claimed by another email's row, whatever its flags.
ClientIDTaken(roster, e, id) ==
    \E f \in Emails \ {e} : roster[f].present /\ roster[f].id = id

\* AddRosterUser refuses an email that is on the roster or being deleted.
AddConflict(roster, e, id) ==
    \/ roster[e].present /\ (roster[e].deleting \/ ~roster[e].disabled)
    \/ ClientIDTaken(roster, e, id)

\* Insert, or revive of the flagged row, carrying the new credential.
AddRosterUser(roster, e, id, inbounds) ==
    [roster EXCEPT ![e] = [@ EXCEPT !.present = TRUE, !.id = id,
                                    !.inbounds = inbounds, !.disabled = FALSE]]

DisableRosterUser(roster, e) ==
    [roster EXCEPT ![e] = IF Live(@) THEN [@ EXCEPT !.disabled = TRUE] ELSE @]

\* A row already deleting is not written again.
MarkRosterDeleting(roster, e) ==
    [roster EXCEPT ![e] = IF @.present /\ ~@.deleting
                          THEN [@ EXCEPT !.disabled = TRUE, !.deleting = TRUE]
                          ELSE @]

\* Mutant: the flag of the roster row would stay set.
EnableKeepsFlag(roster, e) == roster

\* The UPDATE filters on the email alone.
EnableRosterUser(roster, e) ==
    [roster EXCEPT ![e].disabled = FALSE]

\* Mutant: an edit would replace the row, flags included.
EditReplacesRow(roster, e, id, inbounds) ==
    [roster EXCEPT ![e] = [AbsentRow EXCEPT !.present = TRUE, !.id = id,
                                            !.inbounds = inbounds]]

\* The UPDATE of an edit filters on the email alone: no row, no write.
EditRosterUser(roster, e, id, inbounds) ==
    [roster EXCEPT ![e] = IF @.present
                          THEN [@ EXCEPT !.id = id, !.inbounds = inbounds]
                          ELSE @]

PurgeRosterUser(roster, e) ==
    [roster EXCEPT ![e] = IF Deleting(@) THEN AbsentRow ELSE @]

\* The users-table half of the same transactions.
UserLive(users, e) == [users EXCEPT ![e] = "live"]
\* Mutant: the transaction would forget the users row.
UserDisabledForgotten(users, e) == users
UserDisabled(users, e) ==
    [users EXCEPT ![e] = IF @ = "live" THEN "disabled" ELSE @]
UserEnabled(users, e) ==
    [users EXCEPT ![e] = IF @ = "disabled" THEN "live" ELSE @]
UserPurged(users, roster, e) ==
    [users EXCEPT ![e] = IF Deleting(roster[e]) THEN "none" ELSE @]

-----------------------------------------------------------------------------
(* The config document and the clients it attaches.                        *)

Clients == [Tags -> [Emails -> MaybeId]]
Document == [inbounds : SUBSET Tags, clients : Clients]
NoClients == [t \in Tags |-> [e \in Emails |-> None]]
EmptyDocument == [inbounds |-> {}, clients |-> NoClients]

\* The inbounds that carry e in a document, and e's Client ID in the parse
\* (the first inbound's wins; config order is a fixed order on the tags).
Carrying(clients, e) == {t \in Tags : clients[t][e] # None}
ParsedID(clients, e) == clients[CHOOSE t \in Carrying(clients, e) : TRUE][e]

\* syncLabels: users without an enabled roster row go disabled, then every
\* client of the parse is upserted; a disabled roster row keeps its mark.
SyncLabels(users, roster, clients) ==
    [e \in Emails |->
        LET swept == IF users[e] = "live" /\ ~(roster[e].present /\ ~roster[e].disabled)
                     THEN "disabled" ELSE users[e]
        IN  IF Carrying(clients, e) = {} THEN swept
            ELSE IF swept # "none" /\ roster[e].present /\ roster[e].disabled
                 THEN swept ELSE "live"]

\* adoptClients: unknown clients join the roster, known ones only gain
\* attachments, disabled rows are left alone.
AdoptClients(roster, clients) ==
    [e \in Emails |->
        IF Carrying(clients, e) = {} \/ (roster[e].present /\ roster[e].disabled)
        THEN roster[e]
        ELSE IF ~roster[e].present
        THEN [AbsentRow EXCEPT !.present = TRUE,
                               !.id = ParsedID(clients, e),
                               !.inbounds = Carrying(clients, e)]
        ELSE [roster[e] EXCEPT !.inbounds = @ \cup Carrying(clients, e)]]

-----------------------------------------------------------------------------
(* Pending changes: one operation (or none) per inbound.                   *)

OpKinds == {"none", "attach", "detach", "rotate"}
Ops == [Tags -> OpKinds]
NoOps == [t \in Tags |-> "none"]
AttachOps(tags) == [t \in Tags |-> IF t \in tags THEN "attach" ELSE "none"]
DetachOps(tags) == [t \in Tags |-> IF t \in tags THEN "detach" ELSE "none"]
Touched(ops) == {t \in Tags : ops[t] # "none"}

Change == [queued : BOOLEAN, id : MaybeId, ops : Ops, gen : Nat, purge : BOOLEAN]
NoChange == [queued |-> FALSE, id |-> None, ops |-> NoOps, gen |-> 0, purge |-> FALSE]

\* The tags a disable detaches: the record's, and those an unfinished change
\* attaches or rotates.
DisableOps(row, prev) ==
    DetachOps(row.inbounds \cup {t \in Tags : prev[t] \in {"attach", "rotate"}})

\* Mutant: a delete would detach the record's own tags only.
DeleteOpsOfRecord(row, prev) == DetachOps(row.inbounds)

\* A delete detaches every tag the unfinished change touched.
DeleteOps(row, prev) == DetachOps(row.inbounds \cup Touched(prev))

\* Mutant: an unfinished detach would not be owed any more.
DiffOpsForgetsDetach(before, afterID, after, prev) ==
    [t \in Tags |->
        LET joined == prev[t] \in {"attach", "rotate"}
            stayed == t \in before.inbounds
        IN  IF t \in after
            THEN IF (before.id # afterID /\ stayed) \/ joined THEN "rotate"
                 ELSE IF ~stayed \/ prev # NoOps THEN "attach" ELSE "none"
            ELSE IF stayed THEN "detach" ELSE "none"]

\* Mutant: a tag an unfinished change touched would get a bare add.
DiffOpsBareAdd(before, afterID, after, prev) ==
    [t \in Tags |->
        LET stayed == t \in before.inbounds
        IN  IF t \in after
            THEN IF before.id # afterID /\ stayed THEN "rotate"
                 ELSE IF ~stayed \/ prev # NoOps THEN "attach" ELSE "none"
            ELSE IF stayed \/ prev[t] = "detach" THEN "detach" ELSE "none"]

\* diffOps: the operations from the before record to the after record, given
\* the operations prev of a change that never finished applying. There is one
\* operation of a tag: a detach that the code plans twice finds nothing the
\* second time.
DiffOps(before, afterID, after, prev) ==
    [t \in Tags |->
        LET joined == prev[t] \in {"attach", "rotate"}
            stayed == t \in before.inbounds
        IN  IF t \in after
            THEN IF (before.id # afterID /\ stayed) \/ joined THEN "rotate"
                 ELSE IF ~stayed \/ prev # NoOps THEN "attach" ELSE "none"
            ELSE IF stayed \/ prev[t] = "detach" THEN "detach" ELSE "none"]

\* What one operation does to the entry of its email in the rendered clients
\* array: an append never rewrites an entry the array already carries.
RenderEntry(entry, op, id) ==
    CASE op = "attach" -> (IF entry = None THEN id ELSE entry)
      [] op = "detach" -> None
      [] op = "rotate" -> id
      [] OTHER -> entry

\* RenderClients for one snapshot of changes; a tag the document lacks is
\* skipped. Entry by entry, as the text edits do where they compose (RenderSpans
\* has the text, and the plans whose edits overlap): an array holds a client
\* that is not among Emails, so that a plan never removes the last two entries
\* of it, nor its only one beside an append.
RenderClients(document, changes) ==
    [document EXCEPT !.clients =
        [t \in Tags |-> [e \in Emails |->
            IF t \in document.inbounds /\ changes[e].queued
            THEN RenderEntry(@[t][e], changes[e].ops[t], changes[e].id)
            ELSE @[t][e]]]]

\* The answer of the running xray to an operation's calls: an add of a known
\* email is "already exists" and changes nothing, a remove of an unknown one
\* is "not found"; the pusher reads both as success.  A rotate is remove+add.
AddUser(entry, id) == IF entry = None THEN id ELSE entry
RemoveUser(entry) == None
PushEntry(entry, op, id) ==
    CASE op = "attach" -> AddUser(entry, id)
      [] op = "detach" -> RemoveUser(entry)
      [] op = "rotate" -> AddUser(RemoveUser(entry), id)
      [] OTHER -> entry

\* What a push that answers an error may have left behind: nothing, all of
\* it, or a rotate's remove alone.
FailedPushOutcomes(entry, op, id) ==
    {entry, PushEntry(entry, op, id)} \cup (IF op = "rotate" THEN {None} ELSE {})
=============================================================================
