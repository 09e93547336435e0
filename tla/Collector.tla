------------------------------ MODULE Collector ------------------------------
(***************************************************************************)
(* The traffic accounting of internal/users: Collector.Collect turns xray's*)
(* per-user counters into durable totals of the users table (ApplyPoll),   *)
(* and Collector.Purge forgets a user whose rows the roster loop erases.   *)
(*                                                                         *)
(* One direction of traffic (the other has trackers and columns of its     *)
(* own).  Presence, speeds and the roster half of a poll are not here;     *)
(* the latter is Sample and Flush of RosterService.  Polls never overlap   *)
(* (the snapshot cache holds refreshMu over one), but the roster loop, the *)
(* operator and xray run between any two steps of a poll.                  *)
(***************************************************************************)
EXTENDS Reconcile

CONSTANTS
    Emails,         \* user identities
    Nobody,         \* no user
    MaxBytes, MaxStoreFailures, MaxXrayRestarts, MaxPanelRestarts, MaxPurges

ASSUME CollectorAssumption ==
    /\ Nobody \notin Emails
    /\ {MaxBytes, MaxStoreFailures, MaxXrayRestarts, MaxPanelRestarts, MaxPurges} \subseteq Nat

VARIABLES
    counters,                      \* xray's counter of each user that has one
    rows,                          \* the users table: the total of each user that has a row
    trackers, seeded, pending,     \* the collector's memory
    cpc, raws, existing, deltas,   \* one poll
    purging,                       \* the user whose rows the roster loop is erasing
    carried,                       \* history: bytes xray ever counted for the user
    due,                           \* history: bytes the collector owes the user's row
    undisturbed, gone,             \* history: no poll or traffic since Purge; users purged for good
    spent                          \* what the environment used of its bounds

memory == <<trackers, seeded, pending>>
poll == <<cpc, raws, existing, deltas>>
history == <<carried, due, undisturbed, gone>>
vars == <<counters, rows, memory, poll, purging, history, spent>>

-----------------------------------------------------------------------------

\* A counter, a row, an unapplied delta: absent, or a number of bytes.
Entry == [known : BOOLEAN, bytes : Nat]
NoEntry == [known |-> FALSE, bytes |-> 0]
Plus(entry, n) == [known |-> TRUE, bytes |-> entry.bytes + n]
Table == [Emails -> Entry]
Nothing == [e \in Emails |-> NoEntry]

Bounds == [bytes |-> MaxBytes, storeFailures |-> MaxStoreFailures, purges |-> MaxPurges,
           xrayRestarts |-> MaxXrayRestarts, panelRestarts |-> MaxPanelRestarts]
Spend(what) == /\ spent[what] < Bounds[what]
               /\ spent' = [spent EXCEPT ![what] = @ + 1]

\* The types of the variables; an absent entry holds no bytes.
TypeOK ==
    /\ counters \in Table /\ rows \in Table /\ pending \in Table
    /\ raws \in Table /\ deltas \in Table
    /\ trackers \in [Emails -> Tracker]
    /\ seeded \subseteq Emails /\ existing \subseteq Emails
    /\ cpc \in {"idle", "read", "track", "write", "clear"}
    /\ purging \in Emails \cup {Nobody}
    /\ carried \in [Emails -> Nat] /\ due \in [Emails -> Nat]
    /\ undisturbed \in BOOLEAN /\ gone \subseteq Emails
    /\ spent \in [DOMAIN Bounds -> Nat]

Init ==
    /\ counters = Nothing /\ rows = Nothing
    /\ trackers = [e \in Emails |-> NewTracker] /\ seeded = {} /\ pending = Nothing
    /\ cpc = "idle" /\ raws = Nothing /\ existing = {} /\ deltas = Nothing
    /\ purging = Nobody
    /\ carried = [e \in Emails |-> 0] /\ due = [e \in Emails |-> 0]
    /\ undisturbed = FALSE /\ gone = {}
    /\ spent = [what \in DOMAIN Bounds |-> 0]

-----------------------------------------------------------------------------
(* One poll: Collector.Collect.                                            *)

EndPoll == cpc' = "idle" /\ raws' = Nothing /\ existing' = {} /\ deltas' = Nothing

\* QueryUserTraffic.  A query that fails ends the poll with no change here.
PollQuery ==
    /\ cpc = "idle"
    /\ cpc' = "read"
    /\ raws' = counters
    /\ undisturbed' = FALSE
    /\ UNCHANGED <<counters, rows, memory, existing, deltas, purging, carried, due, gone, spent>>

\* ExistingEmails.
PollRead ==
    /\ cpc = "read"
    /\ cpc' = "track"
    /\ existing' = {e \in Emails : rows[e].known}
    /\ UNCHANGED <<counters, rows, memory, raws, deltas, purging, history, spent>>

\* Mutant: a user would be seeded from the counters whether it has a row or not.
CreditIgnoringRows(e) ==
    IF e \notin seeded THEN raws[e].bytes ELSE Track(trackers[e], raws[e].bytes).lastDelta

\* The bytes a reading credits: on the first contact with a user without a
\* row the whole counter, otherwise the tracker's delta.
Credit(e) ==
    IF e \notin seeded /\ e \notin existing THEN raws[e].bytes
    ELSE Track(trackers[e], raws[e].bytes).lastDelta

\* The critical section of the poll: every reading goes through its tracker
\* into the pending deltas, which are copied for the transaction.
PollTrack ==
    /\ cpc = "track"
    /\ cpc' = "write"
    /\ trackers' = [e \in Emails |-> IF raws[e].known THEN Track(trackers[e], raws[e].bytes)
                                     ELSE trackers[e]]
    /\ pending' = [e \in Emails |-> IF raws[e].known THEN Plus(pending[e], Credit(e))
                                    ELSE pending[e]]
    /\ seeded' = seeded \cup {e \in Emails : raws[e].known}
    /\ deltas' = pending'
    /\ due' = [e \in Emails |-> IF raws[e].known THEN due[e] + Credit(e) ELSE due[e]]
    /\ UNCHANGED <<counters, rows, raws, existing, purging, carried, undisturbed, gone, spent>>

\* ApplyPoll: the upserts of the transaction.
PollWrite ==
    /\ cpc = "write"
    /\ cpc' = "clear"
    /\ rows' = [e \in Emails |-> IF deltas[e].known THEN Plus(rows[e], deltas[e].bytes)
                                 ELSE rows[e]]
    /\ UNCHANGED <<counters, memory, raws, existing, deltas, purging, history, spent>>

PollClear ==
    /\ cpc = "clear"
    /\ pending' = Nothing
    /\ EndPoll
    /\ UNCHANGED <<counters, rows, trackers, seeded, purging, history, spent>>

\* Mutant: the deltas of a failed write would be cleared too.
PollFailsDropping ==
    /\ cpc \in {"read", "write"}
    /\ Spend("storeFailures")
    /\ pending' = Nothing
    /\ EndPoll
    /\ UNCHANGED <<counters, rows, trackers, seeded, purging, history>>

\* A store error ends the poll; the deltas stay pending.
PollFails ==
    /\ cpc \in {"read", "write"}
    /\ Spend("storeFailures")
    /\ EndPoll
    /\ UNCHANGED <<counters, rows, memory, purging, history>>

-----------------------------------------------------------------------------
(* The roster loop's finishDelete: the collector's memory, then the rows.  *)

\* Mutant: the collector would not be told of the purge.
PurgeUnheard(e) ==
    /\ purging = Nobody
    /\ Spend("purges")
    /\ purging' = e
    /\ due' = [due EXCEPT ![e] = rows[e].bytes]
    /\ undisturbed' = (cpc = "idle" /\ ~counters[e].known)
    /\ UNCHANGED <<counters, rows, memory, poll, carried, gone>>

\* Collector.Purge.  The removal reached xray, which may report the user's
\* counter still.
Purge(e) ==
    /\ purging = Nobody
    /\ Spend("purges")
    /\ purging' = e
    /\ trackers' = [trackers EXCEPT ![e] = NewTracker]
    /\ seeded' = seeded \ {e}
    /\ pending' = [pending EXCEPT ![e] = NoEntry]
    /\ due' = [due EXCEPT ![e] = rows[e].bytes]
    /\ undisturbed' = (cpc = "idle" /\ ~counters[e].known)
    /\ UNCHANGED <<counters, rows, poll, carried, gone>>

\* PurgeRosterUser, the users row.
PurgeRow ==
    /\ purging # Nobody
    /\ purging' = Nobody
    /\ rows' = [rows EXCEPT ![purging] = NoEntry]
    /\ due' = [due EXCEPT ![purging] = 0]
    /\ gone' = IF undisturbed THEN gone \cup {purging} ELSE gone
    /\ undisturbed' = FALSE
    /\ UNCHANGED <<counters, memory, poll, carried, spent>>

\* It fails: the delete stays queued and comes back as a whole.
PurgeFails ==
    /\ purging # Nobody
    /\ Spend("storeFailures")
    /\ purging' = Nobody
    /\ undisturbed' = FALSE
    /\ UNCHANGED <<counters, rows, memory, poll, carried, due, gone>>

\* AddRosterUser, or the labels of a config parse: a row at zero bytes.
AddRow(e) ==
    /\ ~rows[e].known
    /\ rows' = [rows EXCEPT ![e] = Plus(@, 0)]
    /\ gone' = gone \ {e}
    /\ UNCHANGED <<counters, memory, poll, purging, carried, due, undisturbed, spent>>

-----------------------------------------------------------------------------
(* xray and the panel's process.                                           *)

\* A user of xray moves a byte; its counter exists from then on.
Count(e) ==
    /\ Spend("bytes")
    /\ counters' = [counters EXCEPT ![e] = Plus(@, 1)]
    /\ carried' = [carried EXCEPT ![e] = @ + 1]
    /\ gone' = gone \ {e}
    /\ undisturbed' = (undisturbed /\ purging # e)
    /\ UNCHANGED <<rows, memory, poll, purging, due>>

\* RemoveUser: xray reports the user no more.
RemoveCounter(e) ==
    /\ counters[e].known
    /\ counters' = [counters EXCEPT ![e] = NoEntry]
    /\ UNCHANGED <<rows, memory, poll, purging, history, spent>>

XrayRestart ==
    /\ Spend("xrayRestarts")
    /\ counters' = Nothing
    /\ UNCHANGED <<rows, memory, poll, purging, history>>

\* The panel starts again with the table alone.
PanelRestart ==
    /\ Spend("panelRestarts")
    /\ trackers' = [e \in Emails |-> NewTracker] /\ seeded' = {} /\ pending' = Nothing
    /\ EndPoll
    /\ purging' = Nobody /\ undisturbed' = FALSE
    /\ due' = [e \in Emails |-> rows[e].bytes]
    /\ UNCHANGED <<counters, rows, carried, gone>>

Next ==
    \/ PollQuery \/ PollRead \/ PollTrack \/ PollWrite \/ PollClear \/ PollFails
    \/ \E e \in Emails : Purge(e) \/ AddRow(e) \/ Count(e) \/ RemoveCounter(e)
    \/ PurgeRow \/ PurgeFails
    \/ XrayRestart \/ PanelRestart

Spec == Init /\ [][Next]_vars

-----------------------------------------------------------------------------
(* Properties.                                                             *)

\* The bytes the collector still carries for a user: the pending deltas,
\* unless the transaction just wrote them.
Unapplied(e) == IF cpc = "clear" THEN 0 ELSE pending[e].bytes

\* No byte is counted twice: a user's durable total, with what is pending,
\* never exceeds what xray really carried, over resets of the counters,
\* restarts of the panel, failed writes and purges that race with a poll
\* (seeding and resuming in Collect, the reset rule of Tracker.Add).
NeverOvercounts ==
    \A e \in Emails : rows[e].bytes + Unapplied(e) <= carried[e]

\* No observed byte is dropped: every delta and seed of the readings of this
\* process is in the user's row or still pending, however many writes failed
\* in between ("durable totals never silently drop bytes", Collector).
NothingDropped ==
    \A e \in Emails : rows[e].bytes + Unapplied(e) >= due[e]

\* A purged user stays gone: if xray no longer counts for the user and no poll
\* overlaps the purge, nothing is left in the collector's memory that would
\* insert the row again, until the user is added or moves traffic again
\* (Collector.Purge).
PurgedStaysGone ==
    \A e \in gone : ~rows[e].known
=============================================================================
