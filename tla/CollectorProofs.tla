--------------------------- MODULE CollectorProofs ---------------------------
(***************************************************************************)
(* Theorems about the traffic accounting, for every set of users and every *)
(* bound on bytes, failures, restarts and purges.                          *)
(***************************************************************************)
EXTENDS Collector, TLAPS

USE DEF memory, poll, history

-----------------------------------------------------------------------------
(* Deltas.                                                                 *)

\* A delta is a number of bytes; a counter that starts again owes nothing,
\* one byte more is at most one byte of delta, and a reading in between
\* never lowers what is credited.
LEMMA Deltas ==
    /\ \A l, r \in Nat : DeltaOf(l, r) \in Nat
    /\ \A l \in Nat : DeltaOf(l, 0) = 0 /\ DeltaOf(l, l) = 0
    /\ \A l, r \in Nat : DeltaOf(l, r + 1) <= DeltaOf(l, r) + 1
    /\ \A l, s, r \in Nat : DeltaOf(l, r) <= DeltaOf(l, s) + DeltaOf(s, r)
  BY DEF DeltaOf

\* A tracker stays a tracker.
LEMMA TrackType ==
    ASSUME NEW t \in Tracker, NEW raw \in Nat
    PROVE  /\ Track(t, raw) \in Tracker
           /\ Track(t, raw).seen /\ Track(t, raw).lastRaw = raw
           /\ t.seen => Track(t, raw).lastDelta = DeltaOf(t.lastRaw, raw)
           /\ ~t.seen => Track(t, raw).lastDelta = t.lastDelta
<1>1. DeltaOf(t.lastRaw, raw) \in Nat
  BY Deltas DEF Tracker
<1>2. CASE t.seen
  BY <1>1, <1>2 DEF Track, Tracker
<1>3. CASE ~t.seen
  BY <1>3 DEF Track, Tracker
<1> QED
  BY <1>2, <1>3 DEF Tracker

\* Entries and tables.
LEMMA Entries ==
    /\ NoEntry \in Entry /\ Nothing \in Table /\ NewTracker \in Tracker
    /\ \A entry \in Entry, n \in Nat :
          /\ Plus(entry, n) \in Entry
          /\ Plus(entry, n).known /\ Plus(entry, n).bytes = entry.bytes + n
    /\ \A t \in Table, e \in Emails : t[e] \in Entry /\ t[e].bytes \in Nat
    /\ \A t \in Table, e \in Emails, entry \in Entry : [t EXCEPT ![e] = entry] \in Table
    /\ \A e \in Emails : ~Nothing[e].known /\ Nothing[e].bytes = 0
  BY DEF NoEntry, Entry, Plus, Table, Nothing, NewTracker, Tracker

\* A budget that is spent is still a budget.
LEMMA SpendType ==
    ASSUME spent \in [DOMAIN Bounds -> Nat], NEW what \in DOMAIN Bounds, Spend(what)
    PROVE  spent' \in [DOMAIN Bounds -> Nat]
  BY DEF Spend

\* What a reading credits is a number of bytes.
LEMMA CreditType ==
    ASSUME TypeOK, NEW e \in Emails
    PROVE  Credit(e) \in Nat
<1>1. raws[e].bytes \in Nat /\ trackers[e] \in Tracker
  BY Entries DEF TypeOK
<1>2. Track(trackers[e], raws[e].bytes).lastDelta \in Nat
  BY <1>1, TrackType DEF Tracker
<1> QED
  BY <1>1, <1>2 DEF Credit

-----------------------------------------------------------------------------
(* Type correctness.                                                       *)

\* The steps of a poll keep the types.
LEMMA PollTypes ==
    ASSUME TypeOK, PollQuery \/ PollRead \/ PollTrack \/ PollWrite \/ PollClear \/ PollFails
    PROVE  TypeOK'
<1>1. CASE PollQuery \/ PollRead
  BY <1>1 DEF PollQuery, PollRead, TypeOK
<1>2. CASE PollTrack
  <2>1. \A e \in Emails : Track(trackers[e], raws[e].bytes) \in Tracker
    BY TrackType, Entries DEF TypeOK
  <2>2. \A e \in Emails : Plus(pending[e], Credit(e)) \in Entry /\ pending[e] \in Entry
    BY CreditType, Entries DEF TypeOK
  <2>3. pending' \in Table /\ deltas' \in Table
    BY <1>2, <2>2 DEF PollTrack, Table
  <2>4. trackers' \in [Emails -> Tracker]
    BY <1>2, <2>1 DEF PollTrack, TypeOK
  <2>5. due' \in [Emails -> Nat]
    BY <1>2, CreditType DEF PollTrack, TypeOK
  <2> QED
    BY <1>2, <2>3, <2>4, <2>5 DEF PollTrack, TypeOK
<1>3. CASE PollWrite
  <2>1. \A e \in Emails : Plus(rows[e], deltas[e].bytes) \in Entry /\ rows[e] \in Entry
    BY Entries DEF TypeOK
  <2>2. rows' \in Table
    BY <1>3, <2>1 DEF PollWrite, Table
  <2> QED
    BY <1>3, <2>2 DEF PollWrite, TypeOK
<1>4. CASE PollClear
  BY <1>4, Entries DEF PollClear, EndPoll, TypeOK
<1>5. CASE PollFails
  <2>1. spent' \in [DOMAIN Bounds -> Nat]
    BY <1>5, SpendType DEF PollFails, TypeOK, Bounds
  <2> QED
    BY <1>5, <2>1, Entries DEF PollFails, EndPoll, TypeOK
<1> QED
  BY <1>1, <1>2, <1>3, <1>4, <1>5

\* Purges, the operator, xray and the panel's restarts keep the types.
LEMMA OtherTypes ==
    ASSUME TypeOK,
           \/ \E e \in Emails : Purge(e) \/ AddRow(e) \/ Count(e) \/ RemoveCounter(e)
           \/ PurgeRow \/ PurgeFails \/ XrayRestart \/ PanelRestart
    PROVE  TypeOK'
<1>1. ASSUME NEW e \in Emails, Purge(e) PROVE TypeOK'
  <2>1. pending' \in Table /\ rows[e].bytes \in Nat
    BY <1>1, Entries DEF Purge, TypeOK
  <2>2. spent' \in [DOMAIN Bounds -> Nat]
    BY <1>1, SpendType DEF Purge, TypeOK, Bounds
  <2> QED
    BY <1>1, <2>1, <2>2, Entries DEF Purge, TypeOK
<1>2. ASSUME NEW e \in Emails, AddRow(e) PROVE TypeOK'
  <2>1. Plus(rows[e], 0) \in Entry
    BY Entries DEF TypeOK
  <2>2. rows' \in Table
    BY <1>2, <2>1, Entries DEF AddRow, TypeOK
  <2> QED
    BY <1>2, <2>2 DEF AddRow, TypeOK
<1>3. ASSUME NEW e \in Emails, Count(e) PROVE TypeOK'
  <2>1. Plus(counters[e], 1) \in Entry
    BY Entries DEF TypeOK
  <2>2. counters' \in Table
    BY <1>3, <2>1, Entries DEF Count, TypeOK
  <2>3. spent' \in [DOMAIN Bounds -> Nat]
    BY <1>3, SpendType DEF Count, TypeOK, Bounds
  <2> QED
    BY <1>3, <2>2, <2>3 DEF Count, TypeOK
<1>4. ASSUME NEW e \in Emails, RemoveCounter(e) PROVE TypeOK'
  BY <1>4, Entries DEF RemoveCounter, TypeOK
<1>5. CASE PurgeRow
  BY <1>5, Entries DEF PurgeRow, TypeOK
<1>6. CASE PurgeFails
  <2>1. spent' \in [DOMAIN Bounds -> Nat]
    BY <1>6, SpendType DEF PurgeFails, TypeOK, Bounds
  <2> QED
    BY <1>6, <2>1 DEF PurgeFails, TypeOK
<1>7. CASE XrayRestart
  <2>1. spent' \in [DOMAIN Bounds -> Nat]
    BY <1>7, SpendType DEF XrayRestart, TypeOK, Bounds
  <2> QED
    BY <1>7, <2>1, Entries DEF XrayRestart, TypeOK
<1>8. CASE PanelRestart
  <2>1. spent' \in [DOMAIN Bounds -> Nat]
    BY <1>8, SpendType DEF PanelRestart, TypeOK, Bounds
  <2>2. due' \in [Emails -> Nat]
    BY <1>8, Entries DEF PanelRestart, TypeOK
  <2>3. trackers' \in [Emails -> Tracker]
    BY <1>8, Entries DEF PanelRestart
  <2> QED
    BY <1>8, <2>1, <2>2, <2>3, Entries DEF PanelRestart, EndPoll, TypeOK
<1> QED
  BY <1>1, <1>2, <1>3, <1>4, <1>5, <1>6, <1>7, <1>8

\* Counters, totals, deltas and trackers of Collect stay numbers of bytes; in
\* particular no delta is negative.
THEOREM CollectorTypeCorrect == Spec => []TypeOK
<1>1. Init => TypeOK
  <2> SUFFICES ASSUME Init PROVE TypeOK
    OBVIOUS
  <2>1. trackers \in [Emails -> Tracker] /\ carried \in [Emails -> Nat] /\ due \in [Emails -> Nat]
    BY Entries DEF Init
  <2>2. spent \in [DOMAIN Bounds -> Nat]
    BY DEF Init
  <2> QED
    BY <2>1, <2>2, Entries DEF Init, TypeOK
<1>2. TypeOK /\ [Next]_vars => TypeOK'
  <2> SUFFICES ASSUME TypeOK, [Next]_vars PROVE TypeOK'
    OBVIOUS
  <2>1. CASE UNCHANGED vars
    BY <2>1 DEF vars, TypeOK
  <2> QED
    BY <2>1, PollTypes, OtherTypes DEF Next
<1> QED
  BY <1>1, <1>2, PTL DEF Spec

-----------------------------------------------------------------------------
(* No byte is counted twice.                                               *)

\* A reading of the user's counter is on its way to the tracker.
InFlight(e) == cpc \in {"read", "track"} /\ raws[e].known

\* The durable total with what is pending.
Total(e) == rows[e].bytes + Unapplied(e)

\* What the next reading, and one in flight before it, would add still fits
\* into what xray carried for the user.
Room(e) ==
    /\ Total(e) <= carried[e]
    /\ counters[e].bytes <= carried[e]
    /\ trackers[e].seen /\ ~InFlight(e) =>
          Total(e) + DeltaOf(trackers[e].lastRaw, counters[e].bytes) <= carried[e]
    /\ InFlight(e) =>
          raws[e].bytes + DeltaOf(raws[e].bytes, counters[e].bytes) <= carried[e]
    /\ InFlight(e) /\ ~trackers[e].seen =>
          rows[e].bytes + DeltaOf(raws[e].bytes, counters[e].bytes) <= carried[e]
    /\ InFlight(e) /\ trackers[e].seen =>
          Total(e) + DeltaOf(trackers[e].lastRaw, raws[e].bytes)
                   + DeltaOf(raws[e].bytes, counters[e].bytes) <= carried[e]
    /\ cpc = "write" => rows[e].bytes + deltas[e].bytes <= carried[e]

\* The collector's memory is of one piece: seeding and tracking go together,
\* an absent entry holds no bytes, and a poll writes what is pending.
Coherent(e) ==
    /\ e \in seeded <=> trackers[e].seen
    /\ ~trackers[e].seen => trackers[e].lastDelta = 0 /\ pending[e].bytes = 0
    /\ ~rows[e].known => rows[e].bytes = 0
    /\ ~pending[e].known => pending[e].bytes = 0
    /\ ~deltas[e].known => deltas[e].bytes = 0
    /\ cpc = "track" /\ e \notin existing => rows[e].bytes = 0
    /\ cpc = "write" /\ trackers[e].seen => deltas[e].bytes = pending[e].bytes

Sound(e) == Room(e) /\ Coherent(e)
AllSound == \A e \in Emails : Sound(e)

\* Every number of a state is a number.
LEMMA Numbers ==
    ASSUME TypeOK, NEW e \in Emails
    PROVE  /\ rows[e].bytes \in Nat /\ pending[e].bytes \in Nat /\ deltas[e].bytes \in Nat
           /\ raws[e].bytes \in Nat /\ counters[e].bytes \in Nat /\ carried[e] \in Nat
           /\ trackers[e] \in Tracker /\ trackers[e].lastRaw \in Nat
           /\ trackers[e].lastDelta \in Nat /\ trackers[e].seen \in BOOLEAN
           /\ rows[e].known \in BOOLEAN /\ pending[e].known \in BOOLEAN
           /\ deltas[e].known \in BOOLEAN /\ raws[e].known \in BOOLEAN
  BY DEF TypeOK, Table, Entry, Tracker

\* The deltas between a tracker, the reading in flight and the counter.
LEMMA DeltaFacts ==
    ASSUME TypeOK, NEW e \in Emails
    PROVE  /\ DeltaOf(trackers[e].lastRaw, counters[e].bytes) \in Nat
           /\ DeltaOf(trackers[e].lastRaw, raws[e].bytes) \in Nat
           /\ DeltaOf(raws[e].bytes, counters[e].bytes) \in Nat
           /\ DeltaOf(counters[e].bytes, counters[e].bytes) = 0
           /\ DeltaOf(trackers[e].lastRaw, counters[e].bytes)
                <= DeltaOf(trackers[e].lastRaw, raws[e].bytes) + DeltaOf(raws[e].bytes, counters[e].bytes)
<1>1. trackers[e].lastRaw \in Nat /\ counters[e].bytes \in Nat /\ raws[e].bytes \in Nat
  BY Numbers
<1> QED
  BY <1>1, Deltas

\* The collector's poll keeps every user sound.
LEMMA PollSound ==
    ASSUME TypeOK, NEW e \in Emails, Sound(e),
           PollQuery \/ PollRead \/ PollTrack \/ PollWrite \/ PollClear \/ PollFails
    PROVE  Sound(e)'
<1> USE Numbers
<1>1. CASE PollQuery
  BY <1>1, DeltaFacts DEF PollQuery, Sound, Room, Coherent, Total, Unapplied, InFlight
<1>2. CASE PollRead
  BY <1>2 DEF PollRead, Sound, Room, Coherent, Total, Unapplied, InFlight
<1>3. CASE PollTrack
  <2>1. CASE ~raws[e].known
    BY <1>3, <2>1 DEF PollTrack, Sound, Room, Coherent, Total, Unapplied, InFlight
  <2>2. CASE raws[e].known
    <3>1. /\ pending'[e].bytes = pending[e].bytes + Credit(e) /\ pending'[e].known
          /\ deltas'[e] = pending'[e]
          /\ trackers'[e].seen /\ trackers'[e].lastRaw = raws[e].bytes
          /\ e \in seeded'
      <4>1. pending'[e] = Plus(pending[e], Credit(e)) /\ deltas'[e] = pending'[e]
        BY <1>3, <2>2 DEF PollTrack
      <4>2. trackers'[e] = Track(trackers[e], raws[e].bytes) /\ e \in seeded'
        BY <1>3, <2>2 DEF PollTrack
      <4> QED
        BY <4>1, <4>2, TrackType DEF Plus
    <3>2. rows[e].bytes + pending[e].bytes + Credit(e)
            + DeltaOf(raws[e].bytes, counters[e].bytes) <= carried[e]
      <4>1. CASE e \in seeded
        <5>1. Credit(e) = DeltaOf(trackers[e].lastRaw, raws[e].bytes)
          BY <4>1, TrackType DEF Credit, Sound, Coherent
        <5> QED
          BY <1>3, <2>2, <4>1, <5>1
             DEF PollTrack, Sound, Room, Coherent, Total, Unapplied, InFlight
      <4>2. CASE e \notin seeded /\ e \notin existing
        BY <1>3, <2>2, <4>2, DeltaFacts
           DEF PollTrack, Credit, Sound, Room, Coherent, Total, Unapplied, InFlight
      <4>3. CASE e \notin seeded /\ e \in existing
        <5>1. Credit(e) = 0 /\ pending[e].bytes = 0
          BY <4>3, TrackType DEF Credit, Sound, Coherent
        <5> QED
          BY <1>3, <2>2, <4>3, <5>1, DeltaFacts
             DEF PollTrack, Sound, Room, Coherent, Total, Unapplied, InFlight
      <4> QED
        BY <4>1, <4>2, <4>3
    <3>3. DeltaOf(raws[e].bytes, counters[e].bytes) \in Nat /\ Credit(e) \in Nat
      BY DeltaFacts, CreditType
    <3>4. Room(e)'
      BY <1>3, <3>1, <3>2, <3>3
         DEF PollTrack, Sound, Room, Total, Unapplied, InFlight
    <3>5. Coherent(e)'
      BY <1>3, <3>1 DEF PollTrack, Sound, Coherent
    <3> QED
      BY <3>4, <3>5 DEF Sound
  <2> QED
    BY <2>1, <2>2
<1>4. CASE PollWrite
  <2>1. rows'[e].bytes = rows[e].bytes + deltas[e].bytes /\ (~rows'[e].known => rows'[e].bytes = 0)
    BY <1>4, Entries DEF PollWrite, Sound, Coherent, Plus, TypeOK
  <2> QED
    BY <1>4, <2>1 DEF PollWrite, Sound, Room, Coherent, Total, Unapplied, InFlight
<1>5. CASE PollClear
  BY <1>5, Entries DEF PollClear, EndPoll, Sound, Room, Coherent, Total, Unapplied, InFlight
<1>6. CASE PollFails
  <2>1. raws'[e] = NoEntry /\ deltas'[e] = NoEntry
    BY <1>6 DEF PollFails, EndPoll, Nothing
  <2>2. Room(e)'
    BY <1>6, DeltaFacts DEF PollFails, EndPoll, Sound, Room, Total, Unapplied, InFlight
  <2>3. Coherent(e)'
    BY <1>6, <2>1 DEF PollFails, EndPoll, Sound, Coherent, NoEntry
  <2> QED
    BY <2>2, <2>3 DEF Sound
<1> QED
  BY <1>1, <1>2, <1>3, <1>4, <1>5, <1>6

\* So do purges, the operator, xray and restarts of the panel, for the user
\* they are about and for the others.
LEMMA OtherSound ==
    ASSUME TypeOK, NEW e \in Emails, Sound(e),
           \/ \E u \in Emails : Purge(u) \/ AddRow(u) \/ Count(u) \/ RemoveCounter(u)
           \/ PurgeRow \/ PurgeFails \/ XrayRestart \/ PanelRestart
    PROVE  Sound(e)'
<1> USE Numbers, DeltaFacts
<1>1. ASSUME NEW u \in Emails, Purge(u) PROVE Sound(e)'
  <2>1. CASE u = e
    <3>1. trackers'[e] = NewTracker /\ pending'[e] = NoEntry /\ e \notin seeded'
      BY <1>1, <2>1 DEF Purge, TypeOK, Table
    <3> QED
      BY <1>1, <3>1
         DEF Purge, NewTracker, NoEntry, Sound, Room, Coherent, Total, Unapplied, InFlight
  <2>2. CASE u # e
    <3>1. trackers'[e] = trackers[e] /\ pending'[e] = pending[e] /\ (e \in seeded' <=> e \in seeded)
      BY <1>1, <2>2 DEF Purge, TypeOK, Table
    <3> QED
      BY <1>1, <3>1 DEF Purge, Sound, Room, Coherent, Total, Unapplied, InFlight
  <2> QED
    BY <2>1, <2>2
<1>2. ASSUME NEW u \in Emails, AddRow(u) PROVE Sound(e)'
  <2>1. rows'[e].bytes = rows[e].bytes /\ (~rows'[e].known => ~rows[e].known)
    BY <1>2 DEF AddRow, Plus, TypeOK, Table
  <2> QED
    BY <1>2, <2>1 DEF AddRow, Sound, Room, Coherent, Total, Unapplied, InFlight
<1>3. ASSUME NEW u \in Emails, Count(u) PROVE Sound(e)'
  <2>1. CASE u = e
    <3>1. counters'[e].bytes = counters[e].bytes + 1 /\ carried'[e] = carried[e] + 1
      BY <1>3, <2>1 DEF Count, Plus, TypeOK, Table
    <3>2. /\ DeltaOf(trackers[e].lastRaw, counters[e].bytes + 1)
               <= DeltaOf(trackers[e].lastRaw, counters[e].bytes) + 1
          /\ DeltaOf(raws[e].bytes, counters[e].bytes + 1)
               <= DeltaOf(raws[e].bytes, counters[e].bytes) + 1
          /\ DeltaOf(trackers[e].lastRaw, counters[e].bytes + 1) \in Nat
          /\ DeltaOf(raws[e].bytes, counters[e].bytes + 1) \in Nat
      <4>1. counters[e].bytes + 1 \in Nat
        OBVIOUS
      <4> QED
        BY <4>1, Deltas
    <3> QED
      BY <1>3, <3>1, <3>2 DEF Count, Sound, Room, Coherent, Total, Unapplied, InFlight
  <2>2. CASE u # e
    <3>1. counters'[e] = counters[e] /\ carried'[e] = carried[e]
      BY <1>3, <2>2 DEF Count, TypeOK, Table
    <3> QED
      BY <1>3, <3>1 DEF Count, Sound, Room, Coherent, Total, Unapplied, InFlight
  <2> QED
    BY <2>1, <2>2
<1>4. ASSUME /\ counters'[e].bytes = 0 \/ counters'[e] = counters[e]
             /\ UNCHANGED <<rows, memory, poll, carried>>
      PROVE  Sound(e)'
  <2>1. DeltaOf(trackers[e].lastRaw, 0) = 0 /\ DeltaOf(raws[e].bytes, 0) = 0
    BY Deltas
  <2> QED
    BY <1>4, <2>1 DEF Sound, Room, Coherent, Total, Unapplied, InFlight
<1>5. ASSUME NEW u \in Emails, RemoveCounter(u) PROVE Sound(e)'
  <2>1. counters'[e].bytes = 0 \/ counters'[e] = counters[e]
    BY <1>5 DEF RemoveCounter, NoEntry, TypeOK, Table
  <2> QED
    BY <1>4, <1>5, <2>1 DEF RemoveCounter
<1>6. CASE XrayRestart
  BY <1>4, <1>6, Entries DEF XrayRestart
<1>7. CASE PurgeFails
  BY <1>4, <1>7 DEF PurgeFails
<1>8. CASE PurgeRow
  <2>1. rows'[e] = rows[e] \/ rows'[e] = NoEntry
    BY <1>8 DEF PurgeRow, TypeOK, Table
  <2> QED
    BY <1>8, <2>1 DEF PurgeRow, NoEntry, Sound, Room, Coherent, Total, Unapplied, InFlight
<1>9. CASE PanelRestart
  <2>1. trackers'[e] = NewTracker /\ e \notin seeded'
    BY <1>9 DEF PanelRestart
  <2>2. pending'[e] = NoEntry /\ raws'[e] = NoEntry /\ deltas'[e] = NoEntry
    BY <1>9 DEF PanelRestart, EndPoll, Nothing
  <2> QED
    BY <1>9, <2>1, <2>2
       DEF PanelRestart, EndPoll, NewTracker, NoEntry,
           Sound, Room, Coherent, Total, Unapplied, InFlight
<1> QED
  BY <1>1, <1>2, <1>3, <1>5, <1>6, <1>7, <1>8, <1>9

\* The inductive invariant of the accounting.
LEMMA AlwaysSound == Spec => []AllSound
<1>1. Init => AllSound
  <2> SUFFICES ASSUME Init, NEW e \in Emails PROVE Sound(e)
    BY DEF AllSound
  <2>1. /\ counters[e] = NoEntry /\ rows[e] = NoEntry /\ pending[e] = NoEntry
        /\ raws[e] = NoEntry /\ deltas[e] = NoEntry /\ trackers[e] = NewTracker
        /\ carried[e] = 0 /\ cpc = "idle" /\ e \notin seeded
    BY DEF Init, Nothing
  <2> QED
    BY <2>1 DEF NoEntry, NewTracker, Sound, Room, Coherent, Total, Unapplied, InFlight
<1>2. TypeOK /\ AllSound /\ [Next]_vars => AllSound'
  <2> SUFFICES ASSUME TypeOK, AllSound, [Next]_vars, NEW e \in Emails PROVE Sound(e)'
    BY DEF AllSound
  <2>1. Sound(e)
    BY DEF AllSound
  <2>2. CASE UNCHANGED vars
    BY <2>1, <2>2 DEF vars, Sound, Room, Coherent, Total, Unapplied, InFlight
  <2>3. CASE Next
    BY <2>1, <2>3, PollSound, OtherSound DEF Next
  <2> QED
    BY <2>2, <2>3
<1> QED
  BY <1>1, <1>2, CollectorTypeCorrect, PTL DEF Spec

\* No byte is counted twice in the durable totals, whatever the order of
\* polls, failed writes, purges, counter resets and restarts of the panel.
THEOREM NoByteCountedTwice == Spec => []NeverOvercounts
<1>1. AllSound => NeverOvercounts
  BY DEF AllSound, NeverOvercounts, Sound, Room, Total
<1> QED
  BY <1>1, AlwaysSound, PTL

-----------------------------------------------------------------------------
(* No observed byte is dropped.                                            *)

\* What a poll is about to write covers what is pending.
Covered(e) ==
    /\ Total(e) >= due[e]
    /\ cpc = "write" => deltas[e].bytes >= pending[e].bytes
    /\ cpc = "write" /\ ~deltas[e].known => deltas[e].bytes = 0

\* Every step keeps a user covered.
LEMMA StepCovered ==
    ASSUME TypeOK, NEW e \in Emails, Coherent(e), Covered(e), Next
    PROVE  Covered(e)'
<1>1. due[e] \in Nat
  BY DEF TypeOK
<1> USE Numbers, <1>1 DEF Covered, Total, Unapplied
<1>2. CASE PollQuery \/ PollRead
  BY <1>2 DEF PollQuery, PollRead
<1>3. CASE PollTrack
  <2>1. CASE raws[e].known
    <3>1. /\ pending'[e].bytes = pending[e].bytes + Credit(e) /\ deltas'[e] = pending'[e]
          /\ pending'[e].known /\ due'[e] = due[e] + Credit(e)
      BY <1>3, <2>1 DEF PollTrack, Plus
    <3> QED
      BY <1>3, <3>1, CreditType DEF PollTrack
  <2>2. CASE ~raws[e].known
    BY <1>3, <2>2 DEF PollTrack, Coherent
  <2> QED
    BY <2>1, <2>2
<1>4. CASE PollWrite
  <2>1. rows'[e].bytes = rows[e].bytes + deltas[e].bytes
    BY <1>4 DEF PollWrite, Plus
  <2> QED
    BY <1>4, <2>1 DEF PollWrite
<1>5. CASE PollClear
  BY <1>5, Entries DEF PollClear, EndPoll
<1>6. CASE PollFails
  BY <1>6 DEF PollFails, EndPoll
<1>7. ASSUME NEW u \in Emails, Purge(u) PROVE Covered(e)'
  <2>1. CASE u = e
    <3>1. pending'[e] = NoEntry /\ due'[e] = rows[e].bytes
      BY <1>7, <2>1 DEF Purge, TypeOK, Table
    <3> QED
      BY <1>7, <3>1 DEF Purge, NoEntry
  <2>2. CASE u # e
    <3>1. pending'[e] = pending[e] /\ due'[e] = due[e]
      BY <1>7, <2>2 DEF Purge, TypeOK, Table
    <3> QED
      BY <1>7, <3>1 DEF Purge
  <2> QED
    BY <2>1, <2>2
<1>8. ASSUME NEW u \in Emails, AddRow(u) PROVE Covered(e)'
  <2>1. rows'[e].bytes = rows[e].bytes
    BY <1>8 DEF AddRow, Plus, TypeOK, Table
  <2> QED
    BY <1>8, <2>1 DEF AddRow
<1>9. CASE PurgeRow
  <2>1. (rows'[e] = rows[e] /\ due'[e] = due[e]) \/ (rows'[e] = NoEntry /\ due'[e] = 0)
    BY <1>9 DEF PurgeRow, TypeOK, Table
  <2> QED
    BY <1>9, <2>1 DEF PurgeRow, NoEntry
<1>10. CASE PanelRestart
  <2>1. pending'[e].bytes = 0 /\ due'[e] = rows[e].bytes
    BY <1>10, Entries DEF PanelRestart
  <2> QED
    BY <1>10, <2>1 DEF PanelRestart, EndPoll
<1>11. ASSUME UNCHANGED <<rows, memory, poll, due>> PROVE Covered(e)'
  BY <1>11
<1>12. CASE PurgeFails \/ XrayRestart \/ \E u \in Emails : Count(u) \/ RemoveCounter(u)
  BY <1>11, <1>12 DEF PurgeFails, XrayRestart, Count, RemoveCounter
<1> QED
  BY <1>2, <1>3, <1>4, <1>5, <1>6, <1>7, <1>8, <1>9, <1>10, <1>12 DEF Next

\* Every byte the readings of this process credited is in the user's row or
\* pending, however many polls failed to write in between.
THEOREM NoByteDropped == Spec => []NothingDropped
<1> DEFINE AllCovered == \A e \in Emails : Covered(e)
<1>1. Init => AllCovered
  BY Entries DEF Init, Covered, Total, Unapplied
<1>2. TypeOK /\ AllSound /\ AllCovered /\ [Next]_vars => AllCovered'
  <2> SUFFICES ASSUME TypeOK, AllSound, AllCovered, [Next]_vars, NEW e \in Emails
               PROVE  Covered(e)'
    OBVIOUS
  <2>1. Covered(e) /\ Coherent(e)
    BY DEF AllSound, Sound
  <2>2. CASE UNCHANGED vars
    BY <2>1, <2>2 DEF vars, Covered, Total, Unapplied
  <2>3. CASE Next
    BY <2>1, <2>3, StepCovered
  <2> QED
    BY <2>2, <2>3
<1>3. AllCovered => NothingDropped
  BY DEF NothingDropped, Covered, Total
<1> QED
  BY <1>1, <1>2, <1>3, CollectorTypeCorrect, AlwaysSound, PTL DEF Spec

-----------------------------------------------------------------------------
(* A purged user stays gone.                                               *)

\* Neither xray nor the collector knows the user.
Forgotten(e) == ~counters[e].known /\ ~pending[e].known /\ ~raws[e].known /\ ~deltas[e].known

\* An undisturbed purge finds nothing, and leaves nothing, of its user.
Erased(e) ==
    /\ e \in gone => ~rows[e].known /\ Forgotten(e)
    /\ undisturbed /\ purging = e => Forgotten(e)
    /\ cpc = "idle" => ~raws[e].known /\ ~deltas[e].known

\* Every step keeps a purged user erased.
LEMMA StepErased ==
    ASSUME TypeOK, NEW e \in Emails, Erased(e), Next
    PROVE  Erased(e)'
<1> USE DEF Erased, Forgotten
<1>1. CASE PollQuery \/ PollRead
  BY <1>1 DEF PollQuery, PollRead
<1>2. CASE PollTrack
  BY <1>2 DEF PollTrack
<1>3. CASE PollWrite
  BY <1>3 DEF PollWrite
<1>4. CASE PollClear
  BY <1>4, Entries DEF PollClear, EndPoll
<1>5. CASE PollFails
  BY <1>5, Entries DEF PollFails, EndPoll
<1>6. ASSUME NEW u \in Emails, Purge(u) PROVE Erased(e)'
  <2>1. pending'[e] = pending[e] \/ pending'[e] = NoEntry
    BY <1>6 DEF Purge, TypeOK, Table
  <2>2. u = e => pending'[e] = NoEntry
    BY <1>6 DEF Purge, TypeOK, Table
  <2>3. undisturbed' => cpc = "idle" /\ ~counters[u].known
    BY <1>6 DEF Purge
  <2>4. purging' = u /\ UNCHANGED <<counters, rows, poll, gone>>
    BY <1>6 DEF Purge
  <2> QED
    BY <2>1, <2>2, <2>3, <2>4 DEF NoEntry
<1>7. ASSUME NEW u \in Emails, AddRow(u) PROVE Erased(e)'
  <2>1. u # e => rows'[e] = rows[e]
    BY <1>7 DEF AddRow, TypeOK, Table
  <2> QED
    BY <1>7, <2>1 DEF AddRow
<1>8. ASSUME NEW u \in Emails, Count(u) PROVE Erased(e)'
  <2>1. u # e => counters'[e] = counters[e]
    BY <1>8 DEF Count, TypeOK, Table
  <2> QED
    BY <1>8, <2>1 DEF Count
<1>9. ASSUME NEW u \in Emails, RemoveCounter(u) PROVE Erased(e)'
  <2>1. counters'[e] = counters[e] \/ counters'[e] = NoEntry
    BY <1>9 DEF RemoveCounter, TypeOK, Table
  <2> QED
    BY <1>9, <2>1 DEF RemoveCounter, NoEntry
<1>10. CASE PurgeRow
  <2>1. rows'[e] = rows[e] \/ rows'[e] = NoEntry
    BY <1>10 DEF PurgeRow, TypeOK, Table
  <2>2. purging = e => rows'[e] = NoEntry
    BY <1>10 DEF PurgeRow, TypeOK, Table
  <2> QED
    BY <1>10, <2>1, <2>2 DEF PurgeRow, NoEntry
<1>11. CASE PurgeFails
  BY <1>11 DEF PurgeFails
<1>12. CASE XrayRestart
  BY <1>12, Entries DEF XrayRestart
<1>13. CASE PanelRestart
  BY <1>13, Entries DEF PanelRestart, EndPoll
<1> QED
  BY <1>1, <1>2, <1>3, <1>4, <1>5, <1>6, <1>7, <1>8, <1>9, <1>10, <1>11, <1>12, <1>13 DEF Next

\* A user erased by a purge that no poll overlapped is not inserted again by
\* anything the collector remembers.
THEOREM PurgeIsFinal == Spec => []PurgedStaysGone
<1> DEFINE AllErased == \A e \in Emails : Erased(e)
<1>1. Init => AllErased
  BY Entries DEF Init, Erased, Forgotten
<1>2. TypeOK /\ AllErased /\ [Next]_vars => AllErased'
  <2> SUFFICES ASSUME TypeOK, AllErased, [Next]_vars, NEW e \in Emails PROVE Erased(e)'
    OBVIOUS
  <2>1. Erased(e)
    OBVIOUS
  <2>2. CASE UNCHANGED vars
    BY <2>1, <2>2 DEF vars, Erased, Forgotten
  <2>3. CASE Next
    BY <2>1, <2>3, StepErased
  <2> QED
    BY <2>2, <2>3
<1>3. TypeOK /\ AllErased => PurgedStaysGone
  BY DEF TypeOK, PurgedStaysGone, Erased
<1> QED
  BY <1>1, <1>2, <1>3, CollectorTypeCorrect, PTL DEF Spec
=============================================================================
