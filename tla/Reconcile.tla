------------------------------ MODULE Reconcile ------------------------------
(***************************************************************************)
(* internal/reconcile: one direction of xray's raw traffic counters, which *)
(* start again from zero whenever xray does, turned into deltas.  This is  *)
(* the tracker without a credited baseline, the one durable totals use;    *)
(* the speed window is left out.                                           *)
(***************************************************************************)
EXTENDS Integers

Tracker == [seen : BOOLEAN, lastRaw : Nat, lastDelta : Nat]
NewTracker == [seen |-> FALSE, lastRaw |-> 0, lastDelta |-> 0]

\* What a reading adds to the one before: a smaller reading comes from a
\* counter that was reset, and is the delta itself.
DeltaOf(lastRaw, raw) == IF raw >= lastRaw THEN raw - lastRaw ELSE raw

\* Mutant: a reset would not be noticed.
TrackWithoutReset(t, raw) ==
    IF t.seen THEN [seen |-> TRUE, lastRaw |-> raw, lastDelta |-> raw - t.lastRaw]
              ELSE [t EXCEPT !.seen = TRUE, !.lastRaw = raw]

\* Tracker.Add: the first reading is the baseline.
Track(t, raw) ==
    IF t.seen THEN [seen |-> TRUE, lastRaw |-> raw, lastDelta |-> DeltaOf(t.lastRaw, raw)]
              ELSE [t EXCEPT !.seen = TRUE, !.lastRaw = raw]
=============================================================================
