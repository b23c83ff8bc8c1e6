-------------------------- MODULE MeasurementStore --------------------------
(* The two stores of measurements behind SqlRepositories: measurements_raw,  *)
(* which lives for raw_retention_days, and measurements_minute, which is     *)
(* kept.  Three loops of LiveRuntime write to both while readings arrive:    *)
(* the roll-up every few minutes, the hourly look into the history of the    *)
(* myenergi cloud, and the housekeeping.  The bridge keeps what it measures  *)
(* during an outage and delivers it afterwards under its old time.           *)
(*                                                                           *)
(* A reading is a pair <<sensor, minute>>; a minute row is the set of its    *)
(* filled columns, so "stored" is a set of pairs too.  The values, and the   *)
(* prices that a backfill adds in the same way, are left out.                *)
EXTENDS Naturals, FiniteSets, FiniteSetsExt

CONSTANTS
    Overlap,        \* minutes a roll-up goes back behind the last row
    BackWindow,     \* reach of the hourly backfill
    StartWindow,    \* reach of the first backfill after a start
    HandWindow,     \* reach of a backfill by hand (62 days in the code)
    Retention,      \* age at which a raw reading is deleted
    BridgeOutage,   \* bound: how long the bridge stays away
    RollupGap,      \* bound: time between two rounds of the roll-up loop
    BackfillGap,    \* bound: time between two hourly backfills that succeed
    StoreRestarts,  \* bound: restarts of the API
    LastMinute      \* bound on the clock

ASSUME StoreAssumption ==
    /\ {Overlap, BackWindow, StartWindow, HandWindow, Retention, BridgeOutage, RollupGap, StoreRestarts,
        LastMinute} \subseteq Nat
    /\ BackfillGap \in Nat \ {0}

Sensors == {"bridge", "cloud"}
Callers == {"loop", "hand"}     \* _backfill_loop and myenergi_backfill
Minutes == 0..LastMinute

VARIABLES
    minute,         \* the running minute
    raw,            \* measurements_raw
    stored,         \* measurements_minute
    outbox,         \* readings the bridge could not deliver yet
    bridgeUp,       \* the bridge is connected
    cloudUp,        \* the myenergi cloud answers
    rolled,         \* when the roll-up loop last ran
    filled,         \* when an hourly backfill that succeeded began
    firstFill,      \* no backfill has succeeded since the start
    filling,        \* for each caller of backfill, the minutes still to be rolled up
    storeRestarts

storeVars == <<minute, raw, stored, outbox, bridgeUp, cloudUp, rolled, filled, firstFill,
               filling, storeRestarts>>

StoreInit ==
    /\ minute = 0 /\ rolled = 0 /\ filled = 0
    /\ raw = {} /\ stored = {} /\ outbox = {} /\ filling = [c \in Callers |-> {}]
    /\ bridgeUp = TRUE /\ cloudUp = TRUE /\ firstFill = TRUE
    /\ storeRestarts = 0

Back(m, n) == IF m > n THEN m - n ELSE 0
MinutesOf(readings) == {r[2] : r \in readings}

----------------------------------------------------------------------------
\* rollup_minutes: every minute of the range that has a raw reading gets a new
\* row, and a column without a raw reading is None in it, whatever the old row
\* said.
RolledUp(range) ==
    LET fresh == {r \in raw : r[2] \in range}
    IN  {r \in stored : r[2] \notin MinutesOf(fresh)} \cup fresh

\* _rollup_minutes: from shortly before the last row, or from the oldest raw
\* reading, up to the running minute, which is left out.
Begin(readings) ==
    LET oldest == Min(MinutesOf(readings))
    IN  IF stored = {} THEN oldest
        ELSE Max({Back(Max(MinutesOf(stored)), Overlap), oldest})
CaughtUp == IF raw = {} THEN stored ELSE RolledUp({m \in Minutes : Begin(raw) <= m /\ m < minute})

\* prune_raw.
Pruned == {r \in raw : r[2] + Retention >= minute}

\* readings_from_history: what the cloud knows of these minutes and neither
\* store has.
Missing(range) == ({"cloud"} \X range) \ (raw \cup stored)

----------------------------------------------------------------------------
\* A minute passes.  What was measured in it reaches on_telemetry or
\* on_source_readings, or waits at the bridge; the cloud keeps its own history.
Passes ==
    /\ minute < LastMinute
    /\ minute < filled + BackfillGap /\ minute < rolled + RollupGap
    /\ \A c \in Callers : filling[c] = {} \/ minute - 1 \in filling[c]
    /\ ~bridgeUp => Cardinality(outbox) < BridgeOutage
    /\ minute' = minute + 1
    /\ raw' = raw \cup (IF bridgeUp THEN {<<"bridge", minute>>} ELSE {})
                  \cup (IF cloudUp THEN {<<"cloud", minute>>} ELSE {})
    /\ outbox' = outbox \cup (IF bridgeUp THEN {} ELSE {<<"bridge", minute>>})
    /\ UNCHANGED <<stored, bridgeUp, cloudUp, rolled, filled, firstFill, filling, storeRestarts>>

\* The bridge loses the connection, and delivers its backlog when it is back.
BridgeFails ==
    /\ bridgeUp /\ bridgeUp' = FALSE
    /\ UNCHANGED <<minute, raw, stored, outbox, cloudUp, rolled, filled, firstFill, filling,
                   storeRestarts>>
BacklogArrives ==
    /\ ~bridgeUp /\ bridgeUp' = TRUE
    /\ raw' = raw \cup outbox /\ outbox' = {}
    /\ UNCHANGED <<minute, stored, cloudUp, rolled, filled, firstFill, filling, storeRestarts>>
CloudChanges ==
    /\ cloudUp' = ~cloudUp
    /\ UNCHANGED <<minute, raw, stored, outbox, bridgeUp, rolled, filled, firstFill, filling,
                   storeRestarts>>

RollupLoop ==
    /\ stored' = CaughtUp
    /\ rolled' = minute
    /\ UNCHANGED <<minute, raw, outbox, bridgeUp, cloudUp, filled, firstFill, filling,
                   storeRestarts>>

\* _housekeeping_loop: first roll up, then delete; an exception in the first
\* skips the second.
HousekeepingLoop ==
    /\ stored' = CaughtUp
    /\ raw' = Pruned
    /\ UNCHANGED <<minute, outbox, bridgeUp, cloudUp, rolled, filled, firstFill, filling,
                   storeRestarts>>

\* MyenergiSource.backfill, up to the call of on_backfilled.
Backfill(c, from) ==
    /\ cloudUp /\ filling[c] = {} /\ from < minute
    /\ filling' = [filling EXCEPT ![c] = from..(minute - 1)]
    /\ raw' = raw \cup Missing(from..(minute - 1))
    /\ UNCHANGED <<minute, stored, outbox, bridgeUp, cloudUp, rolled, filled, firstFill,
                   storeRestarts>>
\* Hourly; the first one after a start reaches further back.  By hand: a period
\* somebody chose.
BackfillLoop == Backfill("loop", Back(minute, IF firstFill THEN StartWindow ELSE BackWindow))
BackfillByHand == \E back \in 1..HandWindow : back <= minute /\ Backfill("hand", minute - back)

\* Mutant of AfterBackfill: leaves the roll-up to the loop.
AfterBackfillOnlyCounts(c) ==
    /\ filling[c] # {}
    /\ filling' = [filling EXCEPT ![c] = {}]
    /\ IF c = "loop" THEN filled' = Max(filling[c]) + 1 /\ firstFill' = FALSE
                     ELSE UNCHANGED <<filled, firstFill>>
    /\ UNCHANGED <<minute, raw, stored, outbox, bridgeUp, cloudUp, rolled, storeRestarts>>

\* _after_backfill: what was filled in is rolled up at once, because the loop
\* would never look at these minutes again.
AfterBackfill(c) ==
    /\ filling[c] # {}
    /\ stored' = RolledUp(filling[c])
    /\ filling' = [filling EXCEPT ![c] = {}]
    /\ IF c = "loop" THEN filled' = Max(filling[c]) + 1 /\ firstFill' = FALSE
                     ELSE UNCHANGED <<filled, firstFill>>
    /\ UNCHANGED <<minute, raw, outbox, bridgeUp, cloudUp, rolled, storeRestarts>>

\* The API ends between any two of these steps and starts again.
RestartStore ==
    /\ storeRestarts < StoreRestarts
    /\ storeRestarts' = storeRestarts + 1
    /\ firstFill' = TRUE /\ filling' = [c \in Callers |-> {}]
    /\ UNCHANGED <<minute, raw, stored, outbox, bridgeUp, cloudUp, rolled, filled>>

StoreNext ==
    \/ Passes \/ BridgeFails \/ BacklogArrives \/ CloudChanges
    \/ RollupLoop \/ HousekeepingLoop
    \/ BackfillLoop \/ BackfillByHand \/ \E c \in Callers : AfterBackfill(c)
    \/ RestartStore

StoreSpec == StoreInit /\ [][StoreNext]_storeVars

----------------------------------------------------------------------------
StoreTypeOK ==
    /\ {minute, rolled, filled} \subseteq Minutes
    /\ raw \subseteq Sensors \X Minutes /\ stored \subseteq Sensors \X Minutes
    /\ outbox \subseteq {"bridge"} \X Minutes
    /\ filling \in [Callers -> SUBSET Minutes]
    /\ {bridgeUp, cloudUp, firstFill} \subseteq BOOLEAN
    /\ storeRestarts \in 0..StoreRestarts

\* A reading that has arrived is in one of the two stores from then on: the
\* raw row is never deleted before the minute row holds it, however late it
\* came and whatever the roll-up, the backfill and the deletion did in between.
NothingLost == [][raw \cup stored \subseteq raw' \cup stored']_storeVars

\* "Jede Minute wird ersetzt, nicht ergaenzt", and that does no harm: a column
\* of a minute row that was filled stays filled.
RowsStay == [][stored \subseteq stored']_storeVars
=============================================================================
