----------------------------- MODULE StoreProofs ------------------------------
(* What is kept: the readings between the raw and the minute table, the hours   *)
(* of the energy balance, the forecasts that learning needs.  For every value   *)
(* of the constants, where a hypothesis does not name what it needs of them.    *)
EXTENDS MeasurementStore, EnergyLedger, ForecastArchive,
        TLAPS, FiniteSetTheorems, WellFoundedInduction

----------------------------------------------------------------------------
(* The readings.  The roll-up loop only looks at what came lately; it is the   *)
(* hourly backfill that rolls up its whole window, so it decides:              *)
(*   - every raw reading without its minute row is in the window of the next   *)
(*     backfill that succeeds, and so too young to be deleted (Reached);       *)
(*   - what the cloud knows of the time before the last backfill is there, so  *)
(*     that a backfill only brings what is younger (CloudKnown);               *)
(*   - the raw readings of a minute go together: a minute row with a raw       *)
(*     reading has all of its readings there (Whole), and a roll-up, which     *)
(*     replaces the row, takes nothing out of it.                              *)

\* The settings are 3 h for the hourly window, 48 h for the one after a start, and 3 days for the
\* raw rows; the hourly backfill answers, and the bridge comes back, in 3 h together.
BackfillReaches == BridgeOutage + BackfillGap <= BackWindow /\ BackWindow <= StartWindow /\ BackWindow <= Retention

StoreTyped ==
    /\ minute \in Minutes /\ rolled \in Minutes /\ filled \in Minutes
    /\ raw \subseteq Sensors \X Minutes /\ stored \subseteq Sensors \X Minutes
    /\ outbox \subseteq {"bridge"} \X Minutes
    /\ filling \in [Callers -> SUBSET Minutes]
    /\ bridgeUp \in BOOLEAN /\ cloudUp \in BOOLEAN /\ firstFill \in BOOLEAN
    /\ storeRestarts \in 0..StoreRestarts

StoreTimes == filled <= minute /\ minute <= filled + BackfillGap
Past == \A r \in raw \cup stored \cup outbox : r[2] < minute
Waiting ==
    /\ IsFiniteSet(outbox) /\ Cardinality(outbox) <= BridgeOutage
    /\ bridgeUp => outbox = {}
    /\ \A r \in outbox : r[2] + Cardinality(outbox) >= minute
Reached == \A r \in raw : r \in stored \/ r[2] + BackWindow >= filled + BackfillGap
Whole == \A r \in stored, q \in raw : r[2] = q[2] => r \in raw
PrunedOld == \A r \in stored : r \in raw \/ r[2] + Retention < minute
CloudKnown == \A m \in Minutes : m < filled => <<"cloud", m>> \in raw \cup stored

\* The hourly backfill that runs took all minutes of its window before it began, at b.
FillingFrom(from, b) ==
    /\ filling["loop"] = from..(b - 1) /\ from < b /\ b <= minute /\ minute <= b + 1 /\ filled <= b
    /\ from = 0 \/ from + BackWindow <= b
    /\ \A m \in from..(b - 1) : <<"cloud", m>> \in raw \cup stored
FillingTakes == filling["loop"] # {} => \E from, b \in Nat : FillingFrom(from, b)

StoreInv ==
    StoreTyped /\ StoreTimes /\ Past /\ Waiting /\ Reached /\ Whole /\ PrunedOld /\ CloudKnown /\ FillingTakes

LEMMA StoreNumbers ==
  /\ BackWindow \in Nat /\ StartWindow \in Nat /\ Retention \in Nat /\ BridgeOutage \in Nat
  /\ StoreRestarts \in Nat /\ LastMinute \in Nat /\ BackfillGap \in Nat /\ BackfillGap >= 1
<1>1. {BackWindow, StartWindow, Retention, BridgeOutage, StoreRestarts, LastMinute} \subseteq Nat
  BY StoreAssumption DEF StoreAssumption
<1>2. BackfillGap \in Nat \ {0}
  BY StoreAssumption DEF StoreAssumption
<1>3. BackfillGap \in Nat /\ BackfillGap >= 1
  BY <1>2
<1> QED BY <1>1, <1>3

\* A reading is a pair of a sensor and a minute.
LEMMA ReadingFacts ==
  ASSUME StoreTyped
  PROVE  /\ \A r \in raw \cup stored : r[1] \in Sensors /\ r[2] \in Minutes /\ r = <<r[1], r[2]>>
         /\ \A r \in outbox : r[2] \in Minutes /\ r = <<"bridge", r[2]>> /\ r \in Sensors \X Minutes
         /\ \A m \in Minutes : m \in Nat /\ m <= LastMinute
         /\ minute \in Nat /\ filled \in Nat
BY StoreNumbers DEF StoreTyped, Sensors, Minutes

\* A roll-up of any range keeps every row, and takes the raw readings of the range.
LEMMA RolledKeeps ==
  ASSUME StoreTyped, Whole, NEW range
  PROVE  /\ stored \subseteq RolledUp(range) /\ RolledUp(range) \subseteq stored \cup raw
         /\ \A r \in raw : r[2] \in range => r \in RolledUp(range)
<1> DEFINE fresh == {r \in raw : r[2] \in range}
<1>1. RolledUp(range) = {r \in stored : r[2] \notin MinutesOf(fresh)} \cup fresh
  BY DEF RolledUp
<1>2. ASSUME NEW r \in stored, r[2] \in MinutesOf(fresh) PROVE r \in fresh
  <2>1. PICK q \in fresh : q[2] = r[2]
    BY <1>2 DEF MinutesOf
  <2>2. r \in raw /\ r[2] \in range
    BY <2>1 DEF Whole
  <2> QED BY <2>2
<1> HIDE DEF fresh
<1>3. fresh \subseteq raw /\ \A r \in raw : r[2] \in range => r \in fresh
  BY DEF fresh
<1> QED BY <1>1, <1>2, <1>3

\* So does the round of _rollup_minutes.
LEMMA CaughtUpKeeps ==
  ASSUME StoreTyped, Whole
  PROVE  stored \subseteq CaughtUp /\ CaughtUp \subseteq stored \cup raw
BY RolledKeeps DEF CaughtUp

LEMMA StoreStarts == StoreInit => StoreInv
<1> SUFFICES ASSUME StoreInit PROVE StoreInv
  OBVIOUS
<1> USE StoreNumbers
<1>1. StoreTyped
  BY DEF StoreInit, StoreTyped, Minutes, Callers
<1>2. Cardinality(outbox) = 0 /\ IsFiniteSet(outbox)
  BY FS_EmptySet DEF StoreInit
<1>3. StoreTimes /\ Past /\ Reached /\ Whole /\ PrunedOld /\ FillingTakes
  BY DEF StoreInit, StoreTimes, Past, Reached, Whole, PrunedOld, FillingTakes, Callers
<1>4. CloudKnown
  BY DEF StoreInit, CloudKnown, Minutes
<1>5. Waiting
  BY <1>2 DEF StoreInit, Waiting
<1> QED BY <1>1, <1>3, <1>4, <1>5 DEF StoreInv

\* Time goes on, and what is measured arrives or waits.
LEMMA PassesKeep ==
  ASSUME StoreInv, BackfillReaches, Passes
  PROVE  StoreInv'
<1> USE StoreNumbers
<1>0. StoreTyped /\ StoreTimes /\ Past
  BY DEF StoreInv
<1>1. /\ minute < LastMinute /\ minute < filled + BackfillGap /\ minute' = minute + 1
      /\ filling["loop"] = {} \/ minute - 1 \in filling["loop"]
      /\ UNCHANGED <<stored, bridgeUp, cloudUp, rolled, filled, firstFill, filling, storeRestarts>>
  BY DEF Passes, Callers
<1>2. /\ raw \subseteq raw' /\ raw' \subseteq Sensors \X Minutes
      /\ \A r \in raw' : r \in raw \/ r[2] = minute
  BY <1>0 DEF Passes, StoreTyped, Sensors
<1>3. outbox' \subseteq {"bridge"} \X Minutes /\ \A r \in outbox' : r \in outbox \/ r[2] = minute
  BY <1>0 DEF Passes, StoreTyped
<1>4. minute \in Nat /\ filled \in Nat /\ minute' \in Minutes /\ \A r \in raw \cup stored \cup outbox : r[2] \in Nat
  BY <1>0, <1>1, ReadingFacts DEF Minutes
<1>5. StoreTyped'
  BY <1>0, <1>1, <1>2, <1>3, <1>4 DEF StoreTyped
<1>6. StoreTimes' /\ Past'
  BY <1>0, <1>1, <1>2, <1>3, <1>4 DEF StoreTimes, Past
<1>7. Waiting'
  <2>1. Waiting
    BY DEF StoreInv
  <2>2. CASE bridgeUp
    BY <1>1, <2>1, <2>2 DEF Waiting, Passes
  <2>3. CASE ~bridgeUp
    <3>1. /\ outbox' = outbox \cup {<<"bridge", minute>>} /\ Cardinality(outbox) < BridgeOutage
          /\ bridgeUp' = bridgeUp
      BY <2>3 DEF Passes
    <3>2. <<"bridge", minute>> \notin outbox
      BY <1>0, <1>4 DEF Past
    <3>3. IsFiniteSet(outbox') /\ Cardinality(outbox') = Cardinality(outbox) + 1 /\ Cardinality(outbox) \in Nat
      BY <2>1, <3>1, <3>2, FS_AddElement, FS_CardinalityType DEF Waiting
    <3>4. \A r \in outbox' : r[2] + Cardinality(outbox') >= minute'
      BY <1>1, <1>3, <1>4, <2>1, <3>3 DEF Waiting
    <3>5. ~bridgeUp'
      BY <2>3, <3>1
    <3>6. Cardinality(outbox') <= BridgeOutage
      BY <3>1, <3>3
    <3> QED BY <3>3, <3>4, <3>5, <3>6 DEF Waiting
  <2> QED BY <2>2, <2>3
<1>8. Reached'
  BY <1>0, <1>1, <1>2, <1>4 DEF Reached, StoreInv, StoreTimes, BackfillReaches
<1>9. Whole' /\ PrunedOld'
  BY <1>0, <1>1, <1>2, <1>4 DEF Whole, PrunedOld, StoreInv, Past
<1>10. CloudKnown'
  BY <1>1, <1>2 DEF CloudKnown, StoreInv
<1>11. FillingTakes'
  <2>1. ASSUME filling["loop"] # {} PROVE \E from, b \in Nat : FillingFrom(from, b)'
    <3>1. PICK from \in Nat, b \in Nat : FillingFrom(from, b)
      BY <2>1 DEF StoreInv, FillingTakes
    <3>2. minute - 1 \in from..(b - 1)
      BY <1>1, <2>1, <3>1 DEF FillingFrom
    <3>3. FillingFrom(from, b)'
      BY <1>1, <1>2, <1>4, <3>1, <3>2 DEF FillingFrom
    <3> QED BY <3>3
  <2> QED BY <1>1, <2>1 DEF FillingTakes
<1> QED BY <1>5, <1>6, <1>7, <1>8, <1>9, <1>10, <1>11 DEF StoreInv

\* The backlog of the bridge is younger than what has been deleted and than the reach of the
\* next backfill.
LEMMA BacklogKeeps ==
  ASSUME StoreInv, BackfillReaches, BacklogArrives
  PROVE  StoreInv'
<1> USE StoreNumbers
<1>0. StoreTyped /\ StoreTimes /\ Past /\ Waiting
  BY DEF StoreInv
<1>1. /\ raw' = raw \cup outbox /\ outbox' = {} /\ bridgeUp' = TRUE
      /\ UNCHANGED <<minute, stored, cloudUp, rolled, filled, firstFill, filling, storeRestarts>>
  BY DEF BacklogArrives
<1>2. minute \in Nat /\ filled \in Nat /\ \A r \in raw \cup stored \cup outbox : r[2] \in Nat
  BY <1>0, ReadingFacts
<1>3. Cardinality(outbox) \in Nat
  BY <1>0, FS_CardinalityType DEF Waiting
<1>4. \A r \in outbox : r[2] + BridgeOutage >= minute
  BY <1>0, <1>2, <1>3 DEF Waiting
<1>5. StoreTyped'
  BY <1>0, <1>1, ReadingFacts DEF StoreTyped
<1>6. StoreTimes' /\ Past'
  BY <1>0, <1>1 DEF StoreTimes, Past
<1>7. Waiting'
  BY <1>1, FS_EmptySet DEF Waiting
<1>8. Reached'
  BY <1>0, <1>1, <1>2, <1>4 DEF Reached, StoreInv, StoreTimes, BackfillReaches
<1>9. Whole'
  <2>1. ASSUME NEW r \in stored, NEW q \in outbox, r[2] = q[2] PROVE r \in raw
    BY <1>2, <1>4, <2>1 DEF StoreInv, PrunedOld, BackfillReaches
  <2> QED BY <1>1, <2>1 DEF Whole, StoreInv
<1>10. PrunedOld' /\ CloudKnown'
  BY <1>1 DEF PrunedOld, CloudKnown, StoreInv
<1>11. FillingTakes'
  BY <1>1 DEF FillingTakes, FillingFrom, StoreInv
<1> QED BY <1>5, <1>6, <1>7, <1>8, <1>9, <1>10, <1>11 DEF StoreInv

\* A backfill only brings what the cloud measured since the last one.
LEMMA BackfillKeeps ==
  ASSUME StoreInv, BackfillReaches, NEW c \in Callers, NEW from \in Nat, Backfill(c, from),
         c = "loop" => from = 0 \/ from + BackWindow <= minute
  PROVE  StoreInv'
<1> USE StoreNumbers
<1>0. StoreTyped /\ StoreTimes /\ Past /\ CloudKnown
  BY DEF StoreInv
<1>1. /\ from < minute /\ filling' = [filling EXCEPT ![c] = from..(minute - 1)]
      /\ raw' = raw \cup Missing(from..(minute - 1))
      /\ UNCHANGED <<minute, stored, outbox, bridgeUp, cloudUp, rolled, filled, firstFill, storeRestarts>>
  BY DEF Backfill
<1>2. /\ minute \in Nat /\ filled \in Nat /\ minute <= LastMinute
      /\ \A r \in raw \cup stored \cup outbox : r[2] \in Nat
  BY <1>0, ReadingFacts DEF StoreTyped
<1>3. from..(minute - 1) \subseteq Minutes /\ from..(minute - 1) # {}
  BY <1>1, <1>2 DEF Minutes
<1>4. ASSUME NEW q \in Missing(from..(minute - 1))
      PROVE  /\ q \in Sensors \X Minutes /\ q[2] \in Nat /\ q[2] < minute /\ q[2] >= filled
  <2>1. q[1] = "cloud" /\ q[2] \in from..(minute - 1) /\ q = <<"cloud", q[2]>> /\ q \notin raw \cup stored
    BY DEF Missing
  <2>2. q[2] \in Minutes /\ q[2] \in Nat /\ q[2] < minute
    BY <1>2, <1>3, <2>1
  <2>3. ~(q[2] < filled)
    BY <1>0, <2>1, <2>2 DEF CloudKnown
  <2> QED BY <1>2, <2>1, <2>2, <2>3 DEF Sensors
<1>5. StoreTyped'
  <2>1. filling' \in [Callers -> SUBSET Minutes]
    BY <1>0, <1>1, <1>3 DEF StoreTyped
  <2>2. raw' \subseteq Sensors \X Minutes
    BY <1>0, <1>1, <1>4 DEF StoreTyped
  <2> QED BY <1>0, <1>1, <2>1, <2>2 DEF StoreTyped
<1>6. StoreTimes' /\ Past'
  BY <1>0, <1>1, <1>4 DEF StoreTimes, Past
<1>7. Waiting'
  BY <1>1 DEF Waiting, StoreInv
<1>8. Reached'
  BY <1>0, <1>1, <1>2, <1>4 DEF Reached, StoreInv, BackfillReaches
<1>9. Whole'
  <2>1. ASSUME NEW r \in stored, NEW q \in Missing(from..(minute - 1)), r[2] = q[2] PROVE r \in raw
    BY <1>0, <1>2, <1>4, <2>1 DEF StoreInv, PrunedOld, StoreTimes, BackfillReaches
  <2> QED BY <1>1, <2>1 DEF Whole, StoreInv
<1>10. PrunedOld' /\ CloudKnown'
  BY <1>1 DEF PrunedOld, CloudKnown, StoreInv
<1>11. FillingTakes'
  <2>1. CASE c = "loop"
    <3>1. filling'["loop"] = from..(minute - 1)
      BY <1>0, <1>1, <2>1 DEF StoreTyped
    <3>2. ASSUME NEW m \in from..(minute - 1) PROVE <<"cloud", m>> \in raw' \cup stored'
      BY <1>1 DEF Missing
    <3>3. FillingFrom(from, minute)'
      BY <1>0, <1>1, <1>2, <2>1, <3>1, <3>2 DEF FillingFrom, StoreTimes
    <3> QED BY <1>1, <1>2, <3>3 DEF FillingTakes
  <2>2. CASE c # "loop"
    <3>1. filling'["loop"] = filling["loop"]
      BY <1>0, <1>1, <2>2 DEF StoreTyped
    <3>2. \A f, b \in Nat : FillingFrom(f, b) => FillingFrom(f, b)'
      BY <1>1, <3>1 DEF FillingFrom
    <3> QED BY <3>1, <3>2 DEF FillingTakes, StoreInv
  <2> QED BY <2>1, <2>2
<1> QED BY <1>5, <1>6, <1>7, <1>8, <1>9, <1>10, <1>11 DEF StoreInv

\* What was filled in is rolled up, and with it all that waited in these minutes.
LEMMA AfterBackfillKeeps ==
  ASSUME StoreInv, BackfillReaches, NEW c \in Callers, AfterBackfill(c)
  PROVE  StoreInv' /\ stored \subseteq stored'
<1> USE StoreNumbers
<1>0. StoreTyped /\ StoreTimes /\ Past /\ Whole
  BY DEF StoreInv
<1>1. /\ stored' = RolledUp(filling[c]) /\ filling' = [filling EXCEPT ![c] = {}] /\ filling[c] # {}
      /\ UNCHANGED <<minute, raw, outbox, bridgeUp, cloudUp, rolled, storeRestarts>>
  BY DEF AfterBackfill
<1>2. minute \in Nat /\ filled \in Nat /\ minute <= LastMinute /\ \A r \in raw \cup stored : r[2] \in Nat
  BY <1>0, ReadingFacts DEF StoreTyped
<1>3. /\ stored \subseteq stored' /\ stored' \subseteq stored \cup raw
      /\ \A r \in raw : r[2] \in filling[c] => r \in stored'
  BY <1>0, <1>1, RolledKeeps
<1>4. Past' /\ Waiting' /\ Whole' /\ PrunedOld'
  BY <1>0, <1>1, <1>3 DEF Past, Waiting, Whole, PrunedOld, StoreInv
<1>5. /\ filling' \in [Callers -> SUBSET Minutes] /\ raw' \subseteq Sensors \X Minutes
      /\ stored' \subseteq Sensors \X Minutes
  BY <1>0, <1>1, <1>3 DEF StoreTyped
<1>6. CASE c = "loop"
  <2>1. filled' = Max(filling["loop"]) + 1 /\ firstFill' = FALSE
    BY <1>6 DEF AfterBackfill
  <2>2. PICK from \in Nat, b \in Nat : FillingFrom(from, b)
    BY <1>1, <1>6 DEF StoreInv, FillingTakes
  <2>3. Max(filling["loop"]) = b - 1
    <3>1. b - 1 \in filling["loop"] /\ \A x \in filling["loop"] : x \in Int /\ b - 1 >= x
      BY <2>2 DEF FillingFrom
    <3> QED BY <3>1 DEF Max
  <2>4. filled' = b /\ b <= minute /\ minute <= b + 1 /\ filled <= b /\ from < b
    BY <2>1, <2>2, <2>3 DEF FillingFrom
  <2>5. StoreTyped'
    <3>1. filled' \in Minutes /\ minute' \in Minutes /\ rolled' \in Minutes
      BY <1>0, <1>1, <1>2, <2>4 DEF StoreTyped, Minutes
    <3>2. bridgeUp' \in BOOLEAN /\ cloudUp' \in BOOLEAN
      BY <1>0, <1>1 DEF StoreTyped
    <3> QED BY <1>0, <1>1, <1>5, <2>1, <3>1, <3>2 DEF StoreTyped
  <2>6. StoreTimes'
    BY <1>1, <1>2, <2>4 DEF StoreTimes
  <2>7. Reached'
    <3>1. ASSUME NEW r \in raw, r \notin stored' PROVE r[2] + BackWindow >= b + BackfillGap
      <4>1. r[2] \notin from..(b - 1) /\ r \notin stored /\ r[2] \in Nat
        BY <1>2, <1>3, <1>6, <2>2, <3>1 DEF FillingFrom
      <4>2. r[2] + BackWindow >= filled + BackfillGap
        BY <4>1 DEF StoreInv, Reached
      <4>3. r[2] + BackWindow >= b
        BY <1>0, <1>2, <2>4, <4>1, <4>2 DEF StoreTimes
      <4>4. r[2] >= from
        BY <2>2, <4>1, <4>3 DEF FillingFrom
      <4>5. r[2] >= b
        BY <4>1, <4>4
      <4> QED BY <4>1, <4>5 DEF BackfillReaches
    <3> QED BY <1>1, <2>4, <3>1 DEF Reached
  <2>8. CloudKnown'
    <3>1. ASSUME NEW m \in Minutes, m < b PROVE <<"cloud", m>> \in raw \cup stored
      <4>1. m \in Nat
        BY DEF Minutes
      <4>2. CASE m >= from
        BY <2>2, <3>1, <4>1, <4>2 DEF FillingFrom
      <4>3. CASE m < from
        <5>1. from + BackWindow <= b
          BY <2>2, <4>1, <4>3 DEF FillingFrom
        <5>2. m < filled
          BY <1>0, <1>2, <2>4, <4>1, <4>3, <5>1 DEF StoreTimes, BackfillReaches
        <5> QED BY <5>2 DEF StoreInv, CloudKnown
      <4> QED BY <4>1, <4>2, <4>3
    <3> QED BY <1>1, <1>3, <2>4, <3>1 DEF CloudKnown
  <2>9. FillingTakes'
    BY <1>0, <1>1, <1>6 DEF FillingTakes, StoreTyped
  <2> QED BY <1>3, <1>4, <2>5, <2>6, <2>7, <2>8, <2>9 DEF StoreInv
<1>7. CASE c # "loop"
  <2>1. UNCHANGED <<filled, firstFill>>
    BY <1>7 DEF AfterBackfill
  <2>2. StoreTyped'
    BY <1>0, <1>1, <1>5, <2>1 DEF StoreTyped
  <2>3. StoreTimes' /\ Reached' /\ CloudKnown'
    BY <1>0, <1>1, <1>3, <2>1 DEF StoreTimes, Reached, CloudKnown, StoreInv
  <2>4. filling'["loop"] = filling["loop"]
    BY <1>0, <1>1, <1>7 DEF StoreTyped
  <2>5. \A f, b \in Nat : FillingFrom(f, b) => FillingFrom(f, b)'
    BY <1>1, <1>3, <2>1, <2>4 DEF FillingFrom
  <2>6. FillingTakes'
    BY <2>4, <2>5 DEF FillingTakes, StoreInv
  <2> QED BY <1>3, <1>4, <2>2, <2>3, <2>6 DEF StoreInv
<1> QED BY <1>6, <1>7

\* The roll-up, and the deletion behind it: what it deletes has its minute row.
LEMMA RollupKeeps ==
  ASSUME StoreInv, BackfillReaches, RollupLoop \/ HousekeepingLoop
  PROVE  StoreInv' /\ raw \cup stored \subseteq raw' \cup stored' /\ stored \subseteq stored'
<1> USE StoreNumbers
<1>0. StoreTyped /\ StoreTimes /\ Past /\ Whole
  BY DEF StoreInv
<1>1. /\ stored' = CaughtUp /\ raw' \in {raw, Pruned} /\ rolled' \in {rolled, minute}
      /\ UNCHANGED <<minute, outbox, bridgeUp, cloudUp, filled, firstFill, filling, storeRestarts>>
  BY DEF RollupLoop, HousekeepingLoop
<1>2. minute \in Nat /\ filled \in Nat /\ \A r \in raw \cup stored : r[2] \in Nat
  BY <1>0, ReadingFacts DEF StoreTyped
<1>3. stored \subseteq stored' /\ stored' \subseteq stored \cup raw
  BY <1>0, <1>1, CaughtUpKeeps
<1>4. raw' \subseteq raw /\ \A r \in raw : r \in raw' \/ r[2] + Retention < minute
  BY <1>1, <1>2 DEF Pruned
<1>5. raw \cup stored \subseteq raw' \cup stored'
  BY <1>0, <1>2, <1>3, <1>4 DEF StoreInv, Reached, StoreTimes, BackfillReaches
<1>6. StoreTyped'
  BY <1>0, <1>1, <1>3, <1>4 DEF StoreTyped
<1>7. StoreTimes' /\ Past' /\ Waiting' /\ Reached'
  BY <1>0, <1>1, <1>3, <1>4 DEF StoreTimes, Past, Waiting, Reached, StoreInv
<1>8. Whole'
  <2>1. \A r, q \in raw : r[2] = q[2] /\ q \in raw' => r \in raw'
    BY <1>1 DEF Pruned
  <2> QED BY <1>0, <1>3, <1>4, <2>1 DEF Whole
<1>9. PrunedOld'
  BY <1>1, <1>3, <1>4 DEF PrunedOld, StoreInv
<1>10. CloudKnown'
  BY <1>1, <1>5 DEF CloudKnown, StoreInv
<1>11. FillingTakes'
  BY <1>1, <1>5 DEF FillingTakes, FillingFrom, StoreInv
<1> QED BY <1>3, <1>5, <1>6, <1>7, <1>8, <1>9, <1>10, <1>11 DEF StoreInv

LEMMA StoreStep ==
  ASSUME StoreInv, BackfillReaches, [StoreNext]_storeVars
  PROVE  StoreInv' /\ raw \cup stored \subseteq raw' \cup stored' /\ stored \subseteq stored'
<1> USE StoreNumbers
<1>0. StoreTyped
  BY DEF StoreInv
<1>1. CASE UNCHANGED storeVars
  <2>1. StoreInv'
    BY <1>1 DEF storeVars, StoreInv, StoreTyped, StoreTimes, Past, Waiting, Reached, Whole, PrunedOld, CloudKnown,
                FillingTakes, FillingFrom
  <2> QED BY <1>1, <2>1 DEF storeVars
<1>2. CASE Passes
  BY <1>2, PassesKeep DEF Passes
<1>3. CASE BacklogArrives
  BY <1>3, BacklogKeeps DEF BacklogArrives
<1>4. CASE BridgeFails \/ CloudChanges
  <2>1. /\ UNCHANGED <<minute, raw, stored, outbox, rolled, filled, firstFill, filling, storeRestarts>>
        /\ bridgeUp' = bridgeUp \/ (bridgeUp' = FALSE /\ bridgeUp /\ cloudUp' = cloudUp)
        /\ bridgeUp' = bridgeUp => cloudUp' \in BOOLEAN
    BY <1>0, <1>4 DEF BridgeFails, CloudChanges, StoreTyped
  <2>2. bridgeUp' \in BOOLEAN /\ cloudUp' \in BOOLEAN
    BY <1>0, <2>1 DEF StoreTyped
  <2>3. StoreTyped'
    BY <1>0, <2>1, <2>2 DEF StoreTyped
  <2>4. Waiting'
    BY <2>1 DEF Waiting, StoreInv
  <2>5. StoreTimes' /\ Past' /\ Reached' /\ Whole' /\ PrunedOld' /\ CloudKnown' /\ FillingTakes'
    BY <2>1 DEF StoreInv, StoreTimes, Past, Reached, Whole, PrunedOld, CloudKnown, FillingTakes, FillingFrom
  <2> QED BY <2>1, <2>3, <2>4, <2>5 DEF StoreInv
<1>5. CASE BackfillLoop
  <2>1. PICK w \in {StartWindow, BackWindow} : Backfill("loop", Back(minute, w))
    BY <1>5 DEF BackfillLoop
  <2>2. minute \in Nat /\ w \in Nat /\ w >= BackWindow
    BY <1>0, ReadingFacts DEF BackfillReaches
  <2>3. Back(minute, w) \in Nat /\ (Back(minute, w) = 0 \/ Back(minute, w) + BackWindow <= minute)
    BY <2>2 DEF Back
  <2>4. StoreInv'
    BY <2>1, <2>3, BackfillKeeps DEF Callers
  <2> QED BY <2>1, <2>4 DEF Backfill
<1>6. CASE BackfillByHand
  <2>1. PICK back \in 1..HandWindow : back <= minute /\ Backfill("hand", minute - back)
    BY <1>6 DEF BackfillByHand
  <2>2. minute - back \in Nat
    BY <1>0, <2>1, ReadingFacts
  <2>3. StoreInv'
    BY <2>1, <2>2, BackfillKeeps DEF Callers
  <2> QED BY <2>1, <2>3 DEF Backfill
<1>7. CASE \E c \in Callers : AfterBackfill(c)
  BY <1>7, AfterBackfillKeeps DEF AfterBackfill
<1>8. CASE RollupLoop \/ HousekeepingLoop
  BY <1>8, RollupKeeps
<1>9. CASE RestartStore
  <2>1. /\ storeRestarts < StoreRestarts /\ storeRestarts' = storeRestarts + 1
        /\ firstFill' = TRUE /\ filling' = [c \in Callers |-> {}]
        /\ UNCHANGED <<minute, raw, stored, outbox, bridgeUp, cloudUp, rolled, filled>>
    BY <1>9 DEF RestartStore
  <2>2. StoreTyped'
    BY <1>0, <2>1 DEF StoreTyped
  <2>3. FillingTakes'
    BY <2>1 DEF FillingTakes, Callers
  <2>4. StoreTimes' /\ Past' /\ Waiting' /\ Reached' /\ Whole' /\ PrunedOld' /\ CloudKnown'
    BY <2>1 DEF StoreInv, StoreTimes, Past, Waiting, Reached, Whole, PrunedOld, CloudKnown
  <2> QED BY <2>1, <2>2, <2>3, <2>4 DEF StoreInv
<1> QED BY <1>1, <1>2, <1>3, <1>4, <1>5, <1>6, <1>7, <1>8, <1>9 DEF StoreNext

LEMMA StoreAlways == BackfillReaches => (StoreSpec => [](StoreInv) /\ NothingLost /\ RowsStay)
<1> SUFFICES ASSUME BackfillReaches PROVE StoreSpec => [](StoreInv) /\ NothingLost /\ RowsStay
  OBVIOUS
<1>1. StoreInit => StoreInv
  BY StoreStarts
<1>2. StoreInv /\ [StoreNext]_storeVars => StoreInv'
  BY StoreStep
<1>3. StoreInv /\ [StoreNext]_storeVars => [raw \cup stored \subseteq raw' \cup stored']_storeVars
  BY StoreStep
<1>4. StoreInv /\ [StoreNext]_storeVars => [stored \subseteq stored']_storeVars
  BY StoreStep
<1> QED BY <1>1, <1>2, <1>3, <1>4, PTL DEF StoreSpec, NothingLost, RowsStay

\* The types hold.
THEOREM StoreTypes == BackfillReaches => (StoreSpec => []StoreTypeOK)
<1> SUFFICES ASSUME BackfillReaches PROVE StoreSpec => []StoreTypeOK
  OBVIOUS
<1>1. StoreInv => StoreTypeOK
  BY DEF StoreInv, StoreTyped, StoreTypeOK
<1> QED BY <1>1, StoreAlways, PTL

\* prune_raw deletes no raw reading before its minute row holds it, and no roll-up takes it out
\* of there again, as long as the outage of the bridge and the time between two backfills that
\* succeed come to no more than the hourly window, and that window lies within the retention:
\* roll-up, backfill by the loop and by hand, deletion and restarts in any order.
THEOREM StoreLosesNothing == BackfillReaches => (StoreSpec => NothingLost)
BY StoreAlways

\* "Jede Minute wird ersetzt, nicht ergaenzt" (rollup_minutes) then takes no filled column away,
\* however far back a backfill by hand reaches.
THEOREM StoreRowsStay == BackfillReaches => (StoreSpec => RowsStay)
BY StoreAlways

----------------------------------------------------------------------------
(* The hours.  All that counts is who writes what: calculated hours, and the   *)
(* stored ones, have whole numbers for their minutes and for the heat pump.    *)

Hour(x) ==
    /\ x = [minutes |-> x.minutes, coarse |-> x.coarse, pump |-> x.pump, account |-> x.account]
    /\ x.minutes \in Nat /\ x.pump \in Nat
HoursOf(f) == DOMAIN f \subseteq AllHours /\ \A h \in DOMAIN f : Hour(f[h])

LedgerInv ==
    /\ rowsOf \in [AllHours -> Nat] /\ pumpRows \in [AllHours -> Nat]
    /\ hours = [h \in AllHours |-> hours[h]] /\ \A h \in Stored : Hour(hours[h])
    /\ task = [c \in LedgerCallers |-> task[c]] /\ \A c \in LedgerCallers : HoursOf(task[c])

LEMMA LedgerNumbers == FullHour \in Nat /\ FullEnough \in Nat /\ LedgerHours \in Nat
BY LedgerAssumption DEF LedgerAssumption

\* An hour that is put together from its parts.
LEMMA HourMade ==
  ASSUME NEW m \in Nat, NEW coarse, NEW p \in Nat, NEW a
  PROVE  Hour([minutes |-> m, coarse |-> coarse, pump |-> p, account |-> a])
BY DEF Hour

LEMMA HourPumped ==
  ASSUME NEW x, Hour(x), NEW p \in Nat
  PROVE  /\ Hour([x EXCEPT !.pump = p]) /\ [x EXCEPT !.pump = p].pump = p
         /\ [x EXCEPT !.pump = p].minutes = x.minutes /\ [x EXCEPT !.pump = p].coarse = x.coarse
<1>1. [x EXCEPT !.pump = p] = [minutes |-> x.minutes, coarse |-> x.coarse, pump |-> p, account |-> x.account]
  BY DEF Hour
<1>2. x.minutes \in Nat
  BY DEF Hour
<1> QED BY <1>1, <1>2, HourMade

LEMMA ChainHours ==
  ASSUME NEW S, S \subseteq AllHours, NEW minutes, NEW pump, NEW coarse,
         \A h \in S : minutes[h] \in Nat /\ pump[h] \in Nat
  PROVE  HoursOf(Chain(S, minutes, pump, coarse))
<1>1. \E a : Chain(S, minutes, pump, coarse)
               = [h \in S |-> [minutes |-> minutes[h], coarse |-> coarse, pump |-> pump[h], account |-> a[h]]]
  BY Zenon DEF Chain
<1>2. PICK a : Chain(S, minutes, pump, coarse)
               = [h \in S |-> [minutes |-> minutes[h], coarse |-> coarse, pump |-> pump[h], account |-> a[h]]]
  BY <1>1
<1>3. DOMAIN Chain(S, minutes, pump, coarse) = S
  BY <1>2
<1>4. ASSUME NEW h \in S PROVE Hour(Chain(S, minutes, pump, coarse)[h])
  <2>1. Chain(S, minutes, pump, coarse)[h]
          = [minutes |-> minutes[h], coarse |-> coarse, pump |-> pump[h], account |-> a[h]]
    BY <1>2
  <2> QED BY <2>1, HourMade
<1> QED BY <1>3, <1>4 DEF HoursOf

\* What the callers calculate: from the rows, or from the stored hours themselves.
LEMMA ComputedHours ==
  ASSUME LedgerInv, NEW a, NEW b
  PROVE  HoursOf(Computed(a, b)) /\ HoursOf(Coarse(a, b))
<1>1. WithRows(a, b) \subseteq AllHours
  BY DEF WithRows
<1>2. HoursOf(Computed(a, b))
  BY <1>1, ChainHours DEF Computed, LedgerInv
<1> DEFINE S == {h \in Stored : a <= h /\ h <= b}
           m == [h \in S |-> hours[h].minutes]
           p == [h \in S |-> hours[h].pump]
<1>3. S \subseteq AllHours /\ \A h \in S : m[h] \in Nat /\ p[h] \in Nat
  BY DEF LedgerInv, Hour, Stored
<1>4. Coarse(a, b) = Chain(S, m, p, TRUE)
  BY DEF Coarse
<1> HIDE DEF S, m, p
<1>5. HoursOf(Coarse(a, b))
  BY <1>3, <1>4, ChainHours
<1> QED BY <1>2, <1>5

LEMMA NothingHours == HoursOf(Nothing)
BY DEF HoursOf, Nothing

\* The task of one caller changes.
LEMMA TaskGiven ==
  ASSUME LedgerInv, NEW c \in LedgerCallers, NEW f, HoursOf(f), task' = [task EXCEPT ![c] = f]
  PROVE  task' = [d \in LedgerCallers |-> task'[d]] /\ \A d \in LedgerCallers : HoursOf(task'[d])
<1>1. task = [d \in LedgerCallers |-> task[d]] /\ \A d \in LedgerCallers : HoursOf(task[d])
  BY DEF LedgerInv
<1>2. task' = [d \in LedgerCallers |-> IF d = c THEN f ELSE task[d]]
  BY <1>1
<1>3. \A d \in LedgerCallers : task'[d] = IF d = c THEN f ELSE task[d]
  BY <1>2
<1>4. task' = [d \in LedgerCallers |-> task'[d]]
  BY <1>2, <1>3
<1>5. \A d \in LedgerCallers : HoursOf(task'[d])
  BY <1>1, <1>3
<1> QED BY <1>4, <1>5

\* What _merge_with_stored and upsert_energy_hours leave of the stored hours.
LEMMA WrittenHours ==
  ASSUME LedgerInv, NEW new, HoursOf(new)
  PROVE  /\ Written(new) = [h \in AllHours |-> Written(new)[h]]
         /\ \A h \in AllHours : Written(new)[h] = hours[h] \/ Hour(Written(new)[h])
         /\ \A h \in Stored :
              /\ \/ Written(new)[h].minutes >= hours[h].minutes
                 \/ ~Written(new)[h].coarse /\ Written(new)[h].minutes >= FullEnough
              /\ hours[h].pump > 0 => Written(new)[h].pump > 0
<1> DEFINE w == Written(new)
<1>1. \A h \in AllHours : w[h] = IF h \in DOMAIN new /\ Supersedes(new[h], hours[h]) THEN Merged(new[h], hours[h])
                                 ELSE hours[h]
  BY DEF Written
<1>2. w = [h \in AllHours |-> w[h]]
  BY <1>1 DEF Written
<1>3. ASSUME NEW h \in AllHours, h \in DOMAIN new, Supersedes(new[h], hours[h])
      PROVE  /\ Hour(w[h]) /\ w[h].minutes = new[h].minutes /\ w[h].coarse = new[h].coarse
             /\ (h \in Stored /\ hours[h].pump > 0) => w[h].pump # 0
  <2>1. w[h] = Merged(new[h], hours[h]) /\ Hour(new[h])
    BY <1>1, <1>3 DEF HoursOf
  <2>2. CASE hours[h] # NoHour /\ new[h].pump = 0 /\ hours[h].pump > 0
    <3>1. w[h] = [new[h] EXCEPT !.pump = hours[h].pump] /\ h \in Stored
      BY <2>1, <2>2 DEF Merged, Stored
    <3>2. hours[h].pump \in Nat
      BY <3>1 DEF LedgerInv, Hour
    <3> QED BY <2>1, <2>2, <3>1, <3>2, HourPumped
  <2>3. CASE ~(hours[h] # NoHour /\ new[h].pump = 0 /\ hours[h].pump > 0)
    <3>1. w[h] = new[h]
      BY <2>1, <2>3 DEF Merged
    <3> QED BY <2>1, <2>3, <3>1 DEF Stored
  <2> QED BY <2>2, <2>3
<1>4. ASSUME NEW h \in Stored
      PROVE  /\ \/ w[h].minutes >= hours[h].minutes
                \/ ~w[h].coarse /\ w[h].minutes >= FullEnough
             /\ hours[h].pump > 0 => w[h].pump > 0
  <2>1. h \in AllHours /\ hours[h] # NoHour /\ hours[h].minutes \in Nat /\ hours[h].pump \in Nat
    BY DEF Stored, LedgerInv, Hour
  <2>2. CASE h \in DOMAIN new /\ Supersedes(new[h], hours[h])
    <3>1. new[h].minutes >= hours[h].minutes \/ (~new[h].coarse /\ new[h].minutes >= FullEnough)
      BY <2>1, <2>2 DEF Supersedes
    <3>2. w[h].minutes = new[h].minutes /\ w[h].coarse = new[h].coarse /\ w[h].pump \in Nat
      BY <1>3, <2>1, <2>2 DEF Hour
    <3>3. hours[h].pump > 0 => w[h].pump > 0
      BY <1>3, <2>1, <2>2, <3>2
    <3> QED BY <3>1, <3>2, <3>3
  <2>3. CASE ~(h \in DOMAIN new /\ Supersedes(new[h], hours[h]))
    <3>1. w[h] = hours[h]
      BY <1>1, <2>1, <2>3
    <3> QED BY <2>1, <3>1
  <2> QED BY <2>2, <2>3
<1>5. \A h \in AllHours : w[h] = hours[h] \/ Hour(w[h])
  BY <1>1, <1>3
<1> QED BY <1>2, <1>4, <1>5

\* What the import writes goes over the stored hours.
LEMMA PlacedHours ==
  ASSUME LedgerInv, NEW new, HoursOf(new)
  PROVE  /\ Placed(new) = [h \in AllHours |-> Placed(new)[h]]
         /\ \A h \in AllHours : Placed(new)[h] = hours[h] \/ Hour(Placed(new)[h])
<1>1. \A h \in AllHours : Placed(new)[h] = IF h \in DOMAIN new THEN new[h] ELSE hours[h]
  BY DEF Placed
<1>2. Placed(new) = [h \in AllHours |-> Placed(new)[h]]
  BY <1>1 DEF Placed
<1> QED BY <1>1, <1>2 DEF HoursOf

\* Hours that are old or made of whole numbers keep the invariant's part about the hours.
LEMMA HoursKept ==
  ASSUME LedgerInv, hours' = [h \in AllHours |-> hours'[h]],
         \A h \in AllHours : hours'[h] = hours[h] \/ Hour(hours'[h])
  PROVE  (\A h \in Stored : Hour(hours[h]))'
BY DEF LedgerInv, Stored, AllHours

\* One more row in some hour.
LEMMA RowCounted ==
  ASSUME NEW f \in [AllHours -> Nat], NEW k
  PROVE  [f EXCEPT ![k] = f[k] + 1] \in [AllHours -> Nat]
<1>1. CASE k \in AllHours
  <2>1. f[k] + 1 \in Nat
    BY <1>1
  <2> QED BY <2>1
<1>2. CASE k \notin AllHours
  BY <1>2
<1> QED BY <1>1, <1>2

\* The invariant holds at the start: nothing is stored and nobody has a task.
LEMMA LedgerInitInv == LedgerInit => LedgerInv
<1> SUFFICES ASSUME LedgerInit PROVE LedgerInv
  OBVIOUS
<1>1. rowsOf \in [AllHours -> Nat] /\ pumpRows \in [AllHours -> Nat]
  BY DEF LedgerInit
<1>2. \A h \in AllHours : hours[h] = NoHour
  BY DEF LedgerInit
<1>3. hours = [h \in AllHours |-> hours[h]] /\ \A h \in Stored : Hour(hours[h])
  BY <1>2 DEF LedgerInit, Stored
<1>4. \A c \in LedgerCallers : task[c] = Nothing
  BY DEF LedgerInit
<1>5. task = [c \in LedgerCallers |-> task[c]] /\ \A c \in LedgerCallers : HoursOf(task[c])
  BY <1>4, NothingHours DEF LedgerInit
<1> QED BY <1>1, <1>3, <1>5 DEF LedgerInv

\* The rows change; hours and tasks do not.
LEMMA LedgerRowsStep ==
  ASSUME LedgerInv, UNCHANGED <<hours, task>>, (rowsOf \in [AllHours -> Nat])', (pumpRows \in [AllHours -> Nat])'
  PROVE  LedgerInv'
<1>1. (hours = [h \in AllHours |-> hours[h]])' /\ (\A h \in Stored : Hour(hours[h]))'
  BY DEF LedgerInv, Stored, AllHours
<1>2. (task = [c \in LedgerCallers |-> task[c]])' /\ (\A c \in LedgerCallers : HoursOf(task[c]))'
  BY DEF LedgerInv, HoursOf, AllHours
<1> QED BY <1>1, <1>2 DEF LedgerInv

\* A caller takes its calculated hours, or drops them, and the hours stay or are written.
LEMMA LedgerTaskStep ==
  ASSUME LedgerInv, UNCHANGED <<rowsOf, pumpRows>>, NEW c \in LedgerCallers, NEW f, HoursOf(f),
         task' = [task EXCEPT ![c] = f],
         hours' = [h \in AllHours |-> hours'[h]],
         \A h \in AllHours : hours'[h] = hours[h] \/ Hour(hours'[h])
  PROVE  LedgerInv'
<1>1. (\A h \in Stored : Hour(hours[h]))'
  BY HoursKept
<1>2. task' = [d \in LedgerCallers |-> task'[d]] /\ \A d \in LedgerCallers : HoursOf(task'[d])
  BY TaskGiven
<1>3. (rowsOf \in [AllHours -> Nat])' /\ (pumpRows \in [AllHours -> Nat])'
  BY DEF LedgerInv, AllHours
<1>4. (hours = [h \in AllHours |-> hours[h]])'
  BY DEF AllHours
<1>5. (task = [d \in LedgerCallers |-> task[d]])' /\ (\A d \in LedgerCallers : HoursOf(task[d]))'
  BY <1>2 DEF LedgerCallers, HoursOf, AllHours
<1> QED BY <1>1, <1>3, <1>4, <1>5 DEF LedgerInv

\* Every step of the ledger keeps the invariant.
LEMMA LedgerNextInv ==
  ASSUME LedgerInv, [LedgerNext]_ledgerVars
  PROVE  LedgerInv'
<1>0. /\ FullHour \in Nat
      /\ rowsOf \in [AllHours -> Nat] /\ pumpRows \in [AllHours -> Nat]
      /\ hours = [h \in AllHours |-> hours[h]] /\ \A h \in Stored : Hour(hours[h])
      /\ \A c \in LedgerCallers : HoursOf(task[c])
  BY LedgerNumbers DEF LedgerInv
<1>a. "refresh" \in LedgerCallers /\ "recompute" \in LedgerCallers /\ "import" \in LedgerCallers
  BY DEF LedgerCallers
<1>k. ASSUME UNCHANGED hours
      PROVE  /\ hours' = [h \in AllHours |-> hours'[h]]
             /\ \A h \in AllHours : hours'[h] = hours[h] \/ Hour(hours'[h])
  BY <1>0, <1>k
<1>1. CASE MinuteComes
  <2>1. (rowsOf \in [AllHours -> Nat])' /\ (pumpRows \in [AllHours -> Nat])'
    BY <1>0, <1>1, RowCounted DEF MinuteComes, AllHours
  <2> QED BY <1>1, <2>1, LedgerRowsStep DEF MinuteComes
<1>2. CASE HourPasses \/ Rebuild \/ RecomputeDone
  <2>1. UNCHANGED <<rowsOf, pumpRows, hours, task>>
    BY <1>2 DEF HourPasses, Rebuild, RecomputeDone, sourceVars
  <2>2. (rowsOf \in [AllHours -> Nat])' /\ (pumpRows \in [AllHours -> Nat])'
    BY <1>0, <2>1 DEF AllHours
  <2> QED BY <2>1, <2>2, LedgerRowsStep
<1>3. CASE \E h \in AllHours, pump, again \in BOOLEAN : ImportRead(h, pump, again)
  <2>1. PICK h \in AllHours, pump \in BOOLEAN, again \in BOOLEAN : ImportRead(h, pump, again)
    BY <1>3
  <2> DEFINE f == [k \in {h} |-> Imported(h, pump)]
  <2>2. Hour(Imported(h, pump))
    <3>1. (IF pump THEN FullHour ELSE 0) \in Nat
      BY <1>0
    <3> QED BY <1>0, <3>1, HourMade DEF Imported
  <2>3. HoursOf(f)
    BY <2>2 DEF HoursOf
  <2>4. UNCHANGED <<rowsOf, pumpRows, hours>> /\ task' = [task EXCEPT !["import"] = f]
    BY <2>1 DEF ImportRead, sourceVars
  <2> HIDE DEF f
  <2> QED BY <1>a, <1>k, <2>3, <2>4, LedgerTaskStep
<1>4. CASE \E h \in AllHours : PatchRead(h)
  <2>1. PICK h \in AllHours : PatchRead(h)
    BY <1>4
  <2> DEFINE f == [k \in {h} |-> [hours[h] EXCEPT !.pump = FullHour]]
  <2>2. Hour([hours[h] EXCEPT !.pump = FullHour])
    BY <1>0, <2>1, HourPumped DEF PatchRead
  <2>3. HoursOf(f)
    BY <2>2 DEF HoursOf
  <2>4. UNCHANGED <<rowsOf, pumpRows, hours>> /\ task' = [task EXCEPT !["import"] = f]
    BY <2>1 DEF PatchRead, sourceVars
  <2> HIDE DEF f
  <2> QED BY <1>a, <1>k, <2>3, <2>4, LedgerTaskStep
<1>5. CASE ImportWritten
  <2>1. HoursOf(task["import"])
    BY <1>0, <1>a
  <2> QED BY <1>5, <1>a, <2>1, PlacedHours, NothingHours, LedgerTaskStep DEF ImportWritten, sourceVars
<1>6. CASE Refresh
  <2> DEFINE f == Computed(RefreshBegin, hourNow)
  <2>1. HoursOf(f)
    BY ComputedHours
  <2>2. UNCHANGED <<rowsOf, pumpRows, hours>> /\ task' = [task EXCEPT !["refresh"] = f]
    BY <1>6 DEF Refresh, sourceVars
  <2> HIDE DEF f
  <2> QED BY <1>a, <1>k, <2>1, <2>2, LedgerTaskStep
<1>7. CASE RefreshWritten
  <2>1. HoursOf(task["refresh"])
    BY <1>0, <1>a
  <2> QED BY <1>7, <1>a, <2>1, WrittenHours, NothingHours, LedgerTaskStep DEF RefreshWritten, sourceVars
<1>8. CASE \E a, b \in AllHours, n \in 1..FullHour : LedgerBackfill(a, b, n)
  <2>1. PICK a \in AllHours, b \in AllHours, n \in 1..FullHour : LedgerBackfill(a, b, n)
    BY <1>8
  <2>2. \A h \in AllHours : (IF h \in a..b THEN LaterOf(n, rowsOf[h]) ELSE rowsOf[h]) \in Nat
    BY <1>0 DEF LaterOf
  <2>3. (rowsOf \in [AllHours -> Nat])'
    BY <2>1, <2>2 DEF LedgerBackfill, AllHours
  <2>4. UNCHANGED <<pumpRows, hours, task>>
    BY <2>1 DEF LedgerBackfill
  <2>5. (pumpRows \in [AllHours -> Nat])'
    BY <1>0, <2>4 DEF AllHours
  <2> QED BY <2>3, <2>4, <2>5, LedgerRowsStep
<1>9. CASE RecomputeDay
  <2>1. HoursOf(Chunk)
    BY ComputedHours, Zenon DEF Chunk
  <2>2. UNCHANGED <<rowsOf, pumpRows, hours>> /\ task' = [task EXCEPT !["recompute"] = Chunk]
    BY <1>9 DEF RecomputeDay, sourceVars
  <2> QED BY <1>a, <1>k, <2>1, <2>2, LedgerTaskStep
<1>10. CASE DayWritten
  <2>1. HoursOf(task["recompute"])
    BY <1>0, <1>a
  <2> QED BY <1>10, <1>a, <2>1, WrittenHours, NothingHours, LedgerTaskStep DEF DayWritten, sourceVars
<1>11. CASE LedgerRestart
  <2>1. UNCHANGED <<rowsOf, pumpRows, hours>> /\ task' = [c \in LedgerCallers |-> Nothing]
    BY <1>11 DEF LedgerRestart, sourceVars
  <2>2. (rowsOf \in [AllHours -> Nat])' /\ (pumpRows \in [AllHours -> Nat])'
    BY <1>0, <2>1 DEF AllHours
  <2>3. (\A h \in Stored : Hour(hours[h]))' /\ (hours = [h \in AllHours |-> hours[h]])'
    BY <1>0, <2>1 DEF Stored, AllHours
  <2>4. \A c \in LedgerCallers : task'[c] = Nothing
    BY <2>1
  <2>5. (task = [c \in LedgerCallers |-> task[c]])' /\ (\A c \in LedgerCallers : HoursOf(task[c]))'
    BY <2>1, <2>4, NothingHours DEF LedgerCallers, HoursOf, AllHours, Nothing
  <2> QED BY <2>2, <2>3, <2>5 DEF LedgerInv
<1>12. CASE UNCHANGED ledgerVars
  <2>1. (rowsOf \in [AllHours -> Nat])' /\ (pumpRows \in [AllHours -> Nat])'
    BY <1>0, <1>12 DEF AllHours, ledgerVars
  <2> QED BY <1>12, <2>1, LedgerRowsStep DEF ledgerVars
<1> QED BY <1>1, <1>2, <1>3, <1>4, <1>5, <1>6, <1>7, <1>8, <1>9, <1>10, <1>11, <1>12 DEF LedgerNext

\* NothingWorse for every history: the refresh and the recomputation keep every stored hour,
\* its minutes and what it knows of the heat pump, whatever the import, the backfill, the
\* rebuild or another caller wrote since they calculated.
THEOREM LedgerNothingWorse == LedgerSpec => NothingWorse
<1> DEFINE Kept(h) ==
      /\ hours'[h].minutes >= hours[h].minutes \/ (~hours'[h].coarse /\ hours'[h].minutes >= FullEnough)
      /\ hours[h].pump > 0 => hours'[h].pump > 0
<1>1. LedgerInit => LedgerInv
  BY LedgerInitInv
<1>2. LedgerInv /\ [LedgerNext]_ledgerVars => LedgerInv'
  BY LedgerNextInv
<1>3. LedgerInv /\ [LedgerNext]_ledgerVars => [RefreshWritten \/ DayWritten => \A h \in Stored : Kept(h)]_ledgerVars
  <2>1. ASSUME LedgerInv, RefreshWritten PROVE \A h \in Stored : Kept(h)
    <3>1. HoursOf(task["refresh"]) /\ hours' = Written(task["refresh"])
      BY <2>1 DEF LedgerInv, LedgerCallers, RefreshWritten
    <3> QED BY <2>1, <3>1, WrittenHours
  <2>2. ASSUME LedgerInv, DayWritten PROVE \A h \in Stored : Kept(h)
    <3>1. HoursOf(task["recompute"]) /\ hours' = Written(task["recompute"])
      BY <2>2 DEF LedgerInv, LedgerCallers, DayWritten
    <3> QED BY <2>2, <3>1, WrittenHours
  <2> QED BY <2>1, <2>2
<1> QED BY <1>1, <1>2, <1>3, PTL DEF LedgerSpec, NothingWorse

----------------------------------------------------------------------------
(* The forecasts.                                                           *)

\* The smallest of a set of natural numbers is there.
LEMMA MinFact ==
  ASSUME NEW T, T \subseteq Nat, T # {}
  PROVE  Min(T) \in T /\ \A y \in T : Min(T) <= y
<1>1. \E x \in T : \A y \in T : ~(<<y, x>> \in OpToRel(<, Nat))
  BY NatLessThanWellFounded, WFMin
<1>2. PICK x \in T : \A y \in T : ~(<<y, x>> \in OpToRel(<, Nat))
  BY <1>1
<1>3. \A y \in T : ~(y < x)
  BY <1>2 DEF OpToRel
<1>4. \A y \in T : x <= y
  BY <1>3
<1> QED BY <1>4 DEF Min

\* And the largest, if the numbers have a bound.
LEMMA MaxFact ==
  ASSUME NEW n \in Nat, NEW T, T \subseteq 0..n, T # {}
  PROVE  Max(T) \in T /\ \A y \in T : y <= Max(T)
<1> DEFINE U == {n - t : t \in T}
<1>0. \A t \in T : n - t \in Nat
  OBVIOUS
<1>1. U \subseteq Nat /\ U # {}
  <2>1. U \subseteq Nat
    BY <1>0
  <2>2. PICK t \in T : TRUE
    OBVIOUS
  <2>3. n - t \in U
    BY <2>2
  <2> QED BY <2>1, <2>3
<1>2. Min(U) \in U /\ \A u \in U : Min(U) <= u
  BY <1>1, MinFact
<1>3. PICK x \in T : Min(U) = n - x
  BY <1>2
<1>4. \A y \in T : n - x <= n - y
  BY <1>2, <1>3
<1>5. x \in Int /\ \A y \in T : y \in Int /\ x >= y
  BY <1>3, <1>4
<1> QED BY <1>5 DEF Max

\* v is the run of T that was valid at the canonical hour of d, or else the earliest.
IsSix(v, T, d) ==
    /\ v \in T
    /\ (\E a \in T : a <= 2 * d) => (v <= 2 * d /\ \A a \in T : a <= 2 * d => a <= v)
    /\ (\A a \in T : ~(a <= 2 * d)) => \A a \in T : v <= a

LEMMA SlotNumbers ==
  /\ KeepRuns \in Nat /\ CatchUp \in Nat /\ RunRetention \in Nat
  /\ MarkGap \in Nat /\ LastSlot \in Nat
BY ForecastAssumption DEF ForecastAssumption

\* What ValidAtSix picks.
LEMMA SixIs ==
  ASSUME NEW T, T \subseteq Slots, T # {}, NEW d
  PROVE  IsSix(ValidAtSix(T, d), T, d)
<1> DEFINE B == {a \in T : a <= CanonicalHour(d)}
<1>0. LastSlot \in Nat /\ T \subseteq 0..LastSlot /\ T \subseteq Nat
  BY SlotNumbers DEF Slots
<1>1. CASE B # {}
  <2>1. ValidAtSix(T, d) = Max(B)
    BY <1>1 DEF ValidAtSix
  <2>2. Max(B) \in B /\ \A y \in B : y <= Max(B)
    BY <1>0, <1>1, MaxFact
  <2> QED BY <1>1, <2>1, <2>2 DEF IsSix, CanonicalHour
<1>2. CASE B = {}
  <2>1. ValidAtSix(T, d) = Min(T)
    BY <1>2 DEF ValidAtSix
  <2>2. Min(T) \in T /\ \A y \in T : Min(T) <= y
    BY <1>0, MinFact
  <2> QED BY <1>2, <2>1, <2>2 DEF IsSix, CanonicalHour
<1> QED BY <1>1, <1>2

\* A part of the runs that has the right one gives the same answer.
LEMMA SixOfPart ==
  ASSUME NEW T, T \subseteq Slots, NEW P, P \subseteq T, NEW d \in Int, T # {}, ValidAtSix(T, d) \in P
  PROVE  ValidAtSix(P, d) = ValidAtSix(T, d)
<1>0. T \subseteq Int /\ P \subseteq Slots /\ P # {}
  BY SlotNumbers DEF Slots
<1>1. IsSix(ValidAtSix(T, d), T, d) /\ IsSix(ValidAtSix(P, d), P, d)
  BY <1>0, SixIs
<1>2. PICK v, w : v = ValidAtSix(T, d) /\ w = ValidAtSix(P, d)
  OBVIOUS
<1>3. IsSix(v, T, d) /\ IsSix(w, P, d) /\ v \in P
  BY <1>1, <1>2
<1>4. w \in P /\ w \in T /\ v \in Int /\ w \in Int
  BY <1>0, <1>3 DEF IsSix
<1>5. CASE \E a \in T : a <= 2 * d
  <2>1. v <= 2 * d /\ (w <= 2 * d => w <= v)
    BY <1>3, <1>4, <1>5 DEF IsSix
  <2>2. w <= 2 * d /\ v <= w
    BY <1>3, <1>4, <2>1 DEF IsSix
  <2>3. v = w
    BY <1>4, <2>1, <2>2
  <2> QED BY <1>2, <2>3
<1>6. CASE \A a \in T : ~(a <= 2 * d)
  <2>1. v <= w
    BY <1>3, <1>4, <1>6 DEF IsSix
  <2>2. w <= v
    BY <1>3, <1>4, <1>6 DEF IsSix
  <2>3. v = w
    BY <1>4, <2>1, <2>2
  <2> QED BY <1>2, <2>3
<1> QED BY <1>5, <1>6

\* A day is two slots long.
LEMMA DayFacts ==
  ASSUME NEW s \in Nat
  PROVE  DayOf(s) \in Nat /\ 2 * DayOf(s) <= s /\ s <= 2 * DayOf(s) + 1
BY DEF DayOf

\* In a slot of the clock.
LEMMA SlotDays ==
  ASSUME NEW s \in Slots
  PROVE  s \in Nat /\ DayOf(s) \in Days /\ DayOf(s) \in Nat /\ 2 * DayOf(s) <= s /\ s <= 2 * DayOf(s) + 1
<1>1. s \in Nat /\ LastSlot \in Nat /\ s <= LastSlot
  BY SlotNumbers DEF Slots
<1>2. DayOf(s) \in Nat /\ 2 * DayOf(s) <= s /\ s <= 2 * DayOf(s) + 1
  BY <1>1, DayFacts
<1>3. DayOf(LastSlot) \in Nat /\ LastSlot <= 2 * DayOf(LastSlot) + 1
  BY <1>1, DayFacts
<1>4. DayOf(s) <= DayOf(LastSlot)
  BY <1>1, <1>2, <1>3
<1> QED BY <1>1, <1>2, <1>3, <1>4 DEF Days

LEMMA DayNumbers == \A d \in Days : d \in Nat
<1>1. DayOf(LastSlot) \in Nat
  BY SlotNumbers, DayFacts
<1> QED BY <1>1 DEF Days

----------------------------------------------------------------------------
(* The housekeeping comes round within the days it goes back, a run stays at *)
(* least a slot, and the evaluator holds a run for two days and a half.      *)
RoundsComeInTime == MarkGap <= CatchUp /\ 1 <= RunRetention
RunsAreHeld == 5 <= KeepRuns

CanonicalOf(d) == ValidAtSix(OfDay(filed, d), d)

ForecastTimes ==
    /\ slotNow \in Slots /\ lastRound \in Nat /\ markedTo \in Int
    /\ lastRound <= Today /\ Today <= lastRound + MarkGap /\ markedTo < lastRound
ForecastRunsKnown ==
    /\ issued \subseteq Slots /\ \A i \in issued : i <= slotNow
    /\ \A r \in newest : r.at \in issued /\ \A i \in issued : i <= r.at
    /\ Ats(archive) \subseteq issued /\ filed \subseteq issued
\* What is still to be marked is in the archive, and what is filed late takes no place.
ForecastUnmarked ==
    /\ \A d \in Days : lastRound <= d => OfDay(filed, d) \subseteq Ats(archive)
    /\ \A d \in Days : (2 * d \in Ats(archive) /\ 2 * d + 1 \in filed) => 2 * d \in filed
ForecastMarked ==
    /\ \A d \in Days : (d < lastRound /\ OfDay(filed, d) # {}) => <<d, CanonicalOf(d)>> \in canonical
    /\ \A p \in canonical : p[1] \in Days /\ p[2] \in Ats(archive) /\ p = <<p[1], p[2]>>
ForecastStockInv == ForecastTimes /\ ForecastRunsKnown /\ ForecastUnmarked /\ ForecastMarked

ForecastHeld ==
    /\ held \subseteq issued
    /\ \A i \in issued : (\A k \in issued : k <= i + KeepRuns) => i \in held
    /\ calibration = [held |-> held, judged |-> judged]
JudgedWell(j) ==
    /\ j.day \in Int /\ j.on \in Int /\ j.day < Today
    /\ j.on = j.day + 1 => j.run = ValidAtSix(Covering(issued, j.day), j.day)
ForecastInv == ForecastStockInv /\ ForecastHeld /\ \A j \in judged : JudgedWell(j)

\* Nothing is filed, marked, held or judged at the start.
LEMMA ForecastInitInv == ForecastInit => ForecastInv
<1> SUFFICES ASSUME ForecastInit PROVE ForecastInv
  OBVIOUS
<1>1. Today = 0 /\ slotNow \in Slots
  BY SlotNumbers DEF ForecastInit, Today, DayOf, Slots
<1>2. ForecastTimes
  BY <1>1, SlotNumbers DEF ForecastInit, ForecastTimes, NoSlot
<1>3. ForecastRunsKnown
  BY DEF ForecastInit, ForecastRunsKnown, Ats
<1>4. ForecastUnmarked
  BY DEF ForecastInit, ForecastUnmarked, OfDay, Ats
<1>5. ForecastMarked
  BY DEF ForecastInit, ForecastMarked, OfDay
<1>6. ForecastHeld /\ \A j \in judged : JudgedWell(j)
  BY DEF ForecastInit, ForecastHeld
<1> QED BY <1>2, <1>3, <1>4, <1>5, <1>6 DEF ForecastInv, ForecastStockInv

\* What the invariant says of the clock.
LEMMA ForecastClock ==
  ASSUME ForecastStockInv
  PROVE  /\ slotNow \in Nat /\ Today \in Nat /\ Today \in Days
         /\ 2 * Today <= slotNow /\ slotNow <= 2 * Today + 1
         /\ issued \subseteq Slots /\ filed \subseteq Slots /\ Ats(archive) \subseteq Slots
         /\ \A i \in issued : i \in Nat /\ i <= slotNow /\ DayOf(i) \in Days /\ DayOf(i) \in Nat
                              /\ 2 * DayOf(i) <= i /\ i <= 2 * DayOf(i) + 1 /\ DayOf(i) <= Today
<1>1. slotNow \in Slots
  BY DEF ForecastStockInv, ForecastTimes
<1>2. /\ slotNow \in Nat /\ Today \in Nat /\ Today \in Days
      /\ 2 * Today <= slotNow /\ slotNow <= 2 * Today + 1
  BY <1>1, SlotDays DEF Today
<1>3. issued \subseteq Slots /\ filed \subseteq Slots /\ Ats(archive) \subseteq Slots
  BY DEF ForecastStockInv, ForecastRunsKnown
<1>4. ASSUME NEW i \in issued
      PROVE  i \in Nat /\ i <= slotNow /\ DayOf(i) \in Days /\ DayOf(i) \in Nat
             /\ 2 * DayOf(i) <= i /\ i <= 2 * DayOf(i) + 1 /\ DayOf(i) <= Today
  <2>1. i \in Nat /\ DayOf(i) \in Days /\ DayOf(i) \in Nat /\ 2 * DayOf(i) <= i /\ i <= 2 * DayOf(i) + 1
    BY <1>3, SlotDays
  <2>2. i <= slotNow
    BY DEF ForecastStockInv, ForecastRunsKnown
  <2>3. DayOf(i) <= Today
    BY <1>2, <2>1, <2>2
  <2> QED BY <2>1, <2>2, <2>3
<1> QED BY <1>2, <1>3, <1>4

\* The run of the archive that is marked for a day is the one that was filed on the day itself.
LEMMA MarkedIsCanonical ==
  ASSUME ForecastStockInv, NEW d \in Days, OfDay(filed, d) # {}, OfDay(filed, d) \subseteq Ats(archive)
  PROVE  /\ OfDay(Ats(archive), d) # {}
         /\ ValidAtSix(OfDay(Ats(archive), d), d) = CanonicalOf(d)
         /\ CanonicalOf(d) \in Ats(archive)
<1> DEFINE A == OfDay(Ats(archive), d)
           F == OfDay(filed, d)
<1>1. F \subseteq A /\ A # {} /\ A \subseteq Slots
  BY ForecastClock DEF OfDay
<1>2. d \in Nat /\ d \in Int
  BY DayNumbers
<1>3. IsSix(ValidAtSix(A, d), A, d)
  BY <1>1, SixIs
<1>4. \A a \in A : a \in Nat /\ 2 * d <= a /\ a <= 2 * d + 1
  BY <1>1, SlotDays DEF OfDay
<1>5. ValidAtSix(A, d) \in F
  <2>1. PICK v : v = ValidAtSix(A, d)
    OBVIOUS
  <2>2. v \in A /\ v \in Nat /\ 2 * d <= v /\ v <= 2 * d + 1
    BY <1>3, <1>4, <2>1 DEF IsSix
  <2>3. PICK f \in F : TRUE
    OBVIOUS
  <2>4. f \in A /\ f \in Nat /\ 2 * d <= f /\ f <= 2 * d + 1
    BY <1>1, <1>4
  <2>5. CASE v = f
    BY <2>1, <2>5
  <2>6. CASE v # f /\ v = 2 * d
    <3>1. f = 2 * d + 1
      BY <1>2, <2>2, <2>4, <2>6
    <3>2. 2 * d \in Ats(archive) /\ 2 * d + 1 \in filed
      BY <2>2, <2>3, <2>6, <3>1 DEF OfDay
    <3>3. 2 * d \in filed
      BY <3>2 DEF ForecastStockInv, ForecastUnmarked
    <3> QED BY <2>1, <2>2, <2>6, <3>3 DEF OfDay
  <2>7. CASE v # f /\ v = 2 * d + 1
    <3>1. f = 2 * d /\ f <= 2 * d /\ ~(v <= 2 * d)
      BY <1>2, <2>2, <2>4, <2>7
    <3>2. v <= 2 * d
      BY <1>3, <2>1, <2>4, <3>1 DEF IsSix
    <3> QED BY <3>1, <3>2
  <2> QED BY <1>2, <2>2, <2>5, <2>6, <2>7
<1>6. ValidAtSix(F, d) = ValidAtSix(A, d)
  BY <1>1, <1>2, <1>5, SixOfPart
<1> QED BY <1>1, <1>5, <1>6 DEF CanonicalOf, OfDay

\* LearningStock follows: what is not marked yet is there, and so is what is marked.
LEMMA StockIsThere == ForecastStockInv => LearningStock
<1> SUFFICES ASSUME ForecastStockInv, NEW d \in 0..(Today - 1), OfDay(filed, d) # {}
             PROVE  CanonicalOf(d) \in Ats(archive)
  BY DEF LearningStock, CanonicalOf
<1>1. d \in Days
  <2>1. DayOf(LastSlot) \in Nat
    BY SlotNumbers, DayFacts
  <2> QED BY <2>1, ForecastClock DEF Days
<1>2. lastRound \in Nat /\ d \in Nat
  BY DEF ForecastStockInv, ForecastTimes
<1>3. CASE d < lastRound
  <2>1. <<d, CanonicalOf(d)>> \in canonical
    BY <1>1, <1>3 DEF ForecastStockInv, ForecastMarked
  <2> QED BY <2>1 DEF ForecastStockInv, ForecastMarked
<1>4. CASE lastRound <= d
  BY <1>1, <1>4, MarkedIsCanonical DEF ForecastStockInv, ForecastUnmarked
<1> QED BY <1>2, <1>3, <1>4

\* The archive takes runs that the evaluator is given too, and the day's own are remembered.
LEMMA FilingKeepsStock ==
  ASSUME RoundsComeInTime, ForecastStockInv, NEW fetched,
         UNCHANGED <<slotNow, canonical, markedTo, lastRound>>,
         fetched = newest \/ \E c \in Contents : fetched = {[at |-> slotNow, content |-> c]},
         newest' = fetched, archive \subseteq archive', archive' \subseteq archive \cup fetched,
         issued' = issued \cup Ats(fetched), filed' = filed \cup OfDay(Ats(archive'), Today)
  PROVE  /\ ForecastStockInv'
         /\ \A i \in issued' : i \notin issued => i = slotNow
<1>c. /\ slotNow \in Nat /\ slotNow \in Slots /\ Today \in Nat /\ Today \in Days
      /\ 2 * Today <= slotNow /\ slotNow <= 2 * Today + 1
      /\ issued \subseteq Slots /\ filed \subseteq issued /\ Ats(archive) \subseteq issued
      /\ \A i \in issued : i \in Nat /\ i <= slotNow
  BY ForecastClock DEF ForecastStockInv, ForecastTimes, ForecastRunsKnown
<1>t. Today' = Today
  BY DEF Today
<1>f. \A r \in fetched : /\ r.at \in issued \/ r.at = slotNow
                         /\ \A i \in issued \cup Ats(fetched) : i <= r.at
  <2>1. CASE fetched = newest
    <3>1. \A r \in fetched : r.at \in issued /\ \A i \in issued : i <= r.at
      BY <2>1 DEF ForecastStockInv, ForecastRunsKnown
    <3>2. Ats(fetched) \subseteq issued
      BY <3>1 DEF Ats
    <3> QED BY <3>1, <3>2
  <2>2. CASE \E c \in Contents : fetched = {[at |-> slotNow, content |-> c]}
    <3>1. Ats(fetched) = {slotNow} /\ \A r \in fetched : r.at = slotNow
      BY <2>2 DEF Ats
    <3> QED BY <1>c, <3>1
  <2> QED BY <2>1, <2>2
<1>n. \A i \in issued' : i \notin issued => i = slotNow
  BY <1>f DEF Ats
<1>a. Ats(archive) \subseteq Ats(archive') /\ Ats(archive') \subseteq Ats(archive) \cup Ats(fetched)
  BY DEF Ats
<1>1. ForecastTimes'
  BY <1>t DEF ForecastStockInv, ForecastTimes
<1>2. ForecastRunsKnown'
  <2>1. issued' \subseteq Slots /\ \A i \in issued' : i <= slotNow'
    <3>1. ASSUME NEW i \in issued' PROVE i \in Slots /\ i <= slotNow
      <4>1. CASE i \in issued
        BY <4>1, <1>c
      <4>2. CASE i = slotNow
        BY <4>2, <1>c
      <4> QED BY <4>1, <4>2, <1>n
    <3> QED BY <3>1
  <2>2. \A r \in newest' : r.at \in issued' /\ \A i \in issued' : i <= r.at
    BY <1>f DEF Ats
  <2>3. Ats(archive') \subseteq issued' /\ filed' \subseteq issued'
    BY <1>a, <1>c DEF OfDay
  <2>4. Ats(archive)' = Ats(archive')
    BY DEF Ats
  <2> QED BY <2>1, <2>2, <2>3, <2>4 DEF ForecastRunsKnown
<1>3. ASSUME NEW d \in Days, d < Today PROVE OfDay(filed', d) = OfDay(filed, d)
  BY <1>3, <1>c, DayNumbers DEF OfDay
<1>4. ASSUME NEW d \in Days, lastRound <= d PROVE OfDay(filed', d) \subseteq Ats(archive')
  BY <1>4, <1>a DEF OfDay, ForecastStockInv, ForecastUnmarked
<1>5. ASSUME NEW d \in Days, 2 * d \in Ats(archive'), 2 * d + 1 \in filed' PROVE 2 * d \in filed'
  <2>0. d \in Nat
    BY DayNumbers
  <2>1. CASE 2 * d + 1 \notin filed
    <3>1. 2 * d + 1 \in Ats(archive') /\ DayOf(2 * d + 1) = Today
      BY <1>5, <2>1 DEF OfDay
    <3>a. 2 * d \in Nat /\ 2 * d + 1 \in Nat
      BY <2>0
    <3>b. DayOf(2 * d + 1) \in Nat /\ 2 * DayOf(2 * d + 1) <= 2 * d + 1 /\ 2 * d + 1 <= 2 * DayOf(2 * d + 1) + 1
      BY <3>a, DayFacts
    <3>2. d = Today
      BY <2>0, <3>1, <3>b
    <3>c. DayOf(2 * d) \in Nat /\ 2 * DayOf(2 * d) <= 2 * d /\ 2 * d <= 2 * DayOf(2 * d) + 1
      BY <3>a, DayFacts
    <3>3. DayOf(2 * d) = d
      BY <2>0, <3>c
    <3> QED BY <1>5, <3>2, <3>3 DEF OfDay
  <2>2. CASE 2 * d + 1 \in filed /\ 2 * d \in Ats(archive)
    BY <2>2 DEF ForecastStockInv, ForecastUnmarked
  <2>3. CASE 2 * d + 1 \in filed /\ 2 * d \notin Ats(archive)
    <3>1. PICK r \in fetched : r.at = 2 * d
      BY <1>5, <1>a, <2>3 DEF Ats
    <3>2. 2 * d + 1 \in issued
      BY <2>3, <1>c
    <3>3. 2 * d + 1 <= r.at
      BY <1>f, <3>2
    <3> QED BY <2>0, <3>1, <3>3
  <2> QED BY <2>1, <2>2, <2>3
<1>6. ForecastUnmarked'
  <2>1. OfDay(filed, 0)' = OfDay(filed', 0) /\ Ats(archive)' = Ats(archive') /\ Days' = Days
    BY DEF OfDay, Ats, Days
  <2>2. \A d \in Days : lastRound' <= d => OfDay(filed', d) \subseteq Ats(archive')
    BY <1>4
  <2>3. \A d \in Days : (2 * d \in Ats(archive') /\ 2 * d + 1 \in filed') => 2 * d \in filed'
    BY <1>5
  <2> QED BY <2>2, <2>3 DEF ForecastUnmarked, OfDay, Ats
<1>7. ForecastMarked'
  <2>1. ASSUME NEW d \in Days, d < lastRound, OfDay(filed', d) # {}
        PROVE  <<d, ValidAtSix(OfDay(filed', d), d)>> \in canonical'
    <3>1. d < Today
      BY <2>1, <1>c, DayNumbers DEF ForecastStockInv, ForecastTimes
    <3>2. OfDay(filed', d) = OfDay(filed, d)
      BY <1>3, <3>1
    <3> QED BY <2>1, <3>2 DEF ForecastStockInv, ForecastMarked, CanonicalOf
  <2>2. \A p \in canonical' : p[1] \in Days /\ p[2] \in Ats(archive') /\ p = <<p[1], p[2]>>
    BY <1>a DEF ForecastStockInv, ForecastMarked
  <2> QED BY <2>1, <2>2 DEF ForecastMarked, CanonicalOf, OfDay, Ats
<1> QED BY <1>n, <1>1, <1>2, <1>6, <1>7 DEF ForecastStockInv

\* A mark is for a day of the clock and for a run of the archive.
LEMMA MarkedInArchive ==
  ASSUME ForecastStockInv
  PROVE  \A p \in Marked : p[1] \in Days /\ p[2] \in Ats(archive) /\ p = <<p[1], p[2]>>
<1>1. ASSUME NEW d \in (Today - CatchUp)..(Today - 1), OfDay(Ats(archive), d) # {}
      PROVE  d \in Days /\ ValidAtSix(OfDay(Ats(archive), d), d) \in Ats(archive)
  <2>1. OfDay(Ats(archive), d) \subseteq Slots
    BY ForecastClock DEF OfDay
  <2>2. ValidAtSix(OfDay(Ats(archive), d), d) \in OfDay(Ats(archive), d)
    BY <1>1, <2>1, SixIs DEF IsSix
  <2>3. PICK a \in OfDay(Ats(archive), d) : TRUE
    BY <1>1
  <2>4. a \in Slots /\ d = DayOf(a)
    BY <2>1, <2>3 DEF OfDay
  <2> QED BY <2>2, <2>4, SlotDays DEF OfDay
<1> QED BY <1>1 DEF Marked

\* The housekeeping: first the marks, then what is too old and has none goes.
LEMMA HousekeepingKeepsStock ==
  ASSUME RoundsComeInTime, ForecastStockInv, HousekeepRuns
  PROVE  ForecastStockInv'
<1>c. /\ slotNow \in Nat /\ slotNow \in Slots /\ Today \in Nat /\ Today \in Days
      /\ 2 * Today <= slotNow /\ slotNow <= 2 * Today + 1
      /\ issued \subseteq Slots /\ filed \subseteq issued /\ Ats(archive) \subseteq issued
      /\ lastRound \in Nat /\ markedTo \in Int /\ lastRound <= Today /\ Today <= lastRound + MarkGap
      /\ markedTo < lastRound
      /\ \A i \in issued : i \in Nat /\ i <= slotNow /\ DayOf(i) \in Nat
                           /\ 2 * DayOf(i) <= i /\ i <= 2 * DayOf(i) + 1 /\ DayOf(i) <= Today
  BY ForecastClock DEF ForecastStockInv, ForecastTimes, ForecastRunsKnown
<1>n. MarkGap \in Nat /\ CatchUp \in Nat /\ RunRetention \in Nat /\ MarkGap <= CatchUp /\ 1 <= RunRetention
  BY SlotNumbers DEF RoundsComeInTime
<1>u. /\ UNCHANGED <<slotNow, newest, issued, filed>> /\ Today' = Today
      /\ lastRound' = Today /\ markedTo' = Today - 1 /\ archive' = Survivors(canonical')
  BY DEF HousekeepRuns, Today
<1>a. archive' \subseteq archive /\ Ats(archive') \subseteq Ats(archive)
  BY <1>u DEF Survivors, Ats
<1>1. ForecastTimes'
  BY <1>c, <1>n, <1>u DEF ForecastTimes
<1>2. ForecastRunsKnown'
  <2>1. Ats(archive') \subseteq issued
    BY <1>a, <1>c
  <2> QED BY <1>u, <2>1 DEF ForecastStockInv, ForecastRunsKnown, Ats
<1>3. ASSUME NEW d \in Days, Today <= d PROVE OfDay(filed, d) \subseteq Ats(archive')
  <2>1. ASSUME NEW f \in filed, DayOf(f) = d PROVE f \in Ats(archive')
    <3>0. d \in Nat /\ f \in issued
      BY <1>c, DayNumbers
    <3>1. f \in Ats(archive)
      BY <1>3, <1>c, <2>1, <3>0 DEF ForecastStockInv, ForecastUnmarked, OfDay
    <3>2. PICK r \in archive : r.at = f
      BY <3>1 DEF Ats
    <3>3. f \in Nat /\ 2 * Today <= f
      BY <1>3, <1>c, <2>1, <3>0
    <3>4. f + RunRetention >= slotNow
      BY <1>c, <1>n, <3>3
    <3>5. r \in archive'
      BY <1>u, <3>2, <3>4 DEF Survivors
    <3> QED BY <3>2, <3>5 DEF Ats
  <2> QED BY <2>1 DEF OfDay
<1>4. ForecastUnmarked'
  <2>1. \A d \in Days : lastRound' <= d => OfDay(filed', d) \subseteq Ats(archive')
    BY <1>3, <1>u
  <2>2. \A d \in Days : (2 * d \in Ats(archive') /\ 2 * d + 1 \in filed') => 2 * d \in filed'
    BY <1>a, <1>u DEF ForecastStockInv, ForecastUnmarked
  <2> QED BY <2>1, <2>2 DEF ForecastUnmarked, OfDay, Ats
<1>5. ASSUME NEW d \in Days, d < Today, OfDay(filed, d) # {} PROVE <<d, CanonicalOf(d)>> \in canonical'
  <2>0. d \in Nat
    BY DayNumbers
  <2>1. CASE d < lastRound
    <3>1. <<d, CanonicalOf(d)>> \in canonical
      BY <1>5, <2>1 DEF ForecastStockInv, ForecastMarked
    <3> QED BY <3>1 DEF HousekeepRuns
  <2>2. CASE lastRound <= d
    <3>1. markedTo # Today - 1
      BY <1>5, <1>c, <2>0, <2>2
    <3>2. OfDay(filed, d) \subseteq Ats(archive)
      BY <2>2 DEF ForecastStockInv, ForecastUnmarked
    <3>3. OfDay(Ats(archive), d) # {} /\ ValidAtSix(OfDay(Ats(archive), d), d) = CanonicalOf(d)
      BY <1>5, <3>2, MarkedIsCanonical
    <3>4. d \in (Today - CatchUp)..(Today - 1)
      BY <1>5, <1>c, <1>n, <2>0, <2>2
    <3>5. <<d, CanonicalOf(d)>> \in Marked
      BY <3>3, <3>4 DEF Marked
    <3> QED BY <3>1, <3>5 DEF HousekeepRuns
  <2> QED BY <1>c, <2>0, <2>1, <2>2
<1>6. \A p \in canonical' : p[1] \in Days /\ p[2] \in Ats(archive) /\ p = <<p[1], p[2]>>
  BY MarkedInArchive DEF HousekeepRuns, ForecastStockInv, ForecastMarked
<1>7. ASSUME NEW p \in canonical' PROVE p[2] \in Ats(archive')
  <2>1. PICK r \in archive : r.at = p[2]
    BY <1>6 DEF Ats
  <2>2. r \in archive'
    BY <1>6, <1>u, <2>1 DEF Survivors
  <2> QED BY <2>1, <2>2 DEF Ats
<1>8. ForecastMarked'
  <2>1. \A d \in Days : (d < lastRound' /\ OfDay(filed', d) # {}) => <<d, ValidAtSix(OfDay(filed', d), d)>> \in canonical'
    BY <1>5, <1>u DEF CanonicalOf
  <2>2. \A p \in canonical' : p[1] \in Days /\ p[2] \in Ats(archive') /\ p = <<p[1], p[2]>>
    BY <1>6, <1>7
  <2> QED BY <2>1, <2>2 DEF ForecastMarked, CanonicalOf, OfDay, Ats
<1> QED BY <1>1, <1>2, <1>4, <1>8 DEF ForecastStockInv

\* A round that fails has marked some of the days.
LEMMA FailedRoundKeepsStock ==
  ASSUME ForecastStockInv, HousekeepFails
  PROVE  ForecastStockInv'
<1>1. UNCHANGED <<slotNow, newest, archive, markedTo, lastRound, filed, issued>> /\ Today' = Today
  BY DEF HousekeepFails, Today
<1>2. canonical \subseteq canonical' /\ canonical' \subseteq canonical \cup Marked
  BY DEF HousekeepFails
<1>3. ForecastTimes' /\ ForecastRunsKnown'
  BY <1>1 DEF ForecastStockInv, ForecastTimes, ForecastRunsKnown, Ats
<1>4. ForecastUnmarked'
  BY <1>1 DEF ForecastStockInv, ForecastUnmarked, OfDay, Ats
<1>5. \A d \in Days : (d < lastRound /\ OfDay(filed, d) # {}) => <<d, CanonicalOf(d)>> \in canonical'
  BY <1>2 DEF ForecastStockInv, ForecastMarked
<1>6. \A p \in canonical' : p[1] \in Days /\ p[2] \in Ats(archive) /\ p = <<p[1], p[2]>>
  BY <1>2, MarkedInArchive DEF ForecastStockInv, ForecastMarked
<1>7. ForecastMarked'
  BY <1>1, <1>5, <1>6 DEF ForecastMarked, CanonicalOf, OfDay, Ats
<1> QED BY <1>3, <1>4, <1>7 DEF ForecastStockInv

\* The clock goes on, unless the housekeeping is due, and a start forgets the forecast in memory.
LEMMA ClockKeepsStock ==
  ASSUME ForecastStockInv, SlotPasses \/ RestartForecasts
  PROVE  ForecastStockInv'
<1>c. /\ slotNow \in Nat /\ slotNow \in Slots /\ Today \in Nat
      /\ 2 * Today <= slotNow /\ slotNow <= 2 * Today + 1
      /\ lastRound \in Nat /\ markedTo \in Int /\ lastRound <= Today /\ markedTo < lastRound
  BY ForecastClock DEF ForecastStockInv, ForecastTimes
<1>u. UNCHANGED <<archive, canonical, lastRound, filed, issued>>
  BY DEF SlotPasses, RestartForecasts, archiveVars
<1>1. ForecastTimes' /\ slotNow <= slotNow'
  <2>1. CASE SlotPasses
    <3>1. slotNow' = slotNow + 1 /\ slotNow' \in Nat /\ slotNow' \in Slots /\ markedTo' = markedTo
      BY <1>c, <2>1, SlotNumbers DEF SlotPasses, archiveVars, Slots
    <3>2. DayOf(slotNow') \in Nat /\ 2 * DayOf(slotNow') <= slotNow' /\ slotNow' <= 2 * DayOf(slotNow') + 1
      BY <3>1, DayFacts
    <3>3. Today' = DayOf(slotNow') /\ Today' <= lastRound + MarkGap
      BY <2>1 DEF SlotPasses, Today
    <3>4. lastRound <= Today'
      BY <1>c, <3>1, <3>2, <3>3
    <3> QED BY <1>c, <1>u, <3>1, <3>3, <3>4 DEF ForecastTimes
  <2>2. CASE RestartForecasts
    <3>1. slotNow' = slotNow /\ markedTo' = NoSlot /\ Today' = Today
      BY <2>2 DEF RestartForecasts, Today
    <3>2. NoSlot \in Int /\ NoSlot < lastRound
      BY <1>c DEF NoSlot
    <3> QED BY <1>c, <1>u, <3>1, <3>2 DEF ForecastStockInv, ForecastTimes
  <2> QED BY <2>1, <2>2
<1>2. ForecastRunsKnown'
  <2>1. newest' \subseteq newest
    BY DEF SlotPasses, RestartForecasts
  <2>2. \A i \in issued : i \in Nat /\ i <= slotNow
    BY ForecastClock
  <2>3. slotNow' \in Nat
    BY <1>1, SlotNumbers DEF ForecastTimes, Slots
  <2>4. \A i \in issued : i <= slotNow'
    BY <1>1, <1>c, <2>2, <2>3
  <2> QED BY <1>u, <2>1, <2>4 DEF ForecastStockInv, ForecastRunsKnown, Ats
<1>3. ForecastUnmarked'
  BY <1>u DEF ForecastStockInv, ForecastUnmarked, OfDay, Ats
<1>4. ForecastMarked'
  BY <1>u DEF ForecastStockInv, ForecastMarked, CanonicalOf, OfDay, Ats
<1> QED BY <1>1, <1>2, <1>3, <1>4 DEF ForecastStockInv

\* Steps that leave the archive and the runs alone.
LEMMA StockUntouched ==
  ASSUME ForecastStockInv,
         UNCHANGED <<slotNow, newest, archive, canonical, markedTo, lastRound, filed, issued>>
  PROVE  ForecastStockInv'
<1>1. ForecastTimes' /\ ForecastRunsKnown'
  BY DEF ForecastStockInv, ForecastTimes, ForecastRunsKnown, Ats, Today
<1>2. ForecastUnmarked' /\ ForecastMarked'
  BY DEF ForecastStockInv, ForecastUnmarked, ForecastMarked, CanonicalOf, OfDay, Ats
<1> QED BY <1>1, <1>2 DEF ForecastStockInv

\* The day does not go back.
LEMMA TodayGrows ==
  ASSUME ForecastStockInv, SlotPasses \/ RestartForecasts
  PROVE  Today \in Int /\ Today' \in Int /\ Today <= Today'
<1>1. slotNow \in Nat /\ Today = DayOf(slotNow) /\ Today \in Nat
  BY ForecastClock DEF Today
<1>2. slotNow' \in {slotNow, slotNow + 1} /\ Today' = DayOf(slotNow')
  BY DEF SlotPasses, RestartForecasts, Today
<1>3. slotNow' \in Nat /\ slotNow <= slotNow'
  BY <1>1, <1>2
<1>4. DayOf(slotNow) \in Nat /\ 2 * DayOf(slotNow) <= slotNow /\ slotNow <= 2 * DayOf(slotNow) + 1
  BY <1>1, DayFacts
<1>5. DayOf(slotNow') \in Nat /\ 2 * DayOf(slotNow') <= slotNow' /\ slotNow' <= 2 * DayOf(slotNow') + 1
  BY <1>3, DayFacts
<1> QED BY <1>1, <1>2, <1>3, <1>4, <1>5

\* The evaluator still holds the run that the day before today is judged by.
LEMMA JudgedByHeld ==
  ASSUME RunsAreHeld, NEW runs, NEW all, runs \subseteq all, all \subseteq Slots, slotNow \in Slots,
         \A i \in all : i <= slotNow,
         \A i \in all : (\A k \in all : k <= i + KeepRuns) => i \in runs,
         NEW d \in Int, d = Today - 1, Covering(runs, d) # {}
  PROVE  ValidAtSix(Covering(runs, d), d) = ValidAtSix(Covering(all, d), d)
<1> DEFINE C == Covering(all, d)
           R == Covering(runs, d)
<1>1. R \subseteq C /\ C \subseteq Slots /\ C # {} /\ C \subseteq all
  BY DEF Covering
<1>2. PICK v : v = ValidAtSix(C, d)
  OBVIOUS
<1>3. v \in C
  BY <1>1, <1>2, SixIs DEF IsSix
<1>4. v \in Nat /\ DayOf(v) \in Nat /\ 2 * DayOf(v) <= v /\ DayOf(v) \in {d - 1, d}
  BY <1>1, <1>3, SlotDays DEF Covering
<1>5. slotNow \in Nat /\ slotNow <= 2 * d + 3
  BY SlotDays DEF Today
<1>6. slotNow <= v + 5
  BY <1>4, <1>5
<1>7. ASSUME NEW k \in all PROVE k <= v + KeepRuns
  <2>1. k \in Nat /\ k <= slotNow /\ KeepRuns \in Nat /\ 5 <= KeepRuns
    BY SlotDays, SlotNumbers DEF RunsAreHeld
  <2> QED BY <2>1, <1>4, <1>5, <1>6
<1>8. v \in R
  BY <1>1, <1>3, <1>7 DEF Covering
<1> QED BY <1>1, <1>2, <1>8, SixOfPart

\* Days are closed: the new verdicts are those of the runs that are held.
LEMMA ClosedWell ==
  ASSUME RunsAreHeld, ForecastStockInv, NEW runs, NEW all, runs \subseteq all,
         issued \subseteq all, all \subseteq Slots, \A i \in all : i <= slotNow,
         \A i \in all : i \notin issued => i = slotNow,
         \A i \in all : (\A k \in all : k <= i + KeepRuns) => i \in runs,
         \A j \in judged : JudgedWell(j), NEW days, days \subseteq DaysToClose
  PROVE  \A j \in Closed(runs, days) :
            /\ j.day \in Int /\ j.on \in Int /\ j.day < Today
            /\ j.on = j.day + 1 => j.run = ValidAtSix(Covering(all, j.day), j.day)
<1>1. Today \in Nat /\ slotNow \in Slots
  BY ForecastClock DEF ForecastStockInv, ForecastTimes
<1>2. ASSUME NEW j \in judged
      PROVE  /\ j.day \in Int /\ j.on \in Int /\ j.day < Today
             /\ j.on = j.day + 1 => j.run = ValidAtSix(Covering(all, j.day), j.day)
  <2>1. j.day \in Int /\ j.on \in Int /\ j.day < Today
    BY DEF JudgedWell
  <2>2. Covering(all, j.day) = Covering(issued, j.day)
    <3>1. Today = DayOf(slotNow)
      BY DEF Today
    <3>2. \A i \in all : DayOf(i) \in {j.day - 1, j.day} => i \in issued
      BY <1>1, <2>1, <3>1
    <3> QED BY <3>2 DEF Covering
  <2> QED BY <2>1, <2>2 DEF JudgedWell
<1>3. ASSUME NEW d \in days, Covering(runs, d) # {}
      PROVE  /\ d \in Int /\ d < Today
             /\ Today = d + 1 => ValidAtSix(Covering(runs, d), d) = ValidAtSix(Covering(all, d), d)
  <2>1. d \in {Today - 2, Today - 1} /\ d \in Int /\ d < Today
    BY <1>1 DEF DaysToClose
  <2>2. CASE d = Today - 1
    BY <1>1, <1>3, <2>1, <2>2, JudgedByHeld
  <2> QED BY <1>1, <2>1, <2>2
<1>4. ASSUME NEW j \in Closed(runs, days), j \notin judged
      PROVE  /\ j.day \in Int /\ j.on \in Int /\ j.day < Today
             /\ j.on = j.day + 1 => j.run = ValidAtSix(Covering(all, j.day), j.day)
  <2>1. PICK d \in days : Covering(runs, d) # {} /\ j = [day |-> d, run |-> ValidAtSix(Covering(runs, d), d), on |-> Today]
    BY <1>4 DEF Closed
  <2>2. j.day = d /\ j.on = Today /\ j.run = ValidAtSix(Covering(runs, d), d)
    BY <2>1
  <2> QED BY <1>1, <1>3, <2>1, <2>2
<1> QED BY <1>2, <1>4

\* Every step of the archive and of the evaluator keeps the invariant.
LEMMA ForecastNextInv ==
  ASSUME RoundsComeInTime, RunsAreHeld, ForecastInv, [ForecastNext]_forecastVars
  PROVE  ForecastInv'
<1>c. /\ ForecastStockInv /\ ForecastHeld /\ \A j \in judged : JudgedWell(j)
      /\ issued \subseteq Slots /\ slotNow \in Slots /\ slotNow \in Nat
      /\ \A i \in issued : i \in Nat /\ i <= slotNow
      /\ KeepRuns \in Nat
  BY ForecastClock, SlotNumbers DEF ForecastInv, ForecastStockInv, ForecastTimes
<1>1. CASE RefreshWeather
  <2>1. PICK fetched \in {newest} \cup {{[at |-> slotNow, content |-> c]} : c \in Contents} :
           /\ newest' = fetched
           /\ archive' = archive \cup Filed(fetched) \/ archive' = archive
           /\ held' = Recorded(Ats(fetched)) /\ issued' = issued \cup Ats(fetched)
    BY <1>1 DEF RefreshWeather
  <2>2. /\ UNCHANGED <<slotNow, canonical, markedTo, lastRound>>
        /\ filed' = filed \cup OfDay(Ats(archive'), Today)
        /\ calibration' = [held |-> held', judged |-> judged'] /\ Today' = Today
    BY <1>1 DEF RefreshWeather, Today
  <2>3. PICK days \in SUBSET DaysToClose : judged' = Closed(held', days)
    BY <1>1 DEF RefreshWeather
  <2>4. fetched = newest \/ \E c \in Contents : fetched = {[at |-> slotNow, content |-> c]}
    BY <2>1
  <2>5. archive \subseteq archive' /\ archive' \subseteq archive \cup fetched
    BY <2>1 DEF Filed
  <2>6. ForecastStockInv' /\ \A i \in issued' : i \notin issued => i = slotNow
    BY <1>c, <2>1, <2>2, <2>4, <2>5, FilingKeepsStock
  <2>7. issued' \subseteq Slots /\ \A i \in issued' : i <= slotNow /\ i \in Nat
    <3>1. ASSUME NEW i \in issued' PROVE i \in Slots /\ i <= slotNow /\ i \in Nat
      <4>1. CASE i \in issued
        BY <1>c, <4>1
      <4>2. CASE i = slotNow
        BY <1>c, <4>2
      <4> QED BY <2>6, <4>1, <4>2
    <3> QED BY <3>1
  <2>8. held' \subseteq issued'
    BY <1>c, <2>1 DEF ForecastHeld, Recorded
  <2>9. ASSUME NEW i \in issued', \A k \in issued' : k <= i + KeepRuns PROVE i \in held'
    <3>1. i \in held \cup Ats(fetched)
      BY <1>c, <2>1, <2>9 DEF ForecastHeld
    <3>2. \A b \in Ats(fetched) : i + KeepRuns >= b
      <4>1. ASSUME NEW b \in Ats(fetched) PROVE i + KeepRuns >= b
        <5>1. b \in issued' /\ b \in Nat /\ i \in Nat
          BY <2>1, <2>7
        <5>2. b <= i + KeepRuns
          BY <2>9, <5>1
        <5> QED BY <1>c, <5>1, <5>2
      <4> QED BY <4>1
    <3> QED BY <2>1, <3>1, <3>2 DEF Recorded
  <2>10. ForecastHeld'
    BY <2>2, <2>8, <2>9 DEF ForecastHeld
  <2>11. issued \subseteq issued'
    BY <2>1
  <2>12. \A j \in judged' :
            /\ j.day \in Int /\ j.on \in Int /\ j.day < Today
            /\ j.on = j.day + 1 => j.run = ValidAtSix(Covering(issued', j.day), j.day)
    BY <1>c, <2>3, <2>6, <2>7, <2>8, <2>9, <2>11, ClosedWell
  <2>13. (\A j \in judged : JudgedWell(j))'
    BY <2>2, <2>12 DEF JudgedWell, Covering
  <2> QED BY <2>6, <2>10, <2>13 DEF ForecastInv
<1>2. CASE CloseForecastDays
  <2>1. PICK days \in SUBSET DaysToClose : judged' = Closed(held, days)
    BY <1>2 DEF CloseForecastDays
  <2>2. /\ UNCHANGED <<slotNow, newest, archive, canonical, markedTo, lastRound, filed, held, issued>>
        /\ Today' = Today
        /\ calibration' = IF judged' # judged THEN [held |-> held, judged |-> judged'] ELSE calibration
    BY <1>2 DEF CloseForecastDays, archiveVars, Today
  <2>3. ForecastStockInv'
    BY <1>c, <2>2, StockUntouched
  <2>4. ForecastHeld'
    BY <1>c, <2>2 DEF ForecastHeld
  <2>5. \A j \in judged' :
            /\ j.day \in Int /\ j.on \in Int /\ j.day < Today
            /\ j.on = j.day + 1 => j.run = ValidAtSix(Covering(issued, j.day), j.day)
    BY <1>c, <2>1, ClosedWell DEF ForecastHeld
  <2>6. (\A j \in judged : JudgedWell(j))'
    BY <2>2, <2>5 DEF JudgedWell, Covering
  <2> QED BY <2>3, <2>4, <2>6 DEF ForecastInv
<1>3. CASE HousekeepRuns \/ HousekeepFails
  <2>1. UNCHANGED <<slotNow, issued, held, judged, calibration>> /\ Today' = Today
    BY <1>3 DEF HousekeepRuns, HousekeepFails, Today
  <2>2. ForecastStockInv'
    BY <1>3, <1>c, HousekeepingKeepsStock, FailedRoundKeepsStock
  <2>3. ForecastHeld' /\ (\A j \in judged : JudgedWell(j))'
    BY <1>c, <2>1 DEF ForecastHeld, JudgedWell, Covering
  <2> QED BY <2>2, <2>3 DEF ForecastInv
<1>4. CASE SlotPasses \/ RestartForecasts
  <2>1. UNCHANGED <<issued, calibration>> /\ held' = held /\ judged' = judged
    BY <1>4, <1>c DEF SlotPasses, RestartForecasts, ForecastHeld
  <2>2. ForecastStockInv'
    BY <1>4, <1>c, ClockKeepsStock
  <2>3. Today \in Int /\ Today' \in Int /\ Today <= Today'
    BY <1>4, <1>c, TodayGrows
  <2>4. ForecastHeld'
    BY <1>c, <2>1 DEF ForecastHeld
  <2>5. (\A j \in judged : JudgedWell(j))'
    <3>1. ASSUME NEW j \in judged PROVE JudgedWell(j)'
      <4>1. j.day \in Int /\ j.day < Today'
        BY <1>c, <2>3 DEF JudgedWell
      <4> QED BY <1>c, <2>1, <4>1 DEF JudgedWell, Covering
    <3> QED BY <2>1, <3>1
  <2> QED BY <2>2, <2>4, <2>5 DEF ForecastInv
<1>5. CASE UNCHANGED forecastVars
  <2>1. UNCHANGED <<slotNow, newest, archive, canonical, markedTo, lastRound, filed, held, judged, calibration, issued>>
        /\ Today' = Today
    BY <1>5 DEF forecastVars, archiveVars, Today
  <2>2. ForecastStockInv'
    BY <1>c, <2>1, StockUntouched
  <2>3. ForecastHeld' /\ (\A j \in judged : JudgedWell(j))'
    BY <1>c, <2>1 DEF ForecastHeld, JudgedWell, Covering
  <2> QED BY <2>2, <2>3 DEF ForecastInv
<1> QED BY <1>1, <1>2, <1>3, <1>4, <1>5 DEF ForecastNext

\* ForecastsServe for every number of contents, of faults and of slots: if a round of the
\* housekeeping goes through at least every CatchUp days and the evaluator holds its runs for
\* two days and a half, every day that was filed keeps its canonical run, and a day that is
\* closed the day after is judged by the run of its six o'clock.
THEOREM ForecastsServeAlways == RoundsComeInTime /\ RunsAreHeld => (ForecastSpec => []ForecastsServe)
<1> SUFFICES ASSUME RoundsComeInTime, RunsAreHeld PROVE ForecastSpec => []ForecastsServe
  OBVIOUS
<1>1. ForecastInit => ForecastInv
  BY ForecastInitInv
<1>2. ForecastInv /\ [ForecastNext]_forecastVars => ForecastInv'
  BY ForecastNextInv
<1>3. ForecastInv => ForecastsServe
  BY StockIsThere DEF ForecastInv, ForecastsServe, JudgedByDayAhead, JudgedWell
<1> QED BY <1>1, <1>2, <1>3, PTL DEF ForecastSpec
=============================================================================
