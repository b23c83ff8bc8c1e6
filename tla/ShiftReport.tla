----------------------------- MODULE ShiftReport -----------------------------
(* What shifting the heat pump was worth: each day of stored hours is compared  *)
(* with itself as a thermostat would have run it, the day's measured energy     *)
(* spread by the demand of its hours (shift_report, shift_value, day_value).    *)
(* The demand of an hour over its COP is a weight of the hour; energies are     *)
(* counted in 1/Fine so that the divisions the model meets come out even.       *)
EXTENDS Integers, Sequences, FiniteSets, FiniteSetsExt

CONSTANTS
    ShiftRows,      \* hours that may be stored: minutes, import, export, pump, price, outdoor, demand
    ShiftDays, DayHours1,   \* days of the period and hours of a day
    FullMinutes,    \* MIN_MINUTEN
    HoursNeeded,    \* MIN_STUNDEN
    PartNeeded,     \* ANTEIL_NOETIG in tenths
    PumpNeeded,     \* MIN_WP_KWH
    DeviceLimit,    \* nominal_electric_power_kw
    FeedIn,         \* feed_in_ct_kwh
    Rounds,         \* how often spread passes on what is over the limit
    Fine

\* What an hour stores is counted in whole numbers; spread has at least one round.
ASSUME ShiftAssumption ==
    /\ ShiftDays \in Nat /\ DayHours1 \in Nat \ {0} /\ Fine \in Nat /\ DeviceLimit \in Nat /\ Rounds \in Nat \ {0}
    /\ \A row \in ShiftRows :
          /\ row.import \in Nat /\ row.export \in Nat /\ row.pump \in Nat /\ row.demand \in Int
          /\ row.outdoor \subseteq Int /\ \A x, y \in row.outdoor : x = y

VARIABLES
    shiftHours,     \* the stored hours
    shiftNow,       \* the next hour
    dayResults      \* the days of the report, {} before
shiftVars == <<shiftHours, shiftNow, dayResults>>

ShiftInit == shiftHours = [h \in {} |-> 0] /\ shiftNow = 0 /\ dayResults = {}

ShiftHour(row) ==
    /\ shiftNow < ShiftDays * DayHours1 /\ dayResults = {} /\ shiftNow' = shiftNow + 1
    /\ shiftHours' = [h \in DOMAIN shiftHours \cup {shiftNow} |-> IF h = shiftNow THEN row ELSE shiftHours[h]]
    /\ UNCHANGED dayResults
ShiftHourMissing ==
    /\ shiftNow < ShiftDays * DayHours1 /\ dayResults = {} /\ shiftNow' = shiftNow + 1
    /\ UNCHANGED <<shiftHours, dayResults>>

----------------------------------------------------------------------------
Least(a, b) == IF a < b THEN a ELSE b
Most(a, b) == IF a > b THEN a ELSE b
Limit == Fine * DeviceLimit

\* Mutant of PassOn: what is over the limit is passed on and kept.
PassOnKept(shares, weight, over, free) ==
    [h \in DOMAIN shares |-> shares[h] + (IF h \in free THEN (over * weight[h]) \div MapThenSumSet(LAMBDA g : weight[g], free) ELSE 0)]
\* One pass of spread: capped, and what was over goes to the hours with room, which are capped again.
PassOn(shares, weight, over, free) ==
    [h \in DOMAIN shares |->
        Least(Limit, Least(Limit, shares[h]) +
                       (IF h \in free THEN (over * weight[h]) \div MapThenSumSet(LAMBDA g : weight[g], free) ELSE 0))]
\* spread
Spread(total, weight) ==
    LET Pass(shares) ==
            LET over == MapThenSumSet(LAMBDA h : Most(0, shares[h] - Limit), DOMAIN shares)
                free == {h \in DOMAIN shares : shares[h] < Limit}
            IN  IF over = 0 THEN shares
                ELSE IF MapThenSumSet(LAMBDA g : weight[g], free) = 0 THEN [h \in DOMAIN shares |-> Least(Limit, shares[h])]
                ELSE PassOn(shares, weight, over, free)
        passes[n \in 0..Rounds] ==
            IF n = 0 THEN [h \in DOMAIN weight |-> (Fine * total * weight[h]) \div MapThenSumSet(LAMBDA g : weight[g], DOMAIN weight)]
            ELSE Pass(passes[n - 1])
    IN  passes[Rounds]

\* _netz: more use eats the export first, less use the import.
GridImport(row, delta) ==
    IF delta >= 0 THEN Fine * row.import + Most(0, delta - Fine * row.export) ELSE Most(0, Fine * row.import + delta)
GridExport(row, delta) ==
    IF delta >= 0 THEN Most(0, Fine * row.export - delta) ELSE Fine * row.export + Most(0, 0 - delta - Fine * row.import)
\* _kosten
Cost(row, import, export) == import * Max(row.price) - export * FeedIn

DayHoursOf(day) == {h \in DOMAIN shiftHours : h \div DayHours1 = day}
\* Hours of the day that have gone by; nothing of a day to come, all of a day gone by.
HoursGone(day) == Most(0, Least(shiftNow - day * DayHours1, DayHours1))

\* naive_shape: the heat demand, that is how much colder it is outside; an hour without
\* an outdoor temperature takes the mean of the others.
Measured(full) == {h \in full : shiftHours[h].outdoor # {}}
NaiveShape(full) ==
    LET mean == MapThenSumSet(LAMBDA h : Max(shiftHours[h].outdoor), Measured(full)) \div Cardinality(Measured(full))
    IN  [h \in full |-> Most(0, shiftHours[h].demand -
                                (IF h \in Measured(full) THEN Max(shiftHours[h].outdoor) ELSE mean))]

\* day_value: a day with a reason has no numbers.
Skipped(reason) == [reason |-> reason, pump |-> 0, naive |-> <<>>, delta |-> <<>>, saving |-> 0, shifted |-> 0]
DayValue(day) ==
    LET full == {h \in DayHoursOf(day) : shiftHours[h].minutes >= FullMinutes}
        pump == MapThenSumSet(LAMBDA h : shiftHours[h].pump, full)
        weight == NaiveShape(full)
        naive == Spread(pump, weight)
        delta == [h \in full |-> naive[h] - Fine * shiftHours[h].pump]
    IN  IF Cardinality(full) < HoursNeeded \/ 10 * Cardinality(full) < PartNeeded * HoursGone(day) THEN Skipped("few hours")
        ELSE IF \E h \in full : shiftHours[h].price = {} THEN Skipped("no price")
        ELSE IF Measured(full) = {} THEN Skipped("no outdoor")
        ELSE IF pump < PumpNeeded THEN Skipped("no run")
        ELSE IF MapThenSumSet(LAMBDA h : weight[h], full) = 0 THEN Skipped("no demand")
        ELSE [reason |-> "", pump |-> pump, naive |-> naive, delta |-> delta,
                shifted |-> MapThenSumSet(LAMBDA h : Most(0, delta[h]), full),
                saving |-> MapThenSumSet(LAMBDA h :
                    Cost(shiftHours[h], GridImport(shiftHours[h], delta[h]), GridExport(shiftHours[h], delta[h]))
                      - Cost(shiftHours[h], Fine * shiftHours[h].import, Fine * shiftHours[h].export), full)]

\* shift_value: the days that have an hour, and their sum without the skipped ones.
ReportShift ==
    /\ dayResults = {}
    /\ LET days == {d \in 0..(ShiftDays - 1) : DayHoursOf(d) # {}}
           value == [d \in days |-> DayValue(d)]
       IN  dayResults' = {[days |-> value, skipped |-> Cardinality({d \in days : value[d].reason # ""}),
                           saving |-> MapThenSumSet(LAMBDA d : value[d].saving, days), shifted |-> MapThenSumSet(LAMBDA d : value[d].shifted, days)]}
    /\ UNCHANGED <<shiftHours, shiftNow>>

ShiftNext == (\E row \in ShiftRows : ShiftHour(row)) \/ ShiftHourMissing \/ ReportShift
ShiftSpec == ShiftInit /\ [][ShiftNext]_shiftVars

----------------------------------------------------------------------------
Judged1 == UNION {{[day |-> d, value |-> r.days[d]] : d \in {k \in DOMAIN r.days : r.days[k].reason = ""}} : r \in dayResults}
FullOf(v) == DOMAIN v.value.naive

\* The comparison is with a run this heat pump could have made: in no hour more than it can take,
\* never more in the day than was measured, and what the grid would have given and taken differs
\* from what it did by just what was moved (spread, _netz).
FairComparison ==
    \A v \in Judged1 :
        /\ \A h \in FullOf(v) : v.value.naive[h] >= 0 /\ v.value.naive[h] <= Limit
        /\ MapThenSumSet(LAMBDA h : v.value.naive[h], FullOf(v)) <= Fine * v.value.pump
        /\ \A h \in FullOf(v) :
              /\ GridImport(shiftHours[h], v.value.delta[h]) - GridExport(shiftHours[h], v.value.delta[h])
                    = Fine * (shiftHours[h].import - shiftHours[h].export) + v.value.delta[h]
              /\ v.value.naive[h] = Fine * shiftHours[h].pump =>
                    GridImport(shiftHours[h], v.value.delta[h]) = Fine * shiftHours[h].import

=============================================================================
