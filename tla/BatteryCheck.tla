---------------------------- MODULE BatteryCheck ----------------------------
(* The check of the battery's metering over a period: the rows are read in      *)
(* windows (speicher_check), each window is cut at the local midnights          *)
(* (_tagesgrenzen) into sections (abschnitt), searched for rests, efficient      *)
(* stretches and recharges from the grid, and what the windows found is put     *)
(* together and judged.  Powers are whole numbers and an energy is their sum    *)
(* over minutes; the level is counted in steps.  Lines of text are left out but *)
(* for the statements of the verdict.                                           *)
EXTENDS Integers, FiniteSets, FiniteSetsExt

CONSTANTS
    BatteryRows,    \* rows a minute may have: battery (negative: it charges), level, residual, dark
    CheckStart, CheckEnd,   \* the period: the minutes from CheckStart to CheckEnd - 1
    Midnights,      \* the local midnights, as a set of minutes
    WindowLength,   \* seven times 24 hours, whatever the clocks do
    LevelSize,      \* the energy of one step of the level: capacity times SOC_STUFE
    LevelStep,      \* SOC_STUFE itself, which schranke_kw takes for that energy
    RestPower,      \* RUHE_KW
    RestMinutes, StretchMinutes, StretchLevels,     \* RUHE_MIN_MINUTEN, EPISODE_MIN_MINUTEN, EPISODE_MIN_SOC
    FullLevel, LowLevel, TopLevel,  \* VOLL_SOC, TIEF_SOC and a level of 1
    LossOdd,        \* VERLUST_AUFFAELLIG, as the denominator of its share of the charge
    ResidualEnough, \* rows with a residual below which it says nothing
    SourceDays      \* days from which aufteilung judges

NoLevel == -1
NoSection == [minutes |-> 0, charged |-> 0, discharged |-> 0, dark |-> 0, levelFrom |-> NoLevel,
            levelTo |-> NoLevel, delta |-> {}, residual |-> 0, residualMinutes |-> 0, active |-> 0]

\* Minutes are counted from some minute before the period, levels in steps of SOC_STUFE.
ASSUME CheckAssumption ==
    /\ CheckStart \in Nat /\ CheckEnd \in Nat /\ Midnights \in SUBSET Nat /\ WindowLength \in Nat \ {0}
    /\ \A row \in BatteryRows : row.battery \in Int /\ row.level \in Nat \cup {NoLevel}

VARIABLES
    minuteRows,     \* the stored rows by minute
    minuteNext,     \* the next minute to come
    window,         \* fenster: where the next window starts
    days,           \* tage: the sections by their first minute, von
    rests,          \* ruhe and voll_minuten
    stretches,      \* wirkung
    recharges,      \* tief: number and energy
    finding         \* the report's total and verdict, or {} as long as there is none
checkVars == <<minuteRows, minuteNext, window, days, rests, stretches, recharges, finding>>

CheckInit ==
    /\ minuteRows = [m \in {} |-> 0] /\ minuteNext = CheckStart /\ window = CheckStart /\ days = [m \in {} |-> NoSection]
    /\ rests = [minutes |-> 0, runs |-> 0, charged |-> 0, discharged |-> 0, full |-> 0]
    /\ stretches = [c \in BOOLEAN |-> [measured |-> 0, moved |-> 0, count |-> 0]]
    /\ recharges = [count |-> 0, energy |-> 0] /\ finding = {}

RowStored(row) ==
    /\ minuteNext < CheckEnd
    /\ minuteRows' = [m \in DOMAIN minuteRows \cup {minuteNext} |-> IF m = minuteNext THEN row ELSE minuteRows[m]]
    /\ minuteNext' = minuteNext + 1 /\ UNCHANGED <<window, days, rests, stretches, recharges, finding>>

RowLost ==
    /\ minuteNext < CheckEnd /\ minuteNext' = minuteNext + 1
    /\ UNCHANGED <<minuteRows, window, days, rests, stretches, recharges, finding>>

----------------------------------------------------------------------------
In(m) == IF minuteRows[m].battery < 0 THEN 0 - minuteRows[m].battery ELSE 0
Out(m) == IF minuteRows[m].battery > 0 THEN minuteRows[m].battery ELSE 0
WithLevel(rows) == {m \in rows : minuteRows[m].level # NoLevel}

\* abschnitt: one day's rows.  A set with one number is a number that is known, {} is None.
Section(rows) ==
    IF rows = {} THEN NoSection
    ELSE LET leveled == WithLevel(rows)
             first == IF leveled = {} THEN NoLevel ELSE minuteRows[Min(leveled)].level
             last == IF leveled = {} THEN NoLevel ELSE minuteRows[Max(leveled)].level
             measured == {m \in rows : minuteRows[m].residual # {}}
         IN  [minutes |-> Cardinality(rows), charged |-> MapThenSumSet(In, rows), discharged |-> MapThenSumSet(Out, rows),
              dark |-> MapThenSumSet(In, {m \in rows : minuteRows[m].dark}), levelFrom |-> first, levelTo |-> last,
              delta |-> IF leveled = {} THEN {} ELSE {(last - first) * LevelSize},
              residual |-> MapThenSumSet(LAMBDA m : Max(minuteRows[m].residual), measured),
              residualMinutes |-> Cardinality(measured),
              active |-> Cardinality({m \in rows : In(m) + Out(m) > RestPower})]

\* summe_abschnitte of the sections that start at the minutes starts, in their order.
SumAll(starts, amount) == MapThenSumSet(LAMBDA d : days[d][amount], starts)
Leveled(starts) == {d \in starts : days[d].levelFrom # NoLevel}
LevelFrom(starts) == days[Min(Leveled(starts))].levelFrom
LevelTo(starts) == days[Max(Leveled(starts))].levelTo
\* The change from the first day's first level to the last day's last; the capacity comes from a
\* day with a change, so that without one there is no number.
LevelChange(starts) ==
    IF \E d \in Leveled(starts) : days[d].levelFrom # days[d].levelTo
    THEN {(LevelTo(starts) - LevelFrom(starts)) * LevelSize} ELSE {}
Together(starts) ==
    IF starts = {} THEN NoSection
    ELSE [minutes |-> SumAll(starts, "minutes"),
          charged |-> SumAll(starts, "charged"), discharged |-> SumAll(starts, "discharged"),
          dark |-> SumAll(starts, "dark"),
          levelFrom |-> IF Leveled(starts) = {} THEN NoLevel ELSE LevelFrom(starts),
          levelTo |-> IF Leveled(starts) = {} THEN NoLevel ELSE LevelTo(starts),
          delta |-> LevelChange(starts), residual |-> SumAll(starts, "residual"),
          residualMinutes |-> SumAll(starts, "residualMinutes"), active |-> SumAll(starts, "active")]

\* Minutes on end: those in joins go on with the next one.
Blocks(rows, joins) ==
    {m..Min({n \in rows : n >= m /\ n \notin joins}) : m \in {m \in rows : m - 1 \notin joins}}
\* _strecken: minutes on end in which the battery charges, or discharges.
Stretches(rows, charging) ==
    LET active == {m \in rows : IF charging THEN In(m) > RestPower ELSE Out(m) > RestPower}
    IN  Blocks(active, {m \in active : m + 1 \in active})
\* _laeufe: minutes on end with the same level.
Rests(rows) ==
    Blocks(WithLevel(rows), {m \in WithLevel(rows) : m + 1 \in WithLevel(rows) /\ minuteRows[m].level = minuteRows[m + 1].level})
LongRests(rows) == {r \in Rests(rows) : Cardinality(r) >= RestMinutes}
AtFull(rest) == minuteRows[Min(rest)].level >= FullLevel

\* ruhe_befund, added to what the windows before have found
RestsWith(rows) ==
    LET counted == {r \in LongRests(rows) : ~AtFull(r)}
    IN  [minutes |-> rests.minutes + Cardinality(UNION counted), runs |-> rests.runs + Cardinality(counted),
         charged |-> rests.charged + MapThenSumSet(In, UNION counted), discharged |-> rests.discharged + MapThenSumSet(Out, UNION counted),
         full |-> rests.full + Cardinality(UNION (LongRests(rows) \ counted))]

\* wirkungsgrade: long stretches over which the level moved enough, charging (TRUE) and not.
Moved(charging, s) ==
    LET change == minuteRows[Max(WithLevel(s))].level - minuteRows[Min(WithLevel(s))].level
    IN  IF charging THEN change ELSE 0 - change
StretchesWith(rows) ==
    [charging \in BOOLEAN |->
       LET pure == {s \in Stretches(rows, charging) :
                        /\ Cardinality(s) >= StretchMinutes /\ Cardinality(WithLevel(s)) >= 2
                        /\ Moved(charging, s) >= StretchLevels}
       IN  [measured |-> stretches[charging].measured + MapThenSumSet(LAMBDA m : IF charging THEN In(m) ELSE Out(m), UNION pure),
            moved |-> stretches[charging].moved + LevelSize * FoldSet(LAMBDA s, sum : Moved(charging, s) + sum, 0, pure),
            count |-> stretches[charging].count + Cardinality(pure)]]

\* tief_nachladungen: charges without the sun that start at a low level.  A level of 0 is read as
\* the full one ("soc or 1.0").
FirstLevel(s) == LET level == minuteRows[Min(WithLevel(s))].level IN IF level = 0 THEN TopLevel ELSE level
RechargesWith(rows) ==
    LET low == {s \in Stretches({m \in rows : minuteRows[m].dark}, TRUE) :
                   WithLevel(s) # {} /\ FirstLevel(s) <= LowLevel}
    IN  [count |-> recharges.count + Cardinality(low), energy |-> recharges.energy + MapThenSumSet(In, UNION low)]

----------------------------------------------------------------------------
\* Mutant of DayBounds: the midnights in the window, without its start.
DayBoundsMidnights(from, to) == {m \in Midnights : m >= from /\ m < to}
\* _tagesgrenzen: the start of the window and every midnight after it.
DayBounds(from, to) == {from} \cup {m \in Midnights : m > from /\ m < to}

\* pruefe_speicher: the rows from each bound to the next, where there are any.
SectionsOf(from, to) ==
    LET bounds == DayBounds(from, to)
        rowsFrom(b) == {m \in DOMAIN minuteRows : m >= b /\ m < to /\ \A c \in bounds : c > b => m < c}
    IN  {rowsFrom(b) : b \in bounds} \ {{}}
WithDays(sections) ==
    [d \in DOMAIN days \cup {Min(s) : s \in sections} |->
       IF d \in DOMAIN days THEN days[d] ELSE Section(CHOOSE s \in sections : Min(s) = d)]

CheckWindow ==
    /\ minuteNext = CheckEnd /\ window < CheckEnd
    /\ LET to == Min({window + WindowLength, CheckEnd})
           rows == {m \in DOMAIN minuteRows : m >= window /\ m < to}
       IN  /\ days' = WithDays(SectionsOf(window, to)) /\ rests' = RestsWith(rows)
           /\ stretches' = StretchesWith(rows) /\ recharges' = RechargesWith(rows)
           /\ window' = to
    /\ UNCHANGED <<minuteRows, minuteNext, finding>>

Lost(total) == {total.charged - total.discharged - d : d \in total.delta}
\* aufteilung: enough days with a loss to tell time from amount.  speicher_check does not call it
\* for the whole period, so that the verdict of the period never has its statement.
SourceTold ==
    LET told == {d \in DOMAIN days : days[d].delta # {} /\ days[d].active > 0}
        moved(d) == days[d].charged + days[d].discharged
    IN  /\ Cardinality(told) >= SourceDays
        /\ MapThenSumSet(LAMBDA d : days[d].active * days[d].active, told)
              * MapThenSumSet(LAMBDA d : moved(d) * moved(d), told)
           # MapThenSumSet(LAMBDA d : days[d].active * moved(d), told)
              * MapThenSumSet(LAMBDA d : days[d].active * moved(d), told)

\* speicher_urteil: the statements of the verdict.
Judged(total, sourceTold) ==
    IF total.delta = {} \/ total.charged = 0 THEN {"no level"}
    ELSE IF LossOdd * Max(Lost(total)) < total.charged THEN {"as usual"}
    ELSE {"odd"}
         \cup (IF rests.minutes < RestMinutes THEN {"no rest"}
               ELSE IF rests.charged - rests.discharged > Max({RestPower * rests.minutes, 2 * rests.runs * LevelStep}) THEN {"charge at rest"}
               ELSE {"rest in order"})
         \cup (IF total.residualMinutes < ResidualEnough THEN {"no balance"}
               ELSE IF total.residual = 0 THEN {"balance in order"} ELSE {"balance off"})
         \cup (IF sourceTold THEN {"source"} ELSE {})
         \cup (IF recharges.count > 0 THEN {"recharges"} ELSE {})
         \cup (IF stretches[TRUE].measured > 0 THEN {"efficiency"} ELSE {})

\* The lines of the table: a day cut by a window is one line again (_gruppen).
DayOfMinute(m) == Max({n \in Midnights \cup {CheckStart} : n <= m})
StartsOn(day) == {d \in DOMAIN days : DayOfMinute(d) = day}
Lines == [day \in {DayOfMinute(d) : d \in DOMAIN days} |-> Together(StartsOn(day))]

\* The end of speicher_check.
ReportBattery ==
    /\ window >= CheckEnd /\ finding = {}
    /\ finding' = {[total |-> Together(DOMAIN days), lines |-> Lines,
                    verdict |-> Judged(Together(DOMAIN days), FALSE), source |-> SourceTold]}
    /\ UNCHANGED <<minuteRows, minuteNext, window, days, rests, stretches, recharges>>

CheckNext == (\E row \in BatteryRows : RowStored(row)) \/ RowLost \/ CheckWindow \/ ReportBattery
CheckSpec == CheckInit /\ [][CheckNext]_checkVars

----------------------------------------------------------------------------
\* Whatever days the clocks change on and however the windows cut the period: every stored minute's
\* charge and discharge is in the total once, and in the line of its own day (_tagesgrenzen,
\* pruefe_speicher, summe_abschnitte, _gruppen).
EnergyKept ==
    \A f \in finding :
        LET Agrees(part, rows) ==
              /\ part.minutes = Cardinality(rows) /\ part.charged = MapThenSumSet(In, rows) /\ part.discharged = MapThenSumSet(Out, rows)
        IN  /\ Agrees(f.total, DOMAIN minuteRows)
            /\ \A d \in Midnights \cup {CheckStart} :
                  LET rows == {m \in DOMAIN minuteRows : DayOfMinute(m) = d}
                  IN  IF rows = {} THEN d \notin DOMAIN f.lines ELSE d \in DOMAIN f.lines /\ Agrees(f.lines[d], rows)

\* A change of the battery's content that the report names is the one between the first and the last
\* level of the whole period, what changed overnight or in an outage included, and the loss it
\* derives from it is what went in, did not come out and is not in the battery (summe_abschnitte).
LevelChangeKept ==
    \A f \in finding : \A d \in f.total.delta :
        LET leveled == WithLevel(DOMAIN minuteRows)
        IN  d = (minuteRows[Max(leveled)].level - minuteRows[Min(leveled)].level) * LevelSize

\* What the report of the battery tells adds up, over its days as over the whole period.
CheckAddsUp == EnergyKept /\ LevelChangeKept

\* The report finds every charge from the grid that starts at a low level ("Ladestrecken ohne
\* Erzeugung, die bei leerem Speicher beginnen", docstring of tief_nachladungen), also the one the
\* docstring of TiefBefund has in mind, which starts at a level of 0.
LowRechargesFound ==
    \A f \in finding :
        LET dark == {m \in DOMAIN minuteRows : minuteRows[m].dark}
        IN  recharges.count >= Cardinality({s \in Stretches(dark, TRUE) : minuteRows[Min(s)].level \in 0..LowLevel})
=============================================================================
