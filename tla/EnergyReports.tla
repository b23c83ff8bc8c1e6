---------------------------- MODULE EnergyReports ----------------------------
(* The reports on energy: hours are stored by their UTC start, periods and      *)
(* their buckets are days, weeks, months and a year of local time, and once in  *)
(* the history the clocks change (period_bounds, bucket_starts, summary,        *)
(* pv_report, year_map, _price_quality).  Of the amounts of an hour the model   *)
(* keeps import, export, heat pump and price; local time is counted in hours on *)
(* the wall clock from the start of the first day, and a day of the year has    *)
(* few hours.                                                                   *)
EXTENDS Integers, Sequences, FiniteSets, FiniteSetsExt, SequencesExt

CONSTANTS
    DayLocalHours,  \* hours of a day on the wall clock
    WeekDays,       \* days of a week
    MonthDays0,     \* the days of each month of the year; the year starts a week
    EnergyRows,     \* what an hour may have measured, taken in turn
    ClockChanges,   \* what the clocks may do: 1 in spring, -1 in autumn, 0 not at all
    ChangeAt,       \* the UTC hour at whose start they do it
    RankEnough,     \* priced hours below which no share of cheap hours is told (8)
    VatRate         \* percent; 0 for a small business

\* The clocks change by an hour, and not before the first one.
ASSUME ReportAssumption ==
    /\ DayLocalHours \in Nat \ {0} /\ WeekDays \in Nat \ {0} /\ MonthDays0 \in Seq(Nat \ {0})
    /\ ClockChanges \subseteq {-1, 0, 1} /\ ChangeAt \in Nat \ {0}
    /\ EnergyRows \in Seq([import : Int, export : Int, pump : Int, price : Int]) /\ EnergyRows # <<>>

Year == FoldSeq(LAMBDA d, sum : d + sum, 0, MonthDays0)
YearDays == 0..(Year - 1)

VARIABLES
    change,         \* what the clocks do
    utc,            \* the next hour, in UTC
    hourRows,       \* the stored hours
    reported        \* the report, {} before
reportVars == <<change, utc, hourRows, reported>>

ReportInit == change \in ClockChanges /\ utc = 0 /\ hourRows = [u \in {} |-> 0] /\ reported = {}

\* astimezone: what the wall clock shows at the start of a UTC hour, and the other way round.  A
\* time that comes twice is taken as the first, one that does not exist as if the clock went on.
Wall(u) == IF u < ChangeAt THEN u ELSE u + change
UtcOf(w) == IF w < ChangeAt + Max({change, 0}) THEN w ELSE w - change
YearEnd == UtcOf(Year * DayLocalHours)

HourStored ==
    /\ utc < YearEnd /\ reported = {} /\ utc' = utc + 1
    /\ hourRows' = [u \in DOMAIN hourRows \cup {utc} |->
                       IF u = utc THEN EnergyRows[(u % Len(EnergyRows)) + 1] ELSE hourRows[u]]
    /\ UNCHANGED <<change, reported>>
HourMissing == utc < YearEnd /\ reported = {} /\ utc' = utc + 1 /\ UNCHANGED <<change, hourRows, reported>>

----------------------------------------------------------------------------
\* The first day of a month, and the month of a day.
FirstOf(month) == FoldSeq(LAMBDA d, sum : d + sum, 0, SubSeq(MonthDays0, 1, month - 1))
MonthOf(day) == Max({k \in DOMAIN MonthDays0 : FirstOf(k) <= day})
WeekOf(day) == (day \div WeekDays) * WeekDays

\* The days of the period around the anchor; period_bounds turns their ends to UTC.
FirstDay(period, day) ==
    CASE period = "day" -> day [] period = "week" -> WeekOf(day) [] period = "month" -> FirstOf(MonthOf(day)) [] OTHER -> 0
DayAfter(period, day) ==
    CASE period = "day" -> day + 1 [] period = "week" -> WeekOf(day) + WeekDays
      [] period = "month" -> FirstOf(MonthOf(day) + 1) [] OTHER -> Year
PeriodBounds(period, day) ==
    <<UtcOf(FirstDay(period, day) * DayLocalHours), UtcOf(DayAfter(period, day) * DayLocalHours)>>
\* _previous_bounds, where the year before is another history.
PreviousBounds(period, day) ==
    PeriodBounds(period, CASE period = "day" -> day - 1 [] period = "week" -> day - WeekDays [] OTHER -> FirstDay(period, day) - 1)

\* Mutant of BucketEnd: a day later by the clock that does not change.
BucketEndUtc(period, w) == IF period = "day" THEN UtcOf(w + 1) ELSE IF period = "year"
    THEN UtcOf(w) + MonthDays0[MonthOf(w \div DayLocalHours)] * DayLocalHours ELSE UtcOf(w) + DayLocalHours
\* The next hour, midnight or first of the month on the wall clock.
BucketEnd(period, w) ==
    IF period = "day" THEN UtcOf(w + 1)
    ELSE UtcOf(DayLocalHours * DayAfter(IF period = "year" THEN "month" ELSE "day", w \div DayLocalHours))

\* bucket_starts: each bucket as its start and its end in UTC.
BucketStarts(period, day) ==
    LET inside == (FirstDay(period, day) * DayLocalHours)..(DayAfter(period, day) * DayLocalHours - 1)
        starts == CASE period = "day" -> inside
                    [] period = "year" -> {FirstOf(k) * DayLocalHours : k \in DOMAIN MonthDays0}
                    [] OTHER -> {w \in inside : w % DayLocalHours = 0}
    IN  {<<UtcOf(w), BucketEnd(period, w)>> : w \in starts}

Within(bounds) == {u \in DOMAIN hourRows : u >= bounds[1] /\ u < bounds[2]}
\* summarize, of the amounts kept.
Totals(hours) ==
    [hours |-> Cardinality(hours), import |-> MapThenSumSet(LAMBDA u : hourRows[u].import, hours),
     export |-> MapThenSumSet(LAMBDA u : hourRows[u].export, hours), pump |-> MapThenSumSet(LAMBDA u : hourRows[u].pump, hours)]

\* pv_tax: what is to be paid is the sum of the shown cents, not of the exact ones.
Cents(hundredths) == (hundredths + 50) \div 100
PvTax(total) == [net |-> total.export, vat |-> Cents(total.export * VatRate), gross |-> total.export + Cents(total.export * VatRate)]

\* _price_quality: the part of the heat pump's energy in the cheapest quarter of the priced hours.
CheapShare(hours) ==
    LET priced == {u \in hours : hourRows[u].price > 0}
        Rank(u) == hourRows[u].price * (YearEnd + 1) + u
        ranked == SetToSortSeq(priced, LAMBDA a, b : Rank(a) < Rank(b))
        cheap == {ranked[i] : i \in 1..Max({1, Cardinality(priced) \div 4})}
    IN  IF Cardinality(priced) < RankEnough \/ Totals(priced).pump = 0 THEN {}
        ELSE {<<Totals(cheap).pump, Totals(priced).pump>>}

\* year_map: the hours by local day and hour of the day.
YearMap == [cell \in YearDays \X (0..(DayLocalHours - 1)) |->
               {u \in Within(PeriodBounds("year", 0)) :
                   Wall(u) \div DayLocalHours = cell[1] /\ Wall(u) % DayLocalHours = cell[2]}]

\* summary and pv_report, and for the year its map; the coverage in hours of hours.
ReportEnergy(period, day) ==
    LET bounds == PeriodBounds(period, day)
        hours == Within(bounds)
    IN  /\ reported = {} /\ utc >= bounds[1]
        /\ reported' = {[period |-> period, bounds |-> bounds,
                         previous |-> IF period = "year" \/ FirstDay(period, day) = 0 THEN <<>> ELSE PreviousBounds(period, day),
                         totals |-> Totals(hours), tax |-> PvTax(Totals(hours)), cheap |-> CheapShare(hours),
                         buckets |-> {<<b, Totals(Within(b))>> : b \in BucketStarts(period, day)},
                         map |-> IF period = "year" THEN YearMap ELSE <<>>,
                         coverage |-> <<Cardinality(hours), Min({utc, bounds[2]}) - bounds[1]>>]}
        /\ UNCHANGED <<change, utc, hourRows>>

ReportNext ==
    \/ HourStored
    \/ HourMissing
    \/ \E period \in {"day", "week", "month", "year"}, day \in YearDays : ReportEnergy(period, day)
ReportSpec == ReportInit /\ [][ReportNext]_reportVars

----------------------------------------------------------------------------
\* Also in the weeks of the clock change, the bars of a period are the period: every hour of it is in
\* exactly one bucket, and the buckets' amounts make the total; the period before ends where this
\* one starts; the year's map holds every hour of the year once (period_bounds, bucket_starts,
\* summary, year_map); and no more of a period is covered than has gone by.
BucketsAddUp ==
    \A r \in reported :
        /\ \A u \in r.bounds[1]..(r.bounds[2] - 1) :
              Cardinality({b \in r.buckets : b[1][1] <= u /\ u < b[1][2]}) = 1
        /\ r.totals.import = FoldSet(LAMBDA b, sum : b[2].import + sum, 0, r.buckets)
        /\ r.totals.hours = FoldSet(LAMBDA b, sum : b[2].hours + sum, 0, r.buckets)
        /\ r.previous # <<>> => r.previous[2] = r.bounds[1]
        /\ r.coverage[1] <= r.coverage[2]
        /\ r.map # <<>> => \A u \in Within(r.bounds) : Cardinality({cell \in DOMAIN r.map : u \in r.map[cell]}) = 1
=============================================================================
