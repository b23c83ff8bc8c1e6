---------------------------- MODULE RunDetection ----------------------------
(* Minute rows read one after the other and put together to runs: the charges   *)
(* of the car (_sessions), the minutes of a day in which the battery charged    *)
(* from the grid (diagnose_day), a sun's meter that stands at zero              *)
(* (_pv_series_note), the compressor's runs (compressor_runs), the battery at   *)
(* rest (_laeufe) and at work (_strecken).  A minute may have no row, a row no  *)
(* value.  Powers are whole numbers; what is summed up besides the minutes is   *)
(* left out, and so is the choice of the longest run of _pv_series_note.        *)
EXTENDS Integers, Sequences, FiniteSets, FiniteSetsExt, SequencesExt

CONSTANTS
    SeriesKinds,    \* a subset of the six: what is looked for
    LastRow,        \* the last minute
    SeriesValues,   \* the values of a row; from 1 on something runs
    GapRows,        \* gap_min: rows without charge that a session may have
    EnoughRows,     \* the energy below which a session does not count, in rows
    MinRuntime0,    \* min_runtime_min of the heat pump
    WatchStarts, ManyStarts     \* assess: 12 and 24 starts a day, here in all

NoValue == -1
NoRun == {}

\* Rows have whole values, and a session without energy does not count (0.2 kWh in _sessions).
ASSUME RunAssumption ==
    /\ SeriesKinds \subseteq {"session", "charge", "flat", "compressor", "rest", "stretch"}
    /\ LastRow \in Nat /\ GapRows \in Nat /\ EnoughRows \in Nat \ {0} /\ SeriesValues \subseteq Nat

VARIABLES
    series,      \* the kind of run
    seen,        \* the rows read so far: the value of each minute that has one
    next,        \* the next minute
    found,       \* the runs, as the sets of their minutes
    open,        \* the run that goes on, or NoRun
    lastSeen,    \* last, prev_ts, out[-1][-1].at: the minute the next one must follow
    idle,        \* rows without charge since the last one with
    cycling      \* the verdict of assess, "open" before
runVars == <<series, seen, next, found, open, lastSeen, idle, cycling>>

RunInit ==
    /\ series \in SeriesKinds /\ seen = [m \in {} |-> 0] /\ next = 1 /\ found = {} /\ open = NoRun
    /\ lastSeen = 0 /\ idle = 0 /\ cycling = "open"

----------------------------------------------------------------------------
Matches(value) == IF series = "flat" THEN value = 0 ELSE value >= 1
\* Mutant of Follows: an outage does not end a run.
FollowsAny(m) == lastSeen # 0
\* At most a minute and a half after the one before (the compressor's gap, 90 s, one minute).
Follows(m) == lastSeen # 0 /\ m - lastSeen = 1

RunClosed(run) == IF run = NoRun THEN found ELSE found \cup {run}
\* close of _sessions: a charge with too little energy is forgotten.
SessionClosed(run) == IF Cardinality(run) < EnoughRows THEN found ELSE found \cup {run}

\* _sessions: a row without a value is skipped; too many without charge end the session.
SessionRow(m, value) ==
    IF value = NoValue THEN UNCHANGED <<found, open, lastSeen, idle>>
    ELSE IF Matches(value) THEN
        /\ open' = open \cup {m} /\ idle' = 0 /\ UNCHANGED <<found, lastSeen>>
    ELSE /\ idle' = IF open = NoRun \/ idle = GapRows THEN 0 ELSE idle + 1
         /\ found' = IF idle = GapRows THEN SessionClosed(open) ELSE found
         /\ open' = IF idle = GapRows THEN NoRun ELSE open
         /\ UNCHANGED lastSeen

\* The runs of diagnose_day: a row without a value is skipped, but then the next one does not
\* follow; the same for _laeufe, where the value, the battery's level, must stay the same.
SkippingRow(m, value) ==
    /\ UNCHANGED idle
    /\ IF value = NoValue THEN UNCHANGED <<found, open, lastSeen>>
       ELSE LET fits == series = "rest" \/ Matches(value)
                goesOn == Follows(m) /\ fits /\ (series = "rest" => open # NoRun /\ seen[lastSeen] = value)
            IN  /\ open' = IF goesOn THEN open \cup {m} ELSE IF fits THEN {m} ELSE NoRun
                /\ found' = IF goesOn THEN found ELSE RunClosed(open)
                /\ lastSeen' = IF fits THEN m ELSE 0

\* compressor_runs, _strecken and _pv_series_note: a row without a value ends the run.
PlainRow(m, value) ==
    /\ UNCHANGED idle
    /\ LET runs == value # NoValue /\ Matches(value)
           goesOn == runs /\ open # NoRun /\ Follows(m)
       IN  /\ open' = IF goesOn THEN open \cup {m} ELSE IF runs THEN {m} ELSE NoRun
           /\ found' = IF goesOn THEN found ELSE RunClosed(open)
    /\ lastSeen' = IF value = NoValue THEN 0 ELSE m

Row(value) ==
    /\ next <= LastRow /\ cycling = "open"
    /\ next' = next + 1 /\ seen' = [m \in DOMAIN seen \cup {next} |-> IF m = next THEN value ELSE seen[m]]
    /\ CASE series = "session" -> SessionRow(next, value)
         [] series \in {"charge", "rest"} -> SkippingRow(next, value)
         [] OTHER -> PlainRow(next, value)
    /\ UNCHANGED <<series, cycling>>

\* A minute without a row.
NoRowHere ==
    /\ next < LastRow /\ cycling = "open" /\ next' = next + 1
    /\ UNCHANGED <<series, seen, found, open, lastSeen, idle, cycling>>

\* cycling_stats and assess, in thousandths.
Valued == {m \in DOMAIN seen : seen[m] # NoValue}
RunningMinutes(runs) == FoldSet(LAMBDA r, sum : Cardinality(r) + sum, 0, runs)
ShortRuns(runs) == {r \in runs : Cardinality(r) < MinRuntime0}
Assessed(runs) ==
    IF Valued = {} \/ runs = {} THEN "unknown"
    ELSE IF Cardinality(runs) >= ManyStarts \/ 2 * Cardinality(ShortRuns(runs)) >= Cardinality(runs) THEN "short_cycling"
    ELSE IF Cardinality(runs) >= WatchStarts \/ 4 * Cardinality(ShortRuns(runs)) >= Cardinality(runs) THEN "watch"
    ELSE "ok"

EndOfRows ==
    /\ cycling = "open"
    /\ found' = IF series = "session" THEN SessionClosed(open) ELSE RunClosed(open)
    /\ open' = NoRun /\ cycling' = Assessed(found')
    /\ UNCHANGED <<series, seen, next, lastSeen, idle>>

RunNext == (\E value \in SeriesValues \cup {NoValue} : Row(value)) \/ NoRowHere \/ EndOfRows
RunSpec == RunInit /\ [][RunNext]_runVars

----------------------------------------------------------------------------
\* The types.
RunTypeOK ==
    /\ series \in SeriesKinds /\ next \in 1..(LastRow + 1) /\ idle \in 0..GapRows /\ lastSeen \in 0..LastRow
    /\ DOMAIN seen \subseteq 1..LastRow /\ UNION found \cup open \subseteq DOMAIN seen
    /\ cycling \in {"open", "unknown", "ok", "watch", "short_cycling"}

Running == {m \in Valued : series = "rest" \/ Matches(seen[m])}
\* Two minutes belong together, with nothing running between them.
Joined(a, b) ==
    /\ a < b /\ \A m \in Running : ~(a < m /\ m < b)
    /\ CASE series = "session" -> Cardinality({m \in Valued : a < m /\ m < b}) <= GapRows
         [] series = "rest" -> b = a + 1 /\ seen[a] = seen[b]
         [] OTHER -> b = a + 1
IsRun(run) ==
    /\ run # {} /\ run \subseteq Running
    /\ \A a \in run, b \in Running : Joined(a, b) \/ Joined(b, a) => b \in run
    /\ \A a, b \in run : a < b /\ (\A m \in run : ~(a < m /\ m < b)) => Joined(a, b)

\* What the rows make of themselves one by one is what they are at a glance: the longest runs
\* of minutes that belong together, none bridging a minute without a row but a session, which
\* counts rows and not minutes; and what counts as running never exceeds what was measured.
RunsRight ==
    cycling # "open" =>
      /\ found = {run \in SUBSET Running : IsRun(run) /\ (series = "session" => Cardinality(run) >= EnoughRows)}
      /\ RunningMinutes(found) <= Cardinality(Valued)
=============================================================================
