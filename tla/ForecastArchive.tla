--------------------------- MODULE ForecastArchive ---------------------------
(* What becomes of a PV forecast after it was fetched.  LiveRuntime files it *)
(* in forecast_runs, where the housekeeping marks one run of every past day  *)
(* as canonical and deletes the others after a while, and hands it to the    *)
(* ForecastEvaluator, which holds the last runs in memory, judges a day by   *)
(* its day-ahead run once it is over, and saves its state as a calibration.  *)
(*                                                                           *)
(* A day is two slots long: the first ends with the canonical hour, 06:00.   *)
(* A run is known by the slot it was issued in; its content only matters to  *)
(* the filter for repeats.  The correction factors that a judged day yields  *)
(* are left out.                                                             *)
EXTENDS Integers, FiniteSets, FiniteSetsExt

CONSTANTS
    KeepRuns,       \* slots the evaluator holds a run (60 h)
    CatchUp,        \* days _kanonische_laeufe goes back (3)
    RunRetention,   \* slots a run without a mark stays (30 days)
    MarkGap,        \* bound: days between two rounds of the housekeeping that succeed
    Contents,       \* contents a forecast can have
    SaveFaults,     \* bound: runs the database does not take
    LastSlot        \* bound on the clock

ASSUME ForecastAssumption ==
    {KeepRuns, CatchUp, RunRetention, MarkGap, SaveFaults, LastSlot} \subseteq Nat

Slots == 0..LastSlot
NoSlot == -1
DayOf(s) == s \div 2
Days == 0..DayOf(LastSlot)
CanonicalHour(d) == 2 * d       \* the slot that ends with it
ForecastRuns == [at : Slots, content : Contents]

VARIABLES
    slotNow,
    newest,         \* the forecast in memory, in a set; {} after a start
    archive,        \* runs in forecast_runs, with their content
    canonical,      \* pairs <<day, run>> of marked runs
    markedTo,       \* _kanonisch_am
    lastRound,      \* day of the last round that went through
    held,           \* evaluator.runs
    judged,         \* closed days: [day, run, on]
    calibration,    \* the saved state: [held, judged]
    saveFaults,
    filed,          \* history: the runs that were filed on their own day
    issued          \* history: every run the evaluator was given

archiveVars == <<archive, canonical, markedTo, lastRound, filed>>
forecastVars == <<slotNow, newest, archiveVars, held, judged, calibration, saveFaults, issued>>

ForecastInit ==
    /\ slotNow = 0 /\ lastRound = 0 /\ markedTo = NoSlot /\ saveFaults = 0
    /\ newest = {} /\ archive = {} /\ canonical = {} /\ filed = {}
    /\ held = {} /\ judged = {} /\ issued = {}
    /\ calibration = [held |-> {}, judged |-> {}]

Today == DayOf(slotNow)
Ats(rs) == {r.at : r \in rs}
\* The last run that was valid at the canonical hour, else the earliest.
ValidAtSix(ats, d) ==
    LET before == {a \in ats : a <= CanonicalHour(d)}
    IN  IF before # {} THEN Max(before) ELSE Min(ats)

\* archive.kanonisch: among the runs of the day itself.
OfDay(ats, d) == {a \in ats : DayOf(a) = d}
\* ForecastEvaluator.day_ahead_run: among those whose points reach into the
\* day, the run of the evening before included.
Covering(ats, d) == {a \in ats : DayOf(a) \in {d - 1, d}}

----------------------------------------------------------------------------
\* _lauf_ablegen: not filed when the content is that of the last run.
Repeats(r) == \E q \in archive : q.at = Max(Ats(archive)) /\ q.content = r.content
Filed(rs) == {r \in rs : ~Repeats(r)}

\* record_run: one run per quarter of an hour, none older than KeepRuns.
Recorded(ats) == {a \in held \cup ats : \A b \in ats : a + KeepRuns >= b}

\* days_to_close: yesterday and the day before, unless they are closed.
DaysToClose == {d \in Days : d \in {Today - 2, Today - 1} /\ \A j \in judged : j.day # d}

\* close_day, for the days with enough measurements to compare.
Closed(runs, days) ==
    judged \cup {[day |-> d, run |-> ValidAtSix(Covering(runs, d), d), on |-> Today] :
                 d \in {e \in days : Covering(runs, e) # {}}}

\* _forecast_loop when the weather is due: refresh, file, record, close, save.
\* A fetch that fails leaves the forecast of before.
RefreshWeather ==
    /\ slotNow \notin held
    /\ \E fetched \in {newest} \cup {{[at |-> slotNow, content |-> c]} : c \in Contents} :
         /\ newest' = fetched
         /\ \/ archive' = archive \cup Filed(fetched) /\ UNCHANGED saveFaults
            \/ /\ saveFaults < SaveFaults /\ saveFaults' = saveFaults + 1
               /\ UNCHANGED archive
         /\ held' = Recorded(Ats(fetched))
         /\ issued' = issued \cup Ats(fetched)
    /\ filed' = filed \cup OfDay(Ats(archive'), Today)
    /\ \E days \in SUBSET DaysToClose : judged' = Closed(held', days)
    /\ calibration' = [held |-> held', judged |-> judged']
    /\ UNCHANGED <<slotNow, canonical, markedTo, lastRound>>

\* _close_forecast_days in the minutes between: measurements that came late.
CloseForecastDays ==
    /\ \E days \in SUBSET DaysToClose \ {{}} : judged' = Closed(held, days)
    /\ calibration' = IF judged' # judged THEN [held |-> held, judged |-> judged'] ELSE calibration
    /\ UNCHANGED <<slotNow, newest, archiveVars, held, saveFaults, issued>>

----------------------------------------------------------------------------
\* _kanonische_laeufe and prune_forecast_runs, in this order.
Marked ==
    {<<d, ValidAtSix(OfDay(Ats(archive), d), d)>> :
        d \in {e \in (Today - CatchUp)..(Today - 1) : OfDay(Ats(archive), e) # {}}}
Survivors(marks) ==
    {r \in archive : r.at + RunRetention >= slotNow \/ \E d \in Days : <<d, r.at>> \in marks}
HousekeepRuns ==
    /\ canonical' = IF markedTo = Today - 1 THEN canonical ELSE canonical \cup Marked
    /\ markedTo' = Today - 1
    /\ archive' = Survivors(canonical')
    /\ lastRound' = Today
    /\ UNCHANGED <<slotNow, newest, held, judged, calibration, saveFaults, filed, issued>>
\* An exception ends the round: some days are marked, nothing is deleted.
HousekeepFails ==
    /\ markedTo # Today - 1
    /\ \E some \in SUBSET Marked : canonical' = canonical \cup some
    /\ UNCHANGED <<slotNow, newest, archive, markedTo, lastRound, held, judged, calibration,
                   saveFaults, filed, issued>>

SlotPasses ==
    /\ slotNow < LastSlot
    /\ DayOf(slotNow + 1) <= lastRound + MarkGap
    /\ slotNow' = slotNow + 1
    /\ UNCHANGED <<newest, archiveVars, held, judged, calibration, saveFaults, issued>>

\* Mutant of RestartForecasts: only the closed days come back.
RestartWithoutRuns ==
    /\ newest # {}
    /\ newest' = {} /\ markedTo' = NoSlot
    /\ held' = {} /\ judged' = calibration.judged
    /\ UNCHANGED <<slotNow, archive, canonical, lastRound, calibration, saveFaults, filed, issued>>

\* A start of the API: memory is gone, _load_calibration brings the rest back.
RestartForecasts ==
    /\ newest # {}
    /\ newest' = {} /\ markedTo' = NoSlot
    /\ held' = calibration.held /\ judged' = calibration.judged
    /\ UNCHANGED <<slotNow, archive, canonical, lastRound, calibration, saveFaults, filed, issued>>

ForecastNext ==
    \/ RefreshWeather \/ CloseForecastDays
    \/ HousekeepRuns \/ HousekeepFails
    \/ SlotPasses \/ RestartForecasts

ForecastSpec == ForecastInit /\ [][ForecastNext]_forecastVars

----------------------------------------------------------------------------
ForecastTypeOK ==
    /\ slotNow \in Slots /\ lastRound \in Days /\ markedTo \in Days \cup {NoSlot}
    /\ newest \cup archive \subseteq ForecastRuns /\ Ats(newest \cup archive) \subseteq issued
    /\ held \cup filed \subseteq issued /\ issued \subseteq Slots
    /\ canonical \subseteq Days \X Ats(archive)
    /\ \A j \in judged : j.day \in Days /\ j.run \in issued /\ j.day < j.on
    /\ saveFaults \in 0..SaveFaults

\* "Jeder Tag ohne Ablage ist ein dauerhaft verlorener Lerntag": of every past
\* day on which a run was filed, the canonical one is in the archive for good.
LearningStock ==
    \A d \in 0..(Today - 1) :
        OfDay(filed, d) # {} => ValidAtSix(OfDay(filed, d), d) \in Ats(archive)

\* A day closed the day after is judged by the forecast that was valid at
\* 06:00, across restarts and refreshes that failed.
JudgedByDayAhead ==
    \A j \in judged :
        j.on = j.day + 1 => j.run = ValidAtSix(Covering(issued, j.day), j.day)

\* What learning and judging need of the archive is there (_kanonische_laeufe, observe).
ForecastsServe == LearningStock /\ JudgedByDayAhead
=============================================================================
