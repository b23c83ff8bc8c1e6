---------------------------- MODULE EnergyLedger ----------------------------
(* The hours of the energy balance (energy_hourly).  Several callers calculate  *)
(* them from the minute rows and write them: the refresh every five minutes,    *)
(* the recomputation after a backfill from the maker's cloud, the one rebuild   *)
(* after a release, and the import of Home Assistant's history, whose hours are *)
(* means without minutes of their own.  A calculation reads the rows and the    *)
(* account of the battery first, and the stored hours only when it writes.      *)
EXTENDS Integers, FiniteSets, FiniteSetsExt

CONSTANTS
    LedgerHours,    \* the hours 1..LedgerHours of the history
    FullHour,       \* rows of a complete hour
    FullEnough,     \* FULL_ENOUGH_MINUTES
    KeepMeasured,   \* DIRECT_MINUTES_KEEP
    DayLength,      \* hours that a recomputation takes at a time
    BackHours,      \* BACKFILL_DAYS
    LookBack,       \* hours in which _origin_before looks for a stored one
    Room,           \* capacity_kwh
    Weather,        \* of each hour: what its rows say of the battery, which charges from the
                    \* "sun" or the "grid", or discharges, "out"
    LedgerRestarts, \* bounds the restarts
    LedgerMishaps   \* what may happen besides: "import", "backfill", "rebuild"

ASSUME LedgerAssumption ==
    {LedgerHours, FullHour, FullEnough, KeepMeasured, DayLength, BackHours, LookBack, Room, LedgerRestarts}
      \subseteq Nat

LedgerCallers == {"refresh", "recompute", "import"}
NoHour == [minutes |-> 0]

VARIABLES
    hourNow,      \* the running hour
    rowsOf,       \* of each hour: its minute rows so far
    pumpRows,     \* of each hour: how many of them know the heat pump
    hours,        \* energy_hourly: the stored hours
    refreshed,    \* _last_refresh_hour, 0: none since the start
    task,         \* of each caller: the calculated hours it has yet to write
    todo,         \* of the recomputation: the hours ahead, <<first, last>>, and repair_coarse
    rebuilt,      \* the marker of the rebuild is in the events
    ledgerStarts  \* restarts so far
ledgerVars == <<hourNow, rowsOf, pumpRows, hours, refreshed, task, todo, rebuilt, ledgerStarts>>
sourceVars == <<hourNow, rowsOf, pumpRows>>

AllHours == 1..LedgerHours
Stored == {h \in AllHours : hours[h] # NoHour}
LaterOf(a, b) == IF a > b THEN a ELSE b
EarlierOf(a, b) == IF a < b THEN a ELSE b
Nothing == [h \in {} |-> NoHour]
Quiet(c) == task[c] = Nothing
NoTodo == [first |-> 1, last |-> 0, repair |-> FALSE, rebuild |-> FALSE]

LedgerInit ==
    /\ hourNow = 1 /\ rowsOf = [h \in AllHours |-> 0] /\ pumpRows = [h \in AllHours |-> 0]
    /\ hours = [h \in AllHours |-> NoHour] /\ refreshed = 0
    /\ task = [c \in LedgerCallers |-> Nothing] /\ todo = NoTodo /\ rebuilt = FALSE /\ ledgerStarts = 0

----------------------------------------------------------------------------
(* The calculation *)
EmptyAccount == [sun |-> 0, grid |-> 0]
Filling(account) == account.sun + account.grid
\* BatteryOrigin over an hour of n minutes; a unit a minute.
Advanced(account, source, n) ==
    LET free == EarlierOf(n, Room - Filling(account))   gone == EarlierOf(n, Filling(account))
        goneSun == IF Filling(account) = 0 THEN 0 ELSE (account.sun * gone) \div Filling(account)
    IN  CASE source = "out" -> [sun |-> account.sun - goneSun, grid |-> account.grid - (gone - goneSun)]
          [] source = "sun" -> [account EXCEPT !.sun = @ + n, !.grid = LaterOf(0, @ - (n - free))]
          [] source = "grid" -> [account EXCEPT !.grid = @ + n, !.sun = LaterOf(0, @ - (n - free))]
Capped(account) ==
    [sun |-> EarlierOf(account.sun, Room), grid |-> EarlierOf(account.grid, Room - EarlierOf(account.sun, Room))]

\* _origin_before: the account of the last stored hour within LookBack hours.
OriginBefore(first) ==
    LET before == {h \in Stored : h < first /\ first - h <= LookBack}
    IN  IF before = {} THEN EmptyAccount ELSE hours[Max(before)].account

\* _compute_hours: from the first of them on, the account runs through the hours.
Chain(S, minutes, pump, coarse) ==
    LET Account[h \in 0..LedgerHours] ==
          IF S = {} \/ h < Min(S) THEN EmptyAccount
          ELSE LET before == IF h = Min(S) THEN OriginBefore(h) ELSE Account[h - 1]
               IN  IF h \in S THEN Capped(Advanced(before, Weather[h], minutes[h])) ELSE before
    IN  [h \in S |-> [minutes |-> minutes[h], coarse |-> coarse, pump |-> pump[h], account |-> Account[h]]]

WithRows(a, b) == {h \in AllHours : a <= h /\ h <= b /\ rowsOf[h] > 0}
Computed(a, b) == Chain(WithRows(a, b), rowsOf, pumpRows, FALSE)

\* _repair_coarse: what the stored sums of the hours say, calculated once more.
Coarse(a, b) ==
    LET S == {h \in Stored : a <= h /\ h <= b}
    IN  Chain(S, [h \in S |-> hours[h].minutes], [h \in S |-> hours[h].pump], TRUE)

----------------------------------------------------------------------------
(* Writing *)
\* Mutant of Supersedes: what is calculated last wins.
SupersedesAlways(new, old) == TRUE
Supersedes(new, old) ==
    old = NoHour \/ new.minutes >= old.minutes \/ (~new.coarse /\ new.minutes >= FullEnough)

\* merge_hour: a consumption that the new rows know nothing of is carried over.
Merged(new, old) == IF old # NoHour /\ new.pump = 0 /\ old.pump > 0 THEN [new EXCEPT !.pump = old.pump] ELSE new

\* _merge_with_stored and upsert_energy_hours
Written(new) ==
    [h \in AllHours |-> IF h \in DOMAIN new /\ Supersedes(new[h], hours[h]) THEN Merged(new[h], hours[h])
                        ELSE hours[h]]

----------------------------------------------------------------------------
(* The sources *)
MinuteComes ==
    /\ rowsOf[hourNow] < FullHour
    /\ rowsOf' = [rowsOf EXCEPT ![hourNow] = @ + 1]
    /\ pumpRows' = [pumpRows EXCEPT ![hourNow] = @ + 1]
    /\ UNCHANGED <<hourNow, hours, refreshed, task, todo, rebuilt, ledgerStarts>>

HourPasses ==
    /\ hourNow < LedgerHours /\ hourNow' = hourNow + 1
    /\ UNCHANGED <<rowsOf, pumpRows, hours, refreshed, task, todo, rebuilt, ledgerStarts>>

----------------------------------------------------------------------------
(* The callers *)
\* refresh, up to the write: from an hour before the last one on.
RefreshBegin ==
    LaterOf(hourNow - BackHours,
            IF refreshed # 0 THEN refreshed - 1 ELSE IF Stored # {} THEN Max(Stored) - 1 ELSE 1)
Refresh ==
    /\ Quiet("refresh") /\ Computed(RefreshBegin, hourNow) # Nothing
    /\ task' = [task EXCEPT !["refresh"] = Computed(RefreshBegin, hourNow)]
    /\ UNCHANGED <<sourceVars, hours, refreshed, todo, rebuilt, ledgerStarts>>
RefreshWritten ==
    /\ ~Quiet("refresh") /\ hours' = Written(task["refresh"]) /\ refreshed' = hourNow
    /\ task' = [task EXCEPT !["refresh"] = Nothing]
    /\ UNCHANGED <<sourceVars, todo, rebuilt, ledgerStarts>>

\* The maker's cloud has the minutes of the past, not the heat pump's; what it brings is
\* recomputed at once.  It may have only n minutes of each hour.
LedgerBackfill(a, b, n) ==
    /\ "backfill" \in LedgerMishaps /\ todo = NoTodo /\ a <= b /\ b < hourNow
    /\ \E h \in a..b : rowsOf[h] < n
    /\ rowsOf' = [h \in AllHours |-> IF h \in a..b THEN LaterOf(n, rowsOf[h]) ELSE rowsOf[h]]
    /\ todo' = [first |-> a, last |-> b, repair |-> FALSE, rebuild |-> FALSE]
    /\ UNCHANGED <<hourNow, pumpRows, hours, refreshed, task, rebuilt, ledgerStarts>>

\* The rebuild of a release: every stored hour, once.
Rebuild ==
    /\ "rebuild" \in LedgerMishaps /\ ~rebuilt /\ todo = NoTodo /\ Stored # {}
    /\ todo' = [first |-> Min(Stored), last |-> hourNow, repair |-> TRUE, rebuild |-> TRUE]
    /\ UNCHANGED <<sourceVars, hours, refreshed, task, rebuilt, ledgerStarts>>

ChunkEnd == EarlierOf(todo.first + DayLength - 1, todo.last)
Chunk ==
    IF Computed(todo.first, ChunkEnd) = Nothing /\ todo.repair THEN Coarse(todo.first, ChunkEnd)
    ELSE Computed(todo.first, ChunkEnd)
NextDay == [todo EXCEPT !.first = ChunkEnd + 1]

\* recompute: a day at a time, its calculation and its write; a day without anything is passed.
RecomputeDay ==
    /\ todo.first <= todo.last /\ Quiet("recompute")
    /\ task' = [task EXCEPT !["recompute"] = Chunk]
    /\ todo' = IF Chunk = Nothing THEN NextDay ELSE todo
    /\ UNCHANGED <<sourceVars, hours, refreshed, rebuilt, ledgerStarts>>
DayWritten ==
    /\ ~Quiet("recompute") /\ hours' = Written(task["recompute"])
    /\ task' = [task EXCEPT !["recompute"] = Nothing] /\ todo' = NextDay
    /\ UNCHANGED <<sourceVars, refreshed, rebuilt, ledgerStarts>>
RecomputeDone ==
    /\ todo # NoTodo /\ todo.first > todo.last /\ Quiet("recompute")
    /\ todo' = NoTodo /\ rebuilt' = (rebuilt \/ todo.rebuild)
    /\ UNCHANGED <<sourceVars, hours, refreshed, task, ledgerStarts>>

\* HaImporter.run: hours from hourly means, each with an account of its own, in place of those
\* of which little was measured, or, up to replace_until, of all; and the consumption of the
\* heat pump for stored hours that know nothing of it.  What is there is read before, not
\* when it is written.
Replaces(new, old, again) == old = NoHour \/ again \/ (old.minutes < KeepMeasured /\ new.minutes > old.minutes)
Imported(h, pump) ==
    [minutes |-> FullHour, coarse |-> TRUE, pump |-> IF pump THEN FullHour ELSE 0,
     account |-> Capped(Advanced(EmptyAccount, Weather[h], FullHour))]
ImportRead(h, pump, again) ==
    /\ "import" \in LedgerMishaps /\ h < hourNow /\ Quiet("import")
    /\ Replaces(Imported(h, pump), hours[h], again)
    /\ task' = [task EXCEPT !["import"] = [k \in {h} |-> Imported(h, pump)]]
    /\ UNCHANGED <<sourceVars, hours, refreshed, todo, rebuilt, ledgerStarts>>
PatchRead(h) ==
    /\ "import" \in LedgerMishaps /\ h \in Stored /\ hours[h].pump = 0 /\ Quiet("import")
    /\ task' = [task EXCEPT !["import"] = [k \in {h} |-> [hours[h] EXCEPT !.pump = FullHour]]]
    /\ UNCHANGED <<sourceVars, hours, refreshed, todo, rebuilt, ledgerStarts>>
Placed(new) == [h \in AllHours |-> IF h \in DOMAIN new THEN new[h] ELSE hours[h]]
ImportWritten ==
    /\ ~Quiet("import") /\ hours' = Placed(task["import"])
    /\ task' = [task EXCEPT !["import"] = Nothing]
    /\ UNCHANGED <<sourceVars, refreshed, todo, rebuilt, ledgerStarts>>

LedgerRestart ==
    /\ ledgerStarts < LedgerRestarts /\ ledgerStarts' = ledgerStarts + 1
    /\ refreshed' = 0 /\ task' = [c \in LedgerCallers |-> Nothing] /\ todo' = NoTodo
    /\ UNCHANGED <<sourceVars, hours, rebuilt>>

LedgerNext ==
    \/ MinuteComes
    \/ HourPasses
    \/ \E h \in AllHours, pump, again \in BOOLEAN : ImportRead(h, pump, again)
    \/ \E h \in AllHours : PatchRead(h)
    \/ ImportWritten
    \/ Refresh \/ RefreshWritten
    \/ \E a, b \in AllHours, n \in 1..FullHour : LedgerBackfill(a, b, n)
    \/ Rebuild \/ RecomputeDay \/ DayWritten \/ RecomputeDone \/ LedgerRestart
LedgerSpec == LedgerInit /\ [][LedgerNext]_ledgerVars

----------------------------------------------------------------------------
\* The types: an account never holds more than the battery can.
LedgerTypeOK ==
    \A h \in Stored : Filling(hours[h].account) \in 0..Room /\ hours[h].minutes \in 1..FullHour

\* The refresh and the recomputation lose nothing and make nothing worse, whoever wrote in
\* between (_merge_with_stored): a stored hour keeps its minutes, unless a nearly complete one
\* from true minutes takes its place, and the heat pump's consumption that it knew stays.
NothingWorse ==
    [][RefreshWritten \/ DayWritten =>
         \A h \in Stored :
           /\ hours'[h].minutes >= hours[h].minutes \/ (~hours'[h].coarse /\ hours'[h].minutes >= FullEnough)
           /\ hours[h].pump > 0 => hours'[h].pump > 0]_ledgerVars
=============================================================================
