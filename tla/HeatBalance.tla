----------------------------- MODULE HeatBalance -----------------------------
(* The heat balance of a period: minute rows are stored and summed up to hours  *)
(* (refresh_heat_hours); a short period is balanced from its minutes, a long    *)
(* one from its stored hours read back as samples (_samples_for), both by       *)
(* heat_series and heat_totals, and the draw of a minute is split among the     *)
(* rooms whose valves are open (ventilation_split).  A temperature stands for   *)
(* the buffer's content, heights of layers are left out, and so are costs,      *)
(* texts and the outdoor temperature's part in the COP.  Powers are counted in  *)
(* 1/Scale so that every division the model meets comes out even.               *)
EXTENDS Integers, Sequences, FiniteSets, FiniteSetsExt

CONSTANTS
    HeatRows,       \* rows a minute may have: content ({} if a sensor fails), pump, level (-1 unknown), valves, windows
    HeatMinutes,    \* the minutes of the history
    HourMinutes,    \* minutes of an hour
    MinuteLimit,    \* HEAT_MINUTE_DAYS: a period with more minutes is balanced from its hours
    GapLimit, BufferWindow,     \* MAX_GAP_MIN and BUFFER_WINDOW_MIN
    PowerLimit,     \* grenze: what producers and circuits can carry, per minute
    CopBase, CopContent,        \* the COP at the reference content; per content above it falls
    LossDivisor, LossUseful,    \* content per unit of loss; the useful share of it in parts of 1/Scale
    StoveLow, StoveHigh, StoveLevels, RoomPart, \* stove's heat at the lowest and highest level, what the room gets
    Circuits,       \* the heating circuits of each room
    Scale

\* Contents and powers are whole numbers, a level of the stove above the lowest is more heat over at
\* least one level, and a minute's unit is fine enough for the distance of two readings.
ASSUME HeatAssumption ==
    /\ HeatMinutes \in Nat /\ HourMinutes \in Nat \ {0} /\ GapLimit \in Nat /\ BufferWindow \in Nat
    /\ PowerLimit \in Int /\ CopBase \in Int /\ CopContent \in Int /\ LossDivisor \in Nat \ {0}
    /\ StoveLow \in Int /\ StoveHigh \in Int /\ StoveLevels \in Nat \ {0, 1} /\ RoomPart \in Nat \ {0}
    /\ Scale \in Nat /\ \A d \in 1..(GapLimit + BufferWindow) : Scale % d = 0
    /\ \A row \in HeatRows :
          /\ row.pump \in Int /\ row.level \in Int
          /\ row.content \subseteq Int /\ \A b, c \in row.content : b = c

VARIABLES
    heatMinutes,    \* the stored minute rows
    heatClock,      \* the next minute to come
    heatHours,      \* the table heat_hours
    balance         \* the report: samples used, points, totals, ventilation; {} before
heatVars == <<heatMinutes, heatClock, heatHours, balance>>

HeatInit == heatMinutes = [m \in {} |-> 0] /\ heatClock = 0 /\ heatHours = [h \in {} |-> 0] /\ balance = {}

HeatRow(row) ==
    /\ heatClock < HeatMinutes /\ balance = {} /\ heatClock' = heatClock + 1
    /\ heatMinutes' = [m \in DOMAIN heatMinutes \cup {heatClock} |-> IF m = heatClock THEN row ELSE heatMinutes[m]]
    /\ UNCHANGED <<heatHours, balance>>

HeatRowLost ==
    /\ heatClock < HeatMinutes /\ balance = {} /\ heatClock' = heatClock + 1
    /\ UNCHANGED <<heatMinutes, heatHours, balance>>

----------------------------------------------------------------------------

\* The rows of the hour that starts at h.
RowsOf(h) == {m \in DOMAIN heatMinutes : m >= h /\ m < h + HourMinutes}

\* hourly_inputs
HourInput(h) ==
    LET rows == RowsOf(h)
        measured == {m \in rows : heatMinutes[m].content # {}}
        stoveOn == {m \in rows : heatMinutes[m].level > 0}
    IN  [electric |-> MapThenSumSet(LAMBDA m : heatMinutes[m].pump, rows),
         content |-> IF measured = {} THEN {} ELSE {MapThenSumSet(LAMBDA m : Max(heatMinutes[m].content), measured) \div Cardinality(measured)},
         stoveMinutes |-> Cardinality(stoveOn),
         level |-> IF stoveOn = {} THEN 0 ELSE MapThenSumSet(LAMBDA m : heatMinutes[m].level, stoveOn) \div Cardinality(stoveOn)]

\* refresh_heat_hours from the hour h on, upsert_heat_hours: an hour without a row keeps what is stored.
RefreshHeatHours(h) ==
    LET hours == {k \in h..heatClock : k % HourMinutes = 0 /\ RowsOf(k) # {}}
    IN  /\ balance = {} /\ h <= heatClock /\ h % HourMinutes = 0
        /\ heatHours' = [k \in DOMAIN heatHours \cup hours |-> IF k \in hours THEN HourInput(k) ELSE heatHours[k]]
        /\ UNCHANGED <<heatMinutes, heatClock, balance>>

\* samples_from_hours: an hour's energy is the power of its one sample.  The layers that _schichten
\* makes of top and mean have that mean again, so that the content stays.
SampleOfHour(hour) ==
    [content |-> hour.content, pump |-> hour.electric, level |-> IF hour.stoveMinutes > 0 THEN hour.level ELSE 0,
     valves |-> {}, windows |-> {}]

----------------------------------------------------------------------------
\* cop_for: the warmer the buffer, the less heat from a unit of current.
Cop(content) ==
    IF content = {} THEN CopBase
    ELSE Max({1, CopBase - (IF Max(content) > CopContent THEN Max(content) - CopContent ELSE 0)})

\* stove_output_kw: to the water and to the room.
StoveHeat(level) == StoveLow + ((StoveHigh - StoveLow) * (Min({level, StoveLevels}) - 1)) \div (StoveLevels - 1)
StoveToRoom(level) == IF level = 0 THEN 0 ELSE StoveHeat(level) \div RoomPart
StoveToWater(level) == IF level = 0 THEN 0 ELSE StoveHeat(level) - StoveToRoom(level)

MeasuredAt(s) == {t \in DOMAIN s : s[t].content # {}}
\* _letzte_vor: the last reading half a window before, else the first one there is.
ReadingBefore(s, t) ==
    LET before == {u \in MeasuredAt(s) : u <= t}
        far == {u \in before : 2 * (t - u) >= BufferWindow}
    IN  IF far # {} THEN {Max(far)} ELSE IF before # {} THEN {Min(before)} ELSE {}
\* _erste_nach: the first reading half a window later, else the last one there is.
ReadingAfter(s, t) ==
    LET after == {u \in MeasuredAt(s) : u >= t}
        far == {u \in after : 2 * (u - t) >= BufferWindow}
    IN  IF far # {} THEN {Min(far)} ELSE IF after # {} THEN {Max(after)} ELSE {}

\* What the content changes from a reading to a later one.
ContentGain(s, p) == Max(s[p[2]].content) - Max(s[p[1]].content)
\* Mutant of Apart: an outage of any length is bridged.
ApartAnyhow(a, b) == b > a
\* Two readings that make a power together.
Apart(a, b) == b > a /\ b - a <= GapLimit + BufferWindow
\* buffer_power_kw: what the buffer takes in, or {} when nothing can be said.
BufferPower(s, t) ==
    {(Scale * ContentGain(s, p)) \div (p[2] - p[1]) :
        p \in {q \in ReadingBefore(s, t) \X ReadingAfter(s, t) : Apart(q[1], q[2])}}

\* heat_series: one point.  What cannot be said is no draw and no residual.
HeatPoint(s, t) ==
    LET change == {c \in BufferPower(s, t) : c <= Scale * PowerLimit /\ c >= 0 - Scale * PowerLimit}
        pump == Scale * s[t].pump * Cop(s[t].content)
        water == Scale * StoveToWater(s[t].level)
        loss == IF s[t].content = {} THEN 0 ELSE (Scale * Max(s[t].content)) \div LossDivisor
        rest == pump + water - loss - Max(change)
    IN  [pump |-> pump, water |-> water, room |-> Scale * StoveToRoom(s[t].level), loss |-> loss,
         useful |-> (loss * LossUseful) \div Scale, unknown |-> change = {},
         draw |-> IF change = {} \/ rest < 0 THEN 0 ELSE rest, residual |-> IF change = {} \/ rest > 0 THEN 0 ELSE rest]

\* heat_totals
HeatTotals(s, points, step) ==
    [heat |-> step * MapThenSumSet(LAMBDA t : points[t].pump + points[t].water + points[t].room, DOMAIN s),
     draw |-> step * MapThenSumSet(LAMBDA t : points[t].draw, DOMAIN s),
     residual |-> step * MapThenSumSet(LAMBDA t : points[t].residual, DOMAIN s),
     loss |-> step * MapThenSumSet(LAMBDA t : points[t].loss, DOMAIN s),
     electric |-> step * MapThenSumSet(LAMBDA t : s[t].pump, DOMAIN s),
     change |-> IF Cardinality(MeasuredAt(s)) < 2 THEN 0
                ELSE Max(s[Max(MeasuredAt(s))].content) - Max(s[Min(MeasuredAt(s))].content),
     stoveMinutes |-> step * Cardinality({t \in DOMAIN s : s[t].level > 0}),
     unknown |-> Cardinality({t \in DOMAIN s : points[t].unknown})]

\* ventilation_split: a minute's draw goes to the rooms by their open circuits; what goes to a room
\* with an open window is aired out.  Per room, and only from minutes.
RoomWeight(row, r) == IF r \in row.valves THEN Max({1, Circuits[r]}) ELSE 0
AllWeight(row) == MapThenSumSet(LAMBDA r : RoomWeight(row, r), DOMAIN Circuits)
AiredOut(s, points) ==
    [r \in DOMAIN Circuits |->
        MapThenSumSet(LAMBDA t : (points[t].draw * RoomWeight(s[t], r)) \div AllWeight(s[t]),
                      {t \in DOMAIN s : r \in s[t].windows \cap s[t].valves})]

\* Consecutive complete readings, whatever lies between them.
Pairs(s) == {p \in MeasuredAt(s) \X MeasuredAt(s) : p[1] < p[2] /\ \A t \in MeasuredAt(s) : t <= p[1] \/ t >= p[2]}
GainOver(s, pairs) == MapThenSumSet(LAMBDA p : ContentGain(s, p), pairs)
\* _buffer_balance: what the buffer gained with the heat pump, with the stove, and without a reason.
BufferBalance(s) ==
    LET risen == {p \in Pairs(s) : ContentGain(s, p) >= 0}
        alone == {p \in risen : s[p[2]].pump = 0}
    IN  [gain |-> GainOver(s, risen), drop |-> 0 - GainOver(s, Pairs(s) \ risen),
         withPump |-> GainOver(s, risen \ alone), without |-> GainOver(s, alone),
         withStove |-> GainOver(s, {p \in alone : s[p[2]].level > 0}),
         unexplained |-> GainOver(s, {p \in alone : s[p[2]].level = 0})]

Balanced(s, step) ==
    LET points == [t \in DOMAIN s |-> HeatPoint(s, t)]
    IN  {[samples |-> s, points |-> points, totals |-> HeatTotals(s, points, step), step |-> step,
          buffer |-> BufferBalance(s), aired |-> IF step > 1 THEN [r \in DOMAIN Circuits |-> 0] ELSE AiredOut(s, points)]}

\* heat_balance over the minutes from 0 to the one before stop (_samples_for).
ReportHeat(stop) ==
    /\ balance = {} /\ heatClock = HeatMinutes
    /\ balance' = IF stop <= MinuteLimit
                  THEN Balanced([m \in {k \in DOMAIN heatMinutes : k < stop} |-> heatMinutes[m]], 1)
                  ELSE Balanced([h \in {k \in DOMAIN heatHours : k < stop} |-> SampleOfHour(heatHours[h])], HourMinutes)
    /\ UNCHANGED <<heatMinutes, heatClock, heatHours>>

HeatNext ==
    \/ \E row \in HeatRows : HeatRow(row)
    \/ HeatRowLost
    \/ \E h \in 0..HeatMinutes : RefreshHeatHours(h)
    \/ \E stop \in {MinuteLimit, HeatMinutes} : ReportHeat(stop)
HeatSpec == HeatInit /\ [][HeatNext]_heatVars

----------------------------------------------------------------------------
\* A silent sensor invents no draw: a sample whose draw the report tells lies between two readings
\* of the buffer with at most a gap and a window between them, and what it tells fits the sources,
\* the loss and the change of the content between just these readings (buffer_power_kw, heat_series).
DrawIsMeasured ==
    \A r \in balance : \A t \in DOMAIN r.points :
        r.points[t].unknown \/
        \E a \in MeasuredAt(r.samples), b \in MeasuredAt(r.samples) :
            /\ a <= t /\ t <= b /\ a < b /\ b - a <= GapLimit + BufferWindow
            /\ (b - a) * (r.points[t].pump + r.points[t].water - r.points[t].loss - r.points[t].draw - r.points[t].residual)
                  = Scale * (Max(r.samples[b].content) - Max(r.samples[a].content))

\* Sorting the buffer's changes by their reasons loses none: gains less drops are the change of the
\* content from the first complete reading to the last, incomplete ones between them or not, and
\* the gains are those with and without the heat pump (_buffer_balance, heat_totals).
GainsClose ==
    \A r \in balance :
        /\ r.buffer.gain - r.buffer.drop = r.totals.change
        /\ r.buffer.gain = r.buffer.withPump + r.buffer.without
        /\ r.buffer.withStove + r.buffer.unexplained <= r.buffer.without

\* The balance of the heating closes, sample by sample and over the period.
BalanceCloses == DrawIsMeasured /\ GainsClose

\* What the docstring of samples_from_hours says of the long period: it is the same balance, only
\* coarser.  With all minutes measured and all hours stored it tells a draw at least somewhere.
HoursTellDraw ==
    \A r \in balance :
        (/\ r.step > 1 /\ DOMAIN heatMinutes = 0..(HeatMinutes - 1) /\ \A m \in DOMAIN heatMinutes : heatMinutes[m].content # {}
         /\ Cardinality(DOMAIN r.samples) >= 2)
        => \E t \in DOMAIN r.points : ~r.points[t].unknown
=============================================================================
