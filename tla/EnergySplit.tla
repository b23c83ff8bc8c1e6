----------------------------- MODULE EnergySplit -----------------------------
(* One hour of the energy balance, from its minute rows: fill_gaps holds a     *)
(* value until the next one, with_charge_window gives the battery the sun of a *)
(* few minutes around, hourly_energy divides each minute between the sources   *)
(* and the loads, and BatteryOrigin keeps account of where the charge of the   *)
(* battery came from.  The rows arrive in the order of time; after each of     *)
(* them the hour is calculated anew.  Powers are whole numbers, so are the     *)
(* energies, a minute's power each; prices and money are left out.             *)
EXTENDS Integers, FiniteSets, FiniteSetsExt

CONSTANTS
    SplitMinutes,        \* the minutes of an hour
    SunPowers, MeterPowers, BatteryPowers,  \* what a row may say
    MaxHold,        \* MAX_HOLD_MIN
    HalfWindow,     \* CHARGE_WINDOW_MIN
    IdlePower,      \* inverter_idle_kw
    Capacity,       \* capacity_kwh
    Silent          \* a field without a value

Fields == {"pv", "grid", "bat"}
NoRow == [f \in Fields |-> Silent]
SplitRows == [pv : SunPowers \cup {Silent}, grid : MeterPowers, bat : BatteryPowers \cup {Silent}]

\* Powers, limits and the capacity are whole numbers, and silence is none.
ASSUME SplitAssumption ==
    /\ SplitMinutes \in Nat /\ MaxHold \in Nat /\ HalfWindow \in Nat /\ IdlePower \in Nat /\ Capacity \in Nat
    /\ SunPowers \subseteq Int /\ MeterPowers \subseteq Int /\ BatteryPowers \subseteq Int
    /\ Silent \notin Int

VARIABLES
    lastHeld,        \* of each field: the value measured last and its age, MaxHold + 1 at most
    rows,        \* of each minute so far: the row as filled, NoRow if there is none
    lastRow,     \* the last minute that had a row of its own; nothing is carried on past it
    inBattery,      \* BatteryOrigin at the start of the hour
    fresh,       \* the hour has been calculated from the rows there are
    flows,       \* of each booked minute: what the calculation made of it
    account      \* BatteryOrigin before the first minute and after each
splitVars == <<lastHeld, rows, lastRow, inBattery, fresh, flows, account>>

Max0(x) == IF x > 0 THEN x ELSE 0
Lesser(a, b) == IF a < b THEN a ELSE b
Now == Cardinality(DOMAIN rows)
Total(g(_), S) == FoldSet(LAMBDA m, sum : g(m) + sum, 0, S)

----------------------------------------------------------------------------
(* fill_gaps *)
Forgotten == [value |-> Silent, age |-> 0]
HeldAfter(row) ==
    [f \in Fields |-> IF row[f] # Silent THEN [value |-> row[f], age |-> 0]
                      ELSE [lastHeld[f] EXCEPT !.age = Lesser(@ + 1, MaxHold + 1)]]
Recent(h) == h.value # Silent /\ h.age <= MaxHold

\* Mutant of Held: a zero grows old like any value.
HeldBriefly(h) == IF Recent(h) THEN h.value ELSE Silent
\* A value holds for MaxHold minutes, a zero for ever.
Held(h) == IF Recent(h) \/ h.value = 0 THEN h.value ELSE Silent

\* A minute exists only if some field is recent.
Filled(row) ==
    IF \E f \in Fields : Recent(HeldAfter(row)[f])
    THEN [f \in Fields |-> Held(HeldAfter(row)[f])] ELSE NoRow

----------------------------------------------------------------------------
(* with_charge_window and hourly_energy *)
\* Without the sun and the meter there is no balance.
Booked == {m \in 1..lastRow : rows[m].pv # Silent /\ rows[m].grid # Silent}
Sun(m) == Max0(rows[m].pv)
Battery(m) == IF rows[m].bat = Silent THEN 0 ELSE rows[m].bat
Charged(m) == Max0(-Battery(m))
Discharged(m) == Max0(Battery(m))
House(m) == Max0(Sun(m) + rows[m].grid + Battery(m))

\* The share of the charge that the sun of the minutes around covers, as a fraction.
Around(m) == {k \in Booked : k \in (m - HalfWindow)..(m + HalfWindow)}
SunAround(m) == Total(Sun, Around(m))
ChargedAround(m) == Total(Charged, Around(m))
SunShare(m, x) ==
    IF ChargedAround(m) = 0 THEN 0 ELSE (x * Lesser(SunAround(m), ChargedAround(m))) \div ChargedAround(m)

\* The device itself draws while it charges; the rest of the charge gets the sun first.
DeviceUse(m) == Lesser(IdlePower, Charged(m))
SunToBattery(m) == SunShare(m, Charged(m) - DeviceUse(m))
GridToBattery(m) == Charged(m) - DeviceUse(m) - SunToBattery(m)
SunToHouse(m) == Lesser(Max0(Sun(m) - SunToBattery(m) - SunShare(m, DeviceUse(m))), House(m))
BatteryToHouse(m) == Lesser(Discharged(m), House(m) - SunToHouse(m))

----------------------------------------------------------------------------
(* BatteryOrigin *)
\* charge: what does not fit is taken from both parts alike.
After(origin, sun, grid) ==
    LET pv == origin.pv + sun  all == pv + origin.grid + grid
    IN  IF all <= Capacity THEN [pv |-> pv, grid |-> origin.grid + grid]
        ELSE [pv |-> (pv * Capacity) \div all, grid |-> Capacity - (pv * Capacity) \div all]

Content(origin) == origin.pv + origin.grid
\* discharge: the sun's part of what is taken, and what the account cannot give, a guess.
Taken(origin, x) == Lesser(x, Content(origin))
SunTaken(origin, x) == IF Content(origin) = 0 THEN 0 ELSE (origin.pv * Taken(origin, x)) \div Content(origin)
Without(origin, x) ==
    [pv |-> origin.pv - SunTaken(origin, x), grid |-> origin.grid - (Taken(origin, x) - SunTaken(origin, x))]

SplitInit ==
    /\ lastHeld = [f \in Fields |-> Forgotten] /\ rows = [m \in {} |-> NoRow] /\ lastRow = 0 /\ fresh = TRUE
    /\ inBattery \in {o \in [pv : 0..Capacity, grid : 0..Capacity] : Content(o) \in {0, Capacity}}
    /\ flows = [m \in {} |-> 0] /\ account = [m \in {0} |-> inBattery]

RowArrives(row) ==
    /\ Now < SplitMinutes /\ fresh
    /\ rows' = [m \in 1..(Now + 1) |-> IF m <= Now THEN rows[m] ELSE Filled(row)]
    /\ lastHeld' = HeldAfter(row) /\ lastRow' = IF row = NoRow THEN lastRow ELSE Now + 1
    /\ fresh' = FALSE /\ UNCHANGED <<inBattery, flows, account>>

\* What a minute's flows do to the account, the sun that came out of it for the house,
\* and the hour with all of its minutes.
Charged1(m, before) == After(before, SunToBattery(m), GridToBattery(m))
AccountAfter(m, before) ==
    IF m \in Booked THEN Without(Charged1(m, before), Discharged(m)) ELSE before
SunFromBattery(m, before) ==
    IF Discharged(m) = 0 THEN 0
    ELSE (SunTaken(Charged1(m, before), Discharged(m)) * BatteryToHouse(m)) \div Discharged(m)

HourCalculated ==
    /\ ~fresh /\ fresh' = TRUE
    /\ LET Walk[m \in 0..Now] == IF m = 0 THEN inBattery ELSE AccountAfter(m, Walk[m - 1])
       IN  /\ account' = [m \in 0..Now |-> Walk[m]]
           /\ flows' = [m \in Booked |->
                 [sun |-> Sun(m), sunIn |-> SunToBattery(m), sunOut |-> SunFromBattery(m, Walk[m - 1])]]
    /\ UNCHANGED <<lastHeld, rows, lastRow, inBattery>>

SplitNext == (\E row \in SplitRows \cup {NoRow} : RowArrives(row)) \/ HourCalculated
SplitSpec == SplitInit /\ [][SplitNext]_splitVars

----------------------------------------------------------------------------
BookedNow == DOMAIN flows
SumOf(part) == LET Part(m) == flows[m][part] IN Total(Part, BookedNow)

\* The types: the account of the battery stays within what the battery can hold.
SplitTypeOK ==
    /\ \A f \in Fields : lastHeld[f].age <= MaxHold + 1 /\ lastRow \in 0..Now
    /\ \A m \in DOMAIN account : account[m].pv \in Nat /\ account[m].grid \in Nat
                               /\ Content(account[m]) <= Capacity

\* The sun that the bill finds in the battery has been there: over an hour no more of it
\* comes out for the house than was in at the start and has gone in (battery_pv_to_house_kwh
\* without battery_origin_estimated_kwh).
SunOutOfBattery == SumOf("sunOut") <= inBattery.pv + SumOf("sunIn")

\* The night stays in the balance: the sun's meter that said zero and nothing since takes no
\* minute out of it in which the house's meter has a value.
NightBooked == fresh /\ lastRow = Now /\ Now > 0 /\ lastHeld["pv"].value = 0 /\ Recent(lastHeld["grid"]) => Now \in BookedNow

\* The origin of the battery's energy and the booking of the hour, of all_held and split_hour.
BookedRight == SunOutOfBattery /\ NightBooked
=============================================================================
